------------------------- MODULE NoeRuntime_proofs -------------------------
(* Proofs about NoeRuntime: for any validation, projection and meaning, any  *)
(* number of threads, and whatever is written to the context meanwhile.      *)
EXTENDS NoeRuntime, TLAPS

-----------------------------------------------------------------------------
(* The inductive invariant.                                                  *)

Calls == [chain : Chains \cup {NoChain}, parent : Parents \cup {NoParent},
          tree : (Chains \ Unparsable) \cup {NoChain},
          failure : Failures \cup {"none"}, noSnapshot : BOOLEAN]

\* The hashes of a snapshot are those of the layers it carries.
Whole(s) ==
    /\ s.structured = [root |-> s.structured.root, domain |-> s.structured.domain,
                       local |-> s.structured.local]
    /\ s.rootHash = Digest(s.structured.root)
    /\ s.domainHash = Digest(s.structured.domain)
    /\ s.localHash = Digest(s.structured.local)
    /\ s.composite = Composite(s.rootHash, s.domainHash, s.localHash)

\* What a call has found out on its way: a snapshot that is whole; after the gates
\* that they were passed by it, and that the tree is the chain's.
WayInv(t) ==
    /\ pc[t] \in {"gates", "validate"} => Whole(snapped[t])
    /\ pc[t] = "validate" =>
        /\ PackMatches(t) /\ FreshEnough(t) /\ ShapeOK(t)
        /\ call[t].tree = call[t].chain /\ call[t].chain \notin Unparsable
    /\ pc[t] = "handler" => call[t].failure \in Failures

\* What DecisionReplays says of one outcome.
Replays(r, strict, pack) ==
    LET p == r.provenance
        layers == Recorded(p)
        safe == Project(layers)
        commits == r.record.hash[2]
    IN  /\ p.composite = Composite(p.root, p.domain, p.local)
        /\ r.hash = Digest(safe) /\ p.context = r.hash
        /\ Accepts(strict, r.chain, layers)
        /\ strict => WellShaped(layers)
        /\ pack # NoPack => layers.domain = pack
        /\ p.pack = p.domain
        /\ r.domain = Meaning(r.chain, safe)
        /\ r.value = <<r.chain, safe>>
        /\ \A id \in p.identities : id[3] = r.chain /\ id[4] = r.hash
        /\ commits.content.context = Digest(safe)
        /\ commits.content.domain = Meaning(commits.content.tree, safe)
        /\ commits.identities = p.identities
        /\ \A id \in commits.identities :
             id[1] = "child_action" => id[2] = commits.content.parent

IInv ==
    /\ config \in Configs
    /\ pc \in [Evaluators -> Labels]
    /\ call \in [Evaluators -> Calls]
    /\ outcome = [t \in Evaluators |-> outcome[t]]
    /\ snapped = [t \in Threads |-> snapped[t]]
    /\ \A t \in Evaluators :
        /\ outcome[t].kind \in {"none", "result", "exception"}
        /\ WayInv(t)
        /\ IsDecision(outcome[t]) => Replays(outcome[t], config.strict, config.pack)

-----------------------------------------------------------------------------
(* Snapshots and decisions.                                                  *)

\* A snapshot of the store is whole.
LEMMA ViewIsWhole ==
    ASSUME NEW time
    PROVE  Whole(Store!View(time))
<1> DEFINE v == Store!View(time)
<1>1. /\ v.structured = [root |-> root, domain |-> domain, local |-> local]
      /\ v.rootHash = Digest(root) /\ v.domainHash = Digest(domain)
      /\ v.localHash = Digest(local)
      /\ v.composite = Composite(Digest(root), Digest(domain), Digest(local))
  BY DEF Store!View, Store!Digest, Digest, Store!Composite, Composite
<1>2. /\ v.structured.root = root /\ v.structured.domain = domain
      /\ v.structured.local = local
  BY <1>1
<1> HIDE DEF v
<1>3. Whole(v)
  BY <1>1, <1>2 DEF Whole
<1>4. QED
  BY <1>3 DEF v

\* A hash stands for one value.
LEMMA DigestInjective ==
    ASSUME NEW x, NEW y, Digest(x) = Digest(y)
    PROVE  x = y
<1>1. Digest(x).sha256 = x /\ Digest(y).sha256 = y
  BY DEF Digest
<1>2. QED
  BY <1>1

\* A chain that has passed every gate gives a decision that replays.
LEMMA DecisionsReplay ==
    ASSUME IInv, NEW t \in Evaluators, Validated(t),
           Meaning(call[t].tree, CSafe(t)) \notin Failures
    PROVE  Replays(WithProvenance(t, Decision(t, Meaning(call[t].tree, CSafe(t)))),
                   config.strict, config.pack)
<1> DEFINE dom == Meaning(call[t].tree, CSafe(t))
           d == Decision(t, dom)
           r == WithProvenance(t, d)
<1>1. /\ Whole(Snap(t)) /\ PackMatches(t) /\ ShapeOK(t)
      /\ call[t].tree = call[t].chain /\ call[t].chain \notin Unparsable
      /\ Accepts(config.strict, call[t].chain, Layers(t))
  BY DEF IInv, WayInv, Validated, Snap
<1>2. /\ d.domain = dom /\ d.value = <<call[t].tree, CSafe(t)>> /\ d.chain = call[t].chain
      /\ d.hash = HSafe(t) /\ d.provenance = Provenance(t, dom)
      /\ d.kind = "result"
  BY DEF Decision
<1>3. /\ r.domain = dom /\ r.value = <<call[t].tree, CSafe(t)>> /\ r.chain = call[t].chain
      /\ r.hash = HSafe(t) /\ r.provenance = Provenance(t, dom)
      /\ r.record.hash[2].content = [chain |-> d.chain, context |-> d.hash,
                    domain |-> d.domain, value |-> d.value, parent |-> call[t].parent,
                    tree |-> d.chain]
      /\ r.record.hash[2].identities = d.provenance.identities
  BY <1>1, <1>2 DEF WithProvenance, ProvenanceRecord
<1>4. Recorded(r.provenance) = Layers(t)
  <2>1. /\ r.provenance.root.sha256 = Layers(t).root
        /\ r.provenance.domain.sha256 = Layers(t).domain
        /\ r.provenance.local.sha256 = Layers(t).local
    BY <1>1, <1>3 DEF Provenance, Whole, Digest, Layers, Snap
  <2>2. QED
    BY <1>1, <2>1 DEF Recorded, Whole, Layers, Snap
<1>5. config.pack # NoPack => Layers(t).domain = config.pack
  BY <1>1, DigestInjective DEF PackMatches, Whole, Layers, Snap
<1>6. PackHash(t) = Snap(t).domainHash
  BY <1>1 DEF PackHash, PackMatches
<1>7. \A id \in Provenance(t, dom).identities :
        /\ id[3] = call[t].chain /\ id[4] = HSafe(t)
        /\ id[1] = "child_action" => id[2] = call[t].parent
  BY DEF Provenance, Identity
<1>8. /\ r.provenance.pack = PackHash(t) /\ r.provenance.context = HSafe(t)
      /\ r.provenance.root = Snap(t).rootHash /\ r.provenance.domain = Snap(t).domainHash
      /\ r.provenance.local = Snap(t).localHash
      /\ r.provenance.composite = Snap(t).composite
  BY <1>3 DEF Provenance
<1>9. /\ r.record.hash[2].content.context = HSafe(t)
      /\ r.record.hash[2].content.domain = dom
      /\ r.record.hash[2].content.tree = call[t].chain
      /\ r.record.hash[2].content.parent = call[t].parent
      /\ r.record.hash[2].identities = r.provenance.identities
  BY <1>2, <1>3
<1>10. dom = Meaning(call[t].chain, CSafe(t)) /\ CSafe(t) = Project(Layers(t))
       /\ HSafe(t) = Digest(CSafe(t))
  BY <1>1 DEF CSafe, HSafe
<1>11. config.strict => WellShaped(Layers(t))
  BY <1>1 DEF ShapeOK
<1>12. \A id \in r.provenance.identities :
        /\ id[3] = call[t].chain /\ id[4] = HSafe(t)
        /\ id[1] = "child_action" => id[2] = call[t].parent
  BY <1>3, <1>7
<1> HIDE DEF dom, d, r
<1>13. Replays(r, config.strict, config.pack)
  BY <1>1, <1>3, <1>4, <1>5, <1>6, <1>8, <1>9, <1>10, <1>11, <1>12 DEF Replays, Whole
<1>14. QED
  BY <1>13 DEF dom, d, r

-----------------------------------------------------------------------------
(* The steps.                                                                *)

\* What the store does to the snapshots: a step of one thread leaves those of the
\* others.
SnapshotsOfOthers(t) ==
    /\ snapped' = [u \in Threads |-> snapped'[u]]
    /\ \A u \in Evaluators : u # t => snapped'[u] = snapped[u]

\* One thread is given a snapshot.
LEMMA OneSnapshot ==
    ASSUME IInv, NEW t \in Evaluators, NEW s, snapped' = [snapped EXCEPT ![t] = s]
    PROVE  SnapshotsOfOthers(t) /\ snapped'[t] = s
<1>1. t \in Threads /\ snapped = [u \in Threads |-> snapped[u]]
  BY DEF IInv, Threads
<1>2. snapped' = [u \in Threads |-> IF u = t THEN s ELSE snapped[u]]
  BY <1>1
<1>3. \A u \in Evaluators : u \in Threads
  BY DEF Threads
<1>4. QED
  BY <1>1, <1>2, <1>3 DEF SnapshotsOfOthers

\* A step of one evaluation leaves the invariant to be shown of that one only.
LEMMA OneStep ==
    ASSUME IInv, NEW t \in Evaluators, UNCHANGED config, SnapshotsOfOthers(t),
           NEW label \in Labels, pc' = [pc EXCEPT ![t] = label],
           NEW c \in Calls, call' = [call EXCEPT ![t] = c],
           NEW o, outcome' = [outcome EXCEPT ![t] = o],
           o.kind \in {"none", "result", "exception"},
           IsDecision(o) => Replays(o, config.strict, config.pack),
           WayInv(t)'
    PROVE  IInv'
<1>1. /\ pc' \in [Evaluators -> Labels]
      /\ call' \in [Evaluators -> Calls]
      /\ outcome' = [u \in Evaluators |-> outcome'[u]]
      /\ outcome'[t] = o
      /\ \A u \in Evaluators : u # t =>
            /\ pc'[u] = pc[u] /\ call'[u] = call[u] /\ outcome'[u] = outcome[u]
            /\ snapped'[u] = snapped[u]
  BY DEF IInv, SnapshotsOfOthers
<1>2. \A u \in Evaluators : u # t => WayInv(u)'
  BY <1>1 DEF IInv, WayInv, PackMatches, FreshEnough, ShapeOK, Snap, Layers
<1>3. \A u \in Evaluators :
        /\ outcome'[u].kind \in {"none", "result", "exception"}
        /\ IsDecision(outcome'[u]) => Replays(outcome'[u], config.strict, config.pack)
  BY <1>1 DEF IInv
<1>4. WayInv(t)'
  OBVIOUS
<1>5. ASSUME NEW u \in Evaluators
      PROVE  (IsDecision(outcome[u]) => Replays(outcome[u], config.strict, config.pack))'
  <2>1. IsDecision(outcome'[u]) => Replays(outcome'[u], config.strict, config.pack)
    BY <1>3
  <2>2. config' = config
    OBVIOUS
  <2>3. QED
    BY <2>1, <2>2 DEF IsDecision, Replays, Recorded
<1>6. config' \in Configs /\ snapped' = [u \in Threads |-> snapped'[u]]
  BY DEF IInv, SnapshotsOfOthers
<1>7. QED
  BY <1>1, <1>2, <1>3, <1>4, <1>5, <1>6 DEF IInv

\* A step that leaves outcome and snapshots alone.
LEMMA QuietStep ==
    ASSUME IInv, NEW t \in Evaluators, UNCHANGED <<config, snapped, outcome>>,
           NEW label \in Labels, pc' = [pc EXCEPT ![t] = label],
           NEW c \in Calls, call' = [call EXCEPT ![t] = c],
           WayInv(t)'
    PROVE  IInv'
<1>1. SnapshotsOfOthers(t)
  BY DEF SnapshotsOfOthers, IInv
<1>2. outcome' = [outcome EXCEPT ![t] = outcome[t]]
  BY DEF IInv
<1>3. /\ outcome[t].kind \in {"none", "result", "exception"}
      /\ IsDecision(outcome[t]) => Replays(outcome[t], config.strict, config.pack)
  BY DEF IInv
<1>4. QED
  BY <1>1, <1>2, <1>3, OneStep

\* A new call has everything before it.
LEMMA EvaluateKeeps ==
    ASSUME IInv, NEW t \in Evaluators, NEW chain \in Chains,
           NEW parent \in Parents \cup {NoParent}, Evaluate(t, chain, parent)
    PROVE  IInv'
<1> DEFINE c == [call[t] EXCEPT !.chain = chain, !.parent = parent]
<1>1. call[t] \in Calls
  BY DEF IInv
<1>2. /\ UNCHANGED <<config, snapped>> /\ "snapshot" \in Labels
      /\ pc' = [pc EXCEPT ![t] = "snapshot"]
      /\ call' = [call EXCEPT ![t] = c]
      /\ outcome' = [outcome EXCEPT ![t] = NoOutcome]
  BY DEF Evaluate, Goto, Store!Ask, Labels
<1>3. c \in Calls
  BY <1>1 DEF Calls
<1>4. NoOutcome.kind = "none" /\ ~IsDecision(NoOutcome)
  BY DEF NoOutcome, IsDecision
<1>5. WayInv(t)'
  BY <1>2 DEF WayInv, IInv
<1>6. SnapshotsOfOthers(t)
  BY <1>2 DEF SnapshotsOfOthers, IInv
<1> HIDE DEF c
<1>7. QED
  BY <1>2, <1>3, <1>4, <1>5, <1>6, OneStep

\* The snapshot that a call takes is whole.
LEMMA TakeSnapshotKeeps ==
    ASSUME IInv, NEW t \in Evaluators, TakeSnapshot(t)
    PROVE  IInv'
<1> DEFINE v == Store!View(asked[t])
<1>0. Whole(v)
  BY ViewIsWhole
<1>1. call[t] \in Calls /\ t \in Threads
  BY DEF IInv, Threads
<1>2. /\ UNCHANGED <<config, call, outcome>> /\ "gates" \in Labels
      /\ pc' = [pc EXCEPT ![t] = "gates"]
      /\ snapped' = [snapped EXCEPT ![t] = v]
  BY DEF TakeSnapshot, Goto, Store!TakeSnapshot, Store!Answer, Store!Respond, Labels
<1> HIDE DEF v
<1>3. Whole(snapped'[t]) /\ SnapshotsOfOthers(t)
  BY <1>0, <1>2, OneSnapshot
<1>4. pc'[t] = "gates"
  BY <1>2 DEF IInv
<1>5. WayInv(t)'
  BY <1>3, <1>4 DEF WayInv, Whole
<1>6. /\ call' = [call EXCEPT ![t] = call[t]]
      /\ outcome' = [outcome EXCEPT ![t] = outcome[t]]
      /\ outcome[t].kind \in {"none", "result", "exception"}
      /\ IsDecision(outcome[t]) => Replays(outcome[t], config.strict, config.pack)
  BY <1>2 DEF IInv
<1>7. QED
  BY <1>1, <1>2, <1>3, <1>5, <1>6, OneStep

\* A refusal is on its way to the safety handler.
LEMMA RefuseKeeps ==
    ASSUME IInv, NEW t \in Evaluators, NEW why \in Failures, Refuse(t, why)
    PROVE  IInv'
<1> DEFINE c == [call[t] EXCEPT !.failure = why]
<1>1. call[t] \in Calls
  BY DEF IInv
<1>2. /\ UNCHANGED <<config, snapped, outcome>> /\ "handler" \in Labels
      /\ pc' = [pc EXCEPT ![t] = "handler"]
      /\ call' = [call EXCEPT ![t] = c]
  BY DEF Refuse, Goto, store, Labels, IInv
<1>3. c \in Calls /\ c.failure = why
  BY <1>1 DEF Calls
<1>4. pc'[t] = "handler" /\ call'[t] = c
  BY <1>2 DEF IInv
<1> HIDE DEF c
<1>5. WayInv(t)'
  BY <1>3, <1>4 DEF WayInv
<1>6. QED
  BY <1>2, <1>3, <1>5, QuietStep

\* A snapshot that raises leaves a call without one.
LEMMA SnapshotRaisesKeeps ==
    ASSUME IInv, NEW t \in Evaluators, SnapshotRaises(t)
    PROVE  IInv'
<1> DEFINE c == [call[t] EXCEPT !.failure = "error", !.noSnapshot = TRUE]
           s == Store!Outcome("too_large")
<1>1. call[t] \in Calls /\ t \in Threads
  BY DEF IInv, Threads
<1>2. /\ UNCHANGED <<config, outcome>> /\ "handler" \in Labels
      /\ pc' = [pc EXCEPT ![t] = "handler"]
      /\ call' = [call EXCEPT ![t] = c]
      /\ snapped' = [snapped EXCEPT ![t] = s]
  BY DEF SnapshotRaises, Goto, Store!LocalTooLarge, Store!Answer, Store!Respond, Labels
<1> HIDE DEF s
<1>3. SnapshotsOfOthers(t)
  BY <1>2, OneSnapshot
<1>4. c \in Calls /\ c.failure = "error" /\ "error" \in Failures
  BY <1>1 DEF Calls, Failures
<1>5. pc'[t] = "handler" /\ call'[t] = c
  BY <1>2 DEF IInv
<1> HIDE DEF c
<1>6. WayInv(t)'
  BY <1>4, <1>5 DEF WayInv
<1>7. /\ outcome' = [outcome EXCEPT ![t] = outcome[t]]
      /\ outcome[t].kind \in {"none", "result", "exception"}
      /\ IsDecision(outcome[t]) => Replays(outcome[t], config.strict, config.pack)
  BY <1>2 DEF IInv
<1>8. QED
  BY <1>2, <1>3, <1>4, <1>6, <1>7, OneStep

\* The gates before parsing have been passed by the snapshot of the call.
LEMMA ParsesKeeps ==
    ASSUME IInv, NEW t \in Evaluators, Parses(t)
    PROVE  IInv'
<1> DEFINE c == [call[t] EXCEPT !.tree = call[t].chain]
<1>1. call[t] \in Calls /\ pc[t] = "gates" /\ Whole(snapped[t])
  BY DEF IInv, Parses, GatesPassed, WayInv
<1>2. /\ UNCHANGED <<config, snapped, outcome>> /\ "validate" \in Labels
      /\ pc' = [pc EXCEPT ![t] = "validate"]
      /\ call' = [call EXCEPT ![t] = c]
      /\ call[t].chain \notin Unparsable
      /\ PackMatches(t) /\ FreshEnough(t) /\ ShapeOK(t)
  BY DEF Parses, GatesPassed, Goto, store, Labels
<1>3. c \in Calls /\ c.tree = call[t].chain /\ c.chain = call[t].chain
  BY <1>1, <1>2 DEF Calls
<1>4. pc'[t] = "validate" /\ call'[t] = c
  BY <1>2 DEF IInv
<1> HIDE DEF c
<1>5. WayInv(t)'
  BY <1>1, <1>2, <1>3, <1>4
     DEF WayInv, Whole, PackMatches, FreshEnough, ShapeOK, Snap, Layers
<1>6. QED
  BY <1>2, <1>3, <1>5, QuietStep

\* What a call leaves with replays if it is a decision.
LEMMA ReturnKeeps ==
    ASSUME IInv, NEW t \in Evaluators, NEW r, Return(t, r), UNCHANGED <<store, config>>,
           r.kind \in {"result", "exception"},
           IsDecision(r) => Replays(WithProvenance(t, r), config.strict, config.pack)
    PROVE  IInv'
<1> DEFINE o == IF r.kind = "result" THEN WithProvenance(t, r) ELSE r
<1>1. /\ UNCHANGED snapped /\ "idle" \in Labels
      /\ pc' = [pc EXCEPT ![t] = "idle"]
      /\ call' = [call EXCEPT ![t] = NoCall]
      /\ outcome' = [outcome EXCEPT ![t] = o]
  BY DEF Return, Goto, store, Labels
<1>2. NoCall \in Calls
  BY DEF NoCall, Calls
<1>3. /\ o.kind = r.kind
      /\ IsDecision(o) => Replays(o, config.strict, config.pack)
  <2>1. WithProvenance(t, r).kind = r.kind /\ WithProvenance(t, r).domain = r.domain
    BY DEF WithProvenance
  <2>2. QED
    BY <2>1 DEF IsDecision
<1>4. pc'[t] = "idle"
  BY <1>1 DEF IInv
<1>5. WayInv(t)'
  BY <1>4 DEF WayInv
<1>6. SnapshotsOfOthers(t)
  BY <1>1 DEF SnapshotsOfOthers, IInv
<1> HIDE DEF o
<1>7. QED
  BY <1>1, <1>2, <1>3, <1>5, <1>6, OneStep

\* A call that passed every gate, and one that comes from the safety handler.
LEMMA EndKeeps ==
    ASSUME IInv, NEW t \in Evaluators,
           EvaluationSucceeds(t) \/ HandlerKeeps(t) \/ HandlerRaises(t)
    PROVE  IInv'
<1>1. CASE EvaluationSucceeds(t)
  <2> DEFINE d == Decision(t, Meaning(call[t].tree, CSafe(t)))
  <2>1. /\ Validated(t) /\ Meaning(call[t].tree, CSafe(t)) \notin Failures
        /\ Return(t, d) /\ UNCHANGED <<store, config>>
    BY <1>1 DEF EvaluationSucceeds
  <2>2. Replays(WithProvenance(t, d), config.strict, config.pack)
    BY <2>1, DecisionsReplay
  <2>3. d.kind = "result"
    BY DEF Decision
  <2> HIDE DEF d
  <2>4. QED
    BY <2>1, <2>2, <2>3, ReturnKeeps
<1>2. CASE HandlerKeeps(t) \/ HandlerRaises(t)
  <2>1. pc[t] = "handler" /\ call[t].failure \in Failures /\ UNCHANGED <<store, config>>
    BY <1>2 DEF HandlerKeeps, HandlerRaises, IInv, WayInv
  <2>2. \/ \E why \in Failures : Return(t, Refusal(t, why))
        \/ Return(t, [kind |-> "exception"])
    BY <1>2, <2>1 DEF HandlerKeeps, HandlerRaises, Failures
  <2>3. ASSUME NEW why \in Failures, Return(t, Refusal(t, why)) PROVE IInv'
    <3> DEFINE r == Refusal(t, why)
    <3>1. r.kind = "result" /\ r.domain = why
      BY DEF Refusal
    <3> HIDE DEF r
    <3>2. ~IsDecision(r)
      BY <3>1 DEF IsDecision
    <3>3. Return(t, r)
      BY <2>3 DEF r
    <3>4. QED
      BY <2>1, <3>1, <3>2, <3>3, ReturnKeeps
  <2>4. ASSUME Return(t, [kind |-> "exception"]) PROVE IInv'
    <3> DEFINE r == [kind |-> "exception"]
    <3>1. r.kind = "exception" /\ ~IsDecision(r) /\ Return(t, r)
      BY <2>4 DEF IsDecision
    <3> HIDE DEF r
    <3>2. QED
      BY <2>1, <3>1, ReturnKeeps
  <2>5. QED
    BY <2>2, <2>3, <2>4
<1>3. QED
  BY <1>1, <1>2

\* The gates that refuse.
LEMMA GatesKeep ==
    ASSUME IInv, NEW t \in Evaluators,
           \/ GateRefuses(t) \/ ParseFails(t) \/ ValidationFails(t)
           \/ TreeUnsafe(t) \/ EvaluationFails(t)
    PROVE  IInv'
<1>1. \E why \in Failures : Refuse(t, why)
  BY DEF GateRefuses, ParseFails, ValidationFails, TreeUnsafe, EvaluationFails, Failures
<1>2. QED
  BY <1>1, RefuseKeeps

\* Whoever else does something leaves the evaluations and their snapshots alone.
LEMMA OthersKeep ==
    ASSUME IInv, UNCHANGED <<config, pc, call, outcome>>,
           snapped' = [u \in Threads |-> snapped'[u]],
           \A t \in Evaluators : snapped'[t] = snapped[t]
    PROVE  IInv'
<1>1. \A t \in Evaluators : WayInv(t)'
  BY DEF IInv, WayInv, PackMatches, FreshEnough, ShapeOK, Snap, Layers
<1>2. ASSUME NEW t \in Evaluators
      PROVE  /\ (outcome[t].kind \in {"none", "result", "exception"})'
             /\ (IsDecision(outcome[t]) => Replays(outcome[t], config.strict, config.pack))'
  <2>1. /\ outcome[t].kind \in {"none", "result", "exception"}
        /\ IsDecision(outcome[t]) => Replays(outcome[t], config.strict, config.pack)
    BY DEF IInv
  <2>2. outcome' = outcome /\ config' = config
    OBVIOUS
  <2>3. QED
    BY <2>1, <2>2 DEF IsDecision, Replays, Recorded
<1>3. QED
  BY <1>1, <1>2 DEF IInv

\* The context is written ...
LEMMA UpdateKeeps ==
    ASSUME IInv, NEW u \in Updaters, Update(u)
    PROVE  IInv'
<1>1. /\ UNCHANGED <<config, pc, call, outcome>>
      /\ \E r : snapped' = [snapped EXCEPT ![u] = r]
  BY DEF Update, Store!WriteLocal, Store!WriteDomain, Store!WriteRoot,
         Store!WriteRefused, Store!Respond
<1>2. u \notin Evaluators
  BY RuntimeAssumption
<1>3. /\ snapped' = [v \in Threads |-> snapped'[v]]
      /\ \A t \in Evaluators : snapped'[t] = snapped[t]
  BY <1>1, <1>2 DEF IInv, Threads
<1>4. QED
  BY <1>1, <1>3, OthersKeep

\* Nothing has been evaluated at first.
LEMMA InitIInv == Init => IInv
<1> SUFFICES ASSUME Init PROVE IInv
  OBVIOUS
<1>1. /\ pc = [t \in Evaluators |-> "idle"] /\ call = [t \in Evaluators |-> NoCall]
      /\ outcome = [t \in Evaluators |-> NoOutcome] /\ config \in Configs
      /\ snapped = [t \in Threads |-> Store!Outcome("none")]
  BY DEF Init, Store!Init
<1>2. NoCall \in Calls /\ NoOutcome.kind = "none" /\ ~IsDecision(NoOutcome)
  BY DEF NoCall, Calls, NoOutcome, IsDecision
<1>3. \A t \in Evaluators : WayInv(t)
  BY <1>1 DEF WayInv
<1>4. /\ pc \in [Evaluators -> Labels] /\ call \in [Evaluators -> Calls]
      /\ outcome = [t \in Evaluators |-> outcome[t]]
      /\ snapped = [t \in Threads |-> snapped[t]]
  BY <1>1, <1>2 DEF Labels
<1>5. \A t \in Evaluators :
        outcome[t].kind \in {"none", "result", "exception"} /\ ~IsDecision(outcome[t])
  BY <1>1, <1>2
<1>6. QED
  BY <1>1, <1>3, <1>4, <1>5 DEF IInv

\* ... and all steps together.
LEMMA StepKeeps == IInv /\ [Next]_vars => IInv'
<1> SUFFICES ASSUME IInv, [Next]_vars PROVE IInv'
  OBVIOUS
<1>1. ASSUME NEW t \in Evaluators, Step(t) PROVE IInv'
  BY <1>1, TakeSnapshotKeeps, SnapshotRaisesKeeps, GatesKeep, ParsesKeeps, EndKeeps
     DEF Step
<1>2. ASSUME NEW t \in Evaluators, NEW chain \in Chains,
             NEW parent \in Parents \cup {NoParent}, Evaluate(t, chain, parent)
      PROVE  IInv'
  BY <1>2, EvaluateKeeps
<1>3. ASSUME NEW u \in Updaters, Update(u) PROVE IInv'
  BY <1>3, UpdateKeeps
<1>4. CASE ClockMoves
  BY <1>4, OthersKeep DEF ClockMoves, Store!ClockMoves, IInv, Threads
<1>5. CASE UNCHANGED vars
  BY <1>5, OthersKeep DEF vars, store, IInv, Threads
<1>6. QED
  BY <1>1, <1>2, <1>3, <1>4, <1>5 DEF Next

\* The invariant holds of every behaviour.
THEOREM Inductive == Spec => []IInv
<1>1. QED
  BY InitIInv, StepKeeps, PTL DEF Spec

-----------------------------------------------------------------------------

\* The variables of the runtime keep their types (TypeOK).
THEOREM TypeCorrect == Spec => []TypeOK
<1>1. IInv => TypeOK
  BY DEF IInv, TypeOK, Calls
<1>2. QED
  BY <1>1, Inductive, PTL

\* Every decision can be replayed from what its provenance commits to (DecisionReplays).
THEOREM DecisionsAlwaysReplay == Spec => []DecisionReplays
<1>1. IInv => DecisionReplays
  BY DEF IInv, DecisionReplays, Replays
<1>2. QED
  BY <1>1, Inductive, PTL

-----------------------------------------------------------------------------
(* The state a decision belongs to.                                          *)

\* The snapshot shows a state that the store has had since the call began.
ShowsState(s, states) ==
    \E h \in states :
        /\ s.structured = [root |-> h.root, domain |-> h.domain, local |-> h.local]
        /\ s.timestamp \in Int /\ h.at \in Int
        /\ ~s.stale /\ Staleness > 0 => s.timestamp - h.at <= Staleness

SinceInv ==
    /\ clock \in Int /\ lastUpdate \in Int /\ asked \in [Threads -> Int]
    /\ since = [t \in Evaluators |-> since[t]]
    /\ \A t \in Evaluators :
        /\ pc[t] # "idle" => Held \in since[t]
        /\ pc[t] \in {"gates", "validate"} => ShowsState(snapped[t], since[t])

\* A view of the store shows its present state.
LEMMA ViewShowsState ==
    ASSUME NEW time \in Int, lastUpdate \in Int, NEW states, Held \in states
    PROVE  ShowsState(Store!View(time), states)
<1> DEFINE v == Store!View(time)
<1>1. /\ v.structured = [root |-> root, domain |-> domain, local |-> local]
      /\ v.timestamp = time
      /\ v.stale = Store!IsStale(time)
  BY DEF Store!View
<1>2. /\ Held.root = root /\ Held.domain = domain /\ Held.local = local
      /\ Held.at = lastUpdate
  BY DEF Held
<1>3. ~Store!IsStale(time) /\ Staleness > 0 => time - lastUpdate <= Staleness
  BY RuntimeAssumption DEF Store!IsStale
<1> HIDE DEF v
<1>4. ShowsState(v, states)
  BY <1>1, <1>2, <1>3 DEF ShowsState
<1>5. QED
  BY <1>4 DEF v

\* A step that leaves the store and a call's states alone.
LEMMA SinceQuiet ==
    ASSUME IInv, SinceInv, UNCHANGED <<store, since>>, NEW t \in Evaluators,
           \A u \in Evaluators : u # t => pc'[u] = pc[u],
           pc'[t] # "idle" => pc[t] # "idle",
           pc'[t] \in {"gates", "validate"} => pc[t] \in {"gates", "validate"}
    PROVE  SinceInv'
<1>1. Held' = Held
  BY DEF Held, store
<1>2. ASSUME NEW u \in Evaluators
      PROVE  /\ pc'[u] # "idle" => Held' \in since'[u]
             /\ pc'[u] \in {"gates", "validate"} => ShowsState(snapped'[u], since'[u])
  BY <1>1 DEF SinceInv, store
<1>3. QED
  BY <1>2 DEF SinceInv, store, ShowsState

\* The end of a call forgets its states.
LEMMA SinceReturn ==
    ASSUME IInv, SinceInv, NEW t \in Evaluators, NEW r, Return(t, r), UNCHANGED store
    PROVE  SinceInv'
<1>1. /\ pc' = [pc EXCEPT ![t] = "idle"] /\ since' = [since EXCEPT ![t] = {}]
  BY DEF Return, Goto
<1>2. pc'[t] = "idle" /\ \A u \in Evaluators : u # t => pc'[u] = pc[u] /\ since'[u] = since[u]
  BY <1>1 DEF IInv, SinceInv
<1>3. since' = [u \in Evaluators |-> since'[u]]
  BY <1>1 DEF SinceInv
<1>4. Held' = Held
  BY DEF Held, store
<1>5. ASSUME NEW u \in Evaluators
      PROVE  /\ pc'[u] # "idle" => Held' \in since'[u]
             /\ pc'[u] \in {"gates", "validate"} => ShowsState(snapped'[u], since'[u])
  BY <1>2, <1>4 DEF SinceInv, store
<1>6. QED
  BY <1>3, <1>5 DEF SinceInv, store, ShowsState

\* What is written is remembered for the calls in progress.
LEMMA SinceUpdate ==
    ASSUME IInv, SinceInv, NEW u \in Updaters, Update(u)
    PROVE  SinceInv'
<1>1. /\ UNCHANGED <<pc, asked, clock>> /\ lastUpdate' \in Int
      /\ \E r : snapped' = [snapped EXCEPT ![u] = r]
  BY DEF Update, Store!WriteLocal, Store!WriteDomain, Store!WriteRoot,
         Store!WriteRefused, Store!Respond, SinceInv
<1>2. \A t \in Evaluators : snapped'[t] = snapped[t]
  BY <1>1, RuntimeAssumption DEF IInv
<1>3. since' = [t \in Evaluators |-> IF pc[t] = "idle" THEN {} ELSE since[t] \cup {Held'}]
  BY DEF Update, Remember
<1>4. ASSUME NEW t \in Evaluators
      PROVE  /\ pc'[t] # "idle" => Held' \in since'[t]
             /\ pc'[t] \in {"gates", "validate"} => ShowsState(snapped'[t], since'[t])
  <2>1. pc[t] # "idle" => since'[t] = since[t] \cup {Held'}
    BY <1>3
  <2>2. pc[t] \in {"gates", "validate"} => ShowsState(snapped[t], since'[t])
    BY <2>1 DEF SinceInv, ShowsState
  <2>3. QED
    BY <1>1, <1>2, <2>1, <2>2
<1>5. QED
  BY <1>1, <1>3, <1>4 DEF SinceInv, ShowsState

\* All steps together.
LEMMA SinceSteps == IInv /\ SinceInv /\ [Next]_vars => SinceInv'
<1> SUFFICES ASSUME IInv, SinceInv, [Next]_vars PROVE SinceInv'
  OBVIOUS
<1>1. ASSUME NEW t \in Evaluators, Step(t) PROVE SinceInv'
  <2>1. CASE TakeSnapshot(t)
    <3> DEFINE v == Store!View(asked[t])
    <3>1. /\ pc' = [pc EXCEPT ![t] = "gates"] /\ pc[t] = "snapshot"
          /\ snapped' = [snapped EXCEPT ![t] = v]
          /\ asked' = [asked EXCEPT ![t] = Store!NotAsked]
          /\ UNCHANGED <<root, domain, local, lastUpdate, clock, since>>
      BY <2>1 DEF TakeSnapshot, Goto, Store!TakeSnapshot, Store!Answer, Store!Respond
    <3>2. t \in Threads /\ asked[t] \in Int /\ Held \in since[t]
      BY <3>1 DEF SinceInv, Threads
    <3>3. ShowsState(v, since[t])
      BY <3>2, ViewShowsState DEF SinceInv
    <3> HIDE DEF v
    <3>4. snapped'[t] = v /\ \A u \in Evaluators : u # t => snapped'[u] = snapped[u]
      BY <3>1, OneSnapshot DEF SnapshotsOfOthers
    <3>5. Held' = Held /\ asked' \in [Threads -> Int]
      <4>1. Held' = Held
        BY <3>1 DEF Held
      <4>2. Store!NotAsked \in Int /\ asked \in [Threads -> Int]
        BY DEF Store!NotAsked, SinceInv
      <4>3. asked' \in [Threads -> Int]
        BY <3>1, <4>2
      <4>4. QED
        BY <4>1, <4>3
    <3>6. ASSUME NEW u \in Evaluators
          PROVE  /\ pc'[u] # "idle" => Held' \in since'[u]
                 /\ pc'[u] \in {"gates", "validate"} => ShowsState(snapped'[u], since'[u])
      <4>1. CASE u = t
        BY <3>1, <3>2, <3>3, <3>4, <3>5, <4>1 DEF IInv
      <4>2. CASE u # t
        BY <3>1, <3>4, <3>5, <4>2 DEF IInv, SinceInv
      <4>3. QED
        BY <4>1, <4>2
    <3>7. QED
      BY <3>1, <3>5, <3>6 DEF SinceInv, ShowsState
  <2>2. CASE SnapshotRaises(t)
    <3>1. /\ pc' = [pc EXCEPT ![t] = "handler"] /\ pc[t] = "snapshot"
          /\ \E r : snapped' = [snapped EXCEPT ![t] = r]
          /\ asked' = [asked EXCEPT ![t] = Store!NotAsked]
          /\ UNCHANGED <<root, domain, local, lastUpdate, clock, since>>
      BY <2>2 DEF SnapshotRaises, Goto, Store!LocalTooLarge, Store!Answer, Store!Respond
    <3>2. \A u \in Evaluators : u # t => snapped'[u] = snapped[u]
      BY <3>1, OneSnapshot DEF SnapshotsOfOthers
    <3>3. Held' = Held /\ asked' \in [Threads -> Int]
      <4>1. Held' = Held
        BY <3>1 DEF Held
      <4>2. Store!NotAsked \in Int /\ asked \in [Threads -> Int]
        BY DEF Store!NotAsked, SinceInv
      <4>3. asked' \in [Threads -> Int]
        BY <3>1, <4>2
      <4>4. QED
        BY <4>1, <4>3
    <3>4. ASSUME NEW u \in Evaluators
          PROVE  /\ pc'[u] # "idle" => Held' \in since'[u]
                 /\ pc'[u] \in {"gates", "validate"} => ShowsState(snapped'[u], since'[u])
      BY <3>1, <3>2, <3>3 DEF IInv, SinceInv
    <3>5. QED
      BY <3>1, <3>3, <3>4 DEF SinceInv, ShowsState
  <2>3. CASE \E why \in Failures : Refuse(t, why) /\ pc[t] # "idle"
    <3>1. pc' = [pc EXCEPT ![t] = "handler"] /\ pc[t] # "idle" /\ UNCHANGED <<store, since>>
      BY <2>3 DEF Refuse, Goto
    <3>2. pc'[t] = "handler" /\ \A u \in Evaluators : u # t => pc'[u] = pc[u]
      BY <3>1 DEF IInv
    <3>3. QED
      BY <3>1, <3>2, SinceQuiet
  <2>4. CASE Parses(t)
    <3>1. /\ pc' = [pc EXCEPT ![t] = "validate"] /\ pc[t] = "gates"
          /\ UNCHANGED <<store, since>>
      BY <2>4 DEF Parses, GatesPassed, Goto
    <3>2. pc'[t] = "validate" /\ \A u \in Evaluators : u # t => pc'[u] = pc[u]
      BY <3>1 DEF IInv
    <3>3. QED
      BY <3>1, <3>2, SinceQuiet
  <2>5. CASE \E r : Return(t, r) /\ UNCHANGED store
    BY <2>5, SinceReturn
  <2>6. \/ TakeSnapshot(t) \/ SnapshotRaises(t) \/ Parses(t)
        \/ \E why \in Failures : Refuse(t, why) /\ pc[t] # "idle"
        \/ \E r : Return(t, r) /\ UNCHANGED store
    BY <1>1 DEF Step, GateRefuses, ParseFails, ValidationFails, TreeUnsafe,
                EvaluationFails, EvaluationSucceeds, HandlerKeeps, HandlerRaises,
                Validated, GatesPassed, Failures
  <2>7. QED
    BY <2>1, <2>2, <2>3, <2>4, <2>5, <2>6
<1>2. ASSUME NEW t \in Evaluators, NEW chain \in Chains,
             NEW parent \in Parents \cup {NoParent}, Evaluate(t, chain, parent)
      PROVE  SinceInv'
  <2>1. /\ pc' = [pc EXCEPT ![t] = "snapshot"]
        /\ since' = [since EXCEPT ![t] = {Held}]
        /\ asked' = [asked EXCEPT ![t] = clock]
        /\ UNCHANGED <<root, domain, local, lastUpdate, clock, snapped>>
    BY <1>2 DEF Evaluate, Goto, Store!Ask
  <2>2. Held' = Held /\ asked' \in [Threads -> Int]
    BY <2>1 DEF Held, SinceInv
  <2>3. ASSUME NEW u \in Evaluators
        PROVE  /\ pc'[u] # "idle" => Held' \in since'[u]
               /\ pc'[u] \in {"gates", "validate"} => ShowsState(snapped'[u], since'[u])
    BY <2>1, <2>2 DEF IInv, SinceInv
  <2>4. QED
    BY <2>1, <2>2, <2>3 DEF SinceInv, ShowsState
<1>3. ASSUME NEW u \in Updaters, Update(u) PROVE SinceInv'
  BY <1>3, SinceUpdate
<1>4. CASE ClockMoves
  <2>1. /\ clock' \in Int
        /\ UNCHANGED <<root, domain, local, lastUpdate, asked, snapped, pc, since>>
    BY <1>4 DEF ClockMoves, Store!ClockMoves, SinceInv
  <2>2. Held' = Held
    BY <2>1 DEF Held
  <2>3. QED
    BY <2>1, <2>2 DEF SinceInv, ShowsState
<1>5. CASE UNCHANGED vars
  <2>1. Held' = Held
    BY <1>5 DEF Held, vars, store
  <2>2. QED
    BY <1>5, <2>1 DEF SinceInv, ShowsState, vars, store
<1>6. QED
  BY <1>1, <1>2, <1>3, <1>4, <1>5 DEF Next

\* A decision belongs to one state of the context that there was during its call, and
\* in strict mode to one that was fresh (DecisionOfOneState).
THEOREM DecisionsOfOneState == Spec => DecisionOfOneState
<1> DEFINE OneState(t) ==
        \E h \in since[t] :
           /\ Recorded(outcome'[t].provenance) =
                [root |-> h.root, domain |-> h.domain, local |-> h.local]
           /\ config.strict /\ Staleness > 0 => outcome'[t].ts - h.at <= Staleness
<1>1. Init => SinceInv
  <2> SUFFICES ASSUME Init PROVE SinceInv
    OBVIOUS
  <2>1. /\ clock = 0 /\ lastUpdate = 0
        /\ asked = [t \in Threads |-> Store!NotAsked] /\ Store!NotAsked \in Int
    BY DEF Init, Store!Init, Store!NotAsked
  <2>2. /\ pc = [t \in Evaluators |-> "idle"] /\ since = [t \in Evaluators |-> {}]
    BY DEF Init
  <2>3. QED
    BY <2>1, <2>2 DEF SinceInv
<1>2. ASSUME IInv, SinceInv, [Next]_vars, NEW t \in Evaluators,
             pc[t] # "idle", pc'[t] = "idle", IsDecision(outcome'[t])
      PROVE  OneState(t)
  <2>1. Step(t)
    <3>1. pc' # pc
      BY <1>2
    <3>2. ASSUME NEW u \in Evaluators, u # t, Step(u) PROVE pc'[t] = pc[t]
      <4>1. \E label \in Labels : Goto(u, label)
        BY <3>2 DEF Step, TakeSnapshot, SnapshotRaises, GateRefuses, Parses, ParseFails,
                    ValidationFails, TreeUnsafe, EvaluationFails, EvaluationSucceeds,
                    HandlerKeeps, HandlerRaises, Refuse, Return, Labels
      <4>2. QED
        BY <1>2, <3>2, <4>1 DEF Goto, IInv
    <3>3. ASSUME NEW u \in Evaluators, NEW chain \in Chains,
                 NEW parent \in Parents \cup {NoParent}, Evaluate(u, chain, parent)
          PROVE  pc'[t] = pc[t]
      <4>1. pc' = [pc EXCEPT ![u] = "snapshot"] /\ pc[u] = "idle"
        BY <3>3 DEF Evaluate, Goto
      <4>2. QED
        BY <1>2, <4>1 DEF IInv
    <3>4. QED
      BY <1>2, <3>1, <3>2, <3>3 DEF Next, vars, Update, ClockMoves
  <2>2. EvaluationSucceeds(t)
    <3>1. CASE HandlerKeeps(t) \/ HandlerRaises(t)
      <4>1. pc[t] = "handler" /\ call[t].failure \in Failures
        BY <1>2, <3>1 DEF HandlerKeeps, HandlerRaises, IInv, WayInv
      <4>2. \/ \E why \in Failures : Return(t, Refusal(t, why))
            \/ Return(t, [kind |-> "exception"])
        BY <3>1, <4>1 DEF HandlerKeeps, HandlerRaises, Failures
      <4>3. ASSUME NEW why \in Failures, Return(t, Refusal(t, why)) PROVE FALSE
        <5>1. outcome'[t] = WithProvenance(t, Refusal(t, why))
          BY <1>2, <4>3 DEF Return, Refusal, IInv
        <5>2. outcome'[t].domain = why
          BY <5>1 DEF WithProvenance, Refusal
        <5>3. QED
          BY <1>2, <5>2 DEF IsDecision
      <4>4. ASSUME Return(t, [kind |-> "exception"]) PROVE FALSE
        <5>1. outcome'[t] = [kind |-> "exception"]
          BY <1>2, <4>4 DEF Return, IInv
        <5>2. QED
          BY <1>2, <5>1 DEF IsDecision
      <4>5. QED
        BY <4>2, <4>3, <4>4
    <3>2. CASE \E label \in {"gates", "handler", "validate"} : Goto(t, label)
      BY <1>2, <3>2 DEF Goto, IInv
    <3>3. QED
      BY <2>1, <3>1, <3>2 DEF Step, TakeSnapshot, SnapshotRaises, GateRefuses, Parses,
            ParseFails, ValidationFails, TreeUnsafe, EvaluationFails, Refuse
  <2> DEFINE dom == Meaning(call[t].tree, CSafe(t))
             d == Decision(t, dom)
  <2>3. Validated(t) /\ dom \notin Failures /\ Return(t, d) /\ pc[t] = "validate"
    BY <2>2 DEF EvaluationSucceeds, Validated
  <2>4. Whole(snapped[t]) /\ FreshEnough(t) /\ ShowsState(snapped[t], since[t])
    BY <1>2, <2>3 DEF IInv, WayInv, SinceInv
  <2>5. d.kind = "result" /\ d.ts = snapped[t].timestamp /\ d.provenance = Provenance(t, dom)
    BY DEF Decision, Snap
  <2> HIDE DEF d
  <2>6. outcome'[t] = WithProvenance(t, d)
    BY <1>2, <2>3, <2>5 DEF Return, IInv
  <2>7. outcome'[t].ts = snapped[t].timestamp /\ outcome'[t].provenance = Provenance(t, dom)
    BY <2>5, <2>6 DEF WithProvenance
  <2>8. Recorded(outcome'[t].provenance) = snapped[t].structured
    <3>1. /\ outcome'[t].provenance.root.sha256 = snapped[t].structured.root
          /\ outcome'[t].provenance.domain.sha256 = snapped[t].structured.domain
          /\ outcome'[t].provenance.local.sha256 = snapped[t].structured.local
      BY <2>4, <2>7 DEF Provenance, Whole, Digest, Snap
    <3>2. QED
      BY <2>4, <3>1 DEF Recorded, Whole
  <2>9. PICK h \in since[t] :
          /\ snapped[t].structured = [root |-> h.root, domain |-> h.domain, local |-> h.local]
          /\ ~snapped[t].stale /\ Staleness > 0 => snapped[t].timestamp - h.at <= Staleness
    BY <2>4 DEF ShowsState
  <2>10. config.strict => ~snapped[t].stale
    BY <2>4 DEF FreshEnough, Snap
  <2>11. QED
    BY <2>7, <2>8, <2>9, <2>10
<1> HIDE DEF OneState
<1>3. IInv /\ SinceInv /\ [Next]_vars =>
        [\A t \in Evaluators :
           pc[t] # "idle" /\ pc'[t] = "idle" /\ IsDecision(outcome'[t]) => OneState(t)]_vars
  BY <1>2
<1>4. Spec => [][\A t \in Evaluators :
           pc[t] # "idle" /\ pc'[t] = "idle" /\ IsDecision(outcome'[t]) => OneState(t)]_vars
  BY <1>1, <1>3, SinceSteps, Inductive, PTL DEF Spec
<1>5. QED
  BY <1>4 DEF DecisionOfOneState, OneState

=============================================================================
