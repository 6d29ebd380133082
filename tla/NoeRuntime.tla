----------------------------- MODULE NoeRuntime -----------------------------
(***************************************************************************)
(* NoeRuntime.evaluate of noe/noe_runtime.py: a chain is judged against one *)
(* snapshot of the context, gate after gate, and only a chain that passes  *)
(* every gate yields a decision, bound by hashes to what it was made from. *)
(*                                                                         *)
(* Threads evaluate while others write the context.  The context manager   *)
(* is used by its promise, ContextStore, which ContextManager implements.  *)
(* What validation, projection and evaluation compute is left to constant  *)
(* operators: functions of the chain and of the snapshot's layers, as they *)
(* are in the code.  Each thread has a runtime of its own: the parser of a  *)
(* runtime is not guarded by a lock.  A call is cut where it reads what    *)
(* threads share, and at each gate.                                        *)
(***************************************************************************)
EXTENDS ContextLayers

CONSTANTS
    Evaluators, Updaters,   \* the threads
    Inputs, InitRoots, InitDomains, InitLocals, Staleness, MaxClock,
    ClockMayStepBack,       \* as in ContextStore
    Chains,                 \* canonical chains
    Unparsable, UnsafeTrees,  \* chains with no tree; with a tree too deep
    Parents, NoParent,      \* hashes of earlier actions; none given
    NoPack,                 \* no domain pack was given
    Configs,                \* how runtimes are constructed
    NoChain,
    WellShaped(_),          \* strict shape tests on the merged context
    Accepts(_, _, _),       \* validate_chain: strict, chain, layers
    Project(_),             \* build_safe_context: the layers' safe projection
    Meaning(_, _)           \* the evaluator: domain of a tree under a projection

Threads == Evaluators \cup Updaters

Failures == {"error", "undefined"}
Domains == {"truth", "numeric", "action", "list"} \cup Failures

ASSUME RuntimeAssumption ==
    /\ Evaluators \cap Updaters = {}
    /\ Unparsable \subseteq Chains /\ UnsafeTrees \subseteq Chains
    /\ NoParent \notin Parents /\ NoPack \notin Layer /\ NoChain \notin Chains
    /\ Configs \subseteq [strict : BOOLEAN, debug : BOOLEAN,
                          handlerRaises : BOOLEAN, pack : Layer \cup {NoPack}]
    /\ Inputs \subseteq Layer
    /\ InitRoots \cup InitDomains \cup InitLocals \subseteq Layer
    /\ Staleness \in Nat /\ MaxClock \in Nat

VARIABLES
    root, domain, local, lastUpdate, clock, asked, snapped,  \* ContextStore
    config,     \* the runtime's strict_mode, debug, safety_handler, domain_pack
    pc,         \* where each evaluation stands
    call,       \* its arguments and local variables
    outcome,    \* what the thread's last evaluate() gave
    since       \* history: the states the store has had since the call began

Store == INSTANCE ContextStore WITH result <- snapped

store == <<root, domain, local, lastUpdate, clock, asked, snapped>>
vars == <<store, config, pc, call, outcome, since>>

NoCall == [chain |-> NoChain, parent |-> NoParent, tree |-> NoChain,
           failure |-> "none", noSnapshot |-> FALSE]

NoOutcome == [kind |-> "none"]

Held == [root |-> root, domain |-> domain, local |-> local, at |-> lastUpdate]

Init ==
    /\ Store!Init
    /\ config \in Configs
    /\ pc = [t \in Evaluators |-> "idle"]
    /\ call = [t \in Evaluators |-> NoCall]
    /\ outcome = [t \in Evaluators |-> NoOutcome]
    /\ since = [t \in Evaluators |-> {}]

Goto(t, label) == pc' = [pc EXCEPT ![t] = label]

\* The states are kept for the calls in progress only.
Remember ==
    since' = [t \in Evaluators |->
                IF pc[t] = "idle" THEN {} ELSE since[t] \cup {Held'}]

-----------------------------------------------------------------------------
(* What a call knows *)

\* Variant, to see that DecisionReplays depends on it: the local layer is read
\* again when it is needed.
SnapReread(t) == [snapped[t] EXCEPT !.structured.local = local,
                                    !.localHash = Digest(local)]

\* The snapshot of the call: the only context it looks at.
Snap(t) == snapped[t]

Layers(t) == Snap(t).structured

\* The expected hash of the domain pack is that of the pack the runtime was given.
PackMatches(t) ==
    config.pack # NoPack => Snap(t).domainHash = Digest(config.pack)

\* Variant, to see that DecisionOfOneState depends on it: staleness is not
\* looked at.
FreshUnchecked(t) == TRUE

FreshEnough(t) == config.strict => ~Snap(t).stale

ShapeOK(t) == config.strict => WellShaped(Layers(t))

\* C_safe and H_safe come from the validator.
CSafe(t) == Project(Layers(t))
HSafe(t) == Digest(CSafe(t))

PackHash(t) == IF config.pack # NoPack THEN Digest(config.pack)
                                       ELSE Snap(t).domainHash

-----------------------------------------------------------------------------
(* Results *)

\* _error and _undefined, and the result of an undefined evaluation: no value, no
\* identity, the raw composite hash.
Refusal(t, why) ==
    [kind |-> "result", domain |-> why, value |-> NoChain,
     chain |-> call[t].chain, provenance |-> NoParent,
     ts |-> IF call[t].noSnapshot THEN 0 ELSE Snap(t).timestamp,
     hash |-> IF call[t].noSnapshot THEN <<>> ELSE Snap(t).composite]

Identity(tag, t, parent) == <<tag, parent, call[t].chain, HSafe(t), PackHash(t)>>

\* An action is given an execution request hash, and a child hash when it has a
\* parent; every other decision a decision hash.
Provenance(t, dom) ==
    [parent |-> call[t].parent, pack |-> PackHash(t), context |-> HSafe(t),
     root |-> Snap(t).rootHash, domain |-> Snap(t).domainHash,
     local |-> Snap(t).localHash, composite |-> Snap(t).composite,
     identities |->
        IF dom # "action" THEN {Identity("decision", t, NoParent)}
        ELSE {Identity("action", t, NoParent)} \cup
             (IF call[t].parent = NoParent THEN {}
              ELSE {Identity("child_action", t, call[t].parent)})]

\* The value is what the tree means under C_safe, whatever that is.
Decision(t, dom) ==
    [kind |-> "result", domain |-> dom, value |-> <<call[t].tree, CSafe(t)>>,
     chain |-> call[t].chain, provenance |-> Provenance(t, dom),
     ts |-> Snap(t).timestamp, hash |-> HSafe(t)]

\* build_provenance_record: a refusal has neither identity nor hash; the hash of a
\* decision leaves out when and in which mode it was made.
ProvenanceRecord(content, identities, ts, strict) ==
    LET refused == content.domain \in Failures
        hashed == [content |-> content,
                   identities |-> IF refused THEN {} ELSE identities]
    IN  [of |-> hashed, ts |-> ts, strict |-> strict,
         hash |-> IF refused THEN <<>> ELSE <<"provenance", hashed>>]

\* evaluate_with_provenance: the record of a result, for which the chain is parsed
\* once more.
WithProvenance(t, r) ==
    LET content == [chain |-> r.chain, context |-> r.hash, domain |-> r.domain,
                    value |-> r.value, parent |-> call[t].parent,
                    tree |-> IF r.chain \in Unparsable THEN NoChain ELSE r.chain]
        identities == IF r.domain \in Failures THEN {} ELSE r.provenance.identities
    IN  [kind |-> r.kind, domain |-> r.domain, value |-> r.value, chain |-> r.chain,
         provenance |-> r.provenance, ts |-> r.ts, hash |-> r.hash,
         record |-> ProvenanceRecord(content, identities, r.ts, config.strict)]

\* The call leaves with r, and with its record for those who ask for one.
Return(t, r) ==
    /\ Goto(t, "idle")
    /\ call' = [call EXCEPT ![t] = NoCall]
    /\ outcome' = [outcome EXCEPT ![t] =
                     IF r.kind = "result" THEN WithProvenance(t, r) ELSE r]
    /\ since' = [since EXCEPT ![t] = {}]

\* A refusal goes through the safety handler before it is returned.
Refuse(t, why) ==
    /\ Goto(t, "handler")
    /\ call' = [call EXCEPT ![t].failure = why]
    /\ UNCHANGED <<store, config, outcome, since>>

-----------------------------------------------------------------------------
(* evaluate() *)

\* The chain is canonicalized (it is canonical here) and snapshot() is called,
\* which reads the clock.
Evaluate(t, chain, parent) ==
    /\ pc[t] = "idle"
    /\ Store!Ask(t)
    /\ Goto(t, "snapshot")
    /\ call' = [call EXCEPT ![t] = [@ EXCEPT !.chain = chain, !.parent = parent]]
    /\ outcome' = [outcome EXCEPT ![t] = NoOutcome]  \* the caller has taken the last one
    /\ since' = [since EXCEPT ![t] = {Held}]
    /\ UNCHANGED config

TakeSnapshot(t) ==
    /\ pc[t] = "snapshot"
    /\ Store!TakeSnapshot(t)
    /\ Goto(t, "gates")
    /\ UNCHANGED <<config, call, outcome, since>>

\* snapshot() raised: the catch-all makes an error of it, and there is no snapshot.
SnapshotRaises(t) ==
    /\ pc[t] = "snapshot"
    /\ Store!LocalTooLarge(t)
    /\ Goto(t, "handler")
    /\ call' = [call EXCEPT ![t] = [@ EXCEPT !.failure = "error", !.noSnapshot = TRUE]]
    /\ UNCHANGED <<config, outcome, since>>

\* The gates before parsing, in order: domain pack, staleness, shape.
GateRefuses(t) ==
    /\ pc[t] = "gates"
    /\ ~PackMatches(t) \/ ~FreshEnough(t) \/ ~ShapeOK(t)
    /\ Refuse(t, "error")

GatesPassed(t) ==
    /\ pc[t] = "gates"
    /\ PackMatches(t) /\ FreshEnough(t) /\ ShapeOK(t)

\* Variant, to see that TypeOK depends on it: the parser's NoMatch is swallowed.
ParsesAnything(t) ==
    /\ GatesPassed(t)
    /\ call' = [call EXCEPT ![t].tree = call[t].chain]
    /\ Goto(t, "validate")
    /\ UNCHANGED <<store, config, outcome, since>>

\* parser.parse(chain): the tree of the chain, or NoMatch.
Parses(t) ==
    /\ GatesPassed(t)
    /\ call[t].chain \notin Unparsable
    /\ call' = [call EXCEPT ![t].tree = call[t].chain]
    /\ Goto(t, "validate")
    /\ UNCHANGED <<store, config, outcome, since>>

ParseFails(t) ==
    /\ GatesPassed(t)
    /\ call[t].chain \in Unparsable
    /\ Refuse(t, "error")

\* A chain that does not validate against the layers of the snapshot: the result
\* of validate_chain never has a "domain", so the branch for errors is not taken.
ValidationFails(t) ==
    /\ pc[t] = "validate"
    /\ ~Accepts(config.strict, call[t].chain, Layers(t))
    /\ Refuse(t, "undefined")

Validated(t) ==
    /\ pc[t] = "validate"
    /\ Accepts(config.strict, call[t].chain, Layers(t))

\* The tree is too deep.
TreeUnsafe(t) ==
    /\ Validated(t)
    /\ call[t].tree \in UnsafeTrees
    /\ Refuse(t, "error")

\* The evaluator raises or yields an error, or it yields undefined.
EvaluationFails(t) ==
    /\ Validated(t)
    /\ call[t].tree \notin UnsafeTrees
    /\ Meaning(call[t].tree, CSafe(t)) \in Failures
    /\ Refuse(t, Meaning(call[t].tree, CSafe(t)))

EvaluationSucceeds(t) ==
    LET dom == Meaning(call[t].tree, CSafe(t))
    IN  /\ Validated(t)
        /\ call[t].tree \notin UnsafeTrees
        /\ dom \notin Failures
        /\ Return(t, Decision(t, dom))
        /\ UNCHANGED <<store, config>>

\* _apply_safety_handler, with a handler that leaves the result as it is.
HandlerKeeps(t) ==
    /\ pc[t] = "handler"
    /\ Return(t, Refusal(t, call[t].failure))
    /\ UNCHANGED <<store, config>>

\* The handler raises.  In debug mode the result is rebuilt as an error from the
\* snapshot; if there is none, that raises too, out of evaluate().
HandlerRaises(t) ==
    /\ pc[t] = "handler"
    /\ config.handlerRaises
    /\ Return(t, IF ~config.debug THEN Refusal(t, call[t].failure)
                 ELSE IF call[t].noSnapshot THEN [kind |-> "exception"]
                 ELSE Refusal(t, "error"))
    /\ UNCHANGED <<store, config>>

-----------------------------------------------------------------------------
(* The rest of the process *)

Update(t) ==
    /\ \/ Store!WriteLocal(t) \/ Store!WriteDomain(t) \/ Store!WriteRoot(t)
       \/ Store!WriteRefused(t)
    /\ Remember
    /\ UNCHANGED <<config, pc, call, outcome>>

ClockMoves ==
    /\ Store!ClockMoves
    /\ UNCHANGED <<config, pc, call, outcome, since>>

Step(t) ==
    \/ TakeSnapshot(t) \/ SnapshotRaises(t)
    \/ GateRefuses(t) \/ Parses(t) \/ ParseFails(t)
    \/ ValidationFails(t) \/ TreeUnsafe(t)
    \/ EvaluationFails(t) \/ EvaluationSucceeds(t)
    \/ HandlerKeeps(t) \/ HandlerRaises(t)

Next ==
    \/ ClockMoves
    \/ \E t \in Updaters : Update(t)
    \/ \E t \in Evaluators, chain \in Chains, parent \in Parents \cup {NoParent} :
         Evaluate(t, chain, parent)
    \/ \E t \in Evaluators : Step(t)

Spec == Init /\ [][Next]_vars

\* An evaluation that has begun is not suspended for ever.
FairSpec == Spec /\ \A t \in Evaluators : WF_vars(Step(t))

-----------------------------------------------------------------------------
(* Properties *)

Labels == {"idle", "snapshot", "gates", "validate", "handler"}

\* The variables have the types of their code counterparts.
TypeOK ==
    /\ config \in Configs
    /\ pc \in [Evaluators -> Labels]
    /\ call \in [Evaluators -> [chain : Chains \cup {NoChain},
                                parent : Parents \cup {NoParent},
                                tree : (Chains \ Unparsable) \cup {NoChain},
                                failure : Failures \cup {"none"},
                                noSnapshot : BOOLEAN]]
    /\ \A t \in Evaluators : outcome[t].kind \in {"none", "result", "exception"}

IsDecision(r) == r.kind = "result" /\ r.domain \notin Failures

Recorded(p) == [root |-> p.root.sha256, domain |-> p.domain.sha256,
                local |-> p.local.sha256]

\* A decision can be replayed from its provenance alone: the layers its hashes
\* commit to project to the context hash it names, pass every gate of the mode,
\* and give the chain the value and the identities that were returned, although
\* the context is written all along and the layers come from a snapshot. The hash
\* of its record commits to the same context, verdict and identities.
DecisionReplays ==
    \A t \in Evaluators : IsDecision(outcome[t]) =>
        LET r == outcome[t]
            p == r.provenance
            layers == Recorded(p)
            safe == Project(layers)
        IN  /\ p.composite = Composite(p.root, p.domain, p.local)
            /\ r.hash = Digest(safe) /\ p.context = r.hash
            /\ Accepts(config.strict, r.chain, layers)
            /\ config.strict => WellShaped(layers)
            /\ config.pack # NoPack => layers.domain = config.pack
            /\ p.pack = p.domain
            /\ r.domain = Meaning(r.chain, safe)
            /\ r.value = <<r.chain, safe>>
            /\ \A id \in p.identities : id[3] = r.chain /\ id[4] = r.hash
            /\ LET commits == r.record.hash[2]
               IN  /\ commits.content.context = Digest(safe)
                   /\ commits.content.domain = Meaning(commits.content.tree, safe)
                   /\ commits.identities = p.identities
                   /\ \A id \in commits.identities :
                        id[1] = "child_action" => id[2] = commits.content.parent

\* The layers a decision commits to were in the store together at some moment of
\* the call, and in strict mode local was then at most Staleness old by the time
\* stamp of the decision.
DecisionOfOneState ==
    [][\A t \in Evaluators :
         pc[t] # "idle" /\ pc'[t] = "idle" /\ IsDecision(outcome'[t]) =>
            \E h \in since[t] :
               /\ Recorded(outcome'[t].provenance) =
                    [root |-> h.root, domain |-> h.domain, local |-> h.local]
               /\ config.strict /\ Staleness > 0 => outcome'[t].ts - h.at <= Staleness]_vars

\* What the contract of validate_chain asks of the runtime: a chain that did not
\* validate is an error, "never undefined".
ValidationFailureIsError ==
    [][\A t \in Evaluators :
         pc[t] = "validate" /\ ~Accepts(config.strict, call[t].chain, Layers(t))
            /\ pc'[t] = "handler" => call'[t].failure = "error"]_vars

=============================================================================
