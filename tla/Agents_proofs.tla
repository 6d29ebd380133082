--------------------------- MODULE Agents_proofs ---------------------------
(* Proofs about Agents, for any number of threads, agents, declarations,     *)
(* operators, subsystems and keys, and a clock that is set at will; and about*)
(* Actions, for any literals, reports and findings and chains of any length. *)
EXTENDS Agents, Actions, SequenceTheorems, WellFoundedInduction, TLAPS

-----------------------------------------------------------------------------
(* The handshake as a function of two declarations.                          *)

\* AlignTemporal takes the stricter rule, whoever names it.
LEMMA LesserIsBelow ==
    ASSUME NEW m \in Nat, NEW n \in Nat
    PROVE  /\ Lesser(m, n) \in Nat
           /\ Lesser(m, n) <= m /\ Lesser(m, n) <= n
           /\ Lesser(m, n) = Lesser(n, m)
BY DEF Lesser

\* Neither order of the agents nor that of the subsystems matters.
LEMMA CompatSymmetric ==
    ASSUME NEW a, NEW b
    PROVE  SubsystemCompat(a, b) = SubsystemCompat(b, a)
<1>1. {a, b} = {b, a}
  OBVIOUS
<1>2. QED
  BY <1>1 DEF SubsystemCompat

\* The merged limits do not depend on who is the first.
LEMMA AlignSymmetric ==
    ASSUME NEW x \in Limits, NEW y \in Limits
    PROVE  AlignTemporal(x, y) = AlignTemporal(y, x)
<1>1. \A f \in {"max_skew", "tau_stale", "tau_window"} : Lesser(x[f], y[f]) = Lesser(y[f], x[f])
  BY LesserIsBelow DEF Limits
<1>2. QED
  BY <1>1 DEF AlignTemporal

\* What a match that succeeds has found out.
LEMMA MatchFound ==
    ASSUME NEW a, NEW b, match(a, b).error = "none"
    PROVE  /\ a.registry_hash = b.registry_hash
           /\ a.semantics_version = b.semantics_version
           /\ match(a, b).operators = Intersection(a, b)
           /\ match(a, b).subsystems = SubsystemCompat(a, b)
BY DEF match

\* The frame does not depend on who is the first of the two.
LEMMA BindSymmetric ==
    ASSUME NEW a \in AgentIdentity, NEW b \in AgentIdentity, NEW start,
           match(a, b).error = "none"
    PROVE  bind(a, b, match(a, b), start) = bind(b, a, match(b, a), start)
<1>1. /\ a.registry_hash = b.registry_hash
      /\ a.semantics_version = b.semantics_version
      /\ match(a, b).operators = Intersection(a, b)
      /\ match(a, b).subsystems = SubsystemCompat(a, b)
  BY MatchFound
<1>2. Intersection(a, b) = Intersection(b, a)
  BY DEF Intersection
<1>3. SubsystemCompat(a, b) = SubsystemCompat(b, a)
  BY CompatSymmetric
<1>4. match(b, a).error = "none"
  <2>1. SharedCount(SubsystemCompat(a, b)) # 0 /\ Intersection(a, b) # {}
    BY DEF match
  <2>2. QED
    BY <1>1, <1>2, <1>3, <2>1 DEF match
<1>5. /\ match(b, a).operators = Intersection(b, a)
      /\ match(b, a).subsystems = SubsystemCompat(b, a)
  BY <1>4, MatchFound
<1>6. AlignTemporal(a.temporal_config, b.temporal_config)
        = AlignTemporal(b.temporal_config, a.temporal_config)
  BY AlignSymmetric DEF AgentIdentity
<1>7. {a.agent_id, b.agent_id} = {b.agent_id, a.agent_id}
  OBVIOUS
<1>8. QED
  BY <1>1, <1>2, <1>3, <1>5, <1>6, <1>7 DEF bind

-----------------------------------------------------------------------------
(* The inductive invariant.                                                  *)

\* The frame that a call binds if its clock reading is start.
FrameFrom(c, start) ==
    bind(c.aid["a"], c.aid["b"], match(c.aid["a"], c.aid["b"]), start)

Frames == {bind(p[1], p[2], match(p[1], p[2]), p[3]) :
                p \in AgentIdentity \X AgentIdentity \X Int}

StepNames == {"sign", "verify", "identify", "trust", "match", "start", "bind",
              "compare", "done"}

Refusals == {"signature", "replay", "key_mismatch", "challenge", "registry",
             "semantics", "operators", "subsystems"}

OutcomeNames == Refusals \cup {"running", "agreed", "ncf_mismatch"}

MaybeFrames == {Unbound} \cup {Bound(f) : f \in Frames}

Calls ==
    [step : StepNames, end : Ends, aid : [Ends -> AgentIdentity], key : [Ends -> Keys],
     stamp : [Ends -> Int], took_up : [Ends -> BOOLEAN], start : Int,
     ncf : [Ends -> MaybeFrames], outcome : OutcomeNames]

\* Who has got past the match has found no error; an end that has bound has bound
\* the frame of the call's one clock reading, and so has the other end; and that is
\* what an agreed call keeps.
CallInv(c) ==
    /\ c.step \in {"start", "bind", "compare"} \/ c.outcome = "agreed" =>
            match(c.aid["a"], c.aid["b"]).error = "none"
    /\ c.step = "bind" /\ c.end = "b" => c.ncf["a"] = Bound(FrameFrom(c, c.start))
    /\ c.step = "compare" => \A e \in Ends : c.ncf[e] = Bound(FrameFrom(c, c.start))
    /\ c.step \in {"match", "start", "compare"} => c.end = "a"
    /\ c.step # "done" => c.outcome = "running"
    /\ c.outcome # "ncf_mismatch"
    /\ c.outcome = "agreed" =>
            \E s \in Int : \A e \in Ends : c.ncf[e] = Bound(FrameFrom(c, s))

IInv ==
    /\ now \in Int
    /\ call \in [Threads -> Calls]
    /\ active \in [Threads -> [Ends -> BOOLEAN]]
    /\ \A t \in Threads : CallInv(call[t])
    /\ \A t \in Threads, e \in Ends : active[t][e] => Agreed(t)

\* What an end has bound is the frame.
LEMMA BoundFrame ==
    ASSUME NEW f
    PROVE  Bound(f).frame = f
BY DEF Bound

-----------------------------------------------------------------------------
(* A step of a call.                                                         *)

\* A call as it begins satisfies what is asked of calls.
LEMMA BegunIsCall ==
    ASSUME NEW aids \in [Ends -> AgentIdentity], NEW ks \in [Ends -> Keys]
    PROVE  Begun(aids, ks) \in Calls /\ CallInv(Begun(aids, ks))
<1> DEFINE b == Begun(aids, ks)
<1>1. /\ [e \in Ends |-> 0] \in [Ends -> Int]
      /\ [e \in Ends |-> FALSE] \in [Ends -> BOOLEAN]
      /\ [e \in Ends |-> Unbound] \in [Ends -> MaybeFrames]
      /\ "a" \in Ends
  BY DEF Ends, MaybeFrames
<1>2. b \in Calls
  BY <1>1 DEF Begun, Calls, StepNames, OutcomeNames
<1>3. CallInv(b)
  BY DEF Begun, CallInv
<1>4. QED
  BY <1>2, <1>3

\* A call that raises, whatever for.
LEMMA RefusedIsCall ==
    ASSUME NEW t \in Threads, call[t] \in Calls, NEW why \in Refusals
    PROVE  Refused(t, why) \in Calls /\ CallInv(Refused(t, why))
<1> DEFINE b == Begun(call[t].aid, call[t].key)
           r == Refused(t, why)
<1>1. b \in Calls
  BY BegunIsCall DEF Calls
<1>2. r = [b EXCEPT !.step = "done", !.outcome = why, !.took_up = call[t].took_up]
  BY DEF Refused
<1> HIDE DEF b, r
<1>3. call[t].took_up \in [Ends -> BOOLEAN]
  BY DEF Calls
<1>4. r \in Calls /\ r.step = "done" /\ r.outcome = why
  BY <1>1, <1>2, <1>3 DEF Calls, StepNames, OutcomeNames
<1>5. CallInv(r)
  BY <1>4 DEF CallInv, Refusals
<1>6. QED
  BY <1>4, <1>5 DEF r

\* A step of one call leaves the invariant to be shown of that call only.
LEMMA OtherCallsKeep ==
    ASSUME IInv, now' \in Int, NEW t \in Threads, NEW c \in Calls, CallInv(c),
           call' = [call EXCEPT ![t] = c], call[t].outcome # "agreed",
           UNCHANGED active
    PROVE  IInv'
<1>1. call' \in [Threads -> Calls] /\ call'[t] = c
  BY DEF IInv
<1>2. \A u \in Threads : u # t => call'[u] = call[u]
  BY DEF IInv
<1>3. \A u \in Threads : CallInv(call'[u])
  BY <1>1, <1>2 DEF IInv
<1>4. \A u \in Threads, e \in Ends : active'[u][e] => call'[u].outcome = "agreed"
  BY <1>1, <1>2 DEF IInv, Agreed
<1>5. QED
  BY <1>1, <1>3, <1>4 DEF IInv, Agreed, CallInv, FrameFrom

\* On the way to the match there is nothing yet to be kept.
LEMMA EarlyCallInv ==
    ASSUME NEW c \in Calls, c.outcome = "running",
           c.step \in {"sign", "verify", "identify", "trust"} \/
                (c.step = "match" /\ c.end = "a")
    PROVE  CallInv(c)
BY DEF CallInv

\* The other end's turn, or the next step.
LEMMA OnwardIsCall ==
    ASSUME NEW t \in Threads, call[t] \in Calls, NEW next \in StepNames
    PROVE  LET c == Onward(t, next)
           IN  /\ c \in Calls
               /\ c.aid = call[t].aid /\ c.ncf = call[t].ncf /\ c.start = call[t].start
               /\ c.outcome = call[t].outcome
               /\ call[t].end = "a" => c.step = call[t].step /\ c.end = "b"
               /\ call[t].end = "b" => c.step = next /\ c.end = "a"
BY DEF Onward, Calls, Ends

\* Each step of a call keeps the invariant: the steps up to the match ...
LEMMA SignKeeps ==
    ASSUME IInv, NEW t \in Threads, Sign(t)
    PROVE  IInv'
<1> DEFINE o == Onward(t, "verify")
           c == [o EXCEPT !.stamp[call[t].end] = now]
<1>1. call[t] \in Calls /\ call[t].step = "sign" /\ call[t].outcome = "running"
  BY DEF IInv, CallInv, Sign, At
<1>2. o \in Calls /\ o.outcome = "running" /\ o.step \in {"sign", "verify"}
  BY <1>1, OnwardIsCall DEF StepNames, Calls, Ends
<1>3. call' = [call EXCEPT ![t] = c] /\ now' \in Int /\ UNCHANGED active
  BY DEF Sign, IInv
<1> HIDE DEF o
<1>4. c \in Calls /\ c.outcome = "running" /\ c.step = o.step
  BY <1>1, <1>2 DEF Calls, IInv
<1>5. CallInv(c)
  BY <1>2, <1>4, EarlyCallInv
<1> HIDE DEF c
<1>6. QED
  BY <1>1, <1>3, <1>4, <1>5, OtherCallsKeep

\* (the announcement is checked)
LEMMA VerifyKeeps ==
    ASSUME IInv, NEW t \in Threads, Verify(t)
    PROVE  IInv'
<1> DEFINE o == Onward(t, "identify")
           c == [o EXCEPT !.stamp[call[t].end] = 0]
<1>1. call[t] \in Calls /\ call[t].step = "verify" /\ call[t].outcome = "running"
  BY DEF IInv, CallInv, Verify, At
<1>2. o \in Calls /\ o.outcome = "running" /\ o.step \in {"verify", "identify"}
  BY <1>1, OnwardIsCall DEF StepNames, Calls, Ends
<1>3. now' \in Int /\ UNCHANGED active
  BY DEF Verify, IInv
<1>4. \/ call' = [call EXCEPT ![t] = c]
      \/ \E why \in {"signature", "replay"} : call' = [call EXCEPT ![t] = Refused(t, why)]
  BY DEF Verify, AnnouncementFault
<1> HIDE DEF o
<1>5. c \in Calls /\ c.outcome = "running" /\ c.step = o.step
  BY <1>1, <1>2 DEF Calls
<1>6. CallInv(c)
  BY <1>2, <1>5, EarlyCallInv
<1> HIDE DEF c
<1>7. CASE call' = [call EXCEPT ![t] = c]
  BY <1>1, <1>3, <1>5, <1>6, <1>7, OtherCallsKeep
<1>8. CASE \E why \in {"signature", "replay"} : call' = [call EXCEPT ![t] = Refused(t, why)]
  BY <1>1, <1>3, <1>8, OtherCallsKeep, RefusedIsCall DEF Refusals
<1>9. QED
  BY <1>4, <1>7, <1>8

\* (the registry is asked)
LEMMA IdentifyKeeps ==
    ASSUME IInv, NEW t \in Threads, Identify(t)
    PROVE  IInv'
<1> DEFINE o == Onward(t, "match")
           c == [call[t] EXCEPT !.step = "trust"]
<1>1. call[t] \in Calls /\ call[t].step = "identify" /\ call[t].outcome = "running"
  BY DEF IInv, CallInv, Identify, At
<1>2. /\ o \in Calls /\ o.outcome = "running"
      /\ o.step = "identify" \/ (o.step = "match" /\ o.end = "a")
  BY <1>1, OnwardIsCall DEF StepNames, Calls, Ends
<1>3. now' \in Int /\ UNCHANGED active
  BY DEF Identify, IInv
<1>4. \/ call' = [call EXCEPT ![t] = o]
      \/ call' = [call EXCEPT ![t] = c]
      \/ call' = [call EXCEPT ![t] = Refused(t, "key_mismatch")]
  BY DEF Identify
<1> HIDE DEF o
<1>5. c \in Calls /\ c.outcome = "running" /\ c.step = "trust"
  BY <1>1 DEF Calls, StepNames
<1>6. CallInv(c) /\ CallInv(o)
  BY <1>2, <1>5, EarlyCallInv
<1> HIDE DEF c
<1>7. CASE call' = [call EXCEPT ![t] = c]
  BY <1>1, <1>3, <1>5, <1>6, <1>7, OtherCallsKeep
<1>8. CASE call' = [call EXCEPT ![t] = o]
  BY <1>1, <1>2, <1>3, <1>6, <1>8, OtherCallsKeep
<1>9. CASE call' = [call EXCEPT ![t] = Refused(t, "key_mismatch")]
  BY <1>1, <1>3, <1>9, OtherCallsKeep, RefusedIsCall DEF Refusals
<1>10. QED
  BY <1>4, <1>7, <1>8, <1>9

\* (the key is taken up)
LEMMA TrustKeeps ==
    ASSUME IInv, NEW t \in Threads, Trust(t)
    PROVE  IInv'
<1> DEFINE o == Onward(t, "match")
           c == [o EXCEPT !.took_up[call[t].end] = TRUE,
                          !.step = IF call[t].end = "a" THEN "identify" ELSE "match"]
<1>1. call[t] \in Calls /\ call[t].step = "trust" /\ call[t].outcome = "running"
  BY DEF IInv, CallInv, Trust, At
<1>2. o \in Calls /\ o.outcome = "running" /\ (call[t].end = "b" => o.end = "a")
  BY <1>1, OnwardIsCall DEF StepNames
<1>3. call' = [call EXCEPT ![t] = c] /\ now' \in Int /\ UNCHANGED active
  BY DEF Trust, IInv
<1> HIDE DEF o
<1>4. /\ c \in Calls /\ c.outcome = "running"
      /\ c.step = "identify" \/ (c.step = "match" /\ c.end = "a")
  BY <1>1, <1>2 DEF Calls, StepNames, Ends
<1>5. CallInv(c)
  BY <1>4, EarlyCallInv
<1> HIDE DEF c
<1>6. QED
  BY <1>1, <1>3, <1>4, <1>5, OtherCallsKeep

\* What match() can complain of.
LEMMA MatchErrors ==
    ASSUME NEW a, NEW b
    PROVE  match(a, b).error \in {"none", "registry", "semantics", "operators", "subsystems"}
BY DEF match

\* ... the match, which lets only a call without error on ...
LEMMA MatchKeeps ==
    ASSUME IInv, NEW t \in Threads, Match(t)
    PROVE  IInv'
<1> DEFINE m == match(call[t].aid["a"], call[t].aid["b"])
           c == [call[t] EXCEPT !.step = "start"]
<1>1. /\ call[t] \in Calls /\ call[t].step = "match" /\ call[t].outcome = "running"
      /\ call[t].end = "a"
  BY DEF IInv, CallInv, Match, At
<1>2. now' \in Int /\ UNCHANGED active
  BY DEF Match, IInv
<1>3. m.error \in {"none", "registry", "semantics", "operators", "subsystems"}
  BY MatchErrors
<1>4. \/ call' = [call EXCEPT ![t] = Refused(t, "challenge")]
      \/ m.error # "none" /\ call' = [call EXCEPT ![t] = Refused(t, m.error)]
      \/ m.error = "none" /\ call' = [call EXCEPT ![t] = c]
  BY DEF Match
<1>5. /\ c \in Calls /\ c.outcome = "running" /\ c.step = "start"
      /\ c.aid = call[t].aid /\ c.end = "a"
  BY <1>1 DEF Calls, StepNames
<1>6. m.error = "none" => CallInv(c)
  BY <1>5 DEF CallInv
<1> HIDE DEF m, c
<1>7. CASE call' = [call EXCEPT ![t] = Refused(t, "challenge")]
  BY <1>1, <1>2, <1>7, OtherCallsKeep, RefusedIsCall DEF Refusals
<1>8. CASE m.error # "none" /\ call' = [call EXCEPT ![t] = Refused(t, m.error)]
  BY <1>1, <1>2, <1>3, <1>8, OtherCallsKeep, RefusedIsCall DEF Refusals
<1>9. CASE m.error = "none" /\ call' = [call EXCEPT ![t] = c]
  BY <1>1, <1>2, <1>5, <1>6, <1>9, OtherCallsKeep
<1>10. QED
  BY <1>4, <1>7, <1>8, <1>9

\* ... and the one reading of the clock.
LEMMA StartKeeps ==
    ASSUME IInv, NEW t \in Threads, Start(t)
    PROVE  IInv'
<1> DEFINE c == [call[t] EXCEPT !.start = now, !.step = "bind"]
<1>1. /\ call[t] \in Calls /\ call[t].step = "start" /\ call[t].outcome = "running"
      /\ match(call[t].aid["a"], call[t].aid["b"]).error = "none"
      /\ now \in Int /\ call[t].end = "a"
  BY DEF IInv, CallInv, Start, At
<1>2. call' = [call EXCEPT ![t] = c] /\ now' \in Int /\ UNCHANGED active
  BY DEF Start, IInv
<1>3. /\ c \in Calls /\ c.outcome = "running" /\ c.step = "bind"
      /\ c.aid = call[t].aid /\ c.end = "a"
  BY <1>1 DEF Calls, StepNames
<1>4. CallInv(c)
  BY <1>1, <1>3 DEF CallInv
<1> HIDE DEF c
<1>5. QED
  BY <1>1, <1>2, <1>3, <1>4, OtherCallsKeep

\* Each end binds the frame of the one clock reading.
LEMMA BindKeeps ==
    ASSUME IInv, NEW t \in Threads, Bind(t)
    PROVE  IInv'
<1> DEFINE o == Onward(t, "compare")
           f == FrameFrom(call[t], call[t].start)
           c == [o EXCEPT !.ncf[call[t].end] = Bound(f)]
<1>1. /\ call[t] \in Calls /\ call[t].step = "bind" /\ call[t].outcome = "running"
      /\ match(call[t].aid["a"], call[t].aid["b"]).error = "none"
      /\ call[t].end = "b" => call[t].ncf["a"] = Bound(f)
  BY DEF IInv, CallInv, Bind, At
<1>2. call' = [call EXCEPT ![t] = c] /\ now' \in Int /\ UNCHANGED active
  BY DEF Bind, IInv, FrameFrom, SessionStart
<1>3. /\ o \in Calls /\ o.outcome = "running"
      /\ o.aid = call[t].aid /\ o.ncf = call[t].ncf /\ o.start = call[t].start
      /\ call[t].end = "a" => o.step = "bind" /\ o.end = "b"
      /\ call[t].end = "b" => o.step = "compare" /\ o.end = "a"
  BY <1>1, OnwardIsCall DEF StepNames
<1>4. Bound(f) \in MaybeFrames
  <2>1. /\ call[t].aid["a"] \in AgentIdentity /\ call[t].aid["b"] \in AgentIdentity
        /\ call[t].start \in Int
    BY <1>1 DEF Calls, Ends
  <2> DEFINE p == <<call[t].aid["a"], call[t].aid["b"], call[t].start>>
  <2>2. p \in AgentIdentity \X AgentIdentity \X Int
    BY <2>1
  <2>3. f = bind(p[1], p[2], match(p[1], p[2]), p[3])
    BY DEF FrameFrom
  <2> HIDE DEF f, p
  <2>4. f \in Frames
    BY <2>2, <2>3 DEF Frames
  <2>5. QED
    BY <2>4 DEF MaybeFrames
<1> HIDE DEF o, f
<1>5. /\ c \in Calls /\ c.outcome = "running" /\ c.aid = call[t].aid
      /\ c.start = call[t].start /\ c.step = o.step /\ c.end = o.end
      /\ c.ncf[call[t].end] = Bound(f)
      /\ call[t].end = "b" => c.ncf["a"] = call[t].ncf["a"]
  BY <1>1, <1>3, <1>4 DEF Calls, Ends
<1>6. f = FrameFrom(c, c.start)
  BY <1>5 DEF f, FrameFrom
<1> HIDE DEF c
<1>7. CallInv(c)
  <2>1. CASE call[t].end = "a"
    BY <1>1, <1>3, <1>5, <1>6, <2>1 DEF CallInv
  <2>2. CASE call[t].end = "b"
    BY <1>1, <1>3, <1>5, <1>6, <2>2 DEF CallInv, Ends
  <2>3. QED
    BY <1>1, <2>1, <2>2 DEF Calls, Ends
<1>8. QED
  BY <1>1, <1>2, <1>5, <1>7, OtherCallsKeep

\* The comparison of the two ids never fails, and makes two sessions.
LEMMA CompareKeeps ==
    ASSUME IInv, NEW t \in Threads, Compare(t)
    PROVE  IInv'
<1> DEFINE f == FrameFrom(call[t], call[t].start)
           c == [call[t] EXCEPT !.step = "done", !.outcome = "agreed", !.start = 0]
<1>1. /\ call[t] \in Calls /\ call[t].step = "compare"
      /\ match(call[t].aid["a"], call[t].aid["b"]).error = "none"
      /\ \A e \in Ends : call[t].ncf[e] = Bound(f)
  BY DEF IInv, CallInv, Compare, At
<1>2. /\ call' = [call EXCEPT ![t] = c]
      /\ active' = [active EXCEPT ![t] = [e \in Ends |-> TRUE]]
      /\ now' \in Int
  BY <1>1 DEF Compare, IInv, Ends
<1>3. /\ c \in Calls /\ c.step = "done" /\ c.outcome = "agreed"
      /\ c.aid = call[t].aid /\ c.ncf = call[t].ncf
  <2>1. call[t] \in Calls
    BY <1>1
  <2> HIDE DEF f
  <2>2. "done" \in StepNames /\ "agreed" \in OutcomeNames /\ 0 \in Int
    BY DEF StepNames, OutcomeNames
  <2>3. QED
    BY <2>1, <2>2 DEF Calls
<1>4. call[t].start \in Int /\ f = FrameFrom(c, call[t].start)
  BY <1>1, <1>3 DEF Calls, FrameFrom
<1> HIDE DEF c, f
<1>5. CallInv(c)
  BY <1>1, <1>3, <1>4 DEF CallInv
<1>6. call' \in [Threads -> Calls] /\ call'[t] = c
  BY <1>2, <1>3 DEF IInv
<1>7. active' \in [Threads -> [Ends -> BOOLEAN]]
  BY <1>2 DEF IInv
<1>8. \A u \in Threads : u # t => call'[u] = call[u] /\ active'[u] = active[u]
  BY <1>2 DEF IInv
<1>9. \A u \in Threads : CallInv(call[u]) /\ \A e \in Ends : active[u][e] => call[u].outcome = "agreed"
  BY DEF IInv, Agreed
<1>10. \A u \in Threads : CallInv(call'[u])
  BY <1>5, <1>6, <1>8, <1>9
<1>11. \A u \in Threads, e \in Ends : active'[u][e] => call'[u].outcome = "agreed"
  BY <1>3, <1>6, <1>8, <1>9
<1>12. QED
  BY <1>2, <1>6, <1>7, <1>10, <1>11 DEF IInv, Agreed, CallInv, FrameFrom

-----------------------------------------------------------------------------
(* The invariant and what follows from it.                                   *)

\* Before any step nobody has done or agreed on anything.
LEMMA InitIInv == Init => IInv
<1> SUFFICES ASSUME Init PROVE IInv
  OBVIOUS
<1>1. PICK aids \in [Threads -> [Ends -> Declared]], ks \in [Threads -> [Ends -> Keys]] :
        call = [t \in Threads |-> Begun(aids[t], ks[t])]
  BY DEF Init
<1>2. \A t \in Threads : aids[t] \in [Ends -> AgentIdentity] /\ ks[t] \in [Ends -> Keys]
  BY <1>1, DeclaredIsIdentity
<1>3. \A t \in Threads : Begun(aids[t], ks[t]) \in Calls /\ CallInv(Begun(aids[t], ks[t]))
  BY <1>2, BegunIsCall
<1>4. call \in [Threads -> Calls] /\ \A t \in Threads : CallInv(call[t])
  BY <1>1, <1>3
<1>5. QED
  BY <1>4 DEF Init, IInv

\* All steps of authenticated_negotiate.
LEMMA NegotiateKeeps ==
    ASSUME IInv, NEW t \in Threads, Negotiate(t)
    PROVE  IInv'
BY SignKeeps, VerifyKeeps, IdentifyKeeps, TrustKeeps, MatchKeeps, StartKeeps,
   BindKeeps, CompareKeeps DEF Negotiate

\* Neither the clock, nor new keys, nor the end of a session touch a call.
LEMMA StepKeeps == IInv /\ [Next]_vars => IInv'
<1> SUFFICES ASSUME IInv, [Next]_vars PROVE IInv'
  OBVIOUS
<1>1. ASSUME NEW t \in Threads, Negotiate(t) PROVE IInv'
  BY <1>1, NegotiateKeeps
<1>2. ASSUME UNCHANGED call, now' \in Int, active' \in [Threads -> [Ends -> BOOLEAN]],
             \A t \in Threads, e \in Ends : active'[t][e] => active[t][e]
      PROVE  IInv'
  BY <1>2 DEF IInv, Agreed, CallInv, FrameFrom
<1>3. ASSUME NEW t \in Threads, NEW e \in Ends, Terminate(t, e) PROVE IInv'
  <2>1. active' = [active EXCEPT ![t][e] = FALSE] /\ UNCHANGED <<now, call>>
    BY <1>3 DEF Terminate
  <2>2. active \in [Threads -> [Ends -> BOOLEAN]] /\ now \in Int
    BY DEF IInv
  <2>3. QED
    BY <2>1, <2>2, <1>2
<1>4. CASE SetClock
  BY <1>2, <1>4, BoundsAreNatural DEF SetClock, Time, IInv
<1>5. ASSUME NEW a \in Registered, NEW k \in KeysOf[a], Register(a, k) PROVE IInv'
  BY <1>2, <1>5 DEF Register, IInv
<1>6. CASE UNCHANGED vars
  BY <1>2, <1>6 DEF vars, IInv
<1>7. QED
  BY <1>1, <1>3, <1>4, <1>5, <1>6 DEF Next

\* The invariant holds of every behaviour.
THEOREM Inductive == Spec => []IInv
<1>1. QED
  BY InitIInv, StepKeeps, PTL DEF Spec

-----------------------------------------------------------------------------

\* The two ends of a call come to the same frame, whoever starts; no end has a
\* session without an agreement (EndsAgree).
THEOREM EndsAlwaysAgree == Spec => []EndsAgree
<1>1. IInv => EndsAgree
  <2> SUFFICES ASSUME IInv, NEW t \in Threads
               PROVE  /\ call[t].outcome # "ncf_mismatch"
                      /\ \A e \in Ends : active[t][e] => Agreed(t)
                      /\ Agreed(t) =>
                            /\ FrameOf(t, "a") = FrameOf(t, "b")
                            /\ FrameOf(t, "b") =
                                 bind(call[t].aid["b"], call[t].aid["a"],
                                      match(call[t].aid["b"], call[t].aid["a"]),
                                      FrameOf(t, "b").session_start)
    BY DEF EndsAgree
  <2>1. CallInv(call[t]) /\ call[t] \in Calls
    BY DEF IInv
  <2>2. ASSUME Agreed(t)
        PROVE  /\ FrameOf(t, "a") = FrameOf(t, "b")
               /\ FrameOf(t, "b") =
                    bind(call[t].aid["b"], call[t].aid["a"],
                         match(call[t].aid["b"], call[t].aid["a"]),
                         FrameOf(t, "b").session_start)
    <3> DEFINE a == call[t].aid["a"]
               b == call[t].aid["b"]
    <3>1. match(a, b).error = "none"
      BY <2>1, <2>2 DEF CallInv, Agreed
    <3>2. PICK s \in Int : \A e \in Ends : call[t].ncf[e] = Bound(bind(a, b, match(a, b), s))
      BY <2>1, <2>2 DEF CallInv, Agreed, FrameFrom
    <3>3. \A e \in Ends : FrameOf(t, e) = bind(a, b, match(a, b), s)
      BY <3>2, BoundFrame DEF FrameOf
    <3>4. bind(a, b, match(a, b), s).session_start = s
      BY DEF bind
    <3>5. a \in AgentIdentity /\ b \in AgentIdentity
      BY <2>1 DEF Calls, Ends
    <3>6. bind(a, b, match(a, b), s) = bind(b, a, match(b, a), s)
      BY <3>1, <3>5, BindSymmetric
    <3> HIDE DEF a, b
    <3>7. QED
      BY <3>3, <3>4, <3>6 DEF Ends, a, b
  <2>3. QED
    BY <2>1, <2>2 DEF IInv, CallInv
<1>2. QED
  BY <1>1, Inductive, PTL

\* A session that is in use was bound to the operators that both agents know and to
\* limits that are none laxer than those of either (PassesHonourBoth).
LEMMA ActiveIsStrictest ==
    ASSUME IInv, NEW t \in Threads, NEW e \in Ends, active[t][e], NEW f \in Ends
    PROVE  /\ FrameOf(t, e).shared_operators \subseteq call[t].aid[f].supported_operators
           /\ FrameOf(t, e).temporal.tau_stale <= call[t].aid[f].temporal_config.tau_stale
           /\ FrameOf(t, e).temporal.max_skew <= call[t].aid[f].temporal_config.max_skew
           /\ FrameOf(t, e).temporal.tau_stale \in Nat
           /\ FrameOf(t, e).temporal.max_skew \in Nat
           /\ call[t].aid[f].temporal_config.tau_stale \in Nat
           /\ call[t].aid[f].temporal_config.max_skew \in Nat
<1> DEFINE a == call[t].aid["a"]
           b == call[t].aid["b"]
<1>1. CallInv(call[t]) /\ call[t] \in Calls
  BY DEF IInv
<1>2. Agreed(t)
  BY DEF IInv
<1>3. match(a, b).error = "none"
  BY <1>1, <1>2 DEF CallInv, Agreed
<1>4. PICK s \in Int : call[t].ncf[e] = Bound(bind(a, b, match(a, b), s))
  BY <1>1, <1>2 DEF CallInv, Agreed, FrameFrom
<1>5. FrameOf(t, e) = bind(a, b, match(a, b), s)
  BY <1>4 DEF FrameOf, Bound
<1>6. /\ a \in AgentIdentity /\ b \in AgentIdentity
      /\ call[t].aid[f] = a \/ call[t].aid[f] = b
  BY <1>1 DEF Calls, Ends
<1> HIDE DEF a, b
<1>7. FrameOf(t, e).shared_operators = Intersection(a, b)
  <2>1. match(a, b).operators = Intersection(a, b)
    BY <1>3, MatchFound
  <2> QED
    BY <1>5, <2>1 DEF bind
<1>8. FrameOf(t, e).shared_operators \subseteq call[t].aid[f].supported_operators
  BY <1>6, <1>7 DEF Intersection
<1>9. /\ FrameOf(t, e).temporal.tau_stale
            = Lesser(a.temporal_config.tau_stale, b.temporal_config.tau_stale)
      /\ FrameOf(t, e).temporal.max_skew
            = Lesser(a.temporal_config.max_skew, b.temporal_config.max_skew)
  BY <1>5 DEF bind, AlignTemporal
<1>10. /\ a.temporal_config.tau_stale \in Nat /\ b.temporal_config.tau_stale \in Nat
       /\ a.temporal_config.max_skew \in Nat /\ b.temporal_config.max_skew \in Nat
  BY <1>6 DEF AgentIdentity, Limits
<1> DEFINE x == a.temporal_config
           y == b.temporal_config
<1>11. /\ Lesser(x.tau_stale, y.tau_stale) \in Nat
       /\ Lesser(x.tau_stale, y.tau_stale) <= x.tau_stale
       /\ Lesser(x.tau_stale, y.tau_stale) <= y.tau_stale
  BY <1>10, LesserIsBelow
<1>12. /\ Lesser(x.max_skew, y.max_skew) \in Nat
       /\ Lesser(x.max_skew, y.max_skew) <= x.max_skew
       /\ Lesser(x.max_skew, y.max_skew) <= y.max_skew
  BY <1>10, LesserIsBelow
<1> QED BY <1>6, <1>8, <1>9, <1>10, <1>11, <1>12

\* A word between blanks that the grammar reads as an operator is found by the scan.
LEMMA SpacedIsFound ==
    ASSUME NEW chain \in SUBSET Tokens, NEW op \in OperatorsIn(chain), Spaced(op, chain)
    PROVE  op \in ExtractOperators(chain)
<1>1. PICK tok : tok = [word |-> op, form |-> "word"]
  OBVIOUS
<1>2. tok \in {y \in chain : y.form \in {"word", "literal"}} /\ tok.word = op
  BY <1>1 DEF Spaced
<1>3. op \in OfForms(chain, {"word", "literal"})
  BY <1>2, Zenon DEF OfForms
<1>4. op \in Operators
  BY DEF OperatorsIn
<1> QED BY <1>3, <1>4 DEF ExtractOperators

\* What a session lets pass is what both agents declared to allow (PassesHonourBoth):
\* every operator that stands between blanks, and the age of the evidence.
THEOREM PassesAlwaysHonourBoth == Spec => []PassesHonourBoth
<1>1. IInv => PassesHonourBoth
  <2> SUFFICES ASSUME IInv, NEW t \in Threads, NEW e \in Ends, NEW f \in Ends
               PROVE  /\ \A chain \in SUBSET Tokens : ChainAllowed(t, e, chain) =>
                            \A op \in OperatorsIn(chain) :
                                Spaced(op, chain) => op \in call[t].aid[f].supported_operators
                      /\ \A stamp \in Time : EvidenceAllowed(t, e, stamp) =>
                            /\ now - stamp <= call[t].aid[f].temporal_config.tau_stale
                            /\ now - stamp >= -call[t].aid[f].temporal_config.max_skew
    BY DEF PassesHonourBoth
  <2>1. ASSUME NEW chain \in SUBSET Tokens, ChainAllowed(t, e, chain),
               NEW op \in OperatorsIn(chain), Spaced(op, chain)
        PROVE  op \in call[t].aid[f].supported_operators
    <3>1. active[t][e] /\ ExtractOperators(chain) \subseteq FrameOf(t, e).shared_operators
      BY <2>1 DEF ChainAllowed
    <3> QED BY <2>1, <3>1, SpacedIsFound, ActiveIsStrictest
  <2>2. ASSUME NEW stamp \in Time, EvidenceAllowed(t, e, stamp)
        PROVE  /\ now - stamp <= call[t].aid[f].temporal_config.tau_stale
               /\ now - stamp >= -call[t].aid[f].temporal_config.max_skew
    <3>1. now \in Int /\ stamp \in Int
      BY BoundsAreNatural DEF IInv, Time
    <3>2. /\ active[t][e]
          /\ now - stamp <= FrameOf(t, e).temporal.tau_stale
          /\ now - stamp >= -FrameOf(t, e).temporal.max_skew
      BY <2>2 DEF EvidenceAllowed
    <3> QED BY <3>1, <3>2, ActiveIsStrictest
  <2> QED BY <2>1, <2>2
<1>2. QED
  BY <1>1, Inductive, PTL

-----------------------------------------------------------------------------
(* Trust on first use.                                                       *)

\* The key of end e has been compared with the registry, or stored there.
Verified(t, e) ==
    \/ call[t].step \in {"match", "start", "bind", "compare"}
    \/ Agreed(t)
    \/ call[t].step \in {"identify", "trust"} /\ call[t].end = "b" /\ e = "a"

KeyOf(x) == call[x[1]].key[x[2]]

\* Unless an operator has registered one, every key that the registry holds or that
\* an end was identified by is one that some end has taken up.
KeyInv ==
    /\ keys \in [Agents -> Keys \cup {NoKey}]
    /\ \A a \in Agents \ rekeyed :
        /\ keys[a] # NoKey => \E x \in TookUp(a) : keys[a] = KeyOf(x)
        /\ TookUp(a) # {} => keys[a] # NoKey
        /\ \A t \in Threads, e \in Ends :
             call[t].aid[e].agent_id = a /\ Verified(t, e) =>
                \E x \in TookUp(a) : call[t].key[e] = KeyOf(x)

\* What a step of a call leaves alone.
SameParties ==
    \A u \in Threads :
        call'[u].aid = call[u].aid /\ call'[u].key = call[u].key

\* A step that takes no key up, and verifies no end but by the registry.
LEMMA NoKeyTakenUp ==
    ASSUME IInv, KeyInv, SameParties, rekeyed \subseteq rekeyed',
           keys' \in [Agents -> Keys \cup {NoKey}],
           \A a \in Agents \ rekeyed' : keys'[a] = keys[a],
           \A u \in Threads : call'[u].took_up = call[u].took_up,
           \A u \in Threads, e \in Ends :
              Verified(u, e)' => Verified(u, e) \/ keys[call[u].aid[e].agent_id] = call[u].key[e]
    PROVE  KeyInv'
<1> SUFFICES ASSUME NEW a \in Agents \ rekeyed'
             PROVE  /\ keys'[a] # NoKey => \E x \in TookUp(a)' : keys'[a] = KeyOf(x)'
                    /\ TookUp(a)' # {} => keys'[a] # NoKey
                    /\ \A t \in Threads, e \in Ends :
                         call'[t].aid[e].agent_id = a /\ Verified(t, e)' =>
                            \E x \in TookUp(a)' : call'[t].key[e] = KeyOf(x)'
  BY DEF KeyInv
<1>1. TookUp(a)' = TookUp(a)
  BY DEF TookUp, SameParties
<1>2. \A x \in TookUp(a) : KeyOf(x)' = KeyOf(x)
  BY DEF TookUp, KeyOf, SameParties
<1>3. keys'[a] = keys[a] /\ a \in Agents \ rekeyed
  OBVIOUS
<1>4. ASSUME NEW t \in Threads, NEW e \in Ends,
             call'[t].aid[e].agent_id = a, Verified(t, e)'
      PROVE  \E x \in TookUp(a)' : call'[t].key[e] = KeyOf(x)'
  <2>1. call[t].aid[e].agent_id = a /\ call'[t].key[e] = call[t].key[e]
    BY <1>4 DEF SameParties
  <2>2. CASE Verified(t, e)
    BY <1>1, <1>2, <1>3, <2>1, <2>2 DEF KeyInv
  <2>3. CASE keys[a] = call[t].key[e]
    <3>1. call[t].key[e] # NoKey
      BY NoKeyIsNoKey DEF IInv, Calls
    <3>2. QED
      BY <1>1, <1>2, <1>3, <2>1, <2>3, <3>1 DEF KeyInv
  <2>4. QED
    BY <1>4, <2>1, <2>2, <2>3
<1>5. QED
  BY <1>1, <1>2, <1>3, <1>4 DEF KeyInv

\* The steps before and after the identification.
LEMMA OtherStepsKeepKeys ==
    ASSUME IInv, KeyInv, NEW t \in Threads,
           Sign(t) \/ Verify(t) \/ Match(t) \/ Start(t) \/ Bind(t) \/ Compare(t)
    PROVE  KeyInv'
<1>1. call \in [Threads -> Calls] /\ call[t] \in Calls /\ CallInv(call[t])
  BY DEF IInv
<1>2. UNCHANGED <<keys, rekeyed>>
  BY DEF Sign, Verify, Match, Start, Bind, Compare
<1>3. /\ \A u \in Threads : u # t => call'[u] = call[u]
      /\ call'[t].aid = call[t].aid /\ call'[t].key = call[t].key
      /\ call'[t].took_up = call[t].took_up
      /\ \A e \in Ends : Verified(t, e)' => Verified(t, e)
  <2>1. CASE Sign(t)
    BY <1>1, <2>1 DEF Sign, At, Onward, Calls, Verified, Agreed, CallInv
  <2>2. CASE Verify(t)
    <3>1. call[t].step = "verify" /\ call[t].outcome = "running"
      BY <1>1, <2>2 DEF Verify, At, CallInv
    <3>2. \/ call' = [call EXCEPT ![t] =
                        [Onward(t, "identify") EXCEPT !.stamp[call[t].end] = 0]]
          \/ \E why \in {"signature", "replay"} : call' = [call EXCEPT ![t] = Refused(t, why)]
      BY <2>2 DEF Verify, AnnouncementFault
    <3>3. CASE call' = [call EXCEPT ![t] =
                        [Onward(t, "identify") EXCEPT !.stamp[call[t].end] = 0]]
      BY <1>1, <3>1, <3>3 DEF Onward, Calls, Verified, Agreed
    <3>4. CASE \E why \in {"signature", "replay"} : call' = [call EXCEPT ![t] = Refused(t, why)]
      BY <1>1, <3>1, <3>4 DEF Refused, Begun, Calls, Verified, Agreed
    <3>5. QED
      BY <3>2, <3>3, <3>4
  <2>3. CASE Match(t)
    BY <1>1, <2>3 DEF Match, At, Refused, Begun, Calls, Verified, Agreed, CallInv
  <2>4. CASE Start(t)
    BY <1>1, <2>4 DEF Start, At, Calls, Verified, Agreed, CallInv
  <2>5. CASE Bind(t)
    BY <1>1, <2>5 DEF Bind, At, Onward, Calls, Verified, Agreed, CallInv
  <2>6. CASE Compare(t)
    <3>1. /\ call[t].step = "compare"
          /\ call' = [call EXCEPT ![t].step = "done", ![t].outcome = "agreed", ![t].start = 0]
      BY <1>1, <2>6 DEF Compare, At, CallInv, Ends
    <3>2. QED
      BY <1>1, <3>1 DEF Calls, Verified, Agreed
  <2>7. QED
    BY <2>1, <2>2, <2>3, <2>4, <2>5, <2>6
<1>4. \A u \in Threads, e \in Ends : Verified(u, e)' => Verified(u, e)
  BY <1>3 DEF Verified, Agreed
<1>5. SameParties /\ \A u \in Threads : call'[u].took_up = call[u].took_up
  BY <1>3 DEF SameParties
<1>6. QED
  BY <1>2, <1>4, <1>5, NoKeyTakenUp DEF KeyInv

\* An end whose key is the registered one is verified by it.
LEMMA IdentifyKeepsKeys ==
    ASSUME IInv, KeyInv, NEW t \in Threads, Identify(t)
    PROVE  KeyInv'
<1>1. /\ call \in [Threads -> Calls] /\ call[t] \in Calls
      /\ call[t].step = "identify" /\ call[t].outcome = "running"
  BY DEF IInv, Identify, At, CallInv
<1>2. UNCHANGED <<keys, rekeyed>>
  BY DEF Identify
<1>3. /\ \A u \in Threads : u # t => call'[u] = call[u]
      /\ call'[t].aid = call[t].aid /\ call'[t].key = call[t].key
      /\ call'[t].took_up = call[t].took_up
      /\ \A e \in Ends : Verified(t, e)' =>
            Verified(t, e) \/ keys[call[t].aid[e].agent_id] = call[t].key[e]
  <2>1. \/ keys[Me(t)] = MyKey(t) /\ call' = [call EXCEPT ![t] = Onward(t, "match")]
        \/ call' = [call EXCEPT ![t] = [call[t] EXCEPT !.step = "trust"]]
        \/ call' = [call EXCEPT ![t] = Refused(t, "key_mismatch")]
    BY DEF Identify
  <2>2. CASE keys[Me(t)] = MyKey(t) /\ call' = [call EXCEPT ![t] = Onward(t, "match")]
    BY <1>1, <2>2 DEF Onward, Calls, Ends, Verified, Agreed, Me, MyKey
  <2>3. CASE call' = [call EXCEPT ![t] = [call[t] EXCEPT !.step = "trust"]]
    BY <1>1, <2>3 DEF Calls, Verified, Agreed
  <2>4. CASE call' = [call EXCEPT ![t] = Refused(t, "key_mismatch")]
    BY <1>1, <2>4 DEF Refused, Begun, Calls, Verified, Agreed
  <2>5. QED
    BY <2>1, <2>2, <2>3, <2>4
<1>4. \A u \in Threads, e \in Ends :
        Verified(u, e)' => Verified(u, e) \/ keys[call[u].aid[e].agent_id] = call[u].key[e]
  BY <1>3 DEF Verified, Agreed
<1>5. SameParties /\ \A u \in Threads : call'[u].took_up = call[u].took_up
  BY <1>3 DEF SameParties
<1>6. QED
  BY <1>2, <1>4, <1>5, NoKeyTakenUp DEF KeyInv

\* The key that is taken up is the registered one from then on.
LEMMA TrustKeepsKeys ==
    ASSUME IInv, KeyInv, NEW t \in Threads, Trust(t)
    PROVE  KeyInv'
<1>1. /\ call \in [Threads -> Calls] /\ call[t] \in Calls
      /\ call[t].step = "trust" /\ call[t].outcome = "running"
  BY DEF IInv, Trust, At, CallInv
<1>2. /\ \A u \in Threads : u # t => call'[u] = call[u]
      /\ call'[t].aid = call[t].aid /\ call'[t].key = call[t].key
      /\ call'[t].took_up = [call[t].took_up EXCEPT ![call[t].end] = TRUE]
      /\ \A e \in Ends : Verified(t, e)' => Verified(t, e) \/ e = call[t].end
  BY <1>1 DEF Trust, Onward, Calls, Ends, Verified, Agreed
<1>3. /\ UNCHANGED rekeyed
      /\ keys' = [keys EXCEPT ![Me(t)] = MyKey(t)]
  BY DEF Trust
<1>4. Me(t) \in Agents /\ MyKey(t) \in Keys /\ call[t].end \in Ends
  BY <1>1 DEF Me, MyKey, Calls, AgentIdentity
<1>a. PICK me \in Agents : me = Me(t)
  BY <1>4
<1>z. PICK z \in Threads \X Ends : z = <<t, call[t].end>>
  BY <1>4
<1>5. \A x \in Threads \X Ends : KeyOf(x)' = KeyOf(x)
  BY <1>2 DEF KeyOf
<1>6. /\ \A a \in Agents \ {me} : TookUp(a)' = TookUp(a)
      /\ TookUp(me)' = TookUp(me) \cup {z}
  <2>1. \A x \in Threads \X Ends :
          /\ call'[x[1]].aid = call[x[1]].aid
          /\ x # z => call'[x[1]].took_up[x[2]] = call[x[1]].took_up[x[2]]
    BY <1>1, <1>2, <1>z DEF Calls
  <2>2. call'[z[1]].took_up[z[2]] = TRUE
    BY <1>1, <1>2, <1>4, <1>z DEF Calls
  <2>3. call[z[1]].aid[z[2]].agent_id = me
    BY <1>a, <1>z DEF Me
  <2>4. QED
    BY <2>1, <2>2, <2>3 DEF TookUp
<1>7. keys' \in [Agents -> Keys \cup {NoKey}]
  BY <1>3, <1>4 DEF KeyInv
<1>8. \A a \in Agents : TookUp(a) \subseteq Threads \X Ends
  BY DEF TookUp
<1>9. KeyOf(z) = MyKey(t)
  BY <1>z DEF KeyOf, MyKey
<1>10. \A u \in Threads, e \in Ends :
         /\ call'[u].aid = call[u].aid /\ call'[u].key = call[u].key
         /\ Verified(u, e)' => Verified(u, e) \/ <<u, e>> = z
  BY <1>2, <1>z DEF Verified, Agreed
<1>11. \A u \in Threads, e \in Ends : <<u, e>> = z =>
         call[u].aid[e].agent_id = me /\ call[u].key[e] = MyKey(t)
  BY <1>a, <1>z DEF Me, MyKey
<1>12. ASSUME NEW a \in Agents \ rekeyed'
       PROVE  /\ keys'[a] # NoKey => \E x \in TookUp(a)' : keys'[a] = KeyOf(x)'
              /\ TookUp(a)' # {} => keys'[a] # NoKey
              /\ \A u \in Threads, e \in Ends :
                   call'[u].aid[e].agent_id = a /\ Verified(u, e)' =>
                      \E x \in TookUp(a)' : call'[u].key[e] = KeyOf(x)'
  <2>1. CASE a = me
    <3>1. keys'[a] = MyKey(t) /\ keys'[a] # NoKey
      BY <1>3, <1>4, <1>a, <2>1, NoKeyIsNoKey DEF KeyInv
    <3>2. z \in TookUp(a)' /\ KeyOf(z)' = MyKey(t)
      BY <1>4, <1>5, <1>6, <1>9, <2>1
    <3>3. ASSUME NEW u \in Threads, NEW e \in Ends,
                 call'[u].aid[e].agent_id = a, Verified(u, e)'
          PROVE  \E x \in TookUp(a)' : call'[u].key[e] = KeyOf(x)'
      <4>1. CASE <<u, e>> = z
        BY <1>10, <1>11, <3>2, <4>1
      <4>2. CASE Verified(u, e)
        <5>1. PICK x \in TookUp(a) : call[u].key[e] = KeyOf(x)
          BY <1>3, <1>10, <3>3, <4>2 DEF KeyInv
        <5>2. x \in TookUp(a)' /\ KeyOf(x)' = KeyOf(x)
          BY <1>5, <1>6, <1>8, <2>1, <5>1
        <5>3. QED
          BY <1>10, <5>1, <5>2
      <4>3. QED
        BY <1>10, <3>3, <4>1, <4>2
    <3>4. QED
      BY <3>1, <3>2, <3>3
  <2>2. CASE a # me
    <3>1. keys'[a] = keys[a] /\ TookUp(a)' = TookUp(a) /\ a \in Agents \ rekeyed
      BY <1>3, <1>6, <1>a, <2>2 DEF KeyInv
    <3>2. \A x \in TookUp(a) : KeyOf(x)' = KeyOf(x)
      BY <1>5, <1>8
    <3>3. \A u \in Threads, e \in Ends :
            call[u].aid[e].agent_id = a /\ Verified(u, e)' => Verified(u, e)
      BY <1>10, <1>11, <2>2
    <3>4. QED
      BY <1>10, <3>1, <3>2, <3>3 DEF KeyInv
  <2>3. QED
    BY <2>1, <2>2
<1>13. QED
  BY <1>7, <1>12 DEF KeyInv

\* What goes on around the calls: an agent that is rekeyed drops out.
LEMMA WorldKeepsKeys ==
    ASSUME IInv, KeyInv, UNCHANGED call,
           \/ UNCHANGED <<keys, rekeyed>>
           \/ \E a \in Registered : \E k \in KeysOf[a] : Register(a, k)
    PROVE  KeyInv'
<1>1. SameParties /\ \A u \in Threads : call'[u].took_up = call[u].took_up
  BY DEF SameParties
<1>2. \A u \in Threads, e \in Ends : Verified(u, e)' => Verified(u, e)
  BY DEF Verified, Agreed
<1>3. /\ rekeyed \subseteq rekeyed' /\ keys' \in [Agents -> Keys \cup {NoKey}]
      /\ \A a \in Agents \ rekeyed' : keys'[a] = keys[a]
  BY RegisteredAreAgents, KeysOfAgents DEF Register, KeyInv
<1>4. QED
  BY <1>1, <1>2, <1>3, NoKeyTakenUp

\* Sessions rest on the key that was taken up (SessionsShareTheKey).
THEOREM SessionsAlwaysShareTheKey == Spec => []SessionsShareTheKey
<1>1. Init => KeyInv
  <2> SUFFICES ASSUME Init PROVE KeyInv
    OBVIOUS
  <2>1. \A t \in Threads : call[t].step = "sign" /\ call[t].outcome = "running"
            /\ \A e \in Ends : call[t].took_up[e] = FALSE
    BY DEF Init, Begun
  <2>2. \A a \in Agents : TookUp(a) = {}
    BY <2>1 DEF TookUp
  <2>3. QED
    BY <2>1, <2>2 DEF Init, KeyInv, Verified, Agreed
<1>2. IInv /\ KeyInv /\ [Next]_vars => KeyInv'
  <2> SUFFICES ASSUME IInv, KeyInv, [Next]_vars PROVE KeyInv'
    OBVIOUS
  <2>1. ASSUME NEW t \in Threads, Negotiate(t) PROVE KeyInv'
    BY <2>1, OtherStepsKeepKeys, IdentifyKeepsKeys, TrustKeepsKeys DEF Negotiate
  <2>2. ASSUME NEW t \in Threads, NEW e \in Ends, Terminate(t, e) PROVE KeyInv'
    BY <2>2, WorldKeepsKeys DEF Terminate
  <2>3. CASE SetClock
    BY <2>3, WorldKeepsKeys DEF SetClock
  <2>4. ASSUME NEW a \in Registered, NEW k \in KeysOf[a], Register(a, k) PROVE KeyInv'
    BY <2>4, WorldKeepsKeys DEF Register
  <2>5. CASE UNCHANGED vars
    BY <2>5, WorldKeepsKeys DEF vars
  <2>6. QED
    BY <2>1, <2>2, <2>3, <2>4, <2>5 DEF Next
<1>3. KeyInv => SessionsShareTheKey
  <2> SUFFICES ASSUME KeyInv, NEW a \in Agents \ rekeyed,
                      \A x, y \in TookUp(a) : x = y
               PROVE  /\ \A x \in TookUp(a) : keys[a] = call[x[1]].key[x[2]]
                      /\ \A t \in Threads, e \in Ends :
                           Agreed(t) /\ call[t].aid[e].agent_id = a => call[t].key[e] = keys[a]
    BY DEF SessionsShareTheKey
  <2>1. \A x \in TookUp(a) : keys[a] = KeyOf(x)
    BY DEF KeyInv
  <2>2. \A t \in Threads, e \in Ends :
          Agreed(t) /\ call[t].aid[e].agent_id = a => call[t].key[e] = keys[a]
    BY <2>1 DEF KeyInv, Verified
  <2>3. QED
    BY <2>1, <2>2 DEF KeyOf
<1>4. QED
  BY <1>1, <1>2, <1>3, Inductive, PTL DEF Spec

-----------------------------------------------------------------------------
(* Induction. The library's theorems of induction take the formula as an     *)
(* operator; a set that a least element is missing from does as well.        *)

Below == {ss \in Nat \X Nat : ss[1] < ss[2]}

\* The order of the naturals as a set of pairs.
LEMMA BelowIsWellFounded == IsWellFoundedOn(Below, Nat)
BY NatLessThanWellFounded, Zenon DEF OpToRel, Below

\* A set of naturals has a least element.
LEMMA LeastElement ==
    ASSUME NEW T \in SUBSET Nat, T # {}
    PROVE  \E x \in T : \A y \in T : ~(y < x)
<1>1. PICK x \in T : \A y \in T : ~(<<y, x>> \in Below)
  BY BelowIsWellFounded, WFMin
<1>2. \A a, b \in Nat : <<a, b>> \in Below <=> a < b
  BY DEF Below
<1> QED BY <1>1, <1>2, Zenon

\* A set with 0 and the successor of each of its numbers has all of them.
LEMMA SetInduction ==
    ASSUME NEW S, 0 \in S, \A n \in Nat : n \in S => n + 1 \in S
    PROVE  \A n \in Nat : n \in S
<1> SUFFICES ASSUME Nat \ S # {} PROVE FALSE
  OBVIOUS
<1>1. PICK x \in Nat \ S : \A y \in Nat \ S : ~(y < x)
  BY LeastElement
<1>2. x # 0 /\ x \in Nat
  BY <1>1
<1>3. x - 1 \in Nat /\ x - 1 < x /\ (x - 1) + 1 = x
  BY <1>2
<1>4. x - 1 \in S
  BY <1>1, <1>3
<1> QED BY <1>1, <1>3, <1>4

-----------------------------------------------------------------------------
(* What the recursions of Actions give.                                      *)

\* What the verbs make of a literal, one by one.
LEMMA MeaningsGive ==
    ASSUME NEW verbs \in Seq(Verbs), NEW key, NEW mode
    PROVE  LET value == Meanings(verbs, key, mode)
           IN  /\ value[Len(verbs) + 1] = Operand(key)
               /\ \A i \in 1 .. Len(verbs) : value[i] = ApplyVerb(verbs[i], value[i + 1], mode)
<1>1. PICK N \in Nat : N = Len(verbs)
  OBVIOUS
<1> DEFINE Step(f, i) == IF i > N THEN Operand(key) ELSE ApplyVerb(verbs[i], f[i + 1], mode)
<1> DEFINE Solves(k) == \E f : \A i \in k .. (N + 1) : f[i] = Step(f, i)
<1> DEFINE S == {n \in Nat : n > N \/ Solves(N + 1 - n)}
<1>2. 0 \in S
  <2>1. PICK f : f = [i \in {N + 1} |-> Operand(key)]
    OBVIOUS
  <2>2. \A i \in (N + 1 - 0) .. (N + 1) : f[i] = Step(f, i)
    BY <2>1
  <2> QED BY <2>2
<1>3. ASSUME NEW n \in Nat, n \in S PROVE n + 1 \in S
  <2>1. CASE n + 1 > N
    BY <2>1
  <2>2. CASE n + 1 <= N
    <3>1. PICK f : \A i \in (N + 1 - n) .. (N + 1) : f[i] = Step(f, i)
      BY <1>3, <2>2
    <3>2. PICK j \in 1 .. N : j = N - n
      BY <2>2
    <3>3. PICK g : g = [i \in j .. (N + 1) |->
                            IF i = j THEN ApplyVerb(verbs[j], f[j + 1], mode) ELSE f[i]]
      OBVIOUS
    <3>4. ASSUME NEW i \in j .. (N + 1) PROVE g[i] = Step(g, i)
      <4>1. i \in Int /\ (i > N <=> i = N + 1) /\ (i <= N => i + 1 \in j .. (N + 1) /\ i + 1 # j)
        OBVIOUS
      <4>2. CASE i = j
        BY <3>3, <4>1, <4>2
      <4>3. CASE i # j
        <5>1. g[i] = f[i] /\ f[i] = Step(f, i)
          BY <3>1, <3>2, <3>3, <4>3
        <5>2. i <= N => g[i + 1] = f[i + 1]
          BY <3>3, <4>1
        <5> QED BY <5>1, <5>2
      <4> QED BY <4>2, <4>3
    <3>5. N + 1 - (n + 1) = j
      BY <3>2
    <3>6. Solves(j)
      <4> HIDE DEF Step
      <4> QED BY <3>4
    <3>7. n + 1 \in Nat
      OBVIOUS
    <3> HIDE DEF Solves
    <3> QED BY <3>5, <3>6, <3>7
  <2>3. n + 1 > N \/ n + 1 <= N
    OBVIOUS
  <2> HIDE DEF S
  <2> QED BY <2>1, <2>2, <2>3
<1>4. N \in S
  <2> HIDE DEF S
  <2> QED BY <1>1, <1>2, <1>3, SetInduction
<1>5. PICK f : \A i \in 1 .. (N + 1) : f[i] = Step(f, i)
  BY <1>4
<1>6. PICK h : h = [i \in 1 .. (N + 1) |-> f[i]]
  OBVIOUS
<1>7. h = [i \in 1 .. (N + 1) |-> Step(h, i)]
  <2>1. \A i \in 1 .. (N + 1) : i <= N => i + 1 \in 1 .. (N + 1)
    OBVIOUS
  <2>2. \A i \in 1 .. (N + 1) : h[i] = Step(h, i)
    BY <1>5, <1>6, <2>1
  <2> QED BY <1>6, <2>2
<1>8. Meanings(verbs, key, mode)
          = [i \in 1 .. (N + 1) |-> Step(Meanings(verbs, key, mode), i)]
  BY <1>1, <1>7 DEF Meanings
<1>9. N + 1 \in 1 .. (N + 1) /\ \A i \in 1 .. N : i \in 1 .. (N + 1) /\ ~(i > N)
  OBVIOUS
<1>10. PICK value : value = Meanings(verbs, key, mode)
  OBVIOUS
<1>11. \A i \in 1 .. (N + 1) : value[i] = Step(value, i)
  BY <1>8, <1>10
<1> QED BY <1>1, <1>9, <1>10, <1>11

\* The same for the names of words.
LEMMA NamesGive ==
    ASSUME NEW W, NEW words \in Seq(W), Len(words) > 0
    PROVE  LET named == Names(words)
           IN  /\ named[Len(words)] = [kind |-> Nothing, hash |-> NoHash, key |-> words[Len(words)]]
               /\ \A i \in 1 .. Len(words) - 1 : named[i] = Named(words[i], named[i + 1])
<1>1. PICK N \in Nat \ {0} : N = Len(words)
  OBVIOUS
<1> DEFINE End == [kind |-> Nothing, hash |-> NoHash, key |-> words[N]]
<1> DEFINE Step(f, i) == IF i = N THEN End ELSE Named(words[i], f[i + 1])
<1> DEFINE S == {n \in Nat : n > N - 1 \/ \E f : \A i \in (N - n) .. N : f[i] = Step(f, i)}
<1>2. 0 \in S
  <2>1. PICK f : f = [i \in {N} |-> End]
    OBVIOUS
  <2>2. \A i \in (N - 0) .. N : f[i] = Step(f, i)
    BY <2>1
  <2> QED BY <2>2
<1>3. ASSUME NEW n \in Nat, n \in S PROVE n + 1 \in S
  <2>1. CASE n + 1 > N - 1
    BY <2>1
  <2>2. CASE n + 1 <= N - 1
    <3>1. PICK f : \A i \in (N - n) .. N : f[i] = Step(f, i)
      BY <1>3, <2>2
    <3>2. PICK j \in 1 .. N - 1 : j = N - (n + 1)
      BY <2>2
    <3>3. PICK g : g = [i \in j .. N |-> IF i = j THEN Named(words[j], f[j + 1]) ELSE f[i]]
      OBVIOUS
    <3>4. ASSUME NEW i \in j .. N PROVE g[i] = Step(g, i)
      <4>1. i \in Int /\ (i # N => i + 1 \in j .. N /\ i + 1 # j) /\ j # N
        OBVIOUS
      <4>2. CASE i = j
        BY <3>3, <4>1, <4>2
      <4>3. CASE i # j
        <5>1. g[i] = f[i] /\ f[i] = Step(f, i)
          BY <3>1, <3>2, <3>3, <4>3
        <5>2. i # N => g[i + 1] = f[i + 1]
          BY <3>3, <4>1
        <5> QED BY <5>1, <5>2
      <4> QED BY <4>2, <4>3
    <3>5. \A i \in (N - (n + 1)) .. N : g[i] = Step(g, i)
      BY <3>2, <3>4
    <3>6. \E f_ : \A i \in (N - (n + 1)) .. N : f_[i] = Step(f_, i)
      <4> HIDE DEF Step
      <4> QED BY <3>5
    <3>7. n + 1 \in Nat
      OBVIOUS
    <3> HIDE DEF Step
    <3> QED BY <3>6, <3>7
  <2>3. n + 1 > N - 1 \/ n + 1 <= N - 1
    OBVIOUS
  <2> HIDE DEF S
  <2> QED BY <2>1, <2>2, <2>3
<1>4. N - 1 \in S
  <2> HIDE DEF S
  <2> QED BY <1>1, <1>2, <1>3, SetInduction
<1>5. PICK f : \A i \in 1 .. N : f[i] = Step(f, i)
  BY <1>4
<1>6. PICK h : h = [i \in 1 .. N |-> f[i]]
  OBVIOUS
<1>7. h = [i \in 1 .. N |-> Step(h, i)]
  <2>1. \A i \in 1 .. N : i # N => i + 1 \in 1 .. N
    OBVIOUS
  <2>2. \A i \in 1 .. N : h[i] = Step(h, i)
    BY <1>5, <1>6, <2>1
  <2> QED BY <1>6, <2>2
<1>8. Names(words) = [i \in 1 .. N |-> Step(Names(words), i)]
  <2>1. h = [i \in 1 .. Len(words) |->
                 IF i = Len(words) THEN [kind |-> Nothing, hash |-> NoHash, key |-> words[i]]
                 ELSE Named(words[i], h[i + 1])]
    BY <1>1, <1>7
  <2>2. Names(words)
            = [i \in 1 .. Len(words) |->
                   IF i = Len(words) THEN [kind |-> Nothing, hash |-> NoHash, key |-> words[i]]
                   ELSE Named(words[i], Names(words)[i + 1])]
    BY <2>1 DEF Names
  <2> QED BY <1>1, <2>2
<1>9. N \in 1 .. N /\ \A i \in 1 .. N - 1 : i \in 1 .. N /\ i # N
  OBVIOUS
<1>10. PICK named : named = Names(words)
  OBVIOUS
<1>11. \A i \in 1 .. N : named[i] = Step(named, i)
  BY <1>8, <1>10
<1> QED BY <1>1, <1>9, <1>10, <1>11

\* What holds at the end and steps to the left holds everywhere.
LEMMA FromTheRight ==
    ASSUME NEW N \in Nat, NEW S, N \in S, \A i \in 1 .. N - 1 : i + 1 \in S => i \in S
    PROVE  \A i \in 1 .. N : i \in S
<1> DEFINE T == {k \in Nat : k > N - 1 \/ N - k \in S}
<1>1. 0 \in T
  OBVIOUS
<1>2. ASSUME NEW k \in Nat, k \in T PROVE k + 1 \in T
  <2>1. CASE k + 1 > N - 1
    BY <2>1
  <2>2. CASE k + 1 <= N - 1
    <3>1. N - (k + 1) \in 1 .. N - 1 /\ (N - (k + 1)) + 1 = N - k /\ N - k \in S
      BY <1>2, <2>2
    <3>2. N - (k + 1) \in S
      BY <3>1
    <3> QED BY <3>2
  <2>3. k + 1 > N - 1 \/ k + 1 <= N - 1
    OBVIOUS
  <2> HIDE DEF T
  <2> QED BY <2>1, <2>2, <2>3
<1>3. \A k \in Nat : k \in T
  <2> HIDE DEF T
  <2> QED BY <1>1, <1>2, SetInduction
<1>4. ASSUME NEW i \in 1 .. N PROVE i \in S
  <2>1. N - i \in Nat /\ ~(N - i > N - 1) /\ N - (N - i) = i
    OBVIOUS
  <2> QED BY <1>3, <2>1
<1> QED BY <1>4

\* The names of a proposal's inner part are those it has by itself.
LEMMA NamesOfInnerPart ==
    ASSUME NEW W, NEW outer \in Seq(W), NEW inner \in Seq(W), Len(inner) > 0
    PROVE  Names(outer \o inner)[Len(outer) + 1] = Names(inner)[1]
<1>1. PICK M \in Nat, N \in Nat \ {0} : M = Len(outer) /\ N = Len(inner)
  OBVIOUS
<1>2. PICK words \in Seq(W) : words = outer \o inner
  BY ConcatProperties
<1>3. Len(words) = M + N /\ \A i \in 1 .. N : words[M + i] = inner[i]
  BY <1>1, <1>2, ConcatProperties
<1>4. PICK L \in Nat \ {0} : L = M + N
  OBVIOUS
<1>5. /\ Names(words)[L] = [kind |-> Nothing, hash |-> NoHash, key |-> words[L]]
      /\ \A k \in 1 .. L - 1 : Names(words)[k] = Named(words[k], Names(words)[k + 1])
  <2>1. Len(words) = L /\ Len(words) > 0
    BY <1>3, <1>4
  <2> QED BY <2>1, NamesGive
<1>6. /\ Names(inner)[N] = [kind |-> Nothing, hash |-> NoHash, key |-> inner[N]]
      /\ \A k \in 1 .. N - 1 : Names(inner)[k] = Named(inner[k], Names(inner)[k + 1])
  BY <1>1, NamesGive
<1> DEFINE S == {i \in 1 .. N : Names(words)[M + i] = Names(inner)[i]}
<1>7. N \in S
  BY <1>3, <1>4, <1>5, <1>6
<1>8. ASSUME NEW i \in 1 .. N - 1, i + 1 \in S PROVE i \in S
  <2>1. M + i \in 1 .. L - 1 /\ (M + i) + 1 = M + (i + 1) /\ i \in 1 .. N
    BY <1>4
  <2>2. Names(words)[M + i] = Named(words[M + i], Names(words)[M + (i + 1)])
    BY <1>5, <2>1
  <2>3. Names(inner)[i] = Named(inner[i], Names(inner)[i + 1])
    BY <1>6
  <2> QED BY <1>3, <1>8, <2>1, <2>2, <2>3
<1>9. 1 \in S
  <2> HIDE DEF S
  <2> QED BY <1>7, <1>8, FromTheRight
<1> QED BY <1>1, <1>2, <1>9

-----------------------------------------------------------------------------
(* One verb.                                                                 *)

\* A name says what its target is: the key of a symbol, or an action and its hash.
NamesTarget(inner, target) ==
    \/ /\ target = Symbol(inner.key)
       /\ inner.kind = Nothing
       /\ inner.hash = NoHash
    \/ /\ IsAction(target)
       /\ inner.kind = target.kind
       /\ inner.hash = HashOfTarget(target)
       /\ inner.hash \notin {NoHash, Unset}
       /\ inner.key = Nothing

\* An action that was evaluated and is what a name says.
Evaluated(action, name, outcome) ==
    /\ IsAction(action)
    /\ {"type", "kind", "hash"} \subseteq DOMAIN action
    /\ action.kind = name.kind
    /\ action.hash = name.hash
    /\ ComputeActionHash(action, FALSE) = action.hash
    /\ action.event = [name.hash EXCEPT !.outcome = outcome]

\* What stops a chain: nothing a verb makes of it is an action.
Stops(x) == x.type = "error" \/ x \in {Undefined, Sentinel, Raised}

SubjectOf(verb) == IF verb = "noq" THEN Subject ELSE Nothing

\* Values of different types differ.
LEMMA TypesDiffer ==
    /\ \A x : IsAction(x) \/ x.type = "error" \/ (\E key : x = Symbol(key))
                  => x \notin {Undefined, Sentinel, Raised}
    /\ \A x : IsAction(x) => x.type \notin {"error", "undefined", "literal"}
    /\ \A key : ~IsAction(Symbol(key)) /\ Symbol(key).type = "symbol"
    /\ \A x : Stops(x) => ~IsAction(x) /\ x.type # "literal"
    /\ \A x : x \in {Undefined, Sentinel, Raised} => x.type \notin {"error", "literal", "symbol"}
BY DEF IsAction, Symbol, Undefined, Sentinel, Raised, Stops

\* A proposal has a digest.
LEMMA NamedHasHash ==
    ASSUME NEW verb, NEW inner
    PROVE  Named(verb, inner).hash \notin {NoHash, Unset}
<1>1. PICK h : h = Named(verb, inner).hash
  OBVIOUS
<1>2. h.digest = TRUE /\ "digest" \in DOMAIN h
  BY <1>1 DEF Named
<1>3. NoHash.digest = FALSE /\ "digest" \notin DOMAIN Unset
  BY DEF NoHash, Unset
<1> QED BY <1>1, <1>2, <1>3

\* _finalize_action gives a proposal its name, or stops.
LEMMA FinalizeIsNamed ==
    ASSUME NEW verb, NEW mode, NEW target, NEW inner, NEW outcome, NamesTarget(inner, target)
    PROVE  LET result == FinalizeAction(
                   Proposal(verb, KindOf(verb, inner), SubjectOf(verb), target, outcome), mode)
           IN  Stops(result) \/ Evaluated(result, Named(verb, inner), outcome)
<1> DEFINE a == Proposal(verb, KindOf(verb, inner), SubjectOf(verb), target, outcome)
<1> DEFINE result == FinalizeAction(a, mode)
<1> DEFINE child == IF inner.hash = NoHash THEN Unset ELSE inner.hash
<1>1. /\ a.target = target /\ a.child = Unset /\ a.outcome = outcome /\ IsAction(a)
      /\ a.kind = KindOf(verb, inner) /\ a.verb = verb /\ a.subject = SubjectOf(verb)
  BY DEF Proposal, IsAction
<1>2. target \notin {Undefined, Sentinel}
  BY TypesDiffer DEF NamesTarget
<1>3. ChildPointer(a) = child /\ (child = Unset <=> ~IsAction(target))
  BY <1>1, TypesDiffer DEF NamesTarget, ChildPointer
<1>4. (IF child = Unset THEN target ELSE Symbol(Nothing)) = Symbol(inner.key)
  BY <1>3 DEF NamesTarget
<1>5. ComputeActionHash(a, FALSE) = Named(verb, inner).hash
  BY <1>1, <1>3, <1>4 DEF ComputeActionHash, NormalizeAction, Named, SubjectOf
<1>6. PICK d : d = TRUE
  OBVIOUS
<1> DEFINE h(o) == [digest |-> d, verb |-> verb, kind |-> KindOf(verb, inner),
                     subject |-> SubjectOf(verb), child |-> child,
                     target |-> Symbol(inner.key), outcome |-> o]
<1>7. /\ Named(verb, inner).hash = h(Nothing)
      /\ ComputeActionHash(a, TRUE) = h(outcome)
      /\ [h(Nothing) EXCEPT !.outcome = outcome] = h(outcome)
  <2>1. Named(verb, inner).hash = h(Nothing)
    BY <1>6 DEF Named, SubjectOf
  <2>2. ComputeActionHash(a, TRUE) = h(outcome)
    BY <1>1, <1>3, <1>4, <1>6 DEF ComputeActionHash, NormalizeAction
  <2>3. [h(Nothing) EXCEPT !.outcome = outcome] = h(outcome)
    OBVIOUS
  <2> QED BY <2>1, <2>2, <2>3
<1>8. /\ ComputeActionHash(a, TRUE) = [Named(verb, inner).hash EXCEPT !.outcome = outcome]
      /\ outcome = Nothing
             => Named(verb, inner).hash = [Named(verb, inner).hash EXCEPT !.outcome = outcome]
  <2> HIDE DEF h, a
  <2> QED BY <1>7
<1>9. CASE Stops(result)
  BY <1>9
<1>10. CASE ~Stops(result)
  <2> DEFINE below == IF IsAction(target) THEN {HashOfTarget(target)} \union target.below ELSE {}
  <2> DEFINE hash == ComputeActionHash(a, FALSE)
  <2> DEFINE final == [a EXCEPT !.child = ChildPointer(a), !.hash = hash, !.below = below,
                            !.event = IF a.outcome = Nothing THEN hash
                                      ELSE ComputeActionHash(a, TRUE)]
  <2>1. result = IF hash \in below THEN Refusal("ERR_ACTION_CYCLE", mode) ELSE final
    BY <1>1, <1>2 DEF FinalizeAction
  <2>2. Stops(Refusal("ERR_ACTION_CYCLE", mode))
    BY DEF Refusal, Error, Stops
  <2>3. result = final
    BY <1>10, <2>1, <2>2
  <2>4. /\ final.type = a.type /\ final.kind = a.kind /\ final.hash = hash
        /\ final.target = a.target /\ final.verb = a.verb /\ final.subject = a.subject
        /\ final.child = ChildPointer(a)
        /\ final.event = IF a.outcome = Nothing THEN hash ELSE ComputeActionHash(a, TRUE)
    BY DEF Proposal
  <2>5. ChildPointer(final) = ChildPointer(a)
    BY <2>4 DEF ChildPointer
  <2>6. ComputeActionHash(final, FALSE) = hash
    BY <2>4, <2>5 DEF ComputeActionHash, NormalizeAction
  <2>7. final.event = [Named(verb, inner).hash EXCEPT !.outcome = outcome]
    BY <1>1, <1>5, <1>8, <2>4
  <2>8. Named(verb, inner).kind = a.kind
    BY <1>1 DEF Named
  <2>9. {"type", "kind", "hash"} \subseteq DOMAIN final
    BY DEF Proposal
  <2>10. Evaluated(final, Named(verb, inner), outcome)
    <3> HIDE DEF final, a, hash
    <3>1. final.type = "action"
      BY <1>1, <2>4 DEF IsAction
    <3>2. hash = Named(verb, inner).hash
      BY <1>5 DEF hash
    <3> QED BY <3>1, <3>2, <2>4, <2>6, <2>7, <2>8, <2>9 DEF Evaluated, IsAction
  <2> QED BY <2>3, <2>10
<1> QED BY <1>9, <1>10

\* What has stopped stays so.
LEMMA StopsStays ==
    ASSUME NEW verb \in Verbs, NEW mode \in Modes, NEW x, Stops(x)
    PROVE  Stops(ApplyVerb(verb, x, mode))
<1>1. Target(x) = x /\ x.type # "literal"
  BY TypesDiffer DEF Target
<1>2. \A code : Stops(Error(code)) /\ Stops(Refusal(code, mode))
  BY DEF Error, Refusal, Stops
<1>3. Stops(Undefined) /\ Stops(Raised)
  BY DEF Stops
<1>4. CASE x = Raised
  BY <1>3, <1>4 DEF ApplyVerb
<1>5. CASE x # Raised /\ verb \in {"mek", "men"}
  <2>1. ApplyVerb(verb, x, mode) = ActionEvent(verb, x, mode)
    BY <1>5 DEF ApplyVerb
  <2>2. CASE x.type = "error"
    BY <1>1, <2>1, <2>2 DEF ActionEvent
  <2>3. CASE x \in {Undefined, Sentinel}
    <3>1. x.type # "error" /\ ~IsAction(x)
      BY <2>3, TypesDiffer, <1>3 DEF Stops
    <3>2. \A verb_, kind, subject, outcome :
              Stops(FinalizeAction(Proposal(verb_, kind, subject, x, outcome), mode))
      <4> SUFFICES ASSUME NEW verb_, NEW kind, NEW subject, NEW outcome
                   PROVE  Stops(FinalizeAction(Proposal(verb_, kind, subject, x, outcome), mode))
        OBVIOUS
      <4>1. PICK a : a = Proposal(verb_, kind, subject, x, outcome)
        OBVIOUS
      <4>2. a.target = x
        BY <4>1 DEF Proposal
      <4>3. Undefined # Sentinel
        BY DEF Undefined, Sentinel
      <4>4. FinalizeAction(a, mode)
                = IF x = Undefined THEN Refusal("ERR_UNDEFINED_TARGET", mode) ELSE Raised
        BY <2>3, <4>2, <4>3 DEF FinalizeAction
      <4> QED BY <1>2, <1>3, <4>1, <4>4
    <3> QED BY <1>1, <1>2, <2>1, <3>1, <3>2 DEF ActionEvent
  <2> QED BY <1>5, <2>2, <2>3 DEF Stops
<1>6. CASE x # Raised /\ verb \in {"vus", "vel"}
  BY <1>1, <1>3, <1>6 DEF ApplyVerb, Delivery
<1>7. CASE x # Raised /\ verb = "noq"
  <2>1. ApplyVerb(verb, x, mode) = Request(x, mode)
    BY <1>7 DEF ApplyVerb
  <2>2. CASE x.type = "error" \/ x = Undefined
    BY <1>1, <2>1, <2>2 DEF Request, Undefined, IsAction
  <2>3. CASE x = Sentinel
    BY <1>1, <1>2, <1>3, <2>1, <2>3 DEF Request, Sentinel, IsAction
  <2> QED BY <1>7, <2>2, <2>3 DEF Stops
<1> QED BY <1>4, <1>5, <1>6, <1>7 DEF Verbs

\* What a verb looks up of the literal it is applied to.
LookedUp(verb, x, mode) ==
    CASE verb \in {"vus", "vel"} /\ x.type = "literal" -> ReportFor(x.key, mode)
      [] verb = "men" /\ x.type = "literal" -> Finding(Target(x))
      [] OTHER -> Nothing

\* What a verb may find: nothing to propose, or a target with the name given for it.
Fits(verb, x, inner) ==
    \/ Stops(x)
    \/ IsAction(x) /\ NamesTarget(inner, x)
    \/ \E key : /\ x = Operand(key)
                /\ IF verb \in {"vus", "vel"} THEN NamesTarget(inner, Symbol(key))
                   ELSE Target(x) = Undefined \/ NamesTarget(inner, Target(x))

\* A verb stops, or makes an action with the name of verb and target.
LEMMA VerbIsNamed ==
    ASSUME NEW verb \in Verbs, NEW mode \in Modes, NEW x, NEW inner, Fits(verb, x, inner)
    PROVE  LET result == ApplyVerb(verb, x, mode)
           IN  Stops(result) \/ Evaluated(result, Named(verb, inner), LookedUp(verb, x, mode))
<1>1. CASE Stops(x)
  BY <1>1, StopsStays
<1>2. CASE ~Stops(x)
  <2>1. x # Raised /\ x.type # "error"
    BY <1>2 DEF Stops
  <2>2. x.type = "literal" \/ IsAction(x)
    BY <1>2 DEF Fits, Operand
  <2>3. IsAction(x) => x.type # "literal" /\ Target(x) = x
    BY TypesDiffer DEF Target
  <2>4. \A code : Stops(Error(code)) /\ Stops(Refusal(code, mode))
    BY DEF Error, Refusal, Stops
  <2>5. Stops(Undefined)
    BY DEF Stops
  <2>6. CASE verb \in {"vus", "vel"}
    <3>1. ApplyVerb(verb, x, mode) = Delivery(verb, x, mode)
      BY <2>1, <2>6 DEF ApplyVerb
    <3>2. CASE x.type # "literal" \/ ReportFor(x.key, mode) = Nothing
      BY <2>5, <3>1, <3>2 DEF Delivery
    <3>3. CASE x.type = "literal" /\ ReportFor(x.key, mode) # Nothing
      <4>1. NamesTarget(inner, Symbol(x.key))
        BY <1>2, <2>3, <2>6, <3>3 DEF Fits, Operand
      <4>2. KindOf(verb, inner) = "delivery" /\ SubjectOf(verb) = Nothing
        BY <2>6 DEF KindOf, SubjectOf
      <4>3. ApplyVerb(verb, x, mode) = FinalizeAction(Proposal(verb, KindOf(verb, inner),
                SubjectOf(verb), Symbol(x.key), ReportFor(x.key, mode)), mode)
        BY <3>1, <3>3, <4>2 DEF Delivery
      <4>4. LookedUp(verb, x, mode) = ReportFor(x.key, mode)
        BY <2>6, <3>3 DEF LookedUp
      <4> QED BY <4>1, <4>3, <4>4, FinalizeIsNamed
    <3> QED BY <3>2, <3>3
  <2>7. CASE verb \in {"mek", "men"}
    <3>1. ApplyVerb(verb, x, mode) = ActionEvent(verb, x, mode)
      BY <2>1, <2>7 DEF ApplyVerb
    <3>2. CASE Target(x) = Undefined
      <4>1. Stops(ActionEvent(verb, Undefined, mode))
        BY <2>5, <2>7, StopsStays DEF ApplyVerb, Undefined, Raised
      <4>2. Target(Undefined) = Undefined
        BY DEF Target, Undefined
      <4>3. x.type = "literal"
        BY <2>2, <2>3, <3>2, TypesDiffer
      <4>4. PICK target : target = Target(x)
        OBVIOUS
      <4>5. ActionEvent(verb, x, mode) = ActionEvent(verb, Undefined, mode)
        BY <3>2, <4>2 DEF ActionEvent
      <4> QED BY <3>1, <4>1, <4>5
    <3>3. CASE Target(x) # Undefined
      <4>1. PICK target : target = Target(x)
        OBVIOUS
      <4>2. NamesTarget(inner, target)
        BY <1>2, <2>3, <2>7, <3>3, <4>1 DEF Fits
      <4>3. target.type # "error"
        BY <4>2 DEF NamesTarget, Symbol, IsAction
      <4>4. CASE mode = "strict" /\ ~Grounded(verb)
        BY <2>4, <3>1, <4>1, <4>3, <4>4 DEF ActionEvent
      <4>5. CASE mode = "strict" => Grounded(verb)
        <5> DEFINE kind == IF IsAction(target) /\ target.kind # Nothing THEN target.kind
                           ELSE IF verb = "men" THEN "audit" ELSE Nothing
        <5> DEFINE outcome == IF verb = "men" THEN Finding(target) ELSE Nothing
        <5>1. ApplyVerb(verb, x, mode)
                  = FinalizeAction(Proposal(verb, kind, Nothing, target, outcome), mode)
          BY <3>1, <4>1, <4>3, <4>5 DEF ActionEvent
        <5>2. kind = KindOf(verb, inner) /\ SubjectOf(verb) = Nothing
          BY <2>7, <4>2, TypesDiffer DEF KindOf, SubjectOf, NamesTarget
        <5>3. outcome = LookedUp(verb, x, mode)
          <6>1. CASE x.type = "literal"
            BY <2>7, <4>1, <6>1 DEF LookedUp
          <6>2. CASE x.type # "literal"
            BY <2>2, <2>3, <2>7, <4>1, <6>2, TypesDiffer DEF LookedUp, Finding, IsAction
          <6> QED BY <6>1, <6>2
        <5> HIDE DEF kind, outcome
        <5> QED BY <4>2, <5>1, <5>2, <5>3, FinalizeIsNamed
      <4> QED BY <4>4, <4>5
    <3> QED BY <3>2, <3>3
  <2>8. CASE verb = "noq"
    <3>1. ApplyVerb(verb, x, mode) = Request(x, mode)
      BY <2>1, <2>8 DEF ApplyVerb
    <3>2. PICK action : action = Target(x)
      OBVIOUS
    <3>3. action = Undefined \/ NamesTarget(inner, action)
      BY <1>2, <2>3, <2>8, <3>2 DEF Fits
    <3>4. CASE ~IsAction(action)
      <4>1. action.type \in {"undefined", "symbol"}
        BY <3>3, <3>4 DEF NamesTarget, Undefined, Symbol
      <4>2. action.type = "undefined" => action = Undefined
        BY <3>3, <3>4 DEF NamesTarget, Symbol
      <4> QED BY <2>4, <2>5, <3>1, <3>2, <4>1, <4>2 DEF Request, IsAction
    <3>5. CASE IsAction(action)
      <4>1. action.type \notin {"error", "undefined"}
        BY <3>5, TypesDiffer
      <4>2. Request(x, mode) = IF ~Grounded("noq") THEN Undefined
                ELSE FinalizeAction(Proposal("noq", "request", Subject, action, Nothing), mode)
        BY <3>2, <3>5, <4>1 DEF Request, IsAction
      <4>3. KindOf(verb, inner) = "request" /\ SubjectOf(verb) = Subject
        BY <2>8 DEF KindOf, SubjectOf
      <4>4. LookedUp(verb, x, mode) = Nothing
        BY <2>8 DEF LookedUp
      <4>5. NamesTarget(inner, action)
        BY <3>3, <3>5, TypesDiffer
      <4> QED BY <2>5, <2>8, <3>1, <4>2, <4>3, <4>4, <4>5, FinalizeIsNamed
    <3> QED BY <3>4, <3>5
  <2> QED BY <2>6, <2>7, <2>8 DEF Verbs
<1> QED BY <1>1, <1>2

-----------------------------------------------------------------------------
(* Chains.                                                                   *)

Vocabulary == Verbs \union Literals

\* The words of a proposal: verbs, and a key at the end.
Phrases ==
    {words \in Seq(Vocabulary) :
        /\ Len(words) > 1
        /\ words[Len(words)] \in Literals
        /\ \A i \in 1 .. Len(words) - 1 : words[i] \in Verbs}

(* An action in a literal has the name of the words it was made of. It is    *)
(* what makes a nested hash name a proposal; the properties speak only of    *)
(* what is evaluated.                                                        *)
KeptIsNamed ==
    /\ DOMAIN literal = Literals /\ DOMAIN wording = Plans
    /\ \A key \in Literals :
        /\ literal[key].type \in {"missing", "plain", "action"}
        /\ IsAction(literal[key]) =>
               /\ key \in Plans
               /\ wording[key] \in Phrases
               /\ NamesTarget(Names(wording[key])[1], literal[key])

\* The verbs of a chain come first in its words, and its literal fits the rest.
LEMMA UnfoldedNames ==
    ASSUME KeptIsNamed, NEW verbs \in Seq(Verbs), Len(verbs) > 0, NEW key \in Literals
    PROVE  LET words == Unfolded(verbs, key)
               named == Names(words)
           IN  /\ words \in Phrases
               /\ \A i \in 1 .. Len(verbs) : named[i] = Named(verbs[i], named[i + 1])
               /\ Fits(verbs[Len(verbs)], Operand(key), named[Len(verbs) + 1])
<1>1. PICK N \in Nat \ {0} : N = Len(verbs)
  OBVIOUS
<1>2. verbs \in Seq(Vocabulary) /\ key \in Vocabulary
  BY DEF Vocabulary
<1> DEFINE last == verbs[N]
<1>3. last \in Verbs
  BY <1>1
<1>4. PICK words : words = Unfolded(verbs, key)
  OBVIOUS
<1>5. Operand(key).type = "literal" /\ Operand(key).key = key
  BY DEF Operand
<1>6. CASE IsAction(literal[key]) /\ last \notin {"vus", "vel"}
  <2>1. PICK inner : inner = wording[key]
    OBVIOUS
  <2>2. /\ inner \in Phrases /\ inner \in Seq(Vocabulary) /\ Len(inner) > 0
        /\ NamesTarget(Names(inner)[1], literal[key])
    BY <1>6, <2>1 DEF KeptIsNamed, Phrases
  <2>3. words = verbs \o inner
    BY <1>1, <1>4, <1>6, <2>1 DEF Unfolded
  <2>4. PICK M \in Nat \ {0} : M = Len(inner)
    BY <2>2
  <2>5. /\ words \in Seq(Vocabulary) /\ Len(words) = N + M
        /\ \A i \in 1 .. N : words[i] = verbs[i]
        /\ \A i \in N + 1 .. N + M : words[i] = inner[i - N]
    BY <1>1, <1>2, <2>2, <2>3, <2>4, ConcatProperties
  <2>6. Names(words)[N + 1] = Names(inner)[1]
    BY <1>1, <1>2, <2>2, <2>3, NamesOfInnerPart
  <2>7. \A i \in 1 .. N : Names(words)[i] = Named(verbs[i], Names(words)[i + 1])
    <3>1. Len(words) > 0 /\ \A i \in 1 .. N : i \in 1 .. Len(words) - 1
      BY <2>5
    <3>2. \A i \in 1 .. Len(words) - 1 : Names(words)[i] = Named(words[i], Names(words)[i + 1])
      BY <2>5, <3>1, NamesGive
    <3> QED BY <2>5, <3>1, <3>2
  <2>8. Target(Operand(key)) = literal[key]
    BY <1>5, <1>6 DEF Target, IsAction
  <2>9. Fits(last, Operand(key), Names(words)[N + 1])
    BY <1>6, <2>2, <2>6, <2>8 DEF Fits
  <2>10. words \in Phrases
    <3>1. N + M > 1 /\ (N + M) - N = M /\ N + M \in N + 1 .. N + M
      OBVIOUS
    <3>2. words[N + M] \in Literals
      BY <2>2, <2>4, <2>5, <3>1 DEF Phrases
    <3>3. ASSUME NEW i \in 1 .. (N + M) - 1 PROVE words[i] \in Verbs
      <4>1. CASE i <= N
        BY <1>1, <2>5, <4>1
      <4>2. CASE i > N
        <5>1. i \in N + 1 .. N + M /\ i - N \in 1 .. M - 1
          BY <4>2
        <5> QED BY <2>2, <2>4, <2>5, <5>1 DEF Phrases
      <4> QED BY <4>1, <4>2
    <3> QED BY <2>5, <3>1, <3>2, <3>3 DEF Phrases
  <2> QED BY <1>1, <1>4, <2>7, <2>9, <2>10
<1>7. CASE ~(IsAction(literal[key]) /\ last \notin {"vus", "vel"})
  <2>1. words = Append(verbs, key)
    BY <1>1, <1>4, <1>7 DEF Unfolded
  <2>2. /\ words \in Seq(Vocabulary) /\ Len(words) = N + 1
        /\ \A i \in 1 .. N : words[i] = verbs[i]
        /\ words[N + 1] = key
    BY <1>1, <1>2, <2>1, AppendProperties
  <2>3. Names(words)[N + 1] = [kind |-> Nothing, hash |-> NoHash, key |-> key]
    <3>1. Names(words)[Len(words)]
              = [kind |-> Nothing, hash |-> NoHash, key |-> words[Len(words)]]
      BY <2>2, NamesGive
    <3> QED BY <2>2, <3>1
  <2>4. \A i \in 1 .. N : Names(words)[i] = Named(verbs[i], Names(words)[i + 1])
    <3>1. Len(words) > 0 /\ \A i \in 1 .. N : i \in 1 .. Len(words) - 1
      BY <2>2
    <3>2. \A i \in 1 .. Len(words) - 1 : Names(words)[i] = Named(words[i], Names(words)[i + 1])
      BY <2>2, <3>1, NamesGive
    <3> QED BY <2>2, <3>1, <3>2
  <2>5. NamesTarget(Names(words)[N + 1], Symbol(key))
    BY <2>3 DEF NamesTarget
  <2>6. Fits(last, Operand(key), Names(words)[N + 1])
    <3>1. CASE last \in {"vus", "vel"}
      BY <2>5, <3>1 DEF Fits
    <3>2. CASE last \notin {"vus", "vel"}
      <4>1. literal[key].type \in {"missing", "plain"}
        BY <1>7, <3>2 DEF KeptIsNamed, IsAction
      <4>2. Target(Operand(key)) \in {Undefined, Symbol(key)}
        BY <1>5, <4>1 DEF Target, IsAction
      <4> QED BY <2>5, <3>2, <4>2 DEF Fits
    <3> QED BY <3>1, <3>2
  <2>7. words \in Phrases
    BY <1>1, <2>2 DEF Phrases
  <2> QED BY <1>1, <1>4, <2>4, <2>6, <2>7
<1> QED BY <1>6, <1>7

\* An action that was evaluated is aimed at by the hash it has.
LEMMA EvaluatedIsTarget ==
    ASSUME NEW x, NEW verb, NEW inner, NEW outcome, Evaluated(x, Named(verb, inner), outcome)
    PROVE  NamesTarget(Named(verb, inner), x)
<1>1. Named(verb, inner).hash \notin {NoHash, Unset}
  BY NamedHasHash
<1>2. HashOfTarget(x) = Named(verb, inner).hash
  BY <1>1 DEF Evaluated, HashOfTarget
<1>3. Named(verb, inner).key = Nothing
  BY DEF Named
<1> QED BY <1>1, <1>2, <1>3 DEF Evaluated, NamesTarget

\* Whatever a chain proposes is what its words say.
LEMMA ProposalIsNamed ==
    ASSUME KeptIsNamed, NEW verbs \in Seq(Verbs), Len(verbs) > 0, NEW key \in Literals,
           NEW mode \in Modes, IsAction(Meaning(verbs, key, mode))
    PROVE  Evaluated(Meaning(verbs, key, mode), Names(Unfolded(verbs, key))[1],
                     Observed(verbs, key, mode))
<1>1. PICK N \in Nat \ {0} : N = Len(verbs)
  OBVIOUS
<1>2. PICK value : value = Meanings(verbs, key, mode)
  OBVIOUS
<1>3. /\ value[N + 1] = Operand(key)
      /\ \A i \in 1 .. N : value[i] = ApplyVerb(verbs[i], value[i + 1], mode)
  BY <1>1, <1>2, MeaningsGive
<1>4. PICK named : named = Names(Unfolded(verbs, key))
  OBVIOUS
<1>5. /\ \A i \in 1 .. N : named[i] = Named(verbs[i], named[i + 1])
      /\ Fits(verbs[N], Operand(key), named[N + 1])
  BY <1>1, <1>4, UnfoldedNames
<1>6. \A i \in 1 .. N : verbs[i] \in Verbs
  BY <1>1
<1> DEFINE Good(i) == Stops(value[i])
                      \/ Evaluated(value[i], named[i], LookedUp(verbs[i], value[i + 1], mode))
<1> DEFINE S == {i \in 1 .. N : Good(i)}
<1>7. N \in S
  <2>1. /\ value[N] = ApplyVerb(verbs[N], Operand(key), mode)
        /\ named[N] = Named(verbs[N], named[N + 1])
    BY <1>3, <1>5
  <2>2. Good(N)
    BY <1>3, <1>5, <1>6, <2>1, VerbIsNamed
  <2> QED BY <2>2
<1>8. ASSUME NEW i \in 1 .. N - 1, i + 1 \in S PROVE i \in S
  <2>1. i \in 1 .. N /\ i + 1 \in 1 .. N
    OBVIOUS
  <2>2. Good(i + 1)
    BY <1>8
  <2>3. PICK j \in 1 .. N : j = i + 1
    BY <2>1
  <2>4. named[j] = Named(verbs[j], named[j + 1])
    BY <1>5
  <2>5. Fits(verbs[i], value[j], named[j])
    <3>1. CASE Stops(value[j])
      BY <3>1 DEF Fits
    <3>2. CASE ~Stops(value[j])
      <4>1. Evaluated(value[j], Named(verbs[j], named[j + 1]),
                      LookedUp(verbs[j], value[j + 1], mode))
        BY <2>2, <2>3, <2>4, <3>2
      <4>2. NamesTarget(Named(verbs[j], named[j + 1]), value[j])
        BY <4>1, EvaluatedIsTarget
      <4>3. IsAction(value[j])
        BY <4>1 DEF Evaluated
      <4> QED BY <2>4, <4>2, <4>3 DEF Fits
    <3> QED BY <3>1, <3>2
  <2>6. value[i] = ApplyVerb(verbs[i], value[j], mode) /\ named[i] = Named(verbs[i], named[j])
    BY <1>3, <1>5, <2>1, <2>3
  <2>7. Good(i)
    BY <1>6, <2>1, <2>3, <2>5, <2>6, VerbIsNamed
  <2> QED BY <2>1, <2>7
<1>9. \A i \in 1 .. N : Good(i)
  <2>1. \A i \in 1 .. N : i \in S
    <3> HIDE DEF S
    <3> QED BY <1>7, <1>8, FromTheRight
  <2> QED BY <2>1
<1>10. LookedUp(verbs[1], value[2], mode) = Observed(verbs, key, mode)
  <2>1. CASE N = 1
    <3>1. value[2] = Operand(key) /\ Operand(key).type = "literal" /\ Operand(key).key = key
      BY <1>3, <2>1 DEF Operand
    <3>2. CASE verbs[1] \in {"vus", "vel"}
      BY <1>1, <2>1, <3>1, <3>2 DEF LookedUp, Observed
    <3>3. CASE verbs[1] = "men"
      BY <1>1, <2>1, <3>1, <3>3 DEF LookedUp, Observed
    <3>4. CASE verbs[1] \notin {"vus", "vel", "men"}
      BY <1>1, <2>1, <3>4 DEF LookedUp, Observed
    <3> QED BY <3>2, <3>3, <3>4
  <2>2. CASE N # 1
    <3>1. Good(2)
      BY <1>9, <2>2
    <3>2. value[2].type # "literal"
      BY <3>1, TypesDiffer DEF Evaluated
    <3> QED BY <1>1, <2>2, <3>2 DEF LookedUp, Observed
  <2> QED BY <2>1, <2>2
<1>11. Meaning(verbs, key, mode) = value[1]
  BY <1>2 DEF Meaning
<1>12. ~Stops(value[1])
  BY <1>11, TypesDiffer
<1>13. Good(1)
  BY <1>9
<1> HIDE DEF S
<1> QED BY <1>4, <1>10, <1>11, <1>12, <1>13

\* Only what a chain means is returned as an action, never an error made from it.
LEMMA RunIsMeaning ==
    ASSUME NEW verbs, NEW key, NEW mode \in Modes, IsAction(RunNoeLogic(verbs, key, mode))
    PROVE  /\ RunNoeLogic(verbs, key, mode) = Meaning(verbs, key, mode)
           /\ mode = "strict" => Violations(verbs, key) = {}
<1>1. \A code : ~IsAction(Error(code))
  BY DEF IsAction, Error
<1>2. ~IsAction(Undefined)
  BY DEF IsAction, Undefined
<1>3. PICK result : result = Meaning(verbs, key, mode)
  OBVIOUS
<1>4. CASE mode = "strict" /\ Violations(verbs, key) # {}
  <2>1. RunNoeLogic(verbs, key, mode) = Error(FirstViolation(Violations(verbs, key)))
    BY <1>4 DEF RunNoeLogic
  <2> QED BY <1>1, <2>1
<1>5. CASE mode = "strict" => Violations(verbs, key) = {}
  <2>1. RunNoeLogic(verbs, key, mode) =
            IF result = Raised THEN Error("ERR_PARSE_FAILED")
            ELSE IF result = Sentinel THEN Undefined ELSE result
    <3>1. Raised # Sentinel
      BY DEF Raised, Sentinel
    <3> QED BY <1>3, <1>5, <3>1 DEF RunNoeLogic
  <2> QED BY <1>1, <1>2, <1>3, <1>5, <2>1
<1> QED BY <1>4, <1>5

\* The chains that the properties speak of.
LEMMA ChainsAreSequences == \A verbs \in Chains : verbs \in Seq(Verbs) /\ Len(verbs) > 0
<1> SUFFICES ASSUME NEW n \in 1 .. MaxVerbs, NEW verbs \in [1 .. n -> Verbs]
             PROVE  verbs \in Seq(Verbs) /\ Len(verbs) > 0
  BY DEF Chains
<1> QED BY LengthsAreNatural

\* Whatever run_noe_logic proposes is what its words say.
LEMMA RunIsNamed ==
    ASSUME KeptIsNamed, NEW verbs \in Seq(Verbs), Len(verbs) > 0, NEW key \in Literals,
           NEW mode \in Modes, IsAction(RunNoeLogic(verbs, key, mode))
    PROVE  Evaluated(RunNoeLogic(verbs, key, mode), Names(Unfolded(verbs, key))[1],
                     Observed(verbs, key, mode))
BY RunIsMeaning, ProposalIsNamed

-----------------------------------------------------------------------------
(* The invariant.                                                            *)

\* As a literal an action has the name it was evaluated with.
LEMMA KeptActionIsNamed ==
    ASSUME NEW x, NEW verb, NEW inner, NEW outcome, Evaluated(x, Named(verb, inner), outcome),
           NEW y \in {x, Enrich(x)}
    PROVE  NamesTarget(Named(verb, inner), [y EXCEPT !.below = {}])
<1>1. PICK name : name = Named(verb, inner)
  OBVIOUS
<1>2. name.hash \notin {NoHash, Unset} /\ name.key = Nothing
  BY <1>1, NamedHasHash DEF Named
<1>3. /\ x.type = "action" /\ x.kind = name.kind /\ x.hash = name.hash
      /\ {"type", "kind", "hash"} \subseteq DOMAIN x
      /\ ComputeActionHash(x, FALSE) = x.hash
  BY <1>1 DEF Evaluated, IsAction
<1>4. /\ y.type = "action" /\ y.kind = name.kind /\ y.hash = name.hash
      /\ {"type", "kind", "hash"} \subseteq DOMAIN y
  BY <1>3 DEF Enrich
<1>5. PICK z : z = [y EXCEPT !.below = {}]
  OBVIOUS
<1>6. z.type = "action" /\ z.kind = name.kind /\ z.hash = name.hash
  BY <1>4, <1>5
<1> QED BY <1>1, <1>2, <1>5, <1>6 DEF NamesTarget, IsAction, HashOfTarget

\* An action without a hash is hashed where it is aimed at.
LEMMA DraftIsNamed ==
    ASSUME NEW key
    PROVE  LET draft == [Proposal("mek", Nothing, Nothing, Symbol(key), Nothing)
                             EXCEPT !.below = {}]
           IN  IsAction(draft) /\ NamesTarget(Names(<<"mek", key>>)[1], draft)
<1>1. PICK words : words = <<"mek", key>>
  OBVIOUS
<1>2. words \in Seq({"mek", key}) /\ Len(words) = 2 /\ words[1] = "mek" /\ words[2] = key
  BY <1>1
<1>3. PICK inner : inner = [kind |-> Nothing, hash |-> NoHash, key |-> key]
  OBVIOUS
<1>4. Names(words)[1] = Named("mek", inner)
  <2>1. PICK W : words \in Seq(W) /\ Len(words) > 0
    BY <1>2
  <2>2. /\ Names(words)[Len(words)]
              = [kind |-> Nothing, hash |-> NoHash, key |-> words[Len(words)]]
        /\ \A i \in 1 .. Len(words) - 1 : Names(words)[i] = Named(words[i], Names(words)[i + 1])
    BY <2>1, NamesGive
  <2>3. 1 \in 1 .. Len(words) - 1
    BY <1>2
  <2> QED BY <1>2, <1>3, <2>2, <2>3
<1>5. PICK draft : draft = [Proposal("mek", Nothing, Nothing, Symbol(key), Nothing)
                                EXCEPT !.below = {}]
  OBVIOUS
<1>6. /\ draft.type = "action" /\ draft.verb = "mek" /\ draft.kind = Nothing
      /\ draft.subject = Nothing /\ draft.target = Symbol(key) /\ draft.child = Unset
      /\ draft.hash = NoHash
  BY <1>5 DEF Proposal
<1>7. KindOf("mek", inner) = Nothing
  BY <1>3 DEF KindOf
<1>8. NormalizeAction(draft, Unset, FALSE) = Named("mek", inner).hash
  BY <1>3, <1>6, <1>7 DEF NormalizeAction, Named
<1>9. HashOfTarget(draft) = Named("mek", inner).hash
  BY <1>6, <1>8 DEF HashOfTarget
<1>10. Named("mek", inner).kind = Nothing /\ Named("mek", inner).key = Nothing
  BY <1>7 DEF Named
<1>11. NamesTarget(Names(words)[1], draft)
  BY <1>4, <1>6, <1>9, <1>10, NamedHasHash DEF NamesTarget, IsAction
<1> QED BY <1>1, <1>5, <1>6, <1>11 DEF IsAction

\* A literal that takes a named action keeps the invariant.
LEMMA HoldKeepsNames ==
    ASSUME KeptIsNamed, NEW plan \in Plans, NEW action, NEW words, Hold(plan, action, words),
           words \in Phrases,
           NamesTarget(Names(words)[1], [action EXCEPT !.below = {}]),
           IsAction([action EXCEPT !.below = {}])
    PROVE  KeptIsNamed'
<1>1. PICK held : held = [action EXCEPT !.below = {}]
  OBVIOUS
<1>2. /\ literal' = [literal EXCEPT ![plan] = held] /\ wording' = [wording EXCEPT ![plan] = words]
      /\ IsAction(held) /\ NamesTarget(Names(words)[1], held)
  BY <1>1 DEF Hold
<1>3. DOMAIN literal' = Literals /\ DOMAIN wording' = Plans
  BY <1>2 DEF KeptIsNamed
<1>4. ASSUME NEW key \in Literals
      PROVE  /\ literal'[key].type \in {"missing", "plain", "action"}
             /\ IsAction(literal'[key]) =>
                    /\ key \in Plans
                    /\ wording'[key] \in Phrases
                    /\ NamesTarget(Names(wording'[key])[1], literal'[key])
  <2>1. CASE key = plan
    <3>1. literal'[key] = held /\ wording'[key] = words
      BY <1>2, <2>1 DEF KeptIsNamed
    <3> QED BY <1>2, <2>1, <3>1 DEF IsAction
  <2>2. CASE key # plan
    <3>1. literal'[key] = literal[key] /\ (key \in Plans => wording'[key] = wording[key])
      BY <1>2, <2>2 DEF KeptIsNamed
    <3>2. /\ literal[key].type \in {"missing", "plain", "action"}
          /\ IsAction(literal[key]) =>
                 /\ key \in Plans
                 /\ wording[key] \in Phrases
                 /\ NamesTarget(Names(wording[key])[1], literal[key])
      BY DEF KeptIsNamed
    <3> QED BY <3>1, <3>2
  <2> QED BY <2>1, <2>2
<1> QED BY <1>3, <1>4 DEF KeptIsNamed

\* Each action keeps the invariant.
LEMMA KeptStaysNamed == KeptIsNamed /\ [ActionsNext]_actionVars => KeptIsNamed'
<1> SUFFICES ASSUME KeptIsNamed, [ActionsNext]_actionVars PROVE KeptIsNamed'
  OBVIOUS
<1>1. CASE UNCHANGED <<literal, wording>>
  <2>1. literal' = literal /\ wording' = wording
    BY <1>1
  <2> QED BY <2>1 DEF KeptIsNamed
<1>2. ASSUME NEW plan \in Plans, Keep(plan) PROVE KeptIsNamed'
  <2>1. PICK verb \in Verbs, key \in Literals, mode \in Modes :
            LET result == RunNoeLogic(<<verb>>, key, mode)
                words  == Unfolded(<<verb>>, key)
            IN  /\ IsAction(result)
                /\ Len(words) <= MaxNested
                /\ \E action \in {result, Enrich(result)} : Hold(plan, action, words)
    BY <1>2 DEF Keep
  <2>2. PICK result, words : /\ result = RunNoeLogic(<<verb>>, key, mode)
                             /\ words = Unfolded(<<verb>>, key)
    OBVIOUS
  <2>3. PICK action \in {result, Enrich(result)} : Hold(plan, action, words)
    BY <2>1, <2>2
  <2>4. PICK verbs : verbs = <<verb>>
    OBVIOUS
  <2>5. verbs \in Seq(Verbs) /\ Len(verbs) > 0 /\ Len(verbs) = 1 /\ verbs[1] = verb
    BY <2>4
  <2>6. Evaluated(result, Names(words)[1], Observed(verbs, key, mode))
    <3>1. IsAction(RunNoeLogic(verbs, key, mode))
      BY <2>1, <2>4
    <3>2. Evaluated(RunNoeLogic(verbs, key, mode), Names(Unfolded(verbs, key))[1],
                    Observed(verbs, key, mode))
      BY <2>5, <3>1, RunIsNamed
    <3> QED BY <2>2, <2>4, <3>2
  <2>7. /\ words \in Phrases
        /\ Names(words)[1] = Named(verb, Names(words)[2])
    <3>1. /\ Unfolded(verbs, key) \in Phrases
          /\ \A i \in 1 .. Len(verbs) :
                 Names(Unfolded(verbs, key))[i]
                     = Named(verbs[i], Names(Unfolded(verbs, key))[i + 1])
      BY <2>5, UnfoldedNames
    <3>2. words = Unfolded(verbs, key) /\ verbs[1] = verb /\ 1 \in 1 .. Len(verbs) /\ 1 + 1 = 2
      BY <2>2, <2>4, <2>5
    <3> QED BY <3>1, <3>2
  <2>8. NamesTarget(Names(words)[1], [action EXCEPT !.below = {}])
    BY <2>3, <2>6, <2>7, KeptActionIsNamed
  <2>9. IsAction([action EXCEPT !.below = {}])
    BY <2>3, <2>6 DEF Evaluated, IsAction, Enrich
  <2> QED BY <2>3, <2>7, <2>8, <2>9, HoldKeepsNames
<1>3. ASSUME NEW plan \in Plans, Draft(plan) PROVE KeptIsNamed'
  <2>1. PICK key \in Things :
            Hold(plan, Proposal("mek", Nothing, Nothing, Symbol(key), Nothing), <<"mek", key>>)
    BY <1>3 DEF Draft
  <2>2. <<"mek", key>> \in Phrases
    BY DEF Phrases, Vocabulary, Verbs, Literals
  <2> QED BY <2>1, <2>2, DraftIsNamed, HoldKeepsNames
<1>4. ASSUME NEW key \in Things, Appear(key) PROVE KeptIsNamed'
  <2>1. PICK l \in {Missing, Plain} : literal' = [literal EXCEPT ![key] = l] /\ wording' = wording
    BY <1>4 DEF Appear
  <2>2. l.type \in {"missing", "plain"} /\ ~IsAction(l)
    BY <2>1 DEF Missing, Plain, IsAction
  <2> QED BY <2>1, <2>2 DEF KeptIsNamed
<1>5. ASSUME NEW key \in Things, ReportDelivery(key) \/ Audit(key)
      PROVE  UNCHANGED <<literal, wording>>
  BY <1>5 DEF ReportDelivery, Audit
<1>6. Provide => UNCHANGED <<literal, wording>>
  BY DEF Provide
<1>7. UNCHANGED actionVars => UNCHANGED <<literal, wording>>
  BY DEF actionVars
<1> QED BY <1>1, <1>2, <1>3, <1>4, <1>5, <1>6, <1>7 DEF ActionsNext

(* Actions that are kept, as the evaluator or the runtime returned them or as *)
(* somebody wrote them, keep the name of the words they were made of.        *)
THEOREM ActionsInvariant == ActionsSpec => []KeptIsNamed
<1>1. ActionsInit => KeptIsNamed
  BY DEF ActionsInit, KeptIsNamed, Plain, IsAction
<1> QED BY <1>1, KeptStaysNamed, PTL DEF ActionsSpec

(* The action hash names the proposal and nothing else, whatever was reported *)
(* and kept before.                                                          *)
THEOREM HashesNameProposals == ActionsSpec => []HashIsProposal
<1>1. KeptIsNamed => HashIsProposal
  <2> SUFFICES ASSUME KeptIsNamed, NEW verbs \in Chains, NEW key \in Literals, NEW mode \in Modes,
                      IsAction(RunNoeLogic(verbs, key, mode))
               PROVE  LET action == RunNoeLogic(verbs, key, mode)
                      IN  /\ action.hash = NameOf(Unfolded(verbs, key))
                          /\ ComputeActionHash(action, FALSE) = action.hash
    BY DEF HashIsProposal
  <2>1. verbs \in Seq(Verbs) /\ Len(verbs) > 0
    BY ChainsAreSequences
  <2>2. Evaluated(RunNoeLogic(verbs, key, mode), Names(Unfolded(verbs, key))[1],
                  Observed(verbs, key, mode))
    BY <2>1, RunIsNamed
  <2> QED BY <2>2 DEF Evaluated, NameOf
<1> QED BY <1>1, ActionsInvariant, PTL

(* The event hash adds what the outermost verb observed of the literal, and   *)
(* nothing where it is applied to an action.                                 *)
THEOREM EventsNameObservations == ActionsSpec => []EventIsObservation
<1>1. KeptIsNamed => EventIsObservation
  <2> SUFFICES ASSUME KeptIsNamed, NEW verbs \in Chains, NEW key \in Literals, NEW mode \in Modes,
                      IsAction(RunNoeLogic(verbs, key, mode))
               PROVE  RunNoeLogic(verbs, key, mode).event
                          = [NameOf(Unfolded(verbs, key)) EXCEPT
                                 !.outcome = Observed(verbs, key, mode)]
    BY DEF EventIsObservation
  <2>1. verbs \in Seq(Verbs) /\ Len(verbs) > 0
    BY ChainsAreSequences
  <2>2. Evaluated(RunNoeLogic(verbs, key, mode), Names(Unfolded(verbs, key))[1],
                  Observed(verbs, key, mode))
    BY <2>1, RunIsNamed
  <2> QED BY <2>2 DEF Evaluated, NameOf
<1> QED BY <1>1, ActionsInvariant, PTL

-----------------------------------------------------------------------------
(* Strict mode and partial mode.                                             *)

\* What strict mode finalizes partial mode does as well.
LEMMA DoneAlike ==
    ASSUME NEW a, ~Stops(FinalizeAction(a, "strict"))
    PROVE  FinalizeAction(a, "partial") = FinalizeAction(a, "strict")
<1>1. \A code : Stops(Refusal(code, "strict"))
  BY DEF Refusal, Error, Stops
<1>2. Stops(Raised)
  BY DEF Stops
<1>3. Undefined # Sentinel
  BY DEF Undefined, Sentinel
<1>4. a.target # Undefined
  BY <1>1, <1>3 DEF FinalizeAction
<1>5. a.target # Sentinel
  BY <1>2, <1>3 DEF FinalizeAction
<1>6. PICK hash, below, done :
          /\ hash = ComputeActionHash(a, FALSE)
          /\ below = IF IsAction(a.target)
                     THEN {HashOfTarget(a.target)} \union a.target.below ELSE {}
          /\ done = [a EXCEPT !.child = ChildPointer(a), !.hash = hash, !.below = below,
                              !.event = IF a.outcome = Nothing THEN hash
                                        ELSE ComputeActionHash(a, TRUE)]
  OBVIOUS
<1>7. \A mode : FinalizeAction(a, mode)
          = IF hash \in below THEN Refusal("ERR_ACTION_CYCLE", mode) ELSE done
  BY <1>4, <1>5, <1>6 DEF FinalizeAction
<1> QED BY <1>1, <1>7

\* A verb that strict mode applies partial mode applies alike.
LEMMA VerbsAgree ==
    ASSUME NEW verb \in Verbs, NEW x, ~Stops(x), ~Stops(ApplyVerb(verb, x, "strict"))
    PROVE  ApplyVerb(verb, x, "partial") = ApplyVerb(verb, x, "strict")
<1>1. x # Raised
  BY DEF Stops
<1>2. Stops(Undefined) /\ \A code : Stops(Error(code))
  BY DEF Stops, Error
<1>3. PICK target : target = Target(x)
  OBVIOUS
<1>4. CASE verb \in {"mek", "men"}
  <2>1. \A mode : ApplyVerb(verb, x, mode) = ActionEvent(verb, x, mode)
    BY <1>1, <1>4 DEF ApplyVerb
  <2>2. CASE target.type = "error"
    BY <1>3, <2>1, <2>2 DEF ActionEvent
  <2>3. CASE target.type # "error"
    <3>1. Grounded(verb)
      BY <1>2, <1>3, <2>1, <2>3 DEF ActionEvent
    <3>2. PICK a : a = Proposal(verb,
                    IF IsAction(target) /\ target.kind # Nothing THEN target.kind
                    ELSE IF verb = "men" THEN "audit" ELSE Nothing,
                    Nothing, target, IF verb = "men" THEN Finding(target) ELSE Nothing)
      OBVIOUS
    <3>3. \A mode : ActionEvent(verb, x, mode) = FinalizeAction(a, mode)
      BY <1>3, <2>3, <3>1, <3>2 DEF ActionEvent
    <3> QED BY <2>1, <3>3, DoneAlike
  <2> QED BY <2>2, <2>3
<1>5. CASE verb \in {"vus", "vel"}
  <2>1. \A mode : ApplyVerb(verb, x, mode) = Delivery(verb, x, mode)
    BY <1>1, <1>5 DEF ApplyVerb
  <2>2. CASE x.type # "literal" \/ ReportFor(x.key, "strict") = Nothing
    BY <1>2, <2>1, <2>2 DEF Delivery
  <2>3. CASE ~(x.type # "literal" \/ ReportFor(x.key, "strict") = Nothing)
    <3>1. ReportFor(x.key, "partial") = ReportFor(x.key, "strict")
      BY <2>3 DEF ReportFor
    <3>2. PICK a : a = Proposal(verb, "delivery", Nothing, Symbol(x.key),
                                ReportFor(x.key, "strict"))
      OBVIOUS
    <3>3. \A mode \in Modes : Delivery(verb, x, mode) = FinalizeAction(a, mode)
      BY <2>3, <3>1, <3>2 DEF Delivery, Modes
    <3> QED BY <2>1, <3>3, DoneAlike DEF Modes
  <2> QED BY <2>2, <2>3
<1>6. CASE verb = "noq"
  <2>1. \A mode : ApplyVerb(verb, x, mode) = Request(x, mode)
    BY <1>1, <1>6 DEF ApplyVerb
  <2>2. CASE target.type \in {"error", "undefined"}
    BY <1>3, <2>1, <2>2 DEF Request, IsAction
  <2>3. CASE target.type \notin {"error", "undefined", "action"}
    BY <1>2, <1>3, <2>1, <2>3 DEF Request, IsAction
  <2>4. CASE target.type = "action"
    <3>1. \A mode : Request(x, mode) = IF ~Grounded("noq") THEN Undefined
              ELSE FinalizeAction(Proposal("noq", "request", Subject, target, Nothing), mode)
      BY <1>3, <2>4 DEF Request, IsAction
    <3> QED BY <1>2, <2>1, <3>1, DoneAlike
  <2> QED BY <2>2, <2>3, <2>4
<1> QED BY <1>4, <1>5, <1>6 DEF Verbs

\* So does a chain.
LEMMA StrictMeaningIsPartial ==
    ASSUME NEW verbs \in Seq(Verbs), Len(verbs) > 0, NEW key,
           IsAction(Meaning(verbs, key, "strict"))
    PROVE  Meaning(verbs, key, "partial") = Meaning(verbs, key, "strict")
<1>1. PICK N \in Nat \ {0} : N = Len(verbs)
  OBVIOUS
<1>2. PICK strict, partial : /\ strict = Meanings(verbs, key, "strict")
                             /\ partial = Meanings(verbs, key, "partial")
  OBVIOUS
<1>3. /\ strict[N + 1] = Operand(key)
      /\ \A i \in 1 .. N : strict[i] = ApplyVerb(verbs[i], strict[i + 1], "strict")
  BY <1>1, <1>2, MeaningsGive
<1>4. /\ partial[N + 1] = Operand(key)
      /\ \A i \in 1 .. N : partial[i] = ApplyVerb(verbs[i], partial[i + 1], "partial")
  BY <1>1, <1>2, MeaningsGive
<1>5. \A i \in 1 .. N : verbs[i] \in Verbs
  BY <1>1
<1> DEFINE Good(i) == Stops(strict[i]) \/ partial[i] = strict[i]
<1> DEFINE S == {i \in 1 .. N + 1 : Good(i)}
<1>6. N + 1 \in S
  BY <1>3, <1>4
<1>7. ASSUME NEW i \in 1 .. (N + 1) - 1, i + 1 \in S PROVE i \in S
  <2>1. i \in 1 .. N /\ i \in 1 .. N + 1
    OBVIOUS
  <2>2. PICK j : j = i + 1
    OBVIOUS
  <2>3. /\ strict[i] = ApplyVerb(verbs[i], strict[j], "strict")
        /\ partial[i] = ApplyVerb(verbs[i], partial[j], "partial")
        /\ verbs[i] \in Verbs
    BY <1>3, <1>4, <1>5, <2>1, <2>2
  <2>4. Good(j)
    BY <1>7, <2>2
  <2>5. CASE Stops(strict[j])
    BY <2>1, <2>3, <2>5, StopsStays DEF Modes
  <2>6. CASE ~Stops(strict[j])
    BY <2>1, <2>3, <2>4, <2>6, VerbsAgree
  <2> QED BY <2>5, <2>6
<1>8. 1 \in S
  <2> HIDE DEF S
  <2> QED BY <1>6, <1>7, FromTheRight
<1>9. strict[1] = Meaning(verbs, key, "strict") /\ partial[1] = Meaning(verbs, key, "partial")
  BY <1>2 DEF Meaning
<1>10. ~Stops(strict[1])
  BY <1>9, TypesDiffer
<1> QED BY <1>8, <1>9, <1>10

(* Strict mode proposes nothing that partial mode would not, with the same    *)
(* hashes and the same observation.                                          *)
THEOREM StrictProposalsArePartial == ActionsSpec => []StrictAgreesWithPartial
<1>1. StrictAgreesWithPartial
  <2> SUFFICES ASSUME NEW verbs \in Chains, NEW key \in Literals,
                      IsAction(RunNoeLogic(verbs, key, "strict"))
               PROVE  RunNoeLogic(verbs, key, "partial") = RunNoeLogic(verbs, key, "strict")
    BY DEF StrictAgreesWithPartial
  <2>1. verbs \in Seq(Verbs) /\ Len(verbs) > 0
    BY ChainsAreSequences
  <2>2. RunNoeLogic(verbs, key, "strict") = Meaning(verbs, key, "strict")
    BY RunIsMeaning DEF Modes
  <2>3. PICK result : result = Meaning(verbs, key, "partial")
    OBVIOUS
  <2>4. result = Meaning(verbs, key, "strict") /\ IsAction(result)
    BY <2>1, <2>2, <2>3, StrictMeaningIsPartial
  <2>5. result \notin {Raised, Sentinel}
    BY <2>4, TypesDiffer
  <2>6. RunNoeLogic(verbs, key, "partial") = result
    BY <2>3, <2>5 DEF RunNoeLogic
  <2> QED BY <2>2, <2>4, <2>6
<1> QED BY <1>1, PTL

-----------------------------------------------------------------------------
(* Names differ.                                                             *)

\* The hash determines verb, child and target.
LEMMA NamedApart ==
    ASSUME NEW a, NEW b, NEW x, NEW y, Named(a, x).hash = Named(b, y).hash
    PROVE  /\ a = b
           /\ (IF x.hash = NoHash THEN Unset ELSE x.hash)
                  = (IF y.hash = NoHash THEN Unset ELSE y.hash)
           /\ x.key = y.key
<1>1. PICK g, h : g = Named(a, x).hash /\ h = Named(b, y).hash
  OBVIOUS
<1>2. /\ g.verb = a /\ g.child = (IF x.hash = NoHash THEN Unset ELSE x.hash)
      /\ g.target = Symbol(x.key)
  BY <1>1 DEF Named
<1>3. /\ h.verb = b /\ h.child = (IF y.hash = NoHash THEN Unset ELSE y.hash)
      /\ h.target = Symbol(y.key)
  BY <1>1 DEF Named
<1>4. \A k : Symbol(k).key = k
  BY DEF Symbol
<1> QED BY <1>1, <1>2, <1>3, <1>4

\* By induction from the first word to the last.
LEMMA PhrasesApart ==
    ASSUME NEW v \in Phrases, NEW w \in Phrases, NameOf(v) = NameOf(w)
    PROVE  v = w
<1>1. PICK V \in Nat, W \in Nat : V = Len(v) /\ W = Len(w) /\ V > 1 /\ W > 1
  BY DEF Phrases
<1>2. PICK n, m : n = Names(v) /\ m = Names(w)
  OBVIOUS
<1>3. v \in Seq(Vocabulary) /\ w \in Seq(Vocabulary)
  BY DEF Phrases
<1>4. /\ n[V] = [kind |-> Nothing, hash |-> NoHash, key |-> v[V]]
      /\ \A i \in 1 .. V - 1 : n[i] = Named(v[i], n[i + 1])
  BY <1>1, <1>2, <1>3, NamesGive
<1>5. /\ m[W] = [kind |-> Nothing, hash |-> NoHash, key |-> w[W]]
      /\ \A i \in 1 .. W - 1 : m[i] = Named(w[i], m[i + 1])
  BY <1>1, <1>2, <1>3, NamesGive
<1>6. /\ \A i \in 1 .. V - 1 : n[i].hash \notin {NoHash, Unset}
      /\ \A i \in 1 .. W - 1 : m[i].hash \notin {NoHash, Unset}
  BY <1>4, <1>5, NamedHasHash
<1>7. n[V].hash = NoHash /\ m[W].hash = NoHash /\ n[V].key = v[V] /\ m[W].key = w[W]
  BY <1>4, <1>5
<1> DEFINE S == {k \in Nat : k + 1 < V => k + 1 < W /\ n[k + 1].hash = m[k + 1].hash}
<1>8. 0 \in S
  <2>1. n[1].hash = m[1].hash
    BY <1>2 DEF NameOf
  <2> QED BY <1>1, <2>1
<1>9. ASSUME NEW k \in Nat, k \in S PROVE k + 1 \in S
  <2> SUFFICES ASSUME (k + 1) + 1 < V
               PROVE  (k + 1) + 1 < W /\ n[(k + 1) + 1].hash = m[(k + 1) + 1].hash
    OBVIOUS
  <2>1. PICK i \in 1 .. V - 1, j \in 1 .. V - 1 : i = k + 1 /\ j = i + 1
    OBVIOUS
  <2>2. i \in 1 .. W - 1 /\ n[i].hash = m[i].hash
    BY <1>1, <1>9, <2>1
  <2>3. n[i] = Named(v[i], n[j]) /\ m[i] = Named(w[i], m[j])
    BY <1>4, <1>5, <2>1, <2>2
  <2>4. (IF n[j].hash = NoHash THEN Unset ELSE n[j].hash)
            = (IF m[j].hash = NoHash THEN Unset ELSE m[j].hash)
    BY <2>2, <2>3, NamedApart
  <2>5. n[j].hash \notin {NoHash, Unset}
    BY <1>6
  <2>6. m[j].hash = n[j].hash /\ j # W
    BY <1>7, <2>4, <2>5
  <2>7. j < W
    BY <1>1, <2>1, <2>2, <2>6
  <2> QED BY <2>1, <2>6, <2>7
<1>10. \A i \in 1 .. V - 1 : i < W /\ n[i].hash = m[i].hash
  <2>1. \A k \in Nat : k \in S
    <3> HIDE DEF S
    <3> QED BY <1>8, <1>9, SetInduction
  <2>2. ASSUME NEW i \in 1 .. V - 1 PROVE i < W /\ n[i].hash = m[i].hash
    <3>1. i - 1 \in Nat /\ (i - 1) + 1 = i /\ i < V
      BY <1>1
    <3> QED BY <2>1, <3>1
  <2> QED BY <2>2
<1>11. \A i \in 1 .. V - 1 :
          /\ v[i] = w[i]
          /\ (IF n[i + 1].hash = NoHash THEN Unset ELSE n[i + 1].hash)
                 = (IF m[i + 1].hash = NoHash THEN Unset ELSE m[i + 1].hash)
          /\ n[i + 1].key = m[i + 1].key
  <2> SUFFICES ASSUME NEW i \in 1 .. V - 1
               PROVE  /\ v[i] = w[i]
                      /\ (IF n[i + 1].hash = NoHash THEN Unset ELSE n[i + 1].hash)
                             = (IF m[i + 1].hash = NoHash THEN Unset ELSE m[i + 1].hash)
                      /\ n[i + 1].key = m[i + 1].key
    OBVIOUS
  <2>1. i \in 1 .. W - 1
    BY <1>1, <1>10
  <2>2. n[i] = Named(v[i], n[i + 1]) /\ m[i] = Named(w[i], m[i + 1])
    BY <1>4, <1>5, <2>1
  <2> QED BY <1>10, <2>2, NamedApart
<1>12. V - 1 \in 1 .. V - 1 /\ (V - 1) + 1 = V
  BY <1>1
<1>13. V = W
  <2>1. V - 1 < W
    BY <1>10, <1>12
  <2>2. CASE V < W
    <3>1. m[V].hash \notin {NoHash, Unset}
      BY <1>1, <1>6, <2>2
    <3> QED BY <1>7, <1>11, <1>12, <3>1
  <2> QED BY <1>1, <2>1, <2>2
<1>14. v[V] = w[V]
  BY <1>7, <1>11, <1>12, <1>13
<1>15. \A i \in 1 .. V : v[i] = w[i]
  <2>1. \A i \in 1 .. V : i = V \/ i \in 1 .. V - 1
    BY <1>1
  <2> QED BY <1>11, <1>14, <2>1
<1> QED BY <1>1, <1>3, <1>13, <1>15, SeqEqual

(* Actions of one hash are one proposal (HashTellsProposalsApart): as hashes  *)
(* name proposals, it is enough that different words have different names.   *)
THEOREM HashesTellProposalsApart == ActionsSpec => []HashTellsProposalsApart
<1>1. KeptIsNamed /\ HashIsProposal => HashTellsProposalsApart
  <2> SUFFICES ASSUME KeptIsNamed, HashIsProposal, NEW verbs1 \in Chains, NEW verbs2 \in Chains,
                      NEW key1 \in Literals, NEW key2 \in Literals,
                      NEW mode1 \in Modes, NEW mode2 \in Modes,
                      IsAction(RunNoeLogic(verbs1, key1, mode1)),
                      IsAction(RunNoeLogic(verbs2, key2, mode2)),
                      RunNoeLogic(verbs1, key1, mode1).hash = RunNoeLogic(verbs2, key2, mode2).hash
               PROVE  Unfolded(verbs1, key1) = Unfolded(verbs2, key2)
    BY DEF HashTellsProposalsApart
  <2>1. NameOf(Unfolded(verbs1, key1)) = NameOf(Unfolded(verbs2, key2))
    BY DEF HashIsProposal
  <2>2. Unfolded(verbs1, key1) \in Phrases /\ Unfolded(verbs2, key2) \in Phrases
    BY ChainsAreSequences, UnfoldedNames
  <2> QED BY <2>1, <2>2, PhrasesApart
<1> QED BY <1>1, ActionsInvariant, HashesNameProposals, PTL

=============================================================================
