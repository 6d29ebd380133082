------------------------------- MODULE Agents -------------------------------
(* Agents that negotiate and then work under what they negotiated            *)
(* (src/noe/agent.py, src/noe/agent_auth.py).                                *)
(*                                                                           *)
(* Threads run authenticated_negotiate, one step of it per action, over one  *)
(* KeyRegistry and one wall clock. A call that succeeds leaves a session at  *)
(* each of its two ends; the sessions then judge chains and evidence, and    *)
(* either end may terminate its own. The wall clock may be set back, agents  *)
(* come with different declarations and keys from call to call, and an       *)
(* operator may register a new key.                                          *)
EXTENDS Handshake, TLC

CONSTANTS
    Threads,        \* the threads that negotiate
    Declared,       \* the identities agents come with
    Keys,           \* public keys
    KeysOf,         \* the keys each agent may have generated
    Registered,     \* the agents an operator registers keys for
    NoKey,          \* what lookup() finds for an unknown agent
    Words,          \* what the tokens of a chain may name: operators and others
    MaxAge,         \* max_age_ms of verify_announcement
    MaxTime         \* bound on the clock

ASSUME DeclaredIsIdentity == Declared \subseteq AgentIdentity
ASSUME KeysOfAgents == KeysOf \in [Agents -> SUBSET Keys]
ASSUME RegisteredAreAgents == Registered \subseteq Agents
ASSUME NoKeyIsNoKey == NoKey \notin Keys
ASSUME BoundsAreNatural == MaxAge \in Nat /\ MaxTime \in Nat

VARIABLES
    now,        \* the wall clock, _now_ms()
    keys,       \* KeyRegistry._keys
    call,       \* what each thread's call has got to
    active,     \* Session.state of the two Session objects of a call
    rekeyed     \* history: the agents for whom register() was called

vars == <<now, keys, call, active, rekeyed>>

Time == 0 .. MaxTime
Ends == {"a", "b"}

-----------------------------------------------------------------------------

Unbound == [bound |-> FALSE]
Bound(frame) == [bound |-> TRUE, frame |-> frame]

\* A call as it begins: who negotiates with which key, nothing done yet.
Begun(aids, ks) ==
    [step |-> "sign", end |-> "a", aid |-> aids, key |-> ks,
     stamp |-> [e \in Ends |-> 0], took_up |-> [e \in Ends |-> FALSE], start |-> 0,
     ncf |-> [e \in Ends |-> Unbound], outcome |-> "running"]

Init ==
    /\ now = 0
    /\ keys = [a \in Agents |-> NoKey]
    /\ \E aids \in [Threads -> [Ends -> Declared]], ks \in [Threads -> [Ends -> Keys]] :
        /\ \A t \in Threads :
            /\ aids[t]["a"].agent_id # aids[t]["b"].agent_id
            /\ \A e \in Ends : ks[t][e] \in KeysOf[aids[t][e].agent_id]
        /\ call = [t \in Threads |-> Begun(aids[t], ks[t])]
    /\ active = [t \in Threads |-> [e \in Ends |-> FALSE]]
    /\ rekeyed = {}

-----------------------------------------------------------------------------
(* authenticated_negotiate.                                                  *)

Other(e) == IF e = "a" THEN "b" ELSE "a"
At(t, step) == call[t].step = step
Me(t) == call[t].aid[call[t].end].agent_id
MyKey(t) == call[t].key[call[t].end]

\* The same step for the other end, or the next step from end a again.
Onward(t, next) ==
    IF call[t].end = "a" THEN [call[t] EXCEPT !.end = "b"]
                         ELSE [call[t] EXCEPT !.end = "a", !.step = next]

\* A call that raises leaves nothing behind but what it wrote to the registry.
Refused(t, why) ==
    [Begun(call[t].aid, call[t].key) EXCEPT
        !.step = "done", !.outcome = why, !.took_up = call[t].took_up]

\* sign_announcement: the declaration is signed together with the time.
Sign(t) ==
    /\ At(t, "sign")
    /\ call' = [call EXCEPT ![t] = [Onward(t, "verify") EXCEPT !.stamp[call[t].end] = now]]
    /\ UNCHANGED <<now, keys, active, rekeyed>>

\* verify_announcement; the time of an announcement is not looked at again.
Verify(t) ==
    /\ At(t, "verify")
    /\ LET signed == SignedAnnouncement(call[t].aid[call[t].end], MyKey(t),
                                         call[t].stamp[call[t].end])
           fault  == AnnouncementFault(signed, now, MaxAge)
       IN  call' = [call EXCEPT ![t] =
                IF fault = "none" THEN [Onward(t, "identify") EXCEPT !.stamp[call[t].end] = 0]
                                  ELSE Refused(t, fault)]
    /\ UNCHANGED <<now, keys, active, rekeyed>>

\* Variant, to see that SessionsShareTheKey depends on it: any key will do.
IdentifyAnybody(t) ==
    /\ At(t, "identify")
    /\ call' = [call EXCEPT ![t] =
            IF keys[Me(t)] = NoKey THEN [call[t] EXCEPT !.step = "trust"] ELSE Onward(t, "match")]
    /\ UNCHANGED <<now, keys, active, rekeyed>>

\* verify_identity reads the registered key ...
Identify(t) ==
    /\ At(t, "identify")
    /\ call' = [call EXCEPT ![t] =
            IF keys[Me(t)] = NoKey THEN [call[t] EXCEPT !.step = "trust"]
            ELSE IF keys[Me(t)] = MyKey(t) THEN Onward(t, "match")
            ELSE Refused(t, "key_mismatch")]
    /\ UNCHANGED <<now, keys, active, rekeyed>>

\* ... and stores the claimed one if there was none.
Trust(t) ==
    /\ At(t, "trust")
    /\ keys' = [keys EXCEPT ![Me(t)] = MyKey(t)]
    /\ call' = [call EXCEPT ![t] = [Onward(t, "match") EXCEPT
                    !.took_up[call[t].end] = TRUE,
                    !.step = IF call[t].end = "a" THEN "identify" ELSE "match"]]
    /\ UNCHANGED <<now, active, rekeyed>>

\* End e answers a nonce that the other end has drawn for this call.
Answers(t, e) ==
    LET c == Challenge(<<t, e>>, call[t].aid[Other(e)].agent_id)
    IN  ResponseHolds(c, RespondToChallenge(c, call[t].aid[e].agent_id, call[t].key[e]),
                      call[t].key[e])

\* The mutual challenge, which changes nothing, and the match.
Match(t) ==
    /\ At(t, "match")
    /\ LET m == match(call[t].aid["a"], call[t].aid["b"])
       IN  call' = [call EXCEPT ![t] =
                IF \E e \in Ends : ~Answers(t, e) THEN Refused(t, "challenge")
                ELSE IF m.error # "none" THEN Refused(t, m.error)
                ELSE [call[t] EXCEPT !.step = "start"]]
    /\ UNCHANGED <<now, keys, active, rekeyed>>

\* One reading of the clock for both ends.
Start(t) ==
    /\ At(t, "start")
    /\ call' = [call EXCEPT ![t].start = now, ![t].step = "bind"]
    /\ UNCHANGED <<now, keys, active, rekeyed>>

\* Variant, to see that EndsAgree depends on it: each end reads the clock.
SessionStartNow(t) == now

SessionStart(t) == call[t].start

Bind(t) ==
    /\ At(t, "bind")
    /\ LET a == call[t].aid["a"]
           b == call[t].aid["b"]
       IN  call' = [call EXCEPT ![t] = [Onward(t, "compare") EXCEPT
                !.ncf[call[t].end] = Bound(bind(a, b, match(a, b), SessionStart(t)))]]
    /\ UNCHANGED <<now, keys, active, rekeyed>>

\* Both ends must have come to the same id; only then are there sessions.
Compare(t) ==
    /\ At(t, "compare")
    /\ IF call[t].ncf["a"] = call[t].ncf["b"]
       THEN /\ call' = [call EXCEPT ![t].step = "done", ![t].outcome = "agreed",
                                         ![t].start = 0]
            /\ active' = [active EXCEPT ![t] = [e \in Ends |-> TRUE]]
       ELSE /\ call' = [call EXCEPT ![t] = Refused(t, "ncf_mismatch")]
            /\ UNCHANGED active
    /\ UNCHANGED <<now, keys, rekeyed>>

Negotiate(t) ==
    \/ Sign(t) \/ Verify(t) \/ Identify(t) \/ Trust(t)
    \/ Match(t) \/ Start(t) \/ Bind(t) \/ Compare(t)

-----------------------------------------------------------------------------
(* A session in use. Each end has a Session object of its own.               *)

Agreed(t) == call[t].outcome = "agreed"
FrameOf(t, e) == call[t].ncf[e].frame

\* A token is what stands between the blanks of a chain: a word, a literal, or something
\* with more in it, like "(vek" or "vek(@x)" for the word vek. A chain is the set of its
\* tokens; the order is not looked at.
Tokens == [word : Words, form : {"word", "literal", "glued"}]
OfForms(chain, forms) == {tok.word : tok \in {x \in chain : x.form \in forms}}

\* What the grammar reads as operators: words, with or without a parenthesis beside them.
OperatorsIn(chain) == OfForms(chain, {"word", "glued"}) \cap Operators

\* extract_operators_from_chain: a token is an operator if its name is, once the at sign
\* of a literal is off; one that is glued to something else is not.
ExtractOperators(chain) == OfForms(chain, {"word", "literal"}) \cap Operators

\* validate_chain_for_session
ChainAllowed(t, e, chain) ==
    /\ active[t][e]
    /\ ExtractOperators(chain) \subseteq FrameOf(t, e).shared_operators

\* validate_temporal: now is read after the check of the state.
EvidenceAllowed(t, e, stamp) ==
    /\ active[t][e]
    /\ now - stamp >= -FrameOf(t, e).temporal.max_skew
    /\ now - stamp <= FrameOf(t, e).temporal.tau_stale

\* terminate() ends the session of one end; the other end's stays as it is.
Terminate(t, e) ==
    /\ Agreed(t)
    /\ active' = [active EXCEPT ![t][e] = FALSE]
    /\ UNCHANGED <<now, keys, call, rekeyed>>

-----------------------------------------------------------------------------
(* The world around the calls.                                               *)

\* The wall clock moves on or is set back.
SetClock ==
    /\ \E time \in Time : now' = time
    /\ UNCHANGED <<keys, call, active, rekeyed>>

\* register() replaces whatever key there is; with the same key it changes nothing.
Register(a, k) ==
    /\ keys[a] # k
    /\ keys' = [keys EXCEPT ![a] = k]
    /\ rekeyed' = rekeyed \union {a}
    /\ UNCHANGED <<now, call, active>>

Next ==
    \/ \E t \in Threads : Negotiate(t)
    \/ \E t \in Threads, e \in Ends : Terminate(t, e)
    \/ SetClock
    \/ \E a \in Registered : \E k \in KeysOf[a] : Register(a, k)

Spec == Init /\ [][Next]_vars

-----------------------------------------------------------------------------
(* Properties.                                                               *)

(* What authenticated_negotiate and bind rest on: the two ends of a call     *)
(* come to one frame (the check that compares their ids never has to refuse),*)
(* and they would have come to the same frame had each taken the other's     *)
(* part, although time passes and clocks are set while they bind. Without an *)
(* agreement no end is left with an active session.                          *)
EndsAgree ==
    \A t \in Threads :
        /\ call[t].outcome # "ncf_mismatch"
        /\ \A e \in Ends : active[t][e] => Agreed(t)
        /\ Agreed(t) =>
            LET a == call[t].aid["a"]
                b == call[t].aid["b"]
            IN  /\ FrameOf(t, "a") = FrameOf(t, "b")
                /\ FrameOf(t, "b") = bind(b, a, match(b, a), FrameOf(t, "b").session_start)

(* What a session lets pass is allowed by what both of its agents declared.  *)
(* Of the operators that the grammar reads in a chain, each one that stands  *)
(* somewhere between blanks is one that both agents know; so if all of them  *)
(* stand so, both know them all. The evidence is neither older nor further   *)
(* in the future than either of them accepts. A session of a call that       *)
(* failed, or a terminated one, lets nothing pass.                           *)
Spaced(op, chain) == [word |-> op, form |-> "word"] \in chain

PassesHonourBoth ==
    \A t \in Threads, e \in Ends :
        /\ \A chain \in SUBSET Tokens : ChainAllowed(t, e, chain) =>
              \A op \in OperatorsIn(chain), f \in Ends :
                  Spaced(op, chain) => op \in call[t].aid[f].supported_operators
        /\ \A stamp \in Time : EvidenceAllowed(t, e, stamp) =>
              \A f \in Ends :
                  LET limits == call[t].aid[f].temporal_config
                  IN  now - stamp <= limits.tau_stale /\ now - stamp >= -limits.max_skew

(* Trust on first use (KeyRegistry.verify_identity): as long as nobody       *)
(* registers a key for an agent and at most one call took one up, all its    *)
(* sessions rest on that key, those of calls that ran at the same time       *)
(* included; what a call took up stays although the call fails later.        *)
TookUp(a) == {x \in Threads \X Ends :
                /\ call[x[1]].took_up[x[2]]
                /\ call[x[1]].aid[x[2]].agent_id = a}

SessionsShareTheKey ==
    \A a \in Agents \ rekeyed :
        (\A x, y \in TookUp(a) : x = y) =>
            /\ \A x \in TookUp(a) : keys[a] = call[x[1]].key[x[2]]
            /\ \A t \in Threads, e \in Ends :
                    Agreed(t) /\ call[t].aid[e].agent_id = a => call[t].key[e] = keys[a]

=============================================================================
