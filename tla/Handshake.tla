----------------------------- MODULE Handshake -----------------------------
(* The pure part of the negotiation between two agents (src/noe/agent.py):  *)
(* what each of them declares, how two declarations are matched and what     *)
(* frame is bound from them.                                                 *)
EXTENDS Integers, FiniteSets

CONSTANTS
    Agents,         \* agent ids
    Registries,     \* registry hashes
    Versions,       \* semantics versions
    Operators,      \* the operators of registry.json
    Subsystems,     \* SUBSYSTEM_NAMES
    Shared,         \* SubsystemCompat.SHARED
    Absent          \* SubsystemCompat.ABSENT

\* SHARED and ABSENT can be told from the owner of a one-sided subsystem.
ASSUME MarksDiffer == Shared # Absent /\ {Shared, Absent} \cap Agents = {}

-----------------------------------------------------------------------------

Limits == [max_skew : Nat, tau_stale : Nat, tau_window : Nat]

(* What an agent declares; context_subsystems is the set of those it has.    *)
AgentIdentity ==
    [agent_id : Agents, registry_hash : Registries, semantics_version : Versions,
     supported_operators : SUBSET Operators, context_subsystems : SUBSET Subsystems,
     temporal_config : Limits]

Intersection(a, b) == a.supported_operators \cap b.supported_operators

\* What becomes of each subsystem; one that only one agent has is marked with it.
SubsystemCompat(a, b) ==
    [s \in Subsystems |->
        LET owners == {x \in {a, b} : s \in x.context_subsystems}
        IN  CASE owners = {}                     -> Absent
              [] owners # {} /\ owners = {a, b}  -> Shared
              [] OTHER                           -> (CHOOSE x \in owners : TRUE).agent_id]

SharedCount(compat) == Cardinality({s \in Subsystems : compat[s] = Shared})

(* Announcements are matched gate after gate; the first that fails names the *)
(* error and leaves what was not reached empty.                              *)
match(a, b) ==
    LET ops    == Intersection(a, b)
        compat == SubsystemCompat(a, b)
        Failed(code, o, c) == [compatibility |-> "none", operators |-> o, subsystems |-> c,
                               error |-> code]
        nothing == [s \in {} |-> Absent]
    IN  IF a.registry_hash # b.registry_hash THEN Failed("registry", {}, nothing)
        ELSE IF a.semantics_version # b.semantics_version
             THEN Failed("semantics", {}, nothing)
        ELSE IF ops = {} THEN Failed("operators", {}, nothing)
        ELSE IF SharedCount(compat) = 0 THEN Failed("subsystems", ops, compat)
        ELSE [compatibility |-> IF SharedCount(compat) = Cardinality(Subsystems)
                                THEN "full" ELSE "partial",
              operators |-> ops, subsystems |-> compat, error |-> "none"]

\* Variant, to see that PassesHonourBoth depends on it: the laxer rule wins.
Laxer(m, n) == IF m <= n THEN n ELSE m

Lesser(m, n) == IF m <= n THEN m ELSE n

\* Of two rules the stricter wins, rule by rule.
AlignTemporal(x, y) == [f \in {"max_skew", "tau_stale", "tau_window"} |-> Lesser(x[f], y[f])]

(* The frame two agents bind. Its id is the digest of everything in it, so   *)
(* the frame serves as its own id; the agents are sorted, that is, a set.    *)
bind(a, b, m, start) ==
    [session_start |-> start, agents |-> {a.agent_id, b.agent_id},
     registry_hash |-> a.registry_hash, semantics_version |-> a.semantics_version,
     shared_operators |-> m.operators, subsystems |-> m.subsystems,
     temporal |-> AlignTemporal(a.temporal_config, b.temporal_config)]

-----------------------------------------------------------------------------
(* What agents prove to each other. A signature can only be made with the    *)
(* key that it is checked with, so it is that key and what was signed.       *)

Signature(key, signed) == [key |-> key, signed |-> signed]

SignedAnnouncement(aid, key, stamp) ==
    [aid |-> aid, public_key |-> key, stamp |-> stamp,
     signature |-> Signature(key, <<aid, stamp>>)]

\* verify_announcement: the signature first, then the age, which counts both ways.
AnnouncementFault(signed, now, max_age) ==
    IF signed.signature # Signature(signed.public_key, <<signed.aid, signed.stamp>>)
    THEN "signature"
    ELSE IF now - signed.stamp > max_age \/ now - signed.stamp < -max_age
    THEN "replay" ELSE "none"

Challenge(nonce, challenger) == [nonce |-> nonce, challenger |-> challenger]

\* The answer names challenger and responder, so that it fits no other pair.
RespondToChallenge(c, responder, key) ==
    [nonce |-> c.nonce, responder |-> responder,
     signature |-> Signature(key, <<c.nonce, c.challenger, responder>>)]

ResponseHolds(c, response, key) ==
    /\ response.nonce = c.nonce
    /\ response.signature = Signature(key, <<c.nonce, c.challenger, response.responder>>)

=============================================================================
