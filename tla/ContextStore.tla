---------------------------- MODULE ContextStore ----------------------------
(***************************************************************************)
(* What ContextManager promises its callers: every operation takes effect  *)
(* at one instant between its call and its return, on one copy of the      *)
(* three layers.  There are no cached digests, no lock and no intermediate *)
(* states; a failed operation changes nothing.  The one weakness left in   *)
(* the promise is the age: snapshot() and assert_fresh() judge it by a     *)
(* reading of the clock taken when the call began.                         *)
(***************************************************************************)
EXTENDS ContextLayers

CONSTANTS Threads, Inputs, InitRoots, InitDomains, InitLocals, Staleness,
          MaxClock, ClockMayStepBack

VARIABLES
    root, domain, local,
    lastUpdate,    \* when local was last written
    clock,
    asked,         \* per thread: the reading its call began with, or NotAsked
    result         \* per thread: what its last call returned

vars == <<root, domain, local, lastUpdate, clock, asked, result>>

NotAsked == -1

Outcome(kind) == [kind |-> kind]

IsSnapshot(r) == r.kind = "snapshot"

IsStale(now) == Staleness > 0 /\ now - lastUpdate > Staleness

\* A view of the store at this instant: its hashes are those of its layers.
View(now) ==
    [kind |-> "snapshot",
     structured |-> [root |-> root, domain |-> domain, local |-> local],
     merged |-> MergeLayers(root, domain, local),
     rootHash |-> Digest(root), domainHash |-> Digest(domain),
     localHash |-> Digest(local),
     composite |-> Composite(Digest(root), Digest(domain), Digest(local)),
     timestamp |-> now,
     stale |-> IsStale(now)]

Init ==
    /\ root \in {l \in InitRoots : Fits(l)}
    /\ domain \in {l \in InitDomains : Fits(l)}
    /\ local \in InitLocals
    /\ clock = 0
    /\ lastUpdate = 0
    /\ asked = [t \in Threads |-> NotAsked]
    /\ result = [t \in Threads |-> Outcome("none")]

Respond(t, r) == result' = [result EXCEPT ![t] = r]

\* A reading operation begins: it reads the clock.
Ask(t) ==
    /\ asked[t] = NotAsked
    /\ asked' = [asked EXCEPT ![t] = clock]
    /\ UNCHANGED <<root, domain, local, lastUpdate, clock, result>>

\* A reading operation takes effect and returns r.
Answer(t, r) ==
    /\ asked[t] # NotAsked
    /\ asked' = [asked EXCEPT ![t] = NotAsked]
    /\ Respond(t, r)
    /\ UNCHANGED <<root, domain, local, lastUpdate, clock>>

TakeSnapshot(t) == Fits(local) /\ Answer(t, View(asked[t]))

\* The snapshot compared with may have been taken at any time.
CompareHashes(t) ==
    /\ Fits(local)
    /\ IsSnapshot(result[t])
    /\ Answer(t, Outcome(IF result[t].structured =
                               [root |-> root, domain |-> domain, local |-> local]
                         THEN "equal" ELSE "different"))

LocalTooLarge(t) == ~Fits(local) /\ Answer(t, Outcome("too_large"))

AssertFresh(t) ==
    Answer(t, Outcome(IF IsStale(asked[t]) THEN "stale" ELSE "fresh"))

\* A write: all of it, with the time, or nothing.
WriteLocal(t) ==
    \E new \in Inputs \cup {Merge(local, d) : d \in Inputs} :
        /\ Fits(new)
        /\ local' = new
        /\ lastUpdate' = clock
        /\ Respond(t, Outcome("ok"))
        /\ UNCHANGED <<root, domain, clock, asked>>

WriteDomain(t) ==
    \E new \in Inputs \cup {Merge(domain, d) : d \in Inputs} :
        /\ Fits(new)
        /\ domain' = new
        /\ Respond(t, Outcome("ok"))
        /\ UNCHANGED <<root, local, lastUpdate, clock, asked>>

WriteRoot(t) ==
    \E new \in Inputs :
        /\ Fits(new)
        /\ root' = new
        /\ Respond(t, Outcome("ok"))
        /\ UNCHANGED <<domain, local, lastUpdate, clock, asked>>

WriteRefused(t) ==
    /\ \E new \in Inputs \cup {Merge(b, d) : b \in {local, domain}, d \in Inputs} :
            ~Fits(new)
    /\ Respond(t, Outcome("too_large"))
    /\ UNCHANGED <<root, domain, local, lastUpdate, clock, asked>>

ClockMoves ==
    /\ clock' \in {clock + 1} \cup (IF ClockMayStepBack THEN {clock - 1} ELSE {})
    /\ clock' \in 0..MaxClock
    /\ UNCHANGED <<root, domain, local, lastUpdate, asked, result>>

Next ==
    \/ ClockMoves
    \/ \E t \in Threads :
        \/ Ask(t) \/ TakeSnapshot(t) \/ CompareHashes(t) \/ LocalTooLarge(t)
        \/ AssertFresh(t)
        \/ WriteLocal(t) \/ WriteDomain(t) \/ WriteRoot(t) \/ WriteRefused(t)

Spec == Init /\ [][Next]_vars

=============================================================================
