--------------------------- MODULE ContextManager ---------------------------
(***************************************************************************)
(* ContextManager of noe/context_manager.py: three context layers shared   *)
(* by threads, cached digests of the two slow layers, one re-entrant lock. *)
(*                                                                         *)
(* A call is several steps, cut wherever another thread can be scheduled   *)
(* and shared state is read or written: the wall clock is read before the  *)
(* lock is taken, and a layer, its cached digest and the time of the last  *)
(* local update are assigned one after the other.  reg holds the local     *)
(* variables of each call, result what the thread's last call returned.    *)
(***************************************************************************)
EXTENDS ContextLayers

CONSTANTS
    Readers,       \* the threads that call the reading operations
    Writers,       \* the threads that call the mutators; both sets may overlap
    Nobody,        \* the lock's holder when it is free
    Inputs,        \* the deltas and replacement layers callers pass
    InitRoots, InitDomains, InitLocals,  \* what __init__ may be given
    Staleness,     \* staleness_ms, clamped at 0; 0 switches staleness off
    MaxClock,      \* bound on the wall clock
    ClockMayStepBack  \* TRUE: the wall clock may be set back (time.time)

Threads == Readers \cup Writers

ASSUME ManagerAssumption ==
    /\ Nobody \notin Threads
    /\ Inputs \subseteq Layer
    /\ InitRoots \subseteq Layer
    /\ InitDomains \subseteq Layer
    /\ InitLocals \subseteq Layer
    /\ Staleness \in Nat
    /\ MaxClock \in Nat
    /\ ClockMayStepBack \in BOOLEAN

VARIABLES
    root, rootDigest,      \* _root_dict_cached, _root_digest
    domain, domainDigest,  \* _domain_dict_cached, _domain_digest
    local,                 \* _local
    lastUpdate,            \* _last_local_update_ms
    lock,                  \* holder of _lock
    clock,                 \* time_fn(), in ms
    pc,                    \* where each thread stands
    reg,                   \* each thread's local variables
    result                 \* what each thread's last call returned

layers == <<root, rootDigest, domain, domainDigest, local, lastUpdate>>
vars == <<layers, lock, clock, pc, reg, result>>

Blank == [k \in Keys |-> NoValue]

\* op: which caller of snapshot(); now: now_ms; stale: is_stale; root, domain:
\* the copies taken so far; new: the layer about to be assigned; old: the local
\* layer that assignment replaces; other: the hash compare_hashes was given.
NoReg == [op |-> "none", now |-> 0, stale |-> FALSE, root |-> Blank,
          domain |-> Blank, new |-> Blank, old |-> Blank, other |-> <<>>]

IsSnapshot(r) == r.kind = "snapshot"

Outcome(kind) == [kind |-> kind]

Snapshot(r, d, l, rd, dd, now, stale) ==
    [kind |-> "snapshot",
     structured |-> [root |-> r, domain |-> d, local |-> l],
     merged |-> MergeLayers(r, d, l),
     rootHash |-> rd, domainHash |-> dd, localHash |-> Digest(l),
     composite |-> Composite(rd, dd, Digest(l)),
     timestamp |-> now,
     stale |-> stale]

\* Age of C_local as the code computes it; a stepped-back clock makes it negative.
IsStale(now, last) == Staleness > 0 /\ now - last > Staleness

-----------------------------------------------------------------------------

\* __init__: root and domain are size-checked and hashed, local is not.
Init ==
    /\ root \in {l \in InitRoots : Fits(l)}
    /\ domain \in {l \in InitDomains : Fits(l)}
    /\ local \in InitLocals
    /\ rootDigest = Digest(root)
    /\ domainDigest = Digest(domain)
    /\ clock = 0
    /\ lastUpdate = clock
    /\ lock = Nobody
    /\ pc = [t \in Threads |-> "idle"]
    /\ reg = [t \in Threads |-> NoReg]
    /\ result = [t \in Threads |-> Outcome("none")]

\* Variant, to see that SnapshotIntegrity depends on it: no mutual exclusion.
FreeIgnored == TRUE

\* threading.RLock: no operation of this class calls another one inside it, so
\* re-entry never happens and the lock is modelled by its holder.
Free == lock = Nobody

\* Thread t enters the critical section, which it holds until Leave.
Enter(t) == Free /\ lock' = t

\* The call of t returns r; locals die.
Return(t, r) ==
    /\ pc' = [pc EXCEPT ![t] = "idle"]
    /\ reg' = [reg EXCEPT ![t] = NoReg]
    /\ result' = [result EXCEPT ![t] = r]

\* Variant, to see that LockReleased depends on it: an operation that raises
\* forgets to release the lock.
LeaveUnlessRaised(t, r) ==
    /\ lock' = IF r.kind = "too_large" THEN lock ELSE Nobody
    /\ Return(t, r)

\* ... out of the critical section.
Leave(t, r) == lock' = Nobody /\ Return(t, r)

Goto(t, label) == pc' = [pc EXCEPT ![t] = label]

-----------------------------------------------------------------------------
(* snapshot() and compare_hashes() *)

\* snapshot(): the clock is read before the lock is asked for.
SnapshotCall(t) ==
    /\ pc[t] = "idle"
    /\ Goto(t, "snap_lock")
    /\ reg' = [reg EXCEPT ![t] = [@ EXCEPT !.op = "snapshot", !.now = clock]]
    /\ UNCHANGED <<layers, lock, clock, result>>

\* compare_hashes(other): takes a snapshot of its own, then compares; the other
\* snapshot is one the thread got from an earlier call.
CompareCall(t) ==
    /\ pc[t] = "idle"
    /\ IsSnapshot(result[t])
    /\ Goto(t, "snap_lock")
    /\ reg' = [reg EXCEPT ![t] = [@ EXCEPT !.op = "compare", !.now = clock,
                                           !.other = result[t].composite]]
    /\ UNCHANGED <<layers, lock, clock, result>>

\* The stale verdict and the copy of root, just inside the lock.
SnapshotEnter(t) ==
    /\ pc[t] = "snap_lock"
    /\ Enter(t)
    /\ Goto(t, "snap_domain")
    /\ reg' = [reg EXCEPT ![t] = [@ EXCEPT !.stale = IsStale(reg[t].now, lastUpdate),
                                           !.root = root]]
    /\ UNCHANGED <<layers, clock, result>>

CopyDomain(t) ==
    /\ pc[t] = "snap_domain"
    /\ Goto(t, "snap_local")
    /\ reg' = [reg EXCEPT ![t].domain = domain]
    /\ UNCHANGED <<layers, lock, clock, result>>

\* Copy local, hash it (an oversize local layer raises), compose the hash from
\* the cached digests, build the snapshot and release the lock.
SnapshotSeal(t) ==
    LET snap == Snapshot(reg[t].root, reg[t].domain, local, rootDigest,
                         domainDigest, reg[t].now, reg[t].stale)
    IN  /\ pc[t] = "snap_local"
        /\ \/ /\ ~Fits(local)
              /\ Leave(t, Outcome("too_large"))
           \/ /\ Fits(local)
              /\ reg[t].op = "snapshot"
              /\ Leave(t, snap)
           \/ /\ Fits(local)
              /\ reg[t].op = "compare"
              /\ Leave(t, Outcome(IF snap.composite = reg[t].other
                                  THEN "equal" ELSE "different"))
        /\ UNCHANGED <<layers, clock>>

-----------------------------------------------------------------------------
(* The mutators.  Each computes the new layer and checks its size inside   *)
(* the lock before it assigns anything.                                    *)

\* Enter the lock with the layer to assign; an oversize one raises and leaves.
Prepare(t, new, label) ==
    /\ pc[t] = "idle"
    /\ Free
    /\ \/ /\ ~Fits(new)
          /\ result' = [result EXCEPT ![t] = Outcome("too_large")]
          /\ UNCHANGED <<lock, pc, reg>>
       \/ /\ Fits(new)
          /\ Enter(t)
          /\ Goto(t, label)
          /\ reg' = [reg EXCEPT ![t] = [@ EXCEPT !.new = new, !.old = local]]
          /\ UNCHANGED result
    /\ UNCHANGED <<layers, clock>>

\* Variant, to see that SizeLimitHolds depends on it: the size of the delta is
\* checked, not that of the merged layer.
UpdateLocalDeltaChecked(t, delta) ==
    /\ Fits(delta)
    /\ pc[t] = "idle"
    /\ Enter(t)
    /\ Goto(t, "assign_local")
    /\ reg' = [reg EXCEPT ![t] = [@ EXCEPT !.new = Merge(local, delta), !.old = local]]
    /\ UNCHANGED <<layers, clock, result>>

UpdateLocal(t, delta) == Prepare(t, Merge(local, delta), "assign_local")

ReplaceLocal(t, new) == Prepare(t, new, "assign_local")

UpdateDomain(t, delta) == Prepare(t, Merge(domain, delta), "assign_domain")

ReplaceDomain(t, new) == Prepare(t, new, "assign_domain")

UnsafeReplaceRoot(t, new) == Prepare(t, new, "assign_root")

AssignLocal(t) ==
    /\ pc[t] = "assign_local"
    /\ local' = reg[t].new
    /\ Goto(t, "stamp")
    /\ UNCHANGED <<root, rootDigest, domain, domainDigest, lastUpdate, lock,
                   clock, reg, result>>

\* Variant, to see that Linearizable depends on it: a local write leaves the old
\* time stamp.
StampForgotten(t) ==
    /\ pc[t] = "stamp"
    /\ Leave(t, Outcome("ok"))
    /\ UNCHANGED <<layers, clock>>

\* _last_local_update_ms is read from the clock after the layer is in place.
StampLocal(t) ==
    /\ pc[t] = "stamp"
    /\ lastUpdate' = clock
    /\ Leave(t, Outcome("ok"))
    /\ UNCHANGED <<root, rootDigest, domain, domainDigest, local, clock>>

AssignDomain(t) ==
    /\ pc[t] = "assign_domain"
    /\ domain' = reg[t].new
    /\ Goto(t, "digest_domain")
    /\ UNCHANGED <<root, rootDigest, domainDigest, local, lastUpdate, lock,
                   clock, reg, result>>

\* Variant, to see that TypeOK depends on it: the cached digest is invalidated and
\* not computed again.
AssignDomainInvalidated(t) ==
    /\ pc[t] = "digest_domain"
    /\ domainDigest' = [sha256 |-> NoValue]
    /\ Leave(t, Outcome("ok"))
    /\ UNCHANGED <<root, rootDigest, domain, local, lastUpdate, clock>>

AssignDomainDigest(t) ==
    /\ pc[t] = "digest_domain"
    /\ domainDigest' = Digest(reg[t].new)
    /\ Leave(t, Outcome("ok"))
    /\ UNCHANGED <<root, rootDigest, domain, local, lastUpdate, clock>>

AssignRoot(t) ==
    /\ pc[t] = "assign_root"
    /\ root' = reg[t].new
    /\ Goto(t, "digest_root")
    /\ UNCHANGED <<rootDigest, domain, domainDigest, local, lastUpdate, lock,
                   clock, reg, result>>

AssignRootDigest(t) ==
    /\ pc[t] = "digest_root"
    /\ rootDigest' = Digest(reg[t].new)
    /\ Leave(t, Outcome("ok"))
    /\ UNCHANGED <<root, domain, domainDigest, local, lastUpdate, clock>>

-----------------------------------------------------------------------------
(* assert_fresh() takes no lock: it reads the clock, then the stamp. *)

AssertFreshCall(t) ==
    /\ pc[t] = "idle"
    /\ Goto(t, "age")
    /\ reg' = [reg EXCEPT ![t] = [@ EXCEPT !.op = "assert_fresh", !.now = clock]]
    /\ UNCHANGED <<layers, lock, clock, result>>

AssertFresh(t) ==
    /\ pc[t] = "age"
    /\ Return(t, Outcome(IF IsStale(reg[t].now, lastUpdate)
                         THEN "stale" ELSE "fresh"))
    /\ UNCHANGED <<layers, lock, clock>>

-----------------------------------------------------------------------------

Tick ==
    /\ clock < MaxClock
    /\ clock' = clock + 1
    /\ UNCHANGED <<layers, lock, pc, reg, result>>

\* time.time() is the wall clock: it can be set back under the process.
StepBack ==
    /\ ClockMayStepBack
    /\ clock > 0
    /\ clock' = clock - 1
    /\ UNCHANGED <<layers, lock, pc, reg, result>>

\* What a call does next once it has begun.
Continue(t) ==
    \/ SnapshotEnter(t) \/ CopyDomain(t) \/ SnapshotSeal(t)
    \/ AssignLocal(t) \/ StampLocal(t)
    \/ AssignDomain(t) \/ AssignDomainDigest(t)
    \/ AssignRoot(t) \/ AssignRootDigest(t)
    \/ AssertFresh(t)

BeginRead(t) == SnapshotCall(t) \/ CompareCall(t) \/ AssertFreshCall(t)

BeginWrite(t) ==
    \E new \in Inputs : \/ UpdateLocal(t, new) \/ ReplaceLocal(t, new)
                        \/ UpdateDomain(t, new) \/ ReplaceDomain(t, new)
                        \/ UnsafeReplaceRoot(t, new)

Next ==
    \/ Tick \/ StepBack
    \/ \E t \in Readers : BeginRead(t)
    \/ \E t \in Writers : BeginWrite(t)
    \/ \E t \in Threads : Continue(t)

Spec == Init /\ [][Next]_vars

\* A thread that is runnable keeps running; nothing is said of who gets the lock.
FairSpec == Spec /\ \A t \in Threads : WF_vars(Continue(t))

-----------------------------------------------------------------------------
(* Properties *)

Digests == [sha256 : Layer]

Composites == Digests \X Digests \X Digests

Snapshots ==
    [kind : {"snapshot"},
     structured : [root : Layer, domain : Layer, local : Layer],
     merged : Layer,
     rootHash : Digests, domainHash : Digests, localHash : Digests,
     composite : Composites,
     timestamp : Nat,
     stale : BOOLEAN]

Outcomes == [kind : {"none", "ok", "too_large", "equal", "different",
                     "fresh", "stale"}]

Labels == {"idle", "snap_lock", "snap_domain", "snap_local", "age",
           "assign_local", "stamp", "assign_domain", "digest_domain",
           "assign_root", "digest_root"}

Regs == [op : {"none", "snapshot", "compare", "assert_fresh"}, now : Nat,
         stale : BOOLEAN, root : Layer, domain : Layer, new : Layer,
         old : Layer, other : Composites \cup {<<>>}]

\* Every variable has the type its code counterpart has.
TypeOK ==
    /\ root \in Layer /\ domain \in Layer /\ local \in Layer
    /\ rootDigest \in Digests /\ domainDigest \in Digests
    /\ lastUpdate \in Nat /\ clock \in Nat
    /\ lock \in Threads \cup {Nobody}
    /\ pc \in [Threads -> Labels]
    /\ reg \in [Threads -> Regs]
    /\ result \in [Threads -> Snapshots \cup Outcomes]

\* A snapshot's hashes commit to exactly the layers it carries and its merged
\* view is the merge of those same layers, although two of the digests come
\* from a cache and other threads write between the steps (snapshot, 370-438).
SnapshotIntegrity ==
    \A t \in Threads : IsSnapshot(result[t]) =>
        LET s == result[t]
            c == s.structured
        IN  /\ s.rootHash = Digest(c.root)
            /\ s.domainHash = Digest(c.domain)
            /\ s.localHash = Digest(c.local)
            /\ s.composite = Composite(s.rootHash, s.domainHash, s.localHash)
            /\ s.merged = MergeLayers(c.root, c.domain, c.local)

\* No oversize layer is ever served in a snapshot, and the two layers whose size
\* the constructor checks never exceed the limit; an oversize local layer can
\* only be one that __init__, which does not check it, was given.
SizeLimitHolds ==
    /\ Fits(root) /\ Fits(domain)
    /\ ~Fits(local) => local \in InitLocals
    /\ \A t \in Threads : IsSnapshot(result[t]) =>
        \A layer \in {"root", "domain", "local"} :
            Fits(result[t].structured[layer])

\* The lock never stays with the same call: whoever is inside gets out again,
\* also on the paths that raise.
LockReleased == \A t \in Threads : (lock = t) ~> (lock # t)

-----------------------------------------------------------------------------
(* The calls are linearizable: each takes effect at one step.  A writer's   *)
(* effect is the step that ends it, when both halves of it are in place; a  *)
(* reader's is the step that ends it too.                                   *)

Reading == {"snap_lock", "snap_domain", "snap_local", "age"}

\* The local layer whose write has taken effect: between its assignment and its
\* time stamp, only the holder of the lock can have seen the new one.
Committed ==
    IF \E t \in Threads : pc[t] = "stamp"
    THEN reg[CHOOSE t \in Threads : pc[t] = "stamp"].old ELSE local

\* The reading of the clock that each reading call under way began with.
Asked == [t \in Threads |-> IF pc[t] \in Reading THEN reg[t].now ELSE -1]

Store == INSTANCE ContextStore WITH
    root <- rootDigest.sha256, domain <- domainDigest.sha256,
    local <- Committed, asked <- Asked

\* The manager implements the atomic store (safety part).
Linearizable == Store!Spec

=============================================================================
