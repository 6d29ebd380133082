----------------------- MODULE ContextManager_proofs -----------------------
(***************************************************************************)
(* Proofs about ContextManager, for every set of threads, paths, values,   *)
(* inputs and sizes, and for a clock that may be set back.                 *)
(***************************************************************************)
EXTENDS ContextManager, TLAPS

\* The labels between taking the lock and releasing it.
Critical == {"snap_domain", "snap_local", "assign_local", "stamp",
             "assign_domain", "digest_domain", "assign_root", "digest_root"}

\* Exactly the holder of the lock is inside the critical section.
LockInv == \A t \in Threads : pc[t] \in Critical <=> lock = t

\* A cached digest is out of date only while its writer is between the two
\* assignments, and that writer knows the layer it belongs to.
DigestInv ==
    /\ (\A t \in Threads : pc[t] # "digest_root") => rootDigest = Digest(root)
    /\ (\A t \in Threads : pc[t] # "digest_domain") => domainDigest = Digest(domain)
    /\ \A t \in Threads :
        /\ pc[t] = "digest_root" => root = reg[t].new
        /\ pc[t] = "digest_domain" => domain = reg[t].new

\* The copies a reader has taken so far are still what the manager holds.
CopyInv ==
    \A t \in Threads :
        /\ pc[t] \in {"snap_domain", "snap_local"} => reg[t].root = root
        /\ pc[t] = "snap_local" => reg[t].domain = domain

\* The layer about to be assigned has passed the size check.
PreparedInv ==
    \A t \in Threads :
        pc[t] \in {"assign_local", "assign_domain", "digest_domain",
                   "assign_root", "digest_root"} => Fits(reg[t].new)

IInv == TypeOK /\ LockInv /\ DigestInv /\ CopyInv /\ PreparedInv
            /\ SnapshotIntegrity /\ SizeLimitHolds

-----------------------------------------------------------------------------

\* Merging two layers gives a layer (_deep_merge).
LEMMA MergeType ==
    ASSUME NEW x \in Layer, NEW y \in Layer
    PROVE  Merge(x, y) \in Layer
BY DEF Merge, Layer

\* A snapshot built from layers and digests has the type of a snapshot.
LEMMA SnapshotType ==
    ASSUME NEW r \in Layer, NEW d \in Layer, NEW l \in Layer,
           NEW rd \in Digests, NEW dd \in Digests,
           NEW now \in Nat, NEW stale \in BOOLEAN
    PROVE  Snapshot(r, d, l, rd, dd, now, stale) \in Snapshots
<1>1. MergeLayers(r, d, l) \in Layer
  BY MergeType DEF MergeLayers
<1>2. Digest(l) \in Digests
  BY DEF Digest, Digests
<1>3. Composite(rd, dd, Digest(l)) \in Composites
  BY <1>2 DEF Composite, Composites
<1>4. QED
  BY <1>1, <1>2, <1>3 DEF Snapshot, Snapshots

\* Every call begins with blank registers.
LEMMA NoRegType == NoReg \in Regs
BY DEF NoReg, Regs, Blank, Layer

\* The initial state is well typed.
LEMMA InitTypeOK == Init => TypeOK
<1> SUFFICES ASSUME Init PROVE TypeOK
  OBVIOUS
<1>1. root \in Layer /\ domain \in Layer /\ local \in Layer
  BY ManagerAssumption DEF Init
<1>2. rootDigest \in Digests /\ domainDigest \in Digests
  BY <1>1 DEF Init, Digest, Digests
<1>3. reg \in [Threads -> Regs]
  BY NoRegType DEF Init
<1>4. result \in [Threads -> Snapshots \cup Outcomes]
  BY DEF Init, Outcome, Outcomes
<1>5. QED
  BY <1>1, <1>2, <1>3, <1>4 DEF Init, TypeOK, Labels

\* A step that goes to a label keeps pc well typed.
LEMMA GotoType ==
    ASSUME TypeOK, NEW t \in Threads, NEW label \in Labels, Goto(t, label)
    PROVE  pc' \in [Threads -> Labels]
BY DEF Goto, TypeOK

\* A return keeps pc, reg and result well typed.
LEMMA ReturnType ==
    ASSUME TypeOK, NEW t \in Threads, NEW r \in Snapshots \cup Outcomes,
           Return(t, r)
    PROVE  /\ pc' \in [Threads -> Labels]
           /\ reg' \in [Threads -> Regs]
           /\ result' \in [Threads -> Snapshots \cup Outcomes]
BY NoRegType DEF Return, TypeOK, Labels

\* A mutator's first step keeps every variable well typed.
LEMMA PrepareType ==
    ASSUME TypeOK, NEW t \in Threads, NEW new \in Layer,
           NEW label \in Labels, Prepare(t, new, label)
    PROVE  TypeOK'
<1>1. CASE ~Fits(new)
  <2>1. result' \in [Threads -> Snapshots \cup Outcomes]
    BY <1>1 DEF Prepare, TypeOK, Outcome, Outcomes
  <2>2. QED
    BY <1>1, <2>1 DEF Prepare, TypeOK, layers
<1>2. CASE Fits(new)
  <2>1. reg' \in [Threads -> Regs]
    <3>1. [reg[t] EXCEPT !.new = new, !.old = local] \in Regs
      BY DEF TypeOK, Regs
    <3>2. QED
      BY <1>2, <3>1 DEF Prepare, TypeOK
  <2>2. pc' \in [Threads -> Labels]
    BY <1>2, GotoType DEF Prepare
  <2>3. QED
    BY <1>2, <2>1, <2>2 DEF Prepare, TypeOK, layers, Enter
<1>3. QED
  BY <1>1, <1>2

\* Every step keeps the variables well typed.
LEMMA NextTypeOK == TypeOK /\ [Next]_vars => TypeOK'
<1> SUFFICES ASSUME TypeOK, [Next]_vars PROVE TypeOK'
  OBVIOUS
<1> USE DEF layers
<1>1. CASE Tick
  BY <1>1 DEF Tick, TypeOK
<1>2. CASE StepBack
  BY <1>2 DEF StepBack, TypeOK
<1>3. ASSUME NEW t \in Threads, SnapshotCall(t) PROVE TypeOK'
  <2>1. pc' \in [Threads -> Labels]
    BY <1>3, GotoType DEF SnapshotCall, Labels
  <2>2. reg' \in [Threads -> Regs]
    <3>1. [reg[t] EXCEPT !.op = "snapshot", !.now = clock] \in Regs
      BY DEF TypeOK, Regs
    <3>2. QED
      BY <1>3, <3>1 DEF SnapshotCall, TypeOK
  <2>3. QED
    BY <1>3, <2>1, <2>2 DEF SnapshotCall, TypeOK
<1>4. ASSUME NEW t \in Threads, CompareCall(t) PROVE TypeOK'
  <2>1. pc' \in [Threads -> Labels]
    BY <1>4, GotoType DEF CompareCall, Labels
  <2>2. result[t].composite \in Composites
    BY <1>4 DEF CompareCall, TypeOK, IsSnapshot, Snapshots, Outcomes
  <2>3. reg' \in [Threads -> Regs]
    <3>1. [reg[t] EXCEPT !.op = "compare", !.now = clock,
                         !.other = result[t].composite] \in Regs
      BY <2>2 DEF TypeOK, Regs
    <3>2. QED
      BY <1>4, <3>1 DEF CompareCall, TypeOK
  <2>4. QED
    BY <1>4, <2>1, <2>3 DEF CompareCall, TypeOK
<1>5. ASSUME NEW t \in Threads, AssertFreshCall(t) PROVE TypeOK'
  <2>1. pc' \in [Threads -> Labels]
    BY <1>5, GotoType DEF AssertFreshCall, Labels
  <2>2. reg' \in [Threads -> Regs]
    <3>1. [reg[t] EXCEPT !.op = "assert_fresh", !.now = clock] \in Regs
      BY DEF TypeOK, Regs
    <3>2. QED
      BY <1>5, <3>1 DEF AssertFreshCall, TypeOK
  <2>3. QED
    BY <1>5, <2>1, <2>2 DEF AssertFreshCall, TypeOK
<1>6. ASSUME NEW t \in Threads, BeginWrite(t) PROVE TypeOK'
  <2>1. PICK new \in Inputs : \/ UpdateLocal(t, new) \/ ReplaceLocal(t, new)
                             \/ UpdateDomain(t, new) \/ ReplaceDomain(t, new)
                             \/ UnsafeReplaceRoot(t, new)
    BY <1>6 DEF BeginWrite
  <2>2. /\ new \in Layer
        /\ Merge(local, new) \in Layer
        /\ Merge(domain, new) \in Layer
    BY ManagerAssumption, MergeType DEF TypeOK
  <2>3. {"assign_local", "assign_domain", "assign_root"} \subseteq Labels
    BY DEF Labels
  <2>4. QED
    BY <2>1, <2>2, <2>3, PrepareType
       DEF UpdateLocal, ReplaceLocal, UpdateDomain, ReplaceDomain,
           UnsafeReplaceRoot
<1>7. ASSUME NEW t \in Threads, SnapshotEnter(t) PROVE TypeOK'
  <2>1. pc' \in [Threads -> Labels]
    BY <1>7, GotoType DEF SnapshotEnter, Labels
  <2>2. IsStale(reg[t].now, lastUpdate) \in BOOLEAN
    BY DEF IsStale
  <2>3. reg' \in [Threads -> Regs]
    <3>1. [reg[t] EXCEPT !.stale = IsStale(reg[t].now, lastUpdate),
                         !.root = root] \in Regs
      BY <2>2 DEF TypeOK, Regs
    <3>2. QED
      BY <1>7, <3>1 DEF SnapshotEnter, TypeOK
  <2>4. QED
    BY <1>7, <2>1, <2>3 DEF SnapshotEnter, TypeOK, Enter
<1>8. ASSUME NEW t \in Threads, CopyDomain(t) PROVE TypeOK'
  <2>1. pc' \in [Threads -> Labels]
    BY <1>8, GotoType DEF CopyDomain, Labels
  <2>2. reg' \in [Threads -> Regs]
    BY <1>8 DEF CopyDomain, TypeOK, Regs
  <2>3. QED
    BY <1>8, <2>1, <2>2 DEF CopyDomain, TypeOK
<1>9. ASSUME NEW t \in Threads, SnapshotSeal(t) PROVE TypeOK'
  <2> DEFINE snap == Snapshot(reg[t].root, reg[t].domain, local, rootDigest,
                              domainDigest, reg[t].now, reg[t].stale)
  <2>1. snap \in Snapshots
    BY SnapshotType DEF TypeOK, Regs
  <2>2. Outcome("too_large") \in Outcomes /\ Outcome("equal") \in Outcomes
            /\ Outcome("different") \in Outcomes
    BY DEF Outcome, Outcomes
  <2>3. PICK r \in Snapshots \cup Outcomes : Leave(t, r)
    BY <1>9, <2>1, <2>2 DEF SnapshotSeal
  <2>4. QED
    BY <1>9, <2>3, ReturnType DEF SnapshotSeal, Leave, TypeOK
<1>10. ASSUME NEW t \in Threads, AssignLocal(t) PROVE TypeOK'
  <2>1. pc' \in [Threads -> Labels]
    BY <1>10, GotoType DEF AssignLocal, Labels
  <2>2. QED
    BY <1>10, <2>1 DEF AssignLocal, TypeOK, Regs
<1>11. ASSUME NEW t \in Threads, StampLocal(t) PROVE TypeOK'
  <2>1. Outcome("ok") \in Outcomes
    BY DEF Outcome, Outcomes
  <2>2. QED
    BY <1>11, <2>1, ReturnType DEF StampLocal, Leave, TypeOK
<1>12. ASSUME NEW t \in Threads, AssignDomain(t) PROVE TypeOK'
  <2>1. pc' \in [Threads -> Labels]
    BY <1>12, GotoType DEF AssignDomain, Labels
  <2>2. QED
    BY <1>12, <2>1 DEF AssignDomain, TypeOK, Regs
<1>13. ASSUME NEW t \in Threads, AssignDomainDigest(t) PROVE TypeOK'
  <2>1. Outcome("ok") \in Outcomes
    BY DEF Outcome, Outcomes
  <2>2. Digest(reg[t].new) \in Digests
    BY DEF Digest, Digests, TypeOK, Regs
  <2>3. QED
    BY <1>13, <2>1, <2>2, ReturnType DEF AssignDomainDigest, Leave, TypeOK
<1>14. ASSUME NEW t \in Threads, AssignRoot(t) PROVE TypeOK'
  <2>1. pc' \in [Threads -> Labels]
    BY <1>14, GotoType DEF AssignRoot, Labels
  <2>2. QED
    BY <1>14, <2>1 DEF AssignRoot, TypeOK, Regs
<1>15. ASSUME NEW t \in Threads, AssignRootDigest(t) PROVE TypeOK'
  <2>1. Outcome("ok") \in Outcomes
    BY DEF Outcome, Outcomes
  <2>2. Digest(reg[t].new) \in Digests
    BY DEF Digest, Digests, TypeOK, Regs
  <2>3. QED
    BY <1>15, <2>1, <2>2, ReturnType DEF AssignRootDigest, Leave, TypeOK
<1>16. ASSUME NEW t \in Threads, AssertFresh(t) PROVE TypeOK'
  <2>1. Outcome("stale") \in Outcomes /\ Outcome("fresh") \in Outcomes
    BY DEF Outcome, Outcomes
  <2>2. QED
    BY <1>16, <2>1, ReturnType DEF AssertFresh, TypeOK
<1>17. CASE UNCHANGED vars
  BY <1>17 DEF vars, TypeOK
<1>18. QED
  BY <1>1, <1>2, <1>3, <1>4, <1>5, <1>6, <1>7, <1>8, <1>9, <1>10, <1>11,
     <1>12, <1>13, <1>14, <1>15, <1>16, <1>17
     DEF Next, BeginRead, Continue, Threads

\* Type correctness of the manager in every behavior.
THEOREM TypeCorrect == Spec => []TypeOK
BY InitTypeOK, NextTypeOK, PTL DEF Spec

-----------------------------------------------------------------------------

\* The steps of the specification, for the case splits below.
LEMMA StepCases ==
    ASSUME [Next]_vars
    PROVE  \/ UNCHANGED <<layers, lock, pc, reg, result>>
           \/ \E t \in Threads :
                \/ BeginRead(t)
                \/ \E new \in Layer :
                     \E label \in {"assign_local", "assign_domain", "assign_root"} :
                        TypeOK => Prepare(t, new, label)
                \/ SnapshotEnter(t) \/ CopyDomain(t) \/ SnapshotSeal(t)
                \/ AssignLocal(t) \/ StampLocal(t)
                \/ AssignDomain(t) \/ AssignDomainDigest(t)
                \/ AssignRoot(t) \/ AssignRootDigest(t)
                \/ AssertFresh(t)
<1>1. CASE Tick \/ StepBack \/ UNCHANGED vars
  BY <1>1 DEF Tick, StepBack, vars
<1>2. CASE \E t \in Readers : BeginRead(t)
  BY <1>2 DEF Threads
<1>3. ASSUME NEW t \in Writers, BeginWrite(t), TypeOK
      PROVE  \E new \in Layer :
               \E label \in {"assign_local", "assign_domain", "assign_root"} :
                  Prepare(t, new, label)
  <2>1. PICK new \in Inputs : \/ UpdateLocal(t, new) \/ ReplaceLocal(t, new)
                             \/ UpdateDomain(t, new) \/ ReplaceDomain(t, new)
                             \/ UnsafeReplaceRoot(t, new)
    BY <1>3 DEF BeginWrite
  <2>2. /\ new \in Layer
        /\ Merge(local, new) \in Layer
        /\ Merge(domain, new) \in Layer
    BY <1>3, ManagerAssumption, MergeType DEF TypeOK
  <2>3. QED
    BY <2>1, <2>2 DEF UpdateLocal, ReplaceLocal, UpdateDomain, ReplaceDomain,
                      UnsafeReplaceRoot
<1>4. CASE \E t \in Threads : Continue(t)
  BY <1>4 DEF Continue
<1>5. Blank \in Layer
  BY DEF Blank, Layer
<1>6. QED
  BY <1>1, <1>2, <1>3, <1>4, <1>5 DEF Next, Threads

\* Mutual exclusion is preserved.
LEMMA LockStep == TypeOK /\ LockInv /\ [Next]_vars => LockInv'
<1> SUFFICES ASSUME TypeOK, LockInv, [Next]_vars PROVE LockInv'
  OBVIOUS
<1> USE DEF LockInv, Critical, TypeOK
<1>1. CASE UNCHANGED <<layers, lock, pc, reg, result>>
  BY <1>1
<1>2. ASSUME NEW t \in Threads, BeginRead(t) PROVE LockInv'
  BY <1>2 DEF BeginRead, SnapshotCall, CompareCall, AssertFreshCall, Goto
<1>3. ASSUME NEW t \in Threads, NEW new \in Layer,
             NEW label \in {"assign_local", "assign_domain", "assign_root"},
             Prepare(t, new, label)
      PROVE  LockInv'
  BY <1>3, ManagerAssumption DEF Prepare, Enter, Free, Goto
<1>4. ASSUME NEW t \in Threads, SnapshotEnter(t) PROVE LockInv'
  BY <1>4, ManagerAssumption DEF SnapshotEnter, Enter, Free, Goto
<1>5. ASSUME NEW t \in Threads,
             CopyDomain(t) \/ AssignLocal(t) \/ AssignDomain(t) \/ AssignRoot(t)
      PROVE  LockInv'
  BY <1>5 DEF CopyDomain, AssignLocal, AssignDomain, AssignRoot, Goto
<1>6. ASSUME NEW t \in Threads, NEW r, pc[t] \in Critical, Leave(t, r)
      PROVE  LockInv'
  BY <1>6, ManagerAssumption DEF Leave, Return
<1>7. ASSUME NEW t \in Threads, AssertFresh(t) PROVE LockInv'
  BY <1>7 DEF AssertFresh, Return
<1>8. QED
  BY <1>1, <1>2, <1>3, <1>4, <1>5, <1>6, <1>7, StepCases
     DEF SnapshotSeal, StampLocal, AssignDomainDigest, AssignRootDigest

\* Digest coherence is preserved: only the lock's holder writes a cached layer
\* or its digest, so no two writers are between their assignments at once.
LEMMA DigestStep ==
    TypeOK /\ LockInv /\ DigestInv /\ [Next]_vars => DigestInv'
<1> SUFFICES ASSUME TypeOK, LockInv, DigestInv, [Next]_vars PROVE DigestInv'
  OBVIOUS
<1> USE DEF DigestInv, LockInv, Critical, TypeOK, layers
<1>1. CASE UNCHANGED <<layers, lock, pc, reg, result>>
  BY <1>1
<1>2. ASSUME NEW t \in Threads, BeginRead(t) PROVE DigestInv'
  BY <1>2 DEF BeginRead, SnapshotCall, CompareCall, AssertFreshCall, Goto
<1>3. ASSUME NEW t \in Threads, NEW new \in Layer,
             NEW label \in {"assign_local", "assign_domain", "assign_root"},
             Prepare(t, new, label)
      PROVE  DigestInv'
  BY <1>3 DEF Prepare, Goto
<1>4. ASSUME NEW t \in Threads, SnapshotEnter(t) \/ CopyDomain(t)
      PROVE  DigestInv'
  BY <1>4 DEF SnapshotEnter, CopyDomain, Goto
<1>5. ASSUME NEW t \in Threads, SnapshotSeal(t) \/ AssertFresh(t)
      PROVE  DigestInv'
  BY <1>5 DEF SnapshotSeal, AssertFresh, Leave, Return
<1>6. ASSUME NEW t \in Threads, AssignLocal(t) PROVE DigestInv'
  BY <1>6 DEF AssignLocal, Goto
<1>7. ASSUME NEW t \in Threads, StampLocal(t) PROVE DigestInv'
  BY <1>7 DEF StampLocal, Leave, Return
<1>8. ASSUME NEW t \in Threads, AssignDomain(t) PROVE DigestInv'
  <2>1. \A u \in Threads \ {t} : pc[u] \notin Critical
    BY <1>8 DEF AssignDomain
  <2>2. QED
    BY <1>8, <2>1 DEF AssignDomain, Goto
<1>9. ASSUME NEW t \in Threads, AssignDomainDigest(t) PROVE DigestInv'
  <2>1. \A u \in Threads \ {t} : pc[u] \notin Critical
    BY <1>9 DEF AssignDomainDigest
  <2>2. QED
    BY <1>9, <2>1 DEF AssignDomainDigest, Leave, Return
<1>10. ASSUME NEW t \in Threads, AssignRoot(t) PROVE DigestInv'
  <2>1. \A u \in Threads \ {t} : pc[u] \notin Critical
    BY <1>10 DEF AssignRoot
  <2>2. QED
    BY <1>10, <2>1 DEF AssignRoot, Goto
<1>11. ASSUME NEW t \in Threads, AssignRootDigest(t) PROVE DigestInv'
  <2>1. \A u \in Threads \ {t} : pc[u] \notin Critical
    BY <1>11 DEF AssignRootDigest
  <2>2. QED
    BY <1>11, <2>1 DEF AssignRootDigest, Leave, Return
<1>12. QED
  BY <1>1, <1>2, <1>3, <1>4, <1>5, <1>6, <1>7, <1>8, <1>9, <1>10, <1>11,
     StepCases

\* A reader's copies stay those of the manager until it seals the snapshot.
LEMMA CopyStep == TypeOK /\ LockInv /\ CopyInv /\ [Next]_vars => CopyInv'
<1> SUFFICES ASSUME TypeOK, LockInv, CopyInv, [Next]_vars PROVE CopyInv'
  OBVIOUS
<1> USE DEF CopyInv, LockInv, Critical, TypeOK, layers
<1>1. CASE UNCHANGED <<layers, lock, pc, reg, result>>
  BY <1>1
<1>2. ASSUME NEW t \in Threads, BeginRead(t) PROVE CopyInv'
  BY <1>2 DEF BeginRead, SnapshotCall, CompareCall, AssertFreshCall, Goto
<1>3. ASSUME NEW t \in Threads, NEW new \in Layer,
             NEW label \in {"assign_local", "assign_domain", "assign_root"},
             Prepare(t, new, label)
      PROVE  CopyInv'
  BY <1>3 DEF Prepare, Goto
<1>4. ASSUME NEW t \in Threads, SnapshotEnter(t) PROVE CopyInv'
  BY <1>4, ManagerAssumption DEF SnapshotEnter, Enter, Free, Goto, Regs
<1>5. ASSUME NEW t \in Threads, CopyDomain(t) PROVE CopyInv'
  BY <1>5 DEF CopyDomain, Goto, Regs
<1>6. ASSUME NEW t \in Threads, NEW r, Return(t, r), UNCHANGED <<root, domain>>
      PROVE  CopyInv'
  BY <1>6 DEF Return
<1>7. ASSUME NEW t \in Threads,
             AssignLocal(t) \/ AssignDomain(t) \/ AssignRoot(t)
      PROVE  CopyInv'
  <2>1. \A u \in Threads \ {t} : pc[u] \notin Critical
    BY <1>7 DEF AssignLocal, AssignDomain, AssignRoot
  <2>2. QED
    BY <1>7, <2>1 DEF AssignLocal, AssignDomain, AssignRoot, Goto
<1>8. QED
  BY <1>1, <1>2, <1>3, <1>4, <1>5, <1>6, <1>7, StepCases
     DEF SnapshotSeal, StampLocal, AssignDomainDigest, AssignRootDigest,
         AssertFresh, Leave

\* What a writer is about to assign keeps having passed the size check.
LEMMA PreparedStep == TypeOK /\ PreparedInv /\ [Next]_vars => PreparedInv'
<1> SUFFICES ASSUME TypeOK, PreparedInv, [Next]_vars PROVE PreparedInv'
  OBVIOUS
<1> USE DEF PreparedInv, TypeOK, layers
<1>1. CASE UNCHANGED <<layers, lock, pc, reg, result>>
  BY <1>1
<1>2. ASSUME NEW t \in Threads, BeginRead(t) PROVE PreparedInv'
  BY <1>2 DEF BeginRead, SnapshotCall, CompareCall, AssertFreshCall, Goto
<1>3. ASSUME NEW t \in Threads, NEW new \in Layer,
             NEW label \in {"assign_local", "assign_domain", "assign_root"},
             Prepare(t, new, label)
      PROVE  PreparedInv'
  BY <1>3 DEF Prepare, Goto, Regs
<1>4. ASSUME NEW t \in Threads, SnapshotEnter(t) \/ CopyDomain(t)
      PROVE  PreparedInv'
  BY <1>4 DEF SnapshotEnter, CopyDomain, Goto
<1>5. ASSUME NEW t \in Threads, NEW r, Return(t, r) PROVE PreparedInv'
  BY <1>5 DEF Return
<1>6. ASSUME NEW t \in Threads,
             AssignLocal(t) \/ AssignDomain(t) \/ AssignRoot(t)
      PROVE  PreparedInv'
  BY <1>6 DEF AssignLocal, AssignDomain, AssignRoot, Goto
<1>7. QED
  BY <1>1, <1>2, <1>3, <1>4, <1>5, <1>6, StepCases
     DEF SnapshotSeal, StampLocal, AssignDomainDigest, AssignRootDigest,
         AssertFresh, Leave

\* At the moment a reader seals, its copies and the cached digests are those of
\* the layers the manager holds.
LEMMA SealCoherent ==
    ASSUME TypeOK, LockInv, DigestInv, CopyInv,
           NEW t \in Threads, SnapshotSeal(t)
    PROVE  /\ reg[t].root = root /\ rootDigest = Digest(root)
           /\ reg[t].domain = domain /\ domainDigest = Digest(domain)
<1>1. pc[t] = "snap_local" /\ lock = t
  BY DEF SnapshotSeal, LockInv, Critical
<1>2. \A u \in Threads : pc[u] # "digest_root" /\ pc[u] # "digest_domain"
  BY <1>1 DEF LockInv, Critical
<1>3. QED
  BY <1>1, <1>2 DEF DigestInv, CopyInv

\* What a seal returns: a snapshot of the manager's layers, or a mere outcome.
LEMMA SealResult ==
    ASSUME TypeOK, LockInv, DigestInv, CopyInv,
           NEW t \in Threads, SnapshotSeal(t)
    PROVE  \E r : /\ Leave(t, r)
                  /\ IsSnapshot(r) =>
                       /\ Fits(local)
                       /\ r = Snapshot(root, domain, local, Digest(root),
                                       Digest(domain), reg[t].now, reg[t].stale)
<1>1. /\ reg[t].root = root /\ rootDigest = Digest(root)
      /\ reg[t].domain = domain /\ domainDigest = Digest(domain)
  BY SealCoherent
<1>2. ~IsSnapshot(Outcome("too_large")) /\ ~IsSnapshot(Outcome("equal"))
        /\ ~IsSnapshot(Outcome("different"))
  BY DEF IsSnapshot, Outcome
<1>3. QED
  BY <1>1, <1>2 DEF SnapshotSeal

\* A step that ends a call with an outcome that is no snapshot, or ends none,
\* disturbs no snapshot that was returned before.
LEMMA OtherResults ==
    ASSUME TypeOK, NEW t \in Threads,
           \/ UNCHANGED result
           \/ \E r : ~IsSnapshot(r) /\ result' = [result EXCEPT ![t] = r]
    PROVE  \A u \in Threads : IsSnapshot(result'[u]) =>
              IsSnapshot(result[u]) /\ result'[u] = result[u]
BY DEF TypeOK

\* Every step but a seal returns no snapshot.
LEMMA OnlySealsReturnSnapshots ==
    ASSUME TypeOK, [Next]_vars, ~\E t \in Threads : SnapshotSeal(t)
    PROVE  \A u \in Threads : IsSnapshot(result'[u]) =>
              IsSnapshot(result[u]) /\ result'[u] = result[u]
<1>1. CASE UNCHANGED <<layers, lock, pc, reg, result>>
  BY <1>1
<1>2. ~IsSnapshot(Outcome("too_large")) /\ ~IsSnapshot(Outcome("ok"))
        /\ ~IsSnapshot(Outcome("stale")) /\ ~IsSnapshot(Outcome("fresh"))
  BY DEF IsSnapshot, Outcome
<1>3. ASSUME NEW t \in Threads, BeginRead(t)
      PROVE  UNCHANGED result
  BY <1>3 DEF BeginRead, SnapshotCall, CompareCall, AssertFreshCall
<1>4. ASSUME NEW t \in Threads, NEW new \in Layer,
             NEW label \in {"assign_local", "assign_domain", "assign_root"},
             Prepare(t, new, label)
      PROVE  \/ UNCHANGED result
             \/ \E r : ~IsSnapshot(r) /\ result' = [result EXCEPT ![t] = r]
  BY <1>2, <1>4 DEF Prepare
<1>5. ASSUME NEW t \in Threads,
             \/ SnapshotEnter(t) \/ CopyDomain(t) \/ AssignLocal(t)
             \/ AssignDomain(t) \/ AssignRoot(t)
      PROVE  UNCHANGED result
  BY <1>5 DEF SnapshotEnter, CopyDomain, AssignLocal, AssignDomain, AssignRoot
<1>6. ASSUME NEW t \in Threads,
             \/ StampLocal(t) \/ AssignDomainDigest(t) \/ AssignRootDigest(t)
             \/ AssertFresh(t)
      PROVE  \E r : ~IsSnapshot(r) /\ result' = [result EXCEPT ![t] = r]
  BY <1>2, <1>6 DEF StampLocal, AssignDomainDigest, AssignRootDigest,
                    AssertFresh, Leave, Return
<1>7. QED
  BY <1>1, <1>3, <1>4, <1>5, <1>6, OtherResults, StepCases

\* A snapshot of coherent layers has integrity.
LEMMA IntegrityStep ==
    /\ TypeOK /\ LockInv /\ DigestInv /\ CopyInv
    /\ SnapshotIntegrity /\ [Next]_vars
    => SnapshotIntegrity'
<1> SUFFICES ASSUME TypeOK, LockInv, DigestInv, CopyInv, SnapshotIntegrity,
                    [Next]_vars
             PROVE  SnapshotIntegrity'
  OBVIOUS
<1>1. CASE ~\E t \in Threads : SnapshotSeal(t)
  BY <1>1, OnlySealsReturnSnapshots DEF SnapshotIntegrity
<1>2. ASSUME NEW t \in Threads, SnapshotSeal(t) PROVE SnapshotIntegrity'
  <2>1. PICK r : /\ Leave(t, r)
                 /\ IsSnapshot(r) =>
                      r = Snapshot(root, domain, local, Digest(root),
                                   Digest(domain), reg[t].now, reg[t].stale)
    BY <1>2, SealResult
  <2>2. result' = [result EXCEPT ![t] = r]
    BY <2>1 DEF Leave, Return
  <2>3. QED
    BY <2>1, <2>2 DEF SnapshotIntegrity, TypeOK, Snapshot
<1>3. QED
  BY <1>1, <1>2

\* No step lets an oversize layer in, and no seal serves one.
LEMMA SizeStep ==
    /\ TypeOK /\ LockInv /\ DigestInv /\ CopyInv /\ PreparedInv
    /\ SizeLimitHolds /\ [Next]_vars
    => SizeLimitHolds'
<1> SUFFICES ASSUME TypeOK, LockInv, DigestInv, CopyInv, PreparedInv,
                    SizeLimitHolds, [Next]_vars
             PROVE  SizeLimitHolds'
  OBVIOUS
<1> DEFINE Served(r) == \A layer \in {"root", "domain", "local"} :
                            Fits(r.structured[layer])
<1>1. Fits(root') /\ Fits(domain') /\ (~Fits(local') => local' \in InitLocals)
  <2>1. CASE UNCHANGED <<root, domain, local>>
    BY <2>1 DEF SizeLimitHolds
  <2>2. ASSUME NEW t \in Threads,
               AssignLocal(t) \/ AssignDomain(t) \/ AssignRoot(t)
        PROVE  Fits(root') /\ Fits(domain')
                 /\ (~Fits(local') => local' \in InitLocals)
    BY <2>2 DEF AssignLocal, AssignDomain, AssignRoot, PreparedInv,
                SizeLimitHolds
  <2>3. QED
    BY <2>1, <2>2, StepCases
       DEF layers, BeginRead, SnapshotCall, CompareCall, AssertFreshCall,
           Prepare, SnapshotEnter, CopyDomain, SnapshotSeal, StampLocal,
           AssignDomainDigest, AssignRootDigest, AssertFresh
<1>2. \A u \in Threads : IsSnapshot(result'[u]) => Served(result'[u])
  <2>1. CASE ~\E t \in Threads : SnapshotSeal(t)
    BY <2>1, OnlySealsReturnSnapshots DEF SizeLimitHolds
  <2>2. ASSUME NEW t \in Threads, SnapshotSeal(t)
        PROVE  \A u \in Threads : IsSnapshot(result'[u]) => Served(result'[u])
    <3>1. PICK r : /\ Leave(t, r)
                   /\ IsSnapshot(r) =>
                        /\ Fits(local)
                        /\ r = Snapshot(root, domain, local, Digest(root),
                                        Digest(domain), reg[t].now, reg[t].stale)
      BY <2>2, SealResult
    <3>2. result' = [result EXCEPT ![t] = r]
      BY <3>1 DEF Leave, Return
    <3>3. IsSnapshot(r) => Served(r)
      BY <3>1 DEF SizeLimitHolds, Snapshot
    <3>4. QED
      BY <3>2, <3>3 DEF SizeLimitHolds, TypeOK
  <2>3. QED
    BY <2>1, <2>2
<1>3. QED
  BY <1>1, <1>2 DEF SizeLimitHolds

-----------------------------------------------------------------------------

\* The strengthened invariant holds before any call: caches are fresh, nobody is
\* inside, nothing has been returned.
LEMMA InitIInv == Init => IInv
<1> SUFFICES ASSUME Init PROVE IInv
  OBVIOUS
<1>1. TypeOK
  BY InitTypeOK
<1>2. LockInv /\ DigestInv /\ CopyInv /\ PreparedInv
  BY ManagerAssumption
     DEF Init, LockInv, DigestInv, CopyInv, PreparedInv, Critical
<1>3. \A t \in Threads : ~IsSnapshot(result[t])
  BY DEF Init, IsSnapshot, Outcome
<1>4. SnapshotIntegrity /\ SizeLimitHolds
  BY <1>3 DEF Init, SnapshotIntegrity, SizeLimitHolds
<1>5. QED
  BY <1>1, <1>2, <1>4 DEF IInv

\* Every step preserves the strengthened invariant.
LEMMA NextIInv == IInv /\ [Next]_vars => IInv'
BY NextTypeOK, LockStep, DigestStep, CopyStep, PreparedStep, IntegrityStep,
   SizeStep
   DEF IInv

\* The inductive invariant holds in every reachable state.
THEOREM Inductive == Spec => []IInv
BY InitIInv, NextIInv, PTL DEF Spec

\* Whatever the threads do, a returned snapshot's hashes commit to the layers
\* it carries and its merged view is the merge of those layers.
THEOREM SnapshotsHaveIntegrity == Spec => []SnapshotIntegrity
<1>1. IInv => SnapshotIntegrity
  BY DEF IInv
<1>2. QED
  BY Inductive, <1>1, PTL

\* No oversize layer is ever served, and only __init__ can bring one in.
THEOREM SizeLimitAlwaysHolds == Spec => []SizeLimitHolds
<1>1. IInv => SizeLimitHolds
  BY DEF IInv
<1>2. QED
  BY Inductive, <1>1, PTL

-----------------------------------------------------------------------------
(* The manager implements ContextStore: each call takes effect at one step. *)

\* What a write may leave in place of a layer.
Writable(base) == Inputs \cup {Merge(base, d) : d \in Inputs}

\* What a reading call still knows of the state it began in and of its request:
\* the snapshot it compares with stays its thread's last result, and while it
\* holds the lock its verdict on the age stays true.
ReadInv ==
    \A t \in Threads :
        /\ pc[t] \in {"snap_lock", "snap_domain", "snap_local"} =>
               /\ reg[t].op \in {"snapshot", "compare"}
               /\ reg[t].op = "compare" =>
                     IsSnapshot(result[t]) /\ reg[t].other = result[t].composite
        /\ pc[t] \in {"snap_domain", "snap_local"} =>
               reg[t].stale = IsStale(reg[t].now, lastUpdate)

\* What a writing call holds between its steps: a layer that fits and that the
\* layer it replaces, as its cached digest still names it, can turn into.
WriteInv ==
    \A t \in Threads :
        /\ pc[t] = "assign_local" => reg[t].old = local
        /\ pc[t] = "stamp" => local = reg[t].new /\ Fits(reg[t].new)
        /\ pc[t] \in {"assign_local", "stamp"} => reg[t].new \in Writable(reg[t].old)
        /\ pc[t] \in {"assign_domain", "digest_domain"} =>
               reg[t].new \in Writable(domainDigest.sha256)
        /\ pc[t] \in {"assign_root", "digest_root"} => reg[t].new \in Inputs

ClockInv == clock \in 0..MaxClock

RInv == ReadInv /\ WriteInv /\ ClockInv

\* The first step of a write: which layer it prepares, and for which variable.
LEMMA WriteCases ==
    ASSUME TypeOK, NEW t \in Threads, BeginWrite(t)
    PROVE  \E new \in Layer, label \in {"assign_local", "assign_domain", "assign_root"} :
              /\ Prepare(t, new, label)
              /\ label = "assign_local" => new \in Writable(local)
              /\ label = "assign_domain" => new \in Writable(domain)
              /\ label = "assign_root" => new \in Inputs
<1>1. PICK new \in Inputs : \/ UpdateLocal(t, new) \/ ReplaceLocal(t, new)
                           \/ UpdateDomain(t, new) \/ ReplaceDomain(t, new)
                           \/ UnsafeReplaceRoot(t, new)
  BY DEF BeginWrite
<1>2. /\ new \in Layer
      /\ Merge(local, new) \in Layer
      /\ Merge(domain, new) \in Layer
  BY ManagerAssumption, MergeType DEF TypeOK
<1>3. /\ new \in Writable(local) /\ Merge(local, new) \in Writable(local)
      /\ new \in Writable(domain) /\ Merge(domain, new) \in Writable(domain)
  BY DEF Writable
<1>4. CASE UpdateLocal(t, new) \/ ReplaceLocal(t, new)
  BY <1>2, <1>3, <1>4 DEF UpdateLocal, ReplaceLocal
<1>5. CASE UpdateDomain(t, new) \/ ReplaceDomain(t, new)
  BY <1>2, <1>3, <1>5 DEF UpdateDomain, ReplaceDomain
<1>6. CASE UnsafeReplaceRoot(t, new)
  BY <1>2, <1>6 DEF UnsafeReplaceRoot
<1>7. QED
  BY <1>1, <1>4, <1>5, <1>6

\* While the lock is free no cached digest is out of date.
LEMMA FreeCoherent ==
    ASSUME TypeOK, LockInv, DigestInv, Free
    PROVE  /\ \A t \in Threads : pc[t] \notin Critical
           /\ rootDigest.sha256 = root /\ domainDigest.sha256 = domain
<1>1. \A t \in Threads : pc[t] \notin Critical
  BY ManagerAssumption DEF LockInv, Free
<1>2. rootDigest = Digest(root) /\ domainDigest = Digest(domain)
  BY <1>1 DEF DigestInv, Critical
<1>3. QED
  BY <1>1, <1>2 DEF Digest

\* A reading call keeps what it knows: nobody else ends its thread's calls, and
\* nobody moves the time stamp while it holds the lock.
LEMMA ReadStep ==
    TypeOK /\ LockInv /\ ReadInv /\ [Next]_vars => ReadInv'
<1> SUFFICES ASSUME TypeOK, LockInv, ReadInv, [Next]_vars PROVE ReadInv'
  OBVIOUS
<1> USE DEF ReadInv, TypeOK, layers
<1>1. CASE UNCHANGED <<layers, lock, pc, reg, result>>
  BY <1>1
<1>2. ASSUME NEW t \in Threads, SnapshotCall(t) PROVE ReadInv'
  BY <1>2 DEF SnapshotCall, Goto, Regs
<1>3. ASSUME NEW t \in Threads, CompareCall(t) PROVE ReadInv'
  BY <1>3 DEF CompareCall, Goto, Regs
<1>4. ASSUME NEW t \in Threads, AssertFreshCall(t) PROVE ReadInv'
  BY <1>4 DEF AssertFreshCall, Goto, Regs
<1>5. ASSUME NEW t \in Threads, NEW new \in Layer,
             NEW label \in {"assign_local", "assign_domain", "assign_root"},
             Prepare(t, new, label)
      PROVE  ReadInv'
  BY <1>5 DEF Prepare, Goto, Regs
<1>6. ASSUME NEW t \in Threads, SnapshotEnter(t) PROVE ReadInv'
  BY <1>6 DEF SnapshotEnter, Goto, Regs
<1>7. ASSUME NEW t \in Threads, CopyDomain(t) PROVE ReadInv'
  BY <1>7 DEF CopyDomain, Goto, Regs
<1>8. ASSUME NEW t \in Threads, NEW r, Return(t, r), UNCHANGED lastUpdate
      PROVE  ReadInv'
  BY <1>8 DEF Return
<1>9. ASSUME NEW t \in Threads,
             AssignLocal(t) \/ AssignDomain(t) \/ AssignRoot(t)
      PROVE  ReadInv'
  BY <1>9 DEF AssignLocal, AssignDomain, AssignRoot, Goto
<1>10. ASSUME NEW t \in Threads, StampLocal(t) PROVE ReadInv'
  <2>1. \A u \in Threads \ {t} : pc[u] \notin {"snap_domain", "snap_local"}
    BY <1>10 DEF StampLocal, LockInv, Critical
  <2>2. QED
    BY <1>10, <2>1 DEF StampLocal, Leave, Return
<1>11. QED
  BY <1>1, <1>2, <1>3, <1>4, <1>5, <1>6, <1>7, <1>8, <1>9, <1>10, StepCases
     DEF BeginRead, SnapshotSeal, AssignDomainDigest, AssignRootDigest,
         AssertFresh, Leave

\* A writing call keeps what it holds: the other writers are outside the lock.
LEMMA WriteStep ==
    TypeOK /\ LockInv /\ DigestInv /\ PreparedInv /\ WriteInv /\ [Next]_vars
        => WriteInv'
<1> SUFFICES ASSUME TypeOK, LockInv, DigestInv, PreparedInv, WriteInv, [Next]_vars
             PROVE  WriteInv'
  OBVIOUS
<1> USE DEF WriteInv, TypeOK, layers
<1>1. CASE UNCHANGED <<layers, lock, pc, reg, result>>
  BY <1>1
<1>2. ASSUME NEW t \in Threads, BeginRead(t) PROVE WriteInv'
  BY <1>2 DEF BeginRead, SnapshotCall, CompareCall, AssertFreshCall, Goto
<1>3. ASSUME NEW t \in Threads, BeginWrite(t) PROVE WriteInv'
  <2>1. PICK new \in Layer, label \in {"assign_local", "assign_domain", "assign_root"} :
              /\ Prepare(t, new, label)
              /\ label = "assign_local" => new \in Writable(local)
              /\ label = "assign_domain" => new \in Writable(domain)
              /\ label = "assign_root" => new \in Inputs
    BY <1>3, WriteCases
  <2>2. domainDigest.sha256 = domain
    BY <2>1, FreeCoherent DEF Prepare
  <2>3. CASE Fits(new)
    <3>1. /\ pc' = [pc EXCEPT ![t] = label]
          /\ reg' = [reg EXCEPT ![t] = [@ EXCEPT !.new = new, !.old = local]]
          /\ UNCHANGED <<local, domainDigest>>
      BY <2>1, <2>3 DEF Prepare, Goto
    <3>2. /\ pc'[t] = label /\ reg'[t].new = new /\ reg'[t].old = local
          /\ \A u \in Threads \ {t} : pc'[u] = pc[u] /\ reg'[u] = reg[u]
      BY <3>1 DEF Regs
    <3>3. QED
      BY <2>1, <2>2, <3>1, <3>2
  <2>4. CASE ~Fits(new)
    BY <2>1, <2>4 DEF Prepare
  <2>5. QED
    BY <2>3, <2>4
<1>4. ASSUME NEW t \in Threads, SnapshotEnter(t) \/ CopyDomain(t)
      PROVE  WriteInv'
  BY <1>4 DEF SnapshotEnter, CopyDomain, Goto
<1>5. ASSUME NEW t \in Threads, NEW r, Return(t, r),
             UNCHANGED <<local, domainDigest>>
      PROVE  WriteInv'
  BY <1>5 DEF Return
<1>6. ASSUME NEW t \in Threads,
             AssignLocal(t) \/ AssignDomain(t) \/ AssignRoot(t)
                \/ AssignDomainDigest(t)
      PROVE  WriteInv'
  <2>1. \A u \in Threads \ {t} : pc[u] \notin Critical
    BY <1>6 DEF AssignLocal, AssignDomain, AssignRoot, AssignDomainDigest,
                LockInv, Critical
  <2>2. CASE AssignLocal(t)
    BY <2>1, <2>2 DEF AssignLocal, Goto, Critical, PreparedInv
  <2>3. CASE AssignDomain(t) \/ AssignRoot(t)
    BY <2>1, <2>3 DEF AssignDomain, AssignRoot, Goto, Critical
  <2>4. CASE AssignDomainDigest(t)
    BY <2>1, <2>4 DEF AssignDomainDigest, Leave, Return, Critical
  <2>5. QED
    BY <1>6, <2>2, <2>3, <2>4
<1>7. QED
  <2>1. CASE \E t \in Writers : BeginWrite(t)
    BY <1>3, <2>1 DEF Threads
  <2>2. CASE \E t \in Threads : Continue(t)
    BY <1>4, <1>5, <1>6, <2>2
       DEF Continue, SnapshotSeal, StampLocal, AssignRootDigest, AssertFresh, Leave
  <2>3. CASE \E t \in Readers : BeginRead(t)
    BY <1>2, <2>3 DEF Threads
  <2>4. CASE Tick \/ StepBack \/ UNCHANGED vars
    BY <1>1, <2>4 DEF Tick, StepBack, vars
  <2>5. QED
    BY <2>1, <2>2, <2>3, <2>4 DEF Next

\* The clock stays within its bound.
LEMMA ClockStep == ClockInv /\ [Next]_vars => ClockInv'
<1> SUFFICES ASSUME ClockInv, [Next]_vars PROVE ClockInv'
  OBVIOUS
<1>1. CASE Tick \/ StepBack
  BY <1>1, ManagerAssumption DEF Tick, StepBack, ClockInv
<1>2. CASE UNCHANGED clock
  BY <1>2 DEF ClockInv
<1>3. ASSUME NEW t \in Threads, BeginRead(t) \/ BeginWrite(t) PROVE UNCHANGED clock
  <2>1. ASSUME NEW new, NEW label, Prepare(t, new, label) PROVE UNCHANGED clock
    BY <2>1 DEF Prepare
  <2>2. CASE BeginRead(t)
    BY <2>2 DEF BeginRead, SnapshotCall, CompareCall, AssertFreshCall
  <2>3. CASE BeginWrite(t)
    BY <2>1, <2>3 DEF BeginWrite, UpdateLocal, ReplaceLocal, UpdateDomain,
                      ReplaceDomain, UnsafeReplaceRoot
  <2>4. QED
    BY <1>3, <2>2, <2>3
<1>4. ASSUME NEW t \in Threads, Continue(t) PROVE UNCHANGED clock
  BY <1>4 DEF Continue, SnapshotEnter, CopyDomain, SnapshotSeal, AssignLocal,
         StampLocal, AssignDomain, AssignDomainDigest, AssignRoot,
         AssignRootDigest, AssertFresh
<1>5. QED
  BY <1>1, <1>2, <1>3, <1>4 DEF Next, vars, Threads

\* The invariant the refinement rests on is inductive.
THEOREM RefinementInvariant == Spec => [](IInv /\ RInv)
<1>1. Init => RInv
  BY ManagerAssumption DEF Init, RInv, ReadInv, WriteInv, ClockInv
<1>2. IInv /\ RInv /\ [Next]_vars => RInv'
  BY ReadStep, WriteStep, ClockStep DEF IInv, RInv
<1>3. QED
  BY InitIInv, NextIInv, <1>1, <1>2, PTL DEF Spec

-----------------------------------------------------------------------------

\* What callers see of the local layer.
LEMMA CommittedIs ==
    ASSUME LockInv
    PROVE  /\ \A t \in Threads : pc[t] = "stamp" => Committed = reg[t].old
           /\ (\A t \in Threads : pc[t] # "stamp") => Committed = local
BY DEF LockInv, Critical, Committed

\* ... and after a step.
LEMMA CommittedIsNext ==
    ASSUME LockInv'
    PROVE  /\ \A t \in Threads : pc'[t] = "stamp" => Committed' = reg'[t].old
           /\ (\A t \in Threads : pc'[t] # "stamp") => Committed' = local'
BY DEF LockInv, Critical, Committed

\* A step that leaves the layer and every thread at its stamp alone, and brings
\* nobody there, does not change what callers see of the local layer.
LEMMA CommittedKept ==
    ASSUME LockInv, LockInv', UNCHANGED local,
           \A t \in Threads : pc'[t] = "stamp" <=> pc[t] = "stamp",
           \A t \in Threads : pc[t] = "stamp" => reg'[t] = reg[t]
    PROVE  Committed' = Committed
<1>1. CASE \A t \in Threads : pc[t] # "stamp"
  BY <1>1, CommittedIs, CommittedIsNext
<1>2. ASSUME NEW t \in Threads, pc[t] = "stamp" PROVE Committed' = Committed
  BY <1>2, CommittedIs, CommittedIsNext
<1>3. QED
  BY <1>1, <1>2

\* What the store sees of the clock readings when only one thread moves.
Alone(t) == \A u \in Threads \ {t} : pc'[u] = pc[u] /\ reg'[u] = reg[u]

LEMMA AskedMoves ==
    ASSUME NEW t \in Threads, Alone(t)
    PROVE  Asked' = [Asked EXCEPT ![t] = IF pc'[t] \in Reading
                                         THEN reg'[t].now ELSE -1]
BY DEF Alone, Asked

\* The manager starts as the store does.
LEMMA InitRefines == Init => Store!Init
<1> SUFFICES ASSUME Init PROVE Store!Init
  OBVIOUS
<1>1. Committed = local
  BY DEF Init, Committed
<1>2. Asked = [t \in Threads |-> -1]
  BY DEF Init, Asked, Reading
<1>3. rootDigest.sha256 = root /\ domainDigest.sha256 = domain
  BY DEF Init, Digest
<1>4. QED
  BY <1>1, <1>2, <1>3 DEF Init, Outcome, Fits, Store!Init, Store!NotAsked, Store!Outcome,
         Store!Fits

\* The helpers the two modules share mean the same in both.
LEMMA SameHelpers ==
    /\ \A l : Store!Fits(l) <=> Fits(l)
    /\ \A b, d : Store!Merge(b, d) = Merge(b, d)
    /\ \A r, d, l : Store!MergeLayers(r, d, l) = MergeLayers(r, d, l)
    /\ \A l : Store!Digest(l) = Digest(l)
    /\ \A r, d, l : Store!Composite(r, d, l) = Composite(r, d, l)
    /\ \A r : Store!IsSnapshot(r) <=> IsSnapshot(r)
    /\ \A k : Store!Outcome(k) = Outcome(k)
    /\ \A now : Store!IsStale(now) <=> IsStale(now, lastUpdate)
    /\ Store!NotAsked = -1
BY DEF Store!Fits, Fits, Store!Merge, Merge, Store!MergeLayers, MergeLayers,
       Store!Digest, Digest, Store!Composite, Composite, Store!IsSnapshot,
       IsSnapshot, Store!Outcome, Outcome, Store!IsStale, IsStale, Store!NotAsked

\* A step that leaves everything a caller can see alone is a stutter.
LEMMA Stutter ==
    ASSUME NEW t \in Threads, Alone(t),
           UNCHANGED <<rootDigest, domainDigest, lastUpdate, clock, result>>,
           pc[t] \in Reading <=> pc'[t] \in Reading,
           pc[t] \in Reading => reg'[t].now = reg[t].now,
           Committed' = Committed
    PROVE  UNCHANGED Store!vars
<1>1. Asked' = Asked
  BY DEF Alone, Asked
<1>2. QED
  BY <1>1 DEF Store!vars

\* A reading call begins: Ask.
LEMMA AskRefines ==
    ASSUME TypeOK, LockInv, LockInv', NEW t \in Threads, BeginRead(t)
    PROVE  Store!Ask(t)
<1>1. /\ Alone(t) /\ pc[t] = "idle" /\ pc'[t] \in {"snap_lock", "age"}
      /\ reg'[t].now = clock
      /\ UNCHANGED <<layers, lock, clock, result>>
  <2>1. CASE SnapshotCall(t)
    BY <2>1 DEF SnapshotCall, Goto, TypeOK, Regs, Alone
  <2>2. CASE CompareCall(t)
    BY <2>2 DEF CompareCall, Goto, TypeOK, Regs, Alone
  <2>3. CASE AssertFreshCall(t)
    BY <2>3 DEF AssertFreshCall, Goto, TypeOK, Regs, Alone
  <2>4. QED
    BY <2>1, <2>2, <2>3 DEF BeginRead
<1>2. Asked' = [Asked EXCEPT ![t] = clock]
  BY <1>1, AskedMoves DEF Reading
<1>3. Committed' = Committed
  BY <1>1, CommittedKept DEF layers, Alone
<1>4. Asked[t] = -1
  BY <1>1 DEF Asked, Reading
<1>5. QED
  BY <1>1, <1>2, <1>3, <1>4, SameHelpers DEF Store!Ask, layers

\* Nothing a thread holds in reg is a reading of NotAsked.
LEMMA AskedReading ==
    ASSUME TypeOK, NEW t \in Threads, pc[t] \in Reading
    PROVE  Asked[t] = reg[t].now /\ Asked[t] # Store!NotAsked
BY SameHelpers DEF Asked, TypeOK, Regs

\* A call that ends with a result leaves the store without its reading.
LEMMA AnswerRefines ==
    ASSUME TypeOK, LockInv, LockInv', NEW t \in Threads, NEW r,
           pc[t] \in Reading, Return(t, r), UNCHANGED <<layers, clock>>
    PROVE  Store!Answer(t, r)
<1>0. Alone(t) /\ pc'[t] = "idle"
  BY DEF Alone, Return, TypeOK
<1>1. Asked' = [Asked EXCEPT ![t] = -1]
  BY <1>0, AskedMoves DEF Reading
<1>2. Committed' = Committed
  BY <1>0, CommittedKept DEF Alone, Reading, layers
<1>3. Asked[t] # Store!NotAsked
  BY AskedReading
<1>4. QED
  BY <1>1, <1>2, <1>3, SameHelpers DEF Store!Answer, Store!Respond, Return, layers

\* The end of snapshot() and compare_hashes(): the store answers from the layers
\* it holds, although two digests come from a cache.
LEMMA SealRefines ==
    ASSUME IInv, RInv, LockInv', NEW t \in Threads, SnapshotSeal(t)
    PROVE  Store!TakeSnapshot(t) \/ Store!CompareHashes(t) \/ Store!LocalTooLarge(t)
<1> DEFINE snap == Snapshot(root, domain, local, Digest(root), Digest(domain),
                            reg[t].now, reg[t].stale)
<1>1. /\ reg[t].root = root /\ rootDigest = Digest(root)
      /\ reg[t].domain = domain /\ domainDigest = Digest(domain)
  BY SealCoherent DEF IInv
<1>2. rootDigest.sha256 = root /\ domainDigest.sha256 = domain
  BY <1>1 DEF Digest
<1>3. pc[t] = "snap_local" /\ UNCHANGED <<layers, clock>>
  BY DEF SnapshotSeal
<1>4. Committed = local
  BY <1>3, CommittedIs DEF IInv, LockInv, Critical
<1>5. Asked[t] = reg[t].now
  BY <1>3, AskedReading DEF IInv, Reading
<1>6. ASSUME NEW r, Leave(t, r) PROVE Store!Answer(t, r)
  BY <1>3, <1>6, AnswerRefines DEF IInv, Leave, Reading
<1>7. CASE ~Fits(local) /\ Leave(t, Outcome("too_large"))
  BY <1>4, <1>6, <1>7, SameHelpers DEF Store!LocalTooLarge
<1>8. CASE Fits(local) /\ Leave(t, snap)
  <2>1. reg[t].stale <=> Store!IsStale(Asked[t])
    BY <1>3, <1>5, SameHelpers DEF RInv, ReadInv
  <2>2. reg[t].stale \in BOOLEAN /\ Store!IsStale(Asked[t]) \in BOOLEAN
    BY DEF IInv, TypeOK, Regs, Store!IsStale
  <2>3. reg[t].stale = Store!IsStale(Asked[t])
    BY <2>1, <2>2
  <2>4. snap = Store!View(Asked[t])
    BY <1>2, <1>4, <1>5, <2>3, SameHelpers DEF Snapshot, Store!View
  <2>5. QED
    BY <1>4, <1>6, <1>8, <2>4, SameHelpers DEF Store!TakeSnapshot
<1>9. CASE /\ Fits(local) /\ reg[t].op = "compare"
           /\ Leave(t, Outcome(IF snap.composite = reg[t].other
                               THEN "equal" ELSE "different"))
  <2> DEFINE c == result[t].structured
             now == [root |-> root, domain |-> domain, local |-> local]
  <2>1. IsSnapshot(result[t]) /\ reg[t].other = result[t].composite
    BY <1>3, <1>9 DEF RInv, ReadInv
  <2>2. result[t].composite =
            Composite(Digest(c.root), Digest(c.domain), Digest(c.local))
    BY <2>1 DEF IInv, SnapshotIntegrity
  <2>3. snap.composite = Composite(Digest(root), Digest(domain), Digest(local))
    BY DEF Snapshot
  <2>4. c \in [root : Layer, domain : Layer, local : Layer]
    BY <2>1 DEF IInv, TypeOK, IsSnapshot, Snapshots, Outcomes
  <2>5. snap.composite = reg[t].other <=> c = now
    <3>1. snap.composite = reg[t].other
            <=> root = c.root /\ domain = c.domain /\ local = c.local
      BY <2>1, <2>2, <2>3 DEF Composite, Digest
    <3>2. c = now <=> root = c.root /\ domain = c.domain /\ local = c.local
      BY <2>4
    <3>3. QED
      BY <3>1, <3>2
  <2>6. Store!Answer(t, Outcome(IF c = now THEN "equal" ELSE "different"))
    BY <1>6, <1>9, <2>5
  <2>7. QED
    BY <1>2, <1>4, <1>9, <2>1, <2>6, SameHelpers DEF Store!CompareHashes
<1>10. QED
  BY <1>1, <1>7, <1>8, <1>9 DEF SnapshotSeal

\* assert_fresh() answers from the time stamp it finds.
LEMMA AssertFreshRefines ==
    ASSUME TypeOK, LockInv, LockInv', NEW t \in Threads, AssertFresh(t)
    PROVE  Store!AssertFresh(t)
<1>1. Asked[t] = reg[t].now
  BY AskedReading DEF AssertFresh, Reading
<1>2. Store!Answer(t, Outcome(IF IsStale(reg[t].now, lastUpdate)
                              THEN "stale" ELSE "fresh"))
  BY AnswerRefines DEF AssertFresh, Reading
<1>3. Store!IsStale(Asked[t]) <=> IsStale(reg[t].now, lastUpdate)
  BY <1>1, SameHelpers
<1>4. QED
  BY <1>2, <1>3, SameHelpers DEF Store!AssertFresh

\* A write takes effect with its last assignment; the other writers are outside.
LEMMA WriteRefines ==
    ASSUME IInv, RInv, LockInv', NEW t \in Threads,
           StampLocal(t) \/ AssignDomainDigest(t) \/ AssignRootDigest(t)
    PROVE  Store!WriteLocal(t) \/ Store!WriteDomain(t) \/ Store!WriteRoot(t)
<1> USE DEF IInv, RInv
<1>1. /\ pc[t] \in {"stamp", "digest_domain", "digest_root"}
      /\ Return(t, Outcome("ok")) /\ UNCHANGED clock
  BY DEF StampLocal, AssignDomainDigest, AssignRootDigest, Leave
<1>2. \A u \in Threads \ {t} : pc[u] \notin Critical
  BY <1>1 DEF LockInv, Critical
<1>3. Alone(t) /\ pc'[t] = "idle"
  BY <1>1 DEF Alone, Return, TypeOK
<1>4. Asked' = Asked
  BY <1>1, <1>3 DEF Asked, Alone, Reading
<1>5. Committed' = local'
  BY <1>2, <1>3, CommittedIsNext DEF Alone, Critical
<1>6. Store!Respond(t, Outcome("ok"))
  BY <1>1 DEF Return, Store!Respond
<1>7. CASE StampLocal(t)
  <2>1. Committed = reg[t].old
    BY <1>7, CommittedIs DEF StampLocal
  <2>2. local = reg[t].new /\ Fits(reg[t].new) /\ reg[t].new \in Writable(reg[t].old)
    BY <1>7 DEF StampLocal, WriteInv
  <2>3. /\ local' = local /\ lastUpdate' = clock
        /\ UNCHANGED <<rootDigest, domainDigest, clock>>
    BY <1>7 DEF StampLocal
  <2>4. Store!WriteLocal(t)
    BY <1>4, <1>5, <1>6, <2>1, <2>2, <2>3, SameHelpers DEF Store!WriteLocal, Writable
  <2>5. QED
    BY <2>4
<1>8. CASE AssignDomainDigest(t)
  <2>1. Committed' = Committed
    BY <1>2, <1>5, <1>8, CommittedIs DEF AssignDomainDigest, Critical
  <2>2. Fits(reg[t].new) /\ reg[t].new \in Writable(domainDigest.sha256)
    BY <1>8 DEF AssignDomainDigest, WriteInv, PreparedInv
  <2>3. /\ domainDigest'.sha256 = reg[t].new
        /\ UNCHANGED <<rootDigest, lastUpdate, clock>>
    BY <1>8 DEF AssignDomainDigest, Digest
  <2>4. Store!WriteDomain(t)
    BY <1>4, <1>6, <2>1, <2>2, <2>3, SameHelpers DEF Store!WriteDomain, Writable
  <2>5. QED
    BY <2>4
<1>9. CASE AssignRootDigest(t)
  <2>1. Committed' = Committed
    BY <1>2, <1>5, <1>9, CommittedIs DEF AssignRootDigest, Critical
  <2>2. Fits(reg[t].new) /\ reg[t].new \in Inputs
    BY <1>9 DEF AssignRootDigest, WriteInv, PreparedInv
  <2>3. /\ rootDigest'.sha256 = reg[t].new
        /\ UNCHANGED <<domainDigest, lastUpdate, clock>>
    BY <1>9 DEF AssignRootDigest, Digest
  <2>4. Store!WriteRoot(t)
    BY <1>4, <1>6, <2>1, <2>2, <2>3, SameHelpers DEF Store!WriteRoot
  <2>5. QED
    BY <2>4
<1>10. QED
  BY <1>7, <1>8, <1>9

\* The first step of a write: refused with nothing changed, or invisible.
LEMMA PrepareRefines ==
    ASSUME IInv, RInv, LockInv', NEW t \in Threads, BeginWrite(t)
    PROVE  Store!WriteRefused(t) \/ UNCHANGED Store!vars
<1> USE DEF IInv, RInv
<1>1. PICK new \in Layer, label \in {"assign_local", "assign_domain", "assign_root"} :
              /\ Prepare(t, new, label)
              /\ label = "assign_local" => new \in Writable(local)
              /\ label = "assign_domain" => new \in Writable(domain)
              /\ label = "assign_root" => new \in Inputs
  BY WriteCases
<1>2. pc[t] = "idle" /\ Free /\ UNCHANGED <<layers, clock>>
  BY <1>1 DEF Prepare
<1>3. /\ \A u \in Threads : pc[u] \notin Critical
      /\ domainDigest.sha256 = domain
  BY <1>2, FreeCoherent
<1>4. Committed = local
  BY <1>3, CommittedIs DEF Critical
<1>5. CASE Fits(new)
  <2>1. Alone(t) /\ pc'[t] = label /\ UNCHANGED result
    BY <1>1, <1>5 DEF Prepare, Goto, Alone, TypeOK
  <2>2. Committed' = local'
    BY <1>3, <2>1, CommittedIsNext DEF Alone, Critical
  <2>3. Committed' = Committed
    BY <1>2, <1>4, <2>2 DEF layers
  <2>4. UNCHANGED Store!vars
    BY <1>2, <2>1, <2>3, Stutter DEF layers, Reading
  <2>5. QED
    BY <2>4
<1>6. CASE ~Fits(new)
  <2>1. /\ UNCHANGED <<pc, reg>>
        /\ result' = [result EXCEPT ![t] = Outcome("too_large")]
    BY <1>1, <1>6 DEF Prepare
  <2>2. Committed' = Committed /\ Asked' = Asked
    BY <1>2, <2>1 DEF Committed, Asked, layers
  <2>3. new \in Inputs \cup {Store!Merge(b, d) :
                              b \in {Committed, domainDigest.sha256}, d \in Inputs}
    BY <1>1, <1>3, <1>4, SameHelpers DEF Writable
  <2>4. ~Store!Fits(new) /\ Store!Respond(t, Store!Outcome("too_large"))
    BY <1>6, <2>1, SameHelpers DEF Store!Respond
  <2>5. Store!WriteRefused(t)
    BY <1>2, <2>2, <2>3, <2>4 DEF Store!WriteRefused, layers
  <2>6. QED
    BY <2>5
<1>7. QED
  BY <1>5, <1>6

\* The steps in between are invisible.
LEMMA SilentSteps ==
    ASSUME IInv, RInv, LockInv', NEW t \in Threads,
           \/ SnapshotEnter(t) \/ CopyDomain(t) \/ AssignLocal(t)
           \/ AssignDomain(t) \/ AssignRoot(t)
    PROVE  UNCHANGED Store!vars
<1>0. TypeOK /\ LockInv /\ WriteInv
  BY DEF IInv, RInv
<1>1. CASE SnapshotEnter(t) \/ CopyDomain(t)
  <2>1. /\ Alone(t) /\ pc[t] \in {"snap_lock", "snap_domain"}
        /\ pc'[t] \in {"snap_domain", "snap_local"}
        /\ reg'[t].now = reg[t].now
        /\ UNCHANGED <<layers, clock, result>>
    <3>1. CASE SnapshotEnter(t)
      BY <3>1 DEF SnapshotEnter, Goto, Alone, IInv, TypeOK, Regs
    <3>2. CASE CopyDomain(t)
      BY <3>2 DEF CopyDomain, Goto, Alone, IInv, TypeOK, Regs
    <3>3. QED
      BY <1>1, <3>1, <3>2
  <2>2. Committed' = Committed
    BY <1>0, <2>1, CommittedKept DEF Alone, layers
  <2>3. QED
    BY <2>1, <2>2, Stutter DEF Reading, layers
<1>2. CASE AssignDomain(t) \/ AssignRoot(t)
  <2>1. /\ Alone(t) /\ pc[t] \in {"assign_domain", "assign_root"}
        /\ pc'[t] \in {"digest_domain", "digest_root"}
        /\ UNCHANGED <<rootDigest, domainDigest, local, lastUpdate, clock, result>>
    BY <1>0, <1>2 DEF TypeOK, AssignDomain, AssignRoot, Goto, Alone
  <2>2. Committed' = Committed
    BY <1>0, <2>1, CommittedKept DEF Alone
  <2>3. QED
    BY <2>1, <2>2, Stutter DEF Reading
<1>3. CASE AssignLocal(t)
  <2>1. /\ Alone(t) /\ pc[t] = "assign_local" /\ pc'[t] = "stamp"
        /\ reg' = reg
        /\ UNCHANGED <<rootDigest, domainDigest, lastUpdate, clock, result>>
    BY <1>0, <1>3 DEF TypeOK, AssignLocal, Goto, Alone
  <2>2. Committed = local
    BY <1>0, <2>1, CommittedIs DEF LockInv, Critical
  <2>3. Committed' = reg[t].old
    BY <2>1, CommittedIsNext
  <2>4. Committed' = Committed
    BY <1>0, <2>1, <2>2, <2>3 DEF WriteInv
  <2>5. QED
    BY <2>1, <2>4, Stutter DEF Reading
<1>4. QED
  BY <1>1, <1>2, <1>3

\* Every step of the manager is a step of the store or a stutter of it.
LEMMA NextRefines ==
    IInv /\ IInv' /\ RInv /\ RInv' /\ [Next]_vars => [Store!Next]_(Store!vars)
<1> SUFFICES ASSUME IInv, IInv', RInv, RInv', [Next]_vars
             PROVE  [Store!Next]_(Store!vars)
  OBVIOUS
<1>0. TypeOK /\ LockInv /\ LockInv'
  BY DEF IInv
<1>1. CASE Tick \/ StepBack
  <2>1. Committed' = Committed /\ Asked' = Asked
    BY <1>1 DEF Tick, StepBack, Committed, Asked, layers
  <2>2. Store!ClockMoves
    BY <1>1, <2>1 DEF Tick, StepBack, layers, Store!ClockMoves, RInv, ClockInv
  <2>3. QED
    BY <2>2 DEF Store!Next
<1>2. ASSUME NEW t \in Threads, BeginRead(t) PROVE Store!Ask(t)
  BY <1>0, <1>2, AskRefines
<1>3. ASSUME NEW t \in Threads, BeginWrite(t)
      PROVE  Store!WriteRefused(t) \/ UNCHANGED Store!vars
  BY <1>0, <1>3, PrepareRefines
<1>4. ASSUME NEW t \in Threads, Continue(t)
      PROVE  \/ Store!TakeSnapshot(t) \/ Store!CompareHashes(t)
             \/ Store!LocalTooLarge(t) \/ Store!AssertFresh(t)
             \/ Store!WriteLocal(t) \/ Store!WriteDomain(t) \/ Store!WriteRoot(t)
             \/ UNCHANGED Store!vars
  BY <1>0, <1>4, SealRefines, AssertFreshRefines, WriteRefines, SilentSteps
     DEF Continue
<1>5. CASE UNCHANGED vars
  BY <1>5 DEF vars, layers, Store!vars, Committed, Asked
<1>6. QED
  <2>1. CASE \E t \in Readers : BeginRead(t)
    BY <1>2, <2>1 DEF Threads, Store!Next
  <2>2. CASE \E t \in Writers : BeginWrite(t)
    BY <1>3, <2>2 DEF Threads, Store!Next
  <2>3. CASE \E t \in Threads : Continue(t)
    BY <1>4, <2>3 DEF Store!Next
  <2>4. QED
    BY <1>1, <1>5, <2>1, <2>2, <2>3 DEF Next

\* The calls are linearizable: whatever the interleaving, the results the callers
\* get are those of a store whose operations are atomic.
THEOREM CallsAreLinearizable == Spec => Linearizable
BY InitRefines, NextRefines, RefinementInvariant, PTL
   DEF Spec, Linearizable, Store!Spec

=============================================================================
