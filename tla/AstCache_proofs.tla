--------------------------- MODULE AstCache_proofs ---------------------------
(***************************************************************************)
(* Proofs about AstCache, for any threads, any chains and any size of the  *)
(* cache.  What depends on every parse being under the parser's lock is    *)
(* proved for a process in which nobody calls parse_chain.                 *)
(***************************************************************************)
EXTENDS AstCache, SequenceTheorems, TLAPS

USE CacheAssumption, NoTreeAssumption

-----------------------------------------------------------------------------
(* Lemmas about sequences *)

\* The element at i moved to the end of a sequence (MoveToEnd, Use).
LEMMA MovedToEnd ==
    ASSUME NEW S, NEW s \in Seq(S), NEW i \in 1..Len(s)
    PROVE  LET m == Append(RemoveAt(s, i), s[i])
           IN  /\ m \in Seq(S) /\ Len(m) = Len(s)
               /\ \A j \in 1..Len(s) :
                    m[j] = IF j < i THEN s[j] ELSE IF j < Len(s) THEN s[j + 1] ELSE s[i]
<1> DEFINE front == SubSeq(s, 1, i - 1)
           back == SubSeq(s, i + 1, Len(s))
           r == front \o back
           m == Append(r, s[i])
<1>1. front \in Seq(S) /\ Len(front) = i - 1 /\ \A j \in 1..(i - 1) : front[j] = s[j]
    BY SubSeqProperties
<1>2. /\ back \in Seq(S) /\ Len(back) = Len(s) - i
      /\ \A j \in 1..(Len(s) - i) : back[j] = s[i + j]
    BY SubSeqProperties
<1>3. Len(s) \in Nat /\ i \in Nat
    OBVIOUS
<1> HIDE DEF front, back
<1>4. /\ r \in Seq(S) /\ Len(r) = Len(s) - 1
      /\ \A j \in 1..(Len(s) - 1) : r[j] = IF j < i THEN s[j] ELSE s[j + 1]
    <2>1. r \in Seq(S) /\ Len(r) = Len(s) - 1
        <3>1. r \in Seq(S) /\ Len(r) = Len(front) + Len(back)
            BY <1>1, <1>2, ConcatProperties
        <3> QED BY <1>1, <1>2, <1>3, <3>1
    <2>2. ASSUME NEW j \in 1..(Len(s) - 1)
          PROVE  r[j] = IF j < i THEN s[j] ELSE s[j + 1]
        <3>1. CASE j < i
            BY <1>1, <1>2, <1>3, <3>1, ConcatProperties
        <3>2. CASE ~(j < i)
            <4>1. r[j] = back[j - Len(front)]
                BY <1>1, <1>2, <1>3, <3>2, ConcatProperties
            <4>2. j - Len(front) \in 1..(Len(s) - i) /\ i + (j - Len(front)) = j + 1
                BY <1>1, <1>3, <3>2
            <4> QED BY <1>2, <3>2, <4>1, <4>2
        <3> QED BY <3>1, <3>2
    <2> QED BY <2>1, <2>2
<1> HIDE DEF r
<1>5. s[i] \in S
    BY <1>3, ElementOfSeq
<1>6. m = Append(RemoveAt(s, i), s[i])
    BY DEF m, r, front, back, RemoveAt
<1>7. /\ m \in Seq(S) /\ Len(m) = Len(s) /\ m[Len(s)] = s[i]
      /\ \A j \in 1..(Len(s) - 1) : m[j] = r[j]
    BY <1>3, <1>4, <1>5, AppendProperties
<1> HIDE DEF m
<1>8. ASSUME NEW j \in 1..Len(s)
      PROVE  m[j] = IF j < i THEN s[j] ELSE IF j < Len(s) THEN s[j + 1] ELSE s[i]
    <2>1. CASE j = Len(s)
        BY <1>3, <1>7, <2>1
    <2>2. CASE j < Len(s)
        BY <1>3, <1>4, <1>7, <2>2
    <2> QED BY <1>3, <2>1, <2>2
<1> QED BY <1>6, <1>7, <1>8

\* The oldest of a full cache dropped, and a new one added (Insert).
LEMMA TailAppended ==
    ASSUME NEW S, NEW s \in Seq(S), s # <<>>, NEW e \in S
    PROVE  LET a == Append(Tail(s), e)
           IN  /\ a \in Seq(S) /\ Len(a) = Len(s)
               /\ \A j \in 1..Len(s) : a[j] = IF j < Len(s) THEN s[j + 1] ELSE e
<1> DEFINE r == Tail(s)
           a == Append(r, e)
<1>1. Len(s) \in Nat
    OBVIOUS
<1>2. r \in Seq(S) /\ Len(r) = Len(s) - 1 /\ \A j \in 1..Len(r) : r[j] = s[j + 1]
    BY HeadTailProperties
<1> HIDE DEF r
<1>3. /\ a \in Seq(S) /\ Len(a) = Len(r) + 1 /\ a[Len(r) + 1] = e
      /\ \A j \in 1..Len(r) : a[j] = r[j]
    BY <1>2, AppendProperties
<1>4. a = Append(Tail(s), e)
    BY DEF r
<1> HIDE DEF a
<1>5. ASSUME NEW j \in 1..Len(s) PROVE a[j] = IF j < Len(s) THEN s[j + 1] ELSE e
    <2>1. CASE j = Len(s)
        BY <1>1, <1>2, <1>3, <2>1
    <2>2. CASE j < Len(s)
        BY <1>1, <1>2, <1>3, <2>2
    <2> QED BY <1>1, <2>1, <2>2
<1>6. Len(a) = Len(s)
    BY <1>1, <1>2, <1>3
<1> QED BY <1>3, <1>4, <1>5, <1>6

\* What the last uses u become when c is used: n is where c was, or one past the
\* end, and v the last uses then (Use).
Uses(u, c, n, v) ==
    /\ n \in 1..(Len(u) + 1)
    /\ n <= Len(u) => u[n] = c
    /\ n > Len(u) => \A i \in 1..Len(u) : u[i] # c
    /\ Len(v) = IF n <= Len(u) THEN Len(u) ELSE Len(u) + 1
    /\ \A j \in 1..Len(v) :
         v[j] = IF j < n THEN u[j] ELSE IF j < Len(v) THEN u[j + 1] ELSE c

NoneTwice(u) == \A i, j \in 1..Len(u) : u[i] = u[j] => i = j

\* A use leaves no chain twice among the last uses.
LEMMA UsesKeepsNoneTwice ==
    ASSUME NEW S, NEW u \in Seq(S), NEW v \in Seq(S), NEW c, NEW n,
           NoneTwice(u), Uses(u, c, n, v)
    PROVE  NoneTwice(v)
<1>1. /\ Len(u) \in Nat /\ Len(v) \in Nat /\ n \in Nat
      /\ Len(v) = IF n <= Len(u) THEN Len(u) ELSE Len(u) + 1
      /\ 1 <= n /\ n <= Len(u) + 1
    BY DEF Uses
<1>2. \A i \in 1..Len(u) : u[i] = c => i = n
    <2>1. CASE n <= Len(u)
        BY <1>1, <2>1 DEF Uses, NoneTwice
    <2>2. CASE n > Len(u)
        BY <2>2 DEF Uses
    <2> QED BY <1>1, <2>1, <2>2
<1>3. ASSUME NEW i \in 1..Len(v), i < Len(v)
      PROVE  \E k \in 1..Len(u) :
               v[i] = u[k] /\ k # n /\ k = (IF i < n THEN i ELSE i + 1)
    <2>1. CASE i < n
        BY <1>1, <1>3, <2>1 DEF Uses
    <2>2. CASE ~(i < n)
        BY <1>1, <1>3, <2>2 DEF Uses
    <2> QED BY <2>1, <2>2
<1>4. ASSUME NEW i \in 1..Len(v), NEW j \in 1..Len(v), i < j
      PROVE  v[i] # v[j]
    <2>1. i < Len(v)
        BY <1>1, <1>4
    <2>2. PICK k \in 1..Len(u) :
            v[i] = u[k] /\ k # n /\ k = (IF i < n THEN i ELSE i + 1)
        BY <1>3, <2>1
    <2>3. CASE j = Len(v)
        <3>1. v[j] = c
            BY <1>1, <2>3 DEF Uses
        <3> QED BY <1>2, <2>2, <3>1
    <2>4. CASE j < Len(v)
        <3>1. PICK m \in 1..Len(u) :
                v[j] = u[m] /\ m # n /\ m = (IF j < n THEN j ELSE j + 1)
            BY <1>3, <2>4
        <3>2. k # m
            BY <1>1, <1>4, <2>2, <3>1
        <3>3. u[k] # u[m]
            BY <3>2 DEF NoneTwice
        <3> QED BY <2>2, <3>1, <3>3
    <2> QED BY <1>1, <2>3, <2>4
<1> QED BY <1>1, <1>4 DEF NoneTwice

\* The keys s of the cache are the end of the last uses u.
EndOf(s, u) ==
    /\ Len(s) <= Len(u)
    /\ \A i \in 1..Len(s) : s[i].key = u[Len(u) - Len(s) + i]

\* The entry at p is moved to the end of the cache.
LEMMA MovedIsRecent ==
    ASSUME NEW s \in Seq(Entry), NEW t \in Seq(Entry), NEW u \in Seq(Chains),
           NEW v \in Seq(Chains), NEW c, NEW n, NEW p \in 1..Len(s),
           s[p].key = c, NoneTwice(u), EndOf(s, u), Uses(u, c, n, v),
           Len(t) = Len(s),
           \A j \in 1..Len(s) :
             t[j] = IF j < p THEN s[j] ELSE IF j < Len(s) THEN s[j + 1] ELSE s[p]
    PROVE  EndOf(t, v)
<1> DEFINE k == Len(u) - Len(s) + p
<1>1. Len(s) \in Nat /\ Len(u) \in Nat /\ Len(v) \in Nat /\ Len(s) <= Len(u)
    BY DEF EndOf
<1>2. n \in 1..(Len(u) + 1)
    BY DEF Uses
<1>3. k \in 1..Len(u) /\ u[k] = c
    BY <1>1 DEF EndOf
<1>4. n = k
    <2>1. n <= Len(u)
        BY <1>1, <1>2, <1>3 DEF Uses
    <2>2. n \in 1..Len(u) /\ u[n] = c
        BY <1>1, <1>2, <2>1 DEF Uses
    <2> QED BY <1>3, <2>2 DEF NoneTwice
<1>5. Len(v) = Len(u)
    BY <1>1, <1>3, <1>4 DEF Uses
<1>6. \A j \in 1..Len(u) :
        v[j] = IF j < n THEN u[j] ELSE IF j < Len(u) THEN u[j + 1] ELSE c
    BY <1>5 DEF Uses
<1>7. \A i \in 1..Len(s) : s[i].key = u[Len(u) - Len(s) + i]
    BY DEF EndOf
<1>8. ASSUME NEW j \in 1..Len(s) PROVE t[j].key = v[Len(u) - Len(s) + j]
    <2> DEFINE w == Len(u) - Len(s) + j
    <2>1. w \in 1..Len(u) /\ (w < n <=> j < p) /\ (w < Len(u) <=> j < Len(s))
        BY <1>1, <1>4
    <2>2. CASE j < p
        BY <1>6, <1>7, <2>1, <2>2
    <2>3. CASE ~(j < p) /\ j < Len(s)
        <3>1. j + 1 \in 1..Len(s) /\ Len(u) - Len(s) + (j + 1) = w + 1
            BY <1>1, <2>3
        <3>2. t[j] = s[j + 1] /\ v[w] = u[w + 1]
            BY <1>6, <2>1, <2>3
        <3>3. s[j + 1].key = u[w + 1]
            BY <1>7, <3>1
        <3> QED BY <3>2, <3>3
    <2>4. CASE ~(j < p) /\ ~(j < Len(s))
        BY <1>6, <2>1, <2>4
    <2> QED BY <2>2, <2>3, <2>4
<1> QED BY <1>1, <1>5, <1>8 DEF EndOf

\* A new entry is added to the cache, and its oldest dropped if d is 1.
LEMMA AddedIsRecent ==
    ASSUME NEW s \in Seq(Entry), NEW t \in Seq(Entry), NEW u \in Seq(Chains),
           NEW v \in Seq(Chains), NEW e \in Entry, NEW n, NEW d \in {0, 1},
           EndOf(s, u), Uses(u, e.key, n, v),
           \A i \in 1..Len(s) : s[i].key # e.key,
           d = 1 => Len(s) > 0, Len(t) = Len(s) + 1 - d,
           \A j \in 1..Len(t) : t[j] = IF j < Len(t) THEN s[j + d] ELSE e
    PROVE  EndOf(t, v)
<1>1. Len(s) \in Nat /\ Len(u) \in Nat /\ Len(v) \in Nat /\ Len(s) <= Len(u)
    BY DEF EndOf
<1>2. n \in 1..(Len(u) + 1) /\ Len(v) = IF n <= Len(u) THEN Len(u) ELSE Len(u) + 1
    BY DEF Uses
<1>3. \A i \in 1..Len(s) : s[i].key = u[Len(u) - Len(s) + i]
    BY DEF EndOf
<1>4. n <= Len(u) => n <= Len(u) - Len(s)
    <2> SUFFICES ASSUME n <= Len(u), n > Len(u) - Len(s) PROVE FALSE
        BY <1>1, <1>2
    <2> DEFINE i == n - (Len(u) - Len(s))
    <2>1. i \in 1..Len(s) /\ Len(u) - Len(s) + i = n
        BY <1>1, <1>2
    <2>2. s[i].key = u[n]
        BY <1>3, <2>1
    <2>3. u[n] = e.key
        BY DEF Uses
    <2> HIDE DEF i
    <2> QED BY <2>1, <2>2, <2>3
<1>5. Len(t) \in Nat \ {0} /\ Len(t) <= Len(v)
    BY <1>1, <1>2, <1>4
<1>6. ASSUME NEW j \in 1..Len(t) PROVE t[j].key = v[Len(v) - Len(t) + j]
    <2> DEFINE w == Len(v) - Len(t) + j
    <2>1. w \in 1..Len(v) /\ (w < Len(v) <=> j < Len(t))
        BY <1>1, <1>5
    <2>2. v[w] = IF w < n THEN u[w] ELSE IF w < Len(v) THEN u[w + 1] ELSE e.key
        BY <2>1 DEF Uses
    <2>3. CASE j = Len(t)
        <3>1. w = Len(v)
            BY <1>1, <1>5, <2>3
        <3>2. ~(Len(v) < n)
            BY <1>1, <1>2
        <3>3. v[w] = e.key /\ t[j] = e
            BY <2>2, <2>3, <3>1, <3>2
        <3> QED BY <3>3
    <2>4. CASE j < Len(t)
        <3>1. j + d \in 1..Len(s) /\ t[j] = s[j + d]
            <4>1. Len(t) = Len(s) + 1 - d /\ d \in {0, 1} /\ j \in Nat /\ j >= 1
                BY <1>5
            <4>2. j + d \in 1..Len(s)
                BY <1>1, <2>4, <4>1
            <4>3. t[j] = IF j < Len(t) THEN s[j + d] ELSE e
                OBVIOUS
            <4> QED BY <2>4, <4>2, <4>3
        <3>2. t[j].key = u[Len(u) - Len(s) + (j + d)]
            BY <1>3, <3>1
        <3>3. CASE n <= Len(u)
            <4>1. ~(w < n) /\ w + 1 = Len(u) - Len(s) + (j + d)
                BY <1>1, <1>2, <1>4, <3>3
            <4>2. v[w] = u[w + 1]
                BY <2>1, <2>2, <2>4, <4>1
            <4> QED BY <3>2, <4>1, <4>2
        <3>4. CASE n > Len(u)
            <4>1. w < n /\ w = Len(u) - Len(s) + (j + d)
                BY <1>1, <1>2, <2>1, <2>4, <3>4
            <4>2. v[w] = u[w]
                BY <2>2, <4>1
            <4> QED BY <3>2, <4>1, <4>2
        <3> QED BY <1>1, <1>2, <3>3, <3>4
    <2> QED BY <1>5, <2>3, <2>4
<1> QED BY <1>5, <1>6 DEF EndOf

-----------------------------------------------------------------------------
(* The inductive invariant *)

\* Who is about to insert holds a tree.
Holding == \A t \in Threads : pc[t] = "insert" => tree[t] \in Tree

IInv == TypeOK /\ NoneTwice(used) /\ CacheIsRecent /\ Holding

LEMMA RecentIsEnd == TypeOK => (CacheIsRecent <=> EndOf(cache, used))
BY DEF TypeOK, CacheIsRecent, EndOf

\* The entry of a chain that is cached.
LEMMA PositionIsEntry ==
    ASSUME TypeOK, NEW c \in Keys
    PROVE  /\ Position(c) \in 1..Len(cache)
           /\ cache[Position(c)] = [key |-> c, tree |-> Cached(c)]
           /\ Cached(c) \in Tree /\ c \in Chains
<1>1. \E i \in DOMAIN cache : cache[i].key = c
    BY DEF Keys
<1>2. Position(c) \in DOMAIN cache /\ cache[Position(c)].key = c
    BY <1>1 DEF Position
<1>3. cache \in Seq(Entry) /\ DOMAIN cache = 1..Len(cache)
    BY DEF TypeOK
<1>4. cache[Position(c)] \in Entry
    BY <1>2, <1>3, ElementOfSeq
<1> QED BY <1>2, <1>3, <1>4 DEF Entry, Cached

\* The history of uses does what Uses says.
LEMMA UseIsUses ==
    ASSUME TypeOK, NEW c \in Chains, Use(c)
    PROVE  used' \in Seq(Chains) /\ \E n : Uses(used, c, n, used')
<1>1. used \in Seq(Chains) /\ Len(used) \in Nat /\ DOMAIN used = 1..Len(used)
    BY DEF TypeOK
<1>2. CASE c \in Range(used)
    <2> DEFINE n == CHOOSE i \in DOMAIN used : used[i] = c
    <2>1. n \in DOMAIN used /\ used[n] = c
        BY <1>2 DEF Range
    <2>2. used' = Append(RemoveAt(used, n), used[n])
        BY <1>2, <2>1 DEF Use
    <2> HIDE DEF n
    <2>3. n \in 1..Len(used)
        BY <1>1, <2>1
    <2>4. /\ used' \in Seq(Chains) /\ Len(used') = Len(used)
          /\ \A j \in 1..Len(used) :
               used'[j] = IF j < n THEN used[j]
                          ELSE IF j < Len(used) THEN used[j + 1] ELSE used[n]
        BY <1>1, <2>2, <2>3, MovedToEnd
    <2>5. n \in 1..(Len(used) + 1) /\ n <= Len(used) /\ ~(n > Len(used))
        BY <1>1, <2>3
    <2>6. Uses(used, c, n, used')
        BY <2>1, <2>4, <2>5 DEF Uses
    <2> QED BY <2>4, <2>6
<1>3. CASE c \notin Range(used)
    <2> DEFINE n == Len(used) + 1
    <2>1. used' = Append(used, c)
        BY <1>3 DEF Use
    <2>2. /\ used' \in Seq(Chains) /\ Len(used') = Len(used) + 1
          /\ used'[Len(used) + 1] = c
          /\ \A j \in 1..Len(used) : used'[j] = used[j]
        BY <1>1, <2>1, AppendProperties
    <2>3. n \in 1..(Len(used) + 1) /\ ~(n <= Len(used))
        BY <1>1
    <2>4. \A i \in 1..Len(used) : used[i] # c
        BY <1>1, <1>3 DEF Range
    <2>5. ASSUME NEW j \in 1..Len(used')
          PROVE  used'[j] = IF j < n THEN used[j]
                            ELSE IF j < Len(used') THEN used[j + 1] ELSE c
        BY <1>1, <2>2
    <2> HIDE DEF n
    <2>6. Uses(used, c, n, used')
        BY <2>2, <2>3, <2>4, <2>5 DEF Uses, n
    <2> QED BY <2>2, <2>6
<1> QED BY <1>2, <1>3

-----------------------------------------------------------------------------
(* The two ways the cache changes *)

Moves(c) == cache' = MoveToEnd(cache, Position(c)) /\ Use(c)

Adds(c, x) ==
    /\ cache' = Append(IF Len(cache) >= MaxSize THEN Tail(cache) ELSE cache,
                       [key |-> c, tree |-> x])
    /\ Use(c)

\* What holds of the cache and the uses after each.
Kept(c, x) ==
    /\ cache' \in Seq(Entry) /\ Len(cache') <= MaxSize /\ Len(cache') > 0
    /\ used' \in Seq(Chains) /\ NoneTwice(used') /\ EndOf(cache', used')
    /\ cache'[Len(cache')] = [key |-> c, tree |-> x]
    /\ \A j \in 1..Len(cache') :
         \/ \E i \in 1..Len(cache) : cache'[j] = cache[i]
         \/ cache'[j] = [key |-> c, tree |-> x]

\* A hit, or an insertion that finds the chain.
LEMMA MovingKeeps ==
    ASSUME IInv, NEW c \in Keys, Moves(c)
    PROVE  Kept(c, Cached(c))
<1> DEFINE p == Position(c)
           e == [key |-> c, tree |-> Cached(c)]
<1>1. p \in 1..Len(cache) /\ cache[p] = e /\ c \in Chains
    BY PositionIsEntry DEF IInv
<1>2. cache \in Seq(Entry) /\ used \in Seq(Chains) /\ Len(cache) <= MaxSize
    BY DEF IInv, TypeOK
<1>3. used' \in Seq(Chains) /\ \E n : Uses(used, c, n, used')
    BY <1>1, UseIsUses DEF IInv, Moves
<1>4. PICK n : Uses(used, c, n, used')
    BY <1>3
<1>5. cache' = Append(RemoveAt(cache, p), cache[p])
    BY DEF MoveToEnd, Moves
<1>6. cache[p].key = c
    BY <1>1
<1>7. p \in 1..Len(cache)
    BY <1>1
<1> HIDE DEF p
<1>8. /\ cache' \in Seq(Entry) /\ Len(cache') = Len(cache)
      /\ \A j \in 1..Len(cache) :
           cache'[j] = IF j < p THEN cache[j]
                       ELSE IF j < Len(cache) THEN cache[j + 1] ELSE cache[p]
    BY <1>2, <1>5, <1>7, MovedToEnd
<1>9. NoneTwice(used) /\ EndOf(cache, used)
    BY RecentIsEnd DEF IInv
<1>10. NoneTwice(used')
    BY <1>2, <1>3, <1>4, <1>9, UsesKeepsNoneTwice
<1>11. EndOf(cache', used')
    BY <1>2, <1>3, <1>4, <1>6, <1>7, <1>8, <1>9, MovedIsRecent
<1>12. Len(cache) \in Nat /\ Len(cache) > 0
    BY <1>2, <1>7
<1>13. cache'[Len(cache')] = cache[p]
    BY <1>7, <1>8, <1>12
<1>14. ASSUME NEW j \in 1..Len(cache') PROVE \E i \in 1..Len(cache) : cache'[j] = cache[i]
    <2>1. CASE j < p
        BY <1>8, <2>1
    <2>2. CASE ~(j < p) /\ j < Len(cache)
        <3>1. j + 1 \in 1..Len(cache)
            BY <1>8, <1>12, <2>2
        <3> QED BY <1>8, <2>2, <3>1
    <2>3. CASE ~(j < p) /\ ~(j < Len(cache))
        BY <1>7, <1>8, <2>3
    <2> QED BY <2>1, <2>2, <2>3
<1> HIDE DEF e
<1> QED BY <1>1, <1>2, <1>3, <1>8, <1>10, <1>11, <1>12, <1>13, <1>14 DEF Kept, e

\* An insertion of a chain that is not cached, into a cache that may be full.
LEMMA AddingKeeps ==
    ASSUME IInv, NEW c \in Chains, c \notin Keys, NEW x \in Tree, Adds(c, x)
    PROVE  Kept(c, x)
<1> DEFINE e == [key |-> c, tree |-> x]
<1>1. /\ cache \in Seq(Entry) /\ used \in Seq(Chains) /\ Len(cache) <= MaxSize
      /\ Len(cache) \in Nat /\ MaxSize \in Nat \ {0} /\ DOMAIN cache = 1..Len(cache)
    BY DEF IInv, TypeOK
<1>2. e \in Entry /\ e.key = c
    BY DEF Entry
<1>3. used' \in Seq(Chains) /\ \E n : Uses(used, c, n, used')
    BY UseIsUses DEF IInv, Adds
<1>4. PICK n : Uses(used, c, n, used')
    BY <1>3
<1>5. cache' = Append(IF Len(cache) >= MaxSize THEN Tail(cache) ELSE cache, e)
    BY DEF Adds
<1> HIDE DEF e
<1>6. \E d \in {0, 1} :
        /\ cache' \in Seq(Entry) /\ Len(cache') = Len(cache) + 1 - d
        /\ d = 1 => Len(cache) > 0
        /\ d = 0 => Len(cache) < MaxSize
        /\ \A j \in 1..Len(cache') :
             cache'[j] = IF j < Len(cache') THEN cache[j + d] ELSE e
    <2>1. CASE Len(cache) >= MaxSize
        <3>1. cache # <<>> /\ Len(cache) > 0
            BY <1>1, <2>1
        <3>2. cache' = Append(Tail(cache), e)
            BY <1>5, <2>1
        <3>3. /\ cache' \in Seq(Entry) /\ Len(cache') = Len(cache)
              /\ \A j \in 1..Len(cache) :
                   cache'[j] = IF j < Len(cache) THEN cache[j + 1] ELSE e
            BY <1>1, <1>2, <3>1, <3>2, TailAppended
        <3>4. Len(cache') = Len(cache) + 1 - 1
            BY <1>1, <3>3
        <3> QED BY <3>1, <3>3, <3>4
    <2>2. CASE ~(Len(cache) >= MaxSize)
        <3>1. cache' = Append(cache, e)
            BY <1>5, <2>2
        <3>2. /\ cache' \in Seq(Entry) /\ Len(cache') = Len(cache) + 1
              /\ cache'[Len(cache) + 1] = e
              /\ \A j \in 1..Len(cache) : cache'[j] = cache[j]
            BY <1>1, <1>2, <3>1, AppendProperties
        <3>3. ASSUME NEW j \in 1..Len(cache')
              PROVE  cache'[j] = IF j < Len(cache') THEN cache[j + 0] ELSE e
            <4>1. CASE j = Len(cache')
                BY <1>1, <3>2, <4>1
            <4>2. CASE j < Len(cache')
                <5>1. j \in 1..Len(cache) /\ j + 0 = j
                    BY <1>1, <3>2, <4>2
                <5> QED BY <3>2, <4>2, <5>1
            <4> QED BY <1>1, <3>2, <4>1, <4>2
        <3>4. Len(cache') = Len(cache) + 1 - 0 /\ Len(cache) < MaxSize
            BY <1>1, <2>2, <3>2
        <3> QED BY <3>2, <3>3, <3>4
    <2> QED BY <2>1, <2>2
<1>7. PICK d \in {0, 1} :
        /\ cache' \in Seq(Entry) /\ Len(cache') = Len(cache) + 1 - d
        /\ d = 1 => Len(cache) > 0
        /\ d = 0 => Len(cache) < MaxSize
        /\ \A j \in 1..Len(cache') :
             cache'[j] = IF j < Len(cache') THEN cache[j + d] ELSE e
    BY <1>6
<1>8. NoneTwice(used) /\ EndOf(cache, used)
    BY RecentIsEnd DEF IInv
<1>9. NoneTwice(used')
    BY <1>1, <1>3, <1>4, <1>8, UsesKeepsNoneTwice
<1>10. \A i \in 1..Len(cache) : cache[i].key # e.key
    BY <1>1, <1>2 DEF Keys
<1>11. EndOf(cache', used')
    BY <1>1, <1>2, <1>3, <1>4, <1>7, <1>8, <1>10, AddedIsRecent
<1>12. Len(cache') \in Nat /\ Len(cache') > 0 /\ Len(cache') <= MaxSize
    BY <1>1, <1>7
<1>13. cache'[Len(cache')] = e
    BY <1>7, <1>12
<1>14. ASSUME NEW j \in 1..Len(cache')
       PROVE  (\E i \in 1..Len(cache) : cache'[j] = cache[i]) \/ cache'[j] = e
    <2>1. CASE j = Len(cache')
        BY <1>13, <2>1
    <2>2. CASE j < Len(cache')
        <3>1. j + d \in 1..Len(cache)
            BY <1>1, <1>7, <2>2
        <3> QED BY <1>7, <2>2, <3>1
    <2> QED BY <1>12, <2>1, <2>2
<1> QED BY <1>3, <1>7, <1>9, <1>11, <1>12, <1>13, <1>14 DEF Kept, e

-----------------------------------------------------------------------------
(* Every step keeps the invariant *)

LEMMA InitIInv == Init => IInv
<1> SUFFICES ASSUME Init PROVE IInv
    OBVIOUS
<1>1. (CHOOSE c \in Chains : TRUE) \in Chains
    OBVIOUS
<1>2. cache = <<>> /\ used = <<>> /\ cache \in Seq(Entry) /\ used \in Seq(Chains)
    BY DEF Init
<1>3. Len(cache) = 0 /\ Len(used) = 0 /\ DOMAIN cache = {}
    BY <1>2
<1>4. NoneTwice(used) /\ CacheIsRecent
    <2>1. 1..Len(used) = {}
        BY <1>3
    <2>2. NoneTwice(used)
        BY <2>1 DEF NoneTwice
    <2>3. CacheIsRecent
        BY <1>3 DEF CacheIsRecent
    <2> QED BY <2>2, <2>3
<1>5. TypeOK
    <2>1. chain \in [Threads -> Chains]
        BY <1>1 DEF Init
    <2>2. Len(cache) <= MaxSize
        BY <1>3
    <2>3. /\ pc \in [Threads -> Labels] /\ tree \in [Threads -> Tree \cup {NoTree}]
          /\ created \in BOOLEAN /\ lock \in Threads \cup {Nobody}
          /\ met \subseteq Threads \X Chains
        BY DEF Init, Labels
    <2> QED BY <1>2, <2>1, <2>2, <2>3 DEF TypeOK
<1>6. Holding
    BY DEF Init, Holding
<1> QED BY <1>4, <1>5, <1>6 DEF IInv

\* The steps that leave the cache alone.
LEMMA ParsingKeepsIInv ==
    ASSUME IInv, NEW t \in Threads,
           \/ \E c \in Chains : Call(t, c)
           \/ GetParser(t) \/ Miss(t) \/ Acquire(t) \/ BeginParse(t)
           \/ EndParse(t) \/ ParseFails(t)
    PROVE  IInv'
<1> USE DEF IInv, TypeOK, Goto, Labels, Holding
<1>1. cache' = cache /\ used' = used => NoneTwice(used)' /\ CacheIsRecent'
    BY DEF NoneTwice, CacheIsRecent
<1>2. ASSUME NEW c \in Chains, Call(t, c) PROVE IInv'
    BY <1>1, <1>2 DEF Call
<1>3. CASE GetParser(t)
    BY <1>1, <1>3 DEF GetParser
<1>4. CASE Miss(t)
    BY <1>1, <1>4 DEF Miss
<1>5. CASE Acquire(t)
    BY <1>1, <1>5 DEF Acquire
<1>6. CASE BeginParse(t)
    BY <1>1, <1>6 DEF BeginParse
<1>7. CASE EndParse(t)
    <2>1. PICK text \in Texts(t) \ (Unparsable \cup {NoTree}) :
            tree' = [tree EXCEPT ![t] = [of |-> text, by |-> t]]
        BY <1>7 DEF EndParse
    <2>2. text \in Chains
        BY <2>1 DEF Texts
    <2>3. [of |-> text, by |-> t] \in Tree
        BY <2>2 DEF Tree
    <2>4. lock' \in Threads \cup {Nobody}
        BY <1>7 DEF EndParse, Unlock
    <2> QED BY <1>1, <1>7, <2>1, <2>3, <2>4 DEF EndParse
<1>8. CASE ParseFails(t)
    BY <1>1, <1>8 DEF ParseFails, Unlock, Return
<1> QED BY <1>2, <1>3, <1>4, <1>5, <1>6, <1>7, <1>8

\* The three steps that change the cache, and what they return.
LEMMA CachingIsKept ==
    ASSUME IInv, NEW t \in Threads, Hit(t) \/ InsertFound(t) \/ Insert(t)
    PROVE  \E x \in Tree :
             /\ Kept(chain[t], x)
             /\ pc' = [pc EXCEPT ![t] = "idle"] /\ tree' = [tree EXCEPT ![t] = x]
             /\ UNCHANGED <<created, lock, met, chain>>
             /\ \/ chain[t] \in Keys /\ x = Cached(chain[t])
                \/ chain[t] \notin Keys /\ x = tree[t] /\ pc[t] = "insert"
<1>1. CASE Hit(t) \/ InsertFound(t)
    <2>1. chain[t] \in Keys /\ Moves(chain[t])
        BY <1>1 DEF Hit, InsertFound, Moves
    <2>2. Kept(chain[t], Cached(chain[t])) /\ Cached(chain[t]) \in Tree
        BY <2>1, MovingKeeps, PositionIsEntry DEF IInv
    <2>3. /\ pc' = [pc EXCEPT ![t] = "idle"]
          /\ tree' = [tree EXCEPT ![t] = Cached(chain[t])]
          /\ UNCHANGED <<created, lock, met, chain>>
        BY <1>1 DEF Hit, InsertFound, Return, Goto
    <2> QED BY <2>1, <2>2, <2>3
<1>2. CASE Insert(t)
    <2>1. chain[t] \notin Keys /\ Adds(chain[t], tree[t]) /\ pc[t] = "insert"
        BY <1>2 DEF Insert, Adds
    <2>2. chain[t] \in Chains /\ tree[t] \in Tree
        BY <2>1 DEF IInv, TypeOK, Holding
    <2>3. Kept(chain[t], tree[t])
        BY <2>1, <2>2, AddingKeeps
    <2>4. /\ pc' = [pc EXCEPT ![t] = "idle"] /\ tree' = [tree EXCEPT ![t] = tree[t]]
          /\ UNCHANGED <<created, lock, met, chain>>
        BY <1>2 DEF Insert, Return, Goto
    <2> QED BY <2>1, <2>2, <2>3, <2>4
<1> QED BY <1>1, <1>2

LEMMA CachingKeepsIInv ==
    ASSUME IInv, NEW t \in Threads, Hit(t) \/ InsertFound(t) \/ Insert(t)
    PROVE  IInv'
<1>1. PICK x \in Tree :
        /\ Kept(chain[t], x)
        /\ pc' = [pc EXCEPT ![t] = "idle"] /\ tree' = [tree EXCEPT ![t] = x]
        /\ UNCHANGED <<created, lock, met, chain>>
    BY CachingIsKept
<1>2. TypeOK'
    BY <1>1 DEF IInv, TypeOK, Kept, Labels
<1>3. Holding'
    BY <1>1 DEF IInv, TypeOK, Holding
<1>4. NoneTwice(used)' /\ EndOf(cache, used)'
    BY <1>1 DEF Kept, NoneTwice, EndOf
<1>5. CacheIsRecent'
    BY <1>2, <1>4 DEF TypeOK, CacheIsRecent, EndOf
<1> QED BY <1>2, <1>3, <1>4, <1>5 DEF IInv

LEMMA NextKeepsIInv == IInv /\ [Next]_vars => IInv'
<1> SUFFICES ASSUME IInv, [Next]_vars PROVE IInv'
    OBVIOUS
<1>1. CASE Next
    BY <1>1, ParsingKeepsIInv, CachingKeepsIInv DEF Next, Step
<1>2. CASE UNCHANGED vars
    BY <1>2 DEF vars, IInv, TypeOK, NoneTwice, CacheIsRecent, Holding
<1> QED BY <1>1, <1>2

-----------------------------------------------------------------------------
(* The theorems *)

\* The inductive invariant: the cache is the end of the last uses, no chain is twice
\* among them, and whoever is about to insert holds a tree.
THEOREM Inductive == Spec => []IInv
BY InitIInv, NextKeepsIInv, PTL DEF Spec

\* The variables keep their types and the cache its limit (_get_cached_ast).
THEOREM TypeCorrect == Spec => []TypeOK
<1>1. IInv => TypeOK
    BY DEF IInv
<1> QED BY <1>1, Inductive, PTL

\* The cache is at all times what was used last, in that order, whichever threads hit,
\* miss, insert and evict at once (_get_cached_ast).
THEOREM CacheAlwaysRecent == Spec => []CacheIsRecent
<1>1. IInv => CacheIsRecent
    BY DEF IInv
<1> QED BY <1>1, Inductive, PTL

\* No key is twice in the cache.
LEMMA KeysOnce ==
    ASSUME IInv, NEW i \in DOMAIN cache, NEW j \in DOMAIN cache, cache[i].key = cache[j].key
    PROVE  i = j
<1>1. /\ Len(cache) \in Nat /\ DOMAIN cache = 1..Len(cache) /\ Len(used) \in Nat
      /\ Len(cache) <= Len(used)
    BY DEF IInv, TypeOK, CacheIsRecent
<1> DEFINE u == Len(used) - Len(cache) + i
           v == Len(used) - Len(cache) + j
<1>2. used[u] = used[v]
    BY DEF IInv, CacheIsRecent
<1>3. u \in 1..Len(used) /\ v \in 1..Len(used)
    BY <1>1
<1>4. u = v
    BY <1>2, <1>3 DEF IInv, NoneTwice
<1> QED BY <1>1, <1>4

\* While a chain stays cached its tree is the same object, and whoever is given the
\* tree of a cacheable chain is given that object.
THEOREM OneTreeAlways == Spec => OneTreePerChain
<1>1. IInv /\ [Next]_vars =>
        [/\ \A i \in DOMAIN cache, j \in DOMAIN cache' :
              cache[i].key = cache'[j].key => cache[i].tree = cache'[j].tree
         /\ \A t \in Workers :
              pc[t] \in {"lookup", "insert"} /\ pc'[t] = "idle" =>
                  \E j \in DOMAIN cache' :
                      cache'[j] = [key |-> chain[t], tree |-> tree'[t]]]_vars
    <2> SUFFICES ASSUME IInv, Next
                 PROVE  /\ \A i \in DOMAIN cache, j \in DOMAIN cache' :
                             cache[i].key = cache'[j].key => cache[i].tree = cache'[j].tree
                        /\ \A t \in Workers :
                             pc[t] \in {"lookup", "insert"} /\ pc'[t] = "idle" =>
                               \E j \in DOMAIN cache' :
                                 cache'[j] = [key |-> chain[t], tree |-> tree'[t]]
        OBVIOUS
    <2>1. ASSUME NEW t \in Threads, Hit(t) \/ InsertFound(t) \/ Insert(t)
          PROVE  /\ \A i \in DOMAIN cache, j \in DOMAIN cache' :
                      cache[i].key = cache'[j].key => cache[i].tree = cache'[j].tree
                 /\ \A w \in Workers :
                      pc[w] \in {"lookup", "insert"} /\ pc'[w] = "idle" =>
                        \E j \in DOMAIN cache' :
                          cache'[j] = [key |-> chain[w], tree |-> tree'[w]]
        <3>1. PICK x \in Tree :
                /\ Kept(chain[t], x)
                /\ pc' = [pc EXCEPT ![t] = "idle"] /\ tree' = [tree EXCEPT ![t] = x]
                /\ \/ chain[t] \in Keys /\ x = Cached(chain[t])
                   \/ chain[t] \notin Keys
            BY <2>1, CachingIsKept
        <3>2. DOMAIN cache' = 1..Len(cache') /\ DOMAIN cache = 1..Len(cache)
            BY <3>1 DEF Kept, IInv, TypeOK
        <3>3. ASSUME NEW i \in DOMAIN cache, cache[i].key = chain[t] PROVE cache[i].tree = x
            <4>1. chain[t] \in Keys
                BY <3>3 DEF Keys
            <4>2. /\ Position(chain[t]) \in DOMAIN cache
                  /\ cache[Position(chain[t])] = [key |-> chain[t], tree |-> x]
                BY <3>1, <3>2, <4>1, PositionIsEntry DEF IInv
            <4>3. Position(chain[t]) = i
                BY <3>3, <4>2, KeysOnce
            <4> QED BY <4>2, <4>3
        <3>4. ASSUME NEW i \in DOMAIN cache, NEW j \in DOMAIN cache',
                     cache[i].key = cache'[j].key
              PROVE  cache[i].tree = cache'[j].tree
            <4>1. CASE \E k \in 1..Len(cache) : cache'[j] = cache[k]
                <5>1. PICK k \in DOMAIN cache : cache'[j] = cache[k]
                    BY <3>2, <4>1
                <5>2. i = k
                    BY <3>4, <5>1, KeysOnce
                <5> QED BY <5>1, <5>2
            <4>2. CASE cache'[j] = [key |-> chain[t], tree |-> x]
                BY <3>3, <3>4, <4>2
            <4> QED BY <3>1, <3>2, <4>1, <4>2 DEF Kept
        <3>5. ASSUME NEW w \in Workers, pc[w] \in {"lookup", "insert"}, pc'[w] = "idle"
              PROVE  \E j \in DOMAIN cache' :
                       cache'[j] = [key |-> chain[w], tree |-> tree'[w]]
            <4>1. w \in Threads /\ w = t
                BY <3>1, <3>5 DEF IInv, TypeOK, Threads
            <4>2. tree'[t] = x
                BY <3>1 DEF IInv, TypeOK
            <4>3. Len(cache') \in 1..Len(cache')
                BY <3>1 DEF Kept
            <4>4. cache'[Len(cache')] = [key |-> chain[w], tree |-> tree'[w]]
                BY <3>1, <4>1, <4>2 DEF Kept
            <4> QED BY <3>2, <4>3, <4>4
        <3> QED BY <3>4, <3>5
    <2>2. ASSUME cache' = cache,
                 \A w \in Threads : pc[w] \in {"lookup", "insert"} => pc'[w] # "idle"
          PROVE  /\ \A i \in DOMAIN cache, j \in DOMAIN cache' :
                      cache[i].key = cache'[j].key => cache[i].tree = cache'[j].tree
                 /\ \A w \in Workers :
                      pc[w] \in {"lookup", "insert"} /\ pc'[w] = "idle" =>
                        \E j \in DOMAIN cache' :
                          cache'[j] = [key |-> chain[w], tree |-> tree'[w]]
        BY <2>2, KeysOnce DEF Threads
    <2>3. ASSUME NEW t \in Threads,
                 \/ \E c \in Chains : Call(t, c)
                 \/ GetParser(t) \/ Miss(t) \/ Acquire(t) \/ BeginParse(t)
                 \/ EndParse(t) \/ ParseFails(t)
          PROVE  /\ cache' = cache
                 /\ \A w \in Threads : pc[w] \in {"lookup", "insert"} => pc'[w] # "idle"
        BY <2>3 DEF IInv, TypeOK, Goto, Return, Call, GetParser, Miss, Acquire, BeginParse,
                    EndParse, ParseFails
    <2> QED BY <2>1, <2>2, <2>3 DEF Next, Step
<1> QED BY <1>1, Inductive, PTL DEF Spec, OneTreePerChain

-----------------------------------------------------------------------------
(* Without parse_chain *)

\* Who parses holds the lock and is alone on the parser object.
Serialized ==
    \A t \in Threads :
        /\ pc[t] \in {"parse", "parsing"} => lock = t
        /\ pc[t] = "parsing" => met = {<<t, chain[t]>>}

OwnInv == Serialized /\ TreesAreOwn

LEMMA InitOwn == Init => OwnInv
BY DEF Init, OwnInv, Serialized, TreesAreOwn

\* A parse that is alone yields the tree of its own text.
LEMMA ParsingKeepsOwn ==
    ASSUME Direct = {}, IInv, OwnInv, NEW t \in Threads,
           \/ \E c \in Chains : Call(t, c)
           \/ GetParser(t) \/ Miss(t) \/ Acquire(t) \/ BeginParse(t)
           \/ EndParse(t) \/ ParseFails(t)
    PROVE  OwnInv'
<1> USE DEF IInv, TypeOK, OwnInv, Goto
<1>1. ASSUME NEW c \in Chains, Call(t, c) PROVE OwnInv'
    BY <1>1 DEF Call, Serialized, TreesAreOwn
<1>2. CASE GetParser(t)
    BY <1>2 DEF GetParser, Serialized, TreesAreOwn
<1>3. CASE Miss(t)
    BY <1>3 DEF Miss, Serialized, TreesAreOwn
<1>4. CASE Acquire(t)
    BY <1>4 DEF Acquire, Serialized, TreesAreOwn
<1>5. CASE BeginParse(t)
    <2>1. ~InUse
        BY <1>5 DEF BeginParse, InUse, Serialized
    <2>2. met' = {<<t, chain[t]>>}
        BY <1>5, <2>1 DEF BeginParse
    <2> QED BY <1>5, <2>1, <2>2 DEF BeginParse, InUse, Serialized, TreesAreOwn
<1>6. CASE EndParse(t)
    <2>1. met = {<<t, chain[t]>>} /\ lock = t
        BY <1>6 DEF EndParse, Serialized
    <2>2. Texts(t) = {chain[t]}
        BY <2>1 DEF Texts
    <2>3. tree' = [tree EXCEPT ![t] = [of |-> chain[t], by |-> t]]
        BY <1>6, <2>2 DEF EndParse
    <2>4. Serialized'
        BY <1>6, <2>1 DEF EndParse, Serialized
    <2>5. TreesAreOwn'
        BY <1>6, <2>3 DEF EndParse, TreesAreOwn
    <2> QED BY <2>4, <2>5
<1>7. CASE ParseFails(t)
    <2>1. lock = t
        BY <1>7 DEF ParseFails, Serialized
    <2>2. Serialized'
        BY <1>7, <2>1 DEF ParseFails, Serialized, Return
    <2>3. TreesAreOwn'
        BY <1>7 DEF ParseFails, TreesAreOwn, Return
    <2> QED BY <2>2, <2>3
<1> QED BY <1>1, <1>2, <1>3, <1>4, <1>5, <1>6, <1>7

LEMMA CachingKeepsOwn ==
    ASSUME IInv, OwnInv, NEW t \in Threads, Hit(t) \/ InsertFound(t) \/ Insert(t)
    PROVE  OwnInv'
<1>1. PICK x \in Tree :
        /\ Kept(chain[t], x)
        /\ pc' = [pc EXCEPT ![t] = "idle"] /\ tree' = [tree EXCEPT ![t] = x]
        /\ UNCHANGED <<created, lock, met, chain>>
        /\ \/ chain[t] \in Keys /\ x = Cached(chain[t])
           \/ chain[t] \notin Keys /\ x = tree[t] /\ pc[t] = "insert"
    BY CachingIsKept
<1>2. Serialized'
    BY <1>1 DEF IInv, TypeOK, OwnInv, Serialized
<1>3. x.of = chain[t]
    <2>1. CASE chain[t] \in Keys
        <3>1. /\ Position(chain[t]) \in DOMAIN cache
              /\ cache[Position(chain[t])] = [key |-> chain[t], tree |-> x]
            BY <1>1, <2>1, PositionIsEntry DEF IInv, TypeOK
        <3> QED BY <3>1 DEF OwnInv, TreesAreOwn
    <2>2. CASE chain[t] \notin Keys
        <3>1. x = tree[t] /\ tree[t] # NoTree
            BY <1>1, <2>2
        <3> QED BY <3>1 DEF OwnInv, TreesAreOwn
    <2> QED BY <2>1, <2>2
<1>4. \A j \in DOMAIN cache' : cache'[j].tree.of = cache'[j].key
    <2>1. DOMAIN cache' = 1..Len(cache') /\ DOMAIN cache = 1..Len(cache)
        BY <1>1 DEF Kept, IInv, TypeOK
    <2>2. \A i \in DOMAIN cache : cache[i].tree.of = cache[i].key
        BY DEF OwnInv, TreesAreOwn
    <2>3. ASSUME NEW j \in DOMAIN cache'
          PROVE  \/ cache'[j] = [key |-> chain[t], tree |-> x]
                 \/ \E i \in DOMAIN cache : cache'[j] = cache[i]
        BY <1>1, <2>1 DEF Kept
    <2> QED BY <1>3, <2>2, <2>3
<1>5. \A u \in Threads : tree'[u] # NoTree => tree'[u].of = chain'[u]
    BY <1>1, <1>3 DEF IInv, TypeOK, OwnInv, TreesAreOwn
<1> QED BY <1>2, <1>4, <1>5 DEF OwnInv, TreesAreOwn

\* No thread is ever given, nor is anything cached, the tree of another chain, as long
\* as every parse takes the parser's lock (_get_cached_ast).
THEOREM TreesAlwaysOwn == Direct = {} => (Spec => []TreesAreOwn)
<1> SUFFICES ASSUME Direct = {} PROVE Spec => []TreesAreOwn
    OBVIOUS
<1>1. IInv /\ OwnInv /\ [Next]_vars => OwnInv'
    <2> SUFFICES ASSUME IInv, OwnInv, [Next]_vars PROVE OwnInv'
        OBVIOUS
    <2>1. CASE Next
        BY <2>1, ParsingKeepsOwn, CachingKeepsOwn DEF Next, Step
    <2>2. CASE UNCHANGED vars
        BY <2>2 DEF vars, OwnInv, Serialized, TreesAreOwn
    <2> QED BY <2>1, <2>2
<1>2. OwnInv => TreesAreOwn
    BY DEF OwnInv
<1> QED BY <1>1, <1>2, InitOwn, Inductive, PTL DEF Spec

=============================================================================
