------------------------ MODULE ChainEvaluation_proofs ------------------------
(***************************************************************************)
(* Proofs about ChainEvaluation, for chains of any length over any set of  *)
(* literals, in any set of contexts.                                       *)
(*                                                                         *)
(* A value is a tree of lists.  What has to hold of all its members is     *)
(* said without recursion: there is a set of values that holds it, and of  *)
(* which each element is an atom or a list of its elements.                *)
(***************************************************************************)
EXTENDS ChainEvaluation, SequenceTheorems, TLAPS

-----------------------------------------------------------------------------
(* Values *)

\* The values that are no lists.
Atom(v) ==
    \/ v = Undefined
    \/ v = Failure
    \/ \E t \in {"T", "F"} : v = Truth(t)
    \/ \E k \in Keys, t \in {"T", "F"} : v = Literal(k, Truth(t))
    \/ \E x : v = Action(x)

Hereditary(S) ==
    \A w \in S :
        /\ w.t \in K3
        /\ Atom(w) \/ \E s \in Seq(S) : s # <<>> /\ w = List(s)

\* The values a visitor can return: atoms, and lists of such values.
Proper(v) == \E S : v \in S /\ Hereditary(S)

\* A set that shows it.
MembersOf(v) == CHOOSE S : v \in S /\ Hereditary(S)

\* A sequence of such values, not empty.
Row(s) == \E T : s \in Seq(T) /\ s # <<>> /\ \A x \in T : Proper(x)

LEMMA RowIntro ==
    ASSUME NEW T, NEW s \in Seq(T), s # <<>>, \A x \in T : Proper(x)
    PROVE  Row(s)
BY DEF Row

\* The targets of the actions in a sequence of values.
ActsOf(s) == UNION {s[i].acts : i \in DOMAIN s}

\* The fields of a list.
LEMMA ListFields ==
    ASSUME NEW s
    PROVE  /\ List(s).d = "list" /\ List(s).items = s /\ List(s).key = NoKey
           /\ List(s).t = IF Len(s) = 1 THEN s[1].t ELSE "U"
           /\ List(s).acts = ActsOf(s)
BY DEF List, Value, ActsOf

LEMMA ListFlags ==
    ASSUME NEW s
    PROVE  /\ List(s).sound = \A i \in DOMAIN s : s[i].sound
           /\ List(s).bad = \E i \in DOMAIN s : s[i].bad
BY DEF List, Value

\* The fields of an atom.
LEMMA AtomFields ==
    ASSUME NEW v, Atom(v)
    PROVE  /\ v.d \in {"undefined", "error", "truth", "literal", "action"}
           /\ v.t \in K3
           /\ v.d = "undefined" <=> v = Undefined
           /\ v.d = "error" <=> v = Failure
           /\ v.d = "truth" <=> \E t \in {"T", "F"} : v = Truth(t)
           /\ v.d = "literal" <=> \E k \in Keys, t \in {"T", "F"} : v = Literal(k, Truth(t))
           /\ v.d # "truth" => v.t = "U"
           /\ v.d # "action" => v.acts = {}
           /\ v.bad <=> v = Failure
BY DEF Atom, Undefined, Failure, Truth, Literal, Action, Value, K3

\* Atoms are values.
LEMMA AtomsAreProper == ASSUME NEW v, Atom(v) PROVE Proper(v)
<1>1. v \in {v} /\ Hereditary({v})
  BY AtomFields DEF Hereditary
<1> QED BY <1>1 DEF Proper

\* A list of values is a value.
LEMMA RowsMakeLists == ASSUME NEW s, Row(s) PROVE Proper(List(s))
<1>1. PICK T : s \in Seq(T) /\ s # <<>> /\ \A x \in T : Proper(x)
  BY DEF Row
<1> DEFINE U == UNION {MembersOf(x) : x \in T}
           S == U \cup {List(s)}
<1>2. \A x \in T : x \in MembersOf(x) /\ Hereditary(MembersOf(x))
  BY <1>1 DEF Proper, MembersOf
<1>3. T \subseteq U
  BY <1>2
<1>4. s \in Seq(S)
  <2>1. T \subseteq S
    BY <1>3
  <2> QED BY <1>1, <2>1
<1>5. Hereditary(S)
  <2> SUFFICES ASSUME NEW w \in S
               PROVE  /\ w.t \in K3
                      /\ Atom(w) \/ \E q \in Seq(S) : q # <<>> /\ w = List(q)
    BY DEF Hereditary
  <2>1. CASE w = List(s)
    <3>1. s[1].t \in K3
      <4>1. s[1] \in T
        BY <1>1
      <4> QED BY <1>2, <4>1 DEF Hereditary
    <3>2. List(s).t \in K3
      BY <3>1, ListFields DEF K3
    <3> QED BY <1>1, <1>4, <2>1, <3>2
  <2>2. CASE w \in U
    <3>1. PICK x \in T : w \in MembersOf(x)
      BY <2>2
    <3>2. /\ w.t \in K3
          /\ Atom(w) \/ \E q \in Seq(MembersOf(x)) : q # <<>> /\ w = List(q)
      BY <1>2, <3>1 DEF Hereditary
    <3>3. MembersOf(x) \subseteq S
      OBVIOUS
    <3>4. \A q : q \in Seq(MembersOf(x)) => q \in Seq(S)
      BY <3>3
    <3> QED BY <3>2, <3>4
  <2> QED BY <2>1, <2>2
<1>6. List(s) \in S
  OBVIOUS
<1> QED BY <1>5, <1>6 DEF Proper

\* A value is an atom or a list of values.
LEMMA ProperCases ==
    ASSUME NEW v, Proper(v)
    PROVE  /\ v.t \in K3
           /\ Atom(v) \/ (Row(v.items) /\ v = List(v.items))
<1>1. PICK S : v \in S /\ Hereditary(S)
  BY DEF Proper
<1>0. v.t \in K3
  BY <1>1 DEF Hereditary
<1>2. CASE Atom(v)
  BY <1>0, <1>2
<1>3. CASE \E s \in Seq(S) : s # <<>> /\ v = List(s)
  <2>1. PICK s \in Seq(S) : s # <<>> /\ v = List(s)
    BY <1>3
  <2>2. \A x \in S : Proper(x)
    BY <1>1 DEF Proper
  <2>3. v.items = s
    BY <2>1, ListFields
  <2> QED BY <1>0, <2>1, <2>2, <2>3 DEF Row
<1> QED BY <1>1, <1>2, <1>3 DEF Hereditary

\* What a row is made of.
LEMMA RowFacts ==
    ASSUME NEW s, Row(s)
    PROVE  /\ Len(s) \in Nat \ {0} /\ DOMAIN s = 1..Len(s)
           /\ \A i \in DOMAIN s : Proper(s[i])
           /\ Head(s) = s[1] /\ Proper(Head(s))
           /\ Tail(s) = <<>> \/ Row(Tail(s))
           /\ Len(Tail(s)) = Len(s) - 1
           /\ Head(s).acts \subseteq ActsOf(s) /\ ActsOf(Tail(s)) \subseteq ActsOf(s)
<1>1. PICK T : s \in Seq(T) /\ s # <<>> /\ \A x \in T : Proper(x)
  BY DEF Row
<1>2. /\ Len(s) \in Nat \ {0} /\ DOMAIN s = 1..Len(s)
      /\ \A i \in DOMAIN s : Proper(s[i])
      /\ Head(s) = s[1]
  BY <1>1
<1>3. /\ Tail(s) \in Seq(T) /\ Len(Tail(s)) = Len(s) - 1
      /\ \A i \in 1..(Len(s) - 1) : Tail(s)[i] = s[i + 1]
  BY <1>1, HeadTailProperties
<1>4. Tail(s) = <<>> \/ Row(Tail(s))
  BY <1>1, <1>3 DEF Row
<1>5. 1 \in DOMAIN s
  BY <1>2
<1>6. Head(s).acts \subseteq ActsOf(s)
  BY <1>2, <1>5 DEF ActsOf
<1>7. DOMAIN Tail(s) = 1..(Len(s) - 1)
  BY <1>3
<1>8. \A i \in DOMAIN Tail(s) : i + 1 \in DOMAIN s /\ Tail(s)[i] = s[i + 1]
  BY <1>2, <1>3, <1>7
<1>9. ActsOf(Tail(s)) \subseteq ActsOf(s)
  BY <1>8 DEF ActsOf
<1> QED BY <1>2, <1>3, <1>4, <1>5, <1>6, <1>9

\* Rows can be put together.
LEMMA RowsJoin ==
    ASSUME NEW a, NEW b, Row(a), Row(b)
    PROVE  /\ Row(a \o b) /\ ActsOf(a \o b) = ActsOf(a) \cup ActsOf(b)
           /\ Len(a \o b) = Len(a) + Len(b) /\ (a \o b)[1] = a[1]
<1>1. PICK S : a \in Seq(S) /\ a # <<>> /\ \A x \in S : Proper(x)
  BY DEF Row
<1>2. PICK T : b \in Seq(T) /\ b # <<>> /\ \A x \in T : Proper(x)
  BY DEF Row
<1>3. a \in Seq(S \cup T) /\ b \in Seq(S \cup T)
  BY <1>1, <1>2
<1>4. /\ a \o b \in Seq(S \cup T) /\ Len(a \o b) = Len(a) + Len(b)
      /\ \A i \in 1..(Len(a) + Len(b)) :
            (a \o b)[i] = IF i <= Len(a) THEN a[i] ELSE b[i - Len(a)]
      /\ Len(a) \in Nat \ {0} /\ Len(b) \in Nat \ {0}
  BY <1>1, <1>2, <1>3, ConcatProperties
<1>5. Row(a \o b)
  <2>1. a \o b # <<>>
    BY <1>4
  <2>2. \A x \in S \cup T : Proper(x)
    BY <1>1, <1>2
  <2> QED BY <1>4, <2>1, <2>2 DEF Row
<1>6. /\ DOMAIN a = 1..Len(a) /\ DOMAIN b = 1..Len(b)
      /\ DOMAIN (a \o b) = 1..(Len(a) + Len(b))
  BY <1>1, <1>2, <1>4
<1>7. ActsOf(a \o b) \subseteq ActsOf(a) \cup ActsOf(b)
  <2> SUFFICES ASSUME NEW i \in DOMAIN (a \o b), NEW x \in (a \o b)[i].acts
               PROVE  x \in ActsOf(a) \cup ActsOf(b)
    BY DEF ActsOf
  <2>1. CASE i <= Len(a)
    <3>1. i \in DOMAIN a /\ (a \o b)[i] = a[i]
      BY <1>4, <1>6, <2>1
    <3> QED BY <3>1 DEF ActsOf
  <2>2. CASE ~(i <= Len(a))
    <3>1. i - Len(a) \in DOMAIN b /\ (a \o b)[i] = b[i - Len(a)]
      BY <1>4, <1>6, <2>2
    <3> QED BY <3>1 DEF ActsOf
  <2> QED BY <2>1, <2>2
<1>8. ActsOf(a) \subseteq ActsOf(a \o b)
  <2>1. \A i \in DOMAIN a : i \in DOMAIN (a \o b) /\ (a \o b)[i] = a[i]
    BY <1>4, <1>6
  <2> QED BY <2>1 DEF ActsOf
<1>9. ActsOf(b) \subseteq ActsOf(a \o b)
  <2>1. \A i \in DOMAIN b : i + Len(a) \in DOMAIN (a \o b) /\ (a \o b)[i + Len(a)] = b[i]
    BY <1>4, <1>6
  <2> QED BY <2>1 DEF ActsOf
<1>10. (a \o b)[1] = a[1]
  BY <1>4
<1> QED BY <1>4, <1>5, <1>7, <1>8, <1>9, <1>10

\* A single value is a row.
LEMMA RowOfOne ==
    ASSUME NEW v, Proper(v)
    PROVE  Row(<<v>>) /\ ActsOf(<<v>>) = v.acts /\ Len(<<v>>) = 1 /\ <<v>>[1] = v
<1>1. <<v>> \in Seq({v}) /\ <<v>> # <<>> /\ Len(<<v>>) = 1 /\ <<v>>[1] = v
  OBVIOUS
<1>2. PICK T : T = {v}
  OBVIOUS
<1>5. Row(<<v>>)
  <2>1. <<v>> \in Seq(T) /\ \A x \in T : Proper(x)
    BY <1>1, <1>2
  <2> QED BY <1>1, <2>1, RowIntro
<1>3. DOMAIN <<v>> = {1}
  BY <1>1
<1>4. ActsOf(<<v>>) = v.acts
  BY <1>1, <1>3 DEF ActsOf
<1> QED BY <1>1, <1>4, <1>5

\* What the evaluator asks of a value.
LEMMA ProperFacts ==
    ASSUME NEW v, Proper(v)
    PROVE  /\ v.t \in K3
           /\ v.d \in {"undefined", "error", "truth", "literal", "action", "list"}
           /\ v.d = "list" => Row(v.items) /\ v = List(v.items)
           /\ v.d # "list" => Atom(v)
           /\ v.d = "error" => v = Failure
           /\ v.d = "undefined" => v = Undefined
           /\ v.d = "list" => v.acts = ActsOf(v.items)
           /\ v.d = "list" => v.t = IF Len(v.items) = 1 THEN v.items[1].t ELSE "U"
<1>1. v.t \in K3
  BY ProperCases
<1>2. CASE Atom(v)
  BY <1>1, <1>2, AtomFields
<1>3. CASE Row(v.items) /\ v = List(v.items)
  <2>1. /\ v.d = "list" /\ v.acts = ActsOf(v.items)
        /\ v.t = IF Len(v.items) = 1 THEN v.items[1].t ELSE "U"
    BY <1>3, ListFields
  <2> QED BY <1>1, <1>3, <2>1
<1> QED BY <1>2, <1>3, ProperCases

\* The values of the atoms are apart.
LEMMA AtomConstants ==
    /\ Atom(Undefined) /\ Atom(Failure) /\ Atom(Truth("T")) /\ Atom(Truth("F"))
    /\ \A x : Atom(Action(x))
    /\ Undefined.acts = {} /\ Failure.acts = {} /\ \A t : Truth(t).acts = {}
    /\ \A x : Action(x).acts = {x}
    /\ Undefined.t = "U" /\ Failure.t = "U" /\ \A t : Truth(t).t = t
    /\ \A x : Action(x).t = "U"
    /\ Undefined.d = "undefined" /\ Failure.d = "error"
    /\ \A t : Truth(t).d = "truth"
    /\ \A x : Action(x).d = "action"
BY DEF Atom, Undefined, Failure, Truth, Action, Value

\* _to_trit and the operators unwrap a literal.
LEMMA UnwrapFacts ==
    ASSUME NEW v, Proper(v)
    PROVE  /\ Proper(Unwrap(v)) /\ Unwrap(v).d # "literal"
           /\ Unwrap(v).acts \subseteq v.acts
           /\ v.d # "literal" => Unwrap(v) = v
           /\ v.d = "literal" => \E t \in {"T", "F"} : Unwrap(v) = Truth(t)
<1>1. CASE v.d = "literal"
  <2>1. PICK k \in Keys, t \in {"T", "F"} : v = Literal(k, Truth(t))
    BY <1>1, ProperFacts, AtomFields
  <2>2. Unwrap(v) = Truth(t)
    BY <1>1, <2>1 DEF Unwrap, Literal, Value
  <2>3. Proper(Truth(t))
    BY AtomConstants, AtomsAreProper
  <2> QED BY <1>1, <2>2, <2>3, AtomConstants
<1>2. CASE v.d # "literal"
  BY <1>2 DEF Unwrap
<1> QED BY <1>1, <1>2

\* Splicing a child (visit_conjunction, visit_disjunction, visit_scoped).
LEMMA SplicedFacts ==
    ASSUME NEW v, Proper(v)
    PROVE  /\ Row(Spliced(v)) /\ ActsOf(Spliced(v)) = v.acts
           /\ v.d # "list" => Spliced(v) = <<v>>
           /\ v.d = "list" => Spliced(v) = v.items
<1>1. CASE v.d = "list"
  BY <1>1, ProperFacts DEF Spliced
<1>2. CASE v.d # "list"
  BY <1>2, RowOfOne DEF Spliced
<1> QED BY <1>1, <1>2

\* A row unwrapped member by member is a row.
LEMMA UnwrappedRow ==
    ASSUME NEW s, Row(s)
    PROVE  LET u == [i \in DOMAIN s |-> Unwrap(s[i])]
           IN  Row(u) /\ ActsOf(u) \subseteq ActsOf(s) /\ Len(u) = Len(s)
<1> DEFINE u == [i \in DOMAIN s |-> Unwrap(s[i])]
           T == {u[i] : i \in DOMAIN s}
<1>1. /\ Len(s) \in Nat \ {0} /\ DOMAIN s = 1..Len(s)
      /\ \A i \in DOMAIN s : Proper(s[i])
  BY RowFacts
<1>2. \A x \in T : Proper(x)
  BY <1>1, UnwrapFacts
<1>3. u \in Seq(T) /\ Len(u) = Len(s) /\ u # <<>>
  <2>1. u \in [1..Len(s) -> T]
    BY <1>1
  <2> QED BY <1>1, <2>1
<1>4. Row(u)
  BY <1>2, <1>3 DEF Row
<1>5. ActsOf(u) \subseteq ActsOf(s)
  <2>1. \A i \in DOMAIN s : u[i] = Unwrap(s[i]) /\ u[i].acts \subseteq s[i].acts
    BY <1>1, UnwrapFacts
  <2> QED BY <2>1 DEF ActsOf
<1> QED BY <1>3, <1>4, <1>5

\* Juxtaposition makes values of values and adds no action.
LEMMA FollowFacts ==
    ASSUME NEW v, Proper(v), NEW s, s = <<>> \/ Row(s)
    PROVE  /\ Proper(Follow(v, s))
           /\ Follow(v, s).acts \subseteq v.acts \cup ActsOf(s)
           /\ s = <<>> => Follow(v, s) = v
           /\ s # <<>> => /\ Follow(v, s).d = "list" /\ Follow(v, s).t = "U"
                          /\ Len(Follow(v, s).items) > 1
                          /\ Follow(v, s).items[1] =
                                IF v.d = "list" THEN v.items[1] ELSE Unwrap(v)
<1>1. CASE s = <<>>
  BY <1>1 DEF Follow
<1>2. CASE Row(s)
  <2> DEFINE a == IF v.d = "list" THEN v.items ELSE <<Unwrap(v)>>
             u == [i \in DOMAIN s |-> Unwrap(s[i])]
  <2>1. Row(a) /\ ActsOf(a) \subseteq v.acts
    <3>1. CASE v.d = "list"
      BY <3>1, ProperFacts
    <3>2. CASE v.d # "list"
      BY <3>2, UnwrapFacts, RowOfOne
    <3> QED BY <3>1, <3>2
  <2>2. Row(u) /\ ActsOf(u) \subseteq ActsOf(s) /\ Len(u) = Len(s)
    BY <1>2, UnwrappedRow
  <2>3. /\ Row(a \o u) /\ ActsOf(a \o u) = ActsOf(a) \cup ActsOf(u)
        /\ Len(a \o u) = Len(a) + Len(u) /\ (a \o u)[1] = a[1]
    BY <2>1, <2>2, RowsJoin
  <2>4. s # <<>>
    BY <1>2 DEF Row
  <2>5. Follow(v, s) = List(a \o u)
    BY <2>4 DEF Follow
  <2>6. Len(a) > 0 /\ Len(u) > 0 /\ Len(a) \in Nat /\ Len(u) \in Nat
    BY <2>1, <2>2, RowFacts
  <2>7. Len(a \o u) > 1
    BY <2>3, <2>6
  <2>8. a[1] = IF v.d = "list" THEN v.items[1] ELSE Unwrap(v)
    OBVIOUS
  <2>9. PICK x : x = a \o u
    OBVIOUS
  <2>10. /\ Row(x) /\ ActsOf(x) = ActsOf(a) \cup ActsOf(u)
         /\ Len(x) > 1 /\ x[1] = a[1] /\ Follow(v, s) = List(x)
    BY <2>3, <2>5, <2>7, <2>9
  <2> HIDE DEF a, u
  <2>11. /\ List(x).acts = ActsOf(x) /\ List(x).d = "list" /\ List(x).t = "U"
         /\ List(x).items = x
    <3>1. /\ List(x).d = "list" /\ List(x).items = x /\ List(x).acts = ActsOf(x)
          /\ List(x).t = IF Len(x) = 1 THEN x[1].t ELSE "U"
      BY ListFields
    <3>2. Len(x) # 1
      <4>1. Len(x) \in Nat /\ Len(x) > 1
        BY <2>10, RowFacts
      <4>2. PICK n : n = Len(x)
        OBVIOUS
      <4>3. n \in Nat /\ n > 1
        BY <4>1, <4>2
      <4>4. n # 1
        BY ONLY <4>3
      <4> QED BY <4>2, <4>4
    <3> QED BY <3>1, <3>2
  <2>12. Proper(List(x))
    BY <2>10, RowsMakeLists
  <2> QED BY <2>1, <2>2, <2>4, <2>8, <2>10, <2>11, <2>12
<1> QED BY <1>1, <1>2

\* The value of the members of a list on the left: itself, or what it wraps.
LEMMA LeadingFacts ==
    ASSUME NEW v, Proper(v)
    PROVE  /\ Proper(Leading(v)) /\ Leading(v).acts \subseteq v.acts
           /\ v.d # "list" => Leading(v) = v
           /\ v.d = "list" /\ Len(v.items) = 1 => Leading(v) = v.items[1]
           /\ v.d = "list" /\ Len(v.items) # 1 =>
                 Leading(v).d = "list" /\ Leading(v).t = "U" /\ Len(Leading(v).items) > 1
<1> DEFINE s == Spliced(v)
<1>1. Row(s) /\ ActsOf(s) = v.acts
  BY SplicedFacts
<1>2. PICK h, tl : h = Head(s) /\ tl = Tail(s)
  OBVIOUS
<1>3. /\ Proper(h) /\ h = s[1] /\ (tl = <<>> \/ Row(tl))
      /\ h.acts \subseteq v.acts /\ ActsOf(tl) \subseteq v.acts
      /\ Len(tl) = Len(s) - 1 /\ Len(s) \in Nat \ {0}
  BY <1>1, <1>2, RowFacts
<1>4. tl = <<>> <=> Len(s) = 1
  BY <1>3, RowFacts
<1>5. Leading(v) = Follow(h, tl)
  BY <1>2 DEF Leading
<1>6. /\ v.d # "list" => Len(s) = 1 /\ s[1] = v
      /\ v.d = "list" => s = v.items
  BY SplicedFacts
<1> HIDE DEF s
<1>7. CASE Len(s) = 1
  <2>1. Leading(v) = s[1]
    BY <1>3, <1>4, <1>5, <1>7, FollowFacts
  <2> QED BY <1>3, <1>6, <1>7, <2>1
<1>8. CASE Len(s) # 1
  <2>1. Row(tl) /\ tl # <<>>
    BY <1>3, <1>4, <1>8
  <2>2. /\ Proper(Leading(v))
        /\ Leading(v).acts \subseteq h.acts \cup ActsOf(tl)
        /\ Leading(v).d = "list" /\ Leading(v).t = "U" /\ Len(Leading(v).items) > 1
    BY <1>3, <1>5, <2>1, FollowFacts
  <2> QED BY <1>3, <1>6, <1>8, <2>2
<1> QED BY <1>7, <1>8

\* The values that are truth values, undefined or errors.
Plain == {Undefined, Failure, Truth("T"), Truth("F")}

LEMMA PlainFacts ==
    ASSUME NEW v \in Plain
    PROVE  Proper(v) /\ v.acts = {} /\ v.d # "list" /\ Unwrap(v) = v
<1>1. Atom(v) /\ v.acts = {} /\ v.d \in {"undefined", "error", "truth"}
  BY AtomConstants DEF Plain
<1> QED BY <1>1, AtomsAreProper DEF Unwrap

\* Two values side by side are a list that is no truth value.
LEMMA JuxtapositionFacts ==
    ASSUME NEW l, NEW r, Proper(l), Proper(r)
    PROVE  /\ Proper(Juxtaposition(l, r))
           /\ Juxtaposition(l, r).acts \subseteq l.acts \cup r.acts
           /\ Juxtaposition(l, r).d = "list" /\ Juxtaposition(l, r).t = "U"
           /\ Len(Juxtaposition(l, r).items) > 1
<1>1. PICK v, s : v = Leading(l) /\ s = Spliced(r)
  OBVIOUS
<1>2. Proper(v) /\ v.acts \subseteq l.acts
  BY <1>1, LeadingFacts
<1>3. Row(s) /\ ActsOf(s) = r.acts /\ s # <<>>
  BY <1>1, SplicedFacts DEF Row
<1>4. Juxtaposition(l, r) = Follow(v, s)
  BY <1>1 DEF Juxtaposition
<1> QED BY <1>2, <1>3, <1>4, FollowFacts

\* A scope is the list it was, or a list of one.
LEMMA ScopeFacts ==
    ASSUME NEW v, Proper(v)
    PROVE  /\ Proper(Scope(v)) /\ Scope(v).acts = v.acts /\ Scope(v).t = v.t
           /\ v.d = "list" => Scope(v) = v
           /\ v.d # "list" => Scope(v) = List(<<v>>)
<1>1. CASE v.d = "list"
  <2>1. Scope(v) = v
    BY <1>1, ProperFacts, SplicedFacts DEF Scope
  <2> QED BY <1>1, <2>1
<1>2. CASE v.d # "list"
  <2>1. PICK s : s = <<v>>
    OBVIOUS
  <2>2. Row(s) /\ ActsOf(s) = v.acts /\ Len(s) = 1 /\ s[1] = v
    BY <2>1, RowOfOne
  <2>3. Scope(v) = List(s)
    BY <1>2, <2>1, SplicedFacts DEF Scope
  <2>4. Proper(List(s)) /\ List(s).acts = v.acts
    BY <2>2, RowsMakeLists, ListFields
  <2>5. List(s).t = v.t
    BY <2>2, ListFields
  <2> QED BY <1>2, <2>1, <2>3, <2>4, <2>5
<1> QED BY <1>1, <1>2

LEMMA NegationFacts ==
    ASSUME NEW v, Proper(v)
    PROVE  /\ Negation(v) \in Plain \ {Failure}
           /\ Negation(v).t = KNot(Unwrap(v).t)
<1>1. Unwrap(v).t \in K3
  BY UnwrapFacts, ProperFacts
<1> QED BY <1>1, AtomConstants DEF Negation, KNot, K3, Plain

LEMMA QuantifierFacts ==
    ASSUME NEW v, NEW op \in Quantifiers
    PROVE  Quantifier(op, v) \in Plain \ {Failure}
BY AtomConstants DEF Quantifier, Plain

\* The first entry of two maps is an entry.
LEMMA FirstEntry ==
    ASSUME NEW a \in Maybe, NEW b \in Maybe
    PROVE  FirstOf(a, b) \in Maybe
BY DEF FirstOf

LEMMA EpistemicFacts ==
    ASSUME NEW c \in Context, NEW op \in Modal, NEW k \in Keys \cup {NoKey}
    PROVE  Epistemic(c, op, k) \in Plain
<1>1. Refuse(c) \in Plain
  BY DEF Refuse, Plain
<1>2. CASE k = NoKey
  BY <1>2 DEF Epistemic, Plain
<1>3. CASE k \in Keys /\ k # NoKey
  <2>1. c.know[k] \in Maybe /\ c.bel[k] \in Maybe
    BY <1>3 DEF Context
  <2>2. Known(c, k) \in Plain
    BY <1>1, <2>1 DEF Known, Maybe, Plain
  <2>3. FirstOf(c.know[k], c.bel[k]) \in Maybe
    BY <2>1, FirstEntry
  <2>4. Believed(c, k) \in Plain
    BY <2>3 DEF Believed, Maybe, Plain
  <2>5. Certain(c, k) \in Plain
    BY <1>1, <2>3 DEF Certain, Maybe, Plain
  <2> QED BY <1>3, <2>2, <2>4, <2>5 DEF Epistemic, Modal
<1> QED BY <1>2, <1>3

\* A connective gives a plain value; kra may give what its right operand stands
\* for, and then its left one is true.
LEMMA BinaryFacts ==
    ASSUME NEW l, NEW r, Proper(l), Proper(r), NEW op \in {"an", "ur", "kra"}
    PROVE  \/ Binary(op, l, r) \in Plain
           \/ op = "kra" /\ Unwrap(l).t = "T" /\ Binary(op, l, r) = Unwrap(r)
<1>1. Unwrap(l).t \in K3 /\ Unwrap(r).t \in K3
  BY UnwrapFacts, ProperFacts
<1>2. CASE l.d = "error"
  <2>1. l = Failure
    BY <1>2, ProperFacts
  <2> QED BY <1>2, <2>1 DEF Binary, Plain
<1>3. CASE l.d # "error" /\ r.d = "error"
  <2>1. r = Failure
    BY <1>3, ProperFacts
  <2> QED BY <1>3, <2>1 DEF Binary, Plain
<1>4. CASE l.d # "error" /\ r.d # "error"
  <2>1. KAnd(Unwrap(l).t, Unwrap(r).t) \in K3 /\ KOr(Unwrap(l).t, Unwrap(r).t) \in K3
    BY DEF KAnd, KOr, K3
  <2>2. CASE op = "an"
    BY <1>4, <2>1, <2>2 DEF Binary, Plain, K3
  <2>3. CASE op = "ur"
    BY <1>4, <2>1, <2>3 DEF Binary, Plain, K3
  <2>4. CASE op = "kra"
    BY <1>4, <2>4 DEF Binary, Plain
  <2> QED BY <2>2, <2>3, <2>4
<1> QED BY <1>2, <1>3, <1>4

\* an and kra: the actions come from the right operand alone.
LEMMA ConjunctionFacts ==
    ASSUME NEW l, NEW r, Proper(l), Proper(r), NEW op \in {"an", "kra"}
    PROVE  /\ Proper(Conjunction(op, l, r))
           /\ Conjunction(op, l, r).acts \subseteq r.acts
           /\ Len(Spliced(r)) = 1 =>
                 Conjunction(op, l, r) = Binary(op, Leading(l), Spliced(r)[1])
           /\ Len(Spliced(r)) # 1 =>
                 /\ Conjunction(op, l, r).d = "list" /\ Conjunction(op, l, r).t = "U"
                 /\ Len(Conjunction(op, l, r).items) > 1
<1>1. PICK s, h, tl : s = Spliced(r) /\ h = Head(s) /\ tl = Tail(s)
  OBVIOUS
<1>2. Row(s) /\ ActsOf(s) = r.acts
  BY <1>1, SplicedFacts
<1>3. /\ Proper(h) /\ h = s[1] /\ (tl = <<>> \/ Row(tl))
      /\ h.acts \subseteq r.acts /\ ActsOf(tl) \subseteq r.acts
      /\ Len(tl) = Len(s) - 1 /\ Len(s) \in Nat \ {0}
  BY <1>1, <1>2, RowFacts
<1>4. tl = <<>> <=> Len(s) = 1
  BY <1>3, RowFacts
<1>5. PICK b : b = Binary(op, Leading(l), h)
  OBVIOUS
<1>6. Conjunction(op, l, r) = Follow(b, tl)
  BY <1>1, <1>5 DEF Conjunction
<1>7. Proper(b) /\ b.acts \subseteq r.acts
  <2>1. Proper(Leading(l))
    BY LeadingFacts
  <2>2. b \in Plain \/ b = Unwrap(h)
    BY <1>3, <1>5, <2>1, BinaryFacts
  <2> QED BY <1>3, <2>2, PlainFacts, UnwrapFacts
<1>8. CASE Len(s) = 1
  <2>1. Conjunction(op, l, r) = b
    BY <1>3, <1>4, <1>6, <1>7, <1>8, FollowFacts
  <2> QED BY <1>1, <1>3, <1>5, <1>7, <1>8, <2>1
<1>9. CASE Len(s) # 1
  <2>1. Row(tl) /\ tl # <<>>
    BY <1>3, <1>4, <1>9
  <2>2. /\ Proper(Follow(b, tl)) /\ Follow(b, tl).acts \subseteq b.acts \cup ActsOf(tl)
        /\ Follow(b, tl).d = "list" /\ Follow(b, tl).t = "U"
        /\ Len(Follow(b, tl).items) > 1
    BY <1>7, <2>1, FollowFacts
  <2> QED BY <1>1, <1>3, <1>6, <1>7, <1>9, <2>2
<1> QED BY <1>8, <1>9

LEMMA DisjunctionFacts ==
    ASSUME NEW l, NEW r, Proper(l), Proper(r)
    PROVE  /\ Disjunction(l, r) \in Plain
           /\ Disjunction(l, r) \in {Undefined, Binary("ur", Spliced(l)[1], Spliced(r)[1])}
           /\ Disjoinable(l, r) /\ Disjunction(l, r) # Undefined =>
                 Len(Spliced(l)) = 1 /\ Len(Spliced(r)) = 1
<1>1. PICK a, b : a = Spliced(l) /\ b = Spliced(r)
  OBVIOUS
<1>2. Row(a) /\ Row(b)
  BY <1>1, SplicedFacts
<1>3. /\ Proper(a[1]) /\ Proper(b[1]) /\ Head(a) = a[1] /\ Head(b) = b[1]
      /\ Len(a) \in Nat \ {0} /\ Len(b) \in Nat \ {0}
  BY <1>2, RowFacts
<1>4. Binary("ur", a[1], b[1]) \in Plain
  BY <1>3, BinaryFacts
<1>5. Disjunction(l, r) = IF (Len(a) + Len(b)) % 2 = 1 THEN Undefined
                          ELSE Binary("ur", a[1], b[1])
  BY <1>1, <1>3 DEF Disjunction
<1>6. Undefined \in Plain
  BY DEF Plain
<1>7. Disjoinable(l, r) /\ Disjunction(l, r) # Undefined => Len(a) = 1 /\ Len(b) = 1
  <2> SUFFICES ASSUME Disjoinable(l, r), (Len(a) + Len(b)) % 2 # 1
               PROVE  Len(a) = 1 /\ Len(b) = 1
    BY <1>5
  <2>1. PICK m, n : m = Len(a) /\ n = Len(b)
    OBVIOUS
  <2>2. m \in Nat \ {0} /\ n \in Nat \ {0} /\ m + n <= 3 /\ (m + n) % 2 # 1
    BY <1>1, <1>3, <2>1 DEF Disjoinable
  <2>3. m + n \in {2, 3}
    BY ONLY <2>2
  <2>4. m + n # 3
    BY ONLY <2>2, <2>3
  <2>5. m = 1 /\ n = 1
    BY ONLY <2>2, <2>3, <2>4
  <2> QED BY <2>1, <2>5
<1> QED BY <1>1, <1>4, <1>5, <1>6, <1>7

\* The action a clause makes is directed at its operand.
LEMMA ActionEventFacts ==
    ASSUME NEW c, NEW v, Proper(v)
    PROVE  /\ ActionEvent(c, v) \in {Failure, Undefined, Action(TargetOf(v))}
           /\ Proper(ActionEvent(c, v))
           /\ ActionEvent(c, v).t = "U" /\ ActionEvent(c, v).d # "list"
           /\ ActionEvent(c, v).acts \subseteq {TargetOf(v)}
           /\ ActionEvent(c, v).acts # {} /\ c.strict =>
                 /\ c.spatial
                 /\ v.d # "undefined"
<1>1. CASE v.d = "error"
  <2>1. ActionEvent(c, v) = Failure
    BY <1>1, ProperFacts DEF ActionEvent
  <2> QED BY <2>1, AtomConstants, AtomsAreProper
<1>2. CASE v.d = "undefined"
  <2>1. ActionEvent(c, v) \in {Failure, Undefined}
    BY <1>2 DEF ActionEvent, Refuse
  <2> QED BY <2>1, AtomConstants, AtomsAreProper
<1>3. CASE v.d \notin {"error", "undefined"}
  <2>1. CASE c.strict /\ (v.d = "truth" \/ ~c.spatial)
    <3>1. ActionEvent(c, v) = Failure
      BY <1>3, <2>1 DEF ActionEvent
    <3> QED BY <3>1, AtomConstants, AtomsAreProper
  <2>2. CASE ~(c.strict /\ (v.d = "truth" \/ ~c.spatial))
    <3>1. ActionEvent(c, v) = Action(TargetOf(v))
      BY <1>3, <2>2 DEF ActionEvent
    <3> QED BY <1>3, <2>2, <3>1, AtomConstants, AtomsAreProper
  <2> QED BY <2>1, <2>2
<1> QED BY <1>1, <1>2, <1>3

\* A guarded clause passes only behind a guard that is true.
LEMMA GuardedFacts ==
    ASSUME NEW c, NEW cond, NEW clause, Proper(clause)
    PROVE  /\ \/ Guarded(c, cond, clause) \in {Failure, Undefined}
              \/ cond.t = "T" /\ Guarded(c, cond, clause) = List(<<clause>>)
           /\ Proper(Guarded(c, cond, clause))
           /\ Guarded(c, cond, clause).acts \subseteq clause.acts
           /\ Guarded(c, cond, clause).acts # {} => cond.t = "T"
<1>1. PICK s : s = <<clause>>
  OBVIOUS
<1>2. Row(s) /\ ActsOf(s) = clause.acts
  BY <1>1, RowOfOne
<1>3. Proper(List(s)) /\ List(s).acts = clause.acts
  BY <1>2, RowsMakeLists, ListFields
<1>4. \/ Guarded(c, cond, clause) \in {Failure, Undefined}
      \/ cond.t = "T" /\ Guarded(c, cond, clause) = List(s)
  BY <1>1 DEF Guarded
<1>5. \A x \in {Failure, Undefined} : Proper(x) /\ x.acts = {}
  BY AtomConstants, AtomsAreProper
<1> QED BY <1>1, <1>3, <1>4, <1>5

LEMMA GuardedActs ==
    ASSUME NEW c, NEW cond, NEW clause, Proper(clause)
    PROVE  /\ Guarded(c, cond, clause).acts \subseteq clause.acts
           /\ Guarded(c, cond, clause).acts # {} => cond.t = "T"
BY GuardedFacts

-----------------------------------------------------------------------------
(* The subtrees the actions make *)

Subtrees == {stack[i] : i \in DOMAIN stack}

Stacks == stack \in Seq(Subtrees)

Words == {"nai", "an", "ur", "kra", "khi", "sek", "mek"} \cup Modal \cup Quantifiers

CoreValues == K3 \cup Keys \cup {"action", "error", "reject"}

\* The fields of a subtree and of what is known of it in a context.
Fields(n, key, ops, lits, size, unary, form) ==
    /\ n = [at |-> n.at, key |-> key, ops |-> ops, lits |-> lits, size |-> size,
            unary |-> unary, form |-> form]
    /\ DOMAIN n.at = Contexts

Entry(n, c, v, core, meaning, may) ==
    n.at[c] = [val |-> v, core |-> core, meaning |-> meaning, may |-> may]

Shaped(n) ==
    /\ Fields(n, n.key, n.ops, n.lits, n.size, n.unary, n.form)
    /\ n.key \in Keys \cup {NoKey} /\ n.ops \in Seq(Words) /\ n.lits \subseteq Keys
    /\ n.size \in Nat \ {0} /\ n.unary \in BOOLEAN
    /\ \A c \in Contexts :
          Entry(n, c, n.at[c].val, n.at[c].core, n.at[c].meaning, n.at[c].may)

\* The operators of a subtree, in the order of the text.
Before(op, t) == <<op>> \o t.ops
Inside(t) == <<"sek">> \o Append(t.ops, "sek")
Between(op, l, r) == l.ops \o <<op>> \o r.ops
Beside(l, r) == l.ops \o r.ops
Conditionally(l, r) == l.ops \o <<"khi", "sek">> \o Append(r.ops, "sek")

\* One child or two.
UnaryFields(n, t, ops, unary, form) == Fields(n, NoKey, ops, t.lits, t.size + 1, unary, form)

LitsOf(l, r) == l.lits \cup r.lits
SizeOf(l, r) == l.size + r.size + 1

BinaryFields(n, l, r, ops, form) ==
    Fields(n, NoKey, ops, LitsOf(l, r), SizeOf(l, r), FALSE, form)

\* What a leaf has of them.
Blank == <<>>
NoLits == {}
OnlyLit(k) == {k}

ConstantValue(w) ==
    CASE w = "true"      -> Truth("T")
      [] w = "false"     -> Truth("F")
      [] w = "undefined" -> Undefined

\* What may be done.
Nobody == {}
OnlyTarget(t, c) == {TargetOf(t.at[c].val)}
MayOfBoth(l, r, c) == l.at[c].may \cup r.at[c].may
MayBehind(l, r, c) == IF l.at[c].meaning = "T" THEN r.at[c].may ELSE {}

\* The form of a fact, of a clause and of a guarded one.
FactIf(b) == IF b THEN "fact" ELSE "other"
BothFact(l, r) == {l.form, r.form} = {"fact"}
ClauseForm(t) == IF t.key # NoKey THEN "clause" ELSE "other"
GuardedForm(l, r) == IF l.form = "fact" /\ r.form = "clause" THEN "guarded" ELSE "other"

\* What visit_unary makes of v on top of the operators of t.
StackedOn(t, c, v) == IF t.unary /\ t.at[c].val.d = "error" THEN t.at[c].val ELSE v

FromConstant(n, w) ==
    /\ Fields(n, NoKey, Blank, NoLits, 1, FALSE, "fact")
    /\ \A c \in Contexts :
          Entry(n, c, ConstantValue(w), ConstantValue(w).t, ConstantValue(w).t, Nobody)

FromKey(n, k) ==
    /\ Fields(n, k, Blank, OnlyLit(k), 1, FALSE, "other")
    /\ \A c \in Contexts : Entry(n, c, VisitLiteral(c, k), k, Says(c.lit[k]), Nobody)

FromModal(n, t, op) ==
    /\ UnaryFields(n, t, Before(op, t), TRUE, FactIf(op = "shi" /\ t.key # NoKey))
    /\ \A c \in Contexts :
          Entry(n, c, StackedOn(t, c, Epistemic(c, op, t.key)),
                CoreEpistemic(c, op, t.at[c].core), ModalMeaning(c, op, t.key), Nobody)

FromNegation(n, t) ==
    /\ UnaryFields(n, t, Before("nai", t), TRUE, FactIf(t.form = "fact"))
    /\ \A c \in Contexts :
          Entry(n, c, StackedOn(t, c, Negation(t.at[c].val)),
                CoreNegation(t.at[c].core), KNot(t.at[c].meaning), Nobody)

FromQuantifier(n, t, op) ==
    /\ UnaryFields(n, t, Before(op, t), TRUE, "other")
    /\ \A c \in Contexts :
          LET v == StackedOn(t, c, Quantifier(op, t.at[c].val)) IN
          Entry(n, c, v, t.at[c].core, v.t, Nobody)

FromScope(n, t) ==
    /\ UnaryFields(n, t, Inside(t), FALSE, "other")
    /\ \A c \in Contexts :
          Entry(n, c, Scope(t.at[c].val), t.at[c].core, t.at[c].meaning, t.at[c].may)

FromAction(n, t) ==
    /\ UnaryFields(n, t, Before("mek", t), FALSE, ClauseForm(t))
    /\ \A c \in Contexts :
          Entry(n, c, ActionEvent(c, t.at[c].val), CoreAction(t.at[c].core), "U",
                OnlyTarget(t, c))

FromAnd(n, l, r) ==
    /\ BinaryFields(n, l, r, Between("an", l, r), FactIf(BothFact(l, r)))
    /\ \A c \in Contexts :
          Entry(n, c, Conjunction("an", l.at[c].val, r.at[c].val),
                CoreAnd(l.at[c].core, r.at[c].core),
                KAnd(l.at[c].meaning, r.at[c].meaning), MayOfBoth(l, r, c))

FromOr(n, l, r) ==
    /\ BinaryFields(n, l, r, Between("ur", l, r), FactIf(BothFact(l, r)))
    /\ \A c \in Contexts :
          /\ Disjoinable(l.at[c].val, r.at[c].val)
          /\ Entry(n, c, Disjunction(l.at[c].val, r.at[c].val),
                CoreOr(l.at[c].core, r.at[c].core),
                KOr(l.at[c].meaning, r.at[c].meaning), MayOfBoth(l, r, c))

FromKra(n, l, r) ==
    /\ BinaryFields(n, l, r, Between("kra", l, r), "other")
    /\ \A c \in Contexts :
          Entry(n, c, Conjunction("kra", l.at[c].val, r.at[c].val),
                CoreOther(l.at[c].core, r.at[c].core),
                KGuard(l.at[c].meaning, r.at[c].meaning),
                MayBehind(l, r, c))

FromJuxtaposition(n, l, r) ==
    /\ BinaryFields(n, l, r, Beside(l, r), "other")
    /\ \A c \in Contexts :
          Entry(n, c, Juxtaposition(l.at[c].val, r.at[c].val), "reject", "U",
                MayOfBoth(l, r, c))

FromConditional(n, l, r) ==
    /\ BinaryFields(n, l, r, Conditionally(l, r),
                    GuardedForm(l, r))
    /\ \A c \in Contexts :
          Entry(n, c, Guarded(c, l.at[c].val, r.at[c].val),
                CoreGuarded(l.at[c].core, r.at[c].core),
                KGuard(l.at[c].meaning, r.at[c].meaning),
                MayBehind(l, r, c))

\* n is made by an action, of subtrees in S.
Leaves(n) ==
    \/ \E w \in {"true", "false", "undefined"} : FromConstant(n, w)
    \/ \E k \in Keys : FromKey(n, k)

OfOne(n, t) ==
    \/ \E op \in Modal : FromModal(n, t, op)
    \/ \E op \in Quantifiers : FromQuantifier(n, t, op)
    \/ FromNegation(n, t)
    \/ FromScope(n, t)
    \/ FromAction(n, t)

OfTwo(n, l, r) ==
    \/ FromAnd(n, l, r)
    \/ FromOr(n, l, r)
    \/ FromKra(n, l, r)
    \/ FromJuxtaposition(n, l, r)
    \/ FromConditional(n, l, r)

Made(n, S) ==
    \/ Leaves(n)
    \/ \E t \in S : OfOne(n, t)
    \/ \E l, r \in S : OfTwo(n, l, r)

\* The subtrees after an action are those before it, and the one it makes.
LEMMA ReducedStack ==
    ASSUME Stacks, NEW k \in 0..2, Len(stack) >= k, NEW n, Reduce(k, n)
    PROVE  /\ Stacks'
           /\ Subtrees' \subseteq Subtrees \cup {n}
           /\ chain = Nothing /\ UNCHANGED <<chain, outcome>>
<1> DEFINE b == SubSeq(stack, 1, Len(stack) - k)
<1>1. stack \in Seq(Subtrees) /\ Len(stack) \in Nat
  BY DEF Stacks
<1>2. b \in Seq(Subtrees)
  <2>1. Len(stack) - k \in Nat /\ Len(stack) - k <= Len(stack)
    BY <1>1
  <2>2. 1..(Len(stack) - k) \subseteq 1..Len(stack)
    BY <1>1, <2>1
  <2> QED BY <1>1, <2>1, <2>2, SubSeqProperties
<1>3. stack' = Append(b, n) /\ chain = Nothing /\ UNCHANGED <<chain, outcome>>
  BY DEF Reduce
<1> HIDE DEF b
<1>4. stack' \in Seq(Subtrees \cup {n})
  <2>1. b \in Seq(Subtrees \cup {n})
    BY <1>2
  <2> QED BY <1>3, <2>1
<1>5. \A i \in DOMAIN stack' : stack'[i] \in Subtrees \cup {n}
  BY <1>4
<1>6. Stacks'
  <2>1. PICK q : q = stack'
    OBVIOUS
  <2>2. PICK T : T = {q[i] : i \in DOMAIN q}
    OBVIOUS
  <2>3. q \in Seq(T)
    <3>1. Len(q) \in Nat /\ q \in [1..Len(q) -> Subtrees \cup {n}] /\ DOMAIN q = 1..Len(q)
      BY <1>4, <2>1
    <3>2. q \in [1..Len(q) -> T]
      BY <2>2, <3>1
    <3> QED BY <3>1, <3>2
  <2> QED BY <2>1, <2>2, <2>3 DEF Stacks, Subtrees
<1> QED BY <1>3, <1>5, <1>6 DEF Subtrees

\* The operands of an action are on the stack.
LEMMA Operands ==
    ASSUME Stacks
    PROVE  /\ Len(stack) > 0 => Top \in Subtrees
           /\ Len(stack) > 1 => Below \in Subtrees
<1>1. Len(stack) \in Nat /\ DOMAIN stack = 1..Len(stack)
  BY DEF Stacks
<1> QED BY <1>1 DEF Top, Below, Subtrees

LEMMA ConstantMakes ==
    ASSUME NEW w \in {"true", "false", "undefined"}, VisitConstant(w)
    PROVE  \E n : FromConstant(n, w) /\ Reduce(0, n)
<1>1. PICK v : v = CASE w = "true"      -> Truth("T")
                     [] w = "false"     -> Truth("F")
                     [] w = "undefined" -> Undefined
  OBVIOUS
<1>2. PICK n : n = Leaf(NoKey, [c \in Contexts |-> Found(v, v.t, v.t, {})], "fact")
  OBVIOUS
<1>3. Reduce(0, n)
  BY <1>1, <1>2 DEF VisitConstant
<1>4. /\ Fields(n, NoKey, Blank, NoLits, 1, FALSE, "fact")
      /\ \A c \in Contexts : Entry(n, c, v, v.t, v.t, Nobody)
      /\ v = ConstantValue(w)
  BY <1>1, <1>2 DEF Leaf, Found, Fields, Entry, Blank, NoLits, Nobody, ConstantValue
<1> QED BY <1>1, <1>3, <1>4 DEF FromConstant

LEMMA KeyMakes ==
    ASSUME EvaluationAssumption, NEW k \in Keys, VisitKey(k)
    PROVE  \E n : FromKey(n, k) /\ Reduce(0, n)
<1>1. PICK n : n = Leaf(k, [c \in Contexts |->
                       Found(VisitLiteral(c, k), k, Says(c.lit[k]), {})], "other")
  OBVIOUS
<1>2. k # NoKey
  BY DEF EvaluationAssumption
<1>3. FromKey(n, k)
  BY <1>1, <1>2 DEF FromKey, Blank, OnlyLit, Nobody, Leaf, Found, Fields, Entry
<1> QED BY <1>1, <1>3 DEF VisitKey

LEMMA ModalMakes ==
    ASSUME NEW op, VisitModal(op)
    PROVE  \E n : FromModal(n, Top, op) /\ Reduce(1, n)
<1>1. PICK t : t = Top
  OBVIOUS
<1>2. PICK n : n = Unary(op, [c \in Contexts |->
         Found(Stacked(c, Epistemic(c, op, Top.key)), CoreEpistemic(c, op, Top.at[c].core),
               ModalMeaning(c, op, Top.key), {})],
         IF op = "shi" /\ Top.key # NoKey THEN "fact" ELSE "other")
  OBVIOUS
<1>3. Reduce(1, n)
  BY <1>2 DEF VisitModal
<1>4. FromModal(n, t, op)
  BY <1>1, <1>2 DEF FromModal, Nobody, Before, UnaryFields, Fields, Entry, Unary, Around, Found, Stacked,
                    StackedOn, FactIf
<1> QED BY <1>1, <1>3, <1>4

LEMMA NegationMakes ==
    ASSUME VisitNegation
    PROVE  \E n : FromNegation(n, Top) /\ Reduce(1, n)
<1>1. PICK t : t = Top
  OBVIOUS
<1>2. PICK n : n = Unary("nai", [c \in Contexts |->
         Found(Stacked(c, Negation(Top.at[c].val)), CoreNegation(Top.at[c].core),
               KNot(Top.at[c].meaning), {})],
         IF Top.form = "fact" THEN "fact" ELSE "other")
  OBVIOUS
<1>3. Reduce(1, n)
  BY <1>2 DEF VisitNegation
<1>4. FromNegation(n, t)
  BY <1>1, <1>2 DEF FromNegation, Nobody, Before, UnaryFields, Fields, Entry, Unary, Around, Found, Stacked,
                    StackedOn, FactIf
<1> QED BY <1>1, <1>3, <1>4

LEMMA QuantifierMakes ==
    ASSUME NEW op, VisitQuantifier(op)
    PROVE  \E n : FromQuantifier(n, Top, op) /\ Reduce(1, n)
<1>1. PICK t : t = Top
  OBVIOUS
<1>2. PICK n : n = Unary(op, [c \in Contexts |->
         LET v == Stacked(c, Quantifier(op, Top.at[c].val)) IN
         Found(v, Top.at[c].core, v.t, {})],
         "other")
  OBVIOUS
<1>3. Reduce(1, n)
  BY <1>2 DEF VisitQuantifier
<1>4. FromQuantifier(n, t, op)
  BY <1>1, <1>2 DEF FromQuantifier, Nobody, Before, UnaryFields, Fields, Entry, Unary, Around, Found, Stacked,
                    StackedOn
<1> QED BY <1>1, <1>3, <1>4

LEMMA ScopeMakes ==
    ASSUME VisitScope
    PROVE  \E n : FromScope(n, Top) /\ Reduce(1, n)
<1>1. PICK t : t = Top
  OBVIOUS
<1>2. PICK n : n = Around(<<"sek">> \o Append(Top.ops, "sek"), [c \in Contexts |->
         Found(Scope(Top.at[c].val), Top.at[c].core, Top.at[c].meaning, Top.at[c].may)],
         FALSE, "other")
  OBVIOUS
<1>3. Reduce(1, n)
  BY <1>2 DEF VisitScope
<1>4. FromScope(n, t)
  BY <1>1, <1>2 DEF FromScope, Inside, UnaryFields, Fields, Entry, Around, Found
<1> QED BY <1>1, <1>3, <1>4

LEMMA ActionMakes ==
    ASSUME VisitAction
    PROVE  \E n : FromAction(n, Top) /\ Reduce(1, n)
<1>1. PICK t : t = Top
  OBVIOUS
<1>2. PICK n : n = Around(<<"mek">> \o Top.ops, [c \in Contexts |->
         Found(ActionEvent(c, Top.at[c].val), CoreAction(Top.at[c].core), "U",
               {TargetOf(Top.at[c].val)})],
         FALSE, IF Top.key # NoKey THEN "clause" ELSE "other")
  OBVIOUS
<1>3. Reduce(1, n)
  BY <1>2 DEF VisitAction
<1>4. FromAction(n, t)
  BY <1>1, <1>2 DEF FromAction, OnlyTarget, ClauseForm, Before, UnaryFields, Fields, Entry, Around, Found
<1> QED BY <1>1, <1>3, <1>4

LEMMA AndMakes ==
    ASSUME VisitAnd
    PROVE  \E n : FromAnd(n, Below, Top) /\ Reduce(2, n)
<1>1. PICK t, b : t = Top /\ b = Below
  OBVIOUS
<1>2. PICK n : n = Binding(Infix("an"), [c \in Contexts |->
         LET l == Below.at[c]
             r == Top.at[c]
         IN  Found(Conjunction("an", l.val, r.val), CoreAnd(l.core, r.core),
                   KAnd(l.meaning, r.meaning), l.may \cup r.may)],
         BothFacts)
  OBVIOUS
<1>3. Reduce(2, n)
  BY <1>2 DEF VisitAnd
<1>4. FromAnd(n, b, t)
  BY <1>1, <1>2 DEF FromAnd, MayOfBoth, BothFact, Between, BinaryFields, LitsOf, SizeOf, Fields, Entry, Binding, Found, Infix, BothFacts, FactIf
<1> QED BY <1>1, <1>3, <1>4

LEMMA OrMakes ==
    ASSUME VisitOr
    PROVE  \E n : FromOr(n, Below, Top) /\ Reduce(2, n)
<1>1. PICK t, b : t = Top /\ b = Below
  OBVIOUS
<1>2. PICK n : n = Binding(Infix("ur"), [c \in Contexts |->
         LET l == Below.at[c]
             r == Top.at[c]
         IN  Found(Disjunction(l.val, r.val), CoreOr(l.core, r.core),
                   KOr(l.meaning, r.meaning), l.may \cup r.may)],
         BothFacts)
  OBVIOUS
<1>3. Reduce(2, n)
  BY <1>2 DEF VisitOr
<1>5. \A c \in Contexts : Disjoinable(b.at[c].val, t.at[c].val)
  BY <1>1 DEF VisitOr
<1>4. FromOr(n, b, t)
  BY <1>1, <1>2, <1>5 DEF FromOr, MayOfBoth, BothFact, Between, BinaryFields, LitsOf, SizeOf, Fields, Entry, Binding, Found, Infix, BothFacts, FactIf
<1> QED BY <1>1, <1>3, <1>4

LEMMA KraMakes ==
    ASSUME VisitKra
    PROVE  \E n : FromKra(n, Below, Top) /\ Reduce(2, n)
<1>1. PICK t, b : t = Top /\ b = Below
  OBVIOUS
<1>2. PICK n : n = Binding(Infix("kra"), [c \in Contexts |->
         LET l == Below.at[c]
             r == Top.at[c]
         IN  Found(Conjunction("kra", l.val, r.val), CoreOther(l.core, r.core),
                   KGuard(l.meaning, r.meaning), Behind(l, r))],
         "other")
  OBVIOUS
<1>3. Reduce(2, n)
  BY <1>2 DEF VisitKra
<1>4. FromKra(n, b, t)
  BY <1>1, <1>2 DEF FromKra, MayBehind, Between, BinaryFields, LitsOf, SizeOf, Fields, Entry, Binding, Found, Infix, Behind
<1> QED BY <1>1, <1>3, <1>4

LEMMA JuxtapositionMakes ==
    ASSUME VisitJuxtaposition
    PROVE  \E n : FromJuxtaposition(n, Below, Top) /\ Reduce(2, n)
<1>1. PICK t, b : t = Top /\ b = Below
  OBVIOUS
<1>2. PICK n : n = Binding(Below.ops \o Top.ops, [c \in Contexts |->
         LET l == Below.at[c]
             r == Top.at[c]
         IN  Found(Juxtaposition(l.val, r.val), "reject", "U", l.may \cup r.may)],
         "other")
  OBVIOUS
<1>3. Reduce(2, n)
  BY <1>2 DEF VisitJuxtaposition
<1>4. FromJuxtaposition(n, b, t)
  BY <1>1, <1>2 DEF FromJuxtaposition, MayOfBoth, Beside, BinaryFields, LitsOf, SizeOf, Fields, Entry, Binding, Found
<1> QED BY <1>1, <1>3, <1>4

LEMMA ConditionalMakes ==
    ASSUME VisitConditional
    PROVE  \E n : FromConditional(n, Below, Top) /\ Reduce(2, n)
<1>1. PICK t, b : t = Top /\ b = Below
  OBVIOUS
<1>2. PICK n : n = Binding(Below.ops \o <<"khi", "sek">> \o Append(Top.ops, "sek"), [c \in Contexts |->
         LET l == Below.at[c]
             r == Top.at[c]
         IN  Found(Guarded(c, l.val, r.val), CoreGuarded(l.core, r.core),
                   KGuard(l.meaning, r.meaning), Behind(l, r))],
         IF Below.form = "fact" /\ Top.form = "clause" THEN "guarded" ELSE "other")
  OBVIOUS
<1>3. Reduce(2, n)
  BY <1>2 DEF VisitConditional
<1>4. FromConditional(n, b, t)
  BY <1>1, <1>2 DEF FromConditional, MayBehind, GuardedForm, Conditionally, BinaryFields, LitsOf, SizeOf, Fields, Entry, Binding, Found, Behind
<1> QED BY <1>1, <1>3, <1>4

\* Every step makes one subtree of those there are, or runs the chain.
LEMMA StepsMake ==
    ASSUME EvaluationAssumption, Stacks, [Next]_vars
    PROVE  \/ UNCHANGED vars
           \/ Run
           \/ \E n : /\ Made(n, Subtrees)
                    /\ Stacks' /\ Subtrees' \subseteq Subtrees \cup {n}
                    /\ chain = Nothing /\ UNCHANGED <<chain, outcome>>
<1> DEFINE Extended(n) == /\ Stacks' /\ Subtrees' \subseteq Subtrees \cup {n}
                          /\ chain = Nothing /\ UNCHANGED <<chain, outcome>>
<1> SUFFICES ASSUME Next, ~Run
             PROVE  \E n : Made(n, Subtrees) /\ Extended(n)
  OBVIOUS
<1>0. Len(stack) \in Nat
  BY DEF Stacks
<1>1. ASSUME NEW n, Reduce(0, n) PROVE Extended(n)
  BY <1>0, <1>1, ReducedStack
<1>2. ASSUME NEW n, Reduce(1, n), Len(stack) > 0 PROVE Extended(n) /\ Top \in Subtrees
  BY <1>0, <1>2, ReducedStack, Operands
<1>3. ASSUME NEW n, Reduce(2, n), Len(stack) > 1
      PROVE  Extended(n) /\ Top \in Subtrees /\ Below \in Subtrees
  BY <1>0, <1>3, ReducedStack, Operands
<1> HIDE DEF Extended
<1>4. ASSUME NEW w \in Constants, VisitConstant(w)
      PROVE  \E n : Made(n, Subtrees) /\ Extended(n)
  <2>1. w \in {"true", "false", "undefined"}
    BY DEF EvaluationAssumption
  <2>2. PICK n : FromConstant(n, w) /\ Reduce(0, n)
    BY <1>4, <2>1, ConstantMakes
  <2> QED BY <1>1, <2>1, <2>2 DEF Made, Leaves
<1>5. ASSUME NEW k \in Keys, VisitKey(k)
      PROVE  \E n : Made(n, Subtrees) /\ Extended(n)
  <2>1. PICK n : FromKey(n, k) /\ Reduce(0, n)
    BY <1>5, KeyMakes
  <2> QED BY <1>1, <2>1 DEF Made, Leaves
<1>6. ASSUME NEW op \in Modal, VisitModal(op)
      PROVE  \E n : Made(n, Subtrees) /\ Extended(n)
  <2>1. PICK n : FromModal(n, Top, op) /\ Reduce(1, n)
    BY <1>6, ModalMakes
  <2>2. Len(stack) > 0
    BY <1>6 DEF VisitModal
  <2> QED BY <1>2, <2>1, <2>2 DEF Made, OfOne
<1>7. ASSUME NEW op \in Quantifiers, VisitQuantifier(op)
      PROVE  \E n : Made(n, Subtrees) /\ Extended(n)
  <2>1. PICK n : FromQuantifier(n, Top, op) /\ Reduce(1, n)
    BY <1>7, QuantifierMakes
  <2>2. Len(stack) > 0
    BY <1>7 DEF VisitQuantifier
  <2> QED BY <1>2, <2>1, <2>2 DEF Made, OfOne
<1>8. ASSUME VisitNegation PROVE \E n : Made(n, Subtrees) /\ Extended(n)
  <2>1. PICK n : FromNegation(n, Top) /\ Reduce(1, n)
    BY <1>8, NegationMakes
  <2>2. Len(stack) > 0
    BY <1>8 DEF VisitNegation
  <2> QED BY <1>2, <2>1, <2>2 DEF Made, OfOne
<1>9. ASSUME VisitScope PROVE \E n : Made(n, Subtrees) /\ Extended(n)
  <2>1. PICK n : FromScope(n, Top) /\ Reduce(1, n)
    BY <1>9, ScopeMakes
  <2>2. Len(stack) > 0
    BY <1>9 DEF VisitScope
  <2> QED BY <1>2, <2>1, <2>2 DEF Made, OfOne
<1>10. ASSUME VisitAction PROVE \E n : Made(n, Subtrees) /\ Extended(n)
  <2>1. PICK n : FromAction(n, Top) /\ Reduce(1, n)
    BY <1>10, ActionMakes
  <2>2. Len(stack) > 0
    BY <1>10 DEF VisitAction
  <2> QED BY <1>2, <2>1, <2>2 DEF Made, OfOne
<1>11. ASSUME VisitAnd PROVE \E n : Made(n, Subtrees) /\ Extended(n)
  <2>1. PICK n : FromAnd(n, Below, Top) /\ Reduce(2, n)
    BY <1>11, AndMakes
  <2>2. Len(stack) > 1
    BY <1>11 DEF VisitAnd
  <2> QED BY <1>3, <2>1, <2>2 DEF Made, OfTwo
<1>12. ASSUME VisitOr PROVE \E n : Made(n, Subtrees) /\ Extended(n)
  <2>1. PICK n : FromOr(n, Below, Top) /\ Reduce(2, n)
    BY <1>12, OrMakes
  <2>2. Len(stack) > 1
    BY <1>12 DEF VisitOr
  <2> QED BY <1>3, <2>1, <2>2 DEF Made, OfTwo
<1>13. ASSUME VisitKra PROVE \E n : Made(n, Subtrees) /\ Extended(n)
  <2>1. PICK n : FromKra(n, Below, Top) /\ Reduce(2, n)
    BY <1>13, KraMakes
  <2>2. Len(stack) > 1
    BY <1>13 DEF VisitKra
  <2> QED BY <1>3, <2>1, <2>2 DEF Made, OfTwo
<1>14. ASSUME VisitJuxtaposition PROVE \E n : Made(n, Subtrees) /\ Extended(n)
  <2>1. PICK n : FromJuxtaposition(n, Below, Top) /\ Reduce(2, n)
    BY <1>14, JuxtapositionMakes
  <2>2. Len(stack) > 1
    BY <1>14 DEF VisitJuxtaposition
  <2> QED BY <1>3, <2>1, <2>2 DEF Made, OfTwo
<1>15. ASSUME VisitConditional PROVE \E n : Made(n, Subtrees) /\ Extended(n)
  <2>1. PICK n : FromConditional(n, Below, Top) /\ Reduce(2, n)
    BY <1>15, ConditionalMakes
  <2>2. Len(stack) > 1
    BY <1>15 DEF VisitConditional
  <2> QED BY <1>3, <2>1, <2>2 DEF Made, OfTwo
<1> QED BY <1>4, <1>5, <1>6, <1>7, <1>8, <1>9, <1>10, <1>11, <1>12, <1>13, <1>14, <1>15
       DEF Next

-----------------------------------------------------------------------------
(* Shape and type of the subtrees *)

\* The operators of a text that is put together.
LEMMA JoinedOps ==
    ASSUME NEW a \in Seq(Words), NEW b \in Seq(Words)
    PROVE  a \o b \in Seq(Words) /\ ToSet(a \o b) = ToSet(a) \cup ToSet(b)
<1>1. PICK s : s = a \o b
  OBVIOUS
<1>2. /\ s \in Seq(Words) /\ Len(s) = Len(a) + Len(b)
      /\ \A i \in 1..(Len(a) + Len(b)) : s[i] = IF i <= Len(a) THEN a[i] ELSE b[i - Len(a)]
  BY <1>1, ConcatProperties
<1>3. /\ Len(a) \in Nat /\ Len(b) \in Nat
      /\ DOMAIN a = 1..Len(a) /\ DOMAIN b = 1..Len(b) /\ DOMAIN s = 1..(Len(a) + Len(b))
  BY <1>2
<1>4. \A i \in DOMAIN s : s[i] \in ToSet(a) \cup ToSet(b)
  <2> SUFFICES ASSUME NEW i \in DOMAIN s PROVE s[i] \in ToSet(a) \cup ToSet(b)
    OBVIOUS
  <2>1. CASE i <= Len(a)
    <3>1. i \in DOMAIN a /\ s[i] = a[i]
      BY <1>2, <1>3, <2>1
    <3> QED BY <3>1 DEF ToSet
  <2>2. CASE ~(i <= Len(a))
    <3>1. i - Len(a) \in DOMAIN b /\ s[i] = b[i - Len(a)]
      BY <1>2, <1>3, <2>2
    <3> QED BY <3>1 DEF ToSet
  <2> QED BY <2>1, <2>2
<1>5. \A i \in DOMAIN a : i \in DOMAIN s /\ s[i] = a[i]
  BY <1>2, <1>3
<1>6. \A i \in DOMAIN b : i + Len(a) \in DOMAIN s /\ s[i + Len(a)] = b[i]
  BY <1>2, <1>3
<1>7. ToSet(s) = ToSet(a) \cup ToSet(b)
  BY <1>4, <1>5, <1>6 DEF ToSet
<1> QED BY <1>1, <1>2, <1>7

LEMMA OneOp ==
    ASSUME NEW op \in Words
    PROVE  <<op>> \in Seq(Words) /\ ToSet(<<op>>) = {op}
<1>1. PICK s : s = <<op>>
  OBVIOUS
<1>2. s \in Seq(Words) /\ DOMAIN s = {1} /\ s[1] = op
  BY <1>1
<1>3. ToSet(s) = {op}
  BY <1>2 DEF ToSet
<1> QED BY <1>1, <1>2, <1>3

LEMMA PrefixedOps ==
    ASSUME NEW op \in Words, NEW a \in Seq(Words)
    PROVE  <<op>> \o a \in Seq(Words) /\ ToSet(<<op>> \o a) = {op} \cup ToSet(a)
<1>1. PICK s : s = <<op>>
  OBVIOUS
<1>2. s \in Seq(Words) /\ ToSet(s) = {op}
  BY <1>1, OneOp
<1>3. s \o a \in Seq(Words) /\ ToSet(s \o a) = ToSet(s) \cup ToSet(a)
  BY <1>2, JoinedOps
<1> QED BY <1>1, <1>2, <1>3

LEMMA SuffixedOps ==
    ASSUME NEW op \in Words, NEW a \in Seq(Words)
    PROVE  Append(a, op) \in Seq(Words) /\ ToSet(Append(a, op)) = {op} \cup ToSet(a)
<1>1. PICK s, u : s = <<op>> /\ u = Append(a, op)
  OBVIOUS
<1>2. s \in Seq(Words) /\ ToSet(s) = {op}
  BY <1>1, OneOp
<1>3. u = a \o s
  BY <1>1
<1>4. a \o s \in Seq(Words) /\ ToSet(a \o s) = ToSet(a) \cup ToSet(s)
  BY <1>2, JoinedOps
<1> QED BY <1>1, <1>2, <1>3, <1>4

LEMMA InfixedOps ==
    ASSUME NEW op \in Words, NEW a \in Seq(Words), NEW b \in Seq(Words)
    PROVE  /\ a \o <<op>> \o b \in Seq(Words)
           /\ ToSet(a \o <<op>> \o b) = {op} \cup ToSet(a) \cup ToSet(b)
<1>1. PICK s : s = <<op>>
  OBVIOUS
<1>2. s \in Seq(Words) /\ ToSet(s) = {op}
  BY <1>1, OneOp
<1>3. PICK u : u = a \o s
  OBVIOUS
<1>4. u \in Seq(Words) /\ ToSet(u) = ToSet(a) \cup {op}
  BY <1>2, <1>3, JoinedOps
<1>5. u \o b \in Seq(Words) /\ ToSet(u \o b) = ToSet(u) \cup ToSet(b)
  BY <1>4, JoinedOps
<1> QED BY <1>1, <1>3, <1>4, <1>5

LEMMA GuardedOps ==
    ASSUME NEW a \in Seq(Words), NEW b \in Seq(Words)
    PROVE  /\ a \o <<"khi", "sek">> \o Append(b, "sek") \in Seq(Words)
           /\ ToSet(a \o <<"khi", "sek">> \o Append(b, "sek"))
                 = {"khi", "sek"} \cup ToSet(a) \cup ToSet(b)
<1>1. PICK s, e : s = <<"khi", "sek">> /\ e = Append(b, "sek")
  OBVIOUS
<1>2. s \in Seq(Words) /\ ToSet(s) = {"khi", "sek"}
  <2>1. s \in Seq(Words) /\ DOMAIN s = {1, 2} /\ s[1] = "khi" /\ s[2] = "sek"
    BY <1>1 DEF Words
  <2> QED BY <2>1 DEF ToSet
<1>3. e \in Seq(Words) /\ ToSet(e) = {"sek"} \cup ToSet(b)
  BY <1>1, SuffixedOps DEF Words
<1>4. PICK u : u = a \o s
  OBVIOUS
<1>5. u \in Seq(Words) /\ ToSet(u) = ToSet(a) \cup {"khi", "sek"}
  BY <1>2, <1>4, JoinedOps
<1>6. u \o e \in Seq(Words) /\ ToSet(u \o e) = ToSet(u) \cup ToSet(e)
  BY <1>3, <1>5, JoinedOps
<1> QED BY <1>1, <1>3, <1>4, <1>5, <1>6

\* The operators of a subtree are its own and those of its children.
LEMMA OpsAround ==
    ASSUME NEW t, t.ops \in Seq(Words)
    PROVE  /\ \A op \in Words : /\ Before(op, t) \in Seq(Words)
                                /\ ToSet(Before(op, t)) = {op} \cup ToSet(t.ops)
           /\ Inside(t) \in Seq(Words)
           /\ ToSet(Inside(t)) = {"sek"} \cup ToSet(t.ops)
<1>1. \A op \in Words : /\ Before(op, t) \in Seq(Words)
                        /\ ToSet(Before(op, t)) = {op} \cup ToSet(t.ops)
  BY PrefixedOps, Zenon DEF Before
<1>2. PICK e : e = Append(t.ops, "sek")
  OBVIOUS
<1>3. e \in Seq(Words) /\ ToSet(e) = {"sek"} \cup ToSet(t.ops)
  BY <1>2, SuffixedOps DEF Words
<1>4. PICK o : o = <<"sek">> \o e
  OBVIOUS
<1>5. o \in Seq(Words) /\ ToSet(o) = {"sek"} \cup ToSet(t.ops)
  BY <1>3, <1>4, PrefixedOps DEF Words
<1>6. Inside(t) = o
  BY <1>2, <1>4, Zenon DEF Inside
<1> QED BY <1>1, <1>5, <1>6

LEMMA OpsBetween ==
    ASSUME NEW op \in Words, NEW l, NEW r, l.ops \in Seq(Words), r.ops \in Seq(Words)
    PROVE  /\ Between(op, l, r) \in Seq(Words)
           /\ ToSet(Between(op, l, r)) = {op} \cup ToSet(l.ops) \cup ToSet(r.ops)
BY InfixedOps, Zenon DEF Between

LEMMA OpsBeside ==
    ASSUME NEW l, NEW r, l.ops \in Seq(Words), r.ops \in Seq(Words)
    PROVE  /\ Beside(l, r) \in Seq(Words)
           /\ ToSet(Beside(l, r)) = ToSet(l.ops) \cup ToSet(r.ops)
           /\ Conditionally(l, r) \in Seq(Words)
           /\ ToSet(Conditionally(l, r)) = {"khi", "sek"} \cup ToSet(l.ops) \cup ToSet(r.ops)
<1>2. Beside(l, r) \in Seq(Words) /\ ToSet(Beside(l, r)) = ToSet(l.ops) \cup ToSet(r.ops)
  BY JoinedOps, Zenon DEF Beside
<1>3. /\ Conditionally(l, r) \in Seq(Words)
      /\ ToSet(Conditionally(l, r)) = {"khi", "sek"} \cup ToSet(l.ops) \cup ToSet(r.ops)
  BY GuardedOps, Zenon DEF Conditionally
<1> QED BY <1>2, <1>3

LEMMA FieldsGive ==
    ASSUME NEW n, NEW key, NEW ops, NEW lits, NEW size, NEW unary, NEW form,
           Fields(n, key, ops, lits, size, unary, form)
    PROVE  /\ n.key = key /\ n.ops = ops /\ n.lits = lits /\ n.size = size
           /\ n.unary = unary /\ n.form = form /\ DOMAIN n.at = Contexts
           /\ Fields(n, n.key, n.ops, n.lits, n.size, n.unary, n.form)
BY DEF Fields

LEMMA EntryGives ==
    ASSUME NEW n, NEW c, NEW v, NEW core, NEW m, NEW may, Entry(n, c, v, core, m, may)
    PROVE  /\ n.at[c].val = v /\ n.at[c].core = core /\ n.at[c].meaning = m
           /\ n.at[c].may = may
           /\ Entry(n, c, n.at[c].val, n.at[c].core, n.at[c].meaning, n.at[c].may)
BY DEF Entry

\* What all that is made of one subtree, or of two, has in common.
LEMMA OneGives ==
    ASSUME NEW n, NEW t, OfOne(n, t)
    PROVE  /\ n.key = NoKey /\ n.lits = t.lits /\ n.size = t.size + 1
           /\ n.unary \in BOOLEAN /\ DOMAIN n.at = Contexts
           /\ Fields(n, n.key, n.ops, n.lits, n.size, n.unary, n.form)
           /\ n.ops = Inside(t) \/ \E op \in Words : n.ops = Before(op, t)
           /\ \A op \in Quantifiers : FromQuantifier(n, t, op) => n.ops = Before(op, t)
<1>1. ASSUME NEW o, NEW u \in BOOLEAN, NEW f, UnaryFields(n, t, o, u, f)
      PROVE  /\ n.key = NoKey /\ n.lits = t.lits /\ n.size = t.size + 1
             /\ n.unary \in BOOLEAN /\ DOMAIN n.at = Contexts
             /\ Fields(n, n.key, n.ops, n.lits, n.size, n.unary, n.form)
             /\ n.ops = o
  BY <1>1, FieldsGive DEF UnaryFields
<1>2. ASSUME NEW op, FromModal(n, t, op)
      PROVE  UnaryFields(n, t, Before(op, t), TRUE, FactIf(op = "shi" /\ t.key # NoKey))
  BY <1>2 DEF FromModal
<1>3. ASSUME NEW op, FromQuantifier(n, t, op)
      PROVE  UnaryFields(n, t, Before(op, t), TRUE, "other")
  BY <1>3 DEF FromQuantifier
<1>4. ASSUME FromNegation(n, t)
      PROVE  UnaryFields(n, t, Before("nai", t), TRUE, FactIf(t.form = "fact"))
  BY <1>4 DEF FromNegation
<1>5. ASSUME FromAction(n, t)
      PROVE  UnaryFields(n, t, Before("mek", t), FALSE, ClauseForm(t))
  BY <1>5 DEF FromAction
<1>6. ASSUME FromScope(n, t)
      PROVE  UnaryFields(n, t, Inside(t), FALSE, "other")
  BY <1>6 DEF FromScope
<1>7. \A op \in Quantifiers : FromQuantifier(n, t, op) => n.ops = Before(op, t)
  BY <1>1, <1>3
<1>8. Modal \cup Quantifiers \cup {"nai", "mek"} \subseteq Words
  BY DEF Words
<1>9. CASE \E op \in Modal : FromModal(n, t, op)
  <2>1. PICK op \in Modal : FromModal(n, t, op)
    BY <1>9
  <2> QED BY <1>1, <1>2, <1>7, <1>8, <2>1
<1>10. CASE \E op \in Quantifiers : FromQuantifier(n, t, op)
  <2>1. PICK op \in Quantifiers : FromQuantifier(n, t, op)
    BY <1>10
  <2> QED BY <1>1, <1>3, <1>7, <1>8, <2>1
<1>11. CASE FromNegation(n, t)
  BY <1>1, <1>4, <1>7, <1>8, <1>11
<1>12. CASE FromScope(n, t)
  BY <1>1, <1>6, <1>7, <1>12
<1>13. CASE FromAction(n, t)
  BY <1>1, <1>5, <1>7, <1>8, <1>13
<1> QED BY <1>9, <1>10, <1>11, <1>12, <1>13 DEF OfOne

LEMMA TwoGive ==
    ASSUME NEW n, NEW l, NEW r, OfTwo(n, l, r)
    PROVE  /\ n.key = NoKey /\ n.lits = LitsOf(l, r) /\ n.size = SizeOf(l, r)
           /\ n.unary = FALSE /\ DOMAIN n.at = Contexts
           /\ Fields(n, n.key, n.ops, n.lits, n.size, n.unary, n.form)
           /\ \/ n.ops \in {Beside(l, r), Conditionally(l, r)}
              \/ \E op \in {"an", "ur", "kra"} : n.ops = Between(op, l, r)
           /\ FromOr(n, l, r) => n.ops = Between("ur", l, r)
           /\ FromKra(n, l, r) => n.ops = Between("kra", l, r)
           /\ FromConditional(n, l, r) => n.ops = Conditionally(l, r)
<1>1. ASSUME NEW o, NEW f, BinaryFields(n, l, r, o, f)
      PROVE  /\ n.key = NoKey /\ n.lits = LitsOf(l, r) /\ n.size = SizeOf(l, r)
             /\ n.unary = FALSE /\ DOMAIN n.at = Contexts
             /\ Fields(n, n.key, n.ops, n.lits, n.size, n.unary, n.form)
             /\ n.ops = o
  BY <1>1, FieldsGive DEF BinaryFields
<1>2. FromAnd(n, l, r) => \E f : BinaryFields(n, l, r, Between("an", l, r), f)
  BY DEF FromAnd
<1>3. FromOr(n, l, r) => \E f : BinaryFields(n, l, r, Between("ur", l, r), f)
  BY DEF FromOr
<1>4. FromKra(n, l, r) => BinaryFields(n, l, r, Between("kra", l, r), "other")
  BY DEF FromKra
<1>5. FromJuxtaposition(n, l, r) => BinaryFields(n, l, r, Beside(l, r), "other")
  BY DEF FromJuxtaposition
<1>6. FromConditional(n, l, r) => \E f : BinaryFields(n, l, r, Conditionally(l, r), f)
  BY DEF FromConditional
<1>7. /\ FromOr(n, l, r) => n.ops = Between("ur", l, r)
      /\ FromKra(n, l, r) => n.ops = Between("kra", l, r)
      /\ FromConditional(n, l, r) => n.ops = Conditionally(l, r)
  BY <1>1, <1>3, <1>4, <1>6
<1>8. \E o, f : /\ BinaryFields(n, l, r, o, f)
                /\ \/ o \in {Beside(l, r), Conditionally(l, r)}
                   \/ \E op \in {"an", "ur", "kra"} : o = Between(op, l, r)
  BY <1>2, <1>3, <1>4, <1>5, <1>6 DEF OfTwo
<1> QED BY <1>1, <1>7, <1>8

LEMMA OpsOfOne ==
    ASSUME NEW n, NEW t, t.ops \in Seq(Words), OfOne(n, t)
    PROVE  /\ n.ops \in Seq(Words) /\ ToSet(t.ops) \subseteq ToSet(n.ops)
           /\ \A op \in Quantifiers : FromQuantifier(n, t, op) => op \in ToSet(n.ops)
<1>1. \A op \in Quantifiers : op \in Words
  BY DEF Words
<1> QED BY <1>1, OneGives, OpsAround

LEMMA OpsOfTwo ==
    ASSUME NEW n, NEW l, NEW r, l.ops \in Seq(Words), r.ops \in Seq(Words), OfTwo(n, l, r)
    PROVE  /\ n.ops \in Seq(Words)
           /\ ToSet(l.ops) \cup ToSet(r.ops) \subseteq ToSet(n.ops)
           /\ FromKra(n, l, r) => "kra" \in ToSet(n.ops)
           /\ FromOr(n, l, r) => "ur" \in ToSet(n.ops)
           /\ FromConditional(n, l, r) => "khi" \in ToSet(n.ops)
<1>1. \A op \in {"an", "ur", "kra"} : op \in Words
  BY DEF Words
<1>2. ASSUME NEW op \in {"an", "ur", "kra"}, n.ops = Between(op, l, r)
      PROVE  /\ n.ops \in Seq(Words)
             /\ ToSet(n.ops) = {op} \cup ToSet(l.ops) \cup ToSet(r.ops)
  <2>0. op \in Words
    BY <1>1
  <2>1. /\ Between(op, l, r) \in Seq(Words)
        /\ ToSet(Between(op, l, r)) = {op} \cup ToSet(l.ops) \cup ToSet(r.ops)
    BY <2>0, OpsBetween, Zenon
  <2> QED BY <1>2, <2>1
<1>3. n.ops = Beside(l, r) =>
         n.ops \in Seq(Words) /\ ToSet(n.ops) = ToSet(l.ops) \cup ToSet(r.ops)
  BY OpsBeside
<1>4. n.ops = Conditionally(l, r) =>
         /\ n.ops \in Seq(Words)
         /\ ToSet(n.ops) = {"khi", "sek"} \cup ToSet(l.ops) \cup ToSet(r.ops)
  BY OpsBeside
<1>5. /\ FromOr(n, l, r) => n.ops = Between("ur", l, r)
      /\ FromKra(n, l, r) => n.ops = Between("kra", l, r)
      /\ FromConditional(n, l, r) => n.ops = Conditionally(l, r)
      /\ \/ n.ops \in {Beside(l, r), Conditionally(l, r)}
         \/ \E op \in {"an", "ur", "kra"} : n.ops = Between(op, l, r)
  BY TwoGive
<1> QED BY <1>2, <1>3, <1>4, <1>5

LEMMA ShapedIntro ==
    ASSUME NEW n, Fields(n, n.key, n.ops, n.lits, n.size, n.unary, n.form),
           n.key \in Keys \cup {NoKey}, n.ops \in Seq(Words), n.lits \subseteq Keys,
           n.size \in Nat \ {0}, n.unary \in BOOLEAN,
           \A c \in Contexts :
              Entry(n, c, n.at[c].val, n.at[c].core, n.at[c].meaning, n.at[c].may)
    PROVE  Shaped(n)
BY DEF Shaped

\* What an action makes of well-shaped subtrees is well-shaped.
LEMMA MadeIsShaped ==
    ASSUME EvaluationAssumption, NEW S, \A x \in S : Shaped(x), NEW n, Made(n, S)
    PROVE  Shaped(n)
<1> DEFINE Entered(c) == Entry(n, c, n.at[c].val, n.at[c].core, n.at[c].meaning, n.at[c].may)
<1>1. CASE \E w \in {"true", "false", "undefined"} : FromConstant(n, w)
  <2>1. PICK w \in {"true", "false", "undefined"} : FromConstant(n, w)
    BY <1>1
  <2>2. Fields(n, NoKey, Blank, NoLits, 1, FALSE, "fact") /\ \A c \in Contexts : Entered(c)
    BY <2>1, EntryGives DEF FromConstant
  <2>3. Blank \in Seq(Words) /\ NoLits \subseteq Keys
    BY DEF Blank, NoLits
  <2>4. n.key = NoKey /\ n.ops = Blank /\ n.lits = NoLits /\ n.size = 1
    BY <2>2 DEF Fields
  <2>5. n.unary \in BOOLEAN
    <3>1. n.unary = FALSE
      BY <2>2 DEF Fields
    <3> QED BY <3>1, Zenon
  <2>6. Fields(n, n.key, n.ops, n.lits, n.size, n.unary, n.form)
    BY <2>2 DEF Fields
  <2>7. n.key \in Keys \cup {NoKey} /\ n.ops \in Seq(Words) /\ n.lits \subseteq Keys
    BY <2>3, <2>4
  <2>8. n.size \in Nat \ {0}
    BY <2>4
  <2> QED BY <2>2, <2>5, <2>6, <2>7, <2>8, ShapedIntro, Zenon
<1>2. CASE \E k \in Keys : FromKey(n, k)
  <2>1. PICK k \in Keys : FromKey(n, k)
    BY <1>2
  <2>2. Fields(n, k, Blank, OnlyLit(k), 1, FALSE, "other") /\ \A c \in Contexts : Entered(c)
    <3>1. ASSUME NEW c \in Contexts PROVE Entered(c)
      <4>1. PICK v, m : v = VisitLiteral(c, k) /\ m = Says(c.lit[k])
        OBVIOUS
      <4>2. Entry(n, c, v, k, m, Nobody)
        BY <2>1, <4>1 DEF FromKey
      <4> QED BY <4>2, EntryGives
    <3> QED BY <2>1, <3>1 DEF FromKey
  <2>3. Blank \in Seq(Words) /\ OnlyLit(k) \subseteq Keys
    BY DEF Blank, OnlyLit
  <2>4. n.key = k /\ n.ops = Blank /\ n.lits = OnlyLit(k) /\ n.size = 1
    BY <2>2 DEF Fields
  <2>5. n.unary \in BOOLEAN
    <3>1. n.unary = FALSE
      BY <2>2 DEF Fields
    <3> QED BY <3>1, Zenon
  <2>6. Fields(n, n.key, n.ops, n.lits, n.size, n.unary, n.form)
    BY <2>2 DEF Fields
  <2>7. n.key \in Keys \cup {NoKey} /\ n.ops \in Seq(Words) /\ n.lits \subseteq Keys
    BY <2>3, <2>4
  <2>8. n.size \in Nat \ {0}
    BY <2>4
  <2> QED BY <2>2, <2>5, <2>6, <2>7, <2>8, ShapedIntro, Zenon
<1>3. CASE \E t \in S : OfOne(n, t)
  <2>1. PICK t \in S : OfOne(n, t)
    BY <1>3
  <2>2. t.ops \in Seq(Words) /\ t.lits \subseteq Keys /\ t.size \in Nat \ {0}
    BY DEF Shaped
  <2>3. n.ops \in Seq(Words)
    BY <2>1, <2>2, OpsOfOne
  <2>4. /\ n.key = NoKey /\ n.lits = t.lits /\ n.size = t.size + 1 /\ n.unary \in BOOLEAN
        /\ Fields(n, n.key, n.ops, n.lits, n.size, n.unary, n.form)
    BY <2>1, OneGives
  <2>5. \A c \in Contexts : Entered(c)
    <3>1. CASE \E op \in Modal : FromModal(n, t, op)
      BY <3>1, EntryGives DEF FromModal
    <3>2. CASE \E op \in Quantifiers : FromQuantifier(n, t, op)
      BY <3>2, EntryGives DEF FromQuantifier
    <3>3. CASE FromNegation(n, t)
      BY <3>3, EntryGives DEF FromNegation
    <3>4. CASE FromScope(n, t)
      BY <3>4, EntryGives DEF FromScope
    <3>5. CASE FromAction(n, t)
      BY <3>5, EntryGives DEF FromAction
    <3> QED BY <2>1, <3>1, <3>2, <3>3, <3>4, <3>5 DEF OfOne
  <2> QED BY <2>2, <2>3, <2>4, <2>5 DEF Shaped
<1>4. CASE \E l, r \in S : OfTwo(n, l, r)
  <2>1. PICK l, r \in S : OfTwo(n, l, r)
    BY <1>4
  <2>2. /\ l.ops \in Seq(Words) /\ l.lits \subseteq Keys /\ l.size \in Nat \ {0}
        /\ r.ops \in Seq(Words) /\ r.lits \subseteq Keys /\ r.size \in Nat \ {0}
    BY DEF Shaped
  <2>3. n.ops \in Seq(Words)
    BY <2>1, <2>2, OpsOfTwo
  <2>4. /\ n.key = NoKey /\ n.lits = LitsOf(l, r) /\ n.size = SizeOf(l, r)
        /\ n.unary = FALSE
        /\ Fields(n, n.key, n.ops, n.lits, n.size, n.unary, n.form)
    BY <2>1, TwoGive
  <2>5. LitsOf(l, r) \subseteq Keys /\ SizeOf(l, r) \in Nat \ {0}
    BY <2>2 DEF LitsOf, SizeOf
  <2>6. \A c \in Contexts : Entered(c)
    <3>1. CASE FromAnd(n, l, r)
      BY <3>1, EntryGives DEF FromAnd
    <3>2. CASE FromOr(n, l, r)
      BY <3>2, EntryGives DEF FromOr
    <3>3. CASE FromKra(n, l, r)
      BY <3>3, EntryGives DEF FromKra
    <3>4. CASE FromJuxtaposition(n, l, r)
      BY <3>4, EntryGives DEF FromJuxtaposition
    <3>5. CASE FromConditional(n, l, r)
      BY <3>5, EntryGives DEF FromConditional
    <3> QED BY <2>1, <3>1, <3>2, <3>3, <3>4, <3>5 DEF OfTwo
  <2> QED BY <2>3, <2>4, <2>5, <2>6 DEF Shaped
<1> QED BY <1>1, <1>2, <1>3, <1>4 DEF Made, Leaves

-----------------------------------------------------------------------------
(* Values of the subtrees *)

Typed(n) ==
    \A c \in Contexts :
        /\ Proper(n.at[c].val)
        /\ n.at[c].core \in CoreValues
        /\ n.at[c].meaning \in K3

\* What a context says of a key.
LEMMA ContextFacts ==
    ASSUME EvaluationAssumption, NEW c \in Contexts
    PROVE  /\ c \in Context /\ c.strict \in BOOLEAN /\ c.threshold \in BOOLEAN
           /\ \A k \in Keys : /\ c.lit[k] \in Maybe /\ c.know[k] \in Maybe
                              /\ c.bel[k] \in Maybe /\ c.certain[k] \in BOOLEAN
                              /\ FirstOf(c.know[k], c.bel[k]) \in Maybe
<1>1. c \in Context
  BY DEF EvaluationAssumption
<1>2. \A k \in Keys : c.know[k] \in Maybe /\ c.bel[k] \in Maybe
  BY <1>1 DEF Context
<1> QED BY <1>1, <1>2, FirstEntry DEF Context

LEMMA SaysFacts ==
    ASSUME NEW x \in Maybe
    PROVE  Says(x) \in K3 /\ (x # "none" => Says(x) = x /\ x \in {"T", "F"})
BY DEF Says, Maybe, K3

LEMMA LiteralFacts ==
    ASSUME EvaluationAssumption, NEW c \in Contexts, NEW k \in Keys
    PROVE  /\ Proper(VisitLiteral(c, k)) /\ VisitLiteral(c, k).acts = {}
           /\ VisitLiteral(c, k).t = "U" /\ VisitLiteral(c, k).d \in {"undefined", "literal"}
           /\ Unwrap(VisitLiteral(c, k)).t = Says(c.lit[k])
           /\ VisitLiteral(c, k).d = "undefined" <=> c.lit[k] = "none"
           /\ VisitLiteral(c, k).d = "literal" => VisitLiteral(c, k).key = k
<1>1. c.lit[k] \in Maybe
  BY ContextFacts
<1>2. CASE c.lit[k] = "none"
  <2>1. VisitLiteral(c, k) = Undefined
    BY <1>2 DEF VisitLiteral
  <2> QED BY <1>2, <2>1, AtomConstants, AtomsAreProper DEF Says, Unwrap
<1>3. CASE c.lit[k] # "none"
  <2>1. VisitLiteral(c, k) = Literal(k, Truth(c.lit[k])) /\ c.lit[k] \in {"T", "F"}
    BY <1>1, <1>3 DEF VisitLiteral, Maybe
  <2>2. Atom(VisitLiteral(c, k))
    BY <2>1 DEF Atom
  <2>3. PICK v : v = Truth(c.lit[k])
    OBVIOUS
  <2>4. v.t = c.lit[k]
    BY <2>3, AtomConstants
  <2>5. /\ Literal(k, v).d = "literal" /\ Literal(k, v).acts = {} /\ Literal(k, v).t = "U"
        /\ Literal(k, v).key = k /\ Literal(k, v).items[1] = v
    BY DEF Literal, Value
  <2> QED BY <1>3, <2>1, <2>2, <2>3, <2>4, <2>5, AtomsAreProper DEF Says, Unwrap
<1> QED BY <1>2, <1>3

\* An error stays what it is under a unary operator.
LEMMA StackedFacts ==
    ASSUME NEW t, NEW c, NEW v, Proper(t.at[c].val)
    PROVE  \/ StackedOn(t, c, v) = v
           \/ StackedOn(t, c, v) = Failure /\ t.at[c].val = Failure
BY ProperFacts DEF StackedOn

LEMMA StackedPlain ==
    ASSUME NEW t, NEW c, NEW v \in Plain, Proper(t.at[c].val)
    PROVE  StackedOn(t, c, v) \in Plain
BY StackedFacts DEF Plain

\* The core computes with core values.
LEMMA CoreTypes ==
    ASSUME EvaluationAssumption, NEW c \in Contexts, NEW l \in CoreValues, NEW r \in CoreValues
    PROVE  /\ \A op \in Modal : CoreEpistemic(c, op, l) \in CoreValues
           /\ CoreNegation(l) \in CoreValues /\ CoreAction(l) \in CoreValues
           /\ CoreAnd(l, r) \in CoreValues /\ CoreOr(l, r) \in CoreValues
           /\ CoreOther(l, r) \in CoreValues /\ CoreGuarded(l, r) \in CoreValues
<1>1. \A k \in Keys : /\ c.know[k] \in Maybe /\ Says(c.bel[k]) \in K3
                      /\ FirstOf(c.know[k], c.bel[k]) \in Maybe
  BY ContextFacts, SaysFacts
<1>2. CoreRefuse(c) \in CoreValues
  BY DEF CoreRefuse, CoreValues, K3
<1>3. ASSUME NEW op \in Modal PROVE CoreEpistemic(c, op, l) \in CoreValues
  <2>1. CASE l \notin Keys
    BY <2>1 DEF CoreEpistemic, CoreValues, K3
  <2>2. CASE l \in Keys
    <3>1. CoreCertain(c, l) \in CoreValues
      BY <1>1, <1>2, <2>2 DEF CoreCertain, CoreValues, Maybe, K3
    <3>2. CASE op = "shi"
      BY <1>1, <1>2, <2>2, <3>2 DEF CoreEpistemic, CoreValues, Maybe, K3
    <3>3. CASE op = "vek"
      BY <1>1, <2>2, <3>3 DEF CoreEpistemic, CoreValues
    <3>4. CASE op = "sha"
      BY <2>2, <3>1, <3>4 DEF CoreEpistemic
    <3> QED BY <3>2, <3>3, <3>4 DEF Modal
  <2> QED BY <2>1, <2>2
<1>4. CoreNegation(l) \in CoreValues /\ CoreAction(l) \in CoreValues
  BY DEF CoreNegation, CoreAction, CoreValues, K3, KNot
<1>5. CoreAnd(l, r) \in CoreValues
  BY DEF CoreAnd, CoreConnective, KAnd, CoreValues, K3
<1>6. CoreOr(l, r) \in CoreValues
  BY DEF CoreOr, CoreConnective, KOr, CoreValues, K3
<1>7. CoreOther(l, r) \in CoreValues
  BY DEF CoreOther, CoreValues, K3
<1>8. CoreGuarded(l, r) \in CoreValues
  BY DEF CoreGuarded, CoreValues, K3
<1> QED BY <1>3, <1>4, <1>5, <1>6, <1>7, <1>8

LEMMA KleeneTypes ==
    ASSUME NEW x \in K3, NEW y \in K3
    PROVE  KNot(x) \in K3 /\ KAnd(x, y) \in K3 /\ KOr(x, y) \in K3 /\ KGuard(x, y) \in K3
BY DEF KNot, KAnd, KOr, KGuard, K3

LEMMA ModalMeaningType ==
    ASSUME EvaluationAssumption, NEW c \in Contexts, NEW op \in Modal,
           NEW k \in Keys \cup {NoKey}
    PROVE  ModalMeaning(c, op, k) \in K3
<1>1. CASE k = NoKey
  BY <1>1 DEF ModalMeaning, K3
<1>2. CASE k # NoKey
  <2>1. /\ Says(c.know[k]) \in K3 /\ Says(FirstOf(c.know[k], c.bel[k])) \in K3
    BY <1>2, ContextFacts, SaysFacts
  <2>2. CASE op = "shi"
    BY <1>2, <2>1, <2>2 DEF ModalMeaning
  <2>3. CASE op = "vek"
    BY <1>2, <2>1, <2>3 DEF ModalMeaning
  <2>4. CASE op = "sha"
    BY <1>2, <2>1, <2>4 DEF ModalMeaning, K3
  <2> QED BY <2>2, <2>3, <2>4 DEF Modal
<1> QED BY <1>1, <1>2

\* What is known of a subtree, by the action that made it.
LEMMA ConstantGives ==
    ASSUME NEW n, NEW w, FromConstant(n, w), NEW c \in Contexts
    PROVE  /\ n.at[c].val = ConstantValue(w)
           /\ n.at[c].core = ConstantValue(w).t
           /\ n.at[c].meaning = ConstantValue(w).t
           /\ n.at[c].may = Nobody
<1>1. Entry(n, c, ConstantValue(w), ConstantValue(w).t,
            ConstantValue(w).t, Nobody)
  BY DEF FromConstant
<1> QED BY <1>1 DEF Entry

LEMMA KeyGives ==
    ASSUME NEW n, NEW k, FromKey(n, k), NEW c \in Contexts
    PROVE  /\ n.at[c].val = VisitLiteral(c, k)
           /\ n.at[c].core = k
           /\ n.at[c].meaning = Says(c.lit[k])
           /\ n.at[c].may = Nobody
<1>1. Entry(n, c, VisitLiteral(c, k), k,
            Says(c.lit[k]), Nobody)
  BY DEF FromKey
<1> QED BY <1>1 DEF Entry

LEMMA ModalGives ==
    ASSUME NEW n, NEW t, NEW op, FromModal(n, t, op), NEW c \in Contexts
    PROVE  /\ n.at[c].val = StackedOn(t, c, Epistemic(c, op, t.key))
           /\ n.at[c].core = CoreEpistemic(c, op, t.at[c].core)
           /\ n.at[c].meaning = ModalMeaning(c, op, t.key)
           /\ n.at[c].may = Nobody
<1>1. Entry(n, c, StackedOn(t, c, Epistemic(c, op, t.key)), CoreEpistemic(c, op, t.at[c].core),
            ModalMeaning(c, op, t.key), Nobody)
  BY DEF FromModal
<1> QED BY <1>1 DEF Entry

LEMMA NegationGives ==
    ASSUME NEW n, NEW t, FromNegation(n, t), NEW c \in Contexts
    PROVE  /\ n.at[c].val = StackedOn(t, c, Negation(t.at[c].val))
           /\ n.at[c].core = CoreNegation(t.at[c].core)
           /\ n.at[c].meaning = KNot(t.at[c].meaning)
           /\ n.at[c].may = Nobody
<1>1. Entry(n, c, StackedOn(t, c, Negation(t.at[c].val)), CoreNegation(t.at[c].core),
            KNot(t.at[c].meaning), Nobody)
  BY DEF FromNegation
<1> QED BY <1>1 DEF Entry

LEMMA QuantifierGives ==
    ASSUME NEW n, NEW t, NEW op, FromQuantifier(n, t, op), NEW c \in Contexts
    PROVE  /\ n.at[c].val = StackedOn(t, c, Quantifier(op, t.at[c].val))
           /\ n.at[c].core = t.at[c].core
           /\ n.at[c].meaning = n.at[c].val.t
           /\ n.at[c].may = Nobody
<1>1. Entry(n, c, StackedOn(t, c, Quantifier(op, t.at[c].val)), t.at[c].core,
            StackedOn(t, c, Quantifier(op, t.at[c].val)).t, Nobody)
  BY DEF FromQuantifier
<1> QED BY <1>1 DEF Entry

LEMMA ScopeGives ==
    ASSUME NEW n, NEW t, FromScope(n, t), NEW c \in Contexts
    PROVE  /\ n.at[c].val = Scope(t.at[c].val)
           /\ n.at[c].core = t.at[c].core
           /\ n.at[c].meaning = t.at[c].meaning
           /\ n.at[c].may = t.at[c].may
<1>1. Entry(n, c, Scope(t.at[c].val), t.at[c].core,
            t.at[c].meaning, t.at[c].may)
  BY DEF FromScope
<1> QED BY <1>1 DEF Entry

LEMMA ActionGives ==
    ASSUME NEW n, NEW t, FromAction(n, t), NEW c \in Contexts
    PROVE  /\ n.at[c].val = ActionEvent(c, t.at[c].val)
           /\ n.at[c].core = CoreAction(t.at[c].core)
           /\ n.at[c].meaning = "U"
           /\ n.at[c].may = OnlyTarget(t, c)
<1>1. Entry(n, c, ActionEvent(c, t.at[c].val), CoreAction(t.at[c].core),
            "U", OnlyTarget(t, c))
  BY DEF FromAction
<1> QED BY <1>1 DEF Entry

LEMMA AndGives ==
    ASSUME NEW n, NEW l, NEW r, FromAnd(n, l, r), NEW c \in Contexts
    PROVE  /\ n.at[c].val = Conjunction("an", l.at[c].val, r.at[c].val)
           /\ n.at[c].core = CoreAnd(l.at[c].core, r.at[c].core)
           /\ n.at[c].meaning = KAnd(l.at[c].meaning, r.at[c].meaning)
           /\ n.at[c].may = MayOfBoth(l, r, c)
<1>1. Entry(n, c, Conjunction("an", l.at[c].val, r.at[c].val), CoreAnd(l.at[c].core, r.at[c].core),
            KAnd(l.at[c].meaning, r.at[c].meaning), MayOfBoth(l, r, c))
  BY DEF FromAnd
<1> QED BY <1>1 DEF Entry

LEMMA OrGives ==
    ASSUME NEW n, NEW l, NEW r, FromOr(n, l, r), NEW c \in Contexts
    PROVE  /\ n.at[c].val = Disjunction(l.at[c].val, r.at[c].val)
           /\ n.at[c].core = CoreOr(l.at[c].core, r.at[c].core)
           /\ n.at[c].meaning = KOr(l.at[c].meaning, r.at[c].meaning)
           /\ n.at[c].may = MayOfBoth(l, r, c)
<1>1. Entry(n, c, Disjunction(l.at[c].val, r.at[c].val), CoreOr(l.at[c].core, r.at[c].core),
            KOr(l.at[c].meaning, r.at[c].meaning), MayOfBoth(l, r, c))
  BY DEF FromOr
<1> QED BY <1>1 DEF Entry

LEMMA KraGives ==
    ASSUME NEW n, NEW l, NEW r, FromKra(n, l, r), NEW c \in Contexts
    PROVE  /\ n.at[c].val = Conjunction("kra", l.at[c].val, r.at[c].val)
           /\ n.at[c].core = CoreOther(l.at[c].core, r.at[c].core)
           /\ n.at[c].meaning = KGuard(l.at[c].meaning, r.at[c].meaning)
           /\ n.at[c].may = MayBehind(l, r, c)
<1>1. Entry(n, c, Conjunction("kra", l.at[c].val, r.at[c].val), CoreOther(l.at[c].core, r.at[c].core),
            KGuard(l.at[c].meaning, r.at[c].meaning), MayBehind(l, r, c))
  BY DEF FromKra
<1> QED BY <1>1 DEF Entry

LEMMA JuxtapositionGives ==
    ASSUME NEW n, NEW l, NEW r, FromJuxtaposition(n, l, r), NEW c \in Contexts
    PROVE  /\ n.at[c].val = Juxtaposition(l.at[c].val, r.at[c].val)
           /\ n.at[c].core = "reject"
           /\ n.at[c].meaning = "U"
           /\ n.at[c].may = MayOfBoth(l, r, c)
<1>1. Entry(n, c, Juxtaposition(l.at[c].val, r.at[c].val), "reject",
            "U", MayOfBoth(l, r, c))
  BY DEF FromJuxtaposition
<1> QED BY <1>1 DEF Entry

LEMMA ConditionalGives ==
    ASSUME NEW n, NEW l, NEW r, FromConditional(n, l, r), NEW c \in Contexts
    PROVE  /\ n.at[c].val = Guarded(c, l.at[c].val, r.at[c].val)
           /\ n.at[c].core = CoreGuarded(l.at[c].core, r.at[c].core)
           /\ n.at[c].meaning = KGuard(l.at[c].meaning, r.at[c].meaning)
           /\ n.at[c].may = MayBehind(l, r, c)
<1>1. Entry(n, c, Guarded(c, l.at[c].val, r.at[c].val), CoreGuarded(l.at[c].core, r.at[c].core),
            KGuard(l.at[c].meaning, r.at[c].meaning), MayBehind(l, r, c))
  BY DEF FromConditional
<1> QED BY <1>1 DEF Entry

\* Whatever an action makes of subtrees with values has values.
LEMMA MadeIsTyped ==
    ASSUME EvaluationAssumption, NEW S, \A x \in S : Shaped(x) /\ Typed(x),
           NEW n, Made(n, S)
    PROVE  Typed(n)
<1> SUFFICES ASSUME NEW c \in Contexts
             PROVE  /\ Proper(n.at[c].val)
                    /\ n.at[c].core \in CoreValues
                    /\ n.at[c].meaning \in K3
  BY DEF Typed
<1>1. ASSUME NEW w \in {"true", "false", "undefined"}, FromConstant(n, w)
      PROVE  /\ Proper(n.at[c].val) /\ n.at[c].core \in CoreValues
             /\ n.at[c].meaning \in K3
  <2>1. ConstantValue(w) \in Plain /\ ConstantValue(w).t \in K3
    BY AtomConstants DEF ConstantValue, Plain, K3
  <2> QED BY <1>1, <2>1, ConstantGives, PlainFacts DEF CoreValues
<1>2. ASSUME NEW k \in Keys, FromKey(n, k)
      PROVE  /\ Proper(n.at[c].val) /\ n.at[c].core \in CoreValues
             /\ n.at[c].meaning \in K3
  <2>1. Proper(VisitLiteral(c, k)) /\ Says(c.lit[k]) \in K3
    BY LiteralFacts, ContextFacts, SaysFacts
  <2> QED BY <1>2, <2>1, KeyGives DEF CoreValues
<1>3. ASSUME NEW t \in S, OfOne(n, t)
      PROVE  /\ Proper(n.at[c].val) /\ n.at[c].core \in CoreValues
             /\ n.at[c].meaning \in K3
  <2>1. /\ Proper(t.at[c].val) /\ t.at[c].core \in CoreValues /\ t.at[c].meaning \in K3
        /\ t.key \in Keys \cup {NoKey}
    BY DEF Typed, Shaped
  <2>2. ASSUME NEW op \in Modal, FromModal(n, t, op)
        PROVE  /\ Proper(n.at[c].val) /\ n.at[c].core \in CoreValues
               /\ n.at[c].meaning \in K3
    <3>1. Epistemic(c, op, t.key) \in Plain
      BY <2>1, ContextFacts, EpistemicFacts
    <3>2. Proper(StackedOn(t, c, Epistemic(c, op, t.key)))
      BY <2>1, <3>1, StackedPlain, PlainFacts
    <3>3. CoreEpistemic(c, op, t.at[c].core) \in CoreValues
      BY <2>1, CoreTypes
    <3>4. ModalMeaning(c, op, t.key) \in K3
      BY <2>1, ModalMeaningType
    <3> QED BY <2>2, <3>2, <3>3, <3>4, ModalGives
  <2>3. ASSUME NEW op \in Quantifiers, FromQuantifier(n, t, op)
        PROVE  /\ Proper(n.at[c].val) /\ n.at[c].core \in CoreValues
               /\ n.at[c].meaning \in K3
    <3>1. Quantifier(op, t.at[c].val) \in Plain
      BY QuantifierFacts
    <3>2. Proper(StackedOn(t, c, Quantifier(op, t.at[c].val)))
      BY <2>1, <3>1, StackedPlain, PlainFacts
    <3> QED BY <2>1, <2>3, <3>2, QuantifierGives, ProperFacts
  <2>4. CASE FromNegation(n, t)
    <3>1. Negation(t.at[c].val) \in Plain
      BY <2>1, NegationFacts
    <3>2. Proper(StackedOn(t, c, Negation(t.at[c].val)))
      BY <2>1, <3>1, StackedPlain, PlainFacts
    <3>3. CoreNegation(t.at[c].core) \in CoreValues /\ KNot(t.at[c].meaning) \in K3
      BY <2>1, CoreTypes, KleeneTypes
    <3> QED BY <2>4, <3>2, <3>3, NegationGives
  <2>5. CASE FromScope(n, t)
    <3>1. Proper(Scope(t.at[c].val))
      BY <2>1, ScopeFacts
    <3>2. /\ n.at[c].val = Scope(t.at[c].val) /\ n.at[c].core = t.at[c].core
          /\ n.at[c].meaning = t.at[c].meaning
      BY <2>5, ScopeGives
    <3> QED BY <2>1, <3>1, <3>2
  <2>6. CASE FromAction(n, t)
    <3>1. Proper(ActionEvent(c, t.at[c].val)) /\ CoreAction(t.at[c].core) \in CoreValues
      BY <2>1, ActionEventFacts, CoreTypes
    <3> QED BY <2>6, <3>1, ActionGives DEF K3
  <2> QED BY <1>3, <2>2, <2>3, <2>4, <2>5, <2>6 DEF OfOne
<1>4. ASSUME NEW l \in S, NEW r \in S, OfTwo(n, l, r)
      PROVE  /\ Proper(n.at[c].val) /\ n.at[c].core \in CoreValues
             /\ n.at[c].meaning \in K3
  <2>1. /\ Proper(l.at[c].val) /\ l.at[c].core \in CoreValues /\ l.at[c].meaning \in K3
        /\ Proper(r.at[c].val) /\ r.at[c].core \in CoreValues /\ r.at[c].meaning \in K3
    BY DEF Typed
  <2>2. CASE FromAnd(n, l, r)
    <3>1. /\ CoreAnd(l.at[c].core, r.at[c].core) \in CoreValues
          /\ KAnd(l.at[c].meaning, r.at[c].meaning) \in K3
      BY <2>1, CoreTypes, KleeneTypes
    <3>2. Proper(Conjunction("an", l.at[c].val, r.at[c].val))
      BY <2>1, ConjunctionFacts
    <3> QED BY <2>2, <3>1, <3>2, AndGives
  <2>3. CASE FromOr(n, l, r)
    <3>1. /\ CoreOr(l.at[c].core, r.at[c].core) \in CoreValues
          /\ KOr(l.at[c].meaning, r.at[c].meaning) \in K3
      BY <2>1, CoreTypes, KleeneTypes
    <3>2. Proper(Disjunction(l.at[c].val, r.at[c].val))
      BY <2>1, DisjunctionFacts, PlainFacts
    <3> QED BY <2>3, <3>1, <3>2, OrGives
  <2>4. CASE FromKra(n, l, r)
    <3>1. /\ CoreOther(l.at[c].core, r.at[c].core) \in CoreValues
          /\ KGuard(l.at[c].meaning, r.at[c].meaning) \in K3
      BY <2>1, CoreTypes, KleeneTypes
    <3>2. Proper(Conjunction("kra", l.at[c].val, r.at[c].val))
      BY <2>1, ConjunctionFacts
    <3> QED BY <2>4, <3>1, <3>2, KraGives
  <2>5. CASE FromJuxtaposition(n, l, r)
    <3>1. Proper(Juxtaposition(l.at[c].val, r.at[c].val))
      BY <2>1, JuxtapositionFacts
    <3> QED BY <2>5, <3>1, JuxtapositionGives DEF CoreValues, K3
  <2>6. CASE FromConditional(n, l, r)
    <3>1. /\ CoreGuarded(l.at[c].core, r.at[c].core) \in CoreValues
          /\ KGuard(l.at[c].meaning, r.at[c].meaning) \in K3
      BY <2>1, CoreTypes, KleeneTypes
    <3>2. Proper(Guarded(c, l.at[c].val, r.at[c].val))
      BY <2>1, GuardedFacts
    <3> QED BY <2>6, <3>1, <3>2, ConditionalGives
  <2> QED BY <1>4, <2>2, <2>3, <2>4, <2>5, <2>6 DEF OfTwo
<1> QED BY <1>1, <1>2, <1>3, <1>4 DEF Made, Leaves

\* The outcome of a chain that was run.
Outcome(n) == [c \in Contexts |-> [python |-> Verdict(c, n), rust |-> CoreVerdict(c, n)]]

Whole(n) == Shaped(n) /\ Typed(n)

LEMMA WholeIsSomething == ASSUME NEW t, Whole(t) PROVE t # Nothing
<1>1. t = [at |-> t.at, key |-> t.key, ops |-> t.ops, lits |-> t.lits,
           size |-> t.size, unary |-> t.unary, form |-> t.form]
  BY DEF Whole, Shaped, Fields
<1>2. "at" \in DOMAIN t
  BY <1>1
<1>3. DOMAIN Nothing = {}
  BY DEF Nothing
<1> QED BY <1>2, <1>3

ValuesInv ==
    /\ Stacks
    /\ \A x \in Subtrees : Whole(x)
    /\ chain = Nothing => outcome = Nothing
    /\ chain # Nothing => Whole(chain) /\ outcome = Outcome(chain)

\* The subtrees and the chain after a step are those before it, or made of them; a
\* chain that was run is a subtree before it is.
Grown == \E n : /\ Made(n, Subtrees) \/ n \in Subtrees \cup {chain}
                /\ Subtrees' \subseteq Subtrees \cup {n}
                /\ chain' # Nothing => chain' \in Subtrees \cup {chain}

LEMMA ValuesStep ==
    ASSUME EvaluationAssumption, ValuesInv, [Next]_vars
    PROVE  ValuesInv' /\ Grown
<1>1. CASE UNCHANGED vars
  <2>1. stack' = stack /\ chain' = chain /\ outcome' = outcome
    BY <1>1 DEF vars
  <2>2. Subtrees' = Subtrees /\ (Stacks' <=> Stacks)
    BY <2>1 DEF Subtrees, Stacks
  <2>3. ValuesInv'
    BY <2>1, <2>2 DEF ValuesInv
  <2> QED BY <2>1, <2>2, <2>3 DEF Grown
<1>2. CASE Run
  <2>1. Top \in Subtrees
    BY <1>2, Operands DEF ValuesInv, Run
  <2>2. chain' = Top /\ stack' = <<>> /\ outcome' = Outcome(Top)
    BY <1>2 DEF Run, Outcome
  <2>3. Subtrees' = {} /\ Stacks'
    BY <2>2 DEF Subtrees, Stacks
  <2>4. Whole(Top)
    BY <2>1 DEF ValuesInv
  <2>5. Top # Nothing
    BY <2>4, WholeIsSomething
  <2>6. ValuesInv'
    BY <2>2, <2>3, <2>4, <2>5 DEF ValuesInv
  <2> QED BY <2>1, <2>2, <2>3, <2>6 DEF Grown
<1>3. CASE \E n : /\ Made(n, Subtrees)
                 /\ Stacks' /\ Subtrees' \subseteq Subtrees \cup {n}
                 /\ chain = Nothing /\ UNCHANGED <<chain, outcome>>
  <2>1. PICK n : /\ Made(n, Subtrees)
                 /\ Stacks' /\ Subtrees' \subseteq Subtrees \cup {n}
                 /\ chain = Nothing /\ UNCHANGED <<chain, outcome>>
    BY <1>3
  <2>2. Whole(n)
    BY <2>1, MadeIsShaped, MadeIsTyped DEF ValuesInv, Whole
  <2>3. ValuesInv'
    BY <2>1, <2>2 DEF ValuesInv
  <2> QED BY <2>1, <2>3 DEF Grown
<1> QED BY <1>1, <1>2, <1>3, StepsMake DEF ValuesInv

LEMMA ValuesInit == ASSUME Init PROVE ValuesInv /\ Subtrees = {} /\ chain = Nothing
<1>1. stack = <<>> /\ chain = Nothing /\ outcome = Nothing
  BY DEF Init
<1>2. Subtrees = {} /\ Stacks
  BY <1>1 DEF Subtrees, Stacks
<1> QED BY <1>1, <1>2 DEF ValuesInv

\* Every subtree has, in every context, a value that is an atom or a list of
\* values, and the core a value of its own.
THEOREM EvaluationTypeCorrect == Spec => []TypeOK
<1> USE EvaluationAssumption
<1>1. Init => ValuesInv
  BY ValuesInit
<1>2. ValuesInv /\ [Next]_vars => ValuesInv'
  BY ValuesStep
<1>3. ValuesInv => TypeOK
  <2> SUFFICES ASSUME ValuesInv PROVE TypeOK
    OBVIOUS
  <2>1. ASSUME NEW i \in DOMAIN stack
        PROVE  /\ stack[i].size \in Nat \ {0}
               /\ DOMAIN stack[i].at = Contexts
               /\ \A c \in Contexts :
                     /\ stack[i].at[c].val.t \in K3
                     /\ stack[i].at[c].core \in CoreValues
    <3>1. PICK n : n = stack[i]
      OBVIOUS
    <3>2. n \in Subtrees /\ Shaped(n) /\ Typed(n)
      BY <3>1 DEF ValuesInv, Whole, Subtrees
    <3>3. n.size \in Nat \ {0} /\ DOMAIN n.at = Contexts
      BY <3>2 DEF Shaped, Fields
    <3>4. \A c \in Contexts : n.at[c].val.t \in K3 /\ n.at[c].core \in CoreValues
      BY <3>2, ProperFacts DEF Typed
    <3> QED BY <3>1, <3>3, <3>4
  <2>2. Outcome(chain) # Nothing
    <3>1. PICK o : o = Outcome(chain)
      OBVIOUS
    <3>2. DOMAIN o = Contexts /\ Contexts # {}
      BY <3>1 DEF Outcome, EvaluationAssumption
    <3>3. DOMAIN Nothing = {}
      BY DEF Nothing
    <3> QED BY <3>1, <3>2, <3>3
  <2>3. (chain = Nothing) = (outcome = Nothing)
    BY <2>2 DEF ValuesInv
  <2> QED BY <2>1, <2>3 DEF TypeOK, CoreValues
<1> QED BY <1>1, <1>2, <1>3, PTL DEF Spec

-----------------------------------------------------------------------------
(* Guards *)

\* v is read as m or not at all, and so is what its lists of one hold.
ReadSet(S, m) ==
    \A w \in S :
        /\ w.t \in {"U", m} /\ Unwrap(w).t \in {"U", m}
        /\ w.d = "list" /\ Len(w.items) = 1 => w.items[1] \in S

Reads(v, m) == \E S : v \in S /\ ReadSet(S, m)

LEMMA ReadsGives ==
    ASSUME NEW v, NEW m, Reads(v, m)
    PROVE  /\ v.t \in {"U", m} /\ Unwrap(v).t \in {"U", m}
           /\ v.d = "list" /\ Len(v.items) = 1 => Reads(v.items[1], m)
BY DEF Reads, ReadSet

\* What is no list of one is read by its own value.
LEMMA ReadsAlone ==
    ASSUME NEW v, NEW m, v.t \in {"U", m}, Unwrap(v).t \in {"U", m},
           v.d = "list" => Len(v.items) # 1
    PROVE  Reads(v, m)
<1>1. PICK S : S = {v}
  OBVIOUS
<1>2. v \in S /\ ReadSet(S, m)
  BY <1>1 DEF ReadSet
<1> QED BY <1>2 DEF Reads

LEMMA ReadsPlain ==
    ASSUME NEW v \in Plain, NEW m, v.t \in {"U", m}
    PROVE  Reads(v, m)
BY PlainFacts, ReadsAlone

LEMMA ReadsLong ==
    ASSUME NEW v, NEW m, v.d = "list", v.t = "U", Len(v.items) > 1, Len(v.items) \in Nat
    PROVE  Reads(v, m)
<1>1. Unwrap(v) = v
  BY DEF Unwrap
<1>2. Len(v.items) # 1
  <2>1. PICK k : k = Len(v.items)
    OBVIOUS
  <2>2. k \in Nat /\ k > 1
    BY <2>1
  <2>3. k # 1
    BY ONLY <2>2
  <2> QED BY <2>1, <2>3
<1> QED BY <1>1, <1>2, ReadsAlone

\* A list of one is read as its member.
LEMMA ReadsListOfOne ==
    ASSUME NEW v, NEW m, Reads(v, m)
    PROVE  Reads(List(<<v>>), m)
<1>1. PICK S : v \in S /\ ReadSet(S, m)
  BY DEF Reads
<1>2. PICK s : s = <<v>>
  OBVIOUS
<1>3. Len(s) = 1 /\ s[1] = v
  BY <1>2
<1>4. PICK w : w = List(s)
  OBVIOUS
<1>5. w.d = "list" /\ w.items = s /\ w.t = v.t
  BY <1>3, <1>4, ListFields
<1>6. Unwrap(w) = w
  BY <1>5 DEF Unwrap
<1>7. v.t \in {"U", m}
  BY <1>1 DEF ReadSet
<1>8. PICK T : T = S \cup {w}
  OBVIOUS
<1>9. ReadSet(T, m)
  BY <1>1, <1>3, <1>5, <1>6, <1>7, <1>8 DEF ReadSet
<1> QED BY <1>2, <1>4, <1>8, <1>9 DEF Reads

LEMMA ReadsUnwrapped ==
    ASSUME NEW v, NEW m, Proper(v), Reads(v, m)
    PROVE  Reads(Unwrap(v), m)
<1>1. CASE v.d # "literal"
  BY <1>1, UnwrapFacts
<1>2. CASE v.d = "literal"
  <2>1. PICK t \in {"T", "F"} : Unwrap(v) = Truth(t)
    BY <1>2, UnwrapFacts
  <2>2. Truth(t) \in Plain
    BY DEF Plain
  <2> QED BY <2>1, <2>2, ReadsGives, ReadsPlain
<1> QED BY <1>1, <1>2

LEMMA ReadsSpliced ==
    ASSUME NEW v, NEW m, Proper(v), Reads(v, m), Len(Spliced(v)) = 1
    PROVE  Reads(Spliced(v)[1], m)
<1>1. CASE v.d = "list"
  <2>1. Spliced(v) = v.items
    BY <1>1, SplicedFacts
  <2> QED BY <1>1, <2>1, ReadsGives
<1>2. CASE v.d # "list"
  <2>1. PICK s : s = <<v>>
    OBVIOUS
  <2>2. Spliced(v) = s /\ s[1] = v
    BY <1>2, <2>1, SplicedFacts
  <2> QED BY <2>2
<1> QED BY <1>1, <1>2

LEMMA ReadsLeading ==
    ASSUME NEW v, NEW m, Proper(v), Reads(v, m)
    PROVE  Reads(Leading(v), m)
<1>1. CASE v.d # "list"
  BY <1>1, LeadingFacts
<1>2. CASE v.d = "list" /\ Len(v.items) = 1
  BY <1>2, LeadingFacts, ReadsGives
<1>3. CASE v.d = "list" /\ Len(v.items) # 1
  <2>1. PICK x : x = Leading(v)
    OBVIOUS
  <2>2. Proper(x) /\ x.d = "list" /\ x.t = "U" /\ Len(x.items) > 1
    BY <1>3, <2>1, LeadingFacts
  <2>3. Len(x.items) \in Nat
    BY <2>2, ProperFacts, RowFacts
  <2> QED BY <2>1, <2>2, <2>3, ReadsLong
<1> QED BY <1>1, <1>2, <1>3

LEMMA ReadsScope ==
    ASSUME NEW v, NEW m, Proper(v), Reads(v, m)
    PROVE  Reads(Scope(v), m)
BY ScopeFacts, ReadsListOfOne

\* The Kleene connectives are monotonic.
LEMMA KleeneReads ==
    ASSUME NEW x, NEW y, NEW p \in K3, NEW q \in K3, x \in {"U", p}, y \in {"U", q}
    PROVE  /\ KNot(x) \in {"U", KNot(p)}
           /\ KAnd(x, y) \in {"U", KAnd(p, q)}
           /\ KOr(x, y) \in {"U", KOr(p, q)}
BY DEF KNot, KAnd, KOr, K3

\* The connectives give their Kleene meaning, or nothing.
LEMMA BinaryReads ==
    ASSUME NEW l, NEW r, Proper(l), Proper(r), NEW p \in K3, NEW q \in K3,
           Reads(l, p), Reads(r, q)
    PROVE  /\ Reads(Binary("an", l, r), KAnd(p, q))
           /\ Reads(Binary("ur", l, r), KOr(p, q))
           /\ Reads(Binary("kra", l, r), KGuard(p, q))
<1>1. Unwrap(l).t \in {"U", p} /\ Unwrap(r).t \in {"U", q}
  BY ReadsGives
<1>2. Unwrap(l).t \in K3 /\ Unwrap(r).t \in K3
  BY UnwrapFacts, ProperFacts
<1>3. Binary("an", l, r) \in Plain /\ Binary("ur", l, r) \in Plain
  BY BinaryFacts
<1>4. Binary("an", l, r).t \in {"U", KAnd(Unwrap(l).t, Unwrap(r).t)}
  BY <1>2, ProperFacts, AtomConstants DEF Binary
<1>5. Binary("ur", l, r).t \in {"U", KOr(Unwrap(l).t, Unwrap(r).t)}
  BY <1>2, ProperFacts, AtomConstants DEF Binary
<1>6. /\ Binary("an", l, r).t \in {"U", KAnd(p, q)}
      /\ Binary("ur", l, r).t \in {"U", KOr(p, q)}
  BY <1>1, <1>4, <1>5, KleeneReads
<1>7. Reads(Binary("kra", l, r), KGuard(p, q))
  <2>1. CASE Unwrap(l).t = "T" /\ Binary("kra", l, r) = Unwrap(r)
    <3>1. p = "T"
      BY <1>1, <2>1
    <3>2. KGuard(p, q) = q
      BY <3>1 DEF KGuard
    <3> QED BY <2>1, <3>2, ReadsUnwrapped
  <2>2. CASE ~(Unwrap(l).t = "T" /\ Binary("kra", l, r) = Unwrap(r))
    <3>1. Binary("kra", l, r) \in {Undefined, Failure}
      BY <2>2, ProperFacts DEF Binary
    <3> QED BY <3>1, ReadsPlain, AtomConstants DEF Plain
  <2> QED BY <2>1, <2>2
<1> QED BY <1>3, <1>6, <1>7, ReadsPlain

LEMMA ConjunctionReads ==
    ASSUME NEW l, NEW r, Proper(l), Proper(r), NEW p \in K3, NEW q \in K3,
           Reads(l, p), Reads(r, q)
    PROVE  /\ Reads(Conjunction("an", l, r), KAnd(p, q))
           /\ Reads(Conjunction("kra", l, r), KGuard(p, q))
<1>1. Proper(Leading(l)) /\ Reads(Leading(l), p)
  BY LeadingFacts, ReadsLeading
<1>2. CASE Len(Spliced(r)) = 1
  <2>1. PICK s : s = Spliced(r)
    OBVIOUS
  <2>2. Row(s) /\ Proper(s[1])
    BY <2>1, SplicedFacts, RowFacts
  <2>3. Reads(s[1], q)
    BY <1>2, <2>1, ReadsSpliced
  <2>4. /\ Conjunction("an", l, r) = Binary("an", Leading(l), s[1])
        /\ Conjunction("kra", l, r) = Binary("kra", Leading(l), s[1])
    BY <1>2, <2>1, ConjunctionFacts
  <2> QED BY <1>1, <2>2, <2>3, <2>4, BinaryReads
<1>3. CASE Len(Spliced(r)) # 1
  <2>1. ASSUME NEW op \in {"an", "kra"}, NEW m PROVE Reads(Conjunction(op, l, r), m)
    <3>1. PICK x : x = Conjunction(op, l, r)
      OBVIOUS
    <3>2. Proper(x) /\ x.d = "list" /\ x.t = "U" /\ Len(x.items) > 1
      BY <1>3, <3>1, ConjunctionFacts
    <3>3. Len(x.items) \in Nat
      BY <3>2, ProperFacts, RowFacts
    <3> QED BY <3>1, <3>2, <3>3, ReadsLong
  <2> QED BY <2>1
<1> QED BY <1>2, <1>3

LEMMA DisjunctionReads ==
    ASSUME NEW l, NEW r, Proper(l), Proper(r), NEW p \in K3, NEW q \in K3,
           Reads(l, p), Reads(r, q), Disjoinable(l, r)
    PROVE  Reads(Disjunction(l, r), KOr(p, q))
<1>1. CASE Disjunction(l, r) = Undefined
  BY <1>1, ReadsPlain, AtomConstants DEF Plain
<1>2. CASE Disjunction(l, r) # Undefined
  <2>1. PICK a, b : a = Spliced(l) /\ b = Spliced(r)
    OBVIOUS
  <2>2. Row(a) /\ Proper(a[1]) /\ Row(b) /\ Proper(b[1])
    BY <2>1, SplicedFacts, RowFacts
  <2>3. /\ Len(a) = 1 /\ Len(b) = 1
        /\ Disjunction(l, r) = Binary("ur", a[1], b[1])
    BY <1>2, <2>1, DisjunctionFacts
  <2>4. Reads(a[1], p) /\ Reads(b[1], q)
    BY <2>1, <2>3, ReadsSpliced
  <2> QED BY <2>2, <2>3, <2>4, BinaryReads
<1> QED BY <1>1, <1>2

LEMMA EpistemicReads ==
    ASSUME EvaluationAssumption, NEW c \in Contexts, NEW op \in Modal,
           NEW k \in Keys \cup {NoKey}
    PROVE  Epistemic(c, op, k).t \in {"U", ModalMeaning(c, op, k)}
<1>1. Refuse(c).t = "U"
  BY AtomConstants DEF Refuse
<1>2. CASE k = NoKey
  BY <1>2, AtomConstants DEF Epistemic
<1>3. CASE k # NoKey
  <2>1. c.know[k] \in Maybe /\ FirstOf(c.know[k], c.bel[k]) \in Maybe
    BY <1>3, ContextFacts
  <2>2. CASE op = "shi"
    <3>1. Known(c, k).t \in {"U", Says(c.know[k])}
      BY <1>1, <2>1, SaysFacts, AtomConstants DEF Known
    <3> QED BY <1>3, <2>2, <3>1 DEF Epistemic, ModalMeaning
  <2>3. CASE op = "vek"
    <3>1. Believed(c, k).t \in {"U", Says(FirstOf(c.know[k], c.bel[k]))}
      BY <2>1, SaysFacts, AtomConstants DEF Believed
    <3> QED BY <1>3, <2>3, <3>1 DEF Epistemic, ModalMeaning
  <2>4. CASE op = "sha"
    <3>1. /\ Certain(c, k).t \in {"U", Says(FirstOf(c.know[k], c.bel[k]))}
          /\ ~c.certain[k] => Certain(c, k).t = "U"
      BY <1>1, <2>1, SaysFacts, AtomConstants DEF Certain
    <3> QED BY <1>3, <2>4, <3>1 DEF Epistemic, ModalMeaning
  <2> QED BY <2>2, <2>3, <2>4 DEF Modal
<1> QED BY <1>2, <1>3

\* The meaning of a subtree, and what may be done in it.
Meant(n) == \A c \in Contexts : Reads(n.at[c].val, n.at[c].meaning)

Guards(n) ==
    "kra" \notin ToSet(n.ops) => \A c \in Contexts : n.at[c].val.acts \subseteq n.at[c].may

LEMMA MadeIsMeant ==
    ASSUME EvaluationAssumption, NEW S, \A x \in S : Whole(x) /\ Meant(x), NEW n, Made(n, S)
    PROVE  Meant(n)
<1> SUFFICES ASSUME NEW c \in Contexts PROVE Reads(n.at[c].val, n.at[c].meaning)
  BY DEF Meant
<1>1. ASSUME NEW w \in {"true", "false", "undefined"}, FromConstant(n, w)
      PROVE  Reads(n.at[c].val, n.at[c].meaning)
  <2>1. ConstantValue(w) \in Plain
    BY DEF ConstantValue, Plain
  <2> QED BY <1>1, <2>1, ConstantGives, ReadsPlain
<1>2. ASSUME NEW k \in Keys, FromKey(n, k)
      PROVE  Reads(n.at[c].val, n.at[c].meaning)
  BY <1>2, KeyGives, LiteralFacts, ReadsAlone
<1>3. ASSUME NEW t \in S, OfOne(n, t)
      PROVE  Reads(n.at[c].val, n.at[c].meaning)
  <2>1. /\ Proper(t.at[c].val) /\ t.at[c].meaning \in K3 /\ t.key \in Keys \cup {NoKey}
        /\ Reads(t.at[c].val, t.at[c].meaning)
    BY DEF Whole, Typed, Shaped, Meant
  <2>2. ASSUME NEW v \in Plain, NEW m, v.t \in {"U", m}
        PROVE  Reads(StackedOn(t, c, v), m)
    BY <2>1, <2>2, StackedFacts, StackedPlain, ReadsPlain, AtomConstants
  <2>3. ASSUME NEW op \in Modal, FromModal(n, t, op)
        PROVE  Reads(n.at[c].val, n.at[c].meaning)
    <3>1. /\ Epistemic(c, op, t.key) \in Plain
          /\ Epistemic(c, op, t.key).t \in {"U", ModalMeaning(c, op, t.key)}
      BY <2>1, ContextFacts, EpistemicFacts, EpistemicReads
    <3> QED BY <2>2, <2>3, <3>1, ModalGives
  <2>4. ASSUME NEW op \in Quantifiers, FromQuantifier(n, t, op)
        PROVE  Reads(n.at[c].val, n.at[c].meaning)
    <3>1. StackedOn(t, c, Quantifier(op, t.at[c].val)) \in Plain
      BY <2>1, QuantifierFacts, StackedPlain
    <3> QED BY <2>4, <3>1, QuantifierGives, ReadsPlain
  <2>5. CASE FromNegation(n, t)
    <3>1. /\ Negation(t.at[c].val) \in Plain
          /\ Negation(t.at[c].val).t = KNot(Unwrap(t.at[c].val).t)
      BY <2>1, NegationFacts
    <3>2. Unwrap(t.at[c].val).t \in {"U", t.at[c].meaning}
      BY <2>1, ReadsGives
    <3>3. KNot(Unwrap(t.at[c].val).t) \in {"U", KNot(t.at[c].meaning)}
      BY <2>1, <3>2, KleeneReads
    <3> QED BY <2>2, <2>5, <3>1, <3>3, NegationGives
  <2>6. CASE FromScope(n, t)
    <3>1. Reads(Scope(t.at[c].val), t.at[c].meaning)
      BY <2>1, ReadsScope
    <3> QED BY <2>6, <3>1, ScopeGives
  <2>7. CASE FromAction(n, t)
    <3>1. PICK v : v = ActionEvent(c, t.at[c].val)
      OBVIOUS
    <3>2. v.t = "U" /\ v.d # "list" /\ v \in {Failure, Undefined, Action(TargetOf(t.at[c].val))}
      BY <2>1, <3>1, ActionEventFacts
    <3>3. Unwrap(v) = v
      BY <3>2, AtomConstants DEF Unwrap
    <3> QED BY <2>7, <3>1, <3>2, <3>3, ActionGives, ReadsAlone
  <2> QED BY <1>3, <2>3, <2>4, <2>5, <2>6, <2>7 DEF OfOne
<1>4. ASSUME NEW l \in S, NEW r \in S, OfTwo(n, l, r)
      PROVE  Reads(n.at[c].val, n.at[c].meaning)
  <2>1. PICK a, b, p, q : /\ a = l.at[c].val /\ p = l.at[c].meaning
                          /\ b = r.at[c].val /\ q = r.at[c].meaning
    OBVIOUS
  <2>2. /\ Proper(a) /\ p \in K3 /\ Reads(a, p)
        /\ Proper(b) /\ q \in K3 /\ Reads(b, q)
    BY <2>1 DEF Whole, Typed, Meant
  <2>3. CASE FromAnd(n, l, r)
    BY <2>1, <2>2, <2>3, AndGives, ConjunctionReads
  <2>4. CASE FromOr(n, l, r)
    <3>1. Disjoinable(a, b)
      BY <2>1, <2>4 DEF FromOr
    <3> QED BY <2>1, <2>2, <2>4, <3>1, OrGives, DisjunctionReads
  <2>5. CASE FromKra(n, l, r)
    BY <2>1, <2>2, <2>5, KraGives, ConjunctionReads
  <2>6. CASE FromJuxtaposition(n, l, r)
    <3>1. PICK x : x = Juxtaposition(a, b)
      OBVIOUS
    <3>2. Proper(x) /\ x.d = "list" /\ x.t = "U" /\ Len(x.items) > 1
      BY <2>2, <3>1, JuxtapositionFacts
    <3>3. Len(x.items) \in Nat
      BY <3>2, ProperFacts, RowFacts
    <3>4. Reads(x, "U")
      BY <3>2, <3>3, ReadsLong
    <3> QED BY <2>1, <2>6, <3>1, <3>4, JuxtapositionGives
  <2>7. CASE FromConditional(n, l, r)
    <3>1. PICK x : x = Guarded(c, a, b)
      OBVIOUS
    <3>2. CASE x \in {Failure, Undefined}
      <4>1. Reads(x, KGuard(p, q))
        BY <3>2, ReadsPlain, AtomConstants DEF Plain
      <4> QED BY <2>1, <2>7, <3>1, <4>1, ConditionalGives
    <3>3. CASE a.t = "T" /\ x = List(<<b>>)
      <4>1. p = "T"
        BY <2>2, <3>3, ReadsGives
      <4>2. KGuard(p, q) = q
        BY <4>1 DEF KGuard
      <4>3. Reads(x, KGuard(p, q))
        BY <2>2, <3>3, <4>2, ReadsListOfOne
      <4> QED BY <2>1, <2>7, <3>1, <4>3, ConditionalGives
    <3> QED BY <2>2, <3>1, <3>2, <3>3, GuardedFacts
  <2> QED BY <1>4, <2>3, <2>4, <2>5, <2>6, <2>7 DEF OfTwo
<1> QED BY <1>1, <1>2, <1>3, <1>4 DEF Made, Leaves

LEMMA MadeGuards ==
    ASSUME EvaluationAssumption,
           NEW S, \A x \in S : Whole(x) /\ Meant(x) /\ Guards(x), NEW n, Made(n, S)
    PROVE  Guards(n)
<1> SUFFICES ASSUME "kra" \notin ToSet(n.ops), NEW c \in Contexts
             PROVE  n.at[c].val.acts \subseteq n.at[c].may
  BY DEF Guards
<1>1. ASSUME NEW w \in {"true", "false", "undefined"}, FromConstant(n, w)
      PROVE  n.at[c].val.acts \subseteq n.at[c].may
  <2>1. ConstantValue(w) \in Plain
    BY DEF ConstantValue, Plain
  <2> QED BY <1>1, <2>1, ConstantGives, PlainFacts
<1>2. ASSUME NEW k \in Keys, FromKey(n, k)
      PROVE  n.at[c].val.acts \subseteq n.at[c].may
  BY <1>2, KeyGives, LiteralFacts
<1>3. ASSUME NEW t \in S, OfOne(n, t)
      PROVE  n.at[c].val.acts \subseteq n.at[c].may
  <2>1. Proper(t.at[c].val) /\ t.key \in Keys \cup {NoKey}
    BY DEF Whole, Typed, Shaped
  <2>2. t.at[c].val.acts \subseteq t.at[c].may
    <3>1. ToSet(t.ops) \subseteq ToSet(n.ops)
      BY <1>3, OpsOfOne DEF Whole, Shaped
    <3> QED BY <3>1 DEF Guards
  <2>3. ASSUME NEW v \in Plain, n.at[c].val = StackedOn(t, c, v)
        PROVE  n.at[c].val.acts \subseteq n.at[c].may
    BY <2>1, <2>3, StackedPlain, PlainFacts
  <2>4. ASSUME NEW op \in Modal, FromModal(n, t, op)
        PROVE  n.at[c].val.acts \subseteq n.at[c].may
    <3>1. Epistemic(c, op, t.key) \in Plain
      BY <2>1, ContextFacts, EpistemicFacts
    <3> QED BY <2>3, <2>4, <3>1, ModalGives
  <2>5. ASSUME NEW op \in Quantifiers, FromQuantifier(n, t, op)
        PROVE  n.at[c].val.acts \subseteq n.at[c].may
    BY <2>3, <2>5, QuantifierGives, QuantifierFacts
  <2>6. CASE FromNegation(n, t)
    BY <2>1, <2>3, <2>6, NegationGives, NegationFacts
  <2>7. CASE FromScope(n, t)
    <3>1. Scope(t.at[c].val).acts = t.at[c].val.acts
      BY <2>1, ScopeFacts
    <3> QED BY <2>2, <2>7, <3>1, ScopeGives
  <2>8. CASE FromAction(n, t)
    <3>1. ActionEvent(c, t.at[c].val).acts \subseteq {TargetOf(t.at[c].val)}
      BY <2>1, ActionEventFacts
    <3> QED BY <2>8, <3>1, ActionGives DEF OnlyTarget
  <2> QED BY <1>3, <2>4, <2>5, <2>6, <2>7, <2>8 DEF OfOne
<1>4. ASSUME NEW l \in S, NEW r \in S, OfTwo(n, l, r)
      PROVE  n.at[c].val.acts \subseteq n.at[c].may
  <2>1. PICK a, b : a = l.at[c].val /\ b = r.at[c].val
    OBVIOUS
  <2>2. Proper(a) /\ Proper(b) /\ Reads(a, l.at[c].meaning)
    BY <2>1 DEF Whole, Typed, Meant
  <2>3. a.acts \subseteq l.at[c].may /\ b.acts \subseteq r.at[c].may
    <3>1. ToSet(l.ops) \cup ToSet(r.ops) \subseteq ToSet(n.ops)
      BY <1>4, OpsOfTwo DEF Whole, Shaped
    <3> QED BY <2>1, <3>1 DEF Guards
  <2>4. CASE FromAnd(n, l, r)
    <3>1. Conjunction("an", a, b).acts \subseteq b.acts
      BY <2>2, ConjunctionFacts
    <3> QED BY <2>1, <2>3, <2>4, <3>1, AndGives DEF MayOfBoth
  <2>5. CASE FromOr(n, l, r)
    <3>1. Disjunction(a, b).acts = {}
      BY <2>2, DisjunctionFacts, PlainFacts
    <3> QED BY <2>1, <2>5, <3>1, OrGives
  <2>6. CASE FromKra(n, l, r)
    BY <2>6, OpsOfTwo DEF OfTwo, Whole, Shaped
  <2>7. CASE FromJuxtaposition(n, l, r)
    <3>1. Juxtaposition(a, b).acts \subseteq a.acts \cup b.acts
      BY <2>2, JuxtapositionFacts
    <3> QED BY <2>1, <2>3, <2>7, <3>1, JuxtapositionGives DEF MayOfBoth
  <2>8. CASE FromConditional(n, l, r)
    <3>1. PICK x : x = Guarded(c, a, b)
      OBVIOUS
    <3>2. x.acts \subseteq b.acts /\ (x.acts # {} => a.t = "T")
      BY <2>2, <3>1, GuardedActs
    <3>3. a.t = "T" => l.at[c].meaning = "T"
      BY <2>2, ReadsGives
    <3>4. x.acts \subseteq MayBehind(l, r, c)
      BY <2>3, <3>2, <3>3 DEF MayBehind
    <3> QED BY <2>1, <2>8, <3>1, <3>4, ConditionalGives
  <2> QED BY <1>4, <2>4, <2>5, <2>6, <2>7, <2>8 DEF OfTwo
<1> QED BY <1>1, <1>2, <1>3, <1>4 DEF Made, Leaves

\* An action that strict mode lets through has C.spatial and a target.
Grounded(n) ==
    \A c \in Contexts : c.strict /\ n.at[c].val.acts # {} =>
        c.spatial /\ "undefined" \notin n.at[c].val.acts

LEMMA TargetIsDefined ==
    ASSUME EvaluationAssumption, NEW v, Proper(v), v.d # "undefined"
    PROVE  TargetOf(v) # "undefined"
<1>1. CASE v.d = "literal"
  <2>1. PICK k \in Keys, t \in {"T", "F"} : v = Literal(k, Truth(t))
    BY <1>1, ProperFacts, AtomFields
  <2>2. v.key = k
    BY <2>1 DEF Literal, Value
  <2>3. k # "undefined"
    BY DEF EvaluationAssumption
  <2> QED BY <1>1, <2>2, <2>3 DEF TargetOf
<1>2. CASE v.d # "literal"
  BY <1>2 DEF TargetOf
<1> QED BY <1>1, <1>2

LEMMA MadeIsGrounded ==
    ASSUME EvaluationAssumption, NEW S, \A x \in S : Whole(x) /\ Grounded(x),
           NEW n, Made(n, S)
    PROVE  Grounded(n)
<1> SUFFICES ASSUME NEW c \in Contexts, c.strict
             PROVE  n.at[c].val.acts # {} => c.spatial /\ "undefined" \notin n.at[c].val.acts
  BY DEF Grounded
<1> DEFINE Good(v) == v.acts # {} => c.spatial /\ "undefined" \notin v.acts
<1> SUFFICES Good(n.at[c].val)
  OBVIOUS
<1>0. \A v \in Plain : Good(v)
  BY PlainFacts
<1>1. ASSUME NEW w \in {"true", "false", "undefined"}, FromConstant(n, w)
      PROVE  Good(n.at[c].val)
  <2>1. ConstantValue(w) \in Plain
    BY DEF ConstantValue, Plain
  <2> QED BY <1>0, <1>1, <2>1, ConstantGives
<1>2. ASSUME NEW k \in Keys, FromKey(n, k)
      PROVE  Good(n.at[c].val)
  BY <1>2, KeyGives, LiteralFacts
<1>3. ASSUME NEW t \in S, OfOne(n, t)
      PROVE  Good(n.at[c].val)
  <2>1. PICK u : u = t.at[c].val
    OBVIOUS
  <2>2. Proper(u) /\ t.key \in Keys \cup {NoKey} /\ Good(u)
    BY <2>1 DEF Whole, Typed, Shaped, Grounded
  <2>3. ASSUME NEW v \in Plain, n.at[c].val = StackedOn(t, c, v)
        PROVE  Good(n.at[c].val)
    BY <1>0, <2>1, <2>2, <2>3, StackedPlain
  <2> HIDE DEF Good
  <2>4. ASSUME NEW op \in Modal, FromModal(n, t, op)
        PROVE  Good(n.at[c].val)
    <3>1. Epistemic(c, op, t.key) \in Plain
      BY <2>2, ContextFacts, EpistemicFacts
    <3> QED BY <2>3, <2>4, <3>1, ModalGives
  <2>5. ASSUME NEW op \in Quantifiers, FromQuantifier(n, t, op)
        PROVE  Good(n.at[c].val)
    BY <2>3, <2>5, QuantifierGives, QuantifierFacts
  <2>6. CASE FromNegation(n, t)
    BY <2>1, <2>2, <2>3, <2>6, NegationGives, NegationFacts
  <2>7. CASE FromScope(n, t)
    <3>1. PICK v : v = Scope(u)
      OBVIOUS
    <3>2. v.acts = u.acts
      BY <2>2, <3>1, ScopeFacts
    <3>3. n.at[c].val = v
      BY <2>1, <2>7, <3>1, ScopeGives
    <3> QED BY <2>2, <3>2, <3>3 DEF Good
  <2>8. CASE FromAction(n, t)
    <3>1. PICK v : v = ActionEvent(c, u)
      OBVIOUS
    <3>2. /\ v.acts \subseteq {TargetOf(u)}
          /\ v.acts # {} => c.spatial /\ u.d # "undefined"
      BY <2>2, <3>1, ActionEventFacts
    <3>3. v.acts # {} => "undefined" \notin v.acts
      BY <2>2, <3>2, TargetIsDefined
    <3>4. Good(v)
      BY <3>2, <3>3 DEF Good
    <3> QED BY <2>1, <2>8, <3>1, <3>4, ActionGives
  <2> QED BY <1>3, <2>4, <2>5, <2>6, <2>7, <2>8 DEF OfOne
<1>4. ASSUME NEW l \in S, NEW r \in S, OfTwo(n, l, r)
      PROVE  Good(n.at[c].val)
  <2>1. PICK a, b, x : a = l.at[c].val /\ b = r.at[c].val /\ x = n.at[c].val
    OBVIOUS
  <2>2. Proper(a) /\ Proper(b) /\ Good(a) /\ Good(b)
    BY <2>1 DEF Whole, Typed, Grounded
  <2>3. x.acts \subseteq a.acts \cup b.acts
    <3>1. CASE FromAnd(n, l, r)
      BY <2>1, <2>2, <3>1, AndGives, ConjunctionFacts
    <3>2. CASE FromOr(n, l, r)
      BY <2>1, <2>2, <3>2, OrGives, DisjunctionFacts, PlainFacts
    <3>3. CASE FromKra(n, l, r)
      BY <2>1, <2>2, <3>3, KraGives, ConjunctionFacts
    <3>4. CASE FromJuxtaposition(n, l, r)
      BY <2>1, <2>2, <3>4, JuxtapositionGives, JuxtapositionFacts
    <3>5. CASE FromConditional(n, l, r)
      BY <2>1, <2>2, <3>5, ConditionalGives, GuardedActs
    <3> QED BY <1>4, <3>1, <3>2, <3>3, <3>4, <3>5 DEF OfTwo
  <2> QED BY <2>1, <2>2, <2>3
<1> QED BY <1>1, <1>2, <1>3, <1>4 DEF Made, Leaves

LEMMA UsesFacts ==
    ASSUME NEW n, NEW S
    PROVE  Uses(n, S) <=> \E o \in S : o \in ToSet(n.ops)
BY DEF Uses, Positions, ToSet

LEMMA VerdictFacts ==
    ASSUME NEW c, NEW n
    PROVE  /\ Verdict(c, n) \in {Failure, n.at[c].val}
           /\ c.strict /\ Verdict(c, n).acts # {} => Validates(c, n)
BY AtomConstants DEF Verdict

ActionsKept(n) == Meant(n) /\ Guards(n) /\ Grounded(n)

ActionsInv ==
    /\ ValuesInv
    /\ \A x \in Subtrees : ActionsKept(x)
    /\ chain # Nothing => ActionsKept(chain)

LEMMA ActionsStep ==
    ASSUME EvaluationAssumption, ActionsInv, [Next]_vars
    PROVE  ActionsInv'
<1>1. ValuesInv
  BY DEF ActionsInv
<1>3. ValuesInv' /\ Grown
  BY <1>1, ValuesStep
<1>2. PICK n : /\ Made(n, Subtrees) \/ n \in Subtrees \cup {chain}
               /\ Subtrees' \subseteq Subtrees \cup {n}
               /\ chain' # Nothing => chain' \in Subtrees \cup {chain}
  BY <1>3 DEF Grown
<1>4. ASSUME Made(n, Subtrees) PROVE ActionsKept(n)
  <2>1. \A x \in Subtrees : Whole(x) /\ Meant(x) /\ Guards(x) /\ Grounded(x)
    BY DEF ActionsInv, ValuesInv, ActionsKept
  <2> QED BY <1>4, <2>1, MadeIsMeant, MadeGuards, MadeIsGrounded DEF ActionsKept
<1>5. \A x \in Subtrees' : ActionsKept(x)
  <2>1. CASE Made(n, Subtrees) \/ n \in Subtrees
    BY <1>2, <1>4, <2>1 DEF ActionsInv
  <2>2. CASE n = chain
    <3>1. CASE chain # Nothing
      BY <1>2, <2>2, <3>1 DEF ActionsInv
    <3>2. CASE chain = Nothing
      <4>1. Nothing \notin Subtrees'
        <5>1. \A x \in Subtrees' : Whole(x)
          BY <1>3 DEF ValuesInv, Whole, Shaped, Typed, Fields, Entry
        <5> QED BY <5>1, WholeIsSomething
      <4> QED BY <1>2, <2>2, <3>2, <4>1 DEF ActionsInv
    <3> QED BY <3>1, <3>2
  <2> QED BY <1>2, <2>1, <2>2
<1>6. chain' # Nothing => ActionsKept(chain')
  <2> SUFFICES ASSUME chain' # Nothing PROVE ActionsKept(chain')
    OBVIOUS
  <2>1. chain' \in Subtrees \cup {chain}
    BY <1>2
  <2> QED BY <2>1 DEF ActionsInv
<1>7. (\A x \in Subtrees : ActionsKept(x))'
  BY <1>5 DEF ActionsKept, Meant, Guards, Grounded
<1>8. (chain # Nothing => ActionsKept(chain))'
  BY <1>6 DEF ActionsKept, Meant, Guards, Grounded
<1> QED BY <1>3, <1>7, <1>8 DEF ActionsInv

\* What becomes of the subtrees becomes of every chain.
THEOREM ActionsInvariant == Spec => []ActionsInv
<1> USE EvaluationAssumption
<1>1. Init => ActionsInv
  BY ValuesInit DEF ActionsInv
<1>2. ActionsInv /\ [Next]_vars => ActionsInv'
  BY ActionsStep
<1> QED BY <1>1, <1>2, PTL DEF Spec

\* However operators, lists and scopes are nested, no action comes out of a chain of
\* khi guards unless every guard it stands behind is true by the facts of the context.
THEOREM ActionsAreAlwaysGuarded == Spec => []ActionsAreGuarded
<1>1. ActionsInv => ActionsAreGuarded
  <2> SUFFICES ASSUME ActionsInv, Ended, ~Uses(chain, {"kra"}), NEW c \in Contexts
               PROVE  Python(c).acts \subseteq chain.at[c].may
    BY DEF ActionsAreGuarded
  <2>1. Guards(chain) /\ outcome = Outcome(chain)
    BY DEF Ended, ActionsInv, ValuesInv, ActionsKept
  <2>2. "kra" \notin ToSet(chain.ops)
    BY UsesFacts
  <2>3. Python(c) \in {Failure, chain.at[c].val}
    BY <2>1, VerdictFacts DEF Python, Outcome
  <2> QED BY <2>1, <2>2, <2>3, AtomConstants DEF Guards
<1> QED BY <1>1, ActionsInvariant, PTL

\* An action of strict mode has all shards it needs, fresh, every literal of the
\* chain in the context, and a target that is defined.
THEOREM StrictActionsAreAlwaysGrounded == Spec => []StrictActionsAreGrounded
<1>1. ActionsInv => StrictActionsAreGrounded
  <2> SUFFICES ASSUME ActionsInv, Ended, NEW c \in Contexts, c.strict, Python(c).acts # {}
               PROVE  /\ c.spatial /\ ~c.stale
                      /\ Uses(chain, {"khi"}) => c.audit
                      /\ \A k \in chain.lits : c.lit[k] # "none"
                      /\ "undefined" \notin Python(c).acts
    BY DEF StrictActionsAreGrounded
  <2>1. Grounded(chain) /\ outcome = Outcome(chain)
    BY DEF Ended, ActionsInv, ValuesInv, ActionsKept
  <2>2. Python(c) = Verdict(c, chain)
    BY <2>1 DEF Python, Outcome
  <2>3. Validates(c, chain) /\ Python(c) = chain.at[c].val
    BY <2>2, VerdictFacts, AtomConstants
  <2>4. c.spatial /\ "undefined" \notin Python(c).acts
    BY <2>1, <2>3 DEF Grounded
  <2> QED BY <2>3, <2>4 DEF Validates
<1> QED BY <1>1, ActionsInvariant, PTL

-----------------------------------------------------------------------------
(* Facts and guarded clauses: what the two implementations make of them *)

\* What is known of a fact whose meaning is m; exact if nothing was refused.
FactEntry(v, core, m) ==
    v \in Plain /\ m \in K3 /\ v.t \in {"U", m} /\ core \in {m, "error"}

Exact(v, core, m) == v # Failure /\ v.t = m /\ core = m

\* A constant is exact.
LEMMA ConstantFact ==
    ASSUME NEW w \in {"true", "false", "undefined"}
    PROVE  /\ FactEntry(ConstantValue(w), ConstantValue(w).t, ConstantValue(w).t)
           /\ Exact(ConstantValue(w), ConstantValue(w).t, ConstantValue(w).t)
<1>1. ConstantValue(w) \in {Undefined, Truth("T"), Truth("F")}
  BY DEF ConstantValue
<1>2. ConstantValue(w) # Failure /\ ConstantValue(w).t \in K3
  BY <1>1, AtomConstants DEF K3
<1> QED BY <1>1, <1>2 DEF FactEntry, Exact, Plain

\* shi and a literal is refused in strict mode if the literal is not known, and exact
\* otherwise, by both implementations.
LEMMA KnownFact ==
    ASSUME EvaluationAssumption, NEW c \in Contexts, NEW k \in Keys
    PROVE  /\ FactEntry(Epistemic(c, "shi", k), CoreEpistemic(c, "shi", k),
                        ModalMeaning(c, "shi", k))
           /\ ~c.strict \/ c.know[k] # "none" =>
                 Exact(Epistemic(c, "shi", k), CoreEpistemic(c, "shi", k),
                       ModalMeaning(c, "shi", k))
<1>1. k # NoKey
  BY DEF EvaluationAssumption
<1>2. /\ Epistemic(c, "shi", k) = Known(c, k)
      /\ CoreEpistemic(c, "shi", k) = IF c.know[k] = "none" THEN CoreRefuse(c) ELSE c.know[k]
      /\ ModalMeaning(c, "shi", k) = Says(c.know[k])
  BY <1>1 DEF Epistemic, CoreEpistemic, ModalMeaning
<1>3. CASE c.know[k] = "none"
  <2>1. Says(c.know[k]) = "U"
    BY <1>3 DEF Says
  <2>2. CASE c.strict
    <3>1. Known(c, k) = Failure /\ CoreRefuse(c) = "error"
      BY <1>3, <2>2 DEF Known, Refuse, CoreRefuse
    <3>2. Failure \in Plain /\ Failure.t = "U" /\ "U" \in K3
      BY AtomConstants DEF Plain, K3
    <3> QED BY <1>2, <1>3, <2>1, <2>2, <3>1, <3>2 DEF FactEntry
  <2>3. CASE ~c.strict
    <3>1. Known(c, k) = Undefined /\ CoreRefuse(c) = "U"
      BY <1>3, <2>3 DEF Known, Refuse, CoreRefuse
    <3>2. Undefined \in Plain /\ Undefined.t = "U" /\ "U" \in K3 /\ Undefined # Failure
      BY AtomConstants DEF Plain, K3
    <3> QED BY <1>2, <1>3, <2>1, <3>1, <3>2 DEF FactEntry, Exact
  <2> QED BY <2>2, <2>3
<1>4. CASE c.know[k] # "none"
  <2>1. c.know[k] \in {"T", "F"} /\ Says(c.know[k]) = c.know[k]
    BY <1>4, ContextFacts, SaysFacts
  <2>2. Known(c, k) = Truth(c.know[k]) /\ Truth(c.know[k]) \in Plain
    BY <1>4, <2>1 DEF Known, Plain
  <2>3. Truth(c.know[k]).t = c.know[k] /\ Truth(c.know[k]) # Failure /\ c.know[k] \in K3
    BY <2>1, AtomConstants DEF K3
  <2> QED BY <1>2, <1>4, <2>1, <2>2, <2>3 DEF FactEntry, Exact
<1> QED BY <1>3, <1>4

\* nai keeps a fact one.
LEMMA NegatedFact ==
    ASSUME NEW v, NEW core, NEW m, FactEntry(v, core, m)
    PROVE  /\ FactEntry(Negation(v), CoreNegation(core), KNot(m))
           /\ FactEntry(Failure, CoreNegation(core), KNot(m))
           /\ Exact(v, core, m) => Exact(Negation(v), CoreNegation(core), KNot(m))
<1>1. Proper(v) /\ Unwrap(v) = v /\ v.t \in K3
  BY PlainFacts, ProperFacts DEF FactEntry
<1>2. Negation(v) \in Plain /\ Negation(v) # Failure /\ Negation(v).t = KNot(v.t)
  BY <1>1, NegationFacts
<1>3. KNot(m) \in K3 /\ KNot("U") = "U" /\ KNot(v.t) \in {"U", KNot(m)}
  BY DEF FactEntry, K3, KNot
<1>4. core = m => CoreNegation(core) = KNot(m)
  BY DEF FactEntry, CoreNegation
<1>5. core = "error" => CoreNegation(core) = "error"
  BY DEF CoreNegation, K3
<1>6. CoreNegation(core) \in {KNot(m), "error"}
  BY <1>4, <1>5 DEF FactEntry
<1>7. Failure \in Plain /\ Failure.t = "U"
  BY AtomConstants DEF Plain
<1>8. FactEntry(Negation(v), CoreNegation(core), KNot(m))
  BY <1>2, <1>3, <1>6 DEF FactEntry
<1>9. FactEntry(Failure, CoreNegation(core), KNot(m))
  BY <1>3, <1>6, <1>7 DEF FactEntry
<1>10. Exact(v, core, m) => Exact(Negation(v), CoreNegation(core), KNot(m))
  BY <1>2, <1>4 DEF Exact
<1> QED BY <1>8, <1>9, <1>10

\* an and ur of values that are no lists are those of the operator.
LEMMA PlainConnectives ==
    ASSUME NEW l \in Plain, NEW r \in Plain
    PROVE  /\ Conjunction("an", l, r) = Binary("an", l, r)
           /\ Disjunction(l, r) = Binary("ur", l, r)
<1>1. PICK a, b : a = <<l>> /\ b = <<r>>
  OBVIOUS
<1>2. Proper(l) /\ Proper(r) /\ Spliced(l) = a /\ Spliced(r) = b /\ Leading(l) = l
  BY <1>1, PlainFacts, SplicedFacts, LeadingFacts
<1>3. Len(a) = 1 /\ Len(b) = 1 /\ a[1] = l /\ b[1] = r
  BY <1>1
<1>4. Conjunction("an", l, r) = Binary("an", Leading(l), Spliced(r)[1])
  BY <1>2, <1>3, ConjunctionFacts
<1>5. Head(a) = l /\ Head(b) = r
  BY <1>1
<1>6. Disjunction(l, r) = Binary("ur", l, r)
  BY <1>2, <1>3, <1>5 DEF Disjunction
<1> QED BY <1>2, <1>3, <1>4, <1>6

\* So do an and ur, though eval.rs decides by one operand where Python fails.
LEMMA JoinedFacts ==
    ASSUME NEW u, NEW e, NEW p, FactEntry(u, e, p), NEW v, NEW f, NEW q, FactEntry(v, f, q)
    PROVE  /\ FactEntry(Conjunction("an", u, v), CoreAnd(e, f), KAnd(p, q))
           /\ FactEntry(Disjunction(u, v), CoreOr(e, f), KOr(p, q))
           /\ Exact(u, e, p) /\ Exact(v, f, q) =>
                 /\ Exact(Conjunction("an", u, v), CoreAnd(e, f), KAnd(p, q))
                 /\ Exact(Disjunction(u, v), CoreOr(e, f), KOr(p, q))
<1>1. /\ Proper(u) /\ Unwrap(u) = u /\ Proper(v) /\ Unwrap(v) = v
      /\ u.t \in K3 /\ v.t \in K3
  BY PlainFacts, ProperFacts DEF FactEntry
<1>2. /\ Conjunction("an", u, v) = Binary("an", u, v) /\ Disjunction(u, v) = Binary("ur", u, v)
  BY PlainConnectives DEF FactEntry
<1>3. /\ Binary("an", u, v) \in Plain /\ Binary("ur", u, v) \in Plain
  BY <1>1, BinaryFacts
<1>4. /\ Binary("an", u, v).t \in {"U", KAnd(u.t, v.t)}
      /\ Binary("ur", u, v).t \in {"U", KOr(u.t, v.t)}
  BY <1>1, ProperFacts, AtomConstants DEF Binary
<1>5. /\ KAnd(p, q) \in K3 /\ KOr(p, q) \in K3
      /\ Binary("an", u, v).t \in {"U", KAnd(p, q)}
      /\ Binary("ur", u, v).t \in {"U", KOr(p, q)}
  <2>1. KAnd(p, q) \in K3 /\ KOr(p, q) \in K3
    BY KleeneTypes DEF FactEntry
  <2>2. KAnd(u.t, v.t) \in {"U", KAnd(p, q)} /\ KOr(u.t, v.t) \in {"U", KOr(p, q)}
    BY KleeneReads DEF FactEntry
  <2> QED BY <1>4, <2>1, <2>2
<1>6. /\ CoreAnd(e, f) \in {KAnd(p, q), "error"}
      /\ CoreOr(e, f) \in {KOr(p, q), "error"}
      /\ e = p /\ f = q => CoreAnd(e, f) = KAnd(p, q) /\ CoreOr(e, f) = KOr(p, q)
  BY DEF FactEntry, CoreAnd, CoreOr, CoreConnective, KAnd, KOr, K3
<1>7. ASSUME u # Failure, v # Failure
      PROVE  /\ Binary("an", u, v) # Failure /\ Binary("an", u, v).t = KAnd(u.t, v.t)
             /\ Binary("ur", u, v) # Failure /\ Binary("ur", u, v).t = KOr(u.t, v.t)
  <2>1. u.d # "error" /\ v.d # "error"
    BY <1>1, <1>7, ProperFacts
  <2>2. /\ Binary("an", u, v) = IF KAnd(u.t, v.t) = "U" THEN Undefined ELSE Truth(KAnd(u.t, v.t))
        /\ Binary("ur", u, v) = IF KOr(u.t, v.t) = "U" THEN Undefined ELSE Truth(KOr(u.t, v.t))
    BY <1>1, <2>1 DEF Binary
  <2>3. Undefined # Failure /\ \A t : Truth(t) # Failure
    BY AtomConstants
  <2> QED BY <2>2, <2>3, AtomConstants
<1>8. /\ FactEntry(Conjunction("an", u, v), CoreAnd(e, f), KAnd(p, q))
      /\ FactEntry(Disjunction(u, v), CoreOr(e, f), KOr(p, q))
  BY <1>2, <1>3, <1>5, <1>6 DEF FactEntry
<1>9. Exact(u, e, p) /\ Exact(v, f, q) =>
         /\ Exact(Conjunction("an", u, v), CoreAnd(e, f), KAnd(p, q))
         /\ Exact(Disjunction(u, v), CoreOr(e, f), KOr(p, q))
  BY <1>2, <1>6, <1>7 DEF Exact
<1> QED BY <1>8, <1>9

-----------------------------------------------------------------------------

\* Strict mode has nothing to refuse in n.
Settled(c, n) == c.strict => \A k \in n.lits : c.know[k] # "none"

FactKept(n) ==
    n.form = "fact" =>
        /\ ToSet(n.ops) \subseteq {"nai", "an", "ur", "shi"}
        /\ \A c \in Contexts :
              /\ FactEntry(n.at[c].val, n.at[c].core, n.at[c].meaning)
              /\ Settled(c, n) => Exact(n.at[c].val, n.at[c].core, n.at[c].meaning)

KeyKept(n) ==
    n.key # NoKey =>
        /\ n.ops = Blank /\ n.lits = OnlyLit(n.key) /\ n.unary = FALSE /\ n.form = "other"
        /\ \A c \in Contexts : n.at[c].val = VisitLiteral(c, n.key) /\ n.at[c].core = n.key

ClauseKept(n) ==
    n.form = "clause" => \E k \in Keys :
        /\ n.ops = <<"mek">> /\ n.lits = OnlyLit(k)
        /\ \A c \in Contexts :
              /\ n.at[c].val = ActionEvent(c, VisitLiteral(c, k))
              /\ n.at[c].core = "action" /\ n.at[c].may # {}

GuardedKept(n) ==
    n.form = "guarded" =>
        /\ ActionsWellPlaced(n.ops)
        /\ \A c \in Contexts :
              /\ n.at[c].val.acts # {} \/ n.at[c].core = "action" => n.at[c].may # {}
              /\ n.at[c].may # {} /\ Complete(c, n) /\ Settled(c, n) =>
                    n.at[c].val.acts # {} /\ n.at[c].core = "action"

FormsKept(n) == FactKept(n) /\ KeyKept(n) /\ ClauseKept(n) /\ GuardedKept(n)

\* What the form of a subtree says of how it was made.
LEMMA FormOfLeaf ==
    ASSUME EvaluationAssumption, NEW n, Leaves(n)
    PROVE  /\ n.form = "fact" => \E w \in {"true", "false", "undefined"} : FromConstant(n, w)
           /\ n.form \in {"fact", "other"}
           /\ n.key # NoKey => n.key \in Keys /\ FromKey(n, n.key)
<1>1. ASSUME NEW w \in {"true", "false", "undefined"}, FromConstant(n, w)
      PROVE  n.form = "fact" /\ n.key = NoKey
  BY <1>1, FieldsGive DEF FromConstant
<1>2. ASSUME NEW k \in Keys, FromKey(n, k)
      PROVE  n.form = "other" /\ n.key = k
  BY <1>2, FieldsGive DEF FromKey
<1> QED BY <1>1, <1>2 DEF Leaves

LEMMA FormOfOne ==
    ASSUME NEW n, NEW t, OfOne(n, t)
    PROVE  /\ n.key = NoKey /\ n.form # "guarded"
           /\ n.form = "fact" => \/ FromNegation(n, t) /\ t.form = "fact"
                                 \/ FromModal(n, t, "shi") /\ t.key # NoKey
           /\ n.form = "clause" => FromAction(n, t) /\ t.key # NoKey
<1>1. ASSUME NEW o, NEW f, NEW u, UnaryFields(n, t, o, u, f)
      PROVE  n.form = f
  BY <1>1, FieldsGive DEF UnaryFields
<1>2. ASSUME NEW op, FromModal(n, t, op)
      PROVE  n.form = FactIf(op = "shi" /\ t.key # NoKey)
  BY <1>1, <1>2 DEF FromModal
<1>3. FromNegation(n, t) => n.form = FactIf(t.form = "fact")
  BY <1>1 DEF FromNegation
<1>4. \A op : FromQuantifier(n, t, op) => n.form = "other"
  BY <1>1 DEF FromQuantifier
<1>5. FromScope(n, t) => n.form = "other"
  BY <1>1 DEF FromScope
<1>6. FromAction(n, t) => n.form = ClauseForm(t)
  BY <1>1 DEF FromAction
<1>7. \A op : FromModal(n, t, op) =>
         n.form \in {"fact", "other"} /\ (n.form = "fact" => op = "shi" /\ t.key # NoKey)
  BY <1>2 DEF FactIf
<1>8. FromNegation(n, t) => n.form \in {"fact", "other"} /\ (n.form = "fact" => t.form = "fact")
  BY <1>3 DEF FactIf
<1>9. FromAction(n, t) => n.form \in {"clause", "other"} /\ (n.form = "clause" => t.key # NoKey)
  BY <1>6 DEF ClauseForm
<1> QED BY <1>4, <1>5, <1>7, <1>8, <1>9, OneGives DEF OfOne

LEMMA FormOfTwo ==
    ASSUME NEW n, NEW l, NEW r, OfTwo(n, l, r)
    PROVE  /\ n.key = NoKey /\ n.form # "clause"
           /\ n.form = "fact" => /\ FromAnd(n, l, r) \/ FromOr(n, l, r)
                                 /\ l.form = "fact" /\ r.form = "fact"
           /\ n.form = "guarded" => FromConditional(n, l, r) /\ l.form = "fact" /\ r.form = "clause"
<1>1. ASSUME NEW o, NEW f, BinaryFields(n, l, r, o, f)
      PROVE  n.form = f
  BY <1>1, FieldsGive DEF BinaryFields
<1>2. FromAnd(n, l, r) \/ FromOr(n, l, r) => n.form = FactIf(BothFact(l, r))
  BY <1>1 DEF FromAnd, FromOr
<1>3. FromKra(n, l, r) \/ FromJuxtaposition(n, l, r) => n.form = "other"
  BY <1>1 DEF FromKra, FromJuxtaposition
<1>4. FromConditional(n, l, r) => n.form = GuardedForm(l, r)
  BY <1>1 DEF FromConditional
<1>5. FromAnd(n, l, r) \/ FromOr(n, l, r) =>
         n.form \in {"fact", "other"} /\ (n.form = "fact" => l.form = "fact" /\ r.form = "fact")
  BY <1>2 DEF FactIf, BothFact
<1>6. FromConditional(n, l, r) =>
         n.form \in {"guarded", "other"} /\ (n.form = "guarded" => l.form = "fact" /\ r.form = "clause")
  BY <1>4 DEF GuardedForm
<1> QED BY <1>3, <1>5, <1>6, TwoGive DEF OfTwo

\* A clause behind khi and a fact is where the validator wants an action to be.
LEMMA GuardedClauseOps ==
    ASSUME NEW s \in Seq(Words), ToSet(s) \subseteq {"nai", "an", "ur", "shi"}
    PROVE  \E m, t :
              /\ m \in Nat
              /\ t = s \o <<"khi", "sek">> \o Append(<<"mek">>, "sek")
              /\ Len(t) = m + 4 /\ DOMAIN t = 1..(m + 4)
              /\ \A i \in 1..m : t[i] \in {"nai", "an", "ur", "shi"}
              /\ t[m + 1] = "khi" /\ t[m + 2] = "sek" /\ t[m + 3] = "mek" /\ t[m + 4] = "sek"
<1>1. PICK m, u : m = Len(s) /\ u = s \o <<"khi", "sek">>
  OBVIOUS
<1>2. m \in Nat /\ DOMAIN s = 1..m
  BY <1>1
<1>3. /\ Len(u) = m + 2 /\ u[m + 1] = "khi" /\ u[m + 2] = "sek"
      /\ \A i \in 1..m : u[i] = s[i]
  BY <1>1, <1>2
<1>4. PICK w : w = Append(<<"mek">>, "sek")
  OBVIOUS
<1>5. Len(w) = 2 /\ w[1] = "mek" /\ w[2] = "sek" /\ w \in Seq(Words)
  BY <1>4 DEF Words
<1>6. u \in Seq(Words)
  <2>1. <<"khi", "sek">> \in Seq(Words)
    BY DEF Words
  <2> QED BY <1>1, <2>1
<1>7. PICK t : t = u \o w
  OBVIOUS
<1>8. /\ Len(t) = m + 4 /\ DOMAIN t = 1..(m + 4)
      /\ \A i \in 1..m : t[i] = s[i]
      /\ t[m + 1] = "khi" /\ t[m + 2] = "sek" /\ t[m + 3] = "mek" /\ t[m + 4] = "sek"
  <2>1. /\ Len(t) = Len(u) + Len(w)
        /\ \A i \in 1..(Len(u) + Len(w)) : t[i] = IF i <= Len(u) THEN u[i] ELSE w[i - Len(u)]
    BY <1>5, <1>6, <1>7, ConcatProperties
  <2>2. t \in Seq(Words)
    BY <1>5, <1>6, <1>7
  <2>3. Len(t) = m + 4 /\ \A i \in 1..(m + 4) : t[i] = IF i <= m + 2 THEN u[i] ELSE w[i - (m + 2)]
    BY <1>2, <1>3, <1>5, <2>1
  <2>4. DOMAIN t = 1..(m + 4)
    BY <2>2, <2>3
  <2>5. t[m + 3] = w[1] /\ t[m + 4] = w[2] /\ t[m + 1] = u[m + 1] /\ t[m + 2] = u[m + 2]
    BY <1>2, <2>3
  <2>6. \A i \in 1..m : t[i] = s[i]
    BY <1>2, <1>3, <2>3
  <2> QED BY <1>3, <1>5, <2>3, <2>4, <2>5, <2>6
<1>9. \A i \in 1..m : t[i] \in {"nai", "an", "ur", "shi"}
  BY <1>2, <1>8 DEF ToSet
<1>10. t = s \o <<"khi", "sek">> \o Append(<<"mek">>, "sek")
  BY <1>1, <1>4, <1>7
<1> QED BY <1>2, <1>8, <1>9, <1>10

LEMMA WellPlaced ==
    ASSUME NEW m \in Nat, NEW t, Len(t) = m + 4, DOMAIN t = 1..(m + 4),
           \A i \in 1..m : t[i] \in {"nai", "an", "ur", "shi"},
           t[m + 1] = "khi", t[m + 2] = "sek", t[m + 3] = "mek", t[m + 4] = "sek"
    PROVE  ActionsWellPlaced(t)
<1>1. \A i \in DOMAIN t : i \in 1..m \/ i = m + 1 \/ i = m + 2 \/ i = m + 3 \/ i = m + 4
  OBVIOUS
<1>2. \A i \in DOMAIN t : (t[i] = "khi" <=> i = m + 1) /\ (t[i] = "mek" <=> i = m + 3)
  BY <1>1
<1>3. m + 1 \in DOMAIN t /\ m + 3 \in DOMAIN t
  OBVIOUS
<1>4. Positions(t, {"khi"}) = {m + 1} /\ Positions(t, {"mek"}) = {m + 3}
  BY <1>2, <1>3 DEF Positions
<1>5. First({m + 1}) = m + 1
  BY DEF First
<1>6. ~PureAction(t)
  <2>1. "khi" \in LogicOps
    BY DEF LogicOps
  <2> QED BY <1>3, <2>1 DEF PureAction, Positions
<1>7. t[1] # "kra"
  <2>1. CASE m = 0
    BY <2>1
  <2>2. CASE m # 0
    <3>1. 1 \in 1..m
      BY <2>2
    <3> QED BY <3>1
  <2> QED BY <2>1, <2>2
<1>8. \A i \in Positions(t, LogicOps \ {"khi", "sek"}) : i <= m + 2
  <2> SUFFICES ASSUME NEW i \in DOMAIN t, t[i] \in LogicOps \ {"khi", "sek"}
               PROVE  i <= m + 2
    BY DEF Positions
  <2>1. "mek" \notin LogicOps
    BY DEF LogicOps, Modal, Quantifiers
  <2> QED BY <1>1, <2>1
<1>9. ActionClause(t)
  <2>1. PICK k : k = First(Positions(t, {"khi"}))
    OBVIOUS
  <2>2. k = m + 1
    BY <1>4, <1>5, <2>1
  <2>3. \A i \in Positions(t, {"mek"}) : i > k
    BY <1>4, <2>2
  <2>4. k < Len(t) /\ t[k + 1] \in {"mek", "sek"}
    <3>1. k + 1 = m + 2
      BY <2>2
    <3> QED BY <2>2, <3>1
  <2>5. \A i \in Positions(t, LogicOps \ {"khi", "sek"}) : i <= k + 1
    <3>1. k + 1 = m + 2
      BY <2>2
    <3> QED BY <1>8, <3>1
  <2> QED BY <2>1, <2>3, <2>4, <2>5 DEF ActionClause
<1> QED BY <1>4, <1>6, <1>7, <1>9 DEF ActionsWellPlaced

LEMMA GuardedClauseIsWellPlaced ==
    ASSUME NEW s \in Seq(Words), ToSet(s) \subseteq {"nai", "an", "ur", "shi"}
    PROVE  ActionsWellPlaced(s \o <<"khi", "sek">> \o Append(<<"mek">>, "sek"))
<1>1. PICK m, t :
        /\ m \in Nat
        /\ t = s \o <<"khi", "sek">> \o Append(<<"mek">>, "sek")
        /\ Len(t) = m + 4 /\ DOMAIN t = 1..(m + 4)
        /\ \A i \in 1..m : t[i] \in {"nai", "an", "ur", "shi"}
        /\ t[m + 1] = "khi" /\ t[m + 2] = "sek" /\ t[m + 3] = "mek" /\ t[m + 4] = "sek"
  BY GuardedClauseOps
<1>2. ActionsWellPlaced(t)
  BY <1>1, WellPlaced
<1> QED BY <1>1, <1>2

LEMMA OpsGive ==
    ASSUME NEW n, NEW t
    PROVE  /\ FromNegation(n, t) => n.ops = Before("nai", t)
           /\ FromModal(n, t, "shi") => n.ops = Before("shi", t)
           /\ FromAction(n, t) => n.ops = Before("mek", t)
<1>1. ASSUME NEW o, NEW f, NEW u, UnaryFields(n, t, o, u, f)
      PROVE  n.ops = o
  BY <1>1, FieldsGive DEF UnaryFields
<1>2. FromNegation(n, t) => n.ops = Before("nai", t)
  BY <1>1 DEF FromNegation
<1>3. FromModal(n, t, "shi") => n.ops = Before("shi", t)
  BY <1>1 DEF FromModal
<1>4. FromAction(n, t) => n.ops = Before("mek", t)
  BY <1>1 DEF FromAction
<1> QED BY <1>2, <1>3, <1>4

LEMMA OpsGiveTwo ==
    ASSUME NEW n, NEW l, NEW r
    PROVE  /\ FromAnd(n, l, r) => n.ops = Between("an", l, r) /\ n.lits = LitsOf(l, r)
           /\ FromOr(n, l, r) => n.ops = Between("ur", l, r) /\ n.lits = LitsOf(l, r)
           /\ FromConditional(n, l, r) => n.ops = Conditionally(l, r) /\ n.lits = LitsOf(l, r)
<1>1. ASSUME NEW o, NEW f, BinaryFields(n, l, r, o, f)
      PROVE  n.ops = o /\ n.lits = LitsOf(l, r)
  BY <1>1, FieldsGive DEF BinaryFields
<1>2. FromAnd(n, l, r) => n.ops = Between("an", l, r) /\ n.lits = LitsOf(l, r)
  BY <1>1 DEF FromAnd
<1>3. FromOr(n, l, r) => n.ops = Between("ur", l, r) /\ n.lits = LitsOf(l, r)
  BY <1>1 DEF FromOr
<1>4. FromConditional(n, l, r) => n.ops = Conditionally(l, r) /\ n.lits = LitsOf(l, r)
  BY <1>1 DEF FromConditional
<1> QED BY <1>2, <1>3, <1>4

\* A literal has the action at it, and the action is there if C.spatial is.
LEMMA LiteralAction ==
    ASSUME EvaluationAssumption, NEW c \in Contexts, NEW k \in Keys,
           c.lit[k] # "none", c.spatial
    PROVE  ActionEvent(c, VisitLiteral(c, k)) = Action(k)
<1>1. VisitLiteral(c, k) = Literal(k, Truth(c.lit[k]))
  BY DEF VisitLiteral
<1>2. Literal(k, Truth(c.lit[k])).d = "literal" /\ Literal(k, Truth(c.lit[k])).key = k
  BY DEF Literal, Value
<1> QED BY <1>1, <1>2 DEF ActionEvent, TargetOf

\* The clause of an action is sound: it passes a guard that is true.
LEMMA ActionPasses ==
    ASSUME NEW c, NEW v, v.d = "truth", v.t = "T", NEW k
    PROVE  Guarded(c, v, Action(k)).acts # {}
<1>1. PICK a, s : a = Action(k) /\ s = <<a>>
  OBVIOUS
<1>2. a.sound = TRUE /\ a.acts = {k}
  BY <1>1 DEF Action, Value
<1>3. DOMAIN s = {1} /\ s[1] = a
  BY <1>1
<1>4. List(s).sound = TRUE
  BY <1>2, <1>3, ListFlags
<1>5. ActsOf(s) = {k}
  BY <1>2, <1>3 DEF ActsOf
<1>6. Guarded(c, v, a) = List(s)
  BY <1>1, <1>4 DEF Guarded
<1> QED BY <1>1, <1>5, <1>6, ListFields

LEMMA MadeKeepsKeys ==
    ASSUME EvaluationAssumption, NEW S, NEW n, Made(n, S)
    PROVE  KeyKept(n)
<1> SUFFICES ASSUME n.key # NoKey PROVE KeyKept(n)
  BY DEF KeyKept
<1>1. Leaves(n)
  BY FormOfOne, FormOfTwo DEF Made
<1>2. n.key \in Keys /\ FromKey(n, n.key)
  BY <1>1, FormOfLeaf
<1>3. n.ops = Blank /\ n.lits = OnlyLit(n.key) /\ n.unary = FALSE /\ n.form = "other"
  BY <1>2, FieldsGive DEF FromKey
<1> QED BY <1>2, <1>3, KeyGives DEF KeyKept

LEMMA MadeKeepsClauses ==
    ASSUME EvaluationAssumption, NEW S, \A x \in S : Whole(x) /\ KeyKept(x), NEW n, Made(n, S)
    PROVE  ClauseKept(n)
<1> SUFFICES ASSUME n.form = "clause" PROVE ClauseKept(n)
  BY DEF ClauseKept
<1>1. PICK t \in S : OfOne(n, t)
  BY FormOfLeaf, FormOfTwo DEF Made
<1>2. FromAction(n, t) /\ t.key # NoKey
  BY <1>1, FormOfOne
<1>3. PICK k : k = t.key
  OBVIOUS
<1>4. k \in Keys /\ t.ops = Blank /\ t.lits = OnlyLit(k)
  BY <1>2, <1>3 DEF Whole, Shaped, KeyKept
<1>5. \A c \in Contexts : t.at[c].val = VisitLiteral(c, k) /\ t.at[c].core = k
  BY <1>2, <1>3 DEF KeyKept
<1>6. n.lits = OnlyLit(k)
  BY <1>1, <1>4, OneGives
<1>7. n.ops = Before("mek", t)
  BY <1>2, OpsGive
<1>8. Before("mek", t) = <<"mek">>
  BY <1>4 DEF Before, Blank
<1>9. k # "reject"
  BY <1>4 DEF EvaluationAssumption
<1>10. \A c \in Contexts : n.at[c].val = ActionEvent(c, VisitLiteral(c, k))
  BY <1>2, <1>5, ActionGives
<1>11. \A c \in Contexts : n.at[c].core = "action"
  BY <1>2, <1>5, <1>9, ActionGives DEF CoreAction
<1>12. \A c \in Contexts : n.at[c].may # {}
  BY <1>2, ActionGives DEF OnlyTarget
<1> QED BY <1>4, <1>6, <1>7, <1>8, <1>10, <1>11, <1>12 DEF ClauseKept

LEMMA MadeKeepsFacts ==
    ASSUME EvaluationAssumption, NEW S,
           \A x \in S : Whole(x) /\ KeyKept(x) /\ FactKept(x), NEW n, Made(n, S)
    PROVE  FactKept(n)
<1> SUFFICES ASSUME n.form = "fact" PROVE FactKept(n)
  BY DEF FactKept
<1>1. CASE Leaves(n)
  <2>1. PICK w \in {"true", "false", "undefined"} : FromConstant(n, w)
    BY <1>1, FormOfLeaf
  <2>2. n.ops = Blank
    BY <2>1, FieldsGive DEF FromConstant
  <2>3. ToSet(n.ops) = {}
    BY <2>2 DEF ToSet, Blank
  <2>4. \A c \in Contexts : /\ FactEntry(n.at[c].val, n.at[c].core, n.at[c].meaning)
                            /\ Exact(n.at[c].val, n.at[c].core, n.at[c].meaning)
    BY <2>1, ConstantGives, ConstantFact
  <2> QED BY <2>3, <2>4 DEF FactKept
<1>2. ASSUME NEW t \in S, OfOne(n, t)
      PROVE  FactKept(n)
  <2>1. n.lits = t.lits /\ t.ops \in Seq(Words) /\ t.key \in Keys \cup {NoKey}
    BY <1>2, OneGives DEF Whole, Shaped
  <2>2. CASE FromNegation(n, t) /\ t.form = "fact"
    <3>1. n.ops = Before("nai", t)
      BY <2>2, OpsGive
    <3>2. ToSet(n.ops) = {"nai"} \cup ToSet(t.ops)
      BY <2>1, <3>1, OpsAround DEF Words
    <3>3. ToSet(n.ops) \subseteq {"nai", "an", "ur", "shi"}
      BY <2>2, <3>2 DEF FactKept
    <3>4. ASSUME NEW c \in Contexts
          PROVE  /\ FactEntry(n.at[c].val, n.at[c].core, n.at[c].meaning)
                 /\ Settled(c, n) => Exact(n.at[c].val, n.at[c].core, n.at[c].meaning)
      <4>1. PICK v, e, m : v = t.at[c].val /\ e = t.at[c].core /\ m = t.at[c].meaning
        OBVIOUS
      <4>2. FactEntry(v, e, m) /\ (Settled(c, n) => Exact(v, e, m))
        BY <2>1, <2>2, <4>1 DEF FactKept, Settled
      <4>3. /\ FactEntry(Negation(v), CoreNegation(e), KNot(m))
            /\ FactEntry(Failure, CoreNegation(e), KNot(m))
            /\ Settled(c, n) => Exact(Negation(v), CoreNegation(e), KNot(m))
        BY <4>2, NegatedFact
      <4>4. Proper(v)
        BY <4>2, PlainFacts DEF FactEntry
      <4>5. /\ n.at[c].val = StackedOn(t, c, Negation(v)) /\ n.at[c].core = CoreNegation(e)
            /\ n.at[c].meaning = KNot(m)
        BY <2>2, <4>1, NegationGives
      <4>6. n.at[c].val = Negation(v) \/ (n.at[c].val = Failure /\ v = Failure)
        BY <4>1, <4>4, <4>5, StackedFacts
      <4>7. FactEntry(n.at[c].val, n.at[c].core, n.at[c].meaning)
        BY <4>3, <4>5, <4>6
      <4>8. Settled(c, n) => n.at[c].val = Negation(v)
        BY <4>2, <4>6 DEF Exact
      <4> QED BY <4>3, <4>5, <4>7, <4>8
    <3> QED BY <3>3, <3>4 DEF FactKept
  <2>3. CASE FromModal(n, t, "shi") /\ t.key # NoKey
    <3>1. PICK k : k = t.key
      OBVIOUS
    <3>2. k \in Keys /\ t.ops = Blank /\ t.lits = OnlyLit(k) /\ t.unary = FALSE
      BY <2>1, <2>3, <3>1 DEF KeyKept
    <3>3. n.ops = Before("shi", t)
      BY <2>3, OpsGive
    <3>4. ToSet(n.ops) = {"shi"} \cup ToSet(t.ops)
      BY <2>1, <3>3, OpsAround DEF Words, Modal
    <3>5. ToSet(t.ops) = {}
      BY <3>2 DEF ToSet, Blank
    <3>6. ASSUME NEW c \in Contexts
          PROVE  /\ FactEntry(n.at[c].val, n.at[c].core, n.at[c].meaning)
                 /\ Settled(c, n) => Exact(n.at[c].val, n.at[c].core, n.at[c].meaning)
      <4>1. t.at[c].core = k
        BY <2>3, <3>1 DEF KeyKept
      <4>2. n.at[c].val = StackedOn(t, c, Epistemic(c, "shi", k))
        BY <2>3, <3>1, ModalGives
      <4>3. n.at[c].val = Epistemic(c, "shi", k)
        BY <3>2, <4>2 DEF StackedOn
      <4>4. n.at[c].core = CoreEpistemic(c, "shi", k) /\ n.at[c].meaning = ModalMeaning(c, "shi", k)
        BY <2>3, <3>1, <4>1, ModalGives
      <4>5. Settled(c, n) => ~c.strict \/ c.know[k] # "none"
        BY <2>1, <3>2 DEF Settled, OnlyLit
      <4> QED BY <3>2, <4>3, <4>4, <4>5, KnownFact
    <3> QED BY <3>4, <3>5, <3>6 DEF FactKept
  <2> QED BY <1>2, <2>2, <2>3, FormOfOne
<1>3. ASSUME NEW l \in S, NEW r \in S, OfTwo(n, l, r)
      PROVE  FactKept(n)
  <2>1. /\ FromAnd(n, l, r) \/ FromOr(n, l, r)
        /\ l.form = "fact" /\ r.form = "fact"
    BY <1>3, FormOfTwo
  <2>2. n.lits = LitsOf(l, r) /\ l.ops \in Seq(Words) /\ r.ops \in Seq(Words)
    <3>1. l.ops \in Seq(Words) /\ r.ops \in Seq(Words)
      BY DEF Whole, Shaped
    <3>2. n.lits = LitsOf(l, r)
      BY <2>1, OpsGiveTwo
    <3> QED BY <3>1, <3>2
  <2>3. \E op \in {"an", "ur"} : n.ops = Between(op, l, r)
    BY <2>1, OpsGiveTwo
  <2>4. \E op \in {"an", "ur"} : ToSet(n.ops) = {op} \cup ToSet(l.ops) \cup ToSet(r.ops)
    BY <2>2, <2>3, OpsBetween DEF Words
  <2>5. ToSet(n.ops) \subseteq {"nai", "an", "ur", "shi"}
    BY <2>1, <2>4 DEF FactKept
  <2>6. ASSUME NEW c \in Contexts
        PROVE  /\ FactEntry(n.at[c].val, n.at[c].core, n.at[c].meaning)
               /\ Settled(c, n) => Exact(n.at[c].val, n.at[c].core, n.at[c].meaning)
    <3>1. PICK u, e, p : u = l.at[c].val /\ e = l.at[c].core /\ p = l.at[c].meaning
      OBVIOUS
    <3>2. PICK v, f, q : v = r.at[c].val /\ f = r.at[c].core /\ q = r.at[c].meaning
      OBVIOUS
    <3>3. FactEntry(u, e, p) /\ FactEntry(v, f, q)
      BY <2>1, <3>1, <3>2 DEF FactKept
    <3>4. Settled(c, n) => Settled(c, l) /\ Settled(c, r)
      BY <2>2 DEF Settled, LitsOf
    <3>5. Settled(c, n) => Exact(u, e, p) /\ Exact(v, f, q)
      BY <2>1, <3>1, <3>2, <3>4 DEF FactKept
    <3>6. CASE FromAnd(n, l, r)
      <4>1. /\ n.at[c].val = Conjunction("an", u, v) /\ n.at[c].core = CoreAnd(e, f)
            /\ n.at[c].meaning = KAnd(p, q)
        BY <3>1, <3>2, <3>6, AndGives
      <4> QED BY <3>3, <3>5, <4>1, JoinedFacts
    <3>7. CASE FromOr(n, l, r)
      <4>1. /\ n.at[c].val = Disjunction(u, v) /\ n.at[c].core = CoreOr(e, f)
            /\ n.at[c].meaning = KOr(p, q)
        BY <3>1, <3>2, <3>7, OrGives
      <4> QED BY <3>3, <3>5, <4>1, JoinedFacts
    <3> QED BY <2>1, <3>6, <3>7
  <2> QED BY <2>5, <2>6 DEF FactKept
<1> QED BY <1>1, <1>2, <1>3 DEF Made

LEMMA MadeKeepsGuarded ==
    ASSUME EvaluationAssumption, NEW S,
           \A x \in S : Whole(x) /\ FactKept(x) /\ ClauseKept(x), NEW n, Made(n, S)
    PROVE  GuardedKept(n)
<1> SUFFICES ASSUME n.form = "guarded" PROVE GuardedKept(n)
  BY DEF GuardedKept
<1>1. PICK l \in S, r \in S : OfTwo(n, l, r)
  BY FormOfLeaf, FormOfOne DEF Made
<1>2. FromConditional(n, l, r) /\ l.form = "fact" /\ r.form = "clause"
  BY <1>1, FormOfTwo
<1>3. n.lits = LitsOf(l, r) /\ n.ops = Conditionally(l, r) /\ l.ops \in Seq(Words)
  <2>1. l.ops \in Seq(Words)
    BY DEF Whole, Shaped
  <2> QED BY <1>2, <2>1, OpsGiveTwo
<1>4. PICK k \in Keys :
        /\ r.ops = <<"mek">> /\ r.lits = OnlyLit(k)
        /\ \A c \in Contexts :
              /\ r.at[c].val = ActionEvent(c, VisitLiteral(c, k))
              /\ r.at[c].core = "action" /\ r.at[c].may # {}
  BY <1>2 DEF ClauseKept
<1>5. ToSet(l.ops) \subseteq {"nai", "an", "ur", "shi"}
  BY <1>2 DEF FactKept
<1>6. ActionsWellPlaced(n.ops)
  <2>1. PICK s, t : s = l.ops /\ t = n.ops
    OBVIOUS
  <2>2. t = s \o <<"khi", "sek">> \o Append(<<"mek">>, "sek")
    BY <1>3, <1>4, <2>1 DEF Conditionally
  <2>3. s \in Seq(Words) /\ ToSet(s) \subseteq {"nai", "an", "ur", "shi"}
    BY <1>3, <1>5, <2>1
  <2> QED BY <2>1, <2>2, <2>3, GuardedClauseIsWellPlaced
<1>7. ASSUME NEW c \in Contexts
      PROVE  /\ n.at[c].val.acts # {} \/ n.at[c].core = "action" => n.at[c].may # {}
             /\ n.at[c].may # {} /\ Complete(c, n) /\ Settled(c, n) =>
                   n.at[c].val.acts # {} /\ n.at[c].core = "action"
  <2>1. PICK u, e, p : u = l.at[c].val /\ e = l.at[c].core /\ p = l.at[c].meaning
    OBVIOUS
  <2>2. PICK v : v = r.at[c].val
    OBVIOUS
  <2>3. /\ n.at[c].val = Guarded(c, u, v) /\ n.at[c].core = CoreGuarded(e, "action")
        /\ n.at[c].may = IF p = "T" THEN r.at[c].may ELSE {}
    BY <1>2, <1>4, <2>1, <2>2, ConditionalGives DEF MayBehind
  <2>4. FactEntry(u, e, p) /\ (Settled(c, l) => Exact(u, e, p))
    BY <1>2, <2>1 DEF FactKept
  <2>5. Proper(v)
    BY <2>2 DEF Whole, Typed
  <2>6. n.at[c].may # {} <=> p = "T"
    BY <1>4, <2>3
  <2>7. n.at[c].val.acts # {} => p = "T"
    BY <2>3, <2>4, <2>5, GuardedActs DEF FactEntry
  <2>8. n.at[c].core = "action" => p = "T"
    BY <2>3, <2>4 DEF FactEntry, CoreGuarded
  <2>9. ASSUME p = "T", Complete(c, n), Settled(c, n)
        PROVE  n.at[c].val.acts # {} /\ n.at[c].core = "action"
    <3>1. Settled(c, l) /\ c.lit[k] # "none" /\ c.spatial
      BY <1>3, <1>4, <2>9 DEF Settled, Complete, LitsOf, OnlyLit
    <3>2. u.t = "T" /\ e = "T" /\ u \in Plain
      BY <2>4, <2>9, <3>1 DEF Exact, FactEntry
    <3>3. v = Action(k)
      BY <1>4, <2>2, <3>1, LiteralAction
    <3>4. u.d = "truth"
      BY <3>2, AtomConstants DEF Plain
    <3>5. n.at[c].val.acts # {}
      BY <2>3, <3>2, <3>3, <3>4, ActionPasses
    <3>6. CoreGuarded(e, "action") = "action"
      BY <3>2 DEF CoreGuarded, K3
    <3> QED BY <2>3, <3>5, <3>6
  <2> QED BY <2>6, <2>7, <2>8, <2>9
<1> QED BY <1>6, <1>7 DEF GuardedKept

-----------------------------------------------------------------------------

AgreementInv ==
    /\ ActionsInv
    /\ \A x \in Subtrees : FormsKept(x)
    /\ chain # Nothing => FormsKept(chain)

\* A property of subtrees that actions keep is one of chains.
LEMMA AgreementStep ==
    ASSUME EvaluationAssumption, AgreementInv, [Next]_vars
    PROVE  AgreementInv'
<1>1. ActionsInv /\ ValuesInv
  BY DEF AgreementInv, ActionsInv
<1>2. ActionsInv'
  BY <1>1, ActionsStep
<1>3. ValuesInv' /\ Grown
  BY <1>1, ValuesStep
<1>4. PICK n : /\ Made(n, Subtrees) \/ n \in Subtrees \cup {chain}
               /\ Subtrees' \subseteq Subtrees \cup {n}
               /\ chain' # Nothing => chain' \in Subtrees \cup {chain}
  BY <1>3 DEF Grown
<1>5. ASSUME Made(n, Subtrees) PROVE FormsKept(n)
  <2>1. \A x \in Subtrees : Whole(x) /\ KeyKept(x) /\ FactKept(x) /\ ClauseKept(x)
    BY <1>1 DEF AgreementInv, ValuesInv, FormsKept
  <2> QED BY <1>5, <2>1, MadeKeepsKeys, MadeKeepsClauses, MadeKeepsFacts, MadeKeepsGuarded
          DEF FormsKept
<1>6. \A x \in Subtrees' : x # Nothing
  <2>1. \A x \in Subtrees' : Whole(x)
    BY <1>3 DEF ValuesInv, Whole, Shaped, Typed, Fields, Entry
  <2> QED BY <2>1, WholeIsSomething
<1>7. \A x \in Subtrees' : FormsKept(x)
  BY <1>4, <1>5, <1>6 DEF AgreementInv
<1>8. chain' # Nothing => FormsKept(chain')
  BY <1>4 DEF AgreementInv
<1>9. (\A x \in Subtrees : FormsKept(x))'
  BY <1>7
<1>10. (chain # Nothing => FormsKept(chain))'
  BY <1>8
<1> QED BY <1>2, <1>9, <1>10 DEF AgreementInv

THEOREM AgreementInvariant == Spec => []AgreementInv
<1> USE EvaluationAssumption
<1>1. Init => AgreementInv
  BY ValuesInit DEF AgreementInv, ActionsInv
<1>2. AgreementInv /\ [Next]_vars => AgreementInv'
  BY AgreementStep
<1> QED BY <1>1, <1>2, PTL DEF Spec

\* What the validators leave of the values, and when they leave all of it.
LEMMA VerdictsGive ==
    ASSUME NEW c, NEW n
    PROVE  /\ CoreVerdict(c, n) \in {"error", n.at[c].core}
           /\ ~c.strict => Verdict(c, n) = n.at[c].val
           /\ ~c.strict /\ n.at[c].core # "reject" => CoreVerdict(c, n) = n.at[c].core
           /\ Validates(c, n) => Verdict(c, n) = n.at[c].val
           /\ CoreValidates(c, n) /\ n.at[c].core # "reject" =>
                 CoreVerdict(c, n) = n.at[c].core
BY DEF Verdict, CoreVerdict

\* Of facts both implementations make what Kleene's logic makes of them, unless they
\* refuse; a guarded clause acts only behind a true guard, and if it has all it needs
\* it does, in both.
THEOREM CoresAlwaysAgree == Spec => []CoresAgree
<1>1. AgreementInv => CoresAgree
  <2> SUFFICES ASSUME AgreementInv, Ended, NEW c \in Contexts
               PROVE  /\ chain.form = "fact" =>
                           /\ Python(c).t \in {chain.at[c].meaning, "U"}
                           /\ Rust(c) \in {chain.at[c].meaning, "error"}
                           /\ ~c.strict => Python(c).t = Rust(c)
                      /\ chain.form = "guarded" =>
                           LET guard == chain.at[c].may # {} IN
                           /\ Python(c).acts # {} \/ Rust(c) = "action" => guard
                           /\ /\ guard
                              /\ Complete(c, chain)
                              /\ c.strict => \A k \in chain.lits : c.know[k] # "none"
                              => Python(c).acts # {} /\ Rust(c) = "action"
    BY DEF CoresAgree
  <2> DEFINE v == chain.at[c].val
             e == chain.at[c].core
             m == chain.at[c].meaning
  <2>1. FormsKept(chain) /\ outcome = Outcome(chain)
    BY DEF Ended, AgreementInv, ActionsInv, ValuesInv
  <2>2. Python(c) = Verdict(c, chain) /\ Rust(c) = CoreVerdict(c, chain)
    BY <2>1 DEF Python, Rust, Outcome
  <2>3. Python(c) \in {Failure, v} /\ Rust(c) \in {"error", e}
    BY <2>2, VerdictFacts, VerdictsGive
  <2>4. ASSUME chain.form = "fact"
        PROVE  /\ Python(c).t \in {m, "U"} /\ Rust(c) \in {m, "error"}
               /\ ~c.strict => Python(c).t = Rust(c)
    <3>1. FactEntry(v, e, m) /\ (Settled(c, chain) => Exact(v, e, m))
      BY <2>1, <2>4 DEF FormsKept, FactKept
    <3>2. Python(c).t \in {m, "U"} /\ Rust(c) \in {m, "error"}
      BY <2>3, <3>1, AtomConstants DEF FactEntry
    <3>3. ASSUME ~c.strict PROVE Python(c).t = Rust(c)
      <4>1. Exact(v, e, m) /\ e # "reject"
        BY <3>1, <3>3 DEF Settled, Exact, FactEntry, K3
      <4> QED BY <2>2, <3>3, <4>1, VerdictsGive DEF Exact
    <3> QED BY <3>2, <3>3
  <2>5. ASSUME chain.form = "guarded"
        PROVE  /\ Python(c).acts # {} \/ Rust(c) = "action" => chain.at[c].may # {}
               /\ /\ chain.at[c].may # {} /\ Complete(c, chain)
                  /\ c.strict => \A k \in chain.lits : c.know[k] # "none"
                  => Python(c).acts # {} /\ Rust(c) = "action"
    <3>1. /\ ActionsWellPlaced(chain.ops)
          /\ v.acts # {} \/ e = "action" => chain.at[c].may # {}
          /\ chain.at[c].may # {} /\ Complete(c, chain) /\ Settled(c, chain) =>
                v.acts # {} /\ e = "action"
      BY <2>1, <2>5 DEF FormsKept, GuardedKept
    <3>2. Python(c).acts # {} \/ Rust(c) = "action" => chain.at[c].may # {}
      BY <2>3, <3>1, AtomConstants
    <3>3. ASSUME chain.at[c].may # {}, Complete(c, chain), Settled(c, chain)
          PROVE  Python(c).acts # {} /\ Rust(c) = "action"
      <4>1. v.acts # {} /\ e = "action"
        BY <3>1, <3>3
      <4>2. Validates(c, chain) /\ CoreValidates(c, chain)
        BY <3>1, <3>3 DEF Complete, Validates, CoreValidates
      <4> QED BY <2>2, <4>1, <4>2, VerdictsGive
    <3> QED BY <3>2, <3>3 DEF Settled
  <2> QED BY <2>4, <2>5
<1> QED BY <1>1, AgreementInvariant, PTL

-----------------------------------------------------------------------------
(* What a subtree is worth where less is known, or more is refused *)

\* Every member but the first.
TailActs(s) == UNION {s[i].acts : i \in DOMAIN s \ {1}}

Clean(s) == \A i \in DOMAIN s : ~s[i].bad

Blanks == {Undefined, Failure}

LEMMA TailFacts ==
    ASSUME NEW s, Row(s)
    PROVE  /\ ActsOf(Tail(s)) = TailActs(s)
           /\ ActsOf(s) = s[1].acts \cup TailActs(s)
           /\ Clean(s) => Clean(Tail(s)) /\ ~s[1].bad
<1>1. PICK T : s \in Seq(T) /\ s # <<>> /\ \A x \in T : Proper(x)
  BY DEF Row
<1>2. Len(s) \in Nat \ {0} /\ DOMAIN s = 1..Len(s)
  BY <1>1
<1>3. PICK w : w = Tail(s)
  OBVIOUS
<1>4. /\ w \in Seq(T) /\ Len(w) = Len(s) - 1
      /\ \A i \in 1..(Len(s) - 1) : w[i] = s[i + 1]
  BY <1>1, <1>3, HeadTailProperties
<1>5. DOMAIN w = 1..(Len(s) - 1)
  BY <1>4
<1>6. \A i \in DOMAIN w : i + 1 \in DOMAIN s \ {1} /\ w[i] = s[i + 1]
  BY <1>2, <1>4, <1>5
<1>7. \A i \in DOMAIN s \ {1} : i - 1 \in DOMAIN w /\ s[i] = w[i - 1]
  <2> SUFFICES ASSUME NEW i \in DOMAIN s \ {1} PROVE i - 1 \in DOMAIN w /\ s[i] = w[i - 1]
    OBVIOUS
  <2>1. i \in Nat /\ i - 1 \in 1..(Len(s) - 1) /\ (i - 1) + 1 = i
    BY <1>2
  <2> QED BY <1>4, <1>5, <2>1
<1>8. ActsOf(w) = TailActs(s)
  BY <1>6, <1>7 DEF ActsOf, TailActs
<1>9. 1 \in DOMAIN s
  BY <1>2
<1>10. ActsOf(s) = s[1].acts \cup TailActs(s)
  BY <1>9 DEF ActsOf, TailActs
<1>11. Clean(s) => Clean(w) /\ ~s[1].bad
  BY <1>6, <1>9 DEF Clean
<1> QED BY <1>3, <1>8, <1>10, <1>11

LEMMA TailOfOne ==
    ASSUME NEW v
    PROVE  TailActs(<<v>>) = {} /\ (Clean(<<v>>) <=> ~v.bad)
<1>1. PICK s : s = <<v>>
  OBVIOUS
<1>2. DOMAIN s = {1} /\ s[1] = v
  BY <1>1
<1> QED BY <1>1, <1>2 DEF TailActs, Clean

LEMMA JoinedTail ==
    ASSUME NEW a, NEW b, Row(a), Row(b)
    PROVE  /\ TailActs(a \o b) = TailActs(a) \cup ActsOf(b)
           /\ Clean(a) /\ Clean(b) => Clean(a \o b)
<1>1. PICK S : a \in Seq(S) /\ a # <<>> /\ \A x \in S : Proper(x)
  BY DEF Row
<1>2. PICK T : b \in Seq(T) /\ b # <<>> /\ \A x \in T : Proper(x)
  BY DEF Row
<1>3. PICK s : s = a \o b
  OBVIOUS
<1>4. a \in Seq(S \cup T) /\ b \in Seq(S \cup T)
  BY <1>1, <1>2
<1>5. /\ s \in Seq(S \cup T) /\ Len(s) = Len(a) + Len(b)
      /\ \A i \in 1..(Len(a) + Len(b)) : s[i] = IF i <= Len(a) THEN a[i] ELSE b[i - Len(a)]
  BY <1>3, <1>4, ConcatProperties
<1>6. /\ Len(a) \in Nat \ {0} /\ Len(b) \in Nat \ {0}
      /\ DOMAIN a = 1..Len(a) /\ DOMAIN b = 1..Len(b) /\ DOMAIN s = 1..(Len(a) + Len(b))
  BY <1>1, <1>2, <1>5
<1>7. \A i \in DOMAIN s :
         \/ i \in DOMAIN a /\ s[i] = a[i]
         \/ i # 1 /\ i - Len(a) \in DOMAIN b /\ s[i] = b[i - Len(a)]
  <2> SUFFICES ASSUME NEW i \in DOMAIN s
               PROVE  \/ i \in DOMAIN a /\ s[i] = a[i]
                      \/ i # 1 /\ i - Len(a) \in DOMAIN b /\ s[i] = b[i - Len(a)]
    OBVIOUS
  <2>1. CASE i <= Len(a)
    BY <1>5, <1>6, <2>1
  <2>2. CASE ~(i <= Len(a))
    BY <1>5, <1>6, <2>2
  <2> QED BY <2>1, <2>2
<1>8. \A i \in DOMAIN a : i \in DOMAIN s /\ s[i] = a[i]
  BY <1>5, <1>6
<1>9. \A i \in DOMAIN b : i + Len(a) \in DOMAIN s \ {1} /\ s[i + Len(a)] = b[i]
  BY <1>5, <1>6
<1>10. TailActs(s) = TailActs(a) \cup ActsOf(b)
  <2>1. TailActs(s) \subseteq TailActs(a) \cup ActsOf(b)
    BY <1>7 DEF TailActs, ActsOf
  <2>2. TailActs(a) \subseteq TailActs(s)
    BY <1>8 DEF TailActs
  <2>3. ActsOf(b) \subseteq TailActs(s)
    BY <1>9 DEF TailActs, ActsOf
  <2> QED BY <2>1, <2>2, <2>3
<1>11. Clean(a) /\ Clean(b) => Clean(s)
  BY <1>7 DEF Clean
<1> QED BY <1>3, <1>10, <1>11

\* What is unwrapped has no error in it unless it had one before, and no other actions.
LEMMA UnwrapKeeps ==
    ASSUME NEW v, Proper(v)
    PROVE  Unwrap(v).acts = v.acts /\ (~v.bad => ~Unwrap(v).bad)
<1>1. CASE v.d # "literal"
  BY <1>1, UnwrapFacts
<1>2. CASE v.d = "literal"
  <2>1. Atom(v)
    BY <1>2, ProperFacts
  <2>2. v.acts = {}
    BY <1>2, <2>1, AtomFields
  <2>3. PICK t \in {"T", "F"} : Unwrap(v) = Truth(t)
    BY <1>2, UnwrapFacts
  <2>4. Atom(Truth(t)) /\ Truth(t).acts = {} /\ Truth(t) # Failure
    BY <2>3, AtomConstants
  <2>5. ~Truth(t).bad
    BY <2>4, AtomFields
  <2> QED BY <2>2, <2>3, <2>4, <2>5
<1> QED BY <1>1, <1>2

LEMMA UnwrappedKeeps ==
    ASSUME NEW s, Row(s)
    PROVE  LET u == [i \in DOMAIN s |-> Unwrap(s[i])]
           IN  ActsOf(u) = ActsOf(s) /\ (Clean(s) => Clean(u))
<1> DEFINE u == [i \in DOMAIN s |-> Unwrap(s[i])]
<1>1. \A i \in DOMAIN s : Proper(s[i])
  BY RowFacts
<1>2. \A i \in DOMAIN s : u[i].acts = s[i].acts /\ (~s[i].bad => ~u[i].bad)
  BY <1>1, UnwrapKeeps
<1>3. DOMAIN u = DOMAIN s
  OBVIOUS
<1>4. ActsOf(u) = ActsOf(s)
  BY <1>2, <1>3 DEF ActsOf
<1>5. Clean(s) => Clean(u)
  BY <1>2, <1>3 DEF Clean
<1> QED BY <1>4, <1>5

\* The members v gives to a list that starts with it.
Start(v) == IF v.d = "list" THEN v.items ELSE <<Unwrap(v)>>

LEMMA StartFacts ==
    ASSUME NEW v, Proper(v)
    PROVE  /\ Row(Start(v)) /\ ActsOf(Start(v)) = v.acts
           /\ v.d = "list" => Start(v) = v.items
           /\ v.d # "list" => Start(v)[1] = Unwrap(v) /\ TailActs(Start(v)) = {}
           /\ ~v.bad => Clean(Start(v))
<1>1. CASE v.d = "list"
  <2>1. Start(v) = v.items /\ Row(v.items) /\ v = List(v.items) /\ v.acts = ActsOf(v.items)
    BY <1>1, ProperFacts DEF Start
  <2>2. ~v.bad => Clean(v.items)
    BY <2>1, ListFlags DEF Clean
  <2> QED BY <1>1, <2>1, <2>2
<1>2. CASE v.d # "list"
  <2>1. PICK u : u = Unwrap(v)
    OBVIOUS
  <2>2. PICK s : s = <<u>>
    OBVIOUS
  <2>3. Start(v) = s
    BY <1>2, <2>1, <2>2 DEF Start
  <2>4. Proper(u) /\ u.acts = v.acts /\ (~v.bad => ~u.bad)
    BY <2>1, UnwrapFacts, UnwrapKeeps
  <2>5. Row(s) /\ ActsOf(s) = u.acts /\ s[1] = u
    BY <2>2, <2>4, RowOfOne
  <2>6. TailActs(s) = {} /\ (Clean(s) <=> ~u.bad)
    BY <2>2, TailOfOne
  <2> QED BY <1>2, <2>1, <2>3, <2>4, <2>5, <2>6
<1> QED BY <1>1, <1>2

\* Juxtaposition keeps what is behind the first member.
LEMMA FollowMembers ==
    ASSUME NEW v, Proper(v), NEW s, Row(s)
    PROVE  /\ Follow(v, s) = List(Follow(v, s).items) /\ Row(Follow(v, s).items)
           /\ Len(Follow(v, s).items) # 1
           /\ Follow(v, s).items[1] = Start(v)[1]
           /\ TailActs(Follow(v, s).items) = TailActs(Start(v)) \cup ActsOf(s)
           /\ ~v.bad /\ Clean(s) => Clean(Follow(v, s).items)
<1> DEFINE u == [i \in DOMAIN s |-> Unwrap(s[i])]
<1>1. PICK a : a = Start(v)
  OBVIOUS
<1>2. PICK x : x = a \o u
  OBVIOUS
<1>3. s # <<>>
  BY DEF Row
<1>4. Follow(v, s) = List(x)
  BY <1>1, <1>2, <1>3 DEF Follow, Start
<1>5. Row(u) /\ ActsOf(u) = ActsOf(s) /\ (Clean(s) => Clean(u)) /\ Len(u) = Len(s)
  BY UnwrappedRow, UnwrappedKeeps
<1> HIDE DEF u
<1>6. Row(a) /\ (~v.bad => Clean(a))
  BY <1>1, StartFacts
<1>7. Row(x) /\ x[1] = a[1]
  BY <1>2, <1>5, <1>6, RowsJoin
<1>8. TailActs(x) = TailActs(a) \cup ActsOf(s) /\ (Clean(a) /\ Clean(s) => Clean(x))
  BY <1>2, <1>5, <1>6, JoinedTail
<1>9. List(x).items = x
  BY ListFields
<1>10. Len(x) # 1
  <2>1. Len(x) = Len(a) + Len(u)
    BY <1>2, <1>5, <1>6, RowsJoin
  <2>2. PICK m, n, k : m = Len(a) /\ n = Len(u) /\ k = Len(x)
    OBVIOUS
  <2>3. m \in Nat \ {0} /\ n \in Nat \ {0} /\ k = m + n
    BY <1>5, <1>6, <2>1, <2>2, RowFacts
  <2>4. k # 1
    BY ONLY <2>3
  <2> QED BY <2>2, <2>4
<1> QED BY <1>1, <1>4, <1>6, <1>7, <1>8, <1>9, <1>10

-----------------------------------------------------------------------------

\* v is worth less than w or as much: nothing, the same, or a list whose first member
\* is and whose others have no more actions.  R holds the pairs in which this is so.
Worth(v, w, R) ==
    /\ ~w.bad /\ Refines(v.t, w.t) /\ v.acts \subseteq w.acts
    /\ \/ v \in Blanks
       \/ v.d # "list" /\ v = w
       \/ /\ v.d = "list" /\ w.d = "list"
          /\ Len(v.items) = 1 <=> Len(w.items) = 1
          /\ <<v.items[1], w.items[1]>> \in R
          /\ TailActs(v.items) \subseteq TailActs(w.items)

WorthIn(R) == \A v, w : <<v, w>> \in R => Worth(v, w, R)

Weaker(v, w) == \E R : <<v, w>> \in R /\ WorthIn(R)

LEMMA WeakerGives ==
    ASSUME NEW v, NEW w, Weaker(v, w)
    PROVE  /\ ~w.bad /\ Refines(v.t, w.t) /\ v.acts \subseteq w.acts
           /\ \/ v \in Blanks
              \/ v.d # "list" /\ v = w
              \/ /\ v.d = "list" /\ w.d = "list"
                 /\ Len(v.items) = 1 <=> Len(w.items) = 1
                 /\ Weaker(v.items[1], w.items[1])
                 /\ TailActs(v.items) \subseteq TailActs(w.items)
<1>1. PICK R : <<v, w>> \in R /\ WorthIn(R)
  BY DEF Weaker
<1>2. Worth(v, w, R)
  BY <1>1 DEF WorthIn
<1>3. <<v.items[1], w.items[1]>> \in R => Weaker(v.items[1], w.items[1])
  BY <1>1 DEF Weaker
<1> QED BY <1>2, <1>3 DEF Worth

LEMMA BlankFacts ==
    ASSUME NEW v \in Blanks
    PROVE  /\ v \in Plain /\ Proper(v) /\ Unwrap(v) = v /\ v.d # "list"
           /\ v.t = "U" /\ v.acts = {}
BY PlainFacts, AtomConstants DEF Blanks, Plain

LEMMA WeakerBlank ==
    ASSUME NEW v \in Blanks, NEW w, ~w.bad
    PROVE  Weaker(v, w)
<1>1. PICK R : R = {<<v, w>>}
  OBVIOUS
<1>2. Worth(v, w, R)
  BY BlankFacts DEF Worth, Refines
<1>3. \A x, y : <<x, y>> \in R => x = v /\ y = w
  BY <1>1
<1> QED BY <1>1, <1>2, <1>3 DEF Weaker, WorthIn

LEMMA WeakerSame ==
    ASSUME NEW v, v.d # "list", ~v.bad
    PROVE  Weaker(v, v)
<1>1. PICK R : R = {<<v, v>>}
  OBVIOUS
<1>2. Worth(v, v, R)
  BY DEF Worth, Refines
<1>3. \A x, y : <<x, y>> \in R => x = v /\ y = v
  BY <1>1
<1> QED BY <1>1, <1>2, <1>3 DEF Weaker, WorthIn

LEMMA WeakerList ==
    ASSUME NEW a, NEW b, Row(a), Row(b), Weaker(a[1], b[1]), Clean(b),
           Len(a) = 1 <=> Len(b) = 1, TailActs(a) \subseteq TailActs(b)
    PROVE  Weaker(List(a), List(b))
<1>1. PICK R : <<a[1], b[1]>> \in R /\ WorthIn(R)
  BY DEF Weaker
<1>2. PICK v, w : v = List(a) /\ w = List(b)
  OBVIOUS
<1>3. PICK Q : Q = R \cup {<<v, w>>}
  OBVIOUS
<1>4. \A x, y : Worth(x, y, R) => Worth(x, y, Q)
  BY <1>3 DEF Worth
<1>5. /\ v.d = "list" /\ w.d = "list" /\ v.items = a /\ w.items = b
      /\ v.acts = ActsOf(a) /\ w.acts = ActsOf(b)
      /\ v.t = IF Len(a) = 1 THEN a[1].t ELSE "U"
      /\ w.t = IF Len(b) = 1 THEN b[1].t ELSE "U"
  BY <1>2, ListFields
<1>6. ~w.bad
  BY <1>2, ListFlags DEF Clean
<1>7. Refines(a[1].t, b[1].t) /\ a[1].acts \subseteq b[1].acts
  BY WeakerGives
<1>8. Refines(v.t, w.t)
  BY <1>5, <1>7 DEF Refines
<1>9. v.acts \subseteq w.acts
  BY <1>5, <1>7, TailFacts
<1>10. Worth(v, w, Q)
  <2>1. <<a[1], b[1]>> \in Q
    BY <1>1, <1>3
  <2> QED BY <1>5, <1>6, <1>8, <1>9, <2>1 DEF Worth
<1>11. \A x, y : <<x, y>> \in Q => <<x, y>> \in R \/ (x = v /\ y = w)
  BY <1>3
<1>12. WorthIn(Q)
  BY <1>1, <1>4, <1>10, <1>11 DEF WorthIn
<1> QED BY <1>2, <1>3, <1>12 DEF Weaker

LEMMA WeakerUnwrapped ==
    ASSUME NEW v, NEW w, Proper(v), Proper(w), Weaker(v, w)
    PROVE  Weaker(Unwrap(v), Unwrap(w)) /\ Refines(Unwrap(v).t, Unwrap(w).t)
<1>1. ~Unwrap(w).bad
  BY WeakerGives, UnwrapKeeps
<1>2. Weaker(Unwrap(v), Unwrap(w))
  <2>1. CASE v \in Blanks
    BY <1>1, <2>1, BlankFacts, WeakerBlank
  <2>2. CASE v.d # "list" /\ v = w
    <3>1. Unwrap(v).d # "list"
      BY <2>2, UnwrapFacts, AtomConstants
    <3> QED BY <1>1, <2>2, <3>1, WeakerSame
  <2>3. CASE v.d = "list" /\ w.d = "list"
    <3>1. Unwrap(v) = v /\ Unwrap(w) = w
      BY <2>3, UnwrapFacts
    <3> QED BY <3>1
  <2> QED BY <2>1, <2>2, <2>3, WeakerGives
<1> QED BY <1>2, WeakerGives

\* What stands first in a list is not seen but through its own first members.
LEMMA WeakerFollow ==
    ASSUME NEW v, NEW w, Proper(v), Proper(w), Weaker(v, w),
           NEW s, NEW z, Row(s), Row(z), ActsOf(s) \subseteq ActsOf(z), Clean(z)
    PROVE  Weaker(Follow(v, s), Follow(w, z))
<1>1. PICK a, b : a = Follow(v, s).items /\ b = Follow(w, z).items
  OBVIOUS
<1>2. /\ Follow(v, s) = List(a) /\ Row(a) /\ Len(a) # 1 /\ a[1] = Start(v)[1]
      /\ TailActs(a) = TailActs(Start(v)) \cup ActsOf(s)
  BY <1>1, FollowMembers
<1>3. ~w.bad
  BY WeakerGives
<1>4. /\ Follow(w, z) = List(b) /\ Row(b) /\ Len(b) # 1 /\ b[1] = Start(w)[1]
      /\ TailActs(b) = TailActs(Start(w)) \cup ActsOf(z)
      /\ Clean(b)
  BY <1>1, <1>3, FollowMembers
<1>5. Weaker(Start(v)[1], Start(w)[1]) /\ TailActs(Start(v)) \subseteq TailActs(Start(w))
  <2>1. CASE v \in Blanks
    <3>1. Start(v)[1] = v /\ TailActs(Start(v)) = {}
      BY <2>1, BlankFacts, StartFacts
    <3>2. ~Start(w)[1].bad
      BY <1>3, StartFacts, TailFacts
    <3> QED BY <2>1, <3>1, <3>2, WeakerBlank
  <2>2. CASE v.d # "list" /\ v = w
    <3>1. Start(v)[1] = Unwrap(v) /\ Start(w)[1] = Unwrap(w)
      BY <2>2, StartFacts
    <3> QED BY <2>2, <3>1, WeakerUnwrapped
  <2>3. CASE /\ v.d = "list" /\ w.d = "list"
             /\ Weaker(v.items[1], w.items[1])
             /\ TailActs(v.items) \subseteq TailActs(w.items)
    <3>1. Start(v) = v.items /\ Start(w) = w.items
      BY <2>3, StartFacts
    <3> QED BY <2>3, <3>1
  <2> QED BY <2>1, <2>2, <2>3, WeakerGives
<1>6. Weaker(List(a), List(b))
  <2>1. TailActs(a) \subseteq TailActs(b)
    BY <1>2, <1>4, <1>5
  <2>2. Weaker(a[1], b[1])
    BY <1>2, <1>4, <1>5
  <2> QED BY <1>2, <1>4, <2>1, <2>2, WeakerList
<1> QED BY <1>2, <1>4, <1>6

-----------------------------------------------------------------------------

\* Weaker, and as many operands for an and ur.
Beneath(v, w) == Weaker(v, w) /\ (v \in Blanks => Len(Spliced(w)) = 1)

LEMMA BeneathSame ==
    ASSUME NEW v, Proper(v), v.d # "list", ~v.bad
    PROVE  Beneath(v, v)
<1>1. PICK s : s = <<v>>
  OBVIOUS
<1>2. Spliced(v) = s /\ Len(s) = 1
  BY <1>1, SplicedFacts
<1> QED BY <1>2, WeakerSame DEF Beneath

LEMMA BeneathBlank ==
    ASSUME NEW v \in Blanks, NEW w, Proper(w), w.d # "list", ~w.bad
    PROVE  Beneath(v, w)
<1>1. PICK s : s = <<w>>
  OBVIOUS
<1>2. Spliced(w) = s /\ Len(s) = 1
  BY <1>1, SplicedFacts
<1> QED BY <1>2, WeakerBlank DEF Beneath

LEMMA SanePlain ==
    ASSUME NEW w \in Plain, w # Failure
    PROVE  ~w.bad /\ Proper(w) /\ w.d # "list"
<1>1. Atom(w)
  BY AtomConstants DEF Plain
<1> QED BY <1>1, AtomFields, PlainFacts

\* For values that are no lists, to be weaker is to say less.
LEMMA BeneathPlain ==
    ASSUME NEW v \in Plain, NEW w \in Plain, w # Failure, Refines(v.t, w.t)
    PROVE  Beneath(v, w)
<1>1. ~w.bad /\ Proper(w) /\ w.d # "list"
  BY SanePlain
<1>2. CASE v \in Blanks
  BY <1>1, <1>2, BeneathBlank
<1>3. CASE v \notin Blanks
  <2>1. PICK t \in {"T", "F"} : v = Truth(t)
    BY <1>3 DEF Plain, Blanks
  <2>2. w.t = t
    BY <2>1, AtomConstants DEF Refines
  <2>3. w = Truth(t)
    BY <2>1, <2>2, AtomConstants DEF Plain
  <2> QED BY <1>1, <2>1, <2>3, BeneathSame
<1> QED BY <1>2, <1>3

LEMMA BeneathSpliced ==
    ASSUME NEW v, NEW w, Proper(v), Proper(w), Beneath(v, w)
    PROVE  /\ Len(Spliced(v)) = 1 <=> Len(Spliced(w)) = 1
           /\ Weaker(Spliced(v)[1], Spliced(w)[1])
           /\ TailActs(Spliced(v)) \subseteq TailActs(Spliced(w))
           /\ Clean(Spliced(w))
<1>1. PICK a, b : a = Spliced(v) /\ b = Spliced(w)
  OBVIOUS
<1>2. Row(a) /\ Row(b) /\ ~w.bad
  BY <1>1, SplicedFacts, WeakerGives DEF Beneath
<1>3. Clean(b)
  <2>1. CASE w.d = "list"
    <3>1. b = w.items /\ w = List(w.items)
      BY <1>1, <2>1, SplicedFacts, ProperFacts
    <3> QED BY <1>2, <3>1, ListFlags DEF Clean
  <2>2. CASE w.d # "list"
    <3>1. b = <<w>>
      BY <1>1, <2>2, SplicedFacts
    <3> QED BY <1>2, <3>1, TailOfOne
  <2> QED BY <2>1, <2>2
<1>4. /\ Len(a) = 1 <=> Len(b) = 1
      /\ Weaker(a[1], b[1])
      /\ TailActs(a) \subseteq TailActs(b)
  <2>1. CASE v \in Blanks
    <3>1. v.d # "list" /\ Len(b) = 1
      BY <1>1, <2>1, BlankFacts DEF Beneath
    <3>2. PICK s : s = <<v>>
      OBVIOUS
    <3>3. a = s
      BY <1>1, <3>1, <3>2, SplicedFacts
    <3>4. Len(s) = 1 /\ s[1] = v /\ TailActs(s) = {}
      BY <3>2, TailOfOne
    <3>5. ~b[1].bad
      BY <1>2, <1>3, TailFacts
    <3>6. Weaker(v, b[1])
      BY <2>1, <3>5, WeakerBlank
    <3> QED BY <3>1, <3>3, <3>4, <3>6
  <2>2. CASE v.d # "list" /\ v = w
    <3>1. PICK s : s = <<v>>
      OBVIOUS
    <3>2. a = s /\ b = s
      BY <1>1, <2>2, <3>1, SplicedFacts
    <3>3. s[1] = v
      BY <3>1
    <3> QED BY <2>2, <3>2, <3>3 DEF Beneath
  <2>3. CASE /\ v.d = "list" /\ w.d = "list"
             /\ Len(v.items) = 1 <=> Len(w.items) = 1
             /\ Weaker(v.items[1], w.items[1])
             /\ TailActs(v.items) \subseteq TailActs(w.items)
    <3>1. a = v.items /\ b = w.items
      BY <1>1, <2>3, SplicedFacts
    <3> QED BY <2>3, <3>1
  <2>4. Weaker(v, w)
    BY DEF Beneath
  <2> QED BY <2>1, <2>2, <2>3, <2>4, WeakerGives
<1> QED BY <1>1, <1>3, <1>4

\* The list that starts with the first of the operands: the operand itself if it is
\* the only one.
LEMMA LeadingCases ==
    ASSUME NEW v, Proper(v)
    PROVE  LET s == Spliced(v)
           IN  /\ Len(s) = 1 => Leading(v) = s[1]
               /\ Len(s) # 1 => Row(Tail(s)) /\ Leading(v) = Follow(s[1], Tail(s))
<1>1. PICK s : s = Spliced(v)
  OBVIOUS
<1>2. Row(s)
  BY <1>1, SplicedFacts
<1>3. PICK h, w : h = s[1] /\ w = Tail(s)
  OBVIOUS
<1>4. Head(s) = h /\ Len(w) = Len(s) - 1 /\ (w = <<>> \/ Row(w)) /\ Len(s) \in Nat \ {0} /\ Proper(h)
  BY <1>2, <1>3, RowFacts
<1>5. Leading(v) = Follow(h, w)
  BY <1>1, <1>3, <1>4 DEF Leading
<1>6. w = <<>> <=> Len(s) = 1
  BY <1>4, RowFacts
<1>7. w = <<>> => Follow(h, w) = h
  BY <1>4, FollowFacts
<1> QED BY <1>1, <1>3, <1>4, <1>5, <1>6, <1>7

LEMMA BeneathLeading ==
    ASSUME NEW v, NEW w, Proper(v), Proper(w), Beneath(v, w)
    PROVE  Weaker(Leading(v), Leading(w))
<1>1. PICK a, b : a = Spliced(v) /\ b = Spliced(w)
  OBVIOUS
<1>2. Row(a) /\ Row(b)
  BY <1>1, SplicedFacts
<1>3. /\ Len(a) = 1 <=> Len(b) = 1
      /\ Weaker(a[1], b[1]) /\ TailActs(a) \subseteq TailActs(b) /\ Clean(b)
  BY <1>1, BeneathSpliced
<1>4. CASE Len(a) = 1
  BY <1>1, <1>3, <1>4, LeadingCases
<1>5. CASE Len(a) # 1
  <2>1. PICK s, z : s = Tail(a) /\ z = Tail(b)
    OBVIOUS
  <2>2. Row(s) /\ Leading(v) = Follow(a[1], s)
    BY <1>1, <1>5, <2>1, LeadingCases
  <2>3. Row(z) /\ Leading(w) = Follow(b[1], z)
    BY <1>1, <1>3, <1>5, <2>1, LeadingCases
  <2>4. ActsOf(s) = TailActs(a) /\ ActsOf(z) = TailActs(b) /\ Clean(z)
    BY <1>2, <1>3, <2>1, TailFacts
  <2>5. Proper(a[1]) /\ Proper(b[1])
    BY <1>2, RowFacts
  <2> QED BY <1>3, <2>2, <2>3, <2>4, <2>5, WeakerFollow
<1> QED BY <1>4, <1>5

LEMMA BeneathScope ==
    ASSUME NEW v, NEW w, Proper(v), Proper(w), Beneath(v, w)
    PROVE  Beneath(Scope(v), Scope(w))
<1>1. PICK a, b : a = Spliced(v) /\ b = Spliced(w)
  OBVIOUS
<1>2. Row(a) /\ Row(b)
  BY <1>1, SplicedFacts
<1>3. /\ Len(a) = 1 <=> Len(b) = 1
      /\ Weaker(a[1], b[1]) /\ TailActs(a) \subseteq TailActs(b) /\ Clean(b)
  BY <1>1, BeneathSpliced
<1>4. Weaker(List(a), List(b))
  BY <1>2, <1>3, WeakerList
<1>5. List(a) \notin Blanks
  BY ListFields, BlankFacts
<1> QED BY <1>1, <1>4, <1>5 DEF Beneath, Scope

LEMMA BeneathJuxtaposition ==
    ASSUME NEW l, NEW m, Proper(l), Proper(m), Beneath(l, m),
           NEW r, NEW s, Proper(r), Proper(s), Beneath(r, s)
    PROVE  Beneath(Juxtaposition(l, r), Juxtaposition(m, s))
<1>1. PICK a, b : a = Spliced(r) /\ b = Spliced(s)
  OBVIOUS
<1>2. Row(a) /\ Row(b) /\ ActsOf(a) = r.acts /\ ActsOf(b) = s.acts
  BY <1>1, SplicedFacts
<1>3. Clean(b) /\ r.acts \subseteq s.acts
  BY <1>1, BeneathSpliced, WeakerGives DEF Beneath
<1>4. Weaker(Leading(l), Leading(m)) /\ Proper(Leading(l)) /\ Proper(Leading(m))
  BY BeneathLeading, LeadingFacts
<1>5. Weaker(Follow(Leading(l), a), Follow(Leading(m), b))
  BY <1>2, <1>3, <1>4, WeakerFollow
<1>6. Juxtaposition(l, r) = Follow(Leading(l), a) /\ Juxtaposition(m, s) = Follow(Leading(m), b)
  BY <1>1 DEF Juxtaposition
<1>7. Juxtaposition(l, r) \notin Blanks
  BY JuxtapositionFacts, BlankFacts
<1> QED BY <1>5, <1>6, <1>7 DEF Beneath

LEMMA KleeneRises ==
    ASSUME NEW x \in K3, NEW y \in K3, NEW p \in K3, NEW q \in K3, Refines(x, p), Refines(y, q)
    PROVE  /\ Refines(KNot(x), KNot(p))
           /\ Refines(KAnd(x, y), KAnd(p, q))
           /\ Refines(KOr(x, y), KOr(p, q))
           /\ Refines(KGuard(x, y), KGuard(p, q))
BY DEF K3, Refines, KNot, KAnd, KOr, KGuard

LEMMA SaneIsNoError ==
    ASSUME NEW w, Proper(w), ~w.bad
    PROVE  w.d # "error"
<1>1. Failure.bad
  BY AtomConstants, AtomFields
<1> QED BY <1>1, ProperFacts

\* What the operators make of two operands without an error in them.
LEMMA BinaryValues ==
    ASSUME NEW x, NEW y, x.d # "error", y.d # "error"
    PROVE  /\ Binary("an", x, y) = LET t == KAnd(Unwrap(x).t, Unwrap(y).t)
                                   IN  IF t = "U" THEN Undefined ELSE Truth(t)
           /\ Binary("ur", x, y) = LET t == KOr(Unwrap(x).t, Unwrap(y).t)
                                   IN  IF t = "U" THEN Undefined ELSE Truth(t)
           /\ Binary("kra", x, y) = IF Unwrap(x).t = "T" THEN Unwrap(y) ELSE Undefined
BY DEF Binary

LEMMA BinaryErrors ==
    ASSUME NEW x, NEW y, Proper(x), Proper(y), x.d = "error" \/ y.d = "error", NEW op
    PROVE  Binary(op, x, y) = Failure
BY ProperFacts DEF Binary

LEMMA WeakerBinary ==
    ASSUME NEW x, NEW p, Proper(x), Proper(p), Weaker(x, p),
           NEW y, NEW q, Proper(y), Proper(q), Weaker(y, q), NEW op \in {"an", "ur", "kra"}
    PROVE  Weaker(Binary(op, x, y), Binary(op, p, q))
<1>1. /\ Refines(Unwrap(x).t, Unwrap(p).t) /\ Refines(Unwrap(y).t, Unwrap(q).t)
      /\ Weaker(Unwrap(y), Unwrap(q))
  BY WeakerUnwrapped
<1>2. /\ Unwrap(x).t \in K3 /\ Unwrap(y).t \in K3 /\ Unwrap(p).t \in K3 /\ Unwrap(q).t \in K3
  BY UnwrapFacts, ProperFacts
<1>3. ~p.bad /\ ~q.bad
  BY WeakerGives
<1>4. p.d # "error" /\ q.d # "error"
  BY <1>3, SaneIsNoError
<1>5. ~Undefined.bad /\ ~Truth("T").bad /\ ~Truth("F").bad
  BY SanePlain, AtomConstants DEF Plain
<1>6. ~Binary(op, p, q).bad
  <2>1. CASE op = "an"
    <3>1. KAnd(Unwrap(p).t, Unwrap(q).t) \in {"T", "F", "U"}
      BY <1>2, KleeneTypes DEF K3
    <3> QED BY <1>4, <1>5, <2>1, <3>1, BinaryValues
  <2>2. CASE op = "ur"
    <3>1. KOr(Unwrap(p).t, Unwrap(q).t) \in {"T", "F", "U"}
      BY <1>2, KleeneTypes DEF K3
    <3> QED BY <1>4, <1>5, <2>2, <3>1, BinaryValues
  <2>3. CASE op = "kra"
    <3>1. ~Unwrap(q).bad
      BY <1>3, UnwrapKeeps
    <3> QED BY <1>4, <1>5, <2>3, <3>1, BinaryValues
  <2> QED BY <2>1, <2>2, <2>3
<1>7. CASE x.d = "error" \/ y.d = "error"
  <2>1. Binary(op, x, y) \in Blanks
    BY <1>7, BinaryErrors DEF Blanks
  <2> QED BY <1>6, <2>1, WeakerBlank
<1>8. CASE x.d # "error" /\ y.d # "error"
  <2>1. CASE Binary(op, x, y) = Undefined
    BY <1>6, <2>1, WeakerBlank DEF Blanks
  <2>2. CASE op = "an" /\ Binary(op, x, y) # Undefined
    <3>1. PICK t : t = KAnd(Unwrap(x).t, Unwrap(y).t)
      OBVIOUS
    <3>2. t # "U" /\ Binary(op, x, y) = Truth(t)
      BY <1>8, <2>2, <3>1, BinaryValues
    <3>3. KAnd(Unwrap(p).t, Unwrap(q).t) = t
      BY <1>1, <1>2, <3>1, <3>2, KleeneRises DEF Refines
    <3>4. Binary(op, p, q) = Truth(t)
      BY <1>4, <2>2, <3>2, <3>3, BinaryValues
    <3> QED BY <1>6, <3>2, <3>4, AtomConstants, WeakerSame
  <2>3. CASE op = "ur" /\ Binary(op, x, y) # Undefined
    <3>1. PICK t : t = KOr(Unwrap(x).t, Unwrap(y).t)
      OBVIOUS
    <3>2. t # "U" /\ Binary(op, x, y) = Truth(t)
      BY <1>8, <2>3, <3>1, BinaryValues
    <3>3. KOr(Unwrap(p).t, Unwrap(q).t) = t
      BY <1>1, <1>2, <3>1, <3>2, KleeneRises DEF Refines
    <3>4. Binary(op, p, q) = Truth(t)
      BY <1>4, <2>3, <3>2, <3>3, BinaryValues
    <3> QED BY <1>6, <3>2, <3>4, AtomConstants, WeakerSame
  <2>4. CASE op = "kra" /\ Binary(op, x, y) # Undefined
    <3>1. Unwrap(x).t = "T" /\ Binary(op, x, y) = Unwrap(y)
      BY <1>8, <2>4, BinaryValues
    <3>2. Unwrap(p).t = "T"
      BY <1>1, <3>1 DEF Refines
    <3>3. Binary(op, p, q) = Unwrap(q)
      BY <1>4, <2>4, <3>2, BinaryValues
    <3> QED BY <1>1, <3>1, <3>3
  <2> QED BY <2>1, <2>2, <2>3, <2>4
<1> QED BY <1>7, <1>8

\* A list whose first member is no list.
FlatHead(v) == v.d = "list" => v.items[1].d # "list"

LEMMA ConjunctionCases ==
    ASSUME NEW l, NEW r, Proper(l), Proper(r), NEW op \in {"an", "kra"}
    PROVE  LET s == Spliced(r)
               b == Binary(op, Leading(l), s[1])
           IN  /\ Proper(b)
               /\ op = "an" \/ s[1].d # "list" => b.d # "list"
               /\ Len(s) = 1 => Conjunction(op, l, r) = b
               /\ Len(s) # 1 => Row(Tail(s)) /\ Conjunction(op, l, r) = Follow(b, Tail(s))
<1>1. PICK s : s = Spliced(r)
  OBVIOUS
<1>2. Row(s)
  BY <1>1, SplicedFacts
<1>3. PICK h, w : h = s[1] /\ w = Tail(s)
  OBVIOUS
<1>4. /\ Head(s) = h /\ Len(w) = Len(s) - 1 /\ (w = <<>> \/ Row(w)) /\ Len(s) \in Nat \ {0}
      /\ Proper(h)
  BY <1>2, <1>3, RowFacts
<1>5. PICK b : b = Binary(op, Leading(l), h)
  OBVIOUS
<1>6. Conjunction(op, l, r) = Follow(b, w)
  BY <1>1, <1>3, <1>4, <1>5 DEF Conjunction
<1>7. w = <<>> <=> Len(s) = 1
  BY <1>4, RowFacts
<1>8. Proper(Leading(l))
  BY LeadingFacts
<1>9. b \in Plain \/ (op = "kra" /\ b = Unwrap(h))
  BY <1>4, <1>5, <1>8, BinaryFacts
<1>10. Proper(b)
  BY <1>4, <1>9, PlainFacts, UnwrapFacts
<1>11. op = "an" \/ h.d # "list" => b.d # "list"
  BY <1>4, <1>9, PlainFacts, UnwrapFacts, AtomConstants
<1>12. w = <<>> => Follow(b, w) = b
  BY <1>10, FollowFacts
<1> QED BY <1>1, <1>3, <1>4, <1>5, <1>6, <1>7, <1>10, <1>11, <1>12

LEMMA BeneathConjunction ==
    ASSUME NEW l, NEW m, Proper(l), Proper(m), Beneath(l, m),
           NEW r, NEW s, Proper(r), Proper(s), Beneath(r, s),
           NEW op \in {"an", "kra"}, op = "an" \/ Spliced(s)[1].d # "list"
    PROVE  Beneath(Conjunction(op, l, r), Conjunction(op, m, s))
<1>1. PICK a, b : a = Spliced(r) /\ b = Spliced(s)
  OBVIOUS
<1>2. Row(a) /\ Row(b)
  BY <1>1, SplicedFacts
<1>3. /\ Len(a) = 1 <=> Len(b) = 1
      /\ Weaker(a[1], b[1]) /\ TailActs(a) \subseteq TailActs(b) /\ Clean(b)
  BY <1>1, BeneathSpliced
<1>4. PICK x, y : x = Binary(op, Leading(l), a[1]) /\ y = Binary(op, Leading(m), b[1])
  OBVIOUS
<1>5. /\ Proper(x) /\ Proper(y) /\ y.d # "list"
  BY <1>1, <1>4, ConjunctionCases
<1>6. Weaker(x, y)
  <2>1. Proper(a[1]) /\ Proper(b[1])
    BY <1>2, RowFacts
  <2>2. Proper(Leading(l)) /\ Proper(Leading(m)) /\ Weaker(Leading(l), Leading(m))
    BY LeadingFacts, BeneathLeading
  <2> QED BY <1>3, <1>4, <2>1, <2>2, WeakerBinary
<1>7. CASE Len(a) = 1
  <2>1. Conjunction(op, l, r) = x /\ Conjunction(op, m, s) = y
    BY <1>1, <1>3, <1>4, <1>7, ConjunctionCases
  <2>2. PICK z : z = <<y>>
    OBVIOUS
  <2>3. Spliced(y) = z /\ Len(z) = 1
    BY <1>5, <2>2, SplicedFacts
  <2> QED BY <1>6, <2>1, <2>3 DEF Beneath
<1>8. CASE Len(a) # 1
  <2>1. PICK t, u : t = Tail(a) /\ u = Tail(b)
    OBVIOUS
  <2>2. Row(t) /\ Conjunction(op, l, r) = Follow(x, t)
    BY <1>1, <1>4, <1>8, <2>1, ConjunctionCases
  <2>3. Row(u) /\ Conjunction(op, m, s) = Follow(y, u)
    BY <1>1, <1>3, <1>4, <1>8, <2>1, ConjunctionCases
  <2>4. ActsOf(t) = TailActs(a) /\ ActsOf(u) = TailActs(b) /\ Clean(u)
    BY <1>2, <1>3, <2>1, TailFacts
  <2>5. Weaker(Follow(x, t), Follow(y, u))
    BY <1>3, <1>5, <1>6, <2>2, <2>3, <2>4, WeakerFollow
  <2>6. Follow(x, t).d = "list"
    <3>1. PICK z : z = Follow(x, t).items
      OBVIOUS
    <3>2. Follow(x, t) = List(z)
      BY <1>5, <2>2, <3>1, FollowMembers
    <3> QED BY <3>2, ListFields
  <2>7. Follow(x, t) \notin Blanks
    BY <2>6, BlankFacts
  <2> QED BY <2>2, <2>3, <2>5, <2>7 DEF Beneath
<1> QED BY <1>7, <1>8

LEMMA DisjunctionCases ==
    ASSUME NEW l, NEW r, Proper(l), Proper(r), Disjoinable(l, r)
    PROVE  /\ Len(Spliced(l)) = 1 /\ Len(Spliced(r)) = 1 =>
                 Disjunction(l, r) = Binary("ur", Spliced(l)[1], Spliced(r)[1])
           /\ ~(Len(Spliced(l)) = 1 /\ Len(Spliced(r)) = 1) => Disjunction(l, r) = Undefined
<1>1. PICK a, b : a = Spliced(l) /\ b = Spliced(r)
  OBVIOUS
<1>2. Row(a) /\ Row(b)
  BY <1>1, SplicedFacts
<1>3. Head(a) = a[1] /\ Head(b) = b[1]
  BY <1>2, RowFacts
<1>4. Disjunction(l, r) = IF (Len(a) + Len(b)) % 2 = 1 THEN Undefined
                          ELSE Binary("ur", a[1], b[1])
  BY <1>1, <1>3 DEF Disjunction
<1>5. Len(a) = 1 /\ Len(b) = 1 => (Len(a) + Len(b)) % 2 # 1
  <2>1. (1 + 1) % 2 # 1
    OBVIOUS
  <2> QED BY <2>1
<1>6. ~(Len(a) = 1 /\ Len(b) = 1) => Disjunction(l, r) = Undefined
  BY <1>1, DisjunctionFacts
<1> QED BY <1>1, <1>4, <1>5, <1>6

LEMMA BeneathDisjunction ==
    ASSUME NEW l, NEW m, Proper(l), Proper(m), Beneath(l, m),
           NEW r, NEW s, Proper(r), Proper(s), Beneath(r, s),
           Disjoinable(l, r), Disjoinable(m, s)
    PROVE  Beneath(Disjunction(l, r), Disjunction(m, s))
<1>1. PICK a, b, c, d : /\ a = Spliced(l) /\ b = Spliced(r)
                        /\ c = Spliced(m) /\ d = Spliced(s)
  OBVIOUS
<1>2. /\ Len(a) = 1 <=> Len(c) = 1
      /\ Len(b) = 1 <=> Len(d) = 1
      /\ Weaker(a[1], c[1]) /\ Weaker(b[1], d[1])
  BY <1>1, BeneathSpliced
<1>3. Proper(a[1]) /\ Proper(b[1]) /\ Proper(c[1]) /\ Proper(d[1])
  BY <1>1, SplicedFacts, RowFacts
<1>4. CASE Len(a) = 1 /\ Len(b) = 1
  <2>1. PICK x, y : x = Binary("ur", a[1], b[1]) /\ y = Binary("ur", c[1], d[1])
    OBVIOUS
  <2>2. Disjunction(l, r) = x
    BY <1>1, <1>4, <2>1, DisjunctionCases
  <2>3. Disjunction(m, s) = y
    BY <1>1, <1>2, <1>4, <2>1, DisjunctionCases
  <2>4. Weaker(x, y)
    BY <1>2, <1>3, <2>1, WeakerBinary
  <2>5. x \in Plain /\ y \in Plain
    BY <1>3, <2>1, BinaryFacts
  <2>6. y # Failure /\ Refines(x.t, y.t)
    <3>1. Proper(y) /\ ~y.bad /\ Refines(x.t, y.t)
      BY <2>4, <2>5, PlainFacts, WeakerGives
    <3>2. y.d # "error"
      BY <3>1, SaneIsNoError
    <3> QED BY <3>1, <3>2, AtomConstants
  <2> QED BY <2>2, <2>3, <2>5, <2>6, BeneathPlain
<1>5. CASE ~(Len(a) = 1 /\ Len(b) = 1)
  <2>1. Disjunction(l, r) = Undefined
    BY <1>1, <1>5, DisjunctionCases
  <2>2. Disjunction(m, s) = Undefined
    BY <1>1, <1>2, <1>5, DisjunctionCases
  <2>3. Undefined \in Plain /\ Undefined # Failure /\ Refines(Undefined.t, Undefined.t)
    BY AtomConstants DEF Plain, Refines
  <2> QED BY <2>1, <2>2, <2>3, BeneathPlain
<1> QED BY <1>4, <1>5

\* A list of one, and nothing where there is less.
LEMMA BeneathListOfOne ==
    ASSUME NEW v, NEW w, Proper(v), Proper(w), Beneath(v, w), NEW x, x \in Blanks \cup {List(<<v>>)}
    PROVE  Beneath(x, List(<<w>>))
<1>1. PICK a, b : a = <<v>> /\ b = <<w>>
  OBVIOUS
<1>2. /\ Row(a) /\ Len(a) = 1 /\ a[1] = v /\ TailActs(a) = {}
      /\ Row(b) /\ Len(b) = 1 /\ b[1] = w /\ TailActs(b) = {} /\ (Clean(b) <=> ~w.bad)
  BY <1>1, RowOfOne, TailOfOne
<1>3. Weaker(v, w) /\ ~w.bad
  BY WeakerGives DEF Beneath
<1>4. Weaker(List(a), List(b))
  BY <1>2, <1>3, WeakerList
<1>5. PICK y : y = List(b)
  OBVIOUS
<1>6. y.d = "list" /\ y.items = b /\ Proper(y)
  BY <1>2, <1>5, ListFields, RowsMakeLists
<1>7. Spliced(y) = b
  BY <1>6, SplicedFacts
<1>8. ~y.bad
  BY <1>4, <1>5, WeakerGives
<1>9. Weaker(x, y)
  <2>1. CASE x \in Blanks
    BY <1>8, <2>1, WeakerBlank
  <2>2. CASE x = List(a)
    BY <1>4, <1>5, <2>2
  <2> QED BY <1>1, <2>1, <2>2
<1> QED BY <1>1, <1>2, <1>5, <1>7, <1>9 DEF Beneath

LEMMA BeneathNegation ==
    ASSUME NEW v, NEW w, Proper(v), Proper(w), Beneath(v, w)
    PROVE  Beneath(Negation(v), Negation(w))
<1>1. Refines(Unwrap(v).t, Unwrap(w).t)
  BY WeakerUnwrapped DEF Beneath
<1>2. Unwrap(v).t \in K3 /\ Unwrap(w).t \in K3
  BY UnwrapFacts, ProperFacts
<1>3. Refines(KNot(Unwrap(v).t), KNot(Unwrap(w).t))
  BY <1>1, <1>2, KleeneRises
<1> QED BY <1>3, NegationFacts, BeneathPlain

\* d is a context of partial mode in which as much is known as in c, or more.
More(c, d) ==
    /\ ~d.strict
    /\ \A k \in Keys :
          /\ c.lit[k] \in {"none", d.lit[k]}
          /\ c.know[k] \in {"none", d.know[k]}
          /\ FirstOf(c.know[k], c.bel[k]) \in {"none", FirstOf(d.know[k], d.bel[k])}
          /\ c.certain[k] => d.certain[k]

LEMMA BeneathLiteral ==
    ASSUME EvaluationAssumption, NEW c \in Contexts, NEW d \in Contexts, More(c, d), NEW k \in Keys
    PROVE  Beneath(VisitLiteral(c, k), VisitLiteral(d, k))
<1>1. PICK w : w = VisitLiteral(d, k)
  OBVIOUS
<1>2. Atom(w) /\ w # Failure
  <2>1. d.lit[k] \in Maybe
    BY ContextFacts
  <2>2. CASE d.lit[k] = "none"
    BY <1>1, <2>2, AtomConstants DEF VisitLiteral
  <2>3. CASE d.lit[k] # "none"
    <3>1. w = Literal(k, Truth(d.lit[k])) /\ d.lit[k] \in {"T", "F"}
      BY <1>1, <2>1, <2>3 DEF VisitLiteral, Maybe
    <3>2. Atom(w)
      BY <3>1 DEF Atom
    <3>3. w.d = "literal"
      BY <3>1 DEF Literal, Value
    <3> QED BY <3>2, <3>3, AtomConstants
  <2> QED BY <2>2, <2>3
<1>3. Proper(w) /\ w.d # "list" /\ ~w.bad
  BY <1>2, AtomFields, AtomsAreProper
<1>4. CASE c.lit[k] = "none"
  <2>1. VisitLiteral(c, k) \in Blanks
    BY <1>4 DEF VisitLiteral, Blanks
  <2> QED BY <1>1, <1>3, <2>1, BeneathBlank
<1>5. CASE c.lit[k] # "none"
  <2>1. c.lit[k] = d.lit[k]
    BY <1>5 DEF More
  <2>2. VisitLiteral(c, k) = w
    BY <1>1, <2>1 DEF VisitLiteral
  <2> QED BY <1>1, <1>3, <2>2, BeneathSame
<1> QED BY <1>4, <1>5

LEMMA BeneathEpistemic ==
    ASSUME EvaluationAssumption, NEW c \in Contexts, NEW d \in Contexts, More(c, d),
           NEW op \in Modal, NEW k \in Keys \cup {NoKey}
    PROVE  Beneath(Epistemic(c, op, k), Epistemic(d, op, k))
<1>1. Epistemic(c, op, k) \in Plain /\ Epistemic(d, op, k) \in Plain
  BY ContextFacts, EpistemicFacts
<1>2. Refuse(d) = Undefined /\ Refuse(c).t = "U" /\ Undefined.t = "U" /\ Undefined # Failure
  BY AtomConstants DEF Refuse, More
<1>3. /\ \A t : Truth(t) # Failure /\ Truth(t).t = t
  BY AtomConstants
<1>4. CASE k = NoKey
  BY <1>1, <1>2, <1>4, BeneathPlain DEF Epistemic, Refines
<1>5. CASE k \in Keys /\ k # NoKey
  <2>1. PICK a, b, p, q : /\ a = c.know[k] /\ b = d.know[k]
                          /\ p = FirstOf(c.know[k], c.bel[k]) /\ q = FirstOf(d.know[k], d.bel[k])
    OBVIOUS
  <2>2. a \in {"none", b} /\ p \in {"none", q} /\ (c.certain[k] => d.certain[k])
    BY <1>5, <2>1 DEF More
  <2>3. CASE op = "shi"
    <3>1. Epistemic(c, op, k) = IF a = "none" THEN Refuse(c) ELSE Truth(a)
      BY <1>5, <2>1, <2>3 DEF Epistemic, Known
    <3>2. Epistemic(d, op, k) = IF b = "none" THEN Refuse(d) ELSE Truth(b)
      BY <1>5, <2>1, <2>3 DEF Epistemic, Known
    <3> QED BY <1>1, <1>2, <1>3, <2>2, <3>1, <3>2, BeneathPlain DEF Refines
  <2>4. CASE op = "vek"
    <3>1. Epistemic(c, op, k) = IF p = "none" THEN Undefined ELSE Truth(p)
      BY <1>5, <2>1, <2>4 DEF Epistemic, Believed
    <3>2. Epistemic(d, op, k) = IF q = "none" THEN Undefined ELSE Truth(q)
      BY <1>5, <2>1, <2>4 DEF Epistemic, Believed
    <3> QED BY <1>1, <1>2, <1>3, <2>2, <3>1, <3>2, BeneathPlain DEF Refines
  <2>5. CASE op = "sha"
    <3>1. Epistemic(c, op, k) = Refuse(c)
          \/ (c.certain[k] /\ p # "none" /\ Epistemic(c, op, k) = Truth(p))
      BY <1>5, <2>1, <2>5 DEF Epistemic, Certain
    <3>2. Epistemic(d, op, k) = IF ~d.certain[k] \/ q = "none" THEN Refuse(d) ELSE Truth(q)
      BY <1>5, <2>1, <2>5 DEF Epistemic, Certain, More
    <3>3. Epistemic(d, op, k) # Failure
      BY <1>2, <1>3, <3>2
    <3>4. Refines(Epistemic(c, op, k).t, Epistemic(d, op, k).t)
      <4>1. CASE Epistemic(c, op, k) = Refuse(c)
        BY <1>2, <4>1 DEF Refines
      <4>2. CASE c.certain[k] /\ p # "none" /\ Epistemic(c, op, k) = Truth(p)
        BY <2>2, <3>2, <4>2 DEF Refines
      <4> QED BY <3>1, <4>1, <4>2
    <3> QED BY <1>1, <3>3, <3>4, BeneathPlain
  <2> QED BY <2>3, <2>4, <2>5 DEF Modal
<1> QED BY <1>4, <1>5

\* An operator that failed stays; in partial mode none fails.
LEMMA BeneathStacked ==
    ASSUME NEW t, NEW c, NEW d, Proper(t.at[c].val), Proper(t.at[d].val),
           Beneath(t.at[c].val, t.at[d].val),
           NEW v \in Plain, NEW w \in Plain, Beneath(v, w)
    PROVE  Beneath(StackedOn(t, c, v), StackedOn(t, d, w))
<1>1. ~t.at[d].val.bad /\ ~w.bad
  BY WeakerGives DEF Beneath
<1>2. t.at[d].val.d # "error"
  BY <1>1, SaneIsNoError
<1>3. StackedOn(t, d, w) = w
  BY <1>2 DEF StackedOn
<1>4. CASE StackedOn(t, c, v) = v
  BY <1>3, <1>4
<1>5. CASE StackedOn(t, c, v) # v
  <2>1. StackedOn(t, c, v) = Failure
    BY <1>5, ProperFacts DEF StackedOn
  <2> QED BY <1>1, <1>3, <2>1, PlainFacts, BeneathBlank DEF Blanks
<1> QED BY <1>4, <1>5

LEMMA BeneathAction ==
    ASSUME NEW c, NEW d, ~d.strict, NEW v, NEW w, Proper(v), Proper(w), Beneath(v, w)
    PROVE  Beneath(ActionEvent(c, v), ActionEvent(d, w))
<1>1. PICK x, y : x = ActionEvent(c, v) /\ y = ActionEvent(d, w)
  OBVIOUS
<1>2. Weaker(v, w)
  BY DEF Beneath
<1>3. w.d # "error"
  BY <1>2, WeakerGives, SaneIsNoError
<1>4. y = IF w.d = "undefined" THEN Undefined ELSE Action(TargetOf(w))
  BY <1>1, <1>3 DEF ActionEvent, Refuse
<1>5. Proper(y) /\ y.d # "list" /\ ~y.bad
  <2>1. Atom(y) /\ y # Failure
    BY <1>4, AtomConstants
  <2> QED BY <2>1, AtomFields, AtomsAreProper
<1>6. CASE x \in Blanks
  BY <1>1, <1>5, <1>6, BeneathBlank
<1>7. CASE x \notin Blanks
  <2>1. x = Action(TargetOf(v)) /\ v.d \notin {"error", "undefined"}
    <3>1. v.d # "error"
      BY <1>1, <1>7, ProperFacts DEF ActionEvent, Blanks
    <3>2. v.d # "undefined"
      BY <1>1, <1>7 DEF ActionEvent, Refuse, Blanks
    <3> QED BY <1>1, <1>7, <3>1, <3>2, ActionEventFacts DEF Blanks
  <2>2. v \notin Blanks
    BY <2>1, AtomConstants DEF Blanks
  <2>3. v = w \/ (v.d = "list" /\ w.d = "list")
    BY <1>2, <2>2, WeakerGives
  <2>4. TargetOf(v) = TargetOf(w) /\ w.d # "undefined"
    BY <2>1, <2>3 DEF TargetOf
  <2>5. x = y
    BY <1>4, <2>1, <2>4
  <2> QED BY <1>1, <1>5, <2>5, BeneathSame
<1> QED BY <1>6, <1>7

LEMMA BeneathGuarded ==
    ASSUME NEW c, NEW d, ~d.strict, NEW l, NEW m, Proper(l), Proper(m), Beneath(l, m),
           NEW r, NEW s, Proper(r), Proper(s), Beneath(r, s)
    PROVE  Beneath(Guarded(c, l, r), Guarded(d, m, s))
<1>1. PICK x, y : x = Guarded(c, l, r) /\ y = Guarded(d, m, s)
  OBVIOUS
<1>2. y = IF m.t = "T" THEN List(<<s>>) ELSE Undefined
  BY <1>1 DEF Guarded
<1>3. x \in Blanks \/ (l.t = "T" /\ x = List(<<r>>))
  BY <1>1, GuardedFacts DEF Blanks
<1>4. l.t = "T" => m.t = "T"
  BY WeakerGives DEF Beneath, Refines
<1>5. CASE m.t = "T"
  BY <1>1, <1>2, <1>3, <1>5, BeneathListOfOne
<1>6. CASE m.t # "T"
  <2>1. x \in Blanks /\ y = Undefined
    BY <1>2, <1>3, <1>4, <1>6
  <2>2. Undefined \in Plain /\ Undefined # Failure
    BY AtomConstants DEF Plain
  <2> QED BY <1>1, <2>1, <2>2, SanePlain, BeneathBlank
<1> QED BY <1>5, <1>6

-----------------------------------------------------------------------------

\* Only khi puts a list first in a list: what it guards.
FlatNode(n) == "khi" \notin ToSet(n.ops) => \A c \in Contexts : FlatHead(n.at[c].val)

LEMMA FlatSpliced ==
    ASSUME NEW v, Proper(v), FlatHead(v)
    PROVE  Spliced(v)[1].d # "list"
<1>1. CASE v.d = "list"
  BY <1>1, SplicedFacts DEF FlatHead
<1>2. CASE v.d # "list"
  <2>1. PICK s : s = <<v>>
    OBVIOUS
  <2>2. Spliced(v) = s /\ s[1] = v
    BY <1>2, <2>1, SplicedFacts
  <2> QED BY <1>2, <2>2
<1> QED BY <1>1, <1>2

LEMMA FlatFollow ==
    ASSUME NEW v, Proper(v), FlatHead(v), NEW s, Row(s)
    PROVE  FlatHead(Follow(v, s))
<1>1. Follow(v, s).items[1] = Start(v)[1]
  BY FollowMembers
<1>2. CASE v.d = "list"
  BY <1>1, <1>2, StartFacts DEF FlatHead
<1>3. CASE v.d # "list"
  <2>1. Start(v)[1] = Unwrap(v)
    BY <1>3, StartFacts
  <2>2. Unwrap(v).d # "list"
    BY <1>3, UnwrapFacts, AtomConstants
  <2> QED BY <1>1, <2>1, <2>2 DEF FlatHead
<1> QED BY <1>2, <1>3

LEMMA FlatLeading ==
    ASSUME NEW v, Proper(v), FlatHead(v)
    PROVE  FlatHead(Leading(v))
<1>1. PICK s, h : s = Spliced(v) /\ h = s[1]
  OBVIOUS
<1>2. Row(s) /\ Proper(h) /\ FlatHead(h)
  BY <1>1, SplicedFacts, RowFacts, FlatSpliced DEF FlatHead
<1>3. CASE Len(s) = 1
  BY <1>1, <1>2, <1>3, LeadingCases
<1>4. CASE Len(s) # 1
  <2>1. PICK z : z = Tail(s)
    OBVIOUS
  <2>2. Row(z) /\ Leading(v) = Follow(h, z)
    BY <1>1, <1>4, <2>1, LeadingCases
  <2> QED BY <1>2, <2>2, FlatFollow
<1> QED BY <1>3, <1>4

LEMMA FlatConjunction ==
    ASSUME NEW l, NEW r, Proper(l), Proper(r), FlatHead(r), NEW op \in {"an", "kra"}
    PROVE  FlatHead(Conjunction(op, l, r))
<1>1. PICK s, b : s = Spliced(r) /\ b = Binary(op, Leading(l), s[1])
  OBVIOUS
<1>2. Proper(b) /\ FlatHead(b)
  BY <1>1, FlatSpliced, ConjunctionCases DEF FlatHead
<1>3. CASE Len(s) = 1
  BY <1>1, <1>2, <1>3, ConjunctionCases
<1>4. CASE Len(s) # 1
  <2>1. PICK z : z = Tail(s)
    OBVIOUS
  <2>2. Row(z) /\ Conjunction(op, l, r) = Follow(b, z)
    BY <1>1, <1>4, <2>1, ConjunctionCases
  <2> QED BY <1>2, <2>2, FlatFollow
<1> QED BY <1>3, <1>4

LEMMA FlatScope ==
    ASSUME NEW v, Proper(v), FlatHead(v)
    PROVE  FlatHead(Scope(v))
<1>1. PICK s : s = Spliced(v)
  OBVIOUS
<1>2. s[1].d # "list"
  BY <1>1, FlatSpliced
<1>3. Scope(v).items = s
  BY <1>1, ListFields DEF Scope
<1> QED BY <1>2, <1>3 DEF FlatHead

LEMMA MadeIsFlat ==
    ASSUME EvaluationAssumption, NEW S, \A x \in S : Whole(x) /\ FlatNode(x), NEW n, Made(n, S)
    PROVE  FlatNode(n)
<1> SUFFICES ASSUME "khi" \notin ToSet(n.ops), NEW c \in Contexts PROVE FlatHead(n.at[c].val)
  BY DEF FlatNode
<1>0. \A v \in Plain : FlatHead(v)
  BY PlainFacts DEF FlatHead
<1>1. ASSUME NEW w \in {"true", "false", "undefined"}, FromConstant(n, w)
      PROVE  FlatHead(n.at[c].val)
  <2>1. ConstantValue(w) \in Plain
    BY DEF ConstantValue, Plain
  <2> QED BY <1>0, <1>1, <2>1, ConstantGives
<1>2. ASSUME NEW k \in Keys, FromKey(n, k)
      PROVE  FlatHead(n.at[c].val)
  <2>1. VisitLiteral(c, k).d # "list"
    BY AtomConstants DEF VisitLiteral, Literal, Value
  <2> QED BY <1>2, <2>1, KeyGives DEF FlatHead
<1>3. ASSUME NEW t \in S, OfOne(n, t)
      PROVE  FlatHead(n.at[c].val)
  <2>1. PICK u : u = t.at[c].val
    OBVIOUS
  <2>2. Proper(u) /\ t.key \in Keys \cup {NoKey}
    BY <2>1 DEF Whole, Typed, Shaped
  <2>3. FlatHead(u)
    <3>1. ToSet(t.ops) \subseteq ToSet(n.ops)
      BY <1>3, OpsOfOne DEF Whole, Shaped
    <3> QED BY <2>1, <3>1 DEF FlatNode
  <2>4. ASSUME NEW v \in Plain, n.at[c].val = StackedOn(t, c, v)
        PROVE  FlatHead(n.at[c].val)
    BY <1>0, <2>1, <2>2, <2>4, StackedPlain
  <2>5. ASSUME NEW op \in Modal, FromModal(n, t, op)
        PROVE  FlatHead(n.at[c].val)
    <3>1. Epistemic(c, op, t.key) \in Plain
      BY <2>2, ContextFacts, EpistemicFacts
    <3> QED BY <2>4, <2>5, <3>1, ModalGives
  <2>6. ASSUME NEW op \in Quantifiers, FromQuantifier(n, t, op)
        PROVE  FlatHead(n.at[c].val)
    BY <2>4, <2>6, QuantifierGives, QuantifierFacts
  <2>7. CASE FromNegation(n, t)
    BY <2>1, <2>2, <2>4, <2>7, NegationGives, NegationFacts
  <2>8. CASE FromScope(n, t)
    BY <2>1, <2>2, <2>3, <2>8, ScopeGives, FlatScope
  <2>9. CASE FromAction(n, t)
    <3>1. ActionEvent(c, u).d # "list"
      BY <2>2, ActionEventFacts
    <3> QED BY <2>1, <2>9, <3>1, ActionGives DEF FlatHead
  <2> QED BY <1>3, <2>5, <2>6, <2>7, <2>8, <2>9 DEF OfOne
<1>4. ASSUME NEW l \in S, NEW r \in S, OfTwo(n, l, r)
      PROVE  FlatHead(n.at[c].val)
  <2>1. PICK a, b : a = l.at[c].val /\ b = r.at[c].val
    OBVIOUS
  <2>2. Proper(a) /\ Proper(b)
    BY <2>1 DEF Whole, Typed
  <2>3. /\ ToSet(l.ops) \cup ToSet(r.ops) \subseteq ToSet(n.ops)
        /\ FromConditional(n, l, r) => "khi" \in ToSet(n.ops)
    BY <1>4, OpsOfTwo DEF Whole, Shaped
  <2>4. FlatHead(a) /\ FlatHead(b)
    BY <2>1, <2>3 DEF FlatNode
  <2>5. CASE FromAnd(n, l, r)
    BY <2>1, <2>2, <2>4, <2>5, AndGives, FlatConjunction
  <2>6. CASE FromOr(n, l, r)
    BY <1>0, <2>1, <2>2, <2>6, OrGives, DisjunctionFacts
  <2>7. CASE FromKra(n, l, r)
    BY <2>1, <2>2, <2>4, <2>7, KraGives, FlatConjunction
  <2>8. CASE FromJuxtaposition(n, l, r)
    <3>1. PICK z : z = Spliced(b)
      OBVIOUS
    <3>2. Row(z) /\ Proper(Leading(a)) /\ FlatHead(Leading(a))
      BY <2>2, <2>4, <3>1, SplicedFacts, LeadingFacts, FlatLeading
    <3>3. Juxtaposition(a, b) = Follow(Leading(a), z)
      BY <3>1 DEF Juxtaposition
    <3>4. FlatHead(Juxtaposition(a, b))
      BY <3>2, <3>3, FlatFollow
    <3> QED BY <2>1, <2>8, <3>4, JuxtapositionGives
  <2> QED BY <1>4, <2>3, <2>5, <2>6, <2>7, <2>8 DEF OfTwo
<1> QED BY <1>1, <1>2, <1>3, <1>4 DEF Made, Leaves

-----------------------------------------------------------------------------

\* Where more is known, or less is refused, a subtree is worth more.
Rises(n) ==
    Monotonic(n) => \A c, d \in Contexts : More(c, d) => Beneath(n.at[c].val, n.at[d].val)

LEMMA MonotonicFacts ==
    ASSUME NEW n
    PROVE  /\ Monotonic(n) <=> /\ \A q \in Quantifiers : q \notin ToSet(n.ops)
                               /\ ~("kra" \in ToSet(n.ops) /\ "khi" \in ToSet(n.ops))
           /\ \A t : ToSet(t.ops) \subseteq ToSet(n.ops) /\ Monotonic(n) => Monotonic(t)
<1>1. \A x : Monotonic(x) <=> /\ \A q \in Quantifiers : q \notin ToSet(x.ops)
                              /\ ~("kra" \in ToSet(x.ops) /\ "khi" \in ToSet(x.ops))
  BY UsesFacts DEF Monotonic
<1> QED BY <1>1

LEMMA MadeRises ==
    ASSUME EvaluationAssumption, NEW S, \A x \in S : Whole(x) /\ FlatNode(x) /\ Rises(x),
           NEW n, Made(n, S)
    PROVE  Rises(n)
<1> SUFFICES ASSUME Monotonic(n), NEW c \in Contexts, NEW d \in Contexts, More(c, d)
             PROVE  Beneath(n.at[c].val, n.at[d].val)
  BY DEF Rises
<1>1. ASSUME NEW w \in {"true", "false", "undefined"}, FromConstant(n, w)
      PROVE  Beneath(n.at[c].val, n.at[d].val)
  <2>1. ConstantValue(w) \in Plain /\ ConstantValue(w) # Failure
    BY AtomConstants DEF ConstantValue, Plain
  <2>2. Beneath(ConstantValue(w), ConstantValue(w))
    BY <2>1, BeneathPlain DEF Refines
  <2> QED BY <1>1, <2>2, ConstantGives
<1>2. ASSUME NEW k \in Keys, FromKey(n, k)
      PROVE  Beneath(n.at[c].val, n.at[d].val)
  BY <1>2, KeyGives, BeneathLiteral
<1>3. ASSUME NEW t \in S, OfOne(n, t)
      PROVE  Beneath(n.at[c].val, n.at[d].val)
  <2>1. PICK u, w : u = t.at[c].val /\ w = t.at[d].val
    OBVIOUS
  <2>2. Proper(u) /\ Proper(w) /\ t.key \in Keys \cup {NoKey}
    BY <2>1 DEF Whole, Typed, Shaped
  <2>3. Beneath(u, w)
    <3>1. ToSet(t.ops) \subseteq ToSet(n.ops)
      BY <1>3, OpsOfOne DEF Whole, Shaped
    <3>2. Monotonic(t)
      BY <3>1, MonotonicFacts
    <3> QED BY <2>1, <3>2 DEF Rises
  <2>4. ASSUME NEW op \in Modal, FromModal(n, t, op)
        PROVE  Beneath(n.at[c].val, n.at[d].val)
    <3>1. PICK x, y : x = Epistemic(c, op, t.key) /\ y = Epistemic(d, op, t.key)
      OBVIOUS
    <3>2. x \in Plain /\ y \in Plain
      BY <2>2, <3>1, ContextFacts, EpistemicFacts
    <3>3. Beneath(x, y)
      BY <2>2, <3>1, BeneathEpistemic
    <3>4. n.at[c].val = StackedOn(t, c, x) /\ n.at[d].val = StackedOn(t, d, y)
      BY <2>4, <3>1, ModalGives
    <3> QED BY <2>1, <2>2, <2>3, <3>2, <3>3, <3>4, BeneathStacked
  <2>5. ASSUME NEW op \in Quantifiers, FromQuantifier(n, t, op)
        PROVE  FALSE
    <3>1. op \in ToSet(n.ops)
      BY <1>3, <2>5, OpsOfOne DEF Whole, Shaped
    <3> QED BY <3>1, MonotonicFacts
  <2>6. CASE FromNegation(n, t)
    <3>1. PICK x, y : x = Negation(u) /\ y = Negation(w)
      OBVIOUS
    <3>2. x \in Plain /\ y \in Plain
      BY <2>2, <3>1, NegationFacts
    <3>3. Beneath(x, y)
      BY <2>2, <2>3, <3>1, BeneathNegation
    <3>4. n.at[c].val = StackedOn(t, c, x) /\ n.at[d].val = StackedOn(t, d, y)
      BY <2>1, <2>6, <3>1, NegationGives
    <3> QED BY <2>1, <2>2, <2>3, <3>2, <3>3, <3>4, BeneathStacked
  <2>7. CASE FromScope(n, t)
    BY <2>1, <2>2, <2>3, <2>7, ScopeGives, BeneathScope
  <2>8. CASE FromAction(n, t)
    <3>1. Beneath(ActionEvent(c, u), ActionEvent(d, w))
      BY <2>2, <2>3, BeneathAction DEF More
    <3> QED BY <2>1, <2>8, <3>1, ActionGives
  <2> QED BY <1>3, <2>4, <2>5, <2>6, <2>7, <2>8 DEF OfOne
<1>4. ASSUME NEW l \in S, NEW r \in S, OfTwo(n, l, r)
      PROVE  Beneath(n.at[c].val, n.at[d].val)
  <2>1. PICK a, b, p, q : /\ a = l.at[c].val /\ b = r.at[c].val
                          /\ p = l.at[d].val /\ q = r.at[d].val
    OBVIOUS
  <2>2. Proper(a) /\ Proper(b) /\ Proper(p) /\ Proper(q)
    BY <2>1 DEF Whole, Typed
  <2>3. /\ ToSet(l.ops) \cup ToSet(r.ops) \subseteq ToSet(n.ops)
        /\ FromKra(n, l, r) => "kra" \in ToSet(n.ops)
    BY <1>4, OpsOfTwo DEF Whole, Shaped
  <2>4. Beneath(a, p) /\ Beneath(b, q)
    <3>1. Monotonic(l) /\ Monotonic(r)
      BY <2>3, MonotonicFacts
    <3> QED BY <2>1, <3>1 DEF Rises
  <2>5. CASE FromAnd(n, l, r)
    <3>1. Beneath(Conjunction("an", a, b), Conjunction("an", p, q))
      BY <2>2, <2>4, BeneathConjunction
    <3> QED BY <2>1, <2>5, <3>1, AndGives
  <2>6. CASE FromOr(n, l, r)
    <3>1. Disjoinable(a, b) /\ Disjoinable(p, q)
      BY <2>1, <2>6 DEF FromOr
    <3>2. Beneath(Disjunction(a, b), Disjunction(p, q))
      BY <2>2, <2>4, <3>1, BeneathDisjunction
    <3> QED BY <2>1, <2>6, <3>2, OrGives
  <2>7. CASE FromKra(n, l, r)
    <3>1. "khi" \notin ToSet(r.ops)
      BY <2>3, <2>7, MonotonicFacts
    <3>2. FlatHead(q)
      BY <2>1, <3>1 DEF FlatNode
    <3>3. Spliced(q)[1].d # "list"
      BY <2>2, <3>2, FlatSpliced
    <3>4. Beneath(Conjunction("kra", a, b), Conjunction("kra", p, q))
      BY <2>2, <2>4, <3>3, BeneathConjunction
    <3> QED BY <2>1, <2>7, <3>4, KraGives
  <2>8. CASE FromJuxtaposition(n, l, r)
    <3>1. Beneath(Juxtaposition(a, b), Juxtaposition(p, q))
      BY <2>2, <2>4, BeneathJuxtaposition
    <3> QED BY <2>1, <2>8, <3>1, JuxtapositionGives
  <2>9. CASE FromConditional(n, l, r)
    <3>1. Beneath(Guarded(c, a, b), Guarded(d, p, q))
      BY <2>2, <2>4, BeneathGuarded DEF More
    <3> QED BY <2>1, <2>9, <3>1, ConditionalGives
  <2> QED BY <1>4, <2>5, <2>6, <2>7, <2>8, <2>9 DEF OfTwo
<1> QED BY <1>1, <1>2, <1>3, <1>4 DEF Made, Leaves

-----------------------------------------------------------------------------
(* Learning more *)

\* Extends, as far as the evaluators look: each asks for the first of what is known
\* and what is believed, the core also for what is believed alone.
LEMMA ExtensionFacts ==
    ASSUME EvaluationAssumption, NEW c \in Contexts, NEW d \in Contexts, Extends(c, d)
    PROVE  /\ c.strict = d.strict /\ c.threshold = d.threshold
           /\ \A k \in Keys :
                 /\ c.lit[k] \in {"none", d.lit[k]} /\ c.know[k] \in {"none", d.know[k]}
                 /\ c.bel[k] \in {"none", d.bel[k]}
                 /\ FirstOf(c.know[k], c.bel[k]) \in {"none", FirstOf(d.know[k], d.bel[k])}
                 /\ c.certain[k] => d.certain[k]
<1>1. c \in Context /\ d \in Context
  BY DEF EvaluationAssumption
<1>2. c.strict = d.strict /\ c.threshold = d.threshold
  <2>1. c = [d EXCEPT !.lit = c.lit, !.know = c.know, !.bel = c.bel, !.rated = c.rated,
                      !.certain = c.certain]
    BY DEF Extends
  <2> QED BY <1>1, <2>1 DEF Context
<1>3. ASSUME NEW k \in Keys
      PROVE  /\ c.lit[k] \in {"none", d.lit[k]} /\ c.know[k] \in {"none", d.know[k]}
             /\ c.bel[k] \in {"none", d.bel[k]}
             /\ FirstOf(c.know[k], c.bel[k]) \in {"none", FirstOf(d.know[k], d.bel[k])}
             /\ c.certain[k] => d.certain[k]
  BY DEF Extends, FirstOf
<1> QED BY <1>2, <1>3

LEMMA MoreFacts ==
    ASSUME EvaluationAssumption, NEW c \in Contexts, NEW d \in Contexts
    PROVE  /\ Extends(c, d) /\ ~c.strict => More(c, d)
           /\ d = [c EXCEPT !.strict = FALSE] => More(c, d)
<1>1. c \in Context
  BY DEF EvaluationAssumption
<1>2. Extends(c, d) /\ ~c.strict => More(c, d)
  BY ExtensionFacts DEF More
<1>3. ASSUME d = [c EXCEPT !.strict = FALSE] PROVE More(c, d)
  <2>1. /\ d.strict = FALSE /\ d.lit = c.lit /\ d.know = c.know /\ d.bel = c.bel
        /\ d.certain = c.certain
    BY <1>1, <1>3 DEF Context
  <2> QED BY <2>1 DEF More
<1> QED BY <1>2, <1>3

\* The core keeps a truth value apart from its contrary, and a literal from both.
Compatible(e, f) ==
    /\ {e, f} # {"T", "F"}
    /\ e \in Keys => f = e \/ f \notin {"T", "F"} \cup Keys
    /\ f \in Keys => f = e \/ e \notin {"T", "F"} \cup Keys

LEMMA CompatibleSame ==
    ASSUME NEW e
    PROVE  Compatible(e, e)
BY DEF Compatible

LEMMA CompatibleLasting ==
    ASSUME NEW x, NEW y, x \notin Keys, y \notin Keys,
           x \in {"T", "F"} /\ y \in {"T", "F"} => x = y
    PROVE  Compatible(x, y)
BY DEF Compatible

\* The entry an operator of the core looks up.
CoreEntry(c, op, k) ==
    CASE op = "shi" -> c.know[k]
      [] op = "vek" -> c.bel[k]
      [] op = "sha" -> FirstOf(c.know[k], c.bel[k])

LEMMA CoreEntryFacts ==
    ASSUME EvaluationAssumption, NEW c \in Contexts, NEW op \in Modal, NEW k \in Keys
    PROVE  \/ CoreEpistemic(c, op, k) \in {"error", "U"}
           \/ /\ CoreEpistemic(c, op, k) = CoreEntry(c, op, k)
              /\ CoreEntry(c, op, k) \in {"T", "F"}
<1>1. /\ c.know[k] \in Maybe /\ c.bel[k] \in Maybe
      /\ FirstOf(c.know[k], c.bel[k]) \in Maybe
  BY ContextFacts
<1>2. CoreRefuse(c) \in {"error", "U"}
  BY DEF CoreRefuse
<1>3. CASE op = "shi"
  BY <1>1, <1>2, <1>3 DEF CoreEpistemic, CoreEntry, Maybe
<1>4. CASE op = "vek"
  BY <1>1, <1>4 DEF CoreEpistemic, CoreEntry, Maybe, Says
<1>5. CASE op = "sha"
  <2>1. CoreEpistemic(c, op, k) = CoreCertain(c, k)
    BY <1>5 DEF CoreEpistemic
  <2> QED BY <1>1, <1>2, <1>5, <2>1 DEF CoreCertain, CoreEntry, Maybe
<1> QED BY <1>3, <1>4, <1>5 DEF Modal

LEMMA NoTruthIsAKey ==
    ASSUME EvaluationAssumption
    PROVE  \A x \in K3 \cup {"action", "error", "reject"} : x \notin Keys
BY DEF EvaluationAssumption

LEMMA CompatibleEpistemic ==
    ASSUME EvaluationAssumption, NEW c \in Contexts, NEW d \in Contexts, Extends(c, d),
           NEW op \in Modal, NEW e, NEW f, Compatible(e, f)
    PROVE  Compatible(CoreEpistemic(c, op, e), CoreEpistemic(d, op, f))
<1> DEFINE Other(x) == IF op = "sha" \/ x \in {"reject", "error"} THEN x ELSE "U"
<1>1. \A b, x : x \notin Keys => CoreEpistemic(b, op, x) = Other(x)
  BY DEF CoreEpistemic
<1>2. \A x : x \notin Keys => Other(x) \notin Keys /\ Other(x) \in {"U", x}
  BY NoTruthIsAKey DEF K3
<1>3. ASSUME NEW b \in Contexts, NEW k \in Keys
      PROVE  CoreEpistemic(b, op, k) \notin Keys
  BY <1>3, CoreEntryFacts, NoTruthIsAKey DEF K3
<1> HIDE DEF Other
<1>4. CASE e \in Keys /\ f \in Keys
  <2>1. f = e
    BY <1>4 DEF Compatible
  <2>2. CoreEntry(c, op, e) \in {"none", CoreEntry(d, op, e)}
    BY <1>4, ExtensionFacts DEF CoreEntry, Modal
  <2> QED BY <1>3, <1>4, <2>1, <2>2, CoreEntryFacts, CompatibleLasting
<1>5. CASE e \in Keys /\ f \notin Keys
  <2>1. CoreEpistemic(d, op, f) \notin {"T", "F"} /\ CoreEpistemic(d, op, f) \notin Keys
    BY <1>1, <1>2, <1>5 DEF Compatible
  <2> QED BY <1>3, <1>5, <2>1, CompatibleLasting
<1>6. CASE e \notin Keys /\ f \in Keys
  <2>1. CoreEpistemic(c, op, e) \notin {"T", "F"} /\ CoreEpistemic(c, op, e) \notin Keys
    BY <1>1, <1>2, <1>6 DEF Compatible
  <2> QED BY <1>3, <1>6, <2>1, CompatibleLasting
<1>7. CASE e \notin Keys /\ f \notin Keys
  <2>1. /\ CoreEpistemic(c, op, e) \in {"U", e} /\ CoreEpistemic(c, op, e) \notin Keys
        /\ CoreEpistemic(d, op, f) \in {"U", f} /\ CoreEpistemic(d, op, f) \notin Keys
    BY <1>1, <1>2, <1>7
  <2>2. e \in {"T", "F"} /\ f \in {"T", "F"} => e = f
    BY DEF Compatible
  <2> QED BY <2>1, <2>2, CompatibleLasting
<1> QED BY <1>4, <1>5, <1>6, <1>7

LEMMA CompatibleOperators ==
    ASSUME EvaluationAssumption,
           NEW e \in CoreValues, NEW f \in CoreValues, Compatible(e, f),
           NEW x \in CoreValues, NEW y \in CoreValues, Compatible(x, y)
    PROVE  /\ Compatible(CoreNegation(e), CoreNegation(f))
           /\ Compatible(CoreAction(e), CoreAction(f))
           /\ Compatible(CoreAnd(e, x), CoreAnd(f, y))
           /\ Compatible(CoreOr(e, x), CoreOr(f, y))
           /\ Compatible(CoreOther(e, x), CoreOther(f, y))
           /\ Compatible(CoreGuarded(e, x), CoreGuarded(f, y))
<1>1. ASSUME NEW k \in Keys PROVE k \notin K3 /\ k \notin {"action", "error", "reject"}
  BY NoTruthIsAKey
<1>2. /\ e \in {"T", "F"} /\ f \in {"T", "F"} => e = f
      /\ x \in {"T", "F"} /\ y \in {"T", "F"} => x = y
  BY DEF Compatible
<1>3. Compatible(CoreNegation(e), CoreNegation(f))
  <2>1. CASE e \in K3 /\ f \in K3
    <3>1. /\ CoreNegation(e) \in K3 /\ CoreNegation(f) \in K3
          /\ CoreNegation(e) \in {"T", "F"} /\ CoreNegation(f) \in {"T", "F"} =>
                CoreNegation(e) = CoreNegation(f)
      BY <1>2, <2>1 DEF CoreNegation, K3, KNot
    <3> QED BY <3>1, NoTruthIsAKey, CompatibleLasting
  <2>2. CASE e \in K3 /\ f \notin K3
    <3>1. CoreNegation(e) \in K3 /\ CoreNegation(f) = f
      BY <2>2 DEF CoreNegation, K3, KNot
    <3>2. f \in Keys => e = "U"
      BY <2>2, <1>1 DEF Compatible, K3
    <3>3. e = "U" => CoreNegation(e) = "U"
      BY DEF CoreNegation, K3, KNot
    <3> QED BY <2>2, <3>1, <3>2, <3>3, NoTruthIsAKey DEF Compatible, K3
  <2>3. CASE e \notin K3 /\ f \in K3
    <3>1. CoreNegation(f) \in K3 /\ CoreNegation(e) = e
      BY <2>3 DEF CoreNegation, K3, KNot
    <3>2. e \in Keys => f = "U"
      BY <2>3, <1>1 DEF Compatible, K3
    <3>3. f = "U" => CoreNegation(f) = "U"
      BY DEF CoreNegation, K3, KNot
    <3> QED BY <2>3, <3>1, <3>2, <3>3, NoTruthIsAKey DEF Compatible, K3
  <2>4. CASE e \notin K3 /\ f \notin K3
    BY <2>4 DEF CoreNegation
  <2> QED BY <2>1, <2>2, <2>3, <2>4
<1>4. Compatible(CoreAction(e), CoreAction(f))
  <2>1. CoreAction(e) \in {"action", "reject"} /\ CoreAction(f) \in {"action", "reject"}
    BY DEF CoreAction
  <2> QED BY <2>1, NoTruthIsAKey, CompatibleLasting
<1>5. /\ CoreAnd(e, x) \in K3 \cup {"error", "reject"}
      /\ CoreAnd(f, y) \in K3 \cup {"error", "reject"}
      /\ CoreOr(e, x) \in K3 \cup {"error", "reject"}
      /\ CoreOr(f, y) \in K3 \cup {"error", "reject"}
  BY DEF CoreAnd, CoreOr, CoreConnective, K3, KAnd, KOr
<1>6. ASSUME NEW a, NEW b
      PROVE  /\ CoreAnd(a, b) = "T" => a = "T" /\ b = "T"
             /\ CoreAnd(a, b) = "F" => a = "F" \/ b = "F"
             /\ CoreOr(a, b) = "F" => a = "F" /\ b = "F"
             /\ CoreOr(a, b) = "T" => a = "T" \/ b = "T"
  BY DEF CoreAnd, CoreOr, CoreConnective, K3, KAnd, KOr
<1>7. Compatible(CoreAnd(e, x), CoreAnd(f, y))
  <2>1. CoreAnd(e, x) \in {"T", "F"} /\ CoreAnd(f, y) \in {"T", "F"} =>
           CoreAnd(e, x) = CoreAnd(f, y)
    BY <1>2, <1>6
  <2> QED BY <1>5, <2>1, NoTruthIsAKey, CompatibleLasting
<1>8. Compatible(CoreOr(e, x), CoreOr(f, y))
  <2>1. CoreOr(e, x) \in {"T", "F"} /\ CoreOr(f, y) \in {"T", "F"} =>
           CoreOr(e, x) = CoreOr(f, y)
    BY <1>2, <1>6
  <2> QED BY <1>5, <2>1, NoTruthIsAKey, CompatibleLasting
<1>9. Compatible(CoreOther(e, x), CoreOther(f, y))
  <2>1. CoreOther(e, x) \in {"reject", "error", "U"} /\ CoreOther(f, y) \in {"reject", "error", "U"}
    BY DEF CoreOther
  <2> QED BY <2>1, NoTruthIsAKey, CompatibleLasting DEF K3
<1>10. Compatible(CoreGuarded(e, x), CoreGuarded(f, y))
  <2>1. /\ CoreGuarded(e, x) \in {"reject", "error", "U", x}
        /\ CoreGuarded(f, y) \in {"reject", "error", "U", y}
    BY DEF CoreGuarded
  <2>2. \A a \in {"reject", "error", "U"} : a \notin Keys /\ a \notin {"T", "F"}
    BY NoTruthIsAKey DEF K3
  <2> QED BY <2>1, <2>2 DEF Compatible
<1> QED BY <1>3, <1>4, <1>7, <1>8, <1>9, <1>10

LEMMA SaysRises ==
    ASSUME NEW x, NEW y, x \in {"none", y}
    PROVE  Refines(Says(x), Says(y))
BY DEF Refines, Says

LEMMA ModalMeaningRises ==
    ASSUME EvaluationAssumption, NEW c \in Contexts, NEW d \in Contexts, Extends(c, d),
           NEW op \in Modal, NEW k \in Keys \cup {NoKey}
    PROVE  Refines(ModalMeaning(c, op, k), ModalMeaning(d, op, k))
<1>1. CASE k = NoKey
  BY <1>1 DEF ModalMeaning, Refines
<1>2. CASE k \in Keys /\ k # NoKey
  <2>1. /\ Refines(Says(c.know[k]), Says(d.know[k]))
        /\ Refines(Says(FirstOf(c.know[k], c.bel[k])), Says(FirstOf(d.know[k], d.bel[k])))
        /\ c.certain[k] => d.certain[k]
    BY <1>2, ExtensionFacts, SaysRises
  <2>2. CASE op = "shi"
    BY <1>2, <2>1, <2>2 DEF ModalMeaning
  <2>3. CASE op = "vek"
    BY <1>2, <2>1, <2>3 DEF ModalMeaning
  <2>4. CASE op = "sha"
    <3>1. CASE c.certain[k]
      BY <1>2, <2>1, <2>4, <3>1 DEF ModalMeaning
    <3>2. CASE ~c.certain[k]
      <4>1. ModalMeaning(c, op, k) = "U"
        BY <1>2, <2>4, <3>2 DEF ModalMeaning
      <4> QED BY <4>1 DEF Refines
    <3> QED BY <3>1, <3>2
  <2> QED BY <2>2, <2>3, <2>4 DEF Modal
<1> QED BY <1>1, <1>2

\* Where more is known a subtree means as much or more, and the core does not take
\* back what it said of it.
Means(n) ==
    (\A q \in Quantifiers : q \notin ToSet(n.ops)) =>
        \A c, d \in Contexts : Extends(c, d) => Refines(n.at[c].meaning, n.at[d].meaning)

Keeps(n) ==
    \A c, d \in Contexts : Extends(c, d) => Compatible(n.at[c].core, n.at[d].core)

LEMMA MadeMeans ==
    ASSUME EvaluationAssumption, NEW S, \A x \in S : Whole(x) /\ Means(x),
           NEW n, Made(n, S)
    PROVE  Means(n)
<1> SUFFICES ASSUME \A q \in Quantifiers : q \notin ToSet(n.ops),
                    NEW c \in Contexts, NEW d \in Contexts, Extends(c, d)
             PROVE  Refines(n.at[c].meaning, n.at[d].meaning)
  BY DEF Means
<1>1. ASSUME NEW w \in {"true", "false", "undefined"}, FromConstant(n, w)
      PROVE  Refines(n.at[c].meaning, n.at[d].meaning)
  BY <1>1, ConstantGives DEF Refines
<1>2. ASSUME NEW k \in Keys, FromKey(n, k)
      PROVE  Refines(n.at[c].meaning, n.at[d].meaning)
  BY <1>2, KeyGives, ExtensionFacts, SaysRises
<1>3. ASSUME NEW t \in S, OfOne(n, t)
      PROVE  Refines(n.at[c].meaning, n.at[d].meaning)
  <2>1. PICK p, q : p = t.at[c].meaning /\ q = t.at[d].meaning
    OBVIOUS
  <2>2. p \in K3 /\ q \in K3 /\ t.key \in Keys \cup {NoKey}
    BY <2>1 DEF Whole, Typed, Shaped
  <2>3. Refines(p, q)
    <3>1. ToSet(t.ops) \subseteq ToSet(n.ops)
      BY <1>3, OpsOfOne DEF Whole, Shaped
    <3> QED BY <2>1, <3>1 DEF Means
  <2>4. ASSUME NEW op \in Modal, FromModal(n, t, op)
        PROVE  Refines(n.at[c].meaning, n.at[d].meaning)
    BY <2>2, <2>4, ModalGives, ModalMeaningRises
  <2>5. ASSUME NEW op \in Quantifiers, FromQuantifier(n, t, op)
        PROVE  FALSE
    BY <1>3, <2>5, OpsOfOne DEF Whole, Shaped
  <2>6. CASE FromNegation(n, t)
    BY <2>1, <2>2, <2>3, <2>6, NegationGives, KleeneRises
  <2>7. CASE FromScope(n, t)
    BY <2>1, <2>3, <2>7, ScopeGives
  <2>8. CASE FromAction(n, t)
    BY <2>8, ActionGives DEF Refines
  <2> QED BY <1>3, <2>4, <2>5, <2>6, <2>7, <2>8 DEF OfOne
<1>4. ASSUME NEW l \in S, NEW r \in S, OfTwo(n, l, r)
      PROVE  Refines(n.at[c].meaning, n.at[d].meaning)
  <2>1. PICK a, b, p, q : /\ a = l.at[c].meaning /\ b = r.at[c].meaning
                          /\ p = l.at[d].meaning /\ q = r.at[d].meaning
    OBVIOUS
  <2>2. a \in K3 /\ b \in K3 /\ p \in K3 /\ q \in K3
    BY <2>1 DEF Whole, Typed
  <2>3. Refines(a, p) /\ Refines(b, q)
    <3>1. ToSet(l.ops) \cup ToSet(r.ops) \subseteq ToSet(n.ops)
      BY <1>4, OpsOfTwo DEF Whole, Shaped
    <3> QED BY <2>1, <3>1 DEF Means
  <2>4. /\ Refines(KAnd(a, b), KAnd(p, q)) /\ Refines(KOr(a, b), KOr(p, q))
        /\ Refines(KGuard(a, b), KGuard(p, q))
    BY <2>2, <2>3, KleeneRises
  <2>5. CASE FromAnd(n, l, r)
    BY <2>1, <2>4, <2>5, AndGives
  <2>6. CASE FromOr(n, l, r)
    BY <2>1, <2>4, <2>6, OrGives
  <2>7. CASE FromKra(n, l, r)
    BY <2>1, <2>4, <2>7, KraGives
  <2>8. CASE FromJuxtaposition(n, l, r)
    BY <2>8, JuxtapositionGives DEF Refines
  <2>9. CASE FromConditional(n, l, r)
    BY <2>1, <2>4, <2>9, ConditionalGives
  <2> QED BY <1>4, <2>5, <2>6, <2>7, <2>8, <2>9 DEF OfTwo
<1> QED BY <1>1, <1>2, <1>3, <1>4 DEF Made, Leaves

LEMMA MadeKeeps ==
    ASSUME EvaluationAssumption, NEW S, \A x \in S : Whole(x) /\ Keeps(x), NEW n, Made(n, S)
    PROVE  Keeps(n)
<1> SUFFICES ASSUME NEW c \in Contexts, NEW d \in Contexts, Extends(c, d)
             PROVE  Compatible(n.at[c].core, n.at[d].core)
  BY DEF Keeps
<1>1. ASSUME NEW w \in {"true", "false", "undefined"}, FromConstant(n, w)
      PROVE  Compatible(n.at[c].core, n.at[d].core)
  BY <1>1, ConstantGives, CompatibleSame
<1>2. ASSUME NEW k \in Keys, FromKey(n, k)
      PROVE  Compatible(n.at[c].core, n.at[d].core)
  BY <1>2, KeyGives, CompatibleSame
<1>3. ASSUME NEW t \in S, OfOne(n, t)
      PROVE  Compatible(n.at[c].core, n.at[d].core)
  <2>1. PICK e, f : e = t.at[c].core /\ f = t.at[d].core
    OBVIOUS
  <2>2. e \in CoreValues /\ f \in CoreValues /\ Compatible(e, f)
    BY <2>1 DEF Whole, Typed, Keeps
  <2>3. ASSUME NEW op \in Modal, FromModal(n, t, op)
        PROVE  Compatible(n.at[c].core, n.at[d].core)
    BY <2>1, <2>2, <2>3, ModalGives, CompatibleEpistemic
  <2>4. ASSUME NEW op \in Quantifiers, FromQuantifier(n, t, op)
        PROVE  Compatible(n.at[c].core, n.at[d].core)
    BY <2>1, <2>2, <2>4, QuantifierGives
  <2>5. Compatible(CoreNegation(e), CoreNegation(f)) /\ Compatible(CoreAction(e), CoreAction(f))
    BY <2>2, CompatibleOperators
  <2>6. CASE FromNegation(n, t)
    BY <2>1, <2>5, <2>6, NegationGives
  <2>7. CASE FromScope(n, t)
    BY <2>1, <2>2, <2>7, ScopeGives
  <2>8. CASE FromAction(n, t)
    BY <2>1, <2>5, <2>8, ActionGives
  <2> QED BY <1>3, <2>3, <2>4, <2>6, <2>7, <2>8 DEF OfOne
<1>4. ASSUME NEW l \in S, NEW r \in S, OfTwo(n, l, r)
      PROVE  Compatible(n.at[c].core, n.at[d].core)
  <2>1. PICK e, f, x, y : /\ e = l.at[c].core /\ x = r.at[c].core
                          /\ f = l.at[d].core /\ y = r.at[d].core
    OBVIOUS
  <2>2. /\ e \in CoreValues /\ f \in CoreValues /\ Compatible(e, f)
        /\ x \in CoreValues /\ y \in CoreValues /\ Compatible(x, y)
    BY <2>1 DEF Whole, Typed, Keeps
  <2>3. /\ Compatible(CoreAnd(e, x), CoreAnd(f, y)) /\ Compatible(CoreOr(e, x), CoreOr(f, y))
        /\ Compatible(CoreOther(e, x), CoreOther(f, y))
        /\ Compatible(CoreGuarded(e, x), CoreGuarded(f, y))
    BY <2>2, CompatibleOperators
  <2>4. CASE FromAnd(n, l, r)
    BY <2>1, <2>3, <2>4, AndGives
  <2>5. CASE FromOr(n, l, r)
    BY <2>1, <2>3, <2>5, OrGives
  <2>6. CASE FromKra(n, l, r)
    BY <2>1, <2>3, <2>6, KraGives
  <2>7. CASE FromJuxtaposition(n, l, r)
    BY <2>7, JuxtapositionGives, CompatibleSame
  <2>8. CASE FromConditional(n, l, r)
    BY <2>1, <2>3, <2>8, ConditionalGives
  <2> QED BY <1>4, <2>4, <2>5, <2>6, <2>7, <2>8 DEF OfTwo
<1> QED BY <1>1, <1>2, <1>3, <1>4 DEF Made, Leaves

-----------------------------------------------------------------------------

Grows(n) == FlatNode(n) /\ Rises(n) /\ Means(n) /\ Keeps(n)

GrowthInv ==
    /\ ActionsInv
    /\ \A x \in Subtrees : Grows(x)
    /\ chain # Nothing => Grows(chain)

LEMMA GrowthStep ==
    ASSUME EvaluationAssumption, GrowthInv, [Next]_vars
    PROVE  GrowthInv'
<1>1. ActionsInv /\ ValuesInv
  BY DEF GrowthInv, ActionsInv
<1>2. ActionsInv'
  BY <1>1, ActionsStep
<1>3. ValuesInv' /\ Grown
  BY <1>1, ValuesStep
<1>4. PICK n : /\ Made(n, Subtrees) \/ n \in Subtrees \cup {chain}
               /\ Subtrees' \subseteq Subtrees \cup {n}
               /\ chain' # Nothing => chain' \in Subtrees \cup {chain}
  BY <1>3 DEF Grown
<1>5. ASSUME Made(n, Subtrees) PROVE Grows(n)
  <2>1. \A x \in Subtrees : Whole(x) /\ FlatNode(x) /\ Rises(x) /\ Means(x) /\ Keeps(x)
    BY <1>1 DEF GrowthInv, ValuesInv, Grows
  <2> QED BY <1>5, <2>1, MadeIsFlat, MadeRises, MadeMeans, MadeKeeps DEF Grows
<1>6. \A x \in Subtrees' : x # Nothing
  <2>1. \A x \in Subtrees' : Whole(x)
    BY <1>3 DEF ValuesInv, Whole, Shaped, Typed, Fields, Entry
  <2> QED BY <2>1, WholeIsSomething
<1>7. \A x \in Subtrees' : Grows(x)
  BY <1>4, <1>5, <1>6 DEF GrowthInv
<1>8. chain' # Nothing => Grows(chain')
  BY <1>4 DEF GrowthInv
<1>9. (\A x \in Subtrees : Grows(x))'
  BY <1>7
<1>10. (chain # Nothing => Grows(chain))'
  BY <1>8
<1> QED BY <1>2, <1>9, <1>10 DEF GrowthInv

THEOREM GrowthInvariant == Spec => []GrowthInv
<1> USE EvaluationAssumption
<1>1. Init => GrowthInv
  BY ValuesInit DEF GrowthInv, ActionsInv
<1>2. GrowthInv /\ [Next]_vars => GrowthInv'
  BY GrowthStep
<1> QED BY <1>1, <1>2, PTL DEF Spec

\* What is worth more says more and does more, whatever a validator refuses.
LEMMA VerdictsRise ==
    ASSUME EvaluationAssumption, Grows(chain), Monotonic(chain),
           NEW c \in Contexts, NEW d \in Contexts, More(c, d)
    PROVE  /\ Refines(Verdict(c, chain).t, Verdict(d, chain).t)
           /\ Verdict(c, chain).acts \subseteq Verdict(d, chain).acts
<1>1. Weaker(chain.at[c].val, chain.at[d].val)
  BY DEF Grows, Rises, Beneath
<1>2. Verdict(d, chain) = chain.at[d].val
  BY VerdictsGive DEF More
<1>3. CASE Verdict(c, chain) = Failure
  BY <1>3, AtomConstants DEF Refines
<1>4. CASE Verdict(c, chain) = chain.at[c].val
  BY <1>1, <1>2, <1>4, WeakerGives
<1> QED BY <1>3, <1>4, VerdictFacts

\* Strict mode decides nothing otherwise than partial mode: it only refuses.
THEOREM StrictAlwaysOnlyRefuses == Spec => []StrictOnlyRefuses
<1> USE EvaluationAssumption
<1>1. GrowthInv => StrictOnlyRefuses
  <2> SUFFICES ASSUME GrowthInv, Ended, Monotonic(chain), NEW c \in Contexts, NEW p \in Contexts,
                      p = [c EXCEPT !.strict = FALSE]
               PROVE  /\ Refines(Python(c).t, Python(p).t)
                      /\ Python(c).acts \subseteq Python(p).acts
    BY DEF StrictOnlyRefuses
  <2>1. Grows(chain) /\ outcome = Outcome(chain)
    BY DEF Ended, GrowthInv, ActionsInv, ValuesInv
  <2>2. Python(c) = Verdict(c, chain) /\ Python(p) = Verdict(p, chain)
    BY <2>1 DEF Python, Outcome
  <2>3. More(c, p)
    BY MoreFacts
  <2> QED BY <2>1, <2>2, <2>3, VerdictsRise
<1> QED BY <1>1, GrowthInvariant, PTL

\* A verdict without quantifiers is never turned round by what is learnt, by either
\* implementation; in partial mode it stays, with its actions.
THEOREM LearningAlwaysNeverFlips == Spec => []LearningNeverFlips
<1> USE EvaluationAssumption
<1>1. GrowthInv => LearningNeverFlips
  <2> SUFFICES ASSUME GrowthInv, Ended, ~Uses(chain, Quantifiers),
                      NEW c \in Contexts, NEW d \in Contexts, Extends(c, d)
               PROVE  /\ {Python(c).t, Python(d).t} # {"T", "F"}
                      /\ {Rust(c), Rust(d)} # {"T", "F"}
                      /\ ~c.strict /\ Monotonic(chain) =>
                            /\ Refines(Python(c).t, Python(d).t)
                            /\ Python(c).acts \subseteq Python(d).acts
    BY DEF LearningNeverFlips
  <2>1. Grows(chain) /\ Meant(chain) /\ outcome = Outcome(chain)
    BY DEF Ended, GrowthInv, ActionsInv, ValuesInv, ActionsKept
  <2>2. /\ Python(c) = Verdict(c, chain) /\ Python(d) = Verdict(d, chain)
        /\ Rust(c) = CoreVerdict(c, chain) /\ Rust(d) = CoreVerdict(d, chain)
    BY <2>1 DEF Python, Rust, Outcome
  <2>3. {Python(c).t, Python(d).t} # {"T", "F"}
    <3>1. PICK p, q : p = chain.at[c].meaning /\ q = chain.at[d].meaning
      OBVIOUS
    <3>2. \A x \in Quantifiers : x \notin ToSet(chain.ops)
      BY UsesFacts
    <3>3. Refines(p, q)
      BY <2>1, <3>1, <3>2 DEF Grows, Means
    <3>4. chain.at[c].val.t \in {"U", p} /\ chain.at[d].val.t \in {"U", q}
      BY <2>1, <3>1, ReadsGives DEF Meant
    <3>5. Python(c).t \in {"U", p} /\ Python(d).t \in {"U", q}
      BY <2>2, <3>4, VerdictFacts, AtomConstants
    <3> QED BY <3>3, <3>5 DEF Refines
  <2>4. {Rust(c), Rust(d)} # {"T", "F"}
    <3>1. Compatible(chain.at[c].core, chain.at[d].core)
      BY <2>1 DEF Grows, Keeps
    <3> QED BY <2>2, <3>1, VerdictsGive DEF Compatible
  <2>5. ~c.strict /\ Monotonic(chain) =>
           /\ Refines(Python(c).t, Python(d).t)
           /\ Python(c).acts \subseteq Python(d).acts
    BY <2>1, <2>2, MoreFacts, VerdictsRise
  <2> QED BY <2>3, <2>4, <2>5
<1> QED BY <1>1, GrowthInvariant, PTL

===============================================================================
