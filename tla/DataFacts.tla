----------------------------- MODULE DataFacts -----------------------------
(***************************************************************************)
(* The lemmas about data that the proofs of several components rest on:    *)
(* what cutting, inserting, appending and removing do to the elements of a *)
(* sequence, and to the property that none occurs twice; and what changing *)
(* one value does to a total.                                              *)
(***************************************************************************)
EXTENDS Integers, Sequences, SequencesExt, SequenceTheorems, Totals,
        FiniteSetTheorems, TLAPS

(* No element of s is an element of t. *)
Disjoint(s, t) == ToSet(s) \cap ToSet(t) = {}

(* Sequences, seen as the sets of their elements *)

(* The elements of a contiguous part of a sequence. *)
LEMMA SubSeqFacts ==
  ASSUME NEW S, NEW s \in Seq(S), NEW m \in 1 .. Len(s) + 1, NEW n \in 0 .. Len(s)
  PROVE  /\ SubSeq(s, m, n) \in Seq(S)
         /\ Len(SubSeq(s, m, n)) = IF m <= n THEN n - m + 1 ELSE 0
         /\ \A i \in 1 .. Len(SubSeq(s, m, n)) : SubSeq(s, m, n)[i] = s[m + i - 1]
         /\ ToSet(SubSeq(s, m, n)) \subseteq ToSet(s)
         /\ IsInjective(s) => IsInjective(SubSeq(s, m, n))
  <1>1. /\ SubSeq(s, m, n) \in Seq(S)
        /\ Len(SubSeq(s, m, n)) = IF m <= n THEN n - m + 1 ELSE 0
        /\ \A i \in 1 .. Len(SubSeq(s, m, n)) : SubSeq(s, m, n)[i] = s[m + i - 1]
    BY SubSeqProperties
  <1>2. \A i \in 1 .. Len(SubSeq(s, m, n)) : m + i - 1 \in 1 .. Len(s)
    BY <1>1
  <1>3. DOMAIN SubSeq(s, m, n) = 1 .. Len(SubSeq(s, m, n)) /\ DOMAIN s = 1 .. Len(s)
    BY <1>1, LenProperties
  <1>4. ToSet(SubSeq(s, m, n)) \subseteq ToSet(s)
    BY <1>1, <1>2, <1>3 DEF ToSet
  <1>5. IsInjective(s) => IsInjective(SubSeq(s, m, n))
    BY <1>1, <1>2, <1>3 DEF IsInjective
  <1> QED BY <1>1, <1>4, <1>5

(* The elements of a concatenation. *)
LEMMA ConcatFacts ==
  ASSUME NEW S, NEW s \in Seq(S), NEW t \in Seq(S)
  PROVE  /\ s \o t \in Seq(S)
         /\ ToSet(s \o t) = ToSet(s) \cup ToSet(t)
         /\ IsInjective(s) /\ IsInjective(t) /\ Disjoint(s, t) => IsInjective(s \o t)
  <1>1. /\ s \o t \in Seq(S)
        /\ Len(s \o t) = Len(s) + Len(t)
        /\ \A i \in 1 .. Len(s) + Len(t) :
             (s \o t)[i] = IF i <= Len(s) THEN s[i] ELSE t[i - Len(s)]
    BY ConcatProperties
  <1>2. /\ DOMAIN (s \o t) = 1 .. Len(s) + Len(t)
        /\ DOMAIN s = 1 .. Len(s) /\ DOMAIN t = 1 .. Len(t)
        /\ Len(s) \in Nat /\ Len(t) \in Nat
    BY <1>1, LenProperties
  <1>3. ToSet(s \o t) = ToSet(s) \cup ToSet(t)
    <2>1. ToSet(s \o t) \subseteq ToSet(s) \cup ToSet(t)
      BY <1>1, <1>2 DEF ToSet
    <2>2. ASSUME NEW i \in DOMAIN s PROVE s[i] \in ToSet(s \o t)
      BY <1>1, <1>2 DEF ToSet
    <2>3. ASSUME NEW i \in DOMAIN t PROVE t[i] \in ToSet(s \o t)
      <3>1. i + Len(s) \in 1 .. Len(s) + Len(t) /\ (s \o t)[i + Len(s)] = t[i]
        BY <1>1, <1>2
      <3> QED BY <3>1, <1>2 DEF ToSet
    <2> QED BY <2>1, <2>2, <2>3 DEF ToSet
  <1>4. ASSUME IsInjective(s), IsInjective(t), Disjoint(s, t) PROVE IsInjective(s \o t)
    <2> SUFFICES ASSUME NEW i \in 1 .. Len(s) + Len(t), NEW k \in 1 .. Len(s) + Len(t),
                        (s \o t)[i] = (s \o t)[k]
                 PROVE  i = k
      BY <1>2 DEF IsInjective
    <2>1. \A a \in DOMAIN s, b \in DOMAIN t : s[a] # t[b]
      BY <1>4 DEF Disjoint, ToSet
    <2>2. CASE i <= Len(s) /\ k <= Len(s)
      BY <2>2, <1>1, <1>2, <1>4 DEF IsInjective
    <2>3. CASE i > Len(s) /\ k > Len(s)
      <3>1. t[i - Len(s)] = t[k - Len(s)] /\ i - Len(s) \in DOMAIN t /\ k - Len(s) \in DOMAIN t
        BY <2>3, <1>1, <1>2
      <3> QED BY <3>1, <1>2, <1>4 DEF IsInjective
    <2>4. CASE i <= Len(s) /\ k > Len(s)
      BY <2>4, <2>1, <1>1, <1>2
    <2>5. CASE i > Len(s) /\ k <= Len(s)
      BY <2>5, <2>1, <1>1, <1>2
    <2> QED BY <2>2, <2>3, <2>4, <2>5, <1>2
  <1> QED BY <1>1, <1>3, <1>4

(* Two parts of an injective sequence that do not overlap share no element. *)
LEMMA PartsDisjoint ==
  ASSUME NEW S, NEW s \in Seq(S), IsInjective(s),
         NEW m1 \in 1 .. Len(s) + 1, NEW n1 \in 0 .. Len(s),
         NEW m2 \in 1 .. Len(s) + 1, NEW n2 \in 0 .. Len(s), n1 < m2
  PROVE  Disjoint(SubSeq(s, m1, n1), SubSeq(s, m2, n2))
  <1> DEFINE u == SubSeq(s, m1, n1)
             v == SubSeq(s, m2, n2)
  <1>1. /\ u \in Seq(S) /\ Len(u) = IF m1 <= n1 THEN n1 - m1 + 1 ELSE 0
        /\ \A i \in 1 .. Len(u) : u[i] = s[m1 + i - 1]
        /\ v \in Seq(S) /\ Len(v) = IF m2 <= n2 THEN n2 - m2 + 1 ELSE 0
        /\ \A i \in 1 .. Len(v) : v[i] = s[m2 + i - 1]
    BY SubSeqFacts
  <1>2. DOMAIN u = 1 .. Len(u) /\ DOMAIN v = 1 .. Len(v) /\ DOMAIN s = 1 .. Len(s)
    BY <1>1, LenProperties
  <1> HIDE DEF u, v
  <1>3. ASSUME NEW i \in 1 .. Len(u), NEW k \in 1 .. Len(v) PROVE u[i] # v[k]
    <2>1. m1 + i - 1 \in 1 .. Len(s) /\ m2 + k - 1 \in 1 .. Len(s) /\ m1 + i - 1 < m2 + k - 1
      BY <1>1
    <2>2. \A a, b \in 1 .. Len(s) : s[a] = s[b] => a = b
      BY <1>2 DEF IsInjective
    <2>3. s[m1 + i - 1] # s[m2 + k - 1]
      <3> DEFINE a == m1 + i - 1
                 b == m2 + k - 1
      <3>1. a \in 1 .. Len(s) /\ b \in 1 .. Len(s) /\ a # b
        BY <2>1
      <3> HIDE DEF a, b
      <3>2. s[a] # s[b]
        BY <3>1, <2>2
      <3> QED BY <3>2 DEF a, b
    <2> QED BY <2>3, <1>1
  <1>4. Disjoint(u, v)
    BY <1>2, <1>3 DEF Disjoint, ToSet
  <1> QED BY <1>4 DEF u, v

(* Every element is in the first n or among the others. *)
LEMMA SplitCovers ==
  ASSUME NEW S, NEW s \in Seq(S), NEW n \in 0 .. Len(s)
  PROVE  ToSet(s) = ToSet(SubSeq(s, 1, n)) \cup ToSet(SubSeq(s, n + 1, Len(s)))
  <1>1. /\ Len(s) \in Nat /\ 1 \in 1 .. Len(s) + 1 /\ n \in 1 - 1 .. Len(s)
        /\ Len(s) \in n .. Len(s) /\ n + 1 \in 1 .. Len(s) + 1 /\ Len(s) \in 0 .. Len(s)
    BY LenProperties
  <1>2. SubSeq(s, 1, n) \o SubSeq(s, n + 1, Len(s)) = SubSeq(s, 1, Len(s))
    BY <1>1, ConcatAdjacentSubSeq
  <1>3. SubSeq(s, 1, Len(s)) = s
    BY SubSeqFull
  <1>4. SubSeq(s, 1, n) \in Seq(S) /\ SubSeq(s, n + 1, Len(s)) \in Seq(S)
    BY <1>1, SubSeqFacts
  <1> DEFINE a == SubSeq(s, 1, n)
             b == SubSeq(s, n + 1, Len(s))
  <1>5. ToSet(a \o b) = ToSet(a) \cup ToSet(b)
    <2>1. a \in Seq(S) /\ b \in Seq(S)
      BY <1>4
    <2> HIDE DEF a, b
    <2> QED BY <2>1, ConcatFacts
  <1> QED BY <1>2, <1>3, <1>5

(* Taking k elements after position `from`: what is taken and what is left. *)
LEMMA CutFacts ==
  ASSUME NEW S, NEW s \in Seq(S), NEW from \in 0 .. Len(s), NEW k \in 0 .. Len(s) - from
  PROVE  LET taken == SubSeq(s, from + 1, from + k)
             left == SubSeq(s, 1, from) \o SubSeq(s, from + k + 1, Len(s))
         IN /\ taken \in Seq(S) /\ left \in Seq(S)
            /\ ToSet(taken) \subseteq ToSet(s) /\ ToSet(left) \subseteq ToSet(s)
            /\ IsInjective(s) => IsInjective(taken) /\ IsInjective(left) /\ Disjoint(taken, left)
  <1> DEFINE t == SubSeq(s, from + 1, from + k)
             a == SubSeq(s, 1, from)
             b == SubSeq(s, from + k + 1, Len(s))
  <1>1. Len(s) \in Nat
    BY LenProperties
  <1>2. /\ from + 1 \in 1 .. Len(s) + 1 /\ from + k \in 0 .. Len(s)
        /\ from + k + 1 \in 1 .. Len(s) + 1 /\ Len(s) \in 0 .. Len(s) /\ 1 \in 1 .. Len(s) + 1
        /\ from < from + k + 1 /\ from < from + 1 /\ from + k < from + k + 1
    BY <1>1
  <1>3. /\ t \in Seq(S) /\ ToSet(t) \subseteq ToSet(s) /\ (IsInjective(s) => IsInjective(t))
    BY <1>2, SubSeqFacts
  <1>4. /\ a \in Seq(S) /\ ToSet(a) \subseteq ToSet(s) /\ (IsInjective(s) => IsInjective(a))
    BY <1>2, SubSeqFacts
  <1>5. /\ b \in Seq(S) /\ ToSet(b) \subseteq ToSet(s) /\ (IsInjective(s) => IsInjective(b))
    BY <1>2, SubSeqFacts
  <1>6. IsInjective(s) => Disjoint(a, b) /\ Disjoint(a, t) /\ Disjoint(t, b)
    BY <1>2, PartsDisjoint
  <1> HIDE DEF t, a, b
  <1>7. /\ a \o b \in Seq(S) /\ ToSet(a \o b) = ToSet(a) \cup ToSet(b)
        /\ IsInjective(a) /\ IsInjective(b) /\ Disjoint(a, b) => IsInjective(a \o b)
    BY <1>4, <1>5, ConcatFacts
  <1>8. IsInjective(s) => Disjoint(t, a \o b)
    BY <1>6, <1>7 DEF Disjoint
  <1>9. /\ t \in Seq(S) /\ a \o b \in Seq(S)
        /\ ToSet(t) \subseteq ToSet(s) /\ ToSet(a \o b) \subseteq ToSet(s)
        /\ IsInjective(s) => IsInjective(t) /\ IsInjective(a \o b) /\ Disjoint(t, a \o b)
    BY <1>3, <1>4, <1>5, <1>6, <1>7, <1>8
  <1> QED BY <1>9 DEF t, a, b

(* A cut loses nothing: what is not taken is left. *)
LEMMA CutCovers ==
  ASSUME NEW S, NEW s \in Seq(S), NEW from \in 0 .. Len(s), NEW k \in 0 .. Len(s) - from
  PROVE  ToSet(s) = ToSet(SubSeq(s, from + 1, from + k))
                      \cup ToSet(SubSeq(s, 1, from) \o SubSeq(s, from + k + 1, Len(s)))
  <1> DEFINE t == SubSeq(s, from + 1, from + k)
             a == SubSeq(s, 1, from)
             b == SubSeq(s, from + k + 1, Len(s))
  <1>1. Len(s) \in Nat
    BY LenProperties
  <1>2. /\ from + 1 \in 1 .. Len(s) + 1 /\ from + k \in (from + 1) - 1 .. Len(s)
        /\ Len(s) \in from + k .. Len(s)
        /\ from + k \in 0 .. Len(s) /\ from + k + 1 \in 1 .. Len(s) + 1
        /\ Len(s) \in 0 .. Len(s) /\ 1 \in 1 .. Len(s) + 1
    BY <1>1
  <1>3. t \in Seq(S) /\ a \in Seq(S) /\ b \in Seq(S)
    BY <1>2, SubSeqFacts
  <1>4. t \o b = SubSeq(s, from + 1, Len(s))
    BY <1>1, <1>2, ConcatAdjacentSubSeq
  <1>5. ToSet(s) = ToSet(a) \cup ToSet(t \o b)
    BY <1>4, SplitCovers
  <1> HIDE DEF t, a, b
  <1>6. ToSet(t \o b) = ToSet(t) \cup ToSet(b) /\ ToSet(a \o b) = ToSet(a) \cup ToSet(b)
    BY <1>3, ConcatFacts
  <1>7. ToSet(s) = ToSet(t) \cup ToSet(a \o b)
    BY <1>5, <1>6
  <1> QED BY <1>7 DEF t, a, b

(* Inserting t after the first n elements. *)
LEMMA InsertFacts ==
  ASSUME NEW S, NEW s \in Seq(S), NEW t \in Seq(S), NEW n \in 0 .. Len(s)
  PROVE  LET r == SubSeq(s, 1, n) \o t \o SubSeq(s, n + 1, Len(s))
         IN /\ r \in Seq(S)
            /\ ToSet(r) = ToSet(s) \cup ToSet(t)
            /\ IsInjective(s) /\ IsInjective(t) /\ Disjoint(s, t) => IsInjective(r)
  <1> DEFINE a == SubSeq(s, 1, n)
             b == SubSeq(s, n + 1, Len(s))
             h == a \o t
  <1>1. /\ Len(s) \in Nat /\ n + 1 \in 1 .. Len(s) + 1 /\ Len(s) \in 0 .. Len(s)
        /\ 1 \in 1 .. Len(s) + 1 /\ n < n + 1
    BY LenProperties
  <1>2. a \in Seq(S) /\ (IsInjective(s) => IsInjective(a))
    BY <1>1, SubSeqFacts
  <1>3. b \in Seq(S) /\ (IsInjective(s) => IsInjective(b))
    BY <1>1, SubSeqFacts
  <1>4. IsInjective(s) => Disjoint(a, b)
    BY <1>1, PartsDisjoint
  <1>5. ToSet(s) = ToSet(a) \cup ToSet(b)
    BY SplitCovers
  <1> HIDE DEF a, b
  <1>6. /\ h \in Seq(S) /\ ToSet(h) = ToSet(a) \cup ToSet(t)
        /\ IsInjective(a) /\ IsInjective(t) /\ Disjoint(a, t) => IsInjective(h)
    BY <1>2, ConcatFacts
  <1> HIDE DEF h
  <1>7. /\ h \o b \in Seq(S) /\ ToSet(h \o b) = ToSet(h) \cup ToSet(b)
        /\ IsInjective(h) /\ IsInjective(b) /\ Disjoint(h, b) => IsInjective(h \o b)
    BY <1>3, <1>6, ConcatFacts
  <1>8. IsInjective(s) /\ Disjoint(s, t) => Disjoint(a, t) /\ Disjoint(h, b)
    BY <1>4, <1>5, <1>6 DEF Disjoint
  <1>9. /\ h \o b \in Seq(S) /\ ToSet(h \o b) = ToSet(s) \cup ToSet(t)
        /\ IsInjective(s) /\ IsInjective(t) /\ Disjoint(s, t) => IsInjective(h \o b)
    BY <1>2, <1>3, <1>5, <1>6, <1>7, <1>8
  <1> QED BY <1>9 DEF h, a, b

(* Appending one element. *)
LEMMA AppendFacts ==
  ASSUME NEW S, NEW s \in Seq(S), NEW e \in S
  PROVE  /\ Append(s, e) \in Seq(S)
         /\ ToSet(Append(s, e)) = ToSet(s) \cup {e}
         /\ IsInjective(s) /\ e \notin ToSet(s) => IsInjective(Append(s, e))
  <1>1. Append(s, e) = s \o <<e>>
    BY AppendIsConcat
  <1>2. <<e>> \in Seq(S) /\ ToSet(<<e>>) = {e} /\ IsInjective(<<e>>)
    BY DEF ToSet, IsInjective
  <1>3. e \notin ToSet(s) => Disjoint(s, <<e>>)
    BY <1>2 DEF Disjoint
  <1> DEFINE o == <<e>>
  <1>4. /\ s \o o \in Seq(S) /\ ToSet(s \o o) = ToSet(s) \cup ToSet(o)
        /\ IsInjective(s) /\ IsInjective(o) /\ Disjoint(s, o) => IsInjective(s \o o)
    <2>1. o \in Seq(S)
      BY <1>2
    <2> HIDE DEF o
    <2> QED BY <2>1, ConcatFacts
  <1> QED BY <1>1, <1>2, <1>3, <1>4

(* Taking off the head. *)
LEMMA HeadTailFacts ==
  ASSUME NEW S, NEW s \in Seq(S), s # <<>>
  PROVE  /\ Head(s) \in S /\ Head(s) = s[1] /\ 1 \in DOMAIN s
         /\ Tail(s) \in Seq(S)
         /\ ToSet(s) = {Head(s)} \cup ToSet(Tail(s))
         /\ \A i \in DOMAIN Tail(s) : i + 1 \in DOMAIN s /\ Tail(s)[i] = s[i + 1]
         /\ IsInjective(s) => IsInjective(Tail(s)) /\ Head(s) \notin ToSet(Tail(s))
  <1>1. /\ Head(s) \in S /\ Tail(s) \in Seq(S) /\ Len(Tail(s)) = Len(s) - 1
        /\ \A i \in 1 .. Len(Tail(s)) : Tail(s)[i] = s[i + 1]
    BY HeadTailProperties
  <1>2. /\ Len(s) \in Nat /\ Len(s) > 0 /\ DOMAIN s = 1 .. Len(s)
        /\ DOMAIN Tail(s) = 1 .. Len(s) - 1
    BY <1>1, LenProperties, EmptySeq
  <1>3. Head(s) = s[1]
    BY <1>2
  <1>4. \A i \in DOMAIN Tail(s) : i + 1 \in DOMAIN s /\ Tail(s)[i] = s[i + 1]
    BY <1>1, <1>2
  <1>5. ToSet(s) = {Head(s)} \cup ToSet(Tail(s))
    <2>1. ASSUME NEW i \in DOMAIN s PROVE s[i] \in {Head(s)} \cup ToSet(Tail(s))
      <3>1. CASE i = 1
        BY <3>1, <1>3
      <3>2. CASE i # 1
        <4>1. i - 1 \in DOMAIN Tail(s) /\ Tail(s)[i - 1] = s[i]
          BY <3>2, <1>1, <1>2
        <4> QED BY <4>1 DEF ToSet
      <3> QED BY <3>1, <3>2
    <2>2. Head(s) \in ToSet(s) /\ ToSet(Tail(s)) \subseteq ToSet(s)
      BY <1>2, <1>3, <1>4 DEF ToSet
    <2> QED BY <2>1, <2>2 DEF ToSet
  <1>6. IsInjective(s) => IsInjective(Tail(s)) /\ Head(s) \notin ToSet(Tail(s))
    <2>1. IsInjective(s) => \A i, k \in DOMAIN Tail(s) : Tail(s)[i] = Tail(s)[k] => i = k
      BY <1>4, <1>2 DEF IsInjective
    <2>2. IsInjective(s) => \A i \in DOMAIN Tail(s) : Tail(s)[i] # s[1]
      BY <1>4, <1>2 DEF IsInjective
    <2> QED BY <2>1, <2>2, <1>3 DEF IsInjective, ToSet
  <1> QED BY <1>1, <1>2, <1>3, <1>4, <1>5, <1>6

(* Removing an element of an injective sequence, if it is there. *)
LEMMA RemoveFirstFacts ==
  ASSUME NEW S, NEW s \in Seq(S), IsInjective(s), NEW e
  PROVE  /\ RemoveFirst(s, e) \in Seq(S)
         /\ ToSet(RemoveFirst(s, e)) = ToSet(s) \ {e}
         /\ IsInjective(RemoveFirst(s, e))
  <1>0. Len(s) \in Nat /\ DOMAIN s = 1 .. Len(s)
    BY LenProperties
  <1>1. CASE ~ \E i \in 1 .. Len(s) : s[i] = e
    <2>1. RemoveFirst(s, e) = s
      BY <1>1 DEF RemoveFirst
    <2>2. e \notin ToSet(s)
      BY <1>0, <1>1 DEF ToSet
    <2> QED BY <2>1, <2>2
  <1>2. CASE \E i \in 1 .. Len(s) : s[i] = e
    <2>1. PICK i \in 1 .. Len(s) : s[i] = e
      BY <1>2
    <2>2. {k \in 1 .. Len(s) : s[k] = e} = {i}
      BY <2>1, <1>0 DEF IsInjective
    <2>3. SelectInSeq(s, LAMBDA v : v = e) = i
      <3>1. SelectInSeq(s, LAMBDA v : v = e)
              = LET I == {k \in 1 .. Len(s) : s[k] = e} IN IF I # {} THEN Min(I) ELSE 0
        BY DEF SelectInSeq
      <3>2. Min({i}) = i
        BY <1>0 DEF Min
      <3> QED BY <3>1, <3>2, <2>2
    <2>4. RemoveFirst(s, e) = SubSeq(s, 1, i - 1) \o SubSeq(s, i + 1, Len(s))
      BY <2>3, <1>2 DEF RemoveFirst, RemoveAt
    <2> DEFINE u == SubSeq(s, 1, i - 1)
               v == SubSeq(s, i + 1, Len(s))
    <2>5. /\ 1 \in 1 .. Len(s) + 1 /\ i - 1 \in 0 .. Len(s) /\ i + 1 \in 1 .. Len(s) + 1
          /\ Len(s) \in 0 .. Len(s) /\ i - 1 < i + 1 /\ i \in 0 .. Len(s)
          /\ 1 \in 1 .. Len(s) /\ i \in 1 .. Len(s) /\ i - 1 < i /\ i < i + 1 /\ i \in 1 .. Len(s) + 1
      BY <1>0
    <2>6. /\ u \in Seq(S) /\ IsInjective(u) /\ v \in Seq(S) /\ IsInjective(v) /\ Disjoint(u, v)
      BY <2>5, SubSeqFacts, PartsDisjoint
    <2>7. SubSeq(s, 1, i) = u \o <<e>>
      BY <2>1, <2>5, SubSeqRecursiveSecond
    <2>8. SubSeq(s, i, Len(s)) = <<e>> \o v
      <3>1. Len(s) \in i .. Len(s)
        BY <1>0
      <3> QED BY <2>1, <2>5, <3>1, SubSeqRecursiveFirst
    <2>9. <<e>> \in Seq(S) /\ ToSet(<<e>>) = {e}
      <3>1. e \in S
        BY <2>1, <1>0, ElementOfSeq
      <3> QED BY <3>1 DEF ToSet
    <2>10. ToSet(s) = ToSet(SubSeq(s, 1, i)) \cup ToSet(v)
      BY <2>5, SplitCovers
    <2>11. Disjoint(u, SubSeq(s, i, Len(s))) /\ Disjoint(SubSeq(s, 1, i), v)
      BY <2>5, PartsDisjoint
    <2> HIDE DEF u, v
    <2>12. /\ ToSet(SubSeq(s, 1, i)) = ToSet(u) \cup {e}
           /\ ToSet(SubSeq(s, i, Len(s))) = {e} \cup ToSet(v)
           /\ u \o v \in Seq(S) /\ ToSet(u \o v) = ToSet(u) \cup ToSet(v) /\ IsInjective(u \o v)
      <3> DEFINE o == <<e>>
      <3>0. u \in Seq(S) /\ v \in Seq(S) /\ o \in Seq(S)
        BY <2>6, <2>9
      <3> HIDE DEF o
      <3>1. ToSet(u \o o) = ToSet(u) \cup ToSet(o)
        BY <3>0, ConcatFacts
      <3>2. ToSet(o \o v) = ToSet(o) \cup ToSet(v)
        BY <3>0, ConcatFacts
      <3>3. u \o v \in Seq(S) /\ ToSet(u \o v) = ToSet(u) \cup ToSet(v) /\ IsInjective(u \o v)
        BY <2>6, ConcatFacts
      <3> QED BY <2>7, <2>8, <2>9, <3>1, <3>2, <3>3 DEF o
    <2>13. e \notin ToSet(u) /\ e \notin ToSet(v)
      BY <2>11, <2>12 DEF Disjoint
    <2>14. ToSet(u \o v) = ToSet(s) \ {e}
      BY <2>10, <2>12, <2>13
    <2>15. RemoveFirst(s, e) = u \o v
      BY <2>4 DEF u, v
    <2> QED BY <2>12, <2>14, <2>15
  <1> QED BY <1>1, <1>2

-----------------------------------------------------------------------------
(* Totals *)

(* What is a unit of x in S. *)
LEMMA UnitIs ==
  ASSUME NEW S, NEW f, NEW u
  PROVE  u \in Units(f, S) <=> \E x \in S : \E i \in 1 .. f[x] : u = <<x, i>>
  BY DEF Units

(* An element has as many units as f says. *)
LEMMA UnitsOfOne ==
  ASSUME NEW x, NEW n \in Nat
  PROVE  IsFiniteSet({x} \X (1 .. n)) /\ Cardinality({x} \X (1 .. n)) = n
  <1>1. IsFiniteSet(1 .. n) /\ Cardinality(1 .. n) = n
    <2>1. 1 \in Int /\ n \in Int
      OBVIOUS
    <2> QED BY <2>1, FS_Interval
  <1>2. IsFiniteSet({x}) /\ Cardinality({x}) = 1
    BY FS_Singleton
  <1> QED BY <1>1, <1>2, FS_Product

(* Units are finitely many. *)
LEMMA UnitsFinite ==
  ASSUME NEW S, IsFiniteSet(S), NEW f, \A x \in S : f[x] \in Nat
  PROVE  IsFiniteSet(Units(f, S)) /\ Total(f, S) \in Nat
  <1> DEFINE of == [x \in S |-> {x} \X (1 .. f[x])]
             all == {{x} \X (1 .. f[x]) : x \in S}
  <1>1. of \in Surjection(S, all)
    BY DEF Surjection
  <1>2. IsFiniteSet(all)
    BY <1>1, FS_Surjection
  <1>3. ASSUME NEW T \in all PROVE IsFiniteSet(T)
    <2>1. PICK x \in S : T = {x} \X (1 .. f[x])
      OBVIOUS
    <2>2. IsFiniteSet({x} \X (1 .. f[x]))
      BY UnitsOfOne
    <2> QED BY <2>1, <2>2
  <1>4. IsFiniteSet(UNION all)
    BY <1>2, <1>3, FS_UNION
  <1> QED BY <1>4, FS_CardinalityType DEF Units, Total

(* The total of nothing is nothing. *)
LEMMA TotalEmpty ==
  ASSUME NEW f
  PROVE  Total(f, {}) = 0
  BY FS_EmptySet DEF Total, Units

(* The total of two functions that agree is the same. *)
LEMMA TotalSame ==
  ASSUME NEW S, NEW f, NEW g, \A x \in S : f[x] = g[x]
  PROVE  Total(f, S) = Total(g, S)
  <1>1. ASSUME NEW u PROVE u \in Units(f, S) <=> u \in Units(g, S)
    BY UnitIs
  <1>2. Units(f, S) = Units(g, S)
    BY <1>1
  <1> QED BY <1>2 DEF Total

(* One more element adds its own. *)
LEMMA TotalAdds ==
  ASSUME NEW S, IsFiniteSet(S), NEW f, NEW x, x \notin S,
         \A y \in S \cup {x} : f[y] \in Nat
  PROVE  Total(f, S \cup {x}) = Total(f, S) + f[x]
  <1> DEFINE own == {x} \X (1 .. f[x])
  <1>1. Units(f, S \cup {x}) = Units(f, S) \cup own
    BY DEF Units
  <1>2. Units(f, S) \cap own = {}
    BY UnitIs
  <1>3. IsFiniteSet(Units(f, S)) /\ IsFiniteSet(own) /\ Cardinality(own) = f[x]
    BY UnitsFinite, UnitsOfOne
  <1>4. Total(f, S) \in Nat /\ f[x] \in Nat
    BY UnitsFinite
  <1>5. Cardinality(Units(f, S) \cup own)
           = Cardinality(Units(f, S)) + Cardinality(own) - Cardinality(Units(f, S) \cap own)
    BY <1>3, FS_Union
  <1>6. Cardinality(Units(f, S) \cap own) = 0
    BY <1>2, FS_EmptySet
  <1> HIDE DEF own
  <1>7. Cardinality(Units(f, S) \cup own) = Total(f, S) + f[x]
    BY <1>3, <1>4, <1>5, <1>6 DEF Total
  <1> QED BY <1>1, <1>7 DEF Total

(* What a total becomes when one value changes. *)
LEMMA TotalChanges ==
  ASSUME NEW S, IsFiniteSet(S), NEW f, NEW g, NEW x \in S,
         \A y \in S : f[y] \in Nat /\ g[y] \in Nat,
         \A y \in S \ {x} : f[y] = g[y]
  PROVE  Total(g, S) = Total(f, S) - f[x] + g[x]
  <1> DEFINE R == S \ {x}
  <1>1. IsFiniteSet(R) /\ S = R \cup {x} /\ x \notin R
    BY FS_Subset
  <1>2. Total(f, R) = Total(g, R)
    BY TotalSame
  <1>3. Total(f, R) \in Nat
    BY <1>1, UnitsFinite
  <1>4. Total(f, R \cup {x}) = Total(f, R) + f[x] /\ Total(g, R \cup {x}) = Total(g, R) + g[x]
    BY <1>1, TotalAdds
  <1> HIDE DEF R
  <1> QED BY <1>1, <1>2, <1>3, <1>4

(* A part of what counts less is no more than the whole. *)
LEMMA TotalWithin ==
  ASSUME NEW S, IsFiniteSet(S), NEW T \in SUBSET S, NEW f, NEW g,
         \A x \in S : g[x] \in Nat,
         \A x \in T : f[x] \in Nat /\ f[x] <= g[x]
  PROVE  Total(f, T) <= Total(g, S)
  <1>1. IsFiniteSet(Units(g, S))
    BY UnitsFinite
  <1>2. Units(f, T) \subseteq Units(g, S)
    <2>1. ASSUME NEW x \in T, NEW i \in 1 .. f[x] PROVE <<x, i>> \in Units(g, S)
      <3>1. x \in S /\ i \in 1 .. g[x]
        OBVIOUS
      <3> QED BY <3>1, UnitIs
    <2> QED BY <2>1, UnitIs
  <1> QED BY <1>1, <1>2, FS_Subset DEF Total

(* One value is no more than a total it is part of. *)
LEMMA TotalHolds ==
  ASSUME NEW S, IsFiniteSet(S), NEW f, NEW x \in S, \A y \in S : f[y] \in Nat
  PROVE  f[x] <= Total(f, S)
  <1>1. IsFiniteSet({}) /\ Total(f, {} \cup {x}) = Total(f, {}) + f[x]
    BY FS_EmptySet, TotalAdds
  <1>2. Total(f, {x}) = f[x]
    BY <1>1, TotalEmpty
  <1>3. Total(f, {x}) <= Total(f, S)
    BY TotalWithin
  <1> QED BY <1>2, <1>3

(* What is carried over one to one, to where it counts no less, totals no    *)
(* more than what it is carried to.                                          *)
LEMMA TotalCarries ==
  ASSUME NEW S, IsFiniteSet(S), NEW T, NEW f, NEW g, NEW h,
         \A y \in S : g[y] \in Nat,
         \A x \in T : h[x] \in S /\ f[x] \in Nat /\ f[x] <= g[h[x]],
         \A x, y \in T : h[x] = h[y] => x = y
  PROVE  Total(f, T) <= Total(g, S)
  <1> DEFINE F == [u \in Units(f, T) |-> <<h[u[1]], u[2]>>]
  <1>1. IsFiniteSet(Units(g, S))
    BY UnitsFinite
  <1>2. ASSUME NEW u \in Units(f, T)
        PROVE  u[1] \in T /\ u[2] \in 1 .. f[u[1]] /\ u = <<u[1], u[2]>>
    <2>1. PICK x \in T : \E i \in 1 .. f[x] : u = <<x, i>>
      BY UnitIs
    <2> QED BY <2>1
  <1>3. ASSUME NEW u \in Units(f, T) PROVE <<h[u[1]], u[2]>> \in Units(g, S)
    <2>1. h[u[1]] \in S /\ u[2] \in 1 .. g[h[u[1]]]
      BY <1>2
    <2> QED BY <2>1, UnitIs
  <1>4. ASSUME NEW u \in Units(f, T), NEW v \in Units(f, T), F[u] = F[v] PROVE u = v
    <2>1. h[u[1]] = h[v[1]] /\ u[2] = v[2]
      BY <1>4
    <2> QED BY <1>2, <2>1
  <1>5. F \in [Units(f, T) -> Units(g, S)]
    BY <1>3
  <1>6. \A u, v \in Units(f, T) : F[u] = F[v] => u = v
    BY <1>4
  <1> HIDE DEF F
  <1>7. F \in Injection(Units(f, T), Units(g, S))
    BY <1>5, <1>6 DEF Injection, IsInjective
  <1> QED BY <1>1, <1>7, FS_Injection DEF Total

(* What a function makes of a finite set is finite. *)
LEMMA ImageIsFinite ==
  ASSUME NEW S, IsFiniteSet(S), NEW f, NEW T, T = {f[x] : x \in S}
  PROVE  IsFiniteSet(T)
  <1>1. PICK g : g = [x \in S |-> f[x]]
    OBVIOUS
  <1>2. g \in Surjection(S, T)
    BY <1>1 DEF Surjection
  <1> QED BY <1>2, FS_Surjection
=============================================================================
