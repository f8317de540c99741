----------------------------- MODULE CommonFacts -----------------------------
(***************************************************************************)
(* What the proofs of several components rest on: induction stated with    *)
(* sets, facts about sequences and finite sets, and the invariant of       *)
(* Kahn's loop (TopoSort), which the store and the server run too, for     *)
(* every finite node map.                                                  *)
(***************************************************************************)
EXTENDS TopoSort, WellFoundedInduction, FiniteSetTheorems, TLAPS

-----------------------------------------------------------------------------
(* Induction over the natural numbers, stated with sets *)

\* A set of natural numbers has a least element.
LEMMA LeastNumber ==
  ASSUME NEW S \in SUBSET Nat, S # {}
  PROVE  \E x \in S : \A y \in S : x <= y
<1> DEFINE R == OpToRel(<, Nat)
<1>1. IsWellFoundedOn(R, Nat)
  BY NatLessThanWellFounded, Zenon
<1>2. \A y, x \in Nat : y < x => <<y, x>> \in R
  BY Zenon DEF OpToRel
<1> HIDE DEF R
<1>3. PICK x \in S : \A y \in S : <<y, x>> \notin R
  BY <1>1, WFMin
<1>4. \A y \in S : ~(y < x)
  BY <1>2, <1>3
<1> QED
  BY <1>4

\* A set of natural numbers with 0 and with every successor is Nat.
LEMMA SetInduction ==
  ASSUME NEW S \in SUBSET Nat, 0 \in S, \A n \in S : n + 1 \in S
  PROVE  S = Nat
<1> SUFFICES ASSUME Nat \ S # {} PROVE FALSE
  OBVIOUS
<1>1. PICK x \in Nat \ S : \A y \in Nat \ S : x <= y
  BY LeastNumber
<1>2. x - 1 \in Nat /\ x - 1 \notin Nat \ S /\ (x - 1) + 1 = x
  BY <1>1
<1> QED
  BY <1>1, <1>2

-----------------------------------------------------------------------------
(* Sequences *)

\* What appending does to the positions of a sequence.
LEMMA AppendPositions ==
  ASSUME NEW S, NEW s \in Seq(S), NEW x \in S
  PROVE  /\ Append(s, x) \in Seq(S)
         /\ Len(Append(s, x)) = Len(s) + 1
         /\ DOMAIN Append(s, x) = 1..(Len(s) + 1)
         /\ \A i \in 1..Len(s) : Append(s, x)[i] = s[i]
         /\ Append(s, x)[Len(s) + 1] = x
         /\ DOMAIN s = 1..Len(s)
         /\ Len(s) \in Nat
OBVIOUS

\* Appending adds one element.
LEMMA AppendToSet ==
  ASSUME NEW S, NEW s \in Seq(S), NEW x \in S
  PROVE  ToSet(Append(s, x)) = ToSet(s) \cup {x}
<1> DEFINE t == Append(s, x)
<1>1. /\ DOMAIN t = 1..(Len(s) + 1) /\ t[Len(s) + 1] = x
      /\ \A i \in 1..Len(s) : t[i] = s[i]
      /\ DOMAIN s = 1..Len(s) /\ Len(s) \in Nat
  BY AppendPositions
<1> HIDE DEF t
<1>2. \A y : y \in ToSet(t) <=> y \in ToSet(s) \cup {x}
  BY <1>1 DEF ToSet
<1> QED
  BY <1>2 DEF t, ToSet

\* A sequence is a prefix of itself and of itself with one more element.
LEMMA AppendIsPrefix ==
  ASSUME NEW S, NEW s \in Seq(S), NEW x \in S
  PROVE  IsPrefix(s, s) /\ IsPrefix(s, Append(s, x))
BY DEF IsPrefix

\* The elements of a sequence, by position.
LEMMA ToSetMember ==
  ASSUME NEW S, NEW s \in Seq(S)
  PROVE  /\ ToSet(s) \subseteq S
         /\ \A x : x \in ToSet(s) <=> \E i \in 1..Len(s) : s[i] = x
         /\ s = << >> <=> ToSet(s) = {}
         /\ s = << >> <=> Len(s) = 0
         /\ s # << >> => Last(s) \in ToSet(s)
<1>1. DOMAIN s = 1..Len(s) /\ Len(s) \in Nat /\ \A i \in 1..Len(s) : s[i] \in S
  OBVIOUS
<1>2. \A x : x \in ToSet(s) <=> \E i \in 1..Len(s) : s[i] = x
  BY <1>1 DEF ToSet
<1>3. s = << >> <=> Len(s) = 0
  OBVIOUS
<1>4. s # << >> => s[Len(s)] \in ToSet(s)
  BY <1>1, <1>2, <1>3
<1>5. s = << >> <=> ToSet(s) = {}
  BY <1>2, <1>3, <1>4
<1> QED
  BY <1>1, <1>2, <1>3, <1>4, <1>5 DEF Last

\* A sequence over a set is one over a larger set.
LEMMA SeqSubset ==
  ASSUME NEW S, NEW T, S \subseteq T, NEW s \in Seq(S)
  PROVE  s \in Seq(T)
<1>1. Len(s) \in Nat /\ s \in [1..Len(s) -> T]
  OBVIOUS
<1> QED
  BY <1>1

\* A sequence without its first element.
LEMMA TailPositions ==
  ASSUME NEW S, NEW s \in Seq(S), s # << >>
  PROVE  /\ Tail(s) \in Seq(S)
         /\ Len(s) \in Nat /\ Len(s) >= 1
         /\ Len(Tail(s)) = Len(s) - 1
         /\ DOMAIN Tail(s) = 1..(Len(s) - 1)
         /\ \A i \in 1..(Len(s) - 1) : Tail(s)[i] = s[i + 1]
         /\ Head(s) = s[1] /\ Head(s) \in S
OBVIOUS

\* The positions of a concatenation.
LEMMA ConcatPositions ==
  ASSUME NEW S, NEW s \in Seq(S), NEW t \in Seq(S)
  PROVE  /\ s \o t \in Seq(S)
         /\ Len(s) \in Nat /\ Len(t) \in Nat
         /\ Len(s \o t) = Len(s) + Len(t)
         /\ DOMAIN (s \o t) = 1..(Len(s) + Len(t))
         /\ \A i \in 1..Len(s) : (s \o t)[i] = s[i]
         /\ \A i \in 1..Len(t) : (s \o t)[Len(s) + i] = t[i]
         /\ \A i \in (Len(s) + 1)..(Len(s) + Len(t)) : (s \o t)[i] = t[i - Len(s)]
OBVIOUS

\* A concatenation of injective sequences without a common element is injective.
LEMMA ConcatInjective ==
  ASSUME NEW S, NEW s \in Seq(S), NEW t \in Seq(S), IsInjective(s), IsInjective(t),
         \A x : ~(x \in ToSet(s) /\ x \in ToSet(t))
  PROVE  /\ s \o t \in Seq(S) /\ IsInjective(s \o t)
         /\ \A x : x \in ToSet(s \o t) <=> x \in ToSet(s) \/ x \in ToSet(t)
<1> DEFINE u == s \o t
<1>1. /\ u \in Seq(S) /\ Len(s) \in Nat /\ Len(t) \in Nat
      /\ DOMAIN s = 1..Len(s) /\ DOMAIN t = 1..Len(t) /\ DOMAIN u = 1..(Len(s) + Len(t))
      /\ \A i \in 1..Len(s) : u[i] = s[i]
      /\ \A i \in 1..Len(t) : u[Len(s) + i] = t[i]
      /\ \A i \in (Len(s) + 1)..(Len(s) + Len(t)) : u[i] = t[i - Len(s)]
  BY ConcatPositions
<1> HIDE DEF u
<1>2. \A i \in 1..Len(s) : u[i] \in ToSet(s)
  BY <1>1 DEF ToSet
<1>3. \A i \in (Len(s) + 1)..(Len(s) + Len(t)) :
        i - Len(s) \in DOMAIN t /\ u[i] = t[i - Len(s)] /\ u[i] \in ToSet(t)
  BY <1>1 DEF ToSet
<1>4. \A i \in DOMAIN u : i \in 1..Len(s) \/ i \in (Len(s) + 1)..(Len(s) + Len(t))
  BY <1>1
<1>5. ASSUME NEW i \in DOMAIN u, NEW j \in DOMAIN u, u[i] = u[j]
      PROVE  i = j
  <2>1. CASE i \in 1..Len(s) /\ j \in 1..Len(s)
    BY <1>1, <1>5, <2>1 DEF IsInjective
  <2>2. CASE i \in (Len(s) + 1)..(Len(s) + Len(t)) /\ j \in (Len(s) + 1)..(Len(s) + Len(t))
    <3>1. i - Len(s) = j - Len(s)
      BY <1>3, <1>5, <2>2 DEF IsInjective
    <3> QED
      BY <1>1, <2>2, <3>1
  <2> QED
    BY <1>2, <1>3, <1>4, <1>5, <2>1, <2>2
<1>6. ASSUME NEW x
      PROVE  x \in ToSet(u) <=> x \in ToSet(s) \/ x \in ToSet(t)
  <2>1. ASSUME x \in ToSet(s) PROVE x \in ToSet(u)
    <3>1. PICK i \in 1..Len(s) : s[i] = x
      BY <1>1, <2>1 DEF ToSet
    <3>2. i \in DOMAIN u /\ u[i] = x
      BY <1>1, <3>1
    <3> QED
      BY <3>2 DEF ToSet
  <2>2. ASSUME x \in ToSet(t) PROVE x \in ToSet(u)
    <3>1. PICK i \in 1..Len(t) : t[i] = x
      BY <1>1, <2>2 DEF ToSet
    <3>2. Len(s) + i \in DOMAIN u /\ u[Len(s) + i] = x
      BY <1>1, <3>1
    <3> QED
      BY <3>2 DEF ToSet
  <2>3. ASSUME x \in ToSet(u) PROVE x \in ToSet(s) \/ x \in ToSet(t)
    BY <1>2, <1>3, <1>4, <2>3 DEF ToSet
  <2> QED
    BY <2>1, <2>2, <2>3
<1> QED
  BY <1>1, <1>5, <1>6 DEF u, IsInjective

\* Taking the first element off an injective sequence.
LEMMA TailInjective ==
  ASSUME NEW S, NEW s \in Seq(S), s # << >>, IsInjective(s)
  PROVE  /\ Tail(s) \in Seq(S) /\ IsInjective(Tail(s))
         /\ Head(s) = s[1] /\ Head(s) \in ToSet(s)
         /\ \A x : x \in ToSet(Tail(s)) <=> x \in ToSet(s) /\ x # Head(s)
<1> DEFINE t == Tail(s)
<1>1. /\ t \in Seq(S) /\ Len(s) \in Nat /\ DOMAIN s = 1..Len(s) /\ Head(s) = s[1]
      /\ DOMAIN t = 1..(Len(s) - 1) /\ Len(s) >= 1
      /\ \A i \in 1..(Len(s) - 1) : t[i] = s[i + 1]
  BY TailPositions
<1> HIDE DEF t
<1>2. ASSUME NEW i \in DOMAIN t, NEW j \in DOMAIN t, t[i] = t[j]
      PROVE  i = j
  <2>1. i + 1 = j + 1
    BY <1>1, <1>2 DEF IsInjective
  <2> QED
    BY <1>1, <2>1
<1>3. Head(s) \in ToSet(s)
  BY <1>1 DEF ToSet
<1>4. ASSUME NEW x \in ToSet(t)
      PROVE  x \in ToSet(s) /\ x # Head(s)
  <2>1. PICK i \in 1..(Len(s) - 1) : x = s[i + 1]
    BY <1>1 DEF ToSet
  <2>2. i + 1 \in DOMAIN s /\ i + 1 # 1 /\ 1 \in DOMAIN s
    BY <1>1
  <2> QED
    BY <1>1, <2>1, <2>2 DEF ToSet, IsInjective
<1>5. ASSUME NEW x \in ToSet(s), x # Head(s)
      PROVE  x \in ToSet(t)
  <2>1. PICK i \in 1..Len(s) : x = s[i]
    BY <1>1 DEF ToSet
  <2>2. i # 1 /\ i - 1 \in 1..(Len(s) - 1) /\ (i - 1) + 1 = i
    BY <1>1, <1>5, <2>1
  <2>3. t[i - 1] = x
    BY <1>1, <2>1, <2>2
  <2> QED
    BY <1>1, <2>2, <2>3 DEF ToSet
<1> QED
  BY <1>1, <1>2, <1>3, <1>4, <1>5 DEF t, IsInjective

\* Appending a new element keeps a sequence injective.
LEMMA AppendedOnce ==
  ASSUME NEW S, NEW s \in Seq(S), NEW x \in S, IsInjective(s), x \notin ToSet(s)
  PROVE  IsInjective(Append(s, x))
<1> DEFINE t == Append(s, x)
<1>1. /\ DOMAIN t = 1..(Len(s) + 1) /\ t[Len(s) + 1] = x
      /\ \A i \in 1..Len(s) : t[i] = s[i]
      /\ DOMAIN s = 1..Len(s) /\ Len(s) \in Nat
  BY AppendPositions
<1> HIDE DEF t
<1>2. \A i \in 1..Len(s) : s[i] # x
  BY <1>1 DEF ToSet
<1>3. \A i \in DOMAIN t : i \in 1..Len(s) \/ i = Len(s) + 1
  BY <1>1
<1>4. IsInjective(t)
  BY <1>1, <1>2, <1>3 DEF IsInjective
<1> QED
  BY <1>4 DEF t

-----------------------------------------------------------------------------
(* Recursion *)

\* The beginnings of the iteration of F from a, up to its n-th value.
Beginnings(F, T, a, n) ==
  {g \in [0..n -> T] : g[0] = a /\ \A i \in 0..n : i > 0 => g[i] = F[g[i - 1]]}

\* A function on a set can be iterated from any of its elements.
LEMMA IterationExists ==
  ASSUME NEW T, NEW a \in T, NEW F \in [T -> T]
  PROVE  \E f \in [Nat -> T] : f[0] = a /\ \A n \in Nat : n > 0 => f[n] = F[f[n - 1]]
<1> DEFINE B(n) == Beginnings(F, T, a, n)
<1>1. \A n \in Nat : B(n) # {}
  <2> DEFINE S == {n \in Nat : B(n) # {}}
  <2>1. 0 \in S
    <3>1. [i \in 0..0 |-> a] \in B(0)
      BY DEF Beginnings
    <3> QED
      BY <3>1
  <2>2. ASSUME NEW n \in S PROVE n + 1 \in S
    <3>1. PICK g : g \in B(n)
      BY <2>2
    <3>2. /\ g \in [0..n -> T] /\ g[0] = a /\ n \in Nat
          /\ \A i \in 0..n : i > 0 => g[i] = F[g[i - 1]]
      BY <3>1 DEF Beginnings
    <3> DEFINE h == [i \in 0..(n + 1) |-> IF i = n + 1 THEN F[g[n]] ELSE g[i]]
    <3>3. g[n] \in T /\ F[g[n]] \in T
      BY <3>2
    <3>4. h \in [0..(n + 1) -> T]
      BY <3>2, <3>3
    <3>5. h[0] = a /\ h[n + 1] = F[g[n]] /\ \A i \in 0..n : h[i] = g[i]
      BY <3>2
    <3>6. \A i \in 0..(n + 1) : i > 0 => h[i] = F[h[i - 1]]
      <4> TAKE i \in 0..(n + 1)
      <4>1. CASE i = n + 1
        BY <3>2, <3>5, <4>1
      <4>2. CASE i # n + 1
        BY <3>2, <3>5, <4>2
      <4> QED
        BY <4>1, <4>2
    <3> HIDE DEF h
    <3>7. h \in B(n + 1)
      BY <3>4, <3>5, <3>6 DEF Beginnings
    <3> QED
      BY <3>2, <3>7
  <2> HIDE DEF S
  <2>3. S = Nat
    <3>1. S \in SUBSET Nat
      BY DEF S
    <3> QED
      BY <2>1, <2>2, <3>1, SetInduction
  <2> QED
    BY <2>3 DEF S
<1>2. ASSUME NEW n \in Nat, NEW p \in Nat, NEW g \in B(n), NEW h \in B(p)
      PROVE  \A i \in Nat : i <= n /\ i <= p => g[i] = h[i]
  <2> DEFINE S == {i \in Nat : i <= n /\ i <= p => g[i] = h[i]}
  <2>1. /\ g[0] = a /\ \A i \in 0..n : i > 0 => g[i] = F[g[i - 1]]
        /\ h[0] = a /\ \A i \in 0..p : i > 0 => h[i] = F[h[i - 1]]
    BY DEF Beginnings
  <2>2. 0 \in S
    BY <2>1
  <2>3. ASSUME NEW i \in S PROVE i + 1 \in S
    <3>1. CASE i + 1 <= n /\ i + 1 <= p
      <4>1. i \in Nat /\ i <= n /\ i <= p /\ i + 1 \in 0..n /\ i + 1 \in 0..p /\ (i + 1) - 1 = i
        BY <3>1
      <4>2. g[i] = h[i]
        BY <4>1
      <4>3. g[i + 1] = F[g[i]] /\ h[i + 1] = F[h[i]]
        BY <2>1, <4>1
      <4> QED
        BY <4>1, <4>2, <4>3
    <3>2. CASE ~(i + 1 <= n /\ i + 1 <= p)
      BY <3>2
    <3> QED
      BY <3>1, <3>2
  <2> HIDE DEF S
  <2>4. S = Nat
    <3>1. S \in SUBSET Nat
      BY DEF S
    <3> QED
      BY <2>2, <2>3, <3>1, SetInduction
  <2> QED
    BY <2>4 DEF S
<1> DEFINE c(n) == CHOOSE g \in B(n) : TRUE
           f == [n \in Nat |-> c(n)[n]]
<1>3. \A n \in Nat : c(n) \in B(n)
  BY <1>1
<1> HIDE DEF c
<1>4. f \in [Nat -> T]
  BY <1>3 DEF Beginnings
<1>5. f[0] = a
  BY <1>3 DEF Beginnings
<1>6. ASSUME NEW n \in Nat, n > 0 PROVE f[n] = F[f[n - 1]]
  <2>1. c(n) \in B(n) /\ c(n - 1) \in B(n - 1) /\ n - 1 \in Nat
    BY <1>3, <1>6
  <2>2. c(n)[n - 1] = c(n - 1)[n - 1]
    BY <1>2, <2>1
  <2>3. c(n)[n] = F[c(n)[n - 1]]
    BY <2>1, <1>6 DEF Beginnings
  <2> QED
    BY <2>1, <2>2, <2>3
<1> QED
  BY <1>4, <1>5, <1>6

\* A sequence has finitely many elements.
LEMMA ToSetFinite ==
  ASSUME NEW S, NEW s \in Seq(S)
  PROVE  IsFiniteSet(ToSet(s))
<1>1. s \in [1..Len(s) -> S] /\ Len(s) \in Nat /\ DOMAIN s = 1..Len(s)
  OBVIOUS
<1>2. IsFiniteSet(1..Len(s))
  BY <1>1, FS_Interval
<1>3. s \in [1..Len(s) -> ToSet(s)] /\ \A x \in ToSet(s) : \E i \in 1..Len(s) : s[i] = x
  BY <1>1 DEF ToSet
<1>4. s \in Surjection(1..Len(s), ToSet(s))
  BY <1>3 DEF Surjection
<1> QED
  BY <1>2, <1>4, FS_Surjection

\* The sequence of one element.
LEMMA OneElement ==
  ASSUME NEW S, NEW x \in S
  PROVE  /\ <<x>> \in Seq(S) /\ IsInjective(<<x>>) /\ ToSet(<<x>>) = {x}
         /\ Len(<<x>>) = 1 /\ DOMAIN <<x>> = {1} /\ <<x>>[1] = x /\ <<x>> # << >>
<1>1. DOMAIN <<x>> = {1} /\ Len(<<x>>) = 1 /\ <<x>>[1] = x /\ <<x>> # << >> /\ <<x>> \in Seq(S)
  OBVIOUS
<1> QED
  BY <1>1 DEF IsInjective, ToSet

\* Sequences with the same elements at the same positions are equal.
LEMMA SameSequence ==
  ASSUME NEW S, NEW s \in Seq(S), NEW t \in Seq(S), Len(s) = Len(t),
         \A i \in 1..Len(s) : s[i] = t[i]
  PROVE  s = t
<1>1. s \in [1..Len(s) -> S] /\ t \in [1..Len(s) -> S]
  OBVIOUS
<1> QED
  BY <1>1

\* An element appended to the second of two sequences.
LEMMA ConcatAppend ==
  ASSUME NEW S, NEW s \in Seq(S), NEW t \in Seq(S), NEW x \in S
  PROVE  s \o Append(t, x) = Append(s \o t, x)
<1>1. /\ s \o Append(t, x) \in Seq(S) /\ Append(s \o t, x) \in Seq(S)
      /\ Len(s \o Append(t, x)) = Len(s) + Len(t) + 1
      /\ Len(Append(s \o t, x)) = Len(s) + Len(t) + 1
  OBVIOUS
<1>2. ASSUME NEW i \in 1..(Len(s) + Len(t) + 1)
      PROVE  (s \o Append(t, x))[i] = Append(s \o t, x)[i]
  OBVIOUS
<1> QED
  BY <1>1, <1>2, SameSequence

\* The first element of the second of two sequences moved to the first.
LEMMA ConcatHeadMoved ==
  ASSUME NEW S, NEW s \in Seq(S), NEW t \in Seq(S), t # << >>
  PROVE  Append(s, Head(t)) \o Tail(t) = s \o t
<1>1. /\ Append(s, Head(t)) \o Tail(t) \in Seq(S) /\ s \o t \in Seq(S)
      /\ Len(Append(s, Head(t)) \o Tail(t)) = Len(s) + Len(t)
      /\ Len(s \o t) = Len(s) + Len(t)
  OBVIOUS
<1>2. ASSUME NEW i \in 1..(Len(s) + Len(t))
      PROVE  (Append(s, Head(t)) \o Tail(t))[i] = (s \o t)[i]
  OBVIOUS
<1> QED
  BY <1>1, <1>2, SameSequence

\* Concatenation is associative.
LEMMA ConcatAssociative ==
  ASSUME NEW S, NEW s \in Seq(S), NEW t \in Seq(S), NEW u \in Seq(S)
  PROVE  s \o (t \o u) = (s \o t) \o u
<1>1. /\ s \o (t \o u) \in Seq(S) /\ (s \o t) \o u \in Seq(S)
      /\ Len(s \o (t \o u)) = Len(s) + Len(t) + Len(u)
      /\ Len((s \o t) \o u) = Len(s) + Len(t) + Len(u)
  OBVIOUS
<1>2. ASSUME NEW i \in 1..(Len(s) + Len(t) + Len(u))
      PROVE  (s \o (t \o u))[i] = ((s \o t) \o u)[i]
  OBVIOUS
<1> QED
  BY <1>1, <1>2, SameSequence

\* The empty sequence adds nothing.
LEMMA ConcatEmpty ==
  ASSUME NEW S, NEW s \in Seq(S)
  PROVE  /\ << >> \o s = s /\ s \o << >> = s /\ << >> \in Seq(S) /\ Len(<< >>) = 0
         /\ IsInjective(<< >>)
<1>1. << >> \o s = s /\ s \o << >> = s /\ << >> \in Seq(S) /\ Len(<< >>) = 0
  OBVIOUS
<1> QED
  BY <1>1 DEF IsInjective

\* The elements of two sequences one after the other.
LEMMA ConcatToSet ==
  ASSUME NEW S, NEW s \in Seq(S), NEW t \in Seq(S)
  PROVE  ToSet(s \o t) = ToSet(s) \cup ToSet(t)
<1>1. /\ s \o t \in Seq(S) /\ Len(s) \in Nat /\ Len(t) \in Nat
      /\ DOMAIN (s \o t) = 1..(Len(s) + Len(t))
      /\ \A i \in 1..Len(s) : (s \o t)[i] = s[i]
      /\ \A i \in 1..Len(t) : (s \o t)[Len(s) + i] = t[i]
      /\ \A i \in (Len(s) + 1)..(Len(s) + Len(t)) : (s \o t)[i] = t[i - Len(s)]
      /\ DOMAIN s = 1..Len(s) /\ DOMAIN t = 1..Len(t)
  BY ConcatPositions
<1>2. ASSUME NEW i \in DOMAIN (s \o t)
      PROVE  (s \o t)[i] \in ToSet(s) \cup ToSet(t)
  <2>1. CASE i \in DOMAIN s
    BY <1>1, <2>1 DEF ToSet
  <2>2. CASE i \notin DOMAIN s
    <3>1. i - Len(s) \in DOMAIN t /\ (s \o t)[i] = t[i - Len(s)]
      BY <1>1, <2>2
    <3> QED
      BY <3>1 DEF ToSet
  <2> QED
    BY <2>1, <2>2
<1>3. ASSUME NEW i \in DOMAIN s
      PROVE  s[i] \in ToSet(s \o t)
  <2>1. i \in DOMAIN (s \o t) /\ (s \o t)[i] = s[i]
    BY <1>1
  <2> QED
    BY <2>1 DEF ToSet
<1>4. ASSUME NEW i \in DOMAIN t
      PROVE  t[i] \in ToSet(s \o t)
  <2>1. Len(s) + i \in DOMAIN (s \o t) /\ (s \o t)[Len(s) + i] = t[i]
    BY <1>1
  <2> QED
    BY <2>1 DEF ToSet
<1>5. ToSet(s \o t) \subseteq ToSet(s) \cup ToSet(t)
  BY <1>2 DEF ToSet
<1>6. ToSet(s) \subseteq ToSet(s \o t)
  BY <1>3 DEF ToSet
<1>7. ToSet(t) \subseteq ToSet(s \o t)
  BY <1>4 DEF ToSet
<1> QED
  BY <1>5, <1>6, <1>7

\* A prefix agrees at each of its positions.
LEMMA PrefixPositions ==
  ASSUME NEW S, NEW s \in Seq(S), NEW t \in Seq(S)
  PROVE  IsPrefix(s, t) <=> Len(s) <= Len(t) /\ \A i \in 1..Len(s) : s[i] = t[i]
<1> DEFINE a == SubSeq(s, 1, Len(s))
           b == SubSeq(t, 1, Len(s))
<1>1. /\ a \in Seq(S) /\ Len(a) = Len(s) /\ Len(s) \in Nat /\ Len(t) \in Nat
      /\ \A i \in 1..Len(s) : a[i] = s[i]
  OBVIOUS
<1>2. Len(s) <= Len(t) => /\ b \in Seq(S) /\ Len(b) = Len(s)
                          /\ \A i \in 1..Len(s) : b[i] = t[i]
  OBVIOUS
<1> HIDE DEF a, b
<1>3. ASSUME Len(s) <= Len(t), \A i \in 1..Len(s) : s[i] = t[i] PROVE a = b
  BY <1>1, <1>2, <1>3, SameSequence
<1>4. ASSUME Len(s) <= Len(t), a = b PROVE \A i \in 1..Len(s) : s[i] = t[i]
  BY <1>1, <1>2, <1>4
<1> QED
  BY <1>3, <1>4 DEF IsPrefix, a, b

\* A prefix is a prefix of what is appended to.
LEMMA PrefixOfAppend ==
  ASSUME NEW S, NEW s \in Seq(S), NEW t \in Seq(S), NEW x \in S, IsPrefix(s, t)
  PROVE  IsPrefix(s, Append(t, x))
<1>1. /\ Append(t, x) \in Seq(S) /\ Len(Append(t, x)) = Len(t) + 1 /\ Len(t) \in Nat
      /\ \A i \in 1..Len(t) : Append(t, x)[i] = t[i]
  BY AppendPositions
<1>2. Len(s) \in Nat /\ Len(s) <= Len(t) /\ \A i \in 1..Len(s) : s[i] = t[i]
  BY PrefixPositions
<1>3. Len(s) <= Len(Append(t, x)) /\ \A i \in 1..Len(s) : s[i] = Append(t, x)[i]
  BY <1>1, <1>2
<1> QED
  BY <1>1, <1>3, PrefixPositions

\* The first i of a list of sequences, one after the other, as FlattenSeq makes them.
IsFlattening(seqs, f) ==
  f = [i \in 1..Len(seqs) |-> IF i = 1 THEN seqs[i] ELSE f[i-1] \o seqs[i]]

\* Sequences can be put one after the other.
LEMMA FlatteningExists ==
  ASSUME NEW S, NEW seqs \in Seq(Seq(S))
  PROVE  \E f : IsFlattening(seqs, f)
<1> DEFINE has(k) == \E f : f = [i \in 1..k |-> IF i = 1 THEN seqs[i] ELSE f[i-1] \o seqs[i]]
           K == {k \in Nat : k <= Len(seqs) => has(k)}
<1>1. 0 \in K
  <2>1. PICK f : f = [i \in 1..0 |-> << >>]
    OBVIOUS
  <2>2. f = [i \in 1..0 |-> IF i = 1 THEN seqs[i] ELSE f[i-1] \o seqs[i]]
    BY <2>1
  <2> QED
    BY <2>2
<1>2. ASSUME NEW k \in K PROVE k + 1 \in K
  <2>1. SUFFICES ASSUME k + 1 <= Len(seqs) PROVE has(k + 1)
    <3> HIDE DEF has
    <3> QED
      OBVIOUS
  <2>2. k \in Nat /\ k <= Len(seqs) /\ Len(seqs) \in Nat
    BY <2>1
  <2>3. PICK f : f = [i \in 1..k |-> IF i = 1 THEN seqs[i] ELSE f[i-1] \o seqs[i]]
    BY <2>2
  <2>4. DOMAIN f = 1..k /\ \A i \in 1..k : f[i] = IF i = 1 THEN seqs[i] ELSE f[i-1] \o seqs[i]
    BY <2>3
  <2>5. PICK j \in Nat : j = k + 1
    BY <2>2
  <2>6. PICK v : v = IF j = 1 THEN seqs[j] ELSE f[j-1] \o seqs[j]
    OBVIOUS
  <2>7. PICK g : g = [i \in 1..j |-> IF i = j THEN v ELSE f[i]]
    OBVIOUS
  <2>8. g[j] = v /\ \A i \in 1..k : g[i] = f[i]
    BY <2>2, <2>5, <2>7
  <2>9. ASSUME NEW i \in 1..j PROVE g[i] = IF i = 1 THEN seqs[i] ELSE g[i-1] \o seqs[i]
    <3>1. CASE i = j
      <4>1. j # 1 => j - 1 \in 1..k
        BY <2>2, <2>5
      <4> QED
        BY <2>6, <2>8, <3>1, <4>1
    <3>2. CASE i # j
      <4>1. i \in 1..k /\ (i # 1 => i - 1 \in 1..k)
        BY <2>2, <2>5, <3>2
      <4> QED
        BY <2>4, <2>8, <4>1
    <3> QED
      BY <3>1, <3>2
  <2>10. g = [i \in 1..j |-> g[i]]
    BY <2>7
  <2>11. g = [i \in 1..j |-> IF i = 1 THEN seqs[i] ELSE g[i-1] \o seqs[i]]
    BY <2>9, <2>10
  <2> QED
    BY <2>5, <2>11
<1>3. K = Nat
  <2>1. K \in SUBSET Nat
    OBVIOUS
  <2> HIDE DEF K
  <2> QED
    BY <1>1, <1>2, <2>1, SetInduction
<1>4. has(Len(seqs))
  <2>1. Len(seqs) \in Nat /\ Len(seqs) <= Len(seqs)
    OBVIOUS
  <2> HIDE DEF has
  <2> QED
    BY <1>3, <2>1
<1> QED
  BY <1>4 DEF IsFlattening

\* A flattening is made of sequences, and there is one only.
LEMMA FlatteningRows ==
  ASSUME NEW S, NEW seqs \in Seq(Seq(S)), NEW s \in Seq(S),
         NEW f, IsFlattening(seqs, f), NEW g, IsFlattening(Append(seqs, s), g)
  PROVE  \A i \in 1..Len(seqs) : f[i] \in Seq(S) /\ g[i] = f[i]
<1> DEFINE good(i) == f[i] \in Seq(S) /\ g[i] = f[i]
           K == {k \in Nat : k + 1 <= Len(seqs) => good(k + 1)}
<1>0. PICK more : more = Append(seqs, s)
  OBVIOUS
<1>1. /\ Len(seqs) \in Nat /\ Len(more) = Len(seqs) + 1
      /\ \A i \in 1..Len(seqs) : more[i] = seqs[i] /\ seqs[i] \in Seq(S)
  BY <1>0, AppendPositions
<1>2. \A i \in 1..Len(seqs) : f[i] = IF i = 1 THEN seqs[i] ELSE f[i-1] \o seqs[i]
  BY DEF IsFlattening
<1>3. \A i \in 1..Len(seqs) : g[i] = IF i = 1 THEN seqs[i] ELSE g[i-1] \o seqs[i]
  <2>1. \A i \in 1..Len(more) : g[i] = IF i = 1 THEN more[i] ELSE g[i-1] \o more[i]
    BY <1>0 DEF IsFlattening
  <2>2. 1..Len(seqs) \subseteq 1..Len(more)
    BY <1>1
  <2> QED
    BY <1>1, <2>1, <2>2
<1>4. 0 \in K
  <2>1. ASSUME 1 <= Len(seqs) PROVE good(1)
    <3>1. 1 \in 1..Len(seqs)
      BY <1>1, <2>1
    <3> QED
      BY <1>1, <1>2, <1>3, <3>1
  <2> HIDE DEF good
  <2> QED
    BY <2>1
<1>5. ASSUME NEW k \in K PROVE k + 1 \in K
  <2>1. SUFFICES ASSUME (k + 1) + 1 <= Len(seqs) PROVE good((k + 1) + 1)
    <3> HIDE DEF good
    <3> QED
      OBVIOUS
  <2>2. PICK j \in Nat : j = k + 1
    OBVIOUS
  <2>3. j + 1 \in 1..Len(seqs) /\ j \in 1..Len(seqs) /\ j + 1 # 1 /\ (j + 1) - 1 = j
    BY <1>1, <2>1, <2>2
  <2>4. good(j)
    <3> HIDE DEF good
    <3> QED
      BY <1>1, <2>1, <2>2
  <2>5. f[j + 1] = f[j] \o seqs[j + 1] /\ g[j + 1] = g[j] \o seqs[j + 1]
    BY <1>2, <1>3, <2>3
  <2>6. f[j] \o seqs[j + 1] \in Seq(S)
    BY <1>1, <2>3, <2>4, ConcatPositions
  <2> QED
    BY <2>2, <2>4, <2>5, <2>6
<1>6. K = Nat
  <2>1. K \in SUBSET Nat
    OBVIOUS
  <2> HIDE DEF K
  <2> QED
    BY <1>4, <1>5, <2>1, SetInduction
<1>7. ASSUME NEW i \in 1..Len(seqs) PROVE good(i)
  <2>1. PICK k \in Nat : k + 1 = i
    <3>1. i - 1 \in Nat /\ (i - 1) + 1 = i
      BY <1>1
    <3> QED
      BY <3>1
  <2>2. k + 1 <= Len(seqs)
    BY <1>1, <2>1
  <2>3. k \in K
    <3> HIDE DEF K
    <3> QED
      BY <1>6
  <2> HIDE DEF good
  <2> QED
    BY <2>1, <2>2, <2>3
<1> QED
  BY <1>7

\* FlattenSeq of a list, and of the list with one sequence more.
LEMMA FlattenAppend ==
  ASSUME NEW S, NEW seqs \in Seq(Seq(S)), NEW s \in Seq(S)
  PROVE  /\ FlattenSeq(seqs) \in Seq(S)
         /\ FlattenSeq(Append(seqs, s)) = FlattenSeq(seqs) \o s
         /\ FlattenSeq(<< >>) = << >>
<1>1. PICK more : more = Append(seqs, s)
  OBVIOUS
<1>2. /\ more \in Seq(Seq(S)) /\ Len(more) = Len(seqs) + 1 /\ more[Len(seqs) + 1] = s
      /\ \A i \in 1..Len(seqs) : more[i] = seqs[i]
      /\ Len(seqs) \in Nat
  BY <1>1, AppendPositions
<1> DEFINE table(q) == CHOOSE f : IsFlattening(q, f)
<1>3. IsFlattening(seqs, table(seqs)) /\ IsFlattening(more, table(more))
  BY <1>2, FlatteningExists
<1>4. /\ FlattenSeq(seqs) = IF Len(seqs) = 0 THEN seqs ELSE table(seqs)[Len(seqs)]
      /\ FlattenSeq(more) = IF Len(more) = 0 THEN more ELSE table(more)[Len(more)]
  BY DEF FlattenSeq, IsFlattening
<1> HIDE DEF table
<1>5. \A i \in 1..Len(seqs) : table(seqs)[i] \in Seq(S) /\ table(more)[i] = table(seqs)[i]
  <2>1. PICK f, g : f = table(seqs) /\ g = table(more)
    OBVIOUS
  <2>2. IsFlattening(seqs, f) /\ IsFlattening(Append(seqs, s), g)
    BY <1>1, <1>3, <2>1
  <2>3. \A i \in 1..Len(seqs) : f[i] \in Seq(S) /\ g[i] = f[i]
    BY <2>2, FlatteningRows
  <2> QED
    BY <2>1, <2>3
<1>6. FlattenSeq(<< >>) = << >>
  BY DEF FlattenSeq
<1>7. \A i \in 1..Len(more) : table(more)[i] = IF i = 1 THEN more[i] ELSE table(more)[i-1] \o more[i]
  BY <1>3 DEF IsFlattening
<1>8. CASE Len(seqs) = 0
  <2>1. seqs = << >> /\ FlattenSeq(seqs) = << >> /\ << >> \in Seq(S)
    BY <1>4, <1>8
  <2>2. FlattenSeq(more) = s
    BY <1>2, <1>4, <1>7, <1>8
  <2>3. << >> \o s = s
    BY ConcatEmpty
  <2> QED
    BY <1>1, <1>6, <2>1, <2>2, <2>3
<1>9. CASE Len(seqs) # 0
  <2>1. Len(seqs) \in 1..Len(seqs) /\ Len(more) # 0 /\ Len(more) # 1 /\ Len(more) \in 1..Len(more)
        /\ Len(more) - 1 = Len(seqs)
    BY <1>2, <1>9
  <2>2. FlattenSeq(seqs) = table(seqs)[Len(seqs)] /\ FlattenSeq(more) = table(more)[Len(more)]
    BY <1>4, <2>1, <1>9
  <2>3. table(more)[Len(more)] = table(more)[Len(seqs)] \o more[Len(more)]
    BY <1>7, <2>1
  <2>4. more[Len(more)] = s
    BY <1>2
  <2> QED
    BY <1>1, <1>5, <1>6, <2>1, <2>2, <2>3, <2>4
<1> QED
  BY <1>8, <1>9

-----------------------------------------------------------------------------
(* Paths from the root of a forest, as a recursive function computes them *)

\* The table f of the paths to 0..L, when up gives parents and 0 is no node.
IsPathTable(up, L, f) ==
  f = [n \in 0..L |-> IF n = 0 THEN << >> ELSE Append(f[up[n]], n)]

\* The rows of a table, whatever its values.
LEMMA PathRows ==
  ASSUME NEW up, NEW L \in Nat, NEW f, IsPathTable(up, L, f)
  PROVE  /\ DOMAIN f = 0..L /\ f[0] = << >>
         /\ \A n \in 1..L : f[n] = Append(f[up[n]], n)
<1>1. f = [n \in 0..L |-> IF n = 0 THEN << >> ELSE Append(f[up[n]], n)]
  BY DEF IsPathTable
<1>2. ASSUME NEW n \in 0..L PROVE f[n] = IF n = 0 THEN << >> ELSE Append(f[up[n]], n)
  BY <1>1
<1>3. DOMAIN f = 0..L
  BY <1>1
<1>4. 0 \in 0..L /\ \A n \in 1..L : n \in 0..L /\ n # 0
  OBVIOUS
<1> QED
  BY <1>2, <1>3, <1>4

\* Parents come first, so there is a table.
LEMMA PathTableExists ==
  ASSUME NEW up, NEW L \in Nat, \A n \in 1..L : up[n] \in 0..(n - 1)
  PROVE  \E f : IsPathTable(up, L, f)
<1> DEFINE has(k) == \E f : IsPathTable(up, k, f)
           K == {k \in Nat : k <= L => has(k)}
<1>1. 0 \in K
  <2>1. PICK f : f = [n \in 0..0 |-> << >>]
    OBVIOUS
  <2>2. f = [n \in 0..0 |-> IF n = 0 THEN << >> ELSE Append(f[up[n]], n)]
    BY <2>1
  <2> QED
    BY <2>2 DEF IsPathTable
<1>2. ASSUME NEW k \in K PROVE k + 1 \in K
  <2>1. SUFFICES ASSUME k + 1 <= L PROVE has(k + 1)
    <3> HIDE DEF has
    <3> QED
      OBVIOUS
  <2>2. k \in Nat /\ k <= L
    BY <2>1
  <2>3. PICK f : IsPathTable(up, k, f)
    BY <2>2
  <2>4. DOMAIN f = 0..k /\ f[0] = << >> /\ \A n \in 1..k : f[n] = Append(f[up[n]], n)
    BY <2>2, <2>3, PathRows
  <2>5. PICK j \in Nat : j = k + 1
    BY <2>2
  <2>6. \A n \in 1..j : up[n] \in 0..(n - 1)
    BY <2>1, <2>2, <2>5
  <2>7. up[j] \in 0..k /\ \A n \in 1..k : up[n] \in 0..k
    BY <2>2, <2>5, <2>6
  <2>8. PICK v : v = Append(f[up[j]], j)
    OBVIOUS
  <2>9. PICK g : g = [n \in 0..j |-> IF n = j THEN v ELSE f[n]]
    OBVIOUS
  <2>10. j # 0 /\ \A n \in 0..j : n = j \/ n = 0 \/ n \in 1..k
    BY <2>2, <2>5
  <2>11. DOMAIN g = 0..j /\ g[j] = v /\ \A n \in 0..k : g[n] = f[n]
    BY <2>2, <2>5, <2>9
  <2>12. 0 \in 0..k /\ \A n \in 1..k : n \in 0..k
    BY <2>2
  <2>13. ASSUME NEW n \in 0..j PROVE g[n] = IF n = 0 THEN << >> ELSE Append(g[up[n]], n)
    <3>1. CASE n = j
      BY <2>7, <2>8, <2>10, <2>11, <3>1
    <3>2. CASE n = 0
      BY <2>4, <2>11, <2>12, <3>2
    <3>3. CASE n \in 1..k
      <4>1. n # 0
        BY <3>3
      <4> QED
        BY <2>4, <2>7, <2>11, <2>12, <3>3, <4>1
    <3> QED
      BY <2>10, <3>1, <3>2, <3>3
  <2>14. g = [n \in 0..j |-> g[n]]
    BY <2>9
  <2>15. g = [n \in 0..j |-> IF n = 0 THEN << >> ELSE Append(g[up[n]], n)]
    BY <2>13, <2>14
  <2> QED
    BY <2>5, <2>15 DEF IsPathTable
<1>3. K = Nat
  <2>1. K \in SUBSET Nat
    OBVIOUS
  <2> HIDE DEF K
  <2> QED
    BY <1>1, <1>2, <2>1, SetInduction
<1>4. has(L)
  <2>1. L <= L
    OBVIOUS
  <2> HIDE DEF has
  <2> QED
    BY <1>3, <2>1
<1> QED
  BY <1>4

\* A path ends at its node, and a set that has the parents of its nodes has their
\* paths.
LEMMA PathTable ==
  ASSUME NEW up, NEW L \in Nat, \A n \in 1..L : up[n] \in 0..(n - 1),
         NEW f, IsPathTable(up, L, f), NEW T \in SUBSET (1..L),
         \A n \in T : up[n] \in {0} \cup T
  PROVE  \A n \in T : f[n] \in Seq(T)
<1> DEFINE bad == {n \in T : f[n] \notin Seq(T)}
<1>1. DOMAIN f = 0..L /\ f[0] = << >> /\ \A n \in 1..L : f[n] = Append(f[up[n]], n)
  BY PathRows
<1>2. SUFFICES ASSUME bad # {} PROVE FALSE
  OBVIOUS
<1>3. bad \in SUBSET Nat
  <2>1. \A n \in T : n \in Nat
    OBVIOUS
  <2> QED
    BY <2>1
<1>4. PICK n \in bad : \A k \in bad : n <= k
  BY <1>2, <1>3, LeastNumber
<1>5. n \in T /\ n \in 1..L /\ f[n] \notin Seq(T)
  BY <1>4
<1>6. up[n] \in Nat /\ up[n] < n
  BY <1>5
<1>7. up[n] \notin bad
  BY <1>3, <1>4, <1>5, <1>6
<1>8. f[up[n]] \in Seq(T)
  BY <1>1, <1>5, <1>7
<1>9. PICK s \in Seq(T) : s = f[up[n]]
  BY <1>8
<1>10. Append(s, n) \in Seq(T)
  BY <1>5
<1> QED
  BY <1>1, <1>5, <1>9, <1>10

\* A path has no node twice.
LEMMA PathOnce ==
  ASSUME NEW up, NEW L \in Nat, \A n \in 1..L : up[n] \in 0..(n - 1),
         NEW f, IsPathTable(up, L, f)
  PROVE  \A n \in 0..L : f[n] \in Seq(1..L) /\ IsInjective(f[n])
<1> DEFINE bad == {n \in 0..L : ~IsInjective(f[n])}
<1>1. DOMAIN f = 0..L /\ f[0] = << >> /\ \A n \in 1..L : f[n] = Append(f[up[n]], n)
  BY PathRows
<1>2. ASSUME NEW n \in 0..L PROVE f[n] \in Seq(1..n)
  <2>1. CASE n = 0
    <3>1. f[n] = << >>
      BY <1>1, <2>1
    <3>2. << >> \in Seq(1..n)
      OBVIOUS
    <3> QED
      BY <3>1, <3>2
  <2>2. CASE n # 0
    <3>1. PICK T : T = 1..n
      OBVIOUS
    <3>2. T \in SUBSET (1..L) /\ n \in T
      BY <2>2, <3>1
    <3>3. \A k \in T : up[k] \in {0} \cup T
      <4>1. ASSUME NEW k \in T PROVE up[k] \in {0} \cup T
        <5>1. k \in 1..L /\ up[k] \in 0..(k - 1) /\ k <= n
          BY <3>1, <3>2
        <5> QED
          BY <3>1, <5>1
      <4> QED
        BY <4>1
    <3>4. f[n] \in Seq(T)
      BY <3>2, <3>3, PathTable
    <3> QED
      BY <3>1, <3>4
  <2> QED
    BY <2>1, <2>2
<1>3. \A n \in 0..L : f[n] \in Seq(1..L)
  <2>1. ASSUME NEW n \in 0..L PROVE f[n] \in Seq(1..L)
    <3>1. f[n] \in Seq(1..n) /\ 1..n \subseteq 1..L
      BY <1>2
    <3> QED
      BY <3>1, SeqSubset
  <2> QED
    BY <2>1
<1>4. SUFFICES ASSUME bad # {} PROVE FALSE
  BY <1>3
<1>5. bad \in SUBSET Nat
  OBVIOUS
<1>6. PICK n \in bad : \A k \in bad : n <= k
  BY <1>4, <1>5, LeastNumber
<1>7. n \in 0..L /\ ~IsInjective(f[n])
  BY <1>6
<1>8. n # 0
  BY <1>1, <1>7 DEF IsInjective
<1>9. n \in 1..L /\ up[n] \in 0..(n - 1)
  BY <1>7, <1>8
<1>10. up[n] \in 0..L /\ up[n] \in Nat /\ up[n] < n
  BY <1>9
<1>11. up[n] \notin bad
  BY <1>5, <1>6, <1>7, <1>10
<1>12. IsInjective(f[up[n]])
  BY <1>10, <1>11
<1>13. PICK s \in Seq(1..up[n]) : s = f[up[n]]
  BY <1>2, <1>10
<1>14. n \notin ToSet(s)
  BY <1>10, ToSetMember
<1>15. s \in Seq(1..L) /\ f[n] = Append(s, n)
  BY <1>1, <1>3, <1>9, <1>10, <1>13
<1>16. IsInjective(Append(s, n))
  BY <1>9, <1>12, <1>13, <1>14, <1>15, AppendedOnce
<1> QED
  BY <1>7, <1>15, <1>16

\* More nodes do not change the paths there are.
LEMMA PathsStay ==
  ASSUME NEW up, NEW L \in Nat, \A n \in 1..L : up[n] \in 0..(n - 1),
         NEW f, IsPathTable(up, L, f),
         NEW up2, NEW M \in Nat, L <= M, \A n \in 1..L : up2[n] = up[n],
         NEW g, IsPathTable(up2, M, g)
  PROVE  \A n \in 0..L : g[n] = f[n]
<1> DEFINE bad == {n \in 0..L : g[n] # f[n]}
<1>1. DOMAIN f = 0..L /\ f[0] = << >> /\ \A n \in 1..L : f[n] = Append(f[up[n]], n)
  BY PathRows
<1>2. DOMAIN g = 0..M /\ g[0] = << >> /\ \A n \in 1..M : g[n] = Append(g[up2[n]], n)
  BY PathRows
<1>3. SUFFICES ASSUME bad # {} PROVE FALSE
  OBVIOUS
<1>4. bad \in SUBSET Nat
  OBVIOUS
<1>5. PICK n \in bad : \A k \in bad : n <= k
  BY <1>3, <1>4, LeastNumber
<1>6. n \in 0..L /\ g[n] # f[n]
  BY <1>5
<1>7. n # 0
  BY <1>1, <1>2, <1>6
<1>8. n \in 1..L /\ n \in 1..M
  BY <1>6, <1>7
<1>9. up[n] \in 0..(n - 1)
  BY <1>8
<1>10. up[n] \in 0..L /\ up[n] \in Nat /\ up[n] < n
  BY <1>8, <1>9
<1>11. up[n] \notin bad
  BY <1>4, <1>5, <1>6, <1>10
<1>12. g[up[n]] = f[up[n]]
  BY <1>10, <1>11
<1>13. f[n] = Append(f[up[n]], n) /\ g[n] = Append(g[up2[n]], n) /\ up2[n] = up[n]
  BY <1>1, <1>2, <1>8
<1> QED
  BY <1>6, <1>12, <1>13

-----------------------------------------------------------------------------
(* Orders of a set *)

\* An injective sequence has as many positions as elements.
LEMMA InjectiveLength ==
  ASSUME NEW S, IsFiniteSet(S), NEW q \in Seq(S), IsInjective(q)
  PROVE  /\ IsFiniteSet(ToSet(q)) /\ Cardinality(ToSet(q)) = Len(q)
         /\ Len(q) <= Cardinality(S)
         /\ Len(q) = Cardinality(S) <=> ToSet(q) = S
<1>1. DOMAIN q = 1..Len(q) /\ Len(q) \in Nat /\ ToSet(q) \subseteq S
  BY ToSetMember
<1>2. IsFiniteSet(1..Len(q)) /\ Cardinality(1..Len(q)) = Len(q)
  BY <1>1, FS_Interval
<1>3. IsFiniteSet(ToSet(q))
  BY <1>1, FS_Subset
<1>4. q \in Injection(1..Len(q), ToSet(q)) /\ q \in Surjection(1..Len(q), ToSet(q))
  BY <1>1 DEF Injection, Surjection, IsInjective, ToSet
<1>5. Cardinality(ToSet(q)) = Len(q)
  BY <1>2, <1>3, <1>4, FS_Injection
<1> QED
  BY <1>1, <1>3, <1>5, FS_Subset

\* Sorting a set by timestamp gives every element once.
LEMMA ByTimestampOrders ==
  ASSUME NEW m, NEW S, IsFiniteSet(S), NEW q \in byTimestamp(m, S)
  PROVE  q \in Seq(S) /\ IsInjective(q) /\ ToSet(q) = S
<1>1. Cardinality(S) \in Nat
  BY FS_CardinalityType
<1>2. q \in [1..Cardinality(S) -> S] /\ \A i, j \in 1..Cardinality(S) : i # j => q[i] # q[j]
  BY DEF byTimestamp, SetToSeqs
<1>3. q \in Seq(S) /\ Len(q) = Cardinality(S) /\ IsInjective(q)
  BY <1>1, <1>2 DEF IsInjective
<1> QED
  BY <1>3, InjectiveLength

-----------------------------------------------------------------------------
(* The loop *)

\* The node maps the proofs are about: what a store returns is finite.
FiniteMap(m) == IsFiniteSet(DOMAIN m)

\* A sort in progress: its fields have their types, the degrees count what is
\* not sorted yet, the queue is exact, and what is sorted is in order.
SortInv(m, k) ==
  LET done == ToSet(k.sorted) IN
  /\ k.map = m
  /\ k.inDegree \in [DOMAIN m -> Nat]
  /\ k.queue \in Seq(DOMAIN m)
  /\ k.sorted \in Seq(DOMAIN m)
  /\ \A n \in DOMAIN m : k.inDegree[n] = Cardinality(depsInScope(m, n) \ done)
  /\ IsInjective(k.queue)
  /\ ToSet(k.queue) = {n \in DOMAIN m \ done : depsInScope(m, n) \subseteq done}
  /\ IsInjective(k.sorted)
  /\ \A i \in DOMAIN k.sorted :
       \A d \in depsInScope(m, k.sorted[i]) : \E j \in 1..(i - 1) : k.sorted[j] = d

\* The dependencies in scope of a finite map are finitely many.
LEMMA DepsAreFinite ==
  ASSUME NEW m, FiniteMap(m), NEW n, NEW S
  PROVE  /\ IsFiniteSet(depsInScope(m, n) \ S)
         /\ Cardinality(depsInScope(m, n) \ S) \in Nat
         /\ Cardinality(depsInScope(m, n) \ S) = 0 <=> depsInScope(m, n) \subseteq S
<1>1. depsInScope(m, n) \ S \in SUBSET DOMAIN m
  BY DEF depsInScope
<1>2. IsFiniteSet(depsInScope(m, n) \ S)
  BY <1>1, FS_Subset DEF FiniteMap
<1>3. Cardinality(depsInScope(m, n) \ S) = 0 <=> depsInScope(m, n) \ S = {}
  BY <1>2, FS_EmptySet
<1> QED
  BY <1>2, <1>3, FS_CardinalityType

\* The loop begins with the invariant.
LEMMA SortInvBegin ==
  ASSUME NEW m, FiniteMap(m), NEW k \in beginSort(m)
  PROVE  SortInv(m, k) /\ k.sorted = << >>
<1> DEFINE deg == [n \in DOMAIN m |-> Cardinality(depsInScope(m, n))]
           free == {n \in DOMAIN m : deg[n] = 0}
<1>1. PICK q \in byTimestamp(m, free) :
        k = [map |-> m, inDegree |-> deg, queue |-> q, sorted |-> << >>]
  BY DEF beginSort
<1>2. IsFiniteSet(free)
  BY FS_Subset DEF FiniteMap
<1>3. q \in Seq(free) /\ IsInjective(q) /\ ToSet(q) = free
  BY <1>1, <1>2, ByTimestampOrders
<1>4. /\ k.map = m /\ k.inDegree = deg /\ k.queue = q /\ k.sorted = << >>
      /\ ToSet(k.sorted) = {} /\ DOMAIN k.sorted = {}
  BY <1>1 DEF ToSet
<1>5. ASSUME NEW n \in DOMAIN m
      PROVE  /\ deg[n] \in Nat
             /\ deg[n] = Cardinality(depsInScope(m, n) \ {})
             /\ deg[n] = 0 <=> depsInScope(m, n) \subseteq {}
  <2>1. depsInScope(m, n) \ {} = depsInScope(m, n)
    OBVIOUS
  <2> QED
    BY <2>1, DepsAreFinite
<1>6. deg \in [DOMAIN m -> Nat]
  BY <1>5
<1>7. free = {n \in DOMAIN m \ {} : depsInScope(m, n) \subseteq {}}
  BY <1>5
<1>8. q \in Seq(DOMAIN m)
  BY <1>3, SeqSubset
<1> HIDE DEF deg, free
<1>9. k.inDegree \in [DOMAIN m -> Nat] /\ k.queue \in Seq(DOMAIN m) /\ k.sorted \in Seq(DOMAIN m)
  BY <1>4, <1>6, <1>8
<1>10. \A n \in DOMAIN m : k.inDegree[n] = Cardinality(depsInScope(m, n) \ ToSet(k.sorted))
  BY <1>4, <1>5
<1>11. ToSet(k.queue) =
         {n \in DOMAIN m \ ToSet(k.sorted) : depsInScope(m, n) \subseteq ToSet(k.sorted)}
  BY <1>3, <1>4, <1>7
<1>12. IsInjective(k.queue) /\ IsInjective(k.sorted)
  BY <1>3, <1>4 DEF IsInjective
<1> QED
  BY <1>4, <1>9, <1>10, <1>11, <1>12 DEF SortInv

\* One turn of the loop keeps it.
LEMMA SortInvDequeue ==
  ASSUME NEW m, FiniteMap(m), NEW k, SortInv(m, k), k.queue # << >>, NEW l \in dequeue(k)
  PROVE  SortInv(m, l) /\ Len(l.sorted) = Len(k.sorted) + 1
<1> DEFINE id == Head(k.queue)
           kids == edgesFrom(m, id)
           deg == [n \in DOMAIN m |-> IF n \in kids THEN k.inDegree[n] - 1 ELSE k.inDegree[n]]
           freed == {n \in kids : deg[n] = 0}
           done == ToSet(k.sorted)
<1>1. PICK q \in byTimestamp(m, freed) :
        l = [map |-> m, inDegree |-> deg, queue |-> Tail(k.queue) \o q,
             sorted |-> Append(k.sorted, id)]
  <2>1. k.map = m
    BY DEF SortInv
  <2> QED
    BY <2>1 DEF dequeue
<1>2. l.map = m /\ l.inDegree = deg /\ l.queue = Tail(k.queue) \o q /\ l.sorted = Append(k.sorted, id)
  BY <1>1
<1>3. kids \subseteq DOMAIN m /\ freed \subseteq DOMAIN m
  BY DEF edgesFrom
<1>4. q \in Seq(DOMAIN m) /\ IsInjective(q) /\ ToSet(q) = freed
  <2>1. IsFiniteSet(freed)
    BY <1>3, FS_Subset DEF FiniteMap
  <2>2. q \in Seq(freed) /\ IsInjective(q) /\ ToSet(q) = freed
    BY <1>1, <2>1, ByTimestampOrders
  <2>3. q \in Seq(DOMAIN m)
    <3> HIDE DEF freed
    <3> QED
      BY <1>3, <2>2, SeqSubset
  <2> QED
    BY <2>2, <2>3
<1>5. /\ k.queue \in Seq(DOMAIN m) /\ k.sorted \in Seq(DOMAIN m) /\ IsInjective(k.queue)
      /\ IsInjective(k.sorted) /\ k.inDegree \in [DOMAIN m -> Nat]
      /\ ToSet(k.queue) = {n \in DOMAIN m \ done : depsInScope(m, n) \subseteq done}
      /\ \A n \in DOMAIN m : k.inDegree[n] = Cardinality(depsInScope(m, n) \ done)
      /\ \A i \in DOMAIN k.sorted :
           \A d \in depsInScope(m, k.sorted[i]) : \E j \in 1..(i - 1) : k.sorted[j] = d
  BY DEF SortInv
<1>6. id \in ToSet(k.queue) /\ id = k.queue[1]
  BY <1>5, TailInjective DEF id
<1>7. id \in DOMAIN m /\ id \notin done /\ depsInScope(m, id) \subseteq done
  BY <1>5, <1>6
<1>8. \A n : n \in kids <=> n \in DOMAIN m /\ id \in depsInScope(m, n)
  BY DEF edgesFrom
<1>9. ToSet(l.sorted) = done \cup {id} /\ l.sorted \in Seq(DOMAIN m)
  BY <1>2, <1>5, <1>7, AppendToSet, AppendPositions
<1> HIDE DEF id, kids, freed, done
<1>10. \A n \in DOMAIN m : /\ deg[n] \in Nat
                           /\ deg[n] = Cardinality(depsInScope(m, n) \ (done \cup {id}))
                           /\ deg[n] = 0 <=> depsInScope(m, n) \subseteq done \cup {id}
  <2> TAKE n \in DOMAIN m
  <2> DEFINE left == depsInScope(m, n) \ done
  <2>1. IsFiniteSet(left) /\ k.inDegree[n] = Cardinality(left)
    BY <1>5, DepsAreFinite
  <2>2. depsInScope(m, n) \ (done \cup {id}) = left \ {id}
    OBVIOUS
  <2>3. id \in left <=> n \in kids
    BY <1>7, <1>8
  <2>4. Cardinality(left \ {id}) = IF id \in left THEN Cardinality(left) - 1 ELSE Cardinality(left)
    BY <2>1, FS_RemoveElement
  <2>5. deg[n] = Cardinality(left \ {id})
    BY <2>1, <2>3, <2>4
  <2> HIDE DEF left, deg
  <2>6. /\ Cardinality(depsInScope(m, n) \ (done \cup {id})) \in Nat
        /\ Cardinality(depsInScope(m, n) \ (done \cup {id})) = 0
             <=> depsInScope(m, n) \subseteq done \cup {id}
    BY DepsAreFinite
  <2> QED
    BY <2>2, <2>5, <2>6
<1> DEFINE next == {n \in DOMAIN m \ (done \cup {id}) : depsInScope(m, n) \subseteq done \cup {id}}
<1>11. \A n : n \in next <=> n \in freed \/ (n \in ToSet(k.queue) /\ n # id)
  <2>1. \A n : n \in freed <=> n \in kids /\ depsInScope(m, n) \subseteq done \cup {id}
    BY <1>3, <1>10 DEF freed
  <2>2. \A n \in kids : n \in DOMAIN m \ (done \cup {id})
    <3> TAKE n \in kids
    <3>1. n \in DOMAIN m /\ id \in depsInScope(m, n)
      BY <1>8
    <3>2. n # id
      BY <1>7, <3>1
    <3>3. n \notin done
      <4> SUFFICES ASSUME n \in done PROVE FALSE
        OBVIOUS
      <4>1. PICK i \in DOMAIN k.sorted : k.sorted[i] = n
        BY DEF done, ToSet
      <4>2. PICK j \in 1..(i - 1) : k.sorted[j] = id
        BY <1>5, <3>1, <4>1
      <4>3. j \in DOMAIN k.sorted
        BY <1>5, <4>1, <4>2
      <4> QED
        BY <1>7, <4>2, <4>3 DEF done, ToSet
    <3> QED
      BY <3>1, <3>2, <3>3
  <2>3. \A n \in DOMAIN m : n \notin kids /\ depsInScope(m, n) \subseteq done \cup {id}
                              => depsInScope(m, n) \subseteq done
    BY <1>8
  <2> QED
    BY <1>5, <1>8, <2>1, <2>2, <2>3
<1>12. \A n : ~(n \in freed /\ n \in ToSet(k.queue))
  BY <1>5, <1>7, <1>8 DEF freed
<1> DEFINE rest == Tail(k.queue)
<1>13. /\ rest \in Seq(DOMAIN m) /\ IsInjective(rest)
       /\ \A x : x \in ToSet(rest) <=> x \in ToSet(k.queue) /\ x # id
  BY <1>5, TailInjective DEF id
<1> HIDE DEF rest
<1>14. l.queue = rest \o q
  BY <1>2 DEF rest
<1>15. /\ l.queue \in Seq(DOMAIN m) /\ IsInjective(l.queue)
       /\ \A x : x \in ToSet(l.queue) <=> x \in ToSet(rest) \/ x \in freed
  <2>1. \A x : ~(x \in ToSet(rest) /\ x \in ToSet(q))
    BY <1>4, <1>12, <1>13
  <2> QED
    BY <1>4, <1>13, <1>14, <2>1, ConcatInjective
<1>16. ToSet(l.queue) = {n \in DOMAIN m \ ToSet(l.sorted) : depsInScope(m, n) \subseteq ToSet(l.sorted)}
  <2>1. \A x : x \in ToSet(l.queue) <=> x \in next
    BY <1>11, <1>13, <1>15
  <2>2. ToSet(l.queue) = next
    BY <2>1 DEF ToSet
  <2> QED
    BY <1>9, <2>2
<1> HIDE DEF deg
<1>17. deg \in [DOMAIN m -> Nat]
  BY <1>10 DEF deg
<1>18. \A n \in DOMAIN m : l.inDegree[n] = Cardinality(depsInScope(m, n) \ ToSet(l.sorted))
  BY <1>2, <1>9, <1>10
<1> DEFINE L == Len(k.sorted)
<1>19. /\ L \in Nat /\ DOMAIN k.sorted = 1..L /\ Len(l.sorted) = L + 1
       /\ DOMAIN l.sorted = 1..(L + 1) /\ l.sorted[L + 1] = id
       /\ \A i \in 1..L : l.sorted[i] = k.sorted[i] /\ l.sorted[i] \in done
  BY <1>2, <1>5, <1>7, AppendPositions DEF ToSet, done
<1> HIDE DEF L
<1>20. IsInjective(l.sorted)
  <2>1. k.sorted \in Seq(DOMAIN m) /\ IsInjective(k.sorted) /\ id \in DOMAIN m /\ id \notin ToSet(k.sorted)
    BY <1>5, <1>7 DEF done
  <2>2. IsInjective(Append(k.sorted, id))
    BY <2>1, AppendedOnce
  <2> QED
    BY <1>2, <2>2
<1>21. ASSUME NEW i \in DOMAIN l.sorted, NEW d \in depsInScope(m, l.sorted[i])
       PROVE  \E j \in 1..(i - 1) : l.sorted[j] = d
  <2>1. CASE i = L + 1
    <3>1. d \in done
      BY <1>7, <1>19, <2>1
    <3>2. PICK j \in 1..L : k.sorted[j] = d
      BY <1>19, <3>1 DEF done, ToSet
    <3> QED
      BY <1>19, <2>1, <3>2
  <2>2. CASE i # L + 1
    <3>1. i \in 1..L /\ l.sorted[i] = k.sorted[i]
      BY <1>19, <2>2
    <3>2. PICK j \in 1..(i - 1) : k.sorted[j] = d
      BY <1>5, <1>19, <3>1
    <3> QED
      BY <1>19, <3>1, <3>2
  <2> QED
    BY <2>1, <2>2
<1> QED
  BY <1>2, <1>9, <1>15, <1>16, <1>17, <1>18, <1>19, <1>20, <1>21 DEF SortInv, L

-----------------------------------------------------------------------------
(* The end of the loop *)

\* A set of nodes each of which depends on a node of the set is never sorted.
LEMMA CycleIsNotSorted ==
  ASSUME NEW m, NEW k, SortInv(m, k), NEW S \in SUBSET DOMAIN m,
         \A n \in S : depsInScope(m, n) \cap S # {}
  PROVE  S \cap ToSet(k.sorted) = {}
<1> SUFFICES ASSUME S \cap ToSet(k.sorted) # {} PROVE FALSE
  OBVIOUS
<1> DEFINE at == {i \in DOMAIN k.sorted : k.sorted[i] \in S}
<1>1. k.sorted \in Seq(DOMAIN m) /\ DOMAIN k.sorted = 1..Len(k.sorted) /\ Len(k.sorted) \in Nat
  BY DEF SortInv
<1>2. at # {} /\ at \in SUBSET Nat
  BY <1>1 DEF ToSet
<1>3. PICK i \in at : \A j \in at : i <= j
  BY <1>2, LeastNumber
<1>4. PICK d : d \in depsInScope(m, k.sorted[i]) /\ d \in S
  BY <1>3
<1>5. PICK j \in 1..(i - 1) : k.sorted[j] = d
  BY <1>3, <1>4 DEF SortInv
<1>6. j \in at /\ j < i /\ i \in Nat
  BY <1>1, <1>3, <1>4, <1>5
<1> QED
  BY <1>1, <1>3, <1>6

\* When the queue is empty, what is left over is a cycle.
LEMMA LeftOverIsCycle ==
  ASSUME NEW m, NEW k, SortInv(m, k), k.queue = << >>,
         NEW n \in DOMAIN m \ ToSet(k.sorted)
  PROVE  depsInScope(m, n) \cap (DOMAIN m \ ToSet(k.sorted)) # {}
<1>1. ToSet(k.queue) = {}
  BY DEF ToSet
<1>2. ~(depsInScope(m, n) \subseteq ToSet(k.sorted))
  BY <1>1 DEF SortInv
<1> QED
  BY <1>2 DEF depsInScope

\* The nodes are all sorted exactly when no cycle is reported.
LEMMA SortedAll ==
  ASSUME NEW m, FiniteMap(m), NEW k, SortInv(m, k)
  PROVE  /\ Len(k.sorted) \in Nat /\ Len(k.sorted) <= Cardinality(DOMAIN m)
         /\ ~cycleDetected(k) <=> ToSet(k.sorted) = DOMAIN m
<1>1. k.sorted \in Seq(DOMAIN m) /\ IsInjective(k.sorted) /\ k.map = m
  BY DEF SortInv
<1>2. /\ Len(k.sorted) <= Cardinality(DOMAIN m)
      /\ Len(k.sorted) = Cardinality(DOMAIN m) <=> ToSet(k.sorted) = DOMAIN m
  BY <1>1, InjectiveLength DEF FiniteMap
<1>3. Len(k.sorted) \in Nat
  BY <1>1
<1> QED
  BY <1>1, <1>2, <1>3 DEF cycleDetected

-----------------------------------------------------------------------------
(* The whole of topoSortNodes *)

\* The sorts in progress of a map, as a set.
SortStates(m) ==
  {k \in [map : {m}, inDegree : [DOMAIN m -> Nat], queue : Seq(DOMAIN m),
          sorted : Seq(DOMAIN m)] : SortInv(m, k)}

\* A turn of the loop for every sort that is not finished.
oneTurn(R) == UNION {IF k.queue = << >> THEN {k} ELSE dequeue(k) : k \in R}

\* The loop stays among these states.
LEMMA SortStatesClosed ==
  ASSUME NEW m, FiniteMap(m)
  PROVE  /\ beginSort(m) \subseteq SortStates(m)
         /\ \A R \in SUBSET SortStates(m) : oneTurn(R) \subseteq SortStates(m)
<1>1. ASSUME NEW k \in beginSort(m) PROVE k \in SortStates(m)
  <2>1. SortInv(m, k)
    BY SortInvBegin
  <2>2. PICK a, d, q, t : k = [map |-> a, inDegree |-> d, queue |-> q, sorted |-> t]
    BY DEF beginSort
  <2> QED
    BY <2>1, <2>2 DEF SortStates, SortInv
<1>2. ASSUME NEW k \in SortStates(m), k.queue # << >>, NEW l \in dequeue(k)
      PROVE  l \in SortStates(m)
  <2>1. SortInv(m, l)
    BY <1>2, SortInvDequeue DEF SortStates
  <2>2. PICK a, d, q, t : l = [map |-> a, inDegree |-> d, queue |-> q, sorted |-> t]
    BY DEF dequeue
  <2> QED
    BY <2>1, <2>2 DEF SortStates, SortInv
<1>3. ASSUME NEW R \in SUBSET SortStates(m), NEW l \in oneTurn(R)
      PROVE  l \in SortStates(m)
  <2>1. PICK k \in R : l \in IF k.queue = << >> THEN {k} ELSE dequeue(k)
    BY DEF oneTurn
  <2> QED
    BY <1>2, <2>1
<1> QED
  BY <1>1, <1>3

\* The loop runs turn after turn, and stays in any set of sorts that has the first
\* and is closed under turns.
LEMMA TopoSortTurns ==
  ASSUME NEW m, NEW K, beginSort(m) \subseteq K, \A R \in SUBSET K : oneTurn(R) \subseteq K
  PROVE  \E runs :
           /\ runs[0] = beginSort(m) /\ \A i \in Nat : runs[i + 1] = oneTurn(runs[i])
           /\ \A i \in Nat : runs[i] \subseteq K
           /\ topoSortNodes(m) = runs[Cardinality(DOMAIN m)]
<1> DEFINE rec(r) == [i \in Nat |-> IF i = 0 THEN beginSort(m)
                                    ELSE UNION {IF x.queue = << >> THEN {x} ELSE dequeue(x) : x \in r[i-1]}]
           runs == CHOOSE r : r = rec(r)
<1>1. \E r : r = rec(r)
  <2>1. PICK T : T = SUBSET K
    OBVIOUS
  <2>2. PICK F : F = [R \in T |-> oneTurn(R)]
    OBVIOUS
  <2>3. F \in [T -> T] /\ beginSort(m) \in T
    BY <2>1, <2>2
  <2>4. PICK f \in [Nat -> T] :
          f[0] = beginSort(m) /\ \A n \in Nat : n > 0 => f[n] = F[f[n - 1]]
    <3>1. PICK a \in T : a = beginSort(m)
      BY <2>3
    <3>2. \E f \in [Nat -> T] : f[0] = a /\ \A n \in Nat : n > 0 => f[n] = F[f[n - 1]]
      BY <2>3, IterationExists
    <3> QED
      BY <3>1, <3>2
  <2>5. ASSUME NEW n \in Nat, n # 0 PROVE f[n] = oneTurn(f[n - 1])
    <3>1. n - 1 \in Nat /\ n > 0
      BY <2>5
    <3>2. f[n - 1] \in T
      BY <3>1
    <3> QED
      BY <2>2, <2>4, <3>1, <3>2
  <2>6. f = [n \in Nat |-> IF n = 0 THEN beginSort(m) ELSE oneTurn(f[n - 1])]
    BY <2>4, <2>5
  <2> QED
    BY <2>6 DEF oneTurn
<1>2. runs = rec(runs)
  BY <1>1
<1>3. topoSortNodes(m) = runs[Cardinality(DOMAIN m)]
  BY DEF topoSortNodes
<1> HIDE DEF runs
<1>4. runs[0] = beginSort(m) /\ \A i \in Nat : runs[i + 1] = oneTurn(runs[i])
  <2>1. \A i \in Nat : runs[i] = rec(runs)[i]
    BY <1>2
  <2>2. \A i \in Nat : i + 1 \in Nat /\ i + 1 # 0 /\ (i + 1) - 1 = i
    OBVIOUS
  <2> QED
    BY <2>1, <2>2 DEF oneTurn
<1> DEFINE S == {i \in Nat : runs[i] \subseteq K}
<1>5. 0 \in S
  BY <1>4
<1>6. ASSUME NEW i \in S PROVE i + 1 \in S
  BY <1>4
<1> HIDE DEF S
<1>7. S = Nat
  <2>1. S \in SUBSET Nat
    BY DEF S
  <2> QED
    BY <1>5, <1>6, <2>1, SetInduction
<1>8. \A i \in Nat : runs[i] \subseteq K
  BY <1>7 DEF S
<1> QED
  BY <1>3, <1>4, <1>8

\* The loop ends within as many turns as there are nodes, with its invariant.
LEMMA TopoSortNodesEnds ==
  ASSUME NEW m, FiniteMap(m), NEW k \in topoSortNodes(m)
  PROVE  SortInv(m, k) /\ k.queue = << >>
<1> DEFINE N == Cardinality(DOMAIN m)
           K == SortStates(m)
<1>1. beginSort(m) \subseteq K /\ \A R \in SUBSET K : oneTurn(R) \subseteq K
  BY SortStatesClosed
<1>2. PICK runs :
        /\ runs[0] = beginSort(m) /\ \A i \in Nat : runs[i + 1] = oneTurn(runs[i])
        /\ \A i \in Nat : runs[i] \subseteq K
        /\ topoSortNodes(m) = runs[N]
  <2> HIDE DEF K
  <2> QED
    BY <1>1, TopoSortTurns
<1> DEFINE S == {i \in Nat : \A x \in runs[i] : x.queue = << >> \/ Len(x.sorted) = i}
<1>5. 0 \in S
  <2>1. \A x \in beginSort(m) : x.sorted = << >>
    BY SortInvBegin
  <2> QED
    BY <1>2, <2>1
<1>6. ASSUME NEW i \in S PROVE i + 1 \in S
  <2>1. i \in Nat /\ runs[i] \subseteq K /\ \A x \in runs[i] : x.queue = << >> \/ Len(x.sorted) = i
    BY <1>2
  <2>3. ASSUME NEW y \in oneTurn(runs[i]) PROVE y.queue = << >> \/ Len(y.sorted) = i + 1
    <3>1. PICK x \in runs[i] : y \in IF x.queue = << >> THEN {x} ELSE dequeue(x)
      BY DEF oneTurn
    <3>2. SortInv(m, x) /\ (x.queue = << >> \/ Len(x.sorted) = i)
      BY <2>1 DEF SortStates
    <3>3. CASE x.queue = << >>
      BY <3>1, <3>3
    <3>4. CASE x.queue # << >>
      BY <3>1, <3>2, <3>4, SortInvDequeue
    <3> QED
      BY <3>3, <3>4
  <2>4. runs[i + 1] = oneTurn(runs[i]) /\ i + 1 \in Nat
    BY <1>2, <2>1
  <2> QED
    BY <2>3, <2>4
<1> HIDE DEF S
<1>7. S = Nat
  <2>1. S \in SUBSET Nat
    BY DEF S
  <2> QED
    BY <1>5, <1>6, <2>1, SetInduction
<1>8. N \in Nat
  BY FS_CardinalityType DEF FiniteMap
<1>9. SortInv(m, k) /\ (k.queue = << >> \/ Len(k.sorted) = N)
  BY <1>2, <1>7, <1>8 DEF S, SortStates
<1>10. ASSUME Len(k.sorted) = N PROVE k.queue = << >>
  <2>1. k.map = m /\ k.queue \in Seq(DOMAIN m)
    BY <1>9 DEF SortInv
  <2>2. ToSet(k.sorted) = DOMAIN m
    BY <1>9, <1>10, <2>1, SortedAll DEF cycleDetected
  <2>3. ToSet(k.queue) = {}
    BY <1>9, <2>2 DEF SortInv
  <2> QED
    BY <2>1, <2>3, ToSetMember
<1> QED
  BY <1>9, <1>10

\* s lists the nodes of the map after what they depend on.
Witnesses(s, m) ==
  /\ DOMAIN m \subseteq ToSet(s)
  /\ \A i \in DOMAIN s : s[i] \in DOMAIN m => depsInScope(m, s[i]) \subseteq {s[j] : j \in 1..(i - 1)}

AllSorted(q, m) ==
  /\ q \in Seq(DOMAIN m) /\ IsInjective(q) /\ ToSet(q) = DOMAIN m
  /\ \A i \in DOMAIN q : \A d \in depsInScope(m, q[i]) : \E j \in 1..(i - 1) : q[j] = d

\* Where there is such a list, the sort makes one.
LEMMA SortSucceeds ==
  ASSUME NEW m, FiniteMap(m), NEW k \in topoSortNodes(m), NEW S, NEW s \in Seq(S), Witnesses(s, m)
  PROVE  AllSorted(k.sorted, m) /\ ~cycleDetected(k)
<1>1. SortInv(m, k) /\ k.queue = << >>
  BY TopoSortNodesEnds
<1>2. ToSet(k.sorted) \subseteq DOMAIN m
  BY <1>1, ToSetMember DEF SortInv
<1> DEFINE left == DOMAIN m \ ToSet(k.sorted)
           at == {i \in DOMAIN s : s[i] \in left}
<1>3. left = {}
  <2> SUFFICES ASSUME left # {} PROVE FALSE
    OBVIOUS
  <2>1. DOMAIN s = 1..Len(s) /\ Len(s) \in Nat
    OBVIOUS
  <2>2. at # {} /\ at \in SUBSET Nat
    BY <2>1 DEF ToSet, Witnesses
  <2>3. PICK i \in at : \A j \in at : i <= j
    BY <2>2, LeastNumber
  <2>4. PICK d : d \in depsInScope(m, s[i]) /\ d \in left
    BY <1>1, <2>3, LeftOverIsCycle
  <2>5. PICK j \in 1..(i - 1) : s[j] = d
    BY <2>3, <2>4 DEF Witnesses
  <2>6. j \in at /\ j < i /\ i \in Nat
    BY <2>1, <2>3, <2>4, <2>5
  <2> QED
    BY <2>1, <2>3, <2>6
<1>4. AllSorted(k.sorted, m)
  BY <1>1, <1>2, <1>3 DEF SortInv, AllSorted
<1> QED
  BY <1>1, <1>4, SortedAll DEF AllSorted

-----------------------------------------------------------------------------
(* A map that the sort leaves in the order of its timestamps *)

Ascending(q) == \A i, j \in DOMAIN q : i < j => q[i] < q[j]

\* A map of numbered nodes with at most one dependency each, up, that comes before
\* them and is in the map, and is no older for a newer node.
Layered(m, up) ==
  /\ FiniteMap(m) /\ DOMAIN m \subseteq Nat
  /\ \A n \in DOMAIN m :
       /\ m[n].ts = n /\ m[n].deps = {up[n]} \ {0}
       /\ up[n] \in Nat /\ up[n] < n /\ up[n] \in {0} \cup DOMAIN m
  /\ \A x, y \in DOMAIN m : x < y => up[x] <= up[y]

\* Sorting numbered nodes by their timestamps puts them in the order of their numbers.
LEMMA NumbersAscend ==
  ASSUME NEW m, NEW up, Layered(m, up), NEW S \in SUBSET DOMAIN m, NEW q \in byTimestamp(m, S)
  PROVE  q \in Seq(DOMAIN m) /\ ToSet(q) = S /\ Ascending(q)
<1>1. IsFiniteSet(S)
  BY FS_Subset DEF Layered, FiniteMap
<1>2. q \in Seq(S) /\ IsInjective(q) /\ ToSet(q) = S
  BY <1>1, ByTimestampOrders
<1>3. q \in Seq(DOMAIN m)
  BY <1>2, SeqSubset
<1>4. ASSUME NEW i \in DOMAIN q, NEW j \in DOMAIN q, i < j PROVE q[i] < q[j]
  <2>1. m[q[i]].ts <= m[q[j]].ts
    BY <1>4 DEF byTimestamp
  <2>2. q[i] \in DOMAIN m /\ q[j] \in DOMAIN m
    BY <1>3
  <2>3. q[i] \in Nat /\ q[j] \in Nat /\ q[i] <= q[j]
    BY <2>1, <2>2 DEF Layered
  <2>4. q[i] # q[j]
    <3>1. i # j
      <4>1. i \in Nat /\ j \in Nat
        BY <1>2
      <4> QED
        BY <1>4, <4>1
    <3> QED
      BY <1>2, <3>1 DEF IsInjective
  <2> QED
    BY <2>3, <2>4
<1> QED
  BY <1>2, <1>3, <1>4 DEF Ascending

\* What is sorted and what is queued ascend as one line: the nodes a turn frees
\* depend on the newest node sorted, and those in the queue on older ones.
LEMMA QueueAscends ==
  ASSUME NEW m, NEW up, Layered(m, up), NEW k, SortInv(m, k), Ascending(k.sorted \o k.queue),
         k.queue # << >>, NEW l \in dequeue(k)
  PROVE  Ascending(l.sorted \o l.queue)
<1> DEFINE id == Head(k.queue)
           kids == edgesFrom(m, id)
           line == k.sorted \o k.queue
<1>1. PICK freed \in SUBSET kids : \E q \in byTimestamp(m, freed) :
        l.queue = Tail(k.queue) \o q /\ l.sorted = Append(k.sorted, id)
  <2>1. k.map = m
    BY DEF SortInv
  <2> DEFINE deg == [n \in DOMAIN m |-> IF n \in kids THEN k.inDegree[n] - 1 ELSE k.inDegree[n]]
             S == {n \in kids : deg[n] = 0}
  <2>2. PICK q \in byTimestamp(m, S) :
          l = [map |-> m, inDegree |-> deg, queue |-> Tail(k.queue) \o q,
               sorted |-> Append(k.sorted, id)]
    BY <2>1 DEF dequeue
  <2>3. l.queue = Tail(k.queue) \o q /\ l.sorted = Append(k.sorted, id)
    BY <2>2
  <2>4. S \in SUBSET kids
    OBVIOUS
  <2> HIDE DEF S, id, kids
  <2> QED
    BY <2>3, <2>4
<1>2. PICK q \in byTimestamp(m, freed) :
        l.queue = Tail(k.queue) \o q /\ l.sorted = Append(k.sorted, id)
  BY <1>1
<1>3. freed \in SUBSET DOMAIN m
  BY DEF edgesFrom
<1>4. q \in Seq(DOMAIN m) /\ ToSet(q) = freed /\ Ascending(q)
  BY <1>2, <1>3, NumbersAscend
<1>5. /\ k.sorted \in Seq(DOMAIN m) /\ k.queue \in Seq(DOMAIN m)
      /\ ToSet(k.queue) = {n \in DOMAIN m \ ToSet(k.sorted) : depsInScope(m, n) \subseteq ToSet(k.sorted)}
  BY DEF SortInv
<1>6. /\ Tail(k.queue) \in Seq(DOMAIN m) /\ id = k.queue[1] /\ id \in DOMAIN m
      /\ Len(k.queue) \in Nat /\ Len(k.queue) >= 1
  BY <1>5, TailPositions
<1>7. l.sorted \o l.queue = line \o q
  <2>1. Append(k.sorted, id) \in Seq(DOMAIN m)
    BY <1>5, <1>6, AppendPositions
  <2>2. Append(k.sorted, id) \o (Tail(k.queue) \o q) = (Append(k.sorted, id) \o Tail(k.queue)) \o q
    <3>1. PICK s, t : s = Append(k.sorted, id) /\ t = Tail(k.queue)
      OBVIOUS
    <3>2. s \o (t \o q) = (s \o t) \o q
      <4>1. PICK D : D = DOMAIN m
        OBVIOUS
      <4>2. s \in Seq(D) /\ t \in Seq(D) /\ q \in Seq(D)
        BY <1>4, <1>6, <2>1, <3>1, <4>1
      <4> HIDE DEF id
      <4> QED
        BY ONLY <4>2, ConcatAssociative
    <3> QED
      BY <3>1, <3>2
  <2>3. Append(k.sorted, id) \o Tail(k.queue) = line
    BY <1>5, ConcatHeadMoved
  <2> QED
    BY <1>2, <2>2, <2>3
<1>8. PICK a \in Nat : a = Len(k.sorted)
  BY <1>5
<1>9. /\ line \in Seq(DOMAIN m) /\ Len(line) = a + Len(k.queue) /\ DOMAIN line = 1..Len(line)
      /\ \A i \in 1..a : line[i] = k.sorted[i]
      /\ \A i \in 1..Len(k.queue) : line[a + i] = k.queue[i]
      /\ \A i \in (a + 1)..(a + Len(k.queue)) : line[i] = k.queue[i - a]
  <2>1. PICK s, t : s = k.sorted /\ t = k.queue
    OBVIOUS
  <2>2. PICK D : D = DOMAIN m
    OBVIOUS
  <2>3. s \in Seq(D) /\ t \in Seq(D) /\ Len(s) = a /\ line = s \o t
    BY <1>5, <1>8, <2>1, <2>2
  <2>4. /\ s \o t \in Seq(D) /\ Len(s \o t) = a + Len(t) /\ DOMAIN (s \o t) = 1..(a + Len(t))
        /\ \A i \in 1..a : (s \o t)[i] = s[i]
        /\ \A i \in 1..Len(t) : (s \o t)[a + i] = t[i]
        /\ \A i \in (a + 1)..(a + Len(t)) : (s \o t)[i] = t[i - a]
    <3>1. s \in Seq(D) /\ t \in Seq(D)
      BY <2>3
    <3>2. /\ s \o t \in Seq(D) /\ Len(s \o t) = Len(s) + Len(t)
          /\ DOMAIN (s \o t) = 1..(Len(s) + Len(t))
          /\ \A i \in 1..Len(s) : (s \o t)[i] = s[i]
          /\ \A i \in 1..Len(t) : (s \o t)[Len(s) + i] = t[i]
          /\ \A i \in (Len(s) + 1)..(Len(s) + Len(t)) : (s \o t)[i] = t[i - Len(s)]
      BY ONLY <3>1, ConcatPositions
    <3>3. Len(s) = a
      BY <2>3
    <3> QED
      BY ONLY <3>2, <3>3
  <2> HIDE DEF line
  <2> QED
    BY <2>1, <2>2, <2>3, <2>4
<1> HIDE DEF line, id
<1>10. line[a + 1] = id /\ a + 1 \in 1..Len(line)
  <2>1. 1 \in 1..Len(k.queue) /\ a + 1 \in 1..Len(line)
    BY <1>6, <1>9
  <2> QED
    BY <1>6, <1>9, <2>1
<1>11. \A i, j \in 1..Len(line) : i < j => line[i] < line[j]
  BY <1>9 DEF Ascending, line
<1>12. ASSUME NEW i \in 1..Len(line), NEW b \in freed PROVE line[i] < b
  <2>1. b \in DOMAIN m /\ id \in m[b].deps
    BY DEF kids, edgesFrom, depsInScope
  <2>2. up[b] = id /\ b \in Nat /\ id < b /\ id \in Nat
    BY <2>1 DEF Layered
  <2>3. line[i] \in DOMAIN m /\ line[i] \in Nat
    BY <1>9 DEF Layered
  <2>4. CASE i <= a + 1
    <3>1. i = a + 1 \/ line[i] < id
      BY <1>10, <1>11, <2>4
    <3> QED
      BY <1>10, <2>2, <2>3, <3>1
  <2>5. CASE i > a + 1
    <3>1. i \in (a + 1)..(a + Len(k.queue)) /\ i - a \in 1..Len(k.queue)
      BY <1>6, <1>9, <2>5
    <3>2. line[i] \in ToSet(k.queue)
      <4>1. PICK j \in 1..Len(k.queue) : j = i - a
        BY <3>1
      <4>2. line[i] = k.queue[j]
        BY <1>9, <3>1, <4>1
      <4> QED
        BY <1>5, <4>1, <4>2, ToSetMember
    <3>3. depsInScope(m, line[i]) \subseteq ToSet(k.sorted)
      BY <1>5, <3>2
    <3>4. up[line[i]] < id
      <4>1. CASE up[line[i]] = 0
        <5>1. id \in Nat /\ up[id] \in Nat /\ up[id] < id
          BY <1>6 DEF Layered
        <5>2. 0 < id
          BY <5>1
        <5> QED
          BY <4>1, <5>2
      <4>2. CASE up[line[i]] # 0
        <5>1. up[line[i]] \in ToSet(k.sorted)
          BY <2>3, <3>3, <4>2 DEF Layered, depsInScope
        <5>2. PICK j \in 1..a : k.sorted[j] = up[line[i]]
          BY <1>5, <1>8, <5>1, ToSetMember
        <5>3. j \in 1..Len(line) /\ j < a + 1
          BY <1>6, <1>9
        <5> QED
          BY <1>9, <1>10, <1>11, <5>2, <5>3
      <4> QED
        BY <4>1, <4>2
    <3>5. up[line[i]] \in Nat
      BY <2>3 DEF Layered
    <3>6. ~(b < line[i])
      <4>1. b < line[i] => up[b] <= up[line[i]]
        BY <2>1, <2>3 DEF Layered
      <4> QED
        BY <2>2, <3>4, <3>5, <4>1
    <3>7. b # line[i]
      BY <2>2, <3>4, <3>5
    <3> QED
      BY <2>2, <2>3, <3>6, <3>7
  <2> QED
    BY <1>8, <2>4, <2>5
<1>13. PICK c \in Nat : c = Len(line)
  BY <1>9
<1>14. /\ DOMAIN (line \o q) = 1..(c + Len(q)) /\ Len(q) \in Nat /\ DOMAIN q = 1..Len(q)
       /\ \A i \in 1..c : (line \o q)[i] = line[i]
       /\ \A i \in (c + 1)..(c + Len(q)) : (line \o q)[i] = q[i - c]
  <2>1. line \in Seq(DOMAIN m) /\ q \in Seq(DOMAIN m) /\ DOMAIN q = 1..Len(q)
    BY <1>4, <1>9
  <2> QED
    BY <1>13, <2>1, ConcatPositions
<1>15. ASSUME NEW i \in 1..(c + Len(q)), NEW j \in 1..(c + Len(q)), i < j
       PROVE  (line \o q)[i] < (line \o q)[j]
  <2>1. CASE j <= c
    <3>1. i \in 1..c /\ j \in 1..c
      BY <1>13, <1>14, <1>15, <2>1
    <3> QED
      BY <1>11, <1>13, <1>14, <1>15, <3>1
  <2>2. CASE i <= c /\ j > c
    <3>1. i \in 1..c /\ j \in (c + 1)..(c + Len(q)) /\ j - c \in 1..Len(q)
      BY <1>13, <1>14, <2>2
    <3>2. q[j - c] \in freed
      BY <1>4, <3>1, ToSetMember
    <3> QED
      BY <1>12, <1>13, <1>14, <3>1, <3>2
  <2>3. CASE i > c
    <3>1. i \in (c + 1)..(c + Len(q)) /\ j \in (c + 1)..(c + Len(q))
          /\ i - c \in 1..Len(q) /\ j - c \in 1..Len(q) /\ i - c < j - c
      BY <1>13, <1>14, <1>15, <2>3
    <3>2. q[i - c] < q[j - c]
      BY <1>4, <1>14, <3>1 DEF Ascending
    <3> QED
      BY <1>14, <3>1, <3>2
  <2> QED
    BY <1>13, <2>1, <2>2, <2>3
<1>16. Ascending(line \o q)
  BY <1>14, <1>15 DEF Ascending
<1> QED
  BY <1>7, <1>16

\* The whole sort of such a map lists all its nodes in ascending order.
LEMMA SortAscends ==
  ASSUME NEW m, NEW up, Layered(m, up), NEW k \in topoSortNodes(m)
  PROVE  AllSorted(k.sorted, m) /\ Ascending(k.sorted)
<1>1. FiniteMap(m)
  BY DEF Layered
<1> DEFINE K == {x \in SortStates(m) : Ascending(x.sorted \o x.queue)}
<1>2. beginSort(m) \subseteq K
  <2> SUFFICES ASSUME NEW x \in beginSort(m) PROVE x \in K
    OBVIOUS
  <2>1. x \in SortStates(m)
    BY <1>1, SortStatesClosed
  <2>2. PICK S \in SUBSET DOMAIN m : x.queue \in byTimestamp(m, S)
    <3> DEFINE deg == [n \in DOMAIN m |-> Cardinality(depsInScope(m, n))]
               free == {n \in DOMAIN m : deg[n] = 0}
    <3>1. PICK q \in byTimestamp(m, free) :
            x = [map |-> m, inDegree |-> deg, queue |-> q, sorted |-> << >>]
      BY DEF beginSort
    <3>2. x.queue \in byTimestamp(m, free) /\ free \in SUBSET DOMAIN m
      BY <3>1
    <3> HIDE DEF free
    <3> QED
      BY <3>2
  <2>3. x.sorted = << >>
    BY <1>1, SortInvBegin
  <2>4. x.queue \in Seq(DOMAIN m) /\ Ascending(x.queue)
    BY <2>2, NumbersAscend
  <2>5. x.sorted \o x.queue = x.queue
    BY <2>3, <2>4, ConcatEmpty
  <2> QED
    BY <2>1, <2>4, <2>5
<1>3. ASSUME NEW R \in SUBSET K, NEW y \in oneTurn(R) PROVE y \in K
  <2>1. PICK x \in R : y \in IF x.queue = << >> THEN {x} ELSE dequeue(x)
    BY DEF oneTurn
  <2>2. R \in SUBSET SortStates(m)
    OBVIOUS
  <2>3. y \in SortStates(m)
    BY <1>1, <2>2, SortStatesClosed
  <2>4. CASE x.queue = << >>
    BY <2>1, <2>4
  <2>5. CASE x.queue # << >>
    <3>1. SortInv(m, x) /\ Ascending(x.sorted \o x.queue)
      BY DEF SortStates
    <3> QED
      BY <2>1, <2>3, <2>5, <3>1, QueueAscends
  <2> QED
    BY <2>4, <2>5
<1>4. k \in K
  <2>1. \A R \in SUBSET K : oneTurn(R) \subseteq K
    BY <1>3
  <2>2. Cardinality(DOMAIN m) \in Nat
    BY <1>1, FS_CardinalityType DEF FiniteMap
  <2> HIDE DEF K
  <2>3. PICK runs : /\ \A i \in Nat : runs[i] \subseteq K
                    /\ topoSortNodes(m) = runs[Cardinality(DOMAIN m)]
    BY <1>2, <2>1, TopoSortTurns
  <2> QED
    BY <2>2, <2>3
<1>5. SortInv(m, k) /\ k.queue = << >>
  BY <1>1, TopoSortNodesEnds
<1>6. Ascending(k.sorted)
  <2>1. k.sorted \in Seq(DOMAIN m)
    BY <1>5 DEF SortInv
  <2>2. k.sorted \o k.queue = k.sorted
    BY <1>5, <2>1, ConcatEmpty
  <2> QED
    BY <1>4, <2>2
<1>7. ToSet(k.sorted) = DOMAIN m
  <2> SUFFICES ASSUME DOMAIN m \ ToSet(k.sorted) # {} PROVE FALSE
    BY <1>5, ToSetMember DEF SortInv
  <2> DEFINE left == DOMAIN m \ ToSet(k.sorted)
  <2>1. left # {} /\ left \in SUBSET Nat
    BY DEF Layered
  <2> HIDE DEF left
  <2>2. PICK n \in left : \A x \in left : n <= x
    BY <2>1, LeastNumber
  <2>3. n \in DOMAIN m \ ToSet(k.sorted)
    BY DEF left
  <2>4. PICK d \in left : d \in depsInScope(m, n)
    BY <1>5, <2>3, LeftOverIsCycle DEF left
  <2>5. d = up[n] /\ up[n] < n /\ up[n] \in Nat /\ n \in Nat
    BY <2>3, <2>4 DEF Layered, depsInScope
  <2> QED
    BY <2>2, <2>4, <2>5
<1> QED
  BY <1>5, <1>6, <1>7 DEF SortInv, AllSorted

\* So the last of them is the newest.
LEMMA LastIsNewest ==
  ASSUME NEW m, NEW up, Layered(m, up), NEW k \in topoSortNodes(m), NEW n \in DOMAIN m
  PROVE  k.sorted # << >> /\ Last(k.sorted) \in DOMAIN m /\ n <= Last(k.sorted)
<1>1. /\ k.sorted \in Seq(DOMAIN m) /\ ToSet(k.sorted) = DOMAIN m /\ Ascending(k.sorted)
  BY SortAscends DEF AllSorted
<1>2. PICK i \in 1..Len(k.sorted) : k.sorted[i] = n
  BY <1>1, ToSetMember
<1>3. /\ Len(k.sorted) \in Nat /\ DOMAIN k.sorted = 1..Len(k.sorted)
      /\ Last(k.sorted) = k.sorted[Len(k.sorted)] /\ Len(k.sorted) \in 1..Len(k.sorted)
  BY <1>1, <1>2 DEF Last
<1>4. i < Len(k.sorted) => n < Last(k.sorted)
  BY <1>1, <1>2, <1>3 DEF Ascending
<1>5. k.sorted # << >> /\ Last(k.sorted) \in DOMAIN m
  BY <1>1, <1>3, ToSetMember
<1>6. Last(k.sorted) \in Nat /\ n \in Nat
  BY <1>5 DEF Layered
<1> QED
  BY <1>2, <1>3, <1>4, <1>5, <1>6

=============================================================================
