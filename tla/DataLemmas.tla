----------------------------- MODULE DataLemmas -------------------------------
(***************************************************************************)
(* Facts about data that the proofs of several components need: induction  *)
(* over a finite set and over the numbers, stated of a set of the things   *)
(* for which the claim holds, and the sum of a function, which is how the  *)
(* reservations of FactBudget are added up.                                *)
(***************************************************************************)
EXTENDS Integers, FiniteSets, Functions, FiniteSetTheorems, WellFoundedInduction,
        TLAPS

(* What holds of the empty set and is kept by every element more holds of  *)
(* every subset of a finite set.                                           *)
LEMMA SetInduction ==
  ASSUME NEW S, IsFiniteSet(S), NEW Q,
         {} \in Q,
         \A T \in SUBSET S : T \in Q => \A x \in S \ T : T \cup {x} \in Q
  PROVE  \A T \in SUBSET S : T \in Q
<1> DEFINE Bad == {T \in SUBSET S : T \notin Q}
<1> SUFFICES ASSUME Bad # {} PROVE FALSE
  OBVIOUS
<1>1. PICK T \in Bad : \A U \in Bad : <<U, T>> \notin StrictSubsetOrdering(S)
  <2> HIDE DEF Bad
  <2>1. IsWellFoundedOn(StrictSubsetOrdering(S), FiniteSubsetsOf(S))
    BY FS_StrictSubsetOrderingWellFounded
  <2>2. Bad \subseteq FiniteSubsetsOf(S)
    BY FS_FiniteSubsetsOfFinite DEF Bad
  <2> QED
    BY <2>1, <2>2, WFMin
<1>2. PICK x \in T : TRUE
  OBVIOUS
<1>3. <<T \ {x}, T>> \in StrictSubsetOrdering(S)
  BY <1>2 DEF StrictSubsetOrdering
<1>4. T \ {x} \in Q /\ T \ {x} \in SUBSET S
  BY <1>1, <1>3
<1>5. (T \ {x}) \cup {x} = T /\ x \in S \ (T \ {x})
  BY <1>2
<1> QED
  BY <1>4, <1>5

LEMMA LeastNumber ==
  ASSUME NEW T, T \subseteq Nat, T # {}
  PROVE  \E n \in T : \A m \in T : n <= m
<1> DEFINE R == {ss \in Nat \X Nat : ss[1] < ss[2]}
<1>1. IsWellFoundedOn(R, Nat)
  BY NatLessThanWellFounded DEF OpToRel
<1>2. PICK n \in T : \A m \in T : <<m, n>> \notin R
  <2> HIDE DEF R
  <2> QED
    BY <1>1, WFMin
<1>3. \A m \in T : m \in Nat /\ n \in Nat /\ ~(m < n)
  BY <1>2
<1> QED
  BY <1>3

LEMMA NumberInduction ==
  ASSUME NEW Q, 0 \in Q, \A n \in Nat : n \in Q => n + 1 \in Q
  PROVE  \A n \in Nat : n \in Q
<1> DEFINE Bad == {n \in Nat : n \notin Q}
<1> SUFFICES ASSUME Bad # {} PROVE FALSE
  OBVIOUS
<1>1. PICK n \in Bad : \A m \in Bad : n <= m
  <2> HIDE DEF Bad
  <2>1. Bad \subseteq Nat
    BY DEF Bad
  <2> QED
    BY <2>1, LeastNumber
<1>2. n \in Nat \ {0} /\ n - 1 \in Nat /\ (n - 1) + 1 = n
  OBVIOUS
<1>3. n - 1 \in Q
  BY <1>1, <1>2
<1> QED
  BY <1>2, <1>3

LEMMA CountUpTo ==
  ASSUME NEW n \in Nat
  PROVE  IsFiniteSet(1..n) /\ Cardinality(1..n) = n
<1>1. 1 \in Int /\ n \in Int /\ n - 1 + 1 = n /\ (1 > n => n = 0)
  OBVIOUS
<1> QED
  BY <1>1, FS_Interval

-----------------------------------------------------------------------------
(* The sum of a function, as Functions defines it.                         *)

Element(s) == CHOOSE x \in s : TRUE

Added(f, g, s) == IF s = {} THEN 0 ELSE f[Element(s)] + g[s \ {Element(s)}]

PartialSums(f, S) == CHOOSE g : g = [s \in SUBSET S |-> Added(f, g, s)]

LEMMA SumUnfolds ==
  ASSUME NEW S, NEW f \in [S -> Nat]
  PROVE  SumFunction(f) = PartialSums(f, S)[S]
<1>1. DOMAIN f = S
  OBVIOUS
<1> QED
  BY <1>1 DEF SumFunction, SumFunctionOnSet, FoldFunctionOnSet, MapThenFoldSet,
              PartialSums, Added, Element

LEMMA ElementIn == \A s : s # {} => Element(s) \in s
  BY DEF Element

LEMMA Smaller ==
  ASSUME NEW S, IsFiniteSet(S), NEW s \in SUBSET S, NEW x \in s
  PROVE  /\ Cardinality(s) \in Nat /\ Cardinality(s \ {x}) = Cardinality(s) - 1
         /\ s \ {x} \in SUBSET S
  BY FS_Subset, FS_RemoveElement, FS_CardinalityType

LEMMA PartialSumsExist ==
  ASSUME NEW S, IsFiniteSet(S), NEW f \in [S -> Nat]
  PROVE  PartialSums(f, S) = [s \in SUBSET S |-> Added(f, PartialSums(f, S), s)]
<1> DEFINE UpTo(n, g) ==
             \A s \in SUBSET S : Cardinality(s) <= n => g[s] = Added(f, g, s)
           Q == {n \in Nat : \E g \in [SUBSET S -> Nat] : UpTo(n, g)}
<1>1. 0 \in Q
  <2> DEFINE g == [s \in SUBSET S |-> 0]
  <2>1. \A s \in SUBSET S : Cardinality(s) <= 0 => s = {}
    BY FS_Subset, FS_EmptySet, FS_CardinalityType
  <2>2. UpTo(0, g)
    BY <2>1 DEF Added
  <2> QED
    BY <2>2
<1>2. ASSUME NEW n \in Nat, n \in Q
      PROVE  n + 1 \in Q
  <2>1. PICK g \in [SUBSET S -> Nat] : UpTo(n, g)
    BY <1>2
  <2> DEFINE h == [s \in SUBSET S |-> Added(f, g, s)]
  <2>2. h \in [SUBSET S -> Nat]
    <3>1. \A s \in SUBSET S : Added(f, g, s) \in Nat
      BY ElementIn DEF Added
    <3> QED
      BY <3>1
  <2>3. ASSUME NEW s \in SUBSET S, Cardinality(s) <= n + 1
        PROVE  h[s] = Added(f, h, s)
    <3>1. CASE s = {}
      BY <3>1 DEF Added
    <3>2. CASE s # {}
      <4> DEFINE x == Element(s)
      <4>1. x \in s
        BY <3>2, ElementIn
      <4>2. s \ {x} \in SUBSET S /\ Cardinality(s \ {x}) <= n
        BY <2>3, <4>1, Smaller
      <4>3. h[s \ {x}] = g[s \ {x}]
        BY <2>1, <4>2
      <4> QED
        BY <3>2, <4>3 DEF Added
    <3> QED
      BY <3>1, <3>2
  <2>4. UpTo(n + 1, h)
    BY <2>3
  <2> HIDE DEF h
  <2> QED
    BY <2>2, <2>4
<1>3. Cardinality(S) \in Q
  <2> HIDE DEF Q
  <2> QED
    BY <1>1, <1>2, NumberInduction, FS_CardinalityType
<1>4. PICK g \in [SUBSET S -> Nat] : UpTo(Cardinality(S), g)
  BY <1>3
<1>5. g = [s \in SUBSET S |-> Added(f, g, s)]
  BY <1>4, FS_Subset
<1> QED
  BY <1>5 DEF PartialSums

LEMMA PartialSumsType ==
  ASSUME NEW S, IsFiniteSet(S), NEW f \in [S -> Nat]
  PROVE  /\ PartialSums(f, S) \in [SUBSET S -> Nat]
         /\ \A s \in SUBSET S : PartialSums(f, S)[s] \in Nat
<1> DEFINE g == PartialSums(f, S)
           Q == {n \in Nat : \A s \in SUBSET S : Cardinality(s) = n => g[s] \in Nat}
<1>1. g = [s \in SUBSET S |-> Added(f, g, s)]
  BY PartialSumsExist
<1> HIDE DEF g
<1>2. 0 \in Q
  BY <1>1, FS_Subset, FS_EmptySet DEF Added
<1>3. ASSUME NEW n \in Nat, n \in Q
      PROVE  n + 1 \in Q
  <2>1. ASSUME NEW s \in SUBSET S, Cardinality(s) = n + 1
        PROVE  g[s] \in Nat
    <3>1. s # {}
      BY <2>1, FS_EmptySet
    <3>2. Element(s) \in s
      BY <3>1, ElementIn
    <3>3. g[s \ {Element(s)}] \in Nat
      BY <1>3, <2>1, <3>2, Smaller
    <3>4. g[s] = f[Element(s)] + g[s \ {Element(s)}]
      BY <1>1, <3>1 DEF Added
    <3>5. f[Element(s)] \in Nat
      BY <3>2
    <3> QED
      BY <3>3, <3>4, <3>5
  <2> QED
    BY <2>1
<1>4. \A n \in Nat : n \in Q
  <2> HIDE DEF Q
  <2> QED
    BY <1>2, <1>3, NumberInduction
<1>5. \A s \in SUBSET S : Cardinality(s) \in Nat
  BY FS_Subset, FS_CardinalityType
<1>6. \A s \in SUBSET S : g[s] \in Nat
  BY <1>4, <1>5
<1> QED
  BY <1>1, <1>6 DEF g

(* The order in which the elements are taken does not matter. *)
LEMMA PartialSumsAdd ==
  ASSUME NEW S, IsFiniteSet(S), NEW f \in [S -> Nat],
         NEW T \in SUBSET S, NEW x \in S \ T
  PROVE  PartialSums(f, S)[T \cup {x}] = PartialSums(f, S)[T] + f[x]
<1> DEFINE g == PartialSums(f, S)
           Adds(s) == \A y \in S \ s : g[s \cup {y}] = g[s] + f[y]
           Q == {n \in Nat : \A s \in SUBSET S : Cardinality(s) = n => Adds(s)}
<1>1. g = [s \in SUBSET S |-> Added(f, g, s)] /\ g \in [SUBSET S -> Nat]
  BY PartialSumsExist, PartialSumsType
<1> HIDE DEF g
<1>2. 0 \in Q
  <2>1. ASSUME NEW s \in SUBSET S, Cardinality(s) = 0, NEW y \in S \ s
        PROVE  g[s \cup {y}] = g[s] + f[y]
    <3>1. s = {} /\ s \cup {y} = {y} /\ {y} # {}
      BY <2>1, FS_Subset, FS_EmptySet
    <3>2. Element({y}) = y /\ {y} \ {y} = {}
      BY ElementIn
    <3>3. g[{y}] = f[y] + g[{}] /\ g[{}] = 0
      BY <1>1, <3>1, <3>2 DEF Added
    <3> QED
      BY <3>1, <3>3
  <2> QED
    BY <2>1
<1>3. ASSUME NEW n \in Nat, n \in Q
      PROVE  n + 1 \in Q
  <2>1. ASSUME NEW s \in SUBSET S, Cardinality(s) = n + 1, NEW y \in S \ s
        PROVE  g[s \cup {y}] = g[s] + f[y]
    <3> DEFINE u == s \cup {y}
               c == Element(u)
    <3>1. c \in u /\ u # {} /\ u \in SUBSET S
      BY ElementIn
    <3>2. g[u] = f[c] + g[u \ {c}]
      BY <1>1, <3>1 DEF Added
    <3>3. CASE c = y
      <4>1. u \ {c} = s
        BY <3>3
      <4>2. g[s] \in Nat /\ f[y] \in Nat
        BY <1>1
      <4>3. g[u] = f[y] + g[s]
        <5> HIDE DEF u, c
        <5> QED
          BY <3>2, <3>3, <4>1
      <4> QED
        BY <4>2, <4>3
    <3>4. CASE c # y
      <4>1. c \in s /\ u \ {c} = (s \ {c}) \cup {y} /\ s = (s \ {c}) \cup {c}
        BY <3>1, <3>4
      <4>2. s \ {c} \in SUBSET S /\ Cardinality(s \ {c}) = n
        <5> HIDE DEF c
        <5>1. Cardinality(s \ {c}) = Cardinality(s) - 1 /\ s \ {c} \in SUBSET S
          BY <4>1, Smaller
        <5> QED
          BY <2>1, <5>1
      <4>3. Adds(s \ {c})
        BY <1>3, <4>2
      <4>4. g[u \ {c}] = g[s \ {c}] + f[y]
        BY <4>1, <4>3
      <4>5. g[s] = g[s \ {c}] + f[c]
        BY <4>1, <4>3
      <4>6. g[s \ {c}] \in Nat /\ f[c] \in Nat /\ f[y] \in Nat
        BY <1>1, <4>1, <4>2
      <4> HIDE DEF u, c
      <4> QED
        BY <3>2, <4>4, <4>5, <4>6 DEF u
    <3> QED
      BY <3>3, <3>4
  <2> QED
    BY <2>1
<1>4. \A n \in Nat : n \in Q
  <2> HIDE DEF Q
  <2> QED
    BY <1>2, <1>3, NumberInduction
<1>5. Cardinality(T) \in Nat
  BY FS_Subset, FS_CardinalityType
<1> QED
  BY <1>4, <1>5 DEF g

LEMMA SumOfEmpty ==
  ASSUME NEW S, IsFiniteSet(S), NEW f \in [S -> Nat]
  PROVE  PartialSums(f, S)[{}] = 0
  BY PartialSumsExist DEF Added

(* A sum of numbers is a number, and no part is greater than the whole. *)
LEMMA SumType ==
  ASSUME NEW S, IsFiniteSet(S), NEW f \in [S -> Nat]
  PROVE  SumFunction(f) \in Nat /\ \A x \in S : f[x] <= SumFunction(f)
<1>1. SumFunction(f) \in Nat
  <2>1. PartialSums(f, S)[S] \in Nat
    <3>1. S \in SUBSET S
      OBVIOUS
    <3> QED
      BY <3>1, PartialSumsType
  <2> QED
    BY <2>1, SumUnfolds
<1>2. ASSUME NEW x \in S PROVE f[x] <= SumFunction(f)
  <2>1. S \ {x} \in SUBSET S /\ (S \ {x}) \cup {x} = S /\ x \in S \ (S \ {x})
    OBVIOUS
  <2>2. SumFunction(f) = PartialSums(f, S)[S \ {x}] + f[x]
    BY <2>1, SumUnfolds, PartialSumsAdd
  <2>3. PartialSums(f, S)[S \ {x}] \in Nat /\ f[x] \in Nat
    BY <2>1, PartialSumsType
  <2> QED
    BY <2>2, <2>3
<1> QED
  BY <1>1, <1>2

LEMMA SumOfNothing ==
  ASSUME NEW S, IsFiniteSet(S)
  PROVE  SumFunction([x \in S |-> 0]) = 0
<1> DEFINE f == [x \in S |-> 0]
           Q == {T \in SUBSET S : PartialSums(f, S)[T] = 0}
<1>1. f \in [S -> Nat] /\ \A x \in S : f[x] = 0
  OBVIOUS
<1> HIDE DEF f
<1>2. {} \in Q
  BY <1>1, SumOfEmpty
<1>3. ASSUME NEW T \in SUBSET S, T \in Q, NEW x \in S \ T
      PROVE  T \cup {x} \in Q
  <2>1. PartialSums(f, S)[T \cup {x}] = PartialSums(f, S)[T] + f[x]
    BY <1>1, PartialSumsAdd
  <2>2. f[x] = 0
    BY <1>1
  <2> QED
    BY <1>3, <2>1, <2>2
<1>4. S \in Q
  <2> HIDE DEF Q
  <2> QED
    BY <1>2, <1>3, SetInduction
<1> QED
  BY <1>1, <1>4, SumUnfolds DEF f

(* What one entry gains or loses, the sum gains or loses. *)
LEMMA SumUpdate ==
  ASSUME NEW S, IsFiniteSet(S), NEW f \in [S -> Nat], NEW x \in S, NEW v \in Nat
  PROVE  SumFunction([f EXCEPT ![x] = v]) = SumFunction(f) - f[x] + v
<1> DEFINE h == [f EXCEPT ![x] = v]
           Gain(T) == IF x \in T THEN v - f[x] ELSE 0
           Q == {T \in SUBSET S :
                   PartialSums(h, S)[T] = PartialSums(f, S)[T] + Gain(T)}
<1>1. h \in [S -> Nat] /\ h[x] = v /\ \A y \in S : y # x => h[y] = f[y]
  OBVIOUS
<1> HIDE DEF h
<1>2. {} \in Q
  BY <1>1, SumOfEmpty
<1>3. ASSUME NEW T \in SUBSET S, T \in Q, NEW y \in S \ T
      PROVE  T \cup {y} \in Q
  <2>1. /\ PartialSums(h, S)[T \cup {y}] = PartialSums(h, S)[T] + h[y]
        /\ PartialSums(f, S)[T \cup {y}] = PartialSums(f, S)[T] + f[y]
    BY <1>1, PartialSumsAdd
  <2>2. PartialSums(f, S)[T] \in Nat /\ PartialSums(h, S)[T] \in Nat
    BY <1>1, PartialSumsType
  <2>3. f[x] \in Nat /\ f[y] \in Nat /\ h[y] \in Nat
    BY <1>1
  <2>4. CASE y = x
    BY <1>1, <1>3, <2>1, <2>2, <2>3, <2>4
  <2>5. CASE y # x
    BY <1>1, <1>3, <2>1, <2>2, <2>3, <2>5
  <2> QED
    BY <2>4, <2>5
<1>4. S \in Q
  <2> HIDE DEF Q
  <2> QED
    BY <1>2, <1>3, SetInduction
<1>5. f[x] \in Nat /\ PartialSums(f, S)[S] \in Nat
  <2>1. S \in SUBSET S
    OBVIOUS
  <2> QED
    BY <2>1, PartialSumsType
<1>6. SumFunction(h) = PartialSums(h, S)[S] /\ SumFunction(f) = PartialSums(f, S)[S]
  BY <1>1, SumUnfolds
<1> QED
  BY <1>4, <1>5, <1>6 DEF h

(* A sum of parts that are no greater is no greater. *)
LEMMA SumMonotone ==
  ASSUME NEW S, IsFiniteSet(S), NEW f \in [S -> Nat], NEW h \in [S -> Nat],
         \A x \in S : f[x] <= h[x]
  PROVE  SumFunction(f) <= SumFunction(h)
<1> DEFINE Q == {T \in SUBSET S : PartialSums(f, S)[T] <= PartialSums(h, S)[T]}
<1>1. {} \in Q
  <2>1. PartialSums(f, S)[{}] = 0 /\ PartialSums(h, S)[{}] = 0
    BY SumOfEmpty
  <2> QED
    BY <2>1
<1>2. ASSUME NEW T \in SUBSET S, T \in Q, NEW y \in S \ T
      PROVE  T \cup {y} \in Q
  <2>1. /\ PartialSums(h, S)[T \cup {y}] = PartialSums(h, S)[T] + h[y]
        /\ PartialSums(f, S)[T \cup {y}] = PartialSums(f, S)[T] + f[y]
    BY PartialSumsAdd
  <2>2. PartialSums(f, S)[T] \in Nat /\ PartialSums(h, S)[T] \in Nat
    BY PartialSumsType
  <2>3. f[y] \in Nat /\ h[y] \in Nat /\ f[y] <= h[y]
    OBVIOUS
  <2>4. PartialSums(f, S)[T] <= PartialSums(h, S)[T]
    BY <1>2
  <2> QED
    BY <2>1, <2>2, <2>3, <2>4
<1>3. S \in Q
  <2> HIDE DEF Q
  <2> QED
    BY <1>1, <1>2, SetInduction
<1>4. SumFunction(h) = PartialSums(h, S)[S] /\ SumFunction(f) = PartialSums(f, S)[S]
  BY SumUnfolds
<1> QED
  BY <1>3, <1>4
=============================================================================
