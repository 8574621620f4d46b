---------------------------- MODULE PlanRunProofs ----------------------------
(***************************************************************************)
(* One plan from its preflight to the end of its run, for every plan, host *)
(* and schedule of the Agents.                                             *)
(*                                                                         *)
(* First the functions the model defines by recursion, the waves and the   *)
(* script they make: what preflight admits has batches whose tasks wait    *)
(* for earlier batches only, so whatever the script lets start is safe,    *)
(* and Scheduling is inductive.                                            *)
(*                                                                         *)
(* Then the record. Recording says of every state, a stopped host          *)
(* included, that the snapshot, the trail of events and the receipts on    *)
(* disk fit each other: an attempt has the times of its events, every      *)
(* event is of a task that is bound, what was written is only ever         *)
(* extended. A handler is a list of writes and the host may stop after     *)
(* each one, so what is proved of a handler is proved of every prefix of   *)
(* its writes. RunReportProofs draws the conclusions.                      *)
(***************************************************************************)
EXTENDS PlanRun, DataLemmas, SequenceTheorems

-----------------------------------------------------------------------------
(* Sequences: induction, and the two lists the model builds by recursion.  *)

LEMMA SequenceInduction ==
  ASSUME NEW X, NEW Q, <<>> \in Q,
         \A s \in Seq(X), x \in X : s \in Q => Append(s, x) \in Q
  PROVE  Seq(X) \subseteq Q
<1> DEFINE R == {n \in Nat : \A s \in Seq(X) : Len(s) = n => s \in Q}
<1>1. 0 \in R
  OBVIOUS
<1>2. ASSUME NEW n \in Nat, n \in R
      PROVE  n + 1 \in R
  <2> SUFFICES ASSUME NEW s \in Seq(X), Len(s) = n + 1
               PROVE  s \in Q
    OBVIOUS
  <2> DEFINE u == SubSeq(s, 1, n)
  <2>1. u \in Seq(X) /\ Len(u) = n /\ s[n + 1] \in X /\ s = Append(u, s[n + 1])
    OBVIOUS
  <2>2. u \in Q
    BY <1>2, <2>1
  <2> QED
    BY <2>1, <2>2
<1>3. \A n \in Nat : n \in R
  <2> HIDE DEF R
  <2> QED
    BY <1>1, <1>2, NumberInduction
<1> QED
  BY <1>3

(* The function that begins with a and goes on as G says. *)
Follows(f, N, X, a, G) ==
  f \in [0..N -> X] /\ f[0] = a /\ \A n \in 1..N : f[n] = G[n][f[n - 1]]

LEMMA RecursionExists ==
  ASSUME NEW N \in Nat, NEW X, NEW a \in X, NEW G \in [1..N -> [X -> X]]
  PROVE  \E f : Follows(f, N, X, a, G)
<1> DEFINE Upto(k, f) == f[0] = a /\ \A n \in 1..k : f[n] = G[n][f[n - 1]]
           Q == {k \in Nat : k <= N => \E f \in [0..k -> X] : Upto(k, f)}
<1>1. 0 \in Q
  <2> DEFINE f == [n \in 0..0 |-> a]
  <2>1. f \in [0..0 -> X] /\ Upto(0, f)
    OBVIOUS
  <2> QED
    BY <2>1
<1>2. ASSUME NEW k \in Nat, k \in Q
      PROVE  k + 1 \in Q
  <2> SUFFICES ASSUME k + 1 <= N
               PROVE  \E g \in [0..(k + 1) -> X] : Upto(k + 1, g)
    OBVIOUS
  <2>1. PICK f \in [0..k -> X] : Upto(k, f)
    BY <1>2
  <2> DEFINE g == [n \in 0..(k + 1) |-> IF n = k + 1 THEN G[k + 1][f[k]] ELSE f[n]]
  <2>2. G[k + 1][f[k]] \in X
    <3>1. k + 1 \in 1..N /\ f[k] \in X
      OBVIOUS
    <3> QED
      BY <3>1
  <2>3. g \in [0..(k + 1) -> X] /\ g[0] = a
    BY <2>1, <2>2
  <2>4. g[k] = f[k] /\ g[k + 1] = G[k + 1][f[k]] /\ (k + 1) - 1 = k
    OBVIOUS
  <2>5. ASSUME NEW n \in 1..k
        PROVE  g[n] = G[n][g[n - 1]]
    <3>1. g[n] = f[n] /\ f[n] = G[n][f[n - 1]] /\ g[n - 1] = f[n - 1]
      BY <2>1
    <3> HIDE DEF g
    <3> QED
      BY <3>1
  <2>6. \A n \in 1..(k + 1) : n \in 1..k \/ n = k + 1
    OBVIOUS
  <2>7. Upto(k + 1, g)
    <3> HIDE DEF g
    <3> QED
      BY <2>3, <2>4, <2>5, <2>6
  <2> QED
    BY <2>3, <2>7
<1>3. \A k \in Nat : k \in Q
  <2> HIDE DEF Q
  <2> QED
    BY <1>1, <1>2, NumberInduction
<1>4. N \in Q
  BY <1>3
<1>5. PICK f \in [0..N -> X] : Upto(N, f)
  BY <1>4
<1> QED
  BY <1>5 DEF Follows

LEMMA FollowsBody ==
  ASSUME NEW N \in Nat, NEW X, NEW a \in X, NEW G, NEW f, Follows(f, N, X, a, G)
  PROVE  /\ f = [n \in 0..N |-> IF n = 0 THEN a ELSE G[n][f[n - 1]]]
         /\ \A n \in 0..N : n # 0 => n \in 1..N /\ f[n - 1] \in X
<1>1. f \in [0..N -> X] /\ f[0] = a /\ \A n \in 1..N : f[n] = G[n][f[n - 1]]
  BY DEF Follows
<1>2. \A n \in 0..N : n # 0 => n \in 1..N /\ n - 1 \in 0..N
  OBVIOUS
<1>3. ASSUME NEW n \in 0..N
      PROVE  f[n] = IF n = 0 THEN a ELSE G[n][f[n - 1]]
  BY <1>1, <1>2
<1>4. f = [n \in 0..N |-> f[n]]
  BY <1>1
<1> QED
  BY <1>1, <1>2, <1>3, <1>4

LEMMA BodyFollows ==
  ASSUME NEW N \in Nat, NEW X, NEW a \in X, NEW G \in [1..N -> [X -> X]], NEW K,
         K = [n \in 0..N |-> K[n]], K[0] = a,
         \A n \in 1..N : K[n - 1] \in X => K[n] = G[n][K[n - 1]]
  PROVE  Follows(K, N, X, a, G)
<1> DEFINE Q == {n \in Nat : n <= N => K[n] \in X}
<1>1. 0 \in Q
  OBVIOUS
<1>2. ASSUME NEW n \in Nat, n \in Q
      PROVE  n + 1 \in Q
  <2> SUFFICES ASSUME n + 1 <= N
               PROVE  K[n + 1] \in X
    OBVIOUS
  <2>1. n + 1 \in 1..N /\ (n + 1) - 1 = n /\ K[n] \in X
    BY <1>2
  <2>2. K[n + 1] = G[n + 1][K[n]] /\ G[n + 1] \in [X -> X]
    BY <2>1
  <2> QED
    BY <2>1, <2>2
<1>3. \A n \in Nat : n \in Q
  <2> HIDE DEF Q
  <2> QED
    BY <1>1, <1>2, NumberInduction
<1>4. \A n \in 0..N : K[n] \in X
  BY <1>3
<1>5. K \in [0..N -> X]
  BY <1>4
<1>6. \A n \in 1..N : n - 1 \in 0..N
  OBVIOUS
<1> QED
  BY <1>4, <1>5, <1>6 DEF Follows

LEMMA AppendToSet ==
  ASSUME NEW X, NEW s \in Seq(X), NEW x
  PROVE  ToSet(Append(s, x)) = ToSet(s) \cup {x}
<1>1. /\ DOMAIN Append(s, x) = 1..(Len(s) + 1) /\ DOMAIN s = 1..Len(s) /\ Len(s) \in Nat
      /\ \A n \in 1..Len(s) : Append(s, x)[n] = s[n]
      /\ Append(s, x)[Len(s) + 1] = x
  OBVIOUS
<1>2. 1..(Len(s) + 1) = 1..Len(s) \cup {Len(s) + 1}
  BY <1>1
<1> QED
  BY <1>1, <1>2 DEF ToSet

KeptUpTo(list, set) ==
  CHOOSE kept : kept = [n \in 0..Len(list) |->
    IF n = 0 THEN <<>>
    ELSE IF list[n] \in set THEN Append(kept[n - 1], list[n]) ELSE kept[n - 1]]

LEMMA KeptUnfolds ==
  ASSUME NEW X, NEW list \in Seq(X), NEW set
  PROVE  /\ KeptUpTo(list, set) \in [0..Len(list) -> Seq(X)]
         /\ KeptUpTo(list, set)[0] = <<>>
         /\ \A n \in 1..Len(list) :
              KeptUpTo(list, set)[n] =
                IF list[n] \in set THEN Append(KeptUpTo(list, set)[n - 1], list[n])
                ELSE KeptUpTo(list, set)[n - 1]
<1> DEFINE N == Len(list)
           G == [n \in 1..N |-> [kept \in Seq(X) |->
                   IF list[n] \in set THEN Append(kept, list[n]) ELSE kept]]
<1>1. N \in Nat /\ <<>> \in Seq(X) /\ G \in [1..N -> [Seq(X) -> Seq(X)]]
  OBVIOUS
<1>2. PICK f \in [0..N -> Seq(X)] :
        f[0] = <<>> /\ \A n \in 1..N : f[n] = G[n][f[n - 1]]
  <2> DEFINE Y == Seq(X)
             none == <<>>
  <2>1. N \in Nat /\ none \in Y /\ G \in [1..N -> [Y -> Y]]
    BY <1>1
  <2> HIDE DEF G, N, Y, none
  <2>2. PICK f : Follows(f, N, Y, none, G)
    BY <2>1, RecursionExists
  <2> QED
    BY <2>2 DEF Y, none, Follows
<1>3. ASSUME NEW n \in 0..N
      PROVE  f[n] = IF n = 0 THEN <<>>
                    ELSE IF list[n] \in set THEN Append(f[n - 1], list[n]) ELSE f[n - 1]
  <2>1. f[n] = IF n = 0 THEN <<>> ELSE G[n][f[n - 1]]
    <3>1. n = 0 \/ n \in 1..N
      OBVIOUS
    <3> HIDE DEF G, N
    <3> QED
      BY <1>2, <3>1
  <2>2. n # 0 => n \in 1..N /\ f[n - 1] \in Seq(X)
    OBVIOUS
  <2> QED
    BY <2>1, <2>2
<1>4. f = [n \in 0..N |-> IF n = 0 THEN <<>>
                          ELSE IF list[n] \in set THEN Append(f[n - 1], list[n]) ELSE f[n - 1]]
  BY <1>3
<1>5. KeptUpTo(list, set) =
        [n \in 0..N |-> IF n = 0 THEN <<>>
                        ELSE IF list[n] \in set THEN Append(KeptUpTo(list, set)[n - 1], list[n])
                             ELSE KeptUpTo(list, set)[n - 1]]
  BY <1>4 DEF KeptUpTo
<1> DEFINE K == KeptUpTo(list, set)
           Q == {n \in Nat : n <= N => K[n] \in Seq(X)}
<1> HIDE DEF G, K
<1>6. 0 \in Q
  BY <1>5 DEF K
<1>7. ASSUME NEW n \in Nat, n \in Q
      PROVE  n + 1 \in Q
  <2> SUFFICES ASSUME n + 1 <= N
               PROVE  K[n + 1] \in Seq(X)
    OBVIOUS
  <2>1. K[n] \in Seq(X) /\ n + 1 \in 1..N /\ (n + 1) - 1 = n /\ n + 1 \in 0..N /\ n + 1 # 0
    BY <1>7
  <2>2. K[n + 1] = IF list[n + 1] \in set THEN Append(K[n], list[n + 1]) ELSE K[n]
    <3>1. \A m \in 0..N : m # 0 =>
            K[m] = IF list[m] \in set THEN Append(K[m - 1], list[m]) ELSE K[m - 1]
      <4> HIDE DEF N
      <4> QED
        BY <1>5 DEF K
    <3> HIDE DEF N
    <3> QED
      BY <3>1, <2>1
  <2>3. list[n + 1] \in X
    BY <2>1
  <2> HIDE DEF N
  <2> QED
    BY <2>1, <2>2, <2>3
<1>8. \A n \in Nat : n \in Q
  <2> HIDE DEF Q
  <2> QED
    BY <1>6, <1>7, NumberInduction
<1>9. \A n \in 0..N : K[n] \in Seq(X)
  BY <1>8
<1>10. K = [n \in 0..N |-> IF n = 0 THEN <<>>
                           ELSE IF list[n] \in set THEN Append(K[n - 1], list[n]) ELSE K[n - 1]]
  BY <1>5 DEF K
<1>11. K \in [0..N -> Seq(X)] /\ K[0] = <<>>
  BY <1>9, <1>10, <1>1
<1>12. \A n \in 1..N : K[n] = IF list[n] \in set THEN Append(K[n - 1], list[n]) ELSE K[n - 1]
  <2> HIDE DEF N
  <2>1. \A n \in 1..N : n \in 0..N /\ n # 0
    BY <1>1
  <2> QED
    BY <1>10, <2>1
<1> QED
  BY <1>11, <1>12 DEF K, N

Distinct(list) == \A m, n \in DOMAIN list : list[m] = list[n] => m = n

(* Only keeps what is in the set, and nothing twice.                       *)
LEMMA OnlyFacts ==
  ASSUME NEW X, NEW list \in Seq(X), NEW set
  PROVE  /\ Only(list, set) \in Seq(X)
         /\ ToSet(Only(list, set)) = ToSet(list) \cap set
         /\ Distinct(list) => Distinct(Only(list, set))
<1> DEFINE N == Len(list)
           K == KeptUpTo(list, set)
           Upto(n) == {list[m] : m \in 1..n}
           Good(n) == /\ ToSet(K[n]) = Upto(n) \cap set
                      /\ Distinct(list) => Distinct(K[n])
           Q == {n \in Nat : n <= N => Good(n)}
<1>1. /\ K \in [0..N -> Seq(X)] /\ K[0] = <<>>
      /\ \A n \in 1..N : K[n] = IF list[n] \in set THEN Append(K[n - 1], list[n]) ELSE K[n - 1]
  BY KeptUnfolds
<1>2. Only(list, set) = K[N]
  BY DEF Only, KeptUpTo
<1> HIDE DEF K
<1>3. 0 \in Q
  BY <1>1 DEF ToSet, Distinct
<1>4. ASSUME NEW n \in Nat, n \in Q
      PROVE  n + 1 \in Q
  <2> SUFFICES ASSUME n + 1 <= N
               PROVE  Good(n + 1)
    OBVIOUS
  <2> DEFINE k == K[n]
             x == list[n + 1]
  <2>1. k \in Seq(X) /\ x \in X /\ Good(n) /\ n + 1 \in 1..N /\ (n + 1) - 1 = n
    <3>1. n <= N /\ n \in 0..N /\ n + 1 \in 1..N /\ (n + 1) - 1 = n /\ x \in X
      OBVIOUS
    <3>2. Good(n)
      <4> HIDE DEF Good
      <4> QED
        BY <3>1, <1>4
    <3> HIDE DEF N, Good
    <3> QED
      BY <1>1, <3>1, <3>2
  <2>2. K[n + 1] = IF x \in set THEN Append(k, x) ELSE k
    BY <1>1, <2>1
  <2>3. Upto(n + 1) = Upto(n) \cup {x}
    OBVIOUS
  <2>4. CASE x \notin set
    <3> HIDE DEF k, x, Upto
    <3>1. Upto(n + 1) \cap set = Upto(n) \cap set
      BY <2>3, <2>4
    <3>2. K[n + 1] = k
      BY <2>2, <2>4
    <3> QED
      BY <2>1, <3>1, <3>2 DEF k
  <2>5. CASE x \in set
    <3>1. K[n + 1] = Append(k, x)
      BY <2>2, <2>5
    <3>2. ToSet(Append(k, x)) = ToSet(k) \cup {x}
      <4> HIDE DEF k, x
      <4> QED
        BY <2>1, AppendToSet
    <3>3. ToSet(K[n + 1]) = Upto(n + 1) \cap set
      <4> HIDE DEF x, Upto
      <4> QED
        BY <2>1, <2>3, <2>5, <3>1, <3>2
    <3>4. ASSUME Distinct(list)
          PROVE  Distinct(Append(k, x))
      <4>1. \A m \in DOMAIN k : k[m] # x
        <5> SUFFICES ASSUME NEW m \in DOMAIN k, k[m] = x
                     PROVE  FALSE
          OBVIOUS
        <5>1. x \in Upto(n)
          BY <2>1 DEF ToSet
        <5>2. PICK i \in 1..n : list[i] = list[n + 1]
          BY <5>1
        <5> QED
          BY <5>2, <3>4 DEF Distinct
      <4>2. Distinct(k)
        BY <2>1, <3>4
      <4> HIDE DEF k, x
      <4> QED
        BY <4>1, <4>2, <2>1 DEF Distinct
    <3> QED
      BY <3>1, <3>3, <3>4
  <2> QED
    BY <2>4, <2>5
<1>5. \A n \in Nat : n \in Q
  <2> HIDE DEF Q
  <2> QED
    BY <1>3, <1>4, NumberInduction
<1>6. Good(N) /\ N \in Nat
  <2>1. N \in Nat /\ N <= N
    OBVIOUS
  <2> HIDE DEF Good, N
  <2> QED
    BY <1>5, <2>1
<1>7. Upto(N) = ToSet(list)
  BY DEF ToSet
<1> QED
  BY <1>1, <1>2, <1>6, <1>7

(* Two such functions agree as long as they go on alike.                   *)
LEMMA FollowersAgree ==
  ASSUME NEW N \in Nat, NEW M \in Nat, N <= M, NEW X, NEW a, NEW G, NEW H, NEW f, NEW h,
         Follows(f, N, X, a, G), Follows(h, M, X, a, H),
         \A n \in 1..N : G[n] = H[n]
  PROVE  \A n \in 0..N : f[n] = h[n]
<1> DEFINE Q == {n \in Nat : n <= N => f[n] = h[n]}
<1>1. 0 \in Q
  BY DEF Follows
<1>2. ASSUME NEW n \in Nat, n \in Q
      PROVE  n + 1 \in Q
  <2> SUFFICES ASSUME n + 1 <= N
               PROVE  f[n + 1] = h[n + 1]
    OBVIOUS
  <2>1. n + 1 \in 1..N /\ n + 1 \in 1..M /\ (n + 1) - 1 = n /\ f[n] = h[n]
    BY <1>2
  <2>2. f[n + 1] = G[n + 1][f[n]] /\ h[n + 1] = H[n + 1][h[n]]
    BY <2>1 DEF Follows
  <2> QED
    BY <2>1, <2>2
<1>3. \A n \in Nat : n \in Q
  <2> HIDE DEF Q
  <2> QED
    BY <1>1, <1>2, NumberInduction
<1> QED
  BY <1>3

Glue(s, X) == [n \in 1..Len(s) |-> [list \in Seq(X) |-> list \o s[n]]]

Joined(s) ==
  CHOOSE f : f = [i \in 1..Len(s) |-> IF i = 1 THEN s[i] ELSE f[i - 1] \o s[i]]

LEMMA FlattenFollows ==
  ASSUME NEW X, NEW s \in Seq(Seq(X))
  PROVE  \E g : Follows(g, Len(s), Seq(X), <<>>, Glue(s, X)) /\ FlattenSeq(s) = g[Len(s)]
<1> DEFINE N == Len(s)
           Y == Seq(X)
           none == <<>>
<1>1. N \in Nat /\ none \in Y /\ Glue(s, X) \in [1..N -> [Y -> Y]]
  BY DEF Glue
<1>2. PICK g : Follows(g, N, Y, none, Glue(s, X))
  <2> HIDE DEF N, Y, none
  <2> QED
    BY <1>1, RecursionExists
<1>3. g \in [0..N -> Seq(X)] /\ g[0] = <<>>
  BY <1>2 DEF Follows
<1>4. \A n \in 1..N : g[n] = g[n - 1] \o s[n]
  <2> TAKE n \in 1..N
  <2>1. g[n] = Glue(s, X)[n][g[n - 1]]
    BY <1>2 DEF Follows
  <2>2. g[n - 1] \in Seq(X)
    <3>1. n - 1 \in 0..N
      BY <1>1
    <3> QED
      BY <1>3, <3>1
  <2> QED
    BY <2>1, <2>2 DEF Glue
<1>5. CASE N = 0
  <2>1. FlattenSeq(s) = <<>>
    BY <1>5 DEF FlattenSeq
  <2> QED
    BY <2>1, <1>2, <1>3, <1>5
<1>6. CASE N # 0
  <2> DEFINE f == [i \in 1..N |-> g[i]]
             J == Joined(s)
  <2>1. ASSUME NEW i \in 1..N
        PROVE  f[i] = IF i = 1 THEN s[i] ELSE f[i - 1] \o s[i]
    <3>1. CASE i = 1
      <4>1. i - 1 = 0 /\ s[i] \in Seq(X)
        BY <3>1
      <4>2. g[i] = <<>> \o s[i]
        BY <1>3, <1>4, <4>1
      <4> QED
        BY <4>1, <4>2, <3>1
    <3>2. CASE i # 1
      <4>1. i - 1 \in 1..N
        BY <1>1, <3>2
      <4> QED
        BY <4>1, <1>4, <3>2
    <3> QED
      BY <3>1, <3>2
  <2>2. f = [i \in 1..N |-> IF i = 1 THEN s[i] ELSE f[i - 1] \o s[i]]
    BY <2>1
  <2>3. J = [i \in 1..N |-> IF i = 1 THEN s[i] ELSE J[i - 1] \o s[i]]
    BY <2>2 DEF Joined
  <2>4. FlattenSeq(s) = J[N]
    BY <1>6 DEF FlattenSeq, Joined
  <2> HIDE DEF J, f
  <2> DEFINE Q == {n \in Nat : n + 1 <= N => J[n + 1] = g[n + 1]}
  <2>5. 0 \in Q
    <3> SUFFICES ASSUME 1 <= N
                 PROVE  J[1] = g[1]
      OBVIOUS
    <3>1. 1 \in 1..N /\ 1 - 1 = 0 /\ s[1] \in Seq(X)
      OBVIOUS
    <3>2. J[1] = s[1]
      <4> HIDE DEF N
      <4> QED
        BY <2>3, <3>1
    <3>3. g[1] = <<>> \o s[1]
      BY <1>3, <1>4, <3>1
    <3> QED
      BY <3>1, <3>2, <3>3
  <2>6. ASSUME NEW n \in Nat, n \in Q
        PROVE  n + 1 \in Q
    <3> DEFINE m == (n + 1) + 1
    <3> SUFFICES ASSUME m <= N
                 PROVE  J[m] = g[m]
      OBVIOUS
    <3>1. m \in 1..N /\ m # 1 /\ m - 1 = n + 1 /\ n + 1 <= N
      BY <1>1
    <3>2. J[n + 1] = g[n + 1]
      BY <2>6, <3>1
    <3> HIDE DEF m, N
    <3>3. J[m] = J[m - 1] \o s[m] /\ g[m] = g[m - 1] \o s[m]
      BY <2>3, <1>4, <3>1
    <3> QED
      BY <3>1, <3>2, <3>3
  <2>7. \A n \in Nat : n \in Q
    <3> HIDE DEF Q
    <3> QED
      BY <2>5, <2>6, NumberInduction
  <2>8. N - 1 \in Nat /\ (N - 1) + 1 = N
    BY <1>1, <1>6
  <2>9. J[N] = g[N]
    <3>1. \A n \in Nat : n + 1 <= N => J[n + 1] = g[n + 1]
      BY <2>7
    <3>2. N <= N /\ N \in Nat
      BY <1>1
    <3> HIDE DEF N
    <3> QED
      BY <2>8, <3>1, <3>2
  <2> QED
    BY <1>2, <2>4, <2>9
<1> QED
  BY <1>5, <1>6

LEMMA FlattenOfNone == FlattenSeq(<<>>) = <<>>
  BY DEF FlattenSeq

LEMMA FlattenType ==
  ASSUME NEW X, NEW s \in Seq(Seq(X))
  PROVE  FlattenSeq(s) \in Seq(X)
<1>1. PICK g : Follows(g, Len(s), Seq(X), <<>>, Glue(s, X)) /\ FlattenSeq(s) = g[Len(s)]
  BY FlattenFollows
<1>2. Len(s) \in 0..Len(s)
  OBVIOUS
<1> QED
  BY <1>1, <1>2 DEF Follows

LEMMA FlattenAppend ==
  ASSUME NEW X, NEW s \in Seq(Seq(X)), NEW x \in Seq(X)
  PROVE  FlattenSeq(Append(s, x)) = FlattenSeq(s) \o x
<1> DEFINE u == Append(s, x)
           N == Len(s)
<1>1. /\ u \in Seq(Seq(X)) /\ Len(u) = N + 1 /\ N \in Nat /\ u[N + 1] = x
      /\ \A n \in 1..N : u[n] = s[n]
  OBVIOUS
<1>2. PICK g : Follows(g, N, Seq(X), <<>>, Glue(s, X)) /\ FlattenSeq(s) = g[N]
  BY FlattenFollows
<1>3. PICK h : Follows(h, N + 1, Seq(X), <<>>, Glue(u, X)) /\ FlattenSeq(u) = h[N + 1]
  <2> HIDE DEF u, N
  <2> QED
    BY <1>1, FlattenFollows
<1>4. ASSUME NEW n \in 1..N
      PROVE  Glue(s, X)[n] = Glue(u, X)[n]
  <2>1. n \in 1..Len(u) /\ n \in 1..Len(s)
    BY <1>1
  <2>2. u[n] = s[n]
    BY <1>1
  <2> HIDE DEF u, N
  <2>3. Glue(s, X)[n] = [list \in Seq(X) |-> list \o s[n]]
    BY <2>1 DEF Glue
  <2>4. Glue(u, X)[n] = [list \in Seq(X) |-> list \o u[n]]
    BY <2>1 DEF Glue
  <2> QED
    BY <2>2, <2>3, <2>4
<1>5. \A n \in 0..N : g[n] = h[n]
  <2> DEFINE M == N + 1
             none == <<>>
             Y == Seq(X)
  <2>1. N \in Nat /\ M \in Nat /\ N <= M
    OBVIOUS
  <2> HIDE DEF N, M, u, none, Y
  <2> QED
    BY <2>1, <1>2, <1>3, <1>4, FollowersAgree DEF M, none, Y
<1>6. h[N + 1] = Glue(u, X)[N + 1][h[N]] /\ h[N] = g[N]
  <2>1. N + 1 \in 1..(N + 1) /\ (N + 1) - 1 = N /\ N \in 0..N
    OBVIOUS
  <2> HIDE DEF N, u
  <2> QED
    BY <1>3, <1>5, <2>1 DEF Follows
<1>7. g[N] \in Seq(X)
  BY <1>2, FlattenType
<1>8. Glue(u, X)[N + 1][g[N]] = g[N] \o x
  <2>1. N + 1 \in 1..Len(u) /\ u[N + 1] = x
    BY <1>1
  <2> HIDE DEF u, N
  <2> QED
    BY <2>1, <1>7 DEF Glue
<1> QED
  BY <1>2, <1>3, <1>6, <1>8

-----------------------------------------------------------------------------
(* The graph of a plan.                                                    *)

LEMMA InitialSegment ==
  ASSUME NEW N \in Nat, NEW D, D \subseteq 1..N,
         \A n \in D : n # 1 => n - 1 \in D
  PROVE  \E m \in 0..N : D = 1..m
<1> DEFINE Out == {n \in 1..(N + 1) : n \notin D}
<1>1. N + 1 \in Out /\ Out \subseteq Nat
  OBVIOUS
<1>2. PICK k \in Out : \A n \in Out : k <= n
  <2> HIDE DEF Out
  <2> QED
    BY <1>1, LeastNumber
<1>3. \A n \in 1..(k - 1) : n \in D
  <2> TAKE n \in 1..(k - 1)
  <2>1. n \in 1..(N + 1) /\ k \in Nat /\ ~(k <= n)
    OBVIOUS
  <2> QED
    BY <2>1, <1>2
<1>4. \A n \in D : n < k
  <2> DEFINE Above == {n \in D : n > k}
  <2>1. Above = {}
    <3> SUFFICES ASSUME Above # {}
                 PROVE  FALSE
      OBVIOUS
    <3>1. Above \subseteq Nat
      <4>1. D \subseteq Nat
        OBVIOUS
      <4> QED
        BY <4>1, Zenon
    <3>2. PICK n \in Above : \A i \in Above : n <= i
      <4> HIDE DEF Above
      <4> QED
        BY <3>1, LeastNumber
    <3>3. n - 1 \in D /\ n \in Nat /\ k \in Nat /\ n # 1 /\ k < n
      OBVIOUS
    <3>4. n - 1 # k
      BY <3>3
    <3>5. n - 1 \in Above /\ n - 1 \in Nat
      BY <3>3, <3>4
    <3> QED
      BY <3>2, <3>5
  <2> TAKE n \in D
  <2>2. n # k /\ n \in Nat /\ k \in Nat /\ ~(n > k)
    BY <2>1
  <2> QED
    BY <2>2
<1>5. D = 1..(k - 1) /\ k - 1 \in 0..N
  <2>1. k \in 1..(N + 1)
    OBVIOUS
  <2>2. \A n \in D : n \in 1..(k - 1)
    BY <1>4, <2>1
  <2>3. k - 1 \in 0..N
    BY <2>1
  <2>4. D = 1..(k - 1)
    BY <1>3, <2>2, Zenon
  <2> QED
    BY <2>3, <2>4
<1> QED
  BY <1>5

LEMMA PlanFacts ==
  ASSUME NEW p, IsPlan(p)
  PROVE  /\ p.tasks \in Seq(TasksOf(p)) /\ p.tasks # <<>>
         /\ p.roles \in Seq(RolesOf(p)) /\ p.roles # <<>>
         /\ \A t \in TasksOf(p) : IsTask(t)
         /\ \A r \in RolesOf(p) : IsRole(r)
         /\ Len(p.tasks) \in Nat \ {0} /\ DOMAIN p.tasks = 1..Len(p.tasks)
  BY DEF IsPlan, TasksOf, RolesOf, IsList, ToSet

(* The last entry of an identifier is an entry, and of that identifier.    *)
LEMMA NamedFacts ==
  ASSUME NEW X, NEW list \in Seq(X), NEW id \in Ids(list)
  PROVE  /\ Named(list, id) \in ToSet(list)
         /\ Named(list, id).id = id
<1> DEFINE S == {n \in DOMAIN list : list[n].id = id}
           Z == {Len(list) - n : n \in S}
<1>1. S # {} /\ S \subseteq 1..Len(list) /\ Len(list) \in Nat
  BY DEF Ids
<1>2. Z # {} /\ Z \subseteq Nat
  BY <1>1
<1>3. PICK z \in Z : \A y \in Z : z <= y
  <2> HIDE DEF Z
  <2> QED
    BY <1>2, LeastNumber
<1>4. PICK n \in S : z = Len(list) - n
  OBVIOUS
<1>5. \A m \in S : m <= n
  <2> TAKE m \in S
  <2>1. Len(list) - n <= Len(list) - m /\ n \in Nat /\ m \in Nat
    BY <1>1, <1>3, <1>4
  <2> QED
    BY <2>1, <1>1
<1>6. n \in DOMAIN list /\ list[n].id = id /\ \A m \in DOMAIN list : list[m].id = id => m <= n
  BY <1>5
<1> QED
  BY <1>6 DEF Named, ToSet

(* Without duplicates an identifier names one entry.                       *)
LEMMA DistinctIds ==
  ASSUME NEW X, NEW list \in Seq(X), Duplicates(list) = {}
  PROVE  /\ \A m, n \in DOMAIN list : list[m].id = list[n].id => m = n
         /\ \A t \in ToSet(list) : t.id \in Ids(list) /\ Named(list, t.id) = t
<1>1. \A m, n \in DOMAIN list : list[m].id = list[n].id => m = n
  <2> SUFFICES ASSUME NEW m \in DOMAIN list, NEW n \in DOMAIN list,
                      list[m].id = list[n].id, m # n
               PROVE  FALSE
    OBVIOUS
  <2> DEFINE S == {k \in DOMAIN list : list[k].id = list[m].id}
  <2>1. IsFiniteSet(S) /\ {m, n} \subseteq S
    <3>1. Len(list) \in Nat /\ S \in SUBSET (1..Len(list))
      OBVIOUS
    <3>2. IsFiniteSet(1..Len(list))
      BY <3>1, CountUpTo
    <3> HIDE DEF S
    <3>3. IsFiniteSet(S)
      BY <3>1, <3>2, FS_Subset
    <3> QED
      BY <3>3 DEF S
  <2>2. Cardinality({m, n}) = 2
    <3>1. IsFiniteSet({m}) /\ Cardinality({m}) = 1
      BY FS_Singleton
    <3>2. Cardinality({m} \cup {n}) = 2
      <4>1. Cardinality({m} \cup {n}) = IF n \in {m} THEN Cardinality({m}) ELSE Cardinality({m}) + 1
        BY <3>1, FS_AddElement
      <4>2. n \notin {m}
        OBVIOUS
      <4>3. Cardinality({m} \cup {n}) = 1 + 1
        BY <3>1, <4>1, <4>2, Zenon
      <4>4. 1 + 1 = 2
        OBVIOUS
      <4> QED
        BY <4>3, <4>4, Zenon
    <3>3. {m} \cup {n} = {m, n}
      OBVIOUS
    <3> QED
      BY <3>2, <3>3
  <2>3. Cardinality(S) > 1
    <3> HIDE DEF S
    <3>1. Cardinality({m, n}) <= Cardinality(S) /\ Cardinality(S) \in Nat
      BY <2>1, FS_Subset, FS_CardinalityType
    <3> QED
      BY <2>2, <3>1
  <2>4. list[m].id \in Duplicates(list)
    BY <2>3 DEF Duplicates, Ids
  <2> QED
    BY <2>4
<1>2. ASSUME NEW t \in ToSet(list)
      PROVE  t.id \in Ids(list) /\ Named(list, t.id) = t
  <2>1. PICK m \in DOMAIN list : t = list[m]
    BY DEF ToSet
  <2>2. t.id \in Ids(list)
    BY <2>1 DEF Ids
  <2>3. PICK n \in DOMAIN list : Named(list, t.id) = list[n] /\ list[n].id = t.id
    BY <2>2, NamedFacts DEF ToSet
  <2> QED
    BY <1>1, <2>1, <2>2, <2>3
<1> QED
  BY <1>1, <1>2

LEMMA IdsFacts ==
  ASSUME NEW p, IsPlan(p)
  PROVE  /\ IdsInOrder(p) \in Seq(Ids(p.tasks)) /\ Len(IdsInOrder(p)) = Len(p.tasks)
         /\ ToSet(IdsInOrder(p)) = Ids(p.tasks)
         /\ IsFiniteSet(Ids(p.tasks))
         /\ Duplicates(p.tasks) = {} => Distinct(IdsInOrder(p))
         /\ \A id \in Ids(p.tasks) : Named(p.tasks, id) \in TasksOf(p)
         /\ \A t \in TasksOf(p) : t.id \in Ids(p.tasks)
<1> DEFINE L == IdsInOrder(p)
           I == Ids(p.tasks)
<1>1. /\ p.tasks \in Seq(TasksOf(p)) /\ Len(p.tasks) \in Nat /\ DOMAIN p.tasks = 1..Len(p.tasks)
  BY PlanFacts
<1>2. L \in Seq(I) /\ Len(L) = Len(p.tasks) /\ DOMAIN L = 1..Len(p.tasks)
  BY <1>1 DEF IdsInOrder, Ids
<1>3. ToSet(L) = I
  BY <1>1 DEF IdsInOrder, Ids, ToSet
<1>4. IsFiniteSet(I)
  <2> DEFINE f == [n \in 1..Len(p.tasks) |-> p.tasks[n].id]
  <2>1. f \in Surjection(1..Len(p.tasks), I)
    BY <1>1 DEF Surjection, Ids
  <2>2. IsFiniteSet(1..Len(p.tasks))
    BY <1>1, CountUpTo
  <2> HIDE DEF f, I
  <2> QED
    BY <2>1, <2>2, FS_Surjection
<1>5. ASSUME Duplicates(p.tasks) = {}
      PROVE  Distinct(L)
  <2>1. \A m, n \in DOMAIN p.tasks : p.tasks[m].id = p.tasks[n].id => m = n
    BY <1>1, <1>5, DistinctIds
  <2> QED
    BY <1>1, <2>1 DEF Distinct, IdsInOrder
<1>6. \A id \in I : Named(p.tasks, id) \in TasksOf(p)
  BY <1>1, NamedFacts DEF TasksOf
<1>7. \A t \in TasksOf(p) : t.id \in I
  BY DEF TasksOf, Ids, ToSet
<1> QED
  BY <1>2, <1>3, <1>4, <1>5, <1>6, <1>7

LEMMA ReadyIds ==
  ASSUME NEW p, NEW placed
  PROVE  Ready(p, placed) \subseteq Ids(p.tasks)
  BY DEF Ready

LEMMA PlacedUnfolds ==
  ASSUME NEW p, IsPlan(p)
  PROVE  /\ Placed(p) \in [0..Len(p.tasks) -> SUBSET Ids(p.tasks)]
         /\ Placed(p)[0] = {}
         /\ \A k \in 1..Len(p.tasks) :
              Placed(p)[k] = Placed(p)[k - 1] \cup Ready(p, Placed(p)[k - 1])
<1> DEFINE N == Len(p.tasks)
           Y == SUBSET Ids(p.tasks)
           G == [n \in 1..N |-> [placed \in Y |-> placed \cup Ready(p, placed)]]
           none == {}
           K == Placed(p)
<1>1. N \in Nat /\ none \in Y /\ G \in [1..N -> [Y -> Y]]
  BY PlanFacts, ReadyIds
<1>2. PICK f : Follows(f, N, Y, none, G)
  <2> HIDE DEF N, Y, none, G
  <2> QED
    BY <1>1, RecursionExists
<1>3. /\ f \in [0..N -> Y] /\ f[0] = {}
      /\ \A n \in 1..N : f[n] = f[n - 1] \cup Ready(p, f[n - 1])
  <2>1. f \in [0..N -> Y] /\ f[0] = {}
    <3> HIDE DEF N, Y
    <3> QED
      BY <1>2 DEF Follows
  <2>2. ASSUME NEW n \in 1..N
        PROVE  f[n] = f[n - 1] \cup Ready(p, f[n - 1])
    <3>1. f[n - 1] \in Y
      <4>1. n - 1 \in 0..N
        BY <1>1
      <4> HIDE DEF N, Y
      <4> QED
        BY <2>1, <4>1
    <3>2. f[n] = G[n][f[n - 1]]
      <4> HIDE DEF G, N, Y
      <4> QED
        BY <1>2 DEF Follows
    <3> HIDE DEF N, Y
    <3> QED
      BY <3>1, <3>2
  <2> QED
    BY <2>1, <2>2
<1>4. f = [k \in 0..N |-> IF k = 0 THEN {} ELSE f[k - 1] \cup Ready(p, f[k - 1])]
  <2>1. \A n \in 0..N : n = 0 \/ n \in 1..N
    BY <1>1
  <2>2. ASSUME NEW n \in 0..N
        PROVE  f[n] = IF n = 0 THEN {} ELSE f[n - 1] \cup Ready(p, f[n - 1])
    <3> HIDE DEF N, Y
    <3> QED
      BY <1>3, <2>1
  <2> HIDE DEF N, Y
  <2> QED
    BY <1>3, <2>2
<1>5. K = [k \in 0..N |-> IF k = 0 THEN {} ELSE K[k - 1] \cup Ready(p, K[k - 1])]
  BY <1>4 DEF Placed
<1> HIDE DEF K
<1> DEFINE Q == {k \in Nat : k <= N => K[k] \in Y}
<1>6. K[0] = {} /\ \A k \in 1..N : K[k] = K[k - 1] \cup Ready(p, K[k - 1])
  <2>1. \A k \in 1..N : k \in 0..N /\ k # 0
    BY <1>1
  <2>2. 0 \in 0..N
    BY <1>1
  <2> HIDE DEF N
  <2> QED
    BY <1>5, <2>1, <2>2
<1>7. 0 \in Q
  BY <1>6
<1>8. ASSUME NEW k \in Nat, k \in Q
      PROVE  k + 1 \in Q
  <2> SUFFICES ASSUME k + 1 <= N
               PROVE  K[k + 1] \in Y
    OBVIOUS
  <2>1. k + 1 \in 1..N /\ (k + 1) - 1 = k /\ k <= N
    BY <1>1
  <2>2. K[k] \in Y
    BY <1>8, <2>1
  <2>3. K[k + 1] = K[k] \cup Ready(p, K[k])
    <3> HIDE DEF N
    <3> QED
      BY <1>6, <2>1
  <2> QED
    BY <2>2, <2>3, ReadyIds
<1>9. \A k \in Nat : k \in Q
  <2> HIDE DEF Q
  <2> QED
    BY <1>7, <1>8, NumberInduction
<1>10. K \in [0..N -> Y]
  <2>1. \A k \in 0..N : K[k] \in Y
    BY <1>9, <1>1
  <2> HIDE DEF Y, N
  <2> QED
    BY <1>5, <2>1
<1> QED
  BY <1>6, <1>10 DEF K

(* deriveParallelWaves: the waves are what was ready, none of them empty,  *)
(* no task is in two of them, and a known dependency is in an earlier one. *)
LEMMA WaveFacts ==
  ASSUME NEW p, IsPlan(p), NEW W, W = ParallelWaves(p)
  PROVE  /\ W \in Seq(Seq(Ids(p.tasks))) /\ Len(W) \in Nat /\ Len(W) <= Len(p.tasks)
         /\ \A k \in 1..Len(W) :
              /\ W[k] \in Seq(Ids(p.tasks)) /\ W[k] # <<>>
              /\ ToSet(W[k]) = Ready(p, Placed(p)[k - 1])
              /\ Duplicates(p.tasks) = {} => Distinct(W[k])
         /\ \A k \in 1..Len(p.tasks) : k > Len(W) => Ready(p, Placed(p)[k - 1]) = {}
<1> DEFINE N == Len(p.tasks)
           I == Ids(p.tasks)
           P == Placed(p)
           R(k) == Ready(p, P[k - 1])
           D == {n \in DOMAIN p.tasks : R(n) # {}}
           L == IdsInOrder(p)
<1>1. N \in Nat /\ DOMAIN p.tasks = 1..N
  BY PlanFacts
<1>2. P \in [0..N -> SUBSET I] /\ \A k \in 1..N : P[k] = P[k - 1] \cup R(k)
  BY PlacedUnfolds
<1>3. /\ L \in Seq(I) /\ ToSet(L) = I
      /\ Duplicates(p.tasks) = {} => Distinct(L)
  BY IdsFacts
<1>4. W = [k \in D |-> Only(L, R(k))]
  BY DEF ParallelWaves
<1> HIDE DEF P, L
<1>5. \A n \in D : n # 1 => n - 1 \in D
  <2> SUFFICES ASSUME NEW n \in D, n # 1, n - 1 \notin D
               PROVE  FALSE
    OBVIOUS
  <2>1. n \in 1..N /\ n - 1 \in 1..N
    BY <1>1
  <2>2. R(n - 1) = {}
    BY <1>1, <2>1
  <2>3. P[n - 1] = P[(n - 1) - 1] \cup R(n - 1)
    BY <1>2, <2>1
  <2>4. P[n - 1] = P[(n - 1) - 1]
    BY <2>2, <2>3
  <2> QED
    BY <2>2, <2>4
<1>6. PICK m \in 0..N : D = 1..m
  <2>1. D \subseteq 1..N
    BY <1>1
  <2> HIDE DEF D, N
  <2> QED
    BY <1>1, <1>5, <2>1, InitialSegment
<1>7. ASSUME NEW k \in 1..m
      PROVE  /\ Only(L, R(k)) \in Seq(I) /\ Only(L, R(k)) # <<>>
             /\ ToSet(Only(L, R(k))) = R(k)
             /\ Duplicates(p.tasks) = {} => Distinct(Only(L, R(k)))
  <2> DEFINE r == R(k)
             o == Only(L, r)
  <2>1. r # {} /\ r \subseteq I
    <3>1. k \in D
      BY <1>6
    <3> QED
      BY <3>1, ReadyIds
  <2> HIDE DEF r
  <2>2. o \in Seq(I) /\ ToSet(o) = ToSet(L) \cap r /\ (Distinct(L) => Distinct(o))
    BY <1>3, OnlyFacts
  <2> HIDE DEF o
  <2>3. ToSet(o) = r
    BY <1>3, <2>1, <2>2
  <2>4. o # <<>>
    BY <2>1, <2>3 DEF ToSet
  <2> QED
    BY <1>3, <2>2, <2>3, <2>4 DEF o, r
<1>8. /\ W = [k \in 1..m |-> Only(L, R(k))] /\ m \in Nat /\ m <= N
  <2>1. m \in Nat /\ m <= N
    BY <1>1
  <2> HIDE DEF D, R, N
  <2>2. W = [k \in 1..m |-> Only(L, R(k))]
    BY <1>4, <1>6
  <2> QED
    BY <2>1, <2>2
<1> HIDE DEF D, R, I
<1>9. W \in Seq(Seq(I)) /\ Len(W) = m
  <2>1. W \in [1..m -> Seq(I)]
    BY <1>7, <1>8
  <2> QED
    BY <1>8, <2>1
<1>10. \A k \in 1..m : W[k] = Only(L, R(k))
  BY <1>8
<1>11. \A k \in 1..N : k > m => R(k) = {}
  BY <1>1, <1>6, <1>8 DEF D
<1> QED
  BY <1>1, <1>7, <1>8, <1>9, <1>10, <1>11 DEF R, I, P

LEMMA WavesPlace ==
  ASSUME NEW p, IsPlan(p), NEW W, W = ParallelWaves(p)
  PROVE  \A k \in 0..Len(W) : \A id :
           id \in Placed(p)[k] <=> \E j \in 1..k : id \in ToSet(W[j])
<1> DEFINE N == Len(W)
           P == Placed(p)
           Good(k) == \A id : id \in P[k] <=> \E j \in 1..k : id \in ToSet(W[j])
           Q == {k \in Nat : k <= N => Good(k)}
<1>1. /\ N \in Nat /\ N <= Len(p.tasks) /\ Len(p.tasks) \in Nat
      /\ \A k \in 1..N : ToSet(W[k]) = Ready(p, P[k - 1])
  BY WaveFacts, PlanFacts
<1>2. P[0] = {} /\ \A k \in 1..Len(p.tasks) : P[k] = P[k - 1] \cup Ready(p, P[k - 1])
  BY PlacedUnfolds
<1> HIDE DEF P
<1>3. 0 \in Q
  BY <1>2
<1>4. ASSUME NEW k \in Nat, k \in Q
      PROVE  k + 1 \in Q
  <2> SUFFICES ASSUME k + 1 <= N
               PROVE  Good(k + 1)
    OBVIOUS
  <2>1. k + 1 \in 1..N /\ k + 1 \in 1..Len(p.tasks) /\ (k + 1) - 1 = k /\ k <= N
    BY <1>1
  <2>2. Good(k)
    BY <1>4, <2>1
  <2>3. P[k + 1] = P[k] \cup ToSet(W[k + 1])
    <3> HIDE DEF N
    <3> QED
      BY <1>1, <1>2, <2>1
  <2>4. 1..(k + 1) = 1..k \cup {k + 1}
    OBVIOUS
  <2> QED
    BY <2>2, <2>3, <2>4
<1>5. \A k \in Nat : k \in Q
  <2> HIDE DEF Q
  <2> QED
    BY <1>3, <1>4, NumberInduction
<1> QED
  BY <1>1, <1>5 DEF P

LEMMA WaveOrder ==
  ASSUME NEW p, IsPlan(p), NEW W, W = ParallelWaves(p), NEW k \in 1..Len(W),
         NEW id \in ToSet(W[k])
  PROVE  /\ id \in Ids(p.tasks)
         /\ \A d \in KnownDeps(p, id) : \E j \in 1..(k - 1) : d \in ToSet(W[j])
         /\ \A j \in 1..Len(W) : id \in ToSet(W[j]) => j = k
<1> DEFINE P == Placed(p)
           Upto(j) == \E i \in 1..j : id \in ToSet(W[i])
<1>1. /\ Len(W) \in Nat /\ \A j \in 1..Len(W) : ToSet(W[j]) = Ready(p, P[j - 1])
      /\ \A j \in 0..Len(W) : \A e : e \in P[j] <=> \E i \in 1..j : e \in ToSet(W[i])
  BY WaveFacts, WavesPlace
<1> HIDE DEF P
<1>2. \A j \in 1..Len(W) : j - 1 \in 0..Len(W)
  BY <1>1
<1>3. id \in Ids(p.tasks) /\ KnownDeps(p, id) \subseteq P[k - 1]
  BY <1>1 DEF Ready
<1>4. \A d \in KnownDeps(p, id) : \E j \in 1..(k - 1) : d \in ToSet(W[j])
  BY <1>1, <1>2, <1>3
<1>5. ASSUME NEW j \in 1..Len(W), id \in ToSet(W[j])
      PROVE  j = k
  <2>1. id \notin P[j - 1] /\ id \notin P[k - 1]
    BY <1>1, <1>5 DEF Ready
  <2>2. ~Upto(j - 1) /\ ~Upto(k - 1)
    BY <1>1, <1>2, <2>1
  <2>3. ~(k <= j - 1) /\ ~(j <= k - 1)
    BY <2>2, <1>5
  <2> QED
    BY <2>3, <1>1
<1> QED
  BY <1>3, <1>4, <1>5

-----------------------------------------------------------------------------
(* The batches of a plan.                                                  *)

LEMMA Division ==
  ASSUME NEW a \in Nat, NEW b \in 1..16
  PROVE  /\ a \div b \in Nat /\ a % b \in 0..(b - 1)
         /\ a = (a \div b) * b + (a % b)
<1>1. b \in Nat /\ b > 0
  OBVIOUS
<1> QED
  BY <1>1

LEMMA Products ==
  ASSUME NEW a \in Nat, NEW b \in Nat, NEW c \in Nat
  PROVE  /\ a * c \in Nat /\ (a + 1) * c = a * c + c
         /\ a <= b => a * c <= b * c
<1>1. a * c \in Nat /\ (a + 1) * c = a * c + c
  OBVIOUS
<1>2. ASSUME a <= b
      PROVE  a * c <= b * c
  <2>1. b - a \in Nat /\ b * c = a * c + (b - a) * c /\ (b - a) * c \in Nat
    BY <1>2
  <2> QED
    BY <1>1, <2>1
<1> QED
  BY <1>1, <1>2

LEMMA SubSeqAt ==
  ASSUME NEW X, NEW s \in Seq(X), NEW a \in Nat, NEW b \in Nat, a < b, b <= Len(s)
  PROVE  /\ SubSeq(s, a + 1, b) \in Seq(X) /\ Len(SubSeq(s, a + 1, b)) = b - a
         /\ \A i \in 1..(b - a) : a + i \in 1..Len(s) /\ SubSeq(s, a + 1, b)[i] = s[a + i]
<1>1. \A i \in 1..(b - a) : a + i \in 1..Len(s) /\ (a + 1) + i - 1 = a + i
  OBVIOUS
<1>2. SubSeq(s, a + 1, b) = [i \in 1..(b - a) |-> s[(a + 1) + i - 1]]
  OBVIOUS
<1>3. SubSeq(s, a + 1, b) = [i \in 1..(b - a) |-> s[a + i]]
  BY <1>1, <1>2
<1>4. [i \in 1..(b - a) |-> s[a + i]] \in Seq(X) /\ Len([i \in 1..(b - a) |-> s[a + i]]) = b - a
  <2>1. b - a \in Nat
    OBVIOUS
  <2>2. \A i \in 1..(b - a) : s[a + i] \in X
    BY <1>1
  <2> QED
    BY <2>1, <2>2
<1> QED
  BY <1>1, <1>3, <1>4

(* The slices are not empty, not longer than the size, cover the wave and  *)
(* share none of its places.                                               *)
CutUp(S, wave, size, X) ==
  /\ S \in Seq(Seq(X))
  /\ \A k \in 1..Len(S) :
       /\ S[k] \in Seq(X) /\ S[k] # <<>> /\ Len(S[k]) <= size
       /\ ToSet(S[k]) \subseteq ToSet(wave)
  /\ \A x \in ToSet(wave) : \E k \in 1..Len(S) : x \in ToSet(S[k])
  /\ Distinct(wave) =>
       \A j, k \in 1..Len(S) : ToSet(S[j]) \cap ToSet(S[k]) # {} => j = k

(* wave.slice. *)
LEMMA SliceFacts ==
  ASSUME NEW X, NEW wave \in Seq(X), NEW size \in 1..16, NEW S, S = Slices(wave, size)
  PROVE  CutUp(S, wave, size, X)
<1> DEFINE len == Len(wave)
           N == (len + size - 1) \div size
           from(k) == (k - 1) * size
           upto(k) == IF k * size < len THEN k * size ELSE len
<1>1. len \in Nat /\ size \in Nat /\ size >= 1 /\ size <= 16 /\ len + size - 1 \in Nat
  OBVIOUS
<1>2. N \in Nat /\ N * size <= len + size - 1 /\ len + size - 1 < N * size + size
  <2> DEFINE a == len + size - 1
  <2>1. a \in Nat
    BY <1>1
  <2> HIDE DEF a
  <2>2. a \div size \in Nat /\ a % size \in 0..(size - 1) /\ a = (a \div size) * size + (a % size)
    BY <2>1, Division
  <2> QED
    BY <1>1, <2>1, <2>2 DEF a
<1> HIDE DEF N
<1>3. ASSUME NEW k \in 1..N
      PROVE  /\ from(k) \in Nat /\ k * size = from(k) + size /\ from(k) < len
             /\ upto(k) \in Nat /\ from(k) < upto(k) /\ upto(k) <= len
             /\ upto(k) - from(k) <= size
  <2>1. k - 1 \in Nat /\ k \in Nat /\ k <= N /\ (k - 1) + 1 = k
    BY <1>2
  <2>2. from(k) \in Nat /\ k * size = from(k) + size
    BY <1>1, <2>1, Products
  <2>3. k * size <= N * size
    BY <1>1, <1>2, <2>1, Products
  <2>4. from(k) < len
    BY <1>1, <1>2, <2>2, <2>3
  <2> QED
    BY <1>1, <2>2, <2>4
<1> DEFINE T(k) == SubSeq(wave, from(k) + 1, upto(k))
<1>4. S = [k \in 1..N |-> T(k)]
  <2>1. S = [k \in 1..N |-> SubSeq(wave, (k - 1) * size + 1, IF k * size < len THEN k * size ELSE len)]
    BY DEF Slices, N
  <2> QED
    BY <2>1
<1>5. ASSUME NEW k \in 1..N
      PROVE  /\ T(k) \in Seq(X) /\ Len(T(k)) = upto(k) - from(k)
             /\ \A i \in 1..Len(T(k)) : from(k) + i \in 1..len /\ T(k)[i] = wave[from(k) + i]
  <2>1. /\ from(k) \in Nat /\ upto(k) \in Nat /\ from(k) < upto(k) /\ upto(k) <= len
    BY <1>3
  <2> DEFINE a == from(k)
             b == upto(k)
  <2>2. a \in Nat /\ b \in Nat /\ a < b /\ b <= Len(wave)
    BY <2>1
  <2> HIDE DEF a, b
  <2>3. /\ SubSeq(wave, a + 1, b) \in Seq(X) /\ Len(SubSeq(wave, a + 1, b)) = b - a
        /\ \A i \in 1..(b - a) : a + i \in 1..len /\ SubSeq(wave, a + 1, b)[i] = wave[a + i]
    BY <2>2, SubSeqAt
  <2>4. T(k) = SubSeq(wave, a + 1, b)
    BY DEF a, b
  <2> HIDE DEF T, from, upto, len
  <2> QED
    BY <2>3, <2>4 DEF a, b
<1>6. S \in Seq(Seq(X)) /\ Len(S) = N /\ \A k \in 1..N : S[k] = T(k)
  <2>1. \A k \in 1..N : T(k) \in Seq(X)
    BY <1>5
  <2> HIDE DEF T
  <2> QED
    BY <1>2, <1>4, <2>1
<1> HIDE DEF T, from, upto
<1>7. ASSUME NEW k \in 1..N
      PROVE  /\ S[k] \in Seq(X) /\ S[k] # <<>> /\ Len(S[k]) <= size
             /\ ToSet(S[k]) \subseteq ToSet(wave)
  <2>1. S[k] \in Seq(X) /\ Len(S[k]) <= size /\ Len(S[k]) # 0
    BY <1>3, <1>5, <1>6
  <2>2. ASSUME NEW i \in 1..Len(S[k])
        PROVE  S[k][i] \in ToSet(wave)
    <3>1. S[k] = T(k)
      BY <1>6
    <3>2. from(k) + i \in 1..len /\ S[k][i] = wave[from(k) + i]
      BY <1>5, <3>1
    <3>3. \A n \in 1..len : wave[n] \in ToSet(wave)
      BY DEF ToSet
    <3> QED
      BY <3>2, <3>3
  <2>3. \A x \in ToSet(S[k]) : \E i \in 1..Len(S[k]) : x = S[k][i]
    BY <2>1 DEF ToSet
  <2> QED
    BY <2>1, <2>2, <2>3
<1>8. ASSUME NEW x \in ToSet(wave)
      PROVE  \E k \in 1..N : x \in ToSet(S[k])
  <2>1. PICK n \in 1..len : x = wave[n]
    BY DEF ToSet
  <2> DEFINE a == n - 1
             q == a \div size
             r == a % size
  <2>2. a \in Nat /\ n \in Nat /\ n <= len
    OBVIOUS
  <2> HIDE DEF a
  <2>3. q \in Nat /\ r \in 0..(size - 1) /\ a = q * size + r
    BY <2>2, Division
  <2> HIDE DEF q, r
  <2> DEFINE k == q + 1
  <2>4. k \in Nat /\ k - 1 = q /\ k * size = q * size + size /\ q * size \in Nat
    BY <1>1, <2>3, Products
  <2>5. k \in 1..N
    <3>1. SUFFICES ASSUME ~(k <= N)
                   PROVE  FALSE
      BY <1>2, <2>3
    <3>2. N <= q
      BY <1>2, <2>3, <3>1
    <3>3. N * size <= q * size
      BY <1>1, <1>2, <2>3, <3>2, Products
    <3> QED
      BY <1>1, <1>2, <2>2, <2>3, <2>4, <3>3 DEF a
  <2>6. from(k) = q * size
    BY <2>4 DEF from
  <2>7. from(k) + (r + 1) = n /\ r + 1 \in 1..Len(S[k])
    <3>1. from(k) + (r + 1) = n
      BY <1>1, <2>3, <2>4, <2>6 DEF a
    <3>2. Len(S[k]) = upto(k) - from(k)
      BY <1>5, <1>6, <2>5
    <3>3. upto(k) >= n
      BY <1>1, <2>2, <2>3, <2>4 DEF upto, a
    <3>4. upto(k) \in Nat /\ from(k) \in Nat
      BY <1>3, <2>5
    <3> QED
      BY <1>1, <2>2, <2>3, <3>1, <3>2, <3>3, <3>4
  <2>8. S[k][r + 1] = x
    <3>1. S[k] = T(k) /\ T(k)[r + 1] = wave[from(k) + (r + 1)]
      BY <1>5, <1>6, <2>5, <2>7
    <3> QED
      BY <2>1, <2>7, <3>1
  <2>9. x \in ToSet(S[k])
    BY <2>7, <2>8, <1>7, <2>5 DEF ToSet
  <2> QED
    BY <2>5, <2>9
<1>9. ASSUME Distinct(wave), NEW j \in 1..N, NEW k \in 1..N,
             ToSet(S[j]) \cap ToSet(S[k]) # {}
      PROVE  j = k
  <2>1. PICK m \in 1..Len(S[j]), n \in 1..Len(S[k]) : S[j][m] = S[k][n]
    <3>1. PICK x : x \in ToSet(S[j]) /\ x \in ToSet(S[k])
      BY <1>9, Zenon
    <3>2. DOMAIN S[j] = 1..Len(S[j]) /\ DOMAIN S[k] = 1..Len(S[k])
      BY <1>7
    <3> QED
      BY <3>1, <3>2 DEF ToSet
  <2>2. /\ from(j) + m \in 1..len /\ from(k) + n \in 1..len
        /\ S[j][m] = wave[from(j) + m] /\ S[k][n] = wave[from(k) + n]
    BY <1>5, <1>6, <2>1
  <2>3. from(j) + m = from(k) + n
    <3>1. DOMAIN wave = 1..len
      OBVIOUS
    <3>2. wave[from(j) + m] = wave[from(k) + n]
      BY <2>1, <2>2
    <3> HIDE DEF len
    <3> QED
      BY <1>9, <2>2, <3>1, <3>2, Zenon DEF Distinct
  <2>4. m \in 1..size /\ n \in 1..size
    <3>1. Len(S[j]) \in Nat /\ Len(S[k]) \in Nat /\ Len(S[j]) <= size /\ Len(S[k]) <= size
      BY <1>7
    <3> QED
      BY <1>1, <2>1, <3>1
  <2>5. /\ from(j) \in Nat /\ from(k) \in Nat
        /\ j * size = from(j) + size /\ k * size = from(k) + size
    BY <1>3
  <2>6. ASSUME NEW a \in 1..N, NEW b \in 1..N, a < b
        PROVE  from(a) + size <= from(b)
    <3>1. a \in Nat /\ b - 1 \in Nat /\ a <= b - 1
      BY <1>2, <2>6
    <3>2. a * size <= (b - 1) * size
      BY <1>1, <3>1, Products
    <3>3. a * size = from(a) + size /\ from(b) = (b - 1) * size
      BY <1>3 DEF from
    <3> QED
      BY <3>2, <3>3
  <2>7. ~(j < k)
    BY <2>3, <2>4, <2>5, <2>6, <1>1
  <2>8. ~(k < j)
    BY <2>3, <2>4, <2>5, <2>6, <1>1
  <2> QED
    BY <2>7, <2>8, <1>2
<1>10. \A j, k \in 1..N : Distinct(wave) => (ToSet(S[j]) \cap ToSet(S[k]) # {} => j = k)
  BY <1>9
<1> QED
  BY <1>6, <1>7, <1>8, <1>10 DEF CutUp

(* Batches that take the first m waves one after the other.                *)
InBatches(B, wave, W, m, size, I) ==
  /\ B \in Seq(Seq(I)) /\ wave \in [1..Len(B) -> 1..m]
  /\ \A i, j \in 1..Len(B) : i <= j => wave[i] <= wave[j]
  /\ \A i \in 1..Len(B) :
       /\ B[i] \in Seq(I) /\ B[i] # <<>> /\ Len(B[i]) <= size
       /\ ToSet(B[i]) \subseteq ToSet(W[wave[i]])
  /\ \A k \in 1..m : \A x \in ToSet(W[k]) : \E i \in 1..Len(B) : wave[i] = k /\ x \in ToSet(B[i])
  /\ \A i, j \in 1..Len(B) : ToSet(B[i]) \cap ToSet(B[j]) # {} => i = j

LEMMA ConcatAt ==
  ASSUME NEW X, NEW s \in Seq(X), NEW t \in Seq(X)
  PROVE  /\ s \o t \in Seq(X) /\ Len(s \o t) = Len(s) + Len(t)
         /\ \A i \in 1..Len(s) : i \in 1..Len(s \o t) /\ (s \o t)[i] = s[i]
         /\ \A i \in 1..Len(t) : Len(s) + i \in 1..Len(s \o t) /\ (s \o t)[Len(s) + i] = t[i]
         /\ \A i \in 1..Len(s \o t) :
              i \in 1..Len(s) \/ (i - Len(s) \in 1..Len(t) /\ i = Len(s) + (i - Len(s)))
<1>1. /\ s \o t \in Seq(X) /\ Len(s \o t) = Len(s) + Len(t)
      /\ \A i \in 1 .. Len(s) + Len(t) :
           (s \o t)[i] = IF i <= Len(s) THEN s[i] ELSE t[i - Len(s)]
  BY ConcatProperties
<1>2. Len(s) \in Nat /\ Len(t) \in Nat
  OBVIOUS
<1>3. \A i \in 1..Len(s) : i \in 1..Len(s) + Len(t) /\ i <= Len(s)
  BY <1>2
<1>4. \A i \in 1..Len(t) :
        Len(s) + i \in 1..Len(s) + Len(t) /\ ~(Len(s) + i <= Len(s)) /\ (Len(s) + i) - Len(s) = i
  BY <1>2
<1>5. \A i \in 1..Len(s) + Len(t) :
        i \in 1..Len(s) \/ (i - Len(s) \in 1..Len(t) /\ i = Len(s) + (i - Len(s)))
  BY <1>2
<1> QED
  BY <1>1, <1>3, <1>4, <1>5

LEMMA OneWaveMore ==
  ASSUME NEW I, NEW W, NEW m \in Nat, NEW size \in 1..16, NEW B, NEW wave,
         InBatches(B, wave, W, m, size, I),
         W[m + 1] \in Seq(I), Distinct(W[m + 1]),
         \A k \in 1..m : ToSet(W[k]) \cap ToSet(W[m + 1]) = {}
  PROVE  \E more : InBatches(B \o Slices(W[m + 1], size), more, W, m + 1, size, I)
<1> DEFINE w == W[m + 1]
           S == Slices(w, size)
           C == B \o S
           n == Len(B)
           more == [i \in 1..Len(C) |-> IF i <= n THEN wave[i] ELSE m + 1]
<1>1. /\ B \in Seq(Seq(I)) /\ wave \in [1..n -> 1..m] /\ n \in Nat
      /\ \A i, j \in 1..n : i <= j => wave[i] <= wave[j]
      /\ \A i \in 1..n : /\ B[i] \in Seq(I) /\ B[i] # <<>> /\ Len(B[i]) <= size
                         /\ ToSet(B[i]) \subseteq ToSet(W[wave[i]])
      /\ \A k \in 1..m : \A x \in ToSet(W[k]) : \E i \in 1..n : wave[i] = k /\ x \in ToSet(B[i])
      /\ \A i, j \in 1..n : ToSet(B[i]) \cap ToSet(B[j]) # {} => i = j
  <2>1. B \in Seq(Seq(I))
    BY DEF InBatches
  <2>2. n \in Nat
    BY <2>1
  <2> QED
    BY <2>2, Zenon DEF InBatches
<1>2. /\ S \in Seq(Seq(I)) /\ Len(S) \in Nat
      /\ \A k \in 1..Len(S) :
           /\ S[k] \in Seq(I) /\ S[k] # <<>> /\ Len(S[k]) <= size
           /\ ToSet(S[k]) \subseteq ToSet(w)
      /\ \A x \in ToSet(w) : \E k \in 1..Len(S) : x \in ToSet(S[k])
      /\ \A j, k \in 1..Len(S) : ToSet(S[j]) \cap ToSet(S[k]) # {} => j = k
  <2>0. w \in Seq(I) /\ Distinct(w) /\ size \in 1..16 /\ S = Slices(w, size)
    OBVIOUS
  <2> HIDE DEF w, S
  <2>1. /\ S \in Seq(Seq(I))
        /\ \A k \in 1..Len(S) :
           /\ S[k] \in Seq(I) /\ S[k] # <<>> /\ Len(S[k]) <= size
           /\ ToSet(S[k]) \subseteq ToSet(w)
        /\ \A x \in ToSet(w) : \E k \in 1..Len(S) : x \in ToSet(S[k])
        /\ \A j, k \in 1..Len(S) : ToSet(S[j]) \cap ToSet(S[k]) # {} => j = k
    <3>1. CutUp(S, w, size, I)
      BY <2>0, SliceFacts
    <3> QED
      BY <2>0, <3>1, Zenon DEF CutUp
  <2>2. Len(S) \in Nat
    BY <2>1
  <2> QED
    BY <2>1, <2>2, Zenon
<1> HIDE DEF S
<1>3. /\ C \in Seq(Seq(I)) /\ Len(C) = n + Len(S)
      /\ \A i \in 1..n : i \in 1..Len(C) /\ C[i] = B[i]
      /\ \A i \in 1..Len(S) : n + i \in 1..Len(C) /\ C[n + i] = S[i]
      /\ \A i \in 1..Len(C) : i \in 1..n \/ (i - n \in 1..Len(S) /\ i = n + (i - n))
  BY <1>1, <1>2, ConcatAt
<1> HIDE DEF C, n, w
<1>4. /\ \A i \in 1..n : more[i] = wave[i] /\ wave[i] \in 1..m
      /\ \A i \in 1..Len(S) : more[n + i] = m + 1
  <2>1. \A i \in 1..n : i <= n
    OBVIOUS
  <2>2. \A i \in 1..Len(S) : ~(n + i <= n)
    BY <1>1, <1>2
  <2>3. \A i \in 1..n : wave[i] \in 1..m
    BY <1>1
  <2> QED
    BY <1>3, <2>1, <2>2, <2>3
<1>5. more \in [1..Len(C) -> 1..(m + 1)]
  BY <1>1, <1>3
<1> HIDE DEF more
<1>6. ASSUME NEW i \in 1..Len(C)
      PROVE  \/ i \in 1..n /\ C[i] = B[i] /\ more[i] = wave[i] /\ more[i] \in 1..m
             \/ i - n \in 1..Len(S) /\ C[i] = S[i - n] /\ more[i] = m + 1 /\ i > n
  <2>1. CASE i \in 1..n
    BY <2>1, <1>3, <1>4
  <2>2. CASE i - n \in 1..Len(S) /\ i = n + (i - n)
    <3>1. i > n
      BY <2>2, <1>1, <1>2
    <3> QED
      BY <2>2, <3>1, <1>3, <1>4
  <2> QED
    BY <2>1, <2>2, <1>3
<1>7. \A i, j \in 1..Len(C) : i <= j => more[i] <= more[j]
  <2> TAKE i, j \in 1..Len(C)
  <2> SUFFICES ASSUME i <= j
               PROVE  more[i] <= more[j]
    OBVIOUS
  <2>1. CASE j \in 1..n /\ more[j] = wave[j] /\ more[j] \in 1..m
    <3>1. i \in 1..n /\ more[i] = wave[i]
      BY <2>1, <1>1, <1>4
    <3> QED
      BY <2>1, <3>1, <1>1
  <2>2. CASE more[j] = m + 1
    BY <2>2, <1>5
  <2> QED
    BY <2>1, <2>2, <1>6
<1>8. ASSUME NEW i \in 1..Len(C)
      PROVE  /\ C[i] \in Seq(I) /\ C[i] # <<>> /\ Len(C[i]) <= size
             /\ ToSet(C[i]) \subseteq ToSet(W[more[i]])
  <2>1. CASE i \in 1..n /\ C[i] = B[i] /\ more[i] = wave[i]
    BY <2>1, <1>1
  <2>2. CASE i - n \in 1..Len(S) /\ C[i] = S[i - n] /\ more[i] = m + 1
    BY <2>2, <1>2 DEF w
  <2> QED
    BY <2>1, <2>2, <1>6
<1>9. ASSUME NEW k \in 1..(m + 1), NEW x \in ToSet(W[k])
      PROVE  \E i \in 1..Len(C) : more[i] = k /\ x \in ToSet(C[i])
  <2>1. CASE k \in 1..m
    <3>1. PICK i \in 1..n : wave[i] = k /\ x \in ToSet(B[i])
      BY <2>1, <1>1
    <3>2. i \in 1..Len(C) /\ C[i] = B[i] /\ more[i] = k
      BY <3>1, <1>3, <1>4
    <3> QED
      BY <3>1, <3>2
  <2>2. CASE k = m + 1
    <3>1. PICK i \in 1..Len(S) : x \in ToSet(S[i])
      BY <2>2, <1>2 DEF w
    <3>2. n + i \in 1..Len(C) /\ C[n + i] = S[i] /\ more[n + i] = k
      BY <2>2, <1>3, <1>4
    <3> QED
      BY <3>1, <3>2
  <2> QED
    BY <2>1, <2>2
<1>10. ASSUME NEW i \in 1..Len(C), NEW j \in 1..Len(C), NEW x, x \in ToSet(C[i]), x \in ToSet(C[j])
       PROVE  i = j
  <2>1. \A a \in 1..n : x \in ToSet(B[a]) => x \notin ToSet(w)
    <3> TAKE a \in 1..n
    <3>1. ToSet(B[a]) \subseteq ToSet(W[wave[a]]) /\ wave[a] \in 1..m
      BY <1>1
    <3>2. ToSet(W[wave[a]]) \cap ToSet(w) = {}
      BY <3>1 DEF w
    <3> QED
      BY <3>1, <3>2
  <2>2. \A b \in 1..Len(S) : x \in ToSet(S[b]) => x \in ToSet(w)
    BY <1>2
  <2>3. CASE i \in 1..n /\ C[i] = B[i] /\ j \in 1..n /\ C[j] = B[j]
    BY <2>3, <1>1, <1>10
  <2>4. CASE /\ i - n \in 1..Len(S) /\ C[i] = S[i - n]
             /\ j - n \in 1..Len(S) /\ C[j] = S[j - n]
    <3>1. i - n = j - n
      BY <2>4, <1>2, <1>10
    <3> QED
      BY <3>1, <1>1, <1>3, <1>2
  <2>5. CASE i \in 1..n /\ C[i] = B[i] /\ j - n \in 1..Len(S) /\ C[j] = S[j - n]
    BY <2>1, <2>2, <2>5, <1>10
  <2>6. CASE j \in 1..n /\ C[j] = B[j] /\ i - n \in 1..Len(S) /\ C[i] = S[i - n]
    BY <2>1, <2>2, <2>6, <1>10
  <2> QED
    BY <1>6, <2>3, <2>4, <2>5, <2>6
<1>11. \A i, j \in 1..Len(C) : ToSet(C[i]) \cap ToSet(C[j]) # {} => i = j
  BY <1>10
<1>12. InBatches(C, more, W, m + 1, size, I)
  BY <1>3, <1>5, <1>7, <1>8, <1>9, <1>11 DEF InBatches
<1> QED
  BY <1>12 DEF C, S, w

LEMMA BatchesFollowWaves ==
  ASSUME NEW p, IsPlan(p), Duplicates(p.tasks) = {}, NEW W, W = ParallelWaves(p)
  PROVE  \E wave : InBatches(Batches(p), wave, W, Len(W), p.maxConcurrent, Ids(p.tasks))
<1> DEFINE I == Ids(p.tasks)
           size == p.maxConcurrent
           N == Len(W)
           V(m) == [k \in 1..m |-> Slices(W[k], size)]
           Good(m) == /\ V(m) \in Seq(Seq(Seq(I)))
                      /\ \E wave : InBatches(FlattenSeq(V(m)), wave, W, m, size, I)
           Q == {m \in Nat : m <= N => Good(m)}
<1>1. /\ W \in Seq(Seq(I)) /\ N \in Nat
      /\ \A k \in 1..N : W[k] \in Seq(I) /\ Distinct(W[k])
  BY WaveFacts
<1>2. \A j, k \in 1..N : ToSet(W[j]) \cap ToSet(W[k]) # {} => j = k
  <2> SUFFICES ASSUME NEW j \in 1..N, NEW k \in 1..N, NEW x, x \in ToSet(W[j]), x \in ToSet(W[k])
               PROVE  j = k
    OBVIOUS
  <2> QED
    BY WaveOrder
<1>3. size \in 1..16
  BY DEF IsPlan
<1> HIDE DEF I, size, N
<1>4. 0 \in Q
  <2>1. V(0) = <<>>
    OBVIOUS
  <2>2. FlattenSeq(V(0)) = <<>>
    BY <2>1, FlattenOfNone
  <2> DEFINE none == [i \in 1..0 |-> 1]
  <2>3. InBatches(<<>>, none, W, 0, size, I)
    BY DEF InBatches
  <2> HIDE DEF none
  <2> QED
    BY <2>1, <2>2, <2>3
<1>5. ASSUME NEW m \in Nat, m \in Q
      PROVE  m + 1 \in Q
  <2> SUFFICES ASSUME m + 1 <= N
               PROVE  Good(m + 1)
    <3> HIDE DEF Good
    <3> QED
      OBVIOUS
  <2>1. m + 1 \in 1..N /\ m <= N
    BY <1>1
  <2>2. V(m) \in Seq(Seq(Seq(I))) /\ \E wave : InBatches(FlattenSeq(V(m)), wave, W, m, size, I)
    <3>1. Good(m)
      <4> HIDE DEF Good
      <4> QED
        BY <1>5, <2>1
    <3> HIDE DEF V
    <3> QED
      BY <3>1
  <2>3. PICK wave : InBatches(FlattenSeq(V(m)), wave, W, m, size, I)
    BY <2>2
  <2> DEFINE S == Slices(W[m + 1], size)
  <2>4. S \in Seq(Seq(I))
    <3>1. CutUp(S, W[m + 1], size, I)
      <4> DEFINE w == W[m + 1]
      <4>1. w \in Seq(I)
        BY <1>1, <2>1
      <4> HIDE DEF w
      <4>2. CutUp(Slices(w, size), w, size, I)
        BY <4>1, <1>3, SliceFacts
      <4> QED
        BY <4>2 DEF w
    <3> QED
      BY <3>1 DEF CutUp
  <2> HIDE DEF S
  <2>5. V(m + 1) = Append(V(m), S)
    <3>1. Len(V(m)) = m /\ DOMAIN V(m) = 1..m
      OBVIOUS
    <3>2. Append(V(m), S) = [k \in 1..(m + 1) |-> IF k = m + 1 THEN S ELSE V(m)[k]]
      BY <2>2, <3>1
    <3>3. \A k \in 1..(m + 1) : (IF k = m + 1 THEN S ELSE V(m)[k]) = Slices(W[k], size)
      BY DEF S
    <3> QED
      BY <3>2, <3>3
  <2>6. V(m + 1) \in Seq(Seq(Seq(I)))
    <3> DEFINE Y == Seq(Seq(I))
    <3>1. V(m) \in Seq(Y) /\ S \in Y
      BY <2>2, <2>4
    <3> HIDE DEF V, Y
    <3>2. Append(V(m), S) \in Seq(Y)
      BY <3>1
    <3> QED
      BY <2>5, <3>2 DEF Y
  <2>7. FlattenSeq(V(m + 1)) = FlattenSeq(V(m)) \o S
    <3> HIDE DEF V
    <3> DEFINE X == Seq(I)
    <3>1. V(m) \in Seq(Seq(X)) /\ S \in Seq(X)
      BY <2>2, <2>4
    <3> HIDE DEF X
    <3> QED
      BY <2>5, <3>1, FlattenAppend
  <2>8. W[m + 1] \in Seq(I) /\ Distinct(W[m + 1])
    BY <1>1, <2>1
  <2>9. \A k \in 1..m : ToSet(W[k]) \cap ToSet(W[m + 1]) = {}
    <3> TAKE k \in 1..m
    <3>1. k \in 1..N /\ k # m + 1
      BY <1>1
    <3> QED
      BY <3>1, <1>2, <2>1
  <2>10. \E more : InBatches(FlattenSeq(V(m)) \o S, more, W, m + 1, size, I)
    <3> HIDE DEF V
    <3> QED
      BY <1>3, <2>3, <2>8, <2>9, OneWaveMore DEF S
  <2>11. \E more : InBatches(FlattenSeq(V(m + 1)), more, W, m + 1, size, I)
    <3> HIDE DEF V
    <3> QED
      BY <2>7, <2>10
  <2> HIDE DEF V
  <2> QED
    BY <2>6, <2>11
<1>6. \A m \in Nat : m \in Q
  <2> HIDE DEF Q
  <2> QED
    BY <1>4, <1>5, NumberInduction
<1>7. \E wave : InBatches(FlattenSeq(V(N)), wave, W, N, size, I)
  <2>1. N \in Nat /\ N <= N
    BY <1>1
  <2>2. Good(N)
    <3> HIDE DEF Good
    <3> QED
      BY <2>1, <1>6
  <2> HIDE DEF V
  <2> QED
    BY <2>2
<1>8. DOMAIN W = 1..N
  BY <1>1 DEF N
<1>9. Batches(p) = FlattenSeq(V(N))
  BY <1>8 DEF Batches, size
<1> QED
  BY <1>7, <1>9 DEF N, I, size


-----------------------------------------------------------------------------
(* What a plan is without a blocking diagnostic.                           *)

LEMMA NothingBlocks ==
  ASSUME NEW p, NEW host, Valid(p, host), NEW condition \in BOOLEAN, NEW code, NEW nodes,
         When(condition, "error", code, nodes) \subseteq Diagnostics(p, host)
  PROVE  ~condition
<1>1. Diagnostic("error", code, nodes).severity = "error"
  BY DEF Diagnostic
<1> QED
  BY <1>1 DEF When, Valid

LEMMA NoErrorIsFound ==
  ASSUME NEW p, NEW host, Valid(p, host), NEW code, NEW nodes,
         Diagnostic("error", code, nodes) \in Diagnostics(p, host)
  PROVE  FALSE
<1>1. Diagnostic("error", code, nodes).severity = "error"
  BY DEF Diagnostic
<1> QED
  BY <1>1 DEF Valid

LEMMA DiagnosticParts ==
  ASSUME NEW p, NEW host
  PROVE  /\ ShapeDiagnostics(p) \subseteq Diagnostics(p, host)
         /\ GraphDiagnostics(p) \subseteq Diagnostics(p, host)
         /\ BudgetDiagnostics(p, host) \subseteq Diagnostics(p, host)
         /\ \A r \in RolesOf(p) : RoleDiagnostics(r, host) \subseteq Diagnostics(p, host)
         /\ \A t \in TasksOf(p) : TaskDiagnostics(p, t, host) \subseteq Diagnostics(p, host)
         /\ ResolveBackend(p, host) = "workflow" =>
              WorkflowDiagnostics(p, host) \subseteq Diagnostics(p, host)
         /\ ResolveBackend(p, host) # "workflow" =>
              TeamDiagnostics(p, host) \subseteq Diagnostics(p, host)
  BY Zenon DEF Diagnostics

LEMMA ValidGraph ==
  ASSUME NEW p, NEW host, IsPlan(p), Valid(p, host)
  PROVE  /\ Duplicates(p.tasks) = {}
         /\ \A t \in TasksOf(p) : Deps(t) \subseteq Ids(p.tasks)
         /\ \A pair \in Parallel(p) : ~Conflict(pair[1], pair[2])
         /\ Len(FlattenSeq(ParallelWaves(p))) = Cardinality(Ids(p.tasks))
<1>1. Duplicates(p.tasks) = {}
  <2> SUFFICES ASSUME NEW id \in Duplicates(p.tasks)
               PROVE  FALSE
    OBVIOUS
  <2>1. Diagnostic("error", "task.duplicate-id", {id}) \in ShapeDiagnostics(p)
    BY Zenon DEF ShapeDiagnostics
  <2> QED
    BY <2>1, DiagnosticParts, NoErrorIsFound
<1>2. ASSUME NEW t \in TasksOf(p), NEW d \in Deps(t) \ Ids(p.tasks)
      PROVE  FALSE
  <2>1. Diagnostic("error", "task.dependency-missing", {t.id, d}) \in TaskDiagnostics(p, t, host)
    BY Zenon DEF TaskDiagnostics, DependencyDiagnostics
  <2> QED
    BY <2>1, DiagnosticParts, NoErrorIsFound
<1>3. ASSUME NEW pair \in Parallel(p), Conflict(pair[1], pair[2])
      PROVE  FALSE
  <2>1. ParallelWriteConflict(pair) \in ConflictDiagnostics(p)
    BY <1>3, Zenon DEF ConflictDiagnostics
  <2>2. ParallelWriteConflict(pair) \in GraphDiagnostics(p)
    BY <2>1, Zenon DEF GraphDiagnostics
  <2>3. ParallelWriteConflict(pair) \in Diagnostics(p, host)
    BY <2>2, DiagnosticParts, Zenon
  <2>4. Diagnostic("error", "task.parallel-write-conflict", {pair[1].id, pair[2].id})
          \in Diagnostics(p, host)
    BY <2>3, Zenon DEF ParallelWriteConflict
  <2> QED
    BY <2>4, NoErrorIsFound
<1>4. Len(FlattenSeq(ParallelWaves(p))) = Cardinality(Ids(p.tasks))
  <2> DEFINE cyclic == Len(FlattenSeq(ParallelWaves(p))) # Cardinality(Ids(p.tasks))
             stuck == Ids(p.tasks) \ Scheduled(p)
  <2>1. When(cyclic, "error", "plan.cycle", stuck) \subseteq GraphDiagnostics(p)
    BY Zenon DEF GraphDiagnostics
  <2>2. cyclic \in BOOLEAN
    OBVIOUS
  <2> HIDE DEF cyclic, stuck
  <2>3. When(cyclic, "error", "plan.cycle", stuck) \subseteq Diagnostics(p, host)
    BY <2>1, DiagnosticParts
  <2>4. ~cyclic
    BY <2>2, <2>3, NothingBlocks
  <2> QED
    BY <2>4 DEF cyclic
<1> QED
  BY <1>1, <1>2, <1>3, <1>4

LEMMA ValidBudget ==
  ASSUME NEW p, NEW host, IsPlan(p), Valid(p, host),
         host.maxAgents \in 1..32, host.maxConcurrent \in 1..16
  PROVE  /\ Len(p.tasks) <= p.maxAgents /\ p.maxAgents <= host.maxAgents
         /\ p.maxConcurrent <= host.maxConcurrent
<1> DEFINE many == Len(p.tasks) > p.maxAgents
           greedy == p.maxAgents > host.maxAgents
           wide == p.maxConcurrent > host.maxConcurrent
           I == Ids(p.tasks)
<1>0. /\ Len(p.tasks) \in Nat /\ p.maxAgents \in Nat /\ p.maxConcurrent \in Nat
      /\ host.maxAgents \in Nat /\ host.maxConcurrent \in Nat
  <2>1. Len(p.tasks) \in Nat
    BY PlanFacts
  <2>2. p.maxAgents \in 1..32 /\ p.maxConcurrent \in 1..16
    BY DEF IsPlan
  <2>3. 1..32 \subseteq Nat /\ 1..16 \subseteq Nat
    OBVIOUS
  <2> QED
    BY <2>1, <2>2, <2>3
<1>1. /\ When(many, "error", "budget.max-agents-exceeded", I) \subseteq BudgetDiagnostics(p, host)
      /\ When(greedy, "error", "budget.host-max-agents-exceeded", {})
           \subseteq BudgetDiagnostics(p, host)
      /\ When(wide, "error", "budget.host-concurrency-exceeded", {})
           \subseteq BudgetDiagnostics(p, host)
  BY Zenon DEF BudgetDiagnostics
<1>2. many \in BOOLEAN /\ greedy \in BOOLEAN /\ wide \in BOOLEAN
  OBVIOUS
<1>3. ~many /\ ~greedy /\ ~wide
  <2> HIDE DEF many, greedy, wide, I
  <2>1. BudgetDiagnostics(p, host) \subseteq Diagnostics(p, host)
    BY DiagnosticParts
  <2>2. /\ When(many, "error", "budget.max-agents-exceeded", I) \subseteq Diagnostics(p, host)
        /\ When(greedy, "error", "budget.host-max-agents-exceeded", {}) \subseteq Diagnostics(p, host)
        /\ When(wide, "error", "budget.host-concurrency-exceeded", {})
             \subseteq Diagnostics(p, host)
    BY <1>1, <2>1
  <2> QED
    BY <1>2, <2>2, NothingBlocks
<1> QED
  BY <1>0, <1>3


-----------------------------------------------------------------------------
(* The script: how far a batch lets it go.                                 *)

(* Batches no two of which share a task.                                   *)
Apart(B, I) ==
  /\ Len(B) \in Nat /\ B \in Seq(Seq(I))
  /\ \A k \in 1..Len(B) : ToSet(B[k]) \subseteq I /\ ToSet(B[k]) # {}
  /\ \A j, k \in 1..Len(B) : ToSet(B[j]) \cap ToSet(B[k]) # {} => j = k

(* Nothing of a batch has a result before all batches before it do.        *)
Behind(B, R) ==
  \A j, k \in 1..Len(B) :
    j < k => Settled(R, B[j]) \/ \A id \in ToSet(B[k]) : R[id] = "none"

(* What waits in the first m batches, once they are entered, may run.      *)
Cleared(p, B, R, m) ==
  \A k \in 1..Len(B) :
    k <= m /\ (\A j \in 1..Len(B) : j < k => Settled(R, B[j])) =>
      \A id \in ToSet(B[k]) : R[id] = "none" => ~DependencyFailed(p, R, id)

(* The script only skips, and only what has a failed dependency.           *)
Skips(p, I, R, S) ==
  \A id \in I : \/ S[id] = R[id]
                \/ R[id] = "none" /\ S[id] = "skipped" /\ DependencyFailed(p, R, id)

Known(p, I) == \A id \in I : Deps(Named(p.tasks, id)) \subseteq I

LEMMA SkipsCompose ==
  ASSUME NEW p, NEW I, Known(p, I), NEW R, NEW S, NEW T, Skips(p, I, R, S), Skips(p, I, S, T)
  PROVE  Skips(p, I, R, T)
<1> SUFFICES ASSUME NEW id \in I
             PROVE  \/ T[id] = R[id]
                    \/ R[id] = "none" /\ T[id] = "skipped" /\ DependencyFailed(p, R, id)
  BY Zenon DEF Skips
<1>1. ASSUME DependencyFailed(p, S, id)
      PROVE  DependencyFailed(p, R, id)
  <2>1. PICK d \in Deps(Named(p.tasks, id)) : S[d] # "completed"
    BY <1>1 DEF DependencyFailed
  <2>2. d \in I
    BY <2>1 DEF Known
  <2>3. R[d] # "completed"
    BY <2>1, <2>2 DEF Skips
  <2> QED
    BY <2>1, <2>3 DEF DependencyFailed
<1> QED
  BY <1>1 DEF Skips

LEMMA OneBatchMore ==
  ASSUME NEW p, NEW I, Known(p, I), NEW B, Apart(B, I), NEW k \in 1..Len(B),
         NEW R \in [I -> Result], Behind(B, R), Cleared(p, B, R, k - 1), NEW S,
         S = Enter(p, R, IF k = 1 THEN <<>> ELSE B[k - 1], B[k])
  PROVE  /\ S \in [I -> Result] /\ Skips(p, I, R, S)
         /\ Behind(B, S) /\ Cleared(p, B, S, k)
<1> DEFINE before == IF k = 1 THEN <<>> ELSE B[k - 1]
           entered == \A j \in 1..Len(B) : j < k => Settled(R, B[j])
<1>0. Len(B) \in Nat /\ k \in Nat /\ k >= 1
  BY DEF Apart
<1>1. Settled(R, before) <=> entered
  <2>1. CASE k = 1
    <3>1. Settled(R, <<>>)
      BY DEF Settled, ToSet
    <3>2. \A j \in 1..Len(B) : ~(j < k)
      BY <2>1, <1>0
    <3> QED
      BY <2>1, <3>1, <3>2
  <2>2. CASE k # 1
    <3>1. k - 1 \in 1..Len(B) /\ k - 1 < k /\ before = B[k - 1]
      BY <2>2, <1>0
    <3>2. ASSUME Settled(R, B[k - 1]), NEW j \in 1..Len(B), j < k
          PROVE  Settled(R, B[j])
      <4>1. j = k - 1 \/ j < k - 1
        BY <3>2, <1>0
      <4>2. CASE j < k - 1
        <5>1. Settled(R, B[j]) \/ \A id \in ToSet(B[k - 1]) : R[id] = "none"
          BY <3>1, <4>2 DEF Behind
        <5>2. ToSet(B[k - 1]) # {}
          BY <3>1 DEF Apart
        <5> QED
          BY <5>1, <5>2, <3>2 DEF Settled
      <4> QED
        BY <4>1, <4>2, <3>2
    <3> QED
      BY <3>1, <3>2
  <2> QED
    BY <2>1, <2>2
<1>2. S = IF entered THEN Skip(p, R, B[k]) ELSE R
  BY <1>1 DEF Enter
<1> HIDE DEF before
<1>3. CASE ~entered
  <2>1. S = R
    BY <1>2, <1>3
  <2>2. Cleared(p, B, R, k)
    <3> SUFFICES ASSUME NEW i \in 1..Len(B), i <= k,
                        \A j \in 1..Len(B) : j < i => Settled(R, B[j])
                 PROVE  \A id \in ToSet(B[i]) : R[id] = "none" => ~DependencyFailed(p, R, id)
      BY Zenon DEF Cleared
    <3>1. i <= k - 1
      <4>1. i # k
        BY <1>3
      <4> QED
        BY <4>1, <1>0
    <3> HIDE DEF entered
    <3> QED
      BY <3>1 DEF Cleared
  <2>3. Skips(p, I, R, R)
    BY DEF Skips
  <2> QED
    BY <2>1, <2>2, <2>3
<1>4. CASE entered
  <2>1. /\ S \in [I -> Result]
        /\ \A id \in I :
             S[id] = IF id \in ToSet(B[k]) /\ R[id] = "none" /\ DependencyFailed(p, R, id)
                     THEN "skipped" ELSE R[id]
    <3>1. S = [id \in I |-> IF id \in ToSet(B[k]) /\ R[id] = "none" /\ DependencyFailed(p, R, id)
                             THEN "skipped" ELSE R[id]]
      BY <1>2, <1>4 DEF Skip
    <3>2. "skipped" \in Result
      BY DEF Result
    <3> QED
      BY <3>1, <3>2
  <2>2. Skips(p, I, R, S)
    BY <2>1 DEF Skips
  <2>3. \A j \in 1..Len(B) : Settled(R, B[j]) => Settled(S, B[j])
    <3> TAKE j \in 1..Len(B)
    <3>1. ToSet(B[j]) \subseteq I
      BY DEF Apart
    <3> QED
      BY <2>1, <3>1 DEF Settled
  <2>4. \A j \in 1..Len(B) : j # k => \A id \in ToSet(B[j]) : S[id] = R[id]
    <3> SUFFICES ASSUME NEW j \in 1..Len(B), j # k, NEW id \in ToSet(B[j])
                 PROVE  S[id] = R[id]
      OBVIOUS
    <3>1. id \in I /\ id \notin ToSet(B[k])
      BY DEF Apart
    <3> QED
      BY <2>1, <3>1
  <2>5. Behind(B, S)
    <3> SUFFICES ASSUME NEW i \in 1..Len(B), NEW j \in 1..Len(B), i < j
                 PROVE  Settled(S, B[i]) \/ \A id \in ToSet(B[j]) : S[id] = "none"
      BY Zenon DEF Behind
    <3>1. Settled(R, B[i]) \/ \A id \in ToSet(B[j]) : R[id] = "none"
      BY DEF Behind
    <3>2. CASE j = k
      BY <3>2, <1>4, <2>3
    <3>3. CASE j # k
      BY <3>1, <3>3, <2>3, <2>4
    <3> QED
      BY <3>2, <3>3
  <2>6. \A id \in I : DependencyFailed(p, S, id) => DependencyFailed(p, R, id)
    <3> SUFFICES ASSUME NEW id \in I, DependencyFailed(p, S, id)
                 PROVE  DependencyFailed(p, R, id)
      OBVIOUS
    <3>1. PICK d \in Deps(Named(p.tasks, id)) : S[d] # "completed"
      BY DEF DependencyFailed
    <3>2. d \in I
      BY <3>1 DEF Known
    <3>3. R[d] # "completed"
      BY <3>1, <3>2, <2>1
    <3> QED
      BY <3>1, <3>3 DEF DependencyFailed
  <2>7. Cleared(p, B, S, k)
    <3> SUFFICES ASSUME NEW i \in 1..Len(B), i <= k,
                        \A j \in 1..Len(B) : j < i => Settled(S, B[j]),
                        NEW id \in ToSet(B[i]), S[id] = "none"
                 PROVE  ~DependencyFailed(p, S, id)
      BY Zenon DEF Cleared
    <3>1. id \in I
      BY DEF Apart
    <3>2. CASE i = k
      <4>1. ~DependencyFailed(p, R, id)
        BY <2>1, <3>1, <3>2
      <4> QED
        BY <4>1, <2>6, <3>1
    <3>3. CASE i # k
      <4>1. i <= k - 1 /\ R[id] = "none"
        BY <3>3, <1>0, <2>4
      <4>2. \A j \in 1..Len(B) : j < i => Settled(R, B[j])
        <5> SUFFICES ASSUME NEW j \in 1..Len(B), j < i
                     PROVE  Settled(R, B[j])
          OBVIOUS
        <5>1. j < k
          BY <1>0
        <5> QED
          BY <5>1, <1>4
      <4>3. ~DependencyFailed(p, R, id)
        BY <4>1, <4>2 DEF Cleared
      <4> QED
        BY <4>3, <2>6, <3>1
    <3> QED
      BY <3>2, <3>3
  <2> QED
    BY <2>1, <2>2, <2>5, <2>7
<1> QED
  BY <1>3, <1>4


(* What the script makes of a result: it skips, it goes no further than a  *)
(* batch lets it, and what then waits where it is may run.                 *)
LEMMA AdvancedFacts ==
  ASSUME NEW p, NEW I, Known(p, I), NEW B, Apart(B, I),
         NEW R \in [I -> Result], Behind(B, R), NEW S, S = Advanced(p, B, R)
  PROVE  /\ S \in [I -> Result] /\ Skips(p, I, R, S)
         /\ Behind(B, S) /\ Cleared(p, B, S, Len(B))
<1> DEFINE N == Len(B)
           X == [I -> Result]
           prior(n) == IF n = 1 THEN <<>> ELSE B[n - 1]
           G == [n \in 1..N |-> [r \in X |-> Enter(p, r, prior(n), B[n])]]
           K == CHOOSE after : after =
                  [k \in 0..N |->
                     IF k = 0 THEN R
                     ELSE Enter(p, after[k - 1], IF k = 1 THEN <<>> ELSE B[k - 1], B[k])]
<1>1. N \in Nat /\ R \in X /\ S = K[N]
  BY DEF Apart, Advanced
<1>2. G \in [1..N -> [X -> X]]
  <2>1. ASSUME NEW n \in 1..N, NEW r \in X
        PROVE  Enter(p, r, prior(n), B[n]) \in X
    <3>1. Skip(p, r, B[n]) \in X
      BY DEF Skip, Result
    <3> QED
      BY <3>1 DEF Enter
  <2> HIDE DEF X, prior
  <2> QED
    BY <2>1
<1>3. PICK f : Follows(f, N, X, R, G)
  <2> HIDE DEF N, X, G
  <2> QED
    BY <1>1, <1>2, RecursionExists
<1>4. f = [k \in 0..N |-> IF k = 0 THEN R ELSE Enter(p, f[k - 1], prior(k), B[k])]
  <2>1. /\ f = [n \in 0..N |-> IF n = 0 THEN R ELSE G[n][f[n - 1]]]
        /\ \A n \in 0..N : n # 0 => n \in 1..N /\ f[n - 1] \in X
    <3> HIDE DEF N, X, G
    <3> QED
      BY <1>1, <1>3, FollowsBody
  <2>2. \A n \in 0..N : n # 0 => G[n][f[n - 1]] = Enter(p, f[n - 1], prior(n), B[n])
    <3> HIDE DEF N, X, prior
    <3> QED
      BY <2>1
  <2> HIDE DEF N, X, G, prior
  <2> QED
    BY <2>1, <2>2
<1>5. K = [k \in 0..N |-> IF k = 0 THEN R ELSE Enter(p, K[k - 1], prior(k), B[k])]
  BY <1>4
<1> HIDE DEF K, prior, N, X, G
<1>6. K[0] = R /\ \A n \in 1..N : K[n] = Enter(p, K[n - 1], prior(n), B[n])
  <2>1. 0 \in 0..N /\ \A n \in 1..N : n \in 0..N /\ n # 0
    BY <1>1
  <2> QED
    BY <1>5, <2>1
<1> DEFINE Good(k) == /\ K[k] \in X /\ Skips(p, I, R, K[k])
                      /\ Behind(B, K[k]) /\ Cleared(p, B, K[k], k)
           Q == {k \in Nat : k <= N => Good(k)}
<1>7. 0 \in Q
  <2>1. Skips(p, I, R, R)
    BY DEF Skips
  <2>2. Cleared(p, B, R, 0)
    <3>1. \A k \in 1..Len(B) : ~(k <= 0)
      BY <1>1 DEF N
    <3> QED
      BY <3>1 DEF Cleared
  <2>3. Good(0)
    BY <1>1, <1>6, <2>1, <2>2
  <2> QED
    BY <2>3
<1>8. ASSUME NEW k \in Nat, k \in Q
      PROVE  k + 1 \in Q
  <2> SUFFICES ASSUME k + 1 <= N
               PROVE  Good(k + 1)
    <3> HIDE DEF Good
    <3> QED
      OBVIOUS
  <2>1. Good(k) /\ k + 1 \in 1..N /\ (k + 1) - 1 = k
    <3> HIDE DEF Good
    <3> QED
      BY <1>1, <1>8
  <2> DEFINE r == K[k]
             s == K[k + 1]
             n == k + 1
  <2>2. /\ r \in [I -> Result] /\ Behind(B, r) /\ Cleared(p, B, r, n - 1)
        /\ n \in 1..Len(B) /\ s = Enter(p, r, IF n = 1 THEN <<>> ELSE B[n - 1], B[n])
        /\ Skips(p, I, R, r)
    <3>1. n - 1 = k
      BY <2>1
    <3>2. s = Enter(p, r, prior(n), B[n])
      BY <1>6, <2>1
    <3> QED
      BY <2>1, <3>1, <3>2 DEF X, N, prior
  <2> HIDE DEF r, s, n
  <2>3. s \in [I -> Result] /\ Skips(p, I, r, s) /\ Behind(B, s) /\ Cleared(p, B, s, n)
    BY <2>2, OneBatchMore
  <2>4. Skips(p, I, R, s)
    BY <2>2, <2>3, SkipsCompose
  <2> QED
    BY <2>3, <2>4 DEF s, n, X
<1>9. \A k \in Nat : k \in Q
  <2> HIDE DEF Q
  <2> QED
    BY <1>7, <1>8, NumberInduction
<1>10. Good(N)
  <2>1. N \in Nat /\ N <= N
    BY <1>1
  <2> HIDE DEF Good
  <2> QED
    BY <1>9, <2>1
<1> QED
  BY <1>1, <1>10 DEF X, N


(* The Agents against the script: they work for tasks without a result of  *)
(* the first batch that is not settled, and these tasks may run.           *)
Orderly(p, I, B, R, child) ==
  /\ R \in [I -> Result] /\ child \in [I -> {"none", "working", "done"}]
  /\ Behind(B, R) /\ Cleared(p, B, R, Len(B))
  /\ \A j, k \in 1..Len(B) :
       j < k => Settled(R, B[j]) \/ \A id \in ToSet(B[k]) : child[id] = "none"
  /\ \A id \in I : child[id] = "working" =>
       R[id] = "none" /\ \E k \in 1..Len(B) : id \in ToSet(B[k])

LEMMA SettledStays ==
  ASSUME NEW p, NEW I, NEW R, NEW S, Skips(p, I, R, S), NEW batch, ToSet(batch) \subseteq I,
         Settled(R, batch)
  PROVE  Settled(S, batch)
  BY DEF Skips, Settled

(* The work that goes on is not of a failed dependency. *)
LEMMA WorkMayRun ==
  ASSUME NEW p, NEW I, NEW B, Apart(B, I), NEW R, NEW child, Orderly(p, I, B, R, child),
         NEW id \in I, child[id] = "working"
  PROVE  ~DependencyFailed(p, R, id)
<1>1. PICK k \in 1..Len(B) : id \in ToSet(B[k])
  BY DEF Orderly
<1>2. \A j \in 1..Len(B) : j < k => Settled(R, B[j])
  BY <1>1 DEF Orderly
<1>3. k <= Len(B)
  BY DEF Apart
<1>4. R[id] = "none" /\ Cleared(p, B, R, Len(B))
  BY DEF Orderly
<1> QED
  BY <1>1, <1>2, <1>3, <1>4 DEF Cleared

LEMMA OneMoreResult ==
  ASSUME NEW p, NEW I, Known(p, I), NEW B, Apart(B, I), NEW R, NEW child,
         Orderly(p, I, B, R, child), NEW t \in I, R[t] = "none",
         \A k \in 1..Len(B) : t \in ToSet(B[k]) =>
           \A j \in 1..Len(B) : j < k => Settled(R, B[j]),
         NEW result \in {"completed", "failed"}, NEW c \in {"none", "done"},
         c = "done" => \E k \in 1..Len(B) : t \in ToSet(B[k])
  PROVE  Orderly(p, I, B, Advanced(p, B, [R EXCEPT ![t] = result]), [child EXCEPT ![t] = c])
<1> DEFINE R0 == [R EXCEPT ![t] = result]
           S == Advanced(p, B, R0)
           d == [child EXCEPT ![t] = c]
<1>1. /\ R \in [I -> Result] /\ child \in [I -> {"none", "working", "done"}]
      /\ Len(B) \in Nat /\ \A k \in 1..Len(B) : ToSet(B[k]) \subseteq I
  BY DEF Orderly, Apart
<1>2. /\ R0 \in [I -> Result] /\ R0[t] = result /\ result # "none"
      /\ \A id \in I : id # t => R0[id] = R[id]
  BY <1>1 DEF Result
<1>3. /\ d \in [I -> {"none", "working", "done"}] /\ d[t] = c
      /\ \A id \in I : id # t => d[id] = child[id]
  BY <1>1
<1> HIDE DEF R0, d
<1>4. \A k \in 1..Len(B) : Settled(R, B[k]) => Settled(R0, B[k])
  BY <1>1, <1>2 DEF Settled
<1>5. Behind(B, R0)
  <2> SUFFICES ASSUME NEW j \in 1..Len(B), NEW k \in 1..Len(B), j < k, ~Settled(R0, B[j]),
                      NEW id \in ToSet(B[k])
               PROVE  R0[id] = "none"
    BY Zenon DEF Behind
  <2>1. ~Settled(R, B[j])
    BY <1>4
  <2>2. R[id] = "none"
    BY <2>1 DEF Orderly, Behind
  <2>3. id # t
    BY <2>1
  <2> QED
    BY <2>2, <2>3, <1>1, <1>2
<1>6. /\ S \in [I -> Result] /\ Skips(p, I, R0, S)
      /\ Behind(B, S) /\ Cleared(p, B, S, Len(B))
  BY <1>2, <1>5, AdvancedFacts
<1> HIDE DEF S
<1>7. \A k \in 1..Len(B) : Settled(R, B[k]) => Settled(S, B[k])
  BY <1>1, <1>4, <1>6, SettledStays
<1>8. ASSUME NEW j \in 1..Len(B), NEW k \in 1..Len(B), j < k, ~Settled(S, B[j]),
             NEW id \in ToSet(B[k])
      PROVE  d[id] = "none"
  <2>1. ~Settled(R, B[j])
    BY <1>7, <1>8
  <2>2. child[id] = "none"
    BY <2>1, <1>8 DEF Orderly
  <2>3. id # t
    BY <2>1, <1>8
  <2> QED
    BY <2>2, <2>3, <1>1, <1>3
<1>9. ASSUME NEW id \in I, d[id] = "working"
      PROVE  S[id] = "none" /\ \E k \in 1..Len(B) : id \in ToSet(B[k])
  <2>1. id # t
    BY <1>3, <1>9
  <2>2. child[id] = "working"
    BY <2>1, <1>3, <1>9
  <2>3. R[id] = "none" /\ \E k \in 1..Len(B) : id \in ToSet(B[k])
    BY <2>2 DEF Orderly
  <2>4. ~DependencyFailed(p, R, id)
    BY <2>2, WorkMayRun
  <2>5. ~DependencyFailed(p, R0, id)
    <3> SUFFICES ASSUME NEW e \in Deps(Named(p.tasks, id))
                 PROVE  R0[e] = "completed"
      BY DEF DependencyFailed
    <3>1. e \in I /\ R[e] = "completed"
      BY <2>4 DEF Known, DependencyFailed
    <3> QED
      BY <3>1, <1>2
  <2>6. S[id] = R0[id]
    BY <2>5, <1>6 DEF Skips
  <2> QED
    BY <2>1, <2>3, <2>6, <1>2
<1>10. Orderly(p, I, B, S, d)
  BY <1>3, <1>6, <1>8, <1>9 DEF Orderly
<1> QED
  BY <1>10 DEF S, R0, d

LEMMA OneMoreAgent ==
  ASSUME NEW p, NEW I, NEW B, Apart(B, I), NEW R, NEW child,
         Orderly(p, I, B, R, child), NEW t \in I, R[t] = "none",
         \E k \in 1..Len(B) : t \in ToSet(B[k]),
         \A k \in 1..Len(B) : t \in ToSet(B[k]) =>
           \A j \in 1..Len(B) : j < k => Settled(R, B[j])
  PROVE  Orderly(p, I, B, R, [child EXCEPT ![t] = "working"])
<1> DEFINE d == [child EXCEPT ![t] = "working"]
<1>1. /\ R \in [I -> Result] /\ child \in [I -> {"none", "working", "done"}]
      /\ \A k \in 1..Len(B) : ToSet(B[k]) \subseteq I
  BY DEF Orderly, Apart
<1>2. /\ d \in [I -> {"none", "working", "done"}]
      /\ \A id \in I : id # t => d[id] = child[id]
  BY <1>1
<1> HIDE DEF d
<1>3. ASSUME NEW j \in 1..Len(B), NEW k \in 1..Len(B), j < k, ~Settled(R, B[j]),
             NEW id \in ToSet(B[k])
      PROVE  d[id] = "none"
  <2>1. child[id] = "none" /\ id # t /\ id \in I
    BY <1>1, <1>3 DEF Orderly
  <2> QED
    BY <2>1, <1>2
<1>4. ASSUME NEW id \in I, d[id] = "working"
      PROVE  R[id] = "none" /\ \E k \in 1..Len(B) : id \in ToSet(B[k])
  <2>1. CASE id # t
    <3>1. child[id] = "working"
      BY <1>2, <1>4, <2>1
    <3> QED
      BY <3>1 DEF Orderly
  <2> QED
    BY <2>1
<1>5. Orderly(p, I, B, R, d)
  BY <1>2, <1>3, <1>4, Zenon DEF Orderly
<1> QED
  BY <1>5 DEF d

LEMMA RunnableFacts ==
  ASSUME NEW I, NEW B, Apart(B, I), NEW R, NEW t \in Runnable(B, R)
  PROVE  /\ R[t] = "none" /\ t \in I /\ \E k \in 1..Len(B) : t \in ToSet(B[k])
         /\ \A k \in 1..Len(B) : t \in ToSet(B[k]) =>
              \A j \in 1..Len(B) : j < k => Settled(R, B[j])
<1> DEFINE open == {k \in DOMAIN B : ~Settled(R, B[k])}
           first == CHOOSE k \in open : \A j \in open : k <= j
<1>1. DOMAIN B = 1..Len(B) /\ Len(B) \in Nat
  BY DEF Apart
<1>2. open # {} /\ t \in ToSet(B[first]) /\ R[t] = "none"
  BY DEF Runnable
<1>3. \E k \in open : \A j \in open : k <= j
  <2>1. open \subseteq Nat
    BY <1>1
  <2> HIDE DEF open
  <2> QED
    BY <1>2, <2>1, LeastNumber
<1>4. first \in open /\ \A j \in open : first <= j
  <2> HIDE DEF open
  <2> QED
    BY <1>3
<1>5. first \in 1..Len(B) /\ \A j \in 1..Len(B) : j < first => Settled(R, B[j])
  <2> HIDE DEF first
  <2>1. first \in 1..Len(B)
    BY <1>1, <1>4
  <2>2. \A j \in 1..Len(B) : j < first => ~(first <= j)
    BY <2>1
  <2> QED
    BY <2>1, <2>2, <1>1, <1>4
<1> HIDE DEF first, open
<1>6. t \in I /\ \A k \in 1..Len(B) : t \in ToSet(B[k]) => k = first
  BY <1>2, <1>5 DEF Apart
<1> QED
  BY <1>2, <1>5, <1>6


-----------------------------------------------------------------------------
(* The batches of a plan without a blocking diagnostic.                    *)

LEMMA IsPrefixWhen ==
  ASSUME NEW X, NEW s \in Seq(X), NEW t \in Seq(X), Len(s) <= Len(t),
         \A n \in 1..Len(s) : s[n] = t[n]
  PROVE  IsPrefix(s, t)
<1>1. Len(s) \in Nat /\ Len(t) \in Nat
  OBVIOUS
<1>2. /\ SubSeq(s, 1, Len(s)) \in Seq(X) /\ SubSeq(t, 1, Len(s)) \in Seq(X)
      /\ Len(SubSeq(s, 1, Len(s))) = Len(s) /\ Len(SubSeq(t, 1, Len(s))) = Len(s)
      /\ \A n \in 1..Len(s) : SubSeq(s, 1, Len(s))[n] = s[n] /\ SubSeq(t, 1, Len(s))[n] = t[n]
  BY <1>1
<1>3. SubSeq(s, 1, Len(s)) = SubSeq(t, 1, Len(s))
  BY <1>2
<1> QED
  BY <1>3 DEF IsPrefix

LEMMA PathsPart ==
  ASSUME NEW a \in Seq(DOMAIN Folded), NEW b \in Seq(DOMAIN Folded), ~ScopesOverlap(a, b)
  PROVE  \E n \in 1..Len(a) : n <= Len(b) /\ Folded[a[n]] # Folded[b[n]]
<1> SUFFICES ASSUME \A n \in 1..Len(a) : n <= Len(b) => Folded[a[n]] = Folded[b[n]]
             PROVE  FALSE
  OBVIOUS
<1> DEFINE X == {Folded[s] : s \in DOMAIN Folded}
           fold(path) == [n \in DOMAIN path |-> Folded[path[n]]]
           s == fold(a)
           t == fold(b)
<1>1. /\ Len(a) \in Nat /\ Len(b) \in Nat /\ DOMAIN a = 1..Len(a) /\ DOMAIN b = 1..Len(b)
      /\ \A n \in 1..Len(a) : a[n] \in DOMAIN Folded
      /\ \A n \in 1..Len(b) : b[n] \in DOMAIN Folded
  OBVIOUS
<1>2. /\ s \in Seq(X) /\ Len(s) = Len(a) /\ \A n \in 1..Len(a) : s[n] = Folded[a[n]]
      /\ t \in Seq(X) /\ Len(t) = Len(b) /\ \A n \in 1..Len(b) : t[n] = Folded[b[n]]
  BY <1>1
<1>3. ~IsPrefix(s, t) /\ ~IsPrefix(t, s)
  BY DEF ScopesOverlap
<1> HIDE DEF s, t, X
<1>4. CASE Len(a) <= Len(b)
  <2>1. \A n \in 1..Len(s) : s[n] = t[n]
    <3> TAKE n \in 1..Len(s)
    <3>1. n \in 1..Len(a) /\ n \in 1..Len(b) /\ n <= Len(b)
      BY <1>1, <1>2, <1>4
    <3> QED
      BY <3>1, <1>2
  <2> QED
    BY <2>1, <1>2, <1>3, <1>4, IsPrefixWhen
<1>5. CASE Len(b) <= Len(a)
  <2>1. \A n \in 1..Len(t) : t[n] = s[n]
    <3> TAKE n \in 1..Len(t)
    <3>1. n \in 1..Len(a) /\ n \in 1..Len(b) /\ n <= Len(b)
      BY <1>1, <1>2, <1>5
    <3> QED
      BY <3>1, <1>2
  <2> QED
    BY <2>1, <1>2, <1>3, <1>5, IsPrefixWhen
<1> QED
  BY <1>1, <1>4, <1>5

(* What the schedule owes to preflight: batches of different tasks, within *)
(* the limits, no two of one batch in conflict.                            *)
SafeBatches(p, B, I, size) ==
  /\ Apart(B, I)
  /\ \A k \in 1..Len(B) : B[k] \in Seq(I) /\ Len(B[k]) <= size
  /\ \A k \in 1..Len(B) : \A t, u \in ToSet(B[k]) :
       t # u => ~Conflict(Named(p.tasks, t), Named(p.tasks, u))

LEMMA ValidBatches ==
  ASSUME NEW p, NEW host, IsPlan(p), Valid(p, host), NEW I, I = Ids(p.tasks),
         NEW B, B = Batches(p)
  PROVE  SafeBatches(p, B, I, p.maxConcurrent) /\ Known(p, I)
<1> DEFINE W == ParallelWaves(p)
           size == p.maxConcurrent
<1>1. /\ Duplicates(p.tasks) = {} /\ \A t \in TasksOf(p) : Deps(t) \subseteq I
      /\ \A pair \in Parallel(p) : ~Conflict(pair[1], pair[2])
  BY ValidGraph
<1>2. PICK wave : InBatches(B, wave, W, Len(W), size, I)
  BY <1>1, BatchesFollowWaves
<1>3. Len(W) \in Nat /\ \A k \in 1..Len(W) : W[k] \in Seq(I)
  BY WaveFacts
<1>4. Known(p, I)
  BY <1>1, IdsFacts DEF Known
<1> HIDE DEF W, size
<1>5. /\ B \in Seq(Seq(I)) /\ wave \in [1..Len(B) -> 1..Len(W)]
      /\ \A i \in 1..Len(B) :
           /\ B[i] \in Seq(I) /\ B[i] # <<>> /\ Len(B[i]) <= size
           /\ ToSet(B[i]) \subseteq ToSet(W[wave[i]])
      /\ \A i, j \in 1..Len(B) : ToSet(B[i]) \cap ToSet(B[j]) # {} => i = j
  BY <1>2 DEF InBatches
<1>6. ASSUME NEW s \in Seq(I), s # <<>>
      PROVE  ToSet(s) \subseteq I /\ ToSet(s) # {}
  <2>1. DOMAIN s = 1..Len(s) /\ Len(s) \in Nat /\ 1 \in 1..Len(s) /\ \A n \in 1..Len(s) : s[n] \in I
    BY <1>6
  <2> QED
    BY <2>1 DEF ToSet
<1>7. Apart(B, I)
  <2>1. Len(B) \in Nat
    BY <1>5
  <2>2. \A k \in 1..Len(B) : ToSet(B[k]) \subseteq I /\ ToSet(B[k]) # {}
    BY <1>5, <1>6
  <2> QED
    BY <2>1, <2>2, <1>5 DEF Apart
<1>8. ASSUME NEW k \in 1..Len(B), NEW t \in ToSet(B[k]), NEW u \in ToSet(B[k]), t # u
      PROVE  ~Conflict(Named(p.tasks, t), Named(p.tasks, u))
  <2> DEFINE T == Named(p.tasks, t)
             U == Named(p.tasks, u)
             w == W[wave[k]]
  <2>1. w \in ToSet(W) /\ t \in ToSet(w) /\ u \in ToSet(w)
    <3>1. wave[k] \in 1..Len(W)
      BY <1>5
    <3>2. DOMAIN W = 1..Len(W)
      BY WaveFacts DEF W
    <3>3. w \in ToSet(W)
      BY <3>1, <3>2 DEF ToSet
    <3> QED
      BY <3>3, <1>5
  <2>2. t \in I /\ u \in I
    BY <1>7 DEF Apart
  <2>3. T \in TasksOf(p) /\ U \in TasksOf(p) /\ T.id = t /\ U.id = u
    BY <2>2, PlanFacts, NamedFacts DEF TasksOf
  <2> HIDE DEF T, U, w
  <2>4. <<T, U>> \in Parallel(p)
    <3>1. <<T, U>> \in TasksOf(p) \X TasksOf(p) /\ <<T, U>>[1] = T /\ <<T, U>>[2] = U
      BY <2>3
    <3>2. T # U
      BY <2>3, <1>8
    <3>3. {T.id, U.id} \subseteq ToSet(w)
      BY <2>1, <2>3
    <3> QED
      BY <3>1, <3>2, <3>3, <2>1, Zenon DEF Parallel, W
  <2>5. ~Conflict(T, U)
    BY <2>4, <1>1
  <2> QED
    BY <2>5 DEF T, U
<1> QED
  BY <1>4, <1>5, <1>7, <1>8 DEF SafeBatches, size

SafeWork(p, R, work) ==
  /\ Cardinality(work) <= p.maxConcurrent
  /\ \A t \in work :
       /\ \A d \in Deps(Named(p.tasks, t)) : R[d] = "completed"
       /\ \A u \in work \ {t} :
            \A a \in Named(p.tasks, t).claims, b \in Named(p.tasks, u).claims :
              \E n \in 1..Len(a) : n <= Len(b) /\ Folded[a[n]] # Folded[b[n]]

(* The Agents that work are those of one batch: few enough, cleared, and   *)
(* with nothing to write to the same place.                                *)
LEMMA WorkIsSafe ==
  ASSUME NEW p, IsPlan(p), NEW I, I = Ids(p.tasks), NEW B, Known(p, I),
         SafeBatches(p, B, I, p.maxConcurrent), NEW R, NEW child, Orderly(p, I, B, R, child),
         NEW work, work = {t \in I : child[t] = "working"}
  PROVE  SafeWork(p, R, work)
<1>1. Apart(B, I)
  BY DEF SafeBatches
<1>2. \A t \in work : \A d \in Deps(Named(p.tasks, t)) : R[d] = "completed"
  <2> TAKE t \in work
  <2>1. ~DependencyFailed(p, R, t)
    BY <1>1, WorkMayRun
  <2> QED
    BY <2>1 DEF DependencyFailed
<1>3. ASSUME NEW t \in work
      PROVE  \E k \in 1..Len(B) : work \subseteq ToSet(B[k])
  <2>1. PICK k \in 1..Len(B) : t \in ToSet(B[k])
    BY DEF Orderly
  <2>2. ASSUME NEW u \in work
        PROVE  u \in ToSet(B[k])
    <3>1. PICK j \in 1..Len(B) : u \in ToSet(B[j])
      BY DEF Orderly
    <3>2. R[t] = "none" /\ R[u] = "none"
      BY DEF Orderly
    <3>3. ~Settled(R, B[k]) /\ ~Settled(R, B[j])
      BY <2>1, <3>1, <3>2 DEF Settled
    <3>4. ~(j < k) /\ ~(k < j)
      BY <2>1, <3>1, <3>3 DEF Orderly
    <3>5. j = k
      BY <3>4, <1>1 DEF Apart
    <3> QED
      BY <3>1, <3>5
  <2> QED
    BY <2>2
<1>4. p.maxConcurrent \in Nat
  <2>1. p.maxConcurrent \in 1..16
    BY DEF IsPlan
  <2> QED
    BY <2>1
<1>5. Cardinality(work) <= p.maxConcurrent
  <2>1. CASE work = {}
    BY <1>4, <2>1, FS_EmptySet
  <2>2. CASE work # {}
    <3>1. PICK t : t \in work
      BY <2>2
    <3>2. PICK k \in 1..Len(B) : work \subseteq ToSet(B[k])
      BY <3>1, <1>3
    <3>3. B[k] \in Seq(I) /\ Len(B[k]) <= p.maxConcurrent
      BY DEF SafeBatches
    <3> DEFINE s == B[k]
               D == 1..Len(s)
               at == [n \in D |-> s[n]]
    <3>4. Len(s) \in Nat /\ ToSet(s) = {at[n] : n \in D} /\ IsFiniteSet(D) /\ Cardinality(D) = Len(s)
      <4>1. Len(s) \in Nat /\ DOMAIN s = 1..Len(s)
        BY <3>3
      <4> QED
        BY <4>1, CountUpTo DEF ToSet
    <3>5. at \in [D -> ToSet(s)]
      BY <3>4
    <3>6. at \in Surjection(D, ToSet(s))
      <4> HIDE DEF D
      <4> QED
        BY <3>4, <3>5 DEF Surjection
    <3> HIDE DEF s, D, at
    <3>7. IsFiniteSet(ToSet(s)) /\ Cardinality(ToSet(s)) <= Cardinality(D)
      BY <3>4, <3>6, FS_Surjection
    <3>8. Cardinality(work) <= Cardinality(ToSet(s)) /\ IsFiniteSet(work)
      BY <3>2, <3>7, FS_Subset DEF s
    <3>9. /\ Cardinality(work) \in Nat /\ Cardinality(ToSet(s)) \in Nat /\ Cardinality(D) \in Nat
          /\ Len(s) <= p.maxConcurrent
      BY <3>3, <3>4, <3>7, <3>8, FS_CardinalityType DEF s
    <3> QED
      BY <3>4, <3>7, <3>8, <3>9, <1>4
  <2> QED
    BY <2>1, <2>2
<1>6. ASSUME NEW t \in work, NEW u \in work \ {t},
             NEW a \in Named(p.tasks, t).claims, NEW b \in Named(p.tasks, u).claims
      PROVE  \E n \in 1..Len(a) : n <= Len(b) /\ Folded[a[n]] # Folded[b[n]]
  <2>1. PICK k \in 1..Len(B) : work \subseteq ToSet(B[k])
    BY <1>3
  <2>2. ~Conflict(Named(p.tasks, t), Named(p.tasks, u))
    BY <2>1 DEF SafeBatches
  <2>3. ~ScopesOverlap(a, b)
    BY <2>2 DEF Conflict
  <2>4. IsTask(Named(p.tasks, t)) /\ IsTask(Named(p.tasks, u))
    BY IdsFacts, PlanFacts
  <2>5. a \in Seq(DOMAIN Folded) /\ b \in Seq(DOMAIN Folded)
    BY <2>4 DEF IsTask
  <2> QED
    BY <2>3, <2>5, PathsPart
<1> QED
  BY <1>2, <1>5, <1>6 DEF SafeWork


-----------------------------------------------------------------------------
(* The schedule.                                                           *)

EngineOrderly ==
  /\ DOMAIN engine = {"child", "results", "stray", "astray"}
  /\ Orderly(plan, Tasks, args, engine.results, engine.child)

(* What is decided once: the plan, the host and the batches. *)
PlanFits ==
  /\ IsPlan(plan) /\ caps.maxAgents \in 1..32 /\ caps.maxConcurrent \in 1..16
  /\ Duplicates(plan.tasks) = {} => Ids(plan.tasks) = Tasks
  /\ stage \notin {"draft", "refused"} => Valid(plan, caps) /\ args = Batches(plan)

(* The inductive invariant: the engine is idle or follows the script, and  *)
(* it follows it whenever the execution runs.                              *)
Scheduling ==
  /\ PlanFits
  /\ stage = "running" => EngineOrderly
  /\ engine = Idle \/ (stage \in {"running", "over"} /\ EngineOrderly)

LEMMA HostLimits ==
  ASSUME NEW host, IsHost(host)
  PROVE  CapabilitiesOf(host).maxAgents \in 1..32 /\ CapabilitiesOf(host).maxConcurrent \in 1..16
<1>1. /\ CapabilitiesOf(host).maxAgents = host.maxAgents
      /\ CapabilitiesOf(host).maxConcurrent = host.maxConcurrent
  BY DEF CapabilitiesOf
<1> QED
  BY <1>1 DEF IsHost

LEMMA SchedulingStarts == Init => Scheduling
<1> SUFFICES ASSUME Init
             PROVE  Scheduling
  OBVIOUS
<1>1. PICK case \in Cases : plan = case.plan /\ caps = CapabilitiesOf(case.host)
  BY DEF Init
<1>2. IsPlan(plan) /\ (Duplicates(plan.tasks) = {} => Ids(plan.tasks) = Tasks)
  BY <1>1, CasesArePlans
<1>3. caps.maxAgents \in 1..32 /\ caps.maxConcurrent \in 1..16
  <2>1. IsHost(case.host)
    BY CasesArePlans
  <2> QED
    BY <1>1, <2>1, HostLimits
<1>4. stage = "draft" /\ engine = Idle
  BY DEF Init
<1> QED
  BY <1>2, <1>3, <1>4 DEF Scheduling, PlanFits

(* What holds of a plan that was prepared.                                 *)
LEMMA PreparedPlan ==
  ASSUME PlanFits, stage \notin {"draft", "refused"}
  PROVE  /\ Ids(plan.tasks) = Tasks /\ Known(plan, Tasks)
         /\ SafeBatches(plan, args, Tasks, plan.maxConcurrent) /\ Apart(args, Tasks)
         /\ plan.maxConcurrent <= caps.maxConcurrent
<1>1. IsPlan(plan) /\ Valid(plan, caps) /\ args = Batches(plan)
  BY DEF PlanFits
<1>2. Ids(plan.tasks) = Tasks
  BY <1>1, ValidGraph DEF PlanFits
<1>3. SafeBatches(plan, args, Tasks, plan.maxConcurrent) /\ Known(plan, Tasks)
  BY <1>1, <1>2, ValidBatches
<1>4. plan.maxConcurrent <= caps.maxConcurrent
  BY <1>1, ValidBudget DEF PlanFits
<1> QED
  BY <1>2, <1>3, <1>4 DEF SafeBatches

(* The steps in which the engine goes on with what it has.                 *)
LEMMA EngineKeeps ==
  ASSUME Scheduling, plan' = plan, caps' = caps, args' = args,
         stage \notin {"draft", "refused"}, stage' \notin {"draft", "refused"},
         \/ engine' = Idle /\ stage' # "running"
         \/ /\ stage' \in {"running", "over"} /\ DOMAIN engine' = {"child", "results", "stray", "astray"}
            /\ Orderly(plan, Tasks, args, engine'.results, engine'.child)
  PROVE  Scheduling'
<1>1. PlanFits'
  BY DEF Scheduling, PlanFits
<1>2. CASE engine' = Idle /\ stage' # "running"
  <2>1. Idle' = Idle
    BY DEF Idle
  <2> QED
    BY <1>1, <1>2, <2>1 DEF Scheduling
<1>3. CASE /\ stage' \in {"running", "over"} /\ DOMAIN engine' = {"child", "results", "stray", "astray"}
           /\ Orderly(plan, Tasks, args, engine'.results, engine'.child)
  <2>1. EngineOrderly'
    BY <1>3 DEF EngineOrderly
  <2> QED
    BY <1>1, <1>3, <2>1 DEF Scheduling
<1> QED
  BY <1>2, <1>3

LEMMA DoesOrStops ==
  ASSUME NEW writes, NEW held, NEW next, NEW after, Do(writes, held, next, after)
  PROVE  /\ plan' = plan /\ caps' = caps
         /\ (stage' = after /\ engine' = next) \/ (stage' = "down" /\ engine' = Idle)
  BY Zenon DEF Do

LEMMA TracksOrStops ==
  ASSUME NEW helds, NEW next, NEW after, Track(helds, next, after)
  PROVE  /\ plan' = plan /\ caps' = caps
         /\ (stage' = after /\ engine' = next) \/ (stage' = "down" /\ engine' = Idle)
  BY DoesOrStops, Zenon DEF Track

(* The fields of an engine one of which has changed. *)
LEMMA EngineFields ==
  ASSUME NEW e, DOMAIN e = {"child", "results", "stray", "astray"}, NEW x, NEW y
  PROVE  /\ [e EXCEPT !.results = x].results = x /\ [e EXCEPT !.results = x].child = e.child
         /\ DOMAIN [e EXCEPT !.results = x] = DOMAIN e
         /\ [e EXCEPT !.child = x].child = x /\ [e EXCEPT !.child = x].results = e.results
         /\ DOMAIN [e EXCEPT !.child = x] = DOMAIN e
         /\ [e EXCEPT !.child = x, !.results = y].child = x
         /\ [e EXCEPT !.child = x, !.results = y].results = y
         /\ DOMAIN [e EXCEPT !.child = x, !.results = y] = DOMAIN e
         /\ [e EXCEPT !.stray = x, !.astray = y].child = e.child
         /\ [e EXCEPT !.stray = x, !.astray = y].results = e.results
         /\ DOMAIN [e EXCEPT !.stray = x, !.astray = y] = DOMAIN e
         /\ [e EXCEPT !.astray = y].child = e.child
         /\ [e EXCEPT !.astray = y].results = e.results
         /\ DOMAIN [e EXCEPT !.astray = y] = DOMAIN e
  OBVIOUS

LEMMA FirstResults ==
  ASSUME Scheduling, stage = "prepared"
  PROVE  LET first == [Idle EXCEPT !.results = Advanced(plan, args, NoResults(plan))]
         IN  /\ DOMAIN first = {"child", "results", "stray", "astray"}
             /\ Orderly(plan, Tasks, args, first.results, first.child)
<1> DEFINE R == NoResults(plan)
           S == Advanced(plan, args, R)
           first == [Idle EXCEPT !.results = S]
           none == [t \in Tasks |-> "none"]
<1>1. Ids(plan.tasks) = Tasks /\ Known(plan, Tasks) /\ Apart(args, Tasks)
  BY PreparedPlan DEF Scheduling
<1>2. R \in [Tasks -> Result] /\ \A t \in Tasks : R[t] = "none"
  BY <1>1 DEF NoResults, Result
<1>3. \A k \in 1..Len(args) : ToSet(args[k]) \subseteq Tasks
  BY <1>1 DEF Apart
<1>4. Behind(args, R)
  BY <1>2, <1>3 DEF Behind
<1> HIDE DEF R
<1>5. /\ S \in [Tasks -> Result] /\ Behind(args, S) /\ Cleared(plan, args, S, Len(args))
  BY <1>1, <1>2, <1>4, AdvancedFacts
<1> HIDE DEF S
<1>6. /\ first.results = S /\ first.child = none
      /\ DOMAIN first = {"child", "results", "stray", "astray"}
  BY DEF Idle
<1>7. /\ none \in [Tasks -> {"none", "working", "done"}]
      /\ \A t \in Tasks : none[t] = "none"
  OBVIOUS
<1> HIDE DEF first, none
<1>8. Orderly(plan, Tasks, args, S, none)
  BY <1>3, <1>5, <1>7 DEF Orderly
<1> QED
  BY <1>6, <1>8 DEF first, S, R

LEMMA AgentStartKeeps ==
  ASSUME Scheduling, stage = "running", NEW t \in Runnable(args, engine.results)
  PROVE  /\ DOMAIN Starting(t) = {"child", "results", "stray", "astray"}
         /\ Orderly(plan, Tasks, args, Starting(t).results, Starting(t).child)
<1> DEFINE B == args
           R == engine.results
           c == engine.child
           d == [c EXCEPT ![t] = "working"]
<1>1. DOMAIN engine = {"child", "results", "stray", "astray"} /\ Orderly(plan, Tasks, B, R, c)
  BY DEF Scheduling, EngineOrderly
<1>2. Apart(B, Tasks)
  BY PreparedPlan DEF Scheduling
<1>3. /\ DOMAIN Starting(t) = {"child", "results", "stray", "astray"}
      /\ Starting(t).results = R /\ Starting(t).child = d
  <2>1. Starting(t) = [engine EXCEPT !.child = d]
    BY <1>1 DEF Starting
  <2> HIDE DEF d
  <2> QED
    BY <1>1, <2>1, EngineFields
<1> HIDE DEF B, R, c
<1>4. Orderly(plan, Tasks, B, R, d)
  <2>1. t \in Runnable(B, R)
    BY DEF B, R
  <2>2. /\ R[t] = "none" /\ t \in Tasks /\ \E k \in 1..Len(B) : t \in ToSet(B[k])
        /\ \A k \in 1..Len(B) : t \in ToSet(B[k]) =>
             \A j \in 1..Len(B) : j < k => Settled(R, B[j])
    BY <1>2, <2>1, RunnableFacts
  <2> QED
    BY <1>1, <1>2, <2>2, OneMoreAgent
<1> QED
  BY <1>3, <1>4 DEF B

LEMMA AgentEndKeeps ==
  ASSUME Scheduling, stage = "running", NEW t \in Tasks, engine.child[t] = "working", NEW outcome
  PROVE  /\ DOMAIN Ending(t, outcome) = {"child", "results", "stray", "astray"}
         /\ Orderly(plan, Tasks, args, Ending(t, outcome).results, Ending(t, outcome).child)
<1> DEFINE B == args
           R == engine.results
           c == engine.child
           result == IF outcome = "completed" THEN "completed" ELSE "failed"
           S == Advanced(plan, B, [R EXCEPT ![t] = result])
           d == [c EXCEPT ![t] = "done"]
<1>1. DOMAIN engine = {"child", "results", "stray", "astray"} /\ Orderly(plan, Tasks, B, R, c)
  BY DEF Scheduling, EngineOrderly
<1>2. Apart(B, Tasks) /\ Known(plan, Tasks)
  BY PreparedPlan DEF Scheduling
<1>3. /\ DOMAIN Ending(t, outcome) = {"child", "results", "stray", "astray"}
      /\ Ending(t, outcome).results = S /\ Ending(t, outcome).child = d
  <2>1. Ending(t, outcome) = [engine EXCEPT !.child = d, !.results = S]
    BY <1>1 DEF Ending
  <2> HIDE DEF d, S
  <2> QED
    BY <1>1, <2>1, EngineFields
<1>4. result \in {"completed", "failed"} /\ c[t] = "working"
  OBVIOUS
<1> HIDE DEF B, R, c, result
<1>5. Orderly(plan, Tasks, B, S, d)
  <2>1. R[t] = "none" /\ \E k \in 1..Len(B) : t \in ToSet(B[k])
    BY <1>1, <1>4 DEF Orderly
  <2>2. \A k \in 1..Len(B) : t \in ToSet(B[k]) =>
          \A j \in 1..Len(B) : j < k => Settled(R, B[j])
    BY <1>1, <1>4 DEF Orderly
  <2> QED
    BY <1>1, <1>2, <1>4, <2>1, <2>2, OneMoreResult
<1> QED
  BY <1>3, <1>5 DEF B

LEMMA AgentRefusedKeeps ==
  ASSUME Scheduling, stage = "running", NEW t \in Runnable(args, engine.results),
         engine.child[t] = "none", NEW next,
         next = [engine EXCEPT !.results = Advanced(plan, args, [@ EXCEPT ![t] = "failed"])]
  PROVE  /\ DOMAIN next = {"child", "results", "stray", "astray"}
         /\ Orderly(plan, Tasks, args, next.results, next.child)
<1> DEFINE B == args
           R == engine.results
           c == engine.child
           S == Advanced(plan, B, [R EXCEPT ![t] = "failed"])
           d == [c EXCEPT ![t] = "none"]
<1>1. DOMAIN engine = {"child", "results", "stray", "astray"} /\ Orderly(plan, Tasks, B, R, c)
  BY DEF Scheduling, EngineOrderly
<1>2. Apart(B, Tasks) /\ Known(plan, Tasks)
  BY PreparedPlan DEF Scheduling
<1>3. /\ DOMAIN next = {"child", "results", "stray", "astray"}
      /\ next.results = S /\ next.child = c
  <2>1. next = [engine EXCEPT !.results = S]
    BY <1>1
  <2> HIDE DEF S
  <2> QED
    BY <1>1, <2>1, EngineFields
<1>4. t \in Runnable(B, R) /\ c[t] = "none"
  OBVIOUS
<1> HIDE DEF B, R, c
<1>5. /\ R[t] = "none" /\ t \in Tasks
      /\ \A k \in 1..Len(B) : t \in ToSet(B[k]) =>
           \A j \in 1..Len(B) : j < k => Settled(R, B[j])
  BY <1>2, <1>4, RunnableFacts
<1>6. d = c
  <2>1. c \in [Tasks -> {"none", "working", "done"}]
    BY <1>1 DEF Orderly
  <2> QED
    BY <1>4, <1>5, <2>1
<1>7. Orderly(plan, Tasks, B, S, d)
  BY <1>1, <1>2, <1>5, OneMoreResult
<1> QED
  BY <1>3, <1>6, <1>7 DEF B


LEMMA SchedulingSteps ==
  ASSUME Scheduling, [Next]_vars
  PROVE  Scheduling'
<1> DEFINE fields == {"child", "results", "stray", "astray"}
           ordered(e) == DOMAIN e = fields /\ Orderly(plan, Tasks, args, e.results, e.child)
<1>1. engine = Idle \/ (stage \in {"running", "over"} /\ ordered(engine))
  BY DEF Scheduling, EngineOrderly
<1>2. stage = "running" => ordered(engine)
  BY DEF Scheduling, EngineOrderly
<1>3. ASSUME plan' = plan, caps' = caps, args' = args, stage \notin {"draft", "refused"},
             \/ engine' = Idle /\ stage' \notin {"draft", "refused", "running"}
             \/ stage' \in {"running", "over"} /\ ordered(engine')
      PROVE  Scheduling'
  <2> HIDE DEF Scheduling
  <2>1. stage' \notin {"draft", "refused"}
    BY <1>3
  <2> QED
    BY <1>3, <2>1, EngineKeeps
<1> HIDE DEF ordered, fields
<1>4. CASE Refuse
  <2>1. Idle' = Idle
    BY DEF Idle
  <2> QED
    BY <1>1, <1>4, <2>1 DEF Refuse, Scheduling, PlanFits
<1>5. CASE Prepare
  <2>1. /\ plan' = plan /\ caps' = caps /\ stage = "draft"
        /\ engine' = Idle /\ stage' \in {"prepared", "down"}
        /\ args' = Batches(plan) /\ Valid(plan, caps)
    BY <1>5, TracksOrStops, Zenon DEF Prepare, StartAccepts
  <2>2. PlanFits'
    BY <2>1 DEF Scheduling, PlanFits
  <2>3. Idle' = Idle
    BY DEF Idle
  <2> QED
    BY <2>1, <2>2, <2>3 DEF Scheduling
<1>6. CASE EngineStartThrows
  <2>1. /\ plan' = plan /\ caps' = caps /\ args' = args /\ stage = "prepared"
        /\ engine' = Idle /\ stage' \in {"over", "down"}
    BY <1>6, TracksOrStops, Zenon DEF EngineStartThrows
  <2> QED
    BY <1>3, <2>1
<1>7. CASE EngineStarts
  <2> DEFINE first == [Idle EXCEPT !.results = Advanced(plan, args, NoResults(plan))]
  <2>1. /\ plan' = plan /\ caps' = caps /\ args' = args /\ stage = "prepared"
        /\ (stage' = "running" /\ engine' = first) \/ (stage' = "down" /\ engine' = Idle)
    BY <1>7, TracksOrStops, Zenon DEF EngineStarts
  <2>2. ordered(first)
    BY <2>1, FirstResults DEF ordered, fields
  <2> HIDE DEF first
  <2> QED
    BY <1>3, <2>1, <2>2
<1>8. ASSUME NEW t \in Tasks, AgentStarts(t)
      PROVE  Scheduling'
  <2>1. /\ plan' = plan /\ caps' = caps /\ args' = args /\ stage = "running"
        /\ t \in Runnable(args, engine.results)
        /\ (stage' = "running" /\ engine' = Starting(t)) \/ (stage' = "down" /\ engine' = Idle)
    <3> DEFINE starting == Materialized(live, t, AgentOf(t), Now)
               running == At(starting, MarkAttempt(starting.snapshot, AgentOf(t), "running"), Now)
               writes == Persisted(plan, live, <<starting, running>>)
                           \o <<Write("event", Event("published", t, "none", Now))>>
    <3>1. /\ Do(writes, running, Starting(t), "running") /\ args' = args /\ stage = "running"
          /\ t \in Runnable(args, engine.results)
      BY <1>8, Zenon DEF AgentStarts
    <3> HIDE DEF writes, running
    <3> QED
      BY <3>1, DoesOrStops
  <2>2. ordered(Starting(t))
    BY <2>1, AgentStartKeeps DEF ordered, fields
  <2> QED
    BY <1>3, <2>1, <2>2
<1>9. ASSUME NEW t \in Tasks, AgentStartIsLost(t)
      PROVE  Scheduling'
  <2>1. /\ plan' = plan /\ caps' = caps /\ args' = args /\ stage = "running"
        /\ t \in Runnable(args, engine.results)
        /\ stage' = "running" /\ engine' = Starting(t)
    BY <1>9 DEF AgentStartIsLost, Lose
  <2>2. ordered(Starting(t))
    BY <2>1, AgentStartKeeps DEF ordered, fields
  <2> QED
    BY <1>3, <2>1, <2>2
<1>10. ASSUME NEW t \in Tasks, AgentRefused(t)
       PROVE  Scheduling'
  <2> DEFINE next == [engine EXCEPT !.results = Advanced(plan, args, [@ EXCEPT ![t] = "failed"])]
  <2>1. /\ plan' = plan /\ caps' = caps /\ args' = args /\ stage = "running"
        /\ t \in Runnable(args, engine.results) /\ engine.child[t] = "none"
        /\ stage' = "running" /\ engine' = next
    BY <1>10, Zenon DEF AgentRefused
  <2>2. ordered(next)
    BY <2>1, AgentRefusedKeeps DEF ordered, fields
  <2> HIDE DEF next
  <2> QED
    BY <1>3, <2>1, <2>2
<1>11. ASSUME NEW t \in Tasks, NEW outcome, AgentEnds(t, outcome)
       PROVE  Scheduling'
  <2>1. /\ plan' = plan /\ caps' = caps /\ args' = args /\ stage = "running"
        /\ engine.child[t] = "working"
        /\ \/ stage' = "running" /\ engine' = Ending(t, outcome)
           \/ stage' = "down" /\ engine' = Idle
    <3> DEFINE bound == IF Bound(live, t) THEN live ELSE Materialized(live, t, AgentOf(t), Unset)
               over == At(bound, MarkAttempt(bound.snapshot, AgentOf(t), outcome), Now)
               writes == Persisted(plan, live, <<bound>>)
                           \o <<Write("event", Event("terminal", t, "none", Now))>>
                           \o Verified(plan, t) \o Persisted(plan, bound, <<over>>)
    <3>1. /\ Do(writes, over, Ending(t, outcome), "running") /\ args' = args /\ stage = "running"
          /\ engine.child[t] = "working"
      BY <1>11, Zenon DEF AgentEnds
    <3> HIDE DEF writes, over
    <3> QED
      BY <3>1, DoesOrStops
  <2>2. ordered(Ending(t, outcome))
    BY <2>1, AgentEndKeeps DEF ordered, fields
  <2> QED
    BY <1>3, <2>1, <2>2
<1>12. ASSUME NEW t \in Tasks, NEW outcome, AgentEndIsLost(t, outcome)
       PROVE  Scheduling'
  <2>1. /\ plan' = plan /\ caps' = caps /\ args' = args /\ stage = "running"
        /\ engine.child[t] = "working" /\ stage' = "running" /\ engine' = Ending(t, outcome)
    BY <1>12 DEF AgentEndIsLost, Lose
  <2>2. ordered(Ending(t, outcome))
    BY <2>1, AgentEndKeeps DEF ordered, fields
  <2> QED
    BY <1>3, <2>1, <2>2
<1>13. CASE StrayAgentStarts \/ StrayAgentEnds
  <2>1. /\ plan' = plan /\ caps' = caps /\ args' = args /\ stage' = stage /\ stage = "running"
        /\ \/ engine' = [engine EXCEPT !.stray = @ + 1, !.astray = @ + 1]
           \/ engine' = [engine EXCEPT !.astray = @ - 1]
    BY <1>13 DEF StrayAgentStarts, StrayAgentEnds, Unbound
  <2>2. DOMAIN engine = fields
    BY <1>2, <2>1 DEF ordered
  <2>3. engine'.child = engine.child /\ engine'.results = engine.results /\ DOMAIN engine' = fields
    <3>1. \/ engine' = [engine EXCEPT !.stray = engine.stray + 1, !.astray = engine.astray + 1]
          \/ engine' = [engine EXCEPT !.astray = engine.astray - 1]
      BY <2>1, <2>2 DEF fields
    <3>2. CASE engine' = [engine EXCEPT !.stray = engine.stray + 1, !.astray = engine.astray + 1]
      BY <2>2, <3>2, EngineFields DEF fields
    <3>3. CASE engine' = [engine EXCEPT !.astray = engine.astray - 1]
      BY <2>2, <3>3, EngineFields DEF fields
    <3> QED
      BY <3>1, <3>2, <3>3
  <2>4. ordered(engine')
    BY <1>2, <2>1, <2>3 DEF ordered
  <2> QED
    BY <1>3, <2>1, <2>4
<1>14. CASE Cancel
  <2>1. /\ plan' = plan /\ caps' = caps /\ args' = args /\ stage = "running"
        /\ (stage' = stage /\ engine' = engine) \/ (stage' = "down" /\ engine' = Idle)
    BY <1>14, TracksOrStops, Zenon DEF Cancel
  <2>2. engine' = engine => ordered(engine')
    BY <1>2, <2>1
  <2> QED
    BY <1>3, <2>1, <2>2
<1>15. ASSUME NEW stop, NEW clean, ResultArrives(stop, clean)
       PROVE  Scheduling'
  <2>1. \E helds, status : EndsWith(helds, status) /\ stage = "running"
    BY <1>15, Zenon DEF ResultArrives
  <2>2. /\ plan' = plan /\ caps' = caps /\ args' = args /\ stage = "running"
        /\ (stage' = "over" /\ engine' = engine) \/ (stage' = "down" /\ engine' = Idle)
    BY <2>1, TracksOrStops, Zenon DEF EndsWith
  <2>3. engine' = engine => ordered(engine')
    BY <1>2, <2>2
  <2> QED
    BY <1>3, <2>2, <2>3
<1>16. CASE HostStops
  <2>1. /\ plan' = plan /\ caps' = caps /\ args' = args /\ stage \notin {"draft", "refused"}
        /\ engine' = Idle /\ stage' = "down"
    BY <1>16 DEF HostStops
  <2> QED
    BY <1>3, <2>1
<1>17. CASE Restart
  <2>1. /\ plan' = plan /\ caps' = caps /\ args' = args /\ stage = "down"
        /\ engine' = Idle /\ stage' \in {"restored", "down"}
    BY <1>17, DoesOrStops, Zenon DEF Restart
  <2> QED
    BY <1>3, <2>1
<1>18. CASE UNCHANGED vars
  <2>1. Idle' = Idle
    BY DEF Idle
  <2> QED
    BY <1>18, <2>1 DEF vars, Scheduling, PlanFits, EngineOrderly
<1>19. CASE ClockStepsBack
  <2>1. /\ plan' = plan /\ caps' = caps /\ args' = args /\ stage = "running"
        /\ stage' = stage /\ engine' = engine
    BY <1>19 DEF ClockStepsBack
  <2>2. ordered(engine')
    BY <1>2, <2>1
  <2> QED
    BY <1>3, <2>1, <2>2
<1> QED
  BY <1>4, <1>5, <1>6, <1>7, <1>8, <1>9, <1>10, <1>11, <1>12, <1>13, <1>14, <1>15, <1>16,
     <1>17, <1>18, <1>19, Zenon DEF Next

LEMMA ScheduledSafely == Scheduling => ScheduleIsSafe
<1> SUFFICES ASSUME Scheduling
             PROVE  ScheduleIsSafe
  OBVIOUS
<1>1. Working = {t \in Tasks : engine.child[t] = "working"}
  BY DEF Working
<1>2. plan.maxConcurrent \in Nat /\ caps.maxConcurrent \in Nat
  <2>1. plan.maxConcurrent \in 1..16 /\ caps.maxConcurrent \in 1..16
    BY DEF Scheduling, PlanFits, IsPlan
  <2> QED
    BY <2>1
<1>3. CASE engine = Idle
  <2>1. Working = {}
    BY <1>1, <1>3 DEF Idle
  <2>2. Cardinality(Working) = 0
    BY <2>1, FS_EmptySet
  <2> QED
    BY <1>2, <2>1, <2>2 DEF ScheduleIsSafe
<1>4. CASE stage \in {"running", "over"} /\ EngineOrderly
  <2>1. /\ Ids(plan.tasks) = Tasks /\ Known(plan, Tasks)
        /\ SafeBatches(plan, args, Tasks, plan.maxConcurrent)
        /\ plan.maxConcurrent <= caps.maxConcurrent
    BY <1>4, PreparedPlan DEF Scheduling
  <2>2. Orderly(plan, Tasks, args, engine.results, engine.child) /\ IsPlan(plan)
    BY <1>4 DEF EngineOrderly, Scheduling, PlanFits
  <2>3. SafeWork(plan, engine.results, Working)
    <3> DEFINE R == engine.results
               child == engine.child
    <3>1. Orderly(plan, Tasks, args, R, child) /\ Working = {t \in Tasks : child[t] = "working"}
      BY <1>1, <2>2
    <3> HIDE DEF R, child
    <3>2. SafeWork(plan, R, Working)
      BY <2>1, <2>2, <3>1, WorkIsSafe
    <3> QED
      BY <3>2 DEF R
  <2>4. IsFiniteSet(Working)
    BY <1>1, TasksFinite, FS_Subset
  <2>5. Cardinality(Working) <= caps.maxConcurrent
    <3>1. Cardinality(Working) \in Nat
      BY <2>4, FS_CardinalityType
    <3> QED
      BY <3>1, <1>2, <2>1, <2>3 DEF SafeWork
  <2> QED
    BY <2>3, <2>5, Zenon DEF ScheduleIsSafe, SafeWork
<1> QED
  BY <1>3, <1>4 DEF Scheduling

(* Whatever the plan, the host, the order the Agents start and end in, the *)
(* events that are lost and the crashes: an Agent works only when all its  *)
(* dependencies completed, no more work than the plan and the host allow,  *)
(* and no two of them may write below the same place (deriveParallelWaves, *)
(* the conflict loop of preflight and the fixed script).                   *)
THEOREM SafeSchedule == Spec => []ScheduleIsSafe
<1>1. Spec => []Scheduling
  <2>1. Init => Scheduling
    BY SchedulingStarts
  <2>2. Scheduling /\ [Next]_vars => Scheduling'
    BY SchedulingSteps
  <2> QED
    BY <2>1, <2>2, PTL DEF Spec
<1> QED
  BY <1>1, ScheduledSafely, PTL


-----------------------------------------------------------------------------
(* What preflight admits, the adapter starts.                              *)

LEMMA TransportTypes ==
  ASSUME NEW host, IsHost(host), NEW c, c = CapabilitiesOf(host), NEW t \in c.transports
  PROVE  t.inherits \in BOOLEAN /\ t.outputSchema \in BOOLEAN /\ t.routing = "unsupported"
<1>1. c.transports = TransportsOf(host.providers)
  BY DEF CapabilitiesOf
<1>2. PICK n \in DOMAIN host.providers :
        t = [name |-> host.providers[n].name, inherits |-> host.providers[n].inherits,
             outputSchema |-> host.providers[n].outputSchema,
             toolFilter |-> host.providers[n].toolFilter, routing |-> "unsupported"]
  BY <1>1 DEF TransportsOf
<1> QED
  BY <1>2 DEF IsHost

LEMMA ValidBackend ==
  ASSUME NEW p, NEW host, IsHost(host), NEW c, c = CapabilitiesOf(host), Valid(p, c)
  PROVE  /\ ResolveBackend(p, c) = "workflow" /\ c.workflow
         /\ Cardinality({r.transport : r \in RolesOf(p)}) > 1 => FALSE
         /\ \A r \in RolesOf(p) :
              /\ r.preset = "none" /\ r.policy # "allowlist"
              /\ (r.llm # "none" \/ r.model # "none") => SeverityOf(Routing(r, c)) # "error"
<1>1. c.agentTeam = FALSE /\ c.workflow = host.adapter /\ host.adapter \in BOOLEAN
  BY DEF CapabilitiesOf, IsHost
<1>2. ResolveBackend(p, c) = "workflow"
  <2> SUFFICES ASSUME ResolveBackend(p, c) # "workflow"
               PROVE  FALSE
    OBVIOUS
  <2> DEFINE cond == ~c.agentTeam \/ ~c.experimental
  <2>1. When(cond, "error", "backend.agent-team-unavailable", {}) \subseteq TeamDiagnostics(p, c)
    BY Zenon DEF TeamDiagnostics
  <2>2. cond \in BOOLEAN /\ cond
    BY <1>1
  <2> HIDE DEF cond
  <2>3. TeamDiagnostics(p, c) \subseteq Diagnostics(p, c)
    BY DiagnosticParts
  <2>4. When(cond, "error", "backend.agent-team-unavailable", {}) \subseteq Diagnostics(p, c)
    BY <2>1, <2>3
  <2> QED
    BY <2>2, <2>4, NothingBlocks
<1>3. WorkflowDiagnostics(p, c) \subseteq Diagnostics(p, c)
  BY <1>2, DiagnosticParts
<1>4. c.workflow
  <2> DEFINE cond == ~c.workflow
  <2>1. When(cond, "error", "backend.workflow-unavailable", {}) \subseteq WorkflowDiagnostics(p, c)
    BY Zenon DEF WorkflowDiagnostics
  <2>2. cond \in BOOLEAN
    OBVIOUS
  <2> HIDE DEF cond
  <2>3. When(cond, "error", "backend.workflow-unavailable", {}) \subseteq Diagnostics(p, c)
    BY <2>1, <1>3
  <2>4. ~cond
    BY <2>2, <2>3, NothingBlocks
  <2> QED
    BY <2>4, <1>1 DEF cond
<1>5. Cardinality({r.transport : r \in RolesOf(p)}) > 1 => FALSE
  <2> DEFINE cond == Cardinality({r.transport : r \in RolesOf(p)}) > 1
             I == Ids(p.roles)
  <2>1. When(cond, "error", "backend.workflow-mixed-transports", I) \subseteq WorkflowDiagnostics(p, c)
    BY Zenon DEF WorkflowDiagnostics
  <2>2. cond \in BOOLEAN
    OBVIOUS
  <2> HIDE DEF cond, I
  <2>3. When(cond, "error", "backend.workflow-mixed-transports", I) \subseteq Diagnostics(p, c)
    BY <2>1, <1>3
  <2>4. ~cond
    BY <2>2, <2>3, NothingBlocks
  <2> QED
    BY <2>4 DEF cond
<1>6. ASSUME NEW r \in RolesOf(p)
      PROVE  /\ r.preset = "none" /\ r.policy # "allowlist"
             /\ (r.llm # "none" \/ r.model # "none") => SeverityOf(Routing(r, c)) # "error"
  <2> DEFINE routed == r.llm # "none" \/ r.model # "none"
             preset == r.preset # "none"
             listed == r.policy = "allowlist"
             severity == SeverityOf(Routing(r, c))
  <2>1. /\ When(preset, "error", "backend.workflow-preset-unsupported", {r.id})
             \subseteq WorkflowDiagnostics(p, c)
        /\ When(listed, "error", "backend.workflow-tool-policy-unsupported", {r.id})
             \subseteq WorkflowDiagnostics(p, c)
        /\ When(routed, severity, "backend.workflow-model-routing", {r.id})
             \subseteq WorkflowDiagnostics(p, c)
    <3> DEFINE of(s) ==
                 When(s.llm # "none" \/ s.model # "none", SeverityOf(Routing(s, c)),
                      "backend.workflow-model-routing", {s.id})
                 \cup When(s.preset # "none", "error", "backend.workflow-preset-unsupported", {s.id})
                 \cup When(s.policy = "allowlist",
                           "error", "backend.workflow-tool-policy-unsupported", {s.id})
               all == {of(s) : s \in RolesOf(p)}
    <3>1. UNION all \subseteq WorkflowDiagnostics(p, c)
      BY Zenon DEF WorkflowDiagnostics
    <3>2. of(r) \in all
      OBVIOUS
    <3>3. of(r) \subseteq WorkflowDiagnostics(p, c)
      <4> HIDE DEF of, all
      <4> QED
        BY <3>1, <3>2
    <3> HIDE DEF all
    <3> QED
      BY <3>3, Zenon
  <2>2. preset \in BOOLEAN /\ listed \in BOOLEAN /\ routed \in BOOLEAN
    OBVIOUS
  <2> HIDE DEF preset, listed, routed, severity
  <2>3. ~preset /\ ~listed /\ (severity = "error" => ~routed)
    <3>1. When(preset, "error", "backend.workflow-preset-unsupported", {r.id}) \subseteq Diagnostics(p, c)
      BY <2>1, <1>3
    <3>2. When(listed, "error", "backend.workflow-tool-policy-unsupported", {r.id})
            \subseteq Diagnostics(p, c)
      BY <2>1, <1>3
    <3>3. When(routed, severity, "backend.workflow-model-routing", {r.id}) \subseteq Diagnostics(p, c)
      BY <2>1, <1>3
    <3>4. ~preset
      BY <2>2, <3>1, NothingBlocks
    <3>5. ~listed
      BY <2>2, <3>2, NothingBlocks
    <3>6. severity = "error" => ~routed
      BY <2>2, <3>3, NothingBlocks
    <3> QED
      BY <3>4, <3>5, <3>6
  <2> QED
    BY <2>3 DEF preset, listed, routed, severity
<1> QED
  BY <1>2, <1>4, <1>5, <1>6

LEMMA ValidRole ==
  ASSUME NEW p, NEW c, Valid(p, c), NEW r \in RolesOf(p)
  PROVE  /\ Transport(c, r.transport) # {}
         /\ \A t \in Transport(c, r.transport) :
              /\ ~(r.context = "fork" /\ ~t.inherits)
              /\ ~(r.context = "fresh" /\ t.inherits)
<1>1. TransportDiagnostics(r, c) \subseteq Diagnostics(p, c)
  <2>1. TransportDiagnostics(r, c) \subseteq RoleDiagnostics(r, c)
    BY Zenon DEF RoleDiagnostics
  <2>2. RoleDiagnostics(r, c) \subseteq Diagnostics(p, c)
    BY DiagnosticParts
  <2> QED
    BY <2>1, <2>2
<1>2. Transport(c, r.transport) # {}
  <2> SUFFICES ASSUME Transport(c, r.transport) = {}
               PROVE  FALSE
    OBVIOUS
  <2>1. Diagnostic("error", "provider.transport-unavailable", {r.id}) \in TransportDiagnostics(r, c)
    BY Zenon DEF TransportDiagnostics
  <2> QED
    BY <2>1, <1>1, NoErrorIsFound
<1>3. ASSUME NEW t \in Transport(c, r.transport)
      PROVE  ~(r.context = "fork" /\ ~t.inherits) /\ ~(r.context = "fresh" /\ t.inherits)
  <2> DEFINE forks == r.context = "fork" /\ ~t.inherits
             fresh == r.context = "fresh" /\ t.inherits
  <2>1. /\ When(forks, "error", "provider.context-fork-unsupported", {r.id})
             \subseteq TransportDiagnostics(r, c)
        /\ When(fresh, "error", "provider.fresh-context-unsupported", {r.id})
             \subseteq TransportDiagnostics(r, c)
    <3> DEFINE of(x) ==
                 When(r.context = "fork" /\ ~x.inherits,
                      "error", "provider.context-fork-unsupported", {r.id})
                 \cup When(r.context = "fresh" /\ x.inherits,
                           "error", "provider.fresh-context-unsupported", {r.id})
                 \cup When(r.policy = "allowlist" /\ ~x.toolFilter,
                           "error", "tool.allowlist-unsupported", {r.id})
               all == {of(x) : x \in Transport(c, r.transport)}
    <3>1. TransportDiagnostics(r, c) = UNION all
      BY <1>2, Zenon DEF TransportDiagnostics
    <3>2. of(t) \in all
      OBVIOUS
    <3>3. of(t) \subseteq TransportDiagnostics(r, c)
      <4> HIDE DEF of, all
      <4> QED
        BY <3>1, <3>2
    <3> HIDE DEF all
    <3> QED
      BY <3>3, Zenon
  <2>2. forks \in BOOLEAN /\ fresh \in BOOLEAN
    OBVIOUS
  <2> HIDE DEF forks, fresh
  <2>3. When(forks, "error", "provider.context-fork-unsupported", {r.id}) \subseteq Diagnostics(p, c)
    BY <2>1, <1>1
  <2>4. When(fresh, "error", "provider.fresh-context-unsupported", {r.id}) \subseteq Diagnostics(p, c)
    BY <2>1, <1>1
  <2>5. ~forks /\ ~fresh
    BY <2>2, <2>3, <2>4, NothingBlocks
  <2> QED
    BY <2>5 DEF forks, fresh
<1> QED
  BY <1>2, <1>3

LEMMA ValidTask ==
  ASSUME NEW p, NEW c, Valid(p, c), NEW t \in TasksOf(p), IsTask(t)
  PROVE  /\ ~t.approval /\ ~t.hint /\ t.schema # "bad"
         /\ t.role \in Ids(p.roles)
         /\ t.schema = "good" =>
              \A x \in Transport(c, Named(p.roles, t.role).transport) : ~(~x.outputSchema)
<1> DEFINE missing == t.role \notin Ids(p.roles)
           approval == t.approval
           hint == t.hint
           bad == t.schema = "bad"
           good == /\ t.schema = "good" /\ t.role \in Ids(p.roles)
                   /\ \E x \in Transport(c, Named(p.roles, t.role).transport) : ~x.outputSchema
<1>1. /\ When(missing, "error", "task.role-missing", {t.id, t.role}) \subseteq TaskDiagnostics(p, t, c)
      /\ When(approval, "error", "task.runtime-approval-unsupported", {t.id})
           \subseteq TaskDiagnostics(p, t, c)
      /\ When(hint, "error", "task.budget-hint-unsupported", {t.id}) \subseteq TaskDiagnostics(p, t, c)
      /\ When(bad, "error", "task.output-schema-invalid", {t.id}) \subseteq TaskDiagnostics(p, t, c)
      /\ When(good, "error", "task.output-schema-unsupported", {t.id})
           \subseteq TaskDiagnostics(p, t, c)
  BY Zenon DEF TaskDiagnostics, DependencyDiagnostics
<1>2. /\ missing \in BOOLEAN /\ bad \in BOOLEAN /\ good \in BOOLEAN
      /\ approval \in BOOLEAN /\ hint \in BOOLEAN
  BY DEF IsTask
<1>3. ~missing /\ ~approval /\ ~hint /\ ~bad /\ ~good
  <2> HIDE DEF missing, approval, hint, bad, good
  <2>1. TaskDiagnostics(p, t, c) \subseteq Diagnostics(p, c)
    BY DiagnosticParts
  <2>2. /\ When(missing, "error", "task.role-missing", {t.id, t.role}) \subseteq Diagnostics(p, c)
        /\ When(approval, "error", "task.runtime-approval-unsupported", {t.id})
             \subseteq Diagnostics(p, c)
        /\ When(hint, "error", "task.budget-hint-unsupported", {t.id}) \subseteq Diagnostics(p, c)
        /\ When(bad, "error", "task.output-schema-invalid", {t.id}) \subseteq Diagnostics(p, c)
        /\ When(good, "error", "task.output-schema-unsupported", {t.id}) \subseteq Diagnostics(p, c)
    BY <1>1, <2>1
  <2> QED
    BY <1>2, <2>2, NothingBlocks
<1> QED
  BY <1>3


LEMMA ValidStarts ==
  ASSUME NEW p, IsPlan(p), NEW host, IsHost(host), NEW c, c = CapabilitiesOf(host), Valid(p, c)
  PROVE  StartAccepts(p, c)
<1>1. /\ p.roles \in Seq(RolesOf(p)) /\ p.roles # <<>>
      /\ \A t \in TasksOf(p) : IsTask(t)
      /\ \A r \in RolesOf(p) : IsRole(r)
  BY PlanFacts
<1>2. /\ ResolveBackend(p, c) = "workflow" /\ c.workflow
      /\ Cardinality({r.transport : r \in RolesOf(p)}) > 1 => FALSE
      /\ \A r \in RolesOf(p) :
           /\ r.preset = "none" /\ r.policy # "allowlist"
           /\ (r.llm # "none" \/ r.model # "none") => SeverityOf(Routing(r, c)) # "error"
  BY ValidBackend
<1>3. \A r \in RolesOf(p) :
        /\ Transport(c, r.transport) # {}
        /\ \A t \in Transport(c, r.transport) :
             /\ ~(r.context = "fork" /\ ~t.inherits)
             /\ ~(r.context = "fresh" /\ t.inherits)
  BY ValidRole
<1>4. PICK first \in RolesOf(p) : TRUE
  <2>1. p.roles[1] \in RolesOf(p)
    BY <1>1
  <2> QED
    BY <2>1
<1>5. PICK t \in c.transports : t.name = first.transport
  BY <1>3 DEF Transport
<1>6. t.inherits \in BOOLEAN /\ t.outputSchema \in BOOLEAN
  BY TransportTypes
<1>7. ASSUME NEW r \in RolesOf(p)
      PROVE  r.transport = t.name
  <2> SUFFICES ASSUME r.transport # first.transport
               PROVE  FALSE
    BY <1>5
  <2> DEFINE names == {s.transport : s \in RolesOf(p)}
             two == {r.transport, first.transport}
  <2>1. IsFiniteSet(names)
    <3> DEFINE D == 1..Len(p.roles)
               at == [n \in D |-> p.roles[n].transport]
    <3>1. IsFiniteSet(D) /\ DOMAIN p.roles = D /\ RolesOf(p) = {p.roles[n] : n \in D}
      <4>1. Len(p.roles) \in Nat /\ DOMAIN p.roles = 1..Len(p.roles)
        BY <1>1
      <4> QED
        BY <4>1, CountUpTo DEF RolesOf, ToSet
    <3>2. at \in [D -> names] /\ \A x \in names : \E n \in D : at[n] = x
      <4> HIDE DEF D
      <4> QED
        BY <3>1
    <3>3. at \in Surjection(D, names)
      <4> HIDE DEF D, at, names
      <4> QED
        BY <3>2 DEF Surjection
    <3> HIDE DEF D, at, names
    <3> QED
      BY <3>1, <3>3, FS_Surjection
  <2>2. two \subseteq names
    OBVIOUS
  <2>3. Cardinality(two) = 2
    <3>1. IsFiniteSet({first.transport}) /\ Cardinality({first.transport}) = 1
      BY FS_Singleton
    <3>2. two = {first.transport} \cup {r.transport} /\ r.transport \notin {first.transport}
      OBVIOUS
    <3>3. Cardinality({first.transport} \cup {r.transport}) = Cardinality({first.transport}) + 1
      BY <3>1, <3>2, FS_AddElement
    <3> QED
      BY <3>1, <3>2, <3>3
  <2>4. Cardinality(two) <= Cardinality(names) /\ Cardinality(names) \in Nat
    <3> HIDE DEF two, names
    <3> QED
      BY <2>1, <2>2, FS_Subset, FS_CardinalityType
  <2>5. ~(Cardinality(names) > 1)
    BY <1>2
  <2> HIDE DEF two, names
  <2> QED
    BY <2>3, <2>4, <2>5
<1>8. ASSUME NEW r \in RolesOf(p)
      PROVE  t \in Transport(c, r.transport)
  BY <1>7 DEF Transport
<1>9. ASSUME NEW r \in RolesOf(p)
      PROVE  r.llm = "none" /\ r.model = "none"
  <2>1. (CHOOSE x \in Transport(c, r.transport) : TRUE) \in Transport(c, r.transport)
    BY <1>3
  <2>2. Transport(c, r.transport) \subseteq c.transports
    BY DEF Transport
  <2>3. Routing(r, c) = "unsupported"
    BY <2>1, <2>2, <1>3, TransportTypes DEF Routing
  <2>4. SeverityOf(Routing(r, c)) = "error"
    BY <2>3 DEF SeverityOf
  <2> QED
    BY <2>4, <1>2
<1>10. ASSUME NEW r \in RolesOf(p)
       PROVE  /\ r.transport = t.name /\ r.preset = "none" /\ r.policy = "inherit"
              /\ r.context = "fork" <=> t.inherits
              /\ (r.llm # "none" \/ r.model # "none") => t.routing = "enforced"
  <2>1. r.preset = "none" /\ r.policy = "inherit"
    BY <1>1, <1>2 DEF IsRole
  <2>2. r.context = "fork" <=> t.inherits
    <3>1. /\ ~(r.context = "fork" /\ ~t.inherits) /\ ~(r.context = "fresh" /\ t.inherits)
      BY <1>3, <1>8
    <3>2. r.context \in {"fork", "fresh"}
      BY <1>1 DEF IsRole
    <3> QED
      BY <3>1, <3>2, <1>6
  <2> QED
    BY <2>1, <2>2, <1>7, <1>9
<1>11. ASSUME NEW u \in TasksOf(p)
       PROVE  ~u.approval /\ u.schema # "bad" /\ ~u.hint /\ (u.schema = "good" => t.outputSchema)
  <2>1. /\ ~u.approval /\ ~u.hint /\ u.schema # "bad"
        /\ u.role \in Ids(p.roles)
        /\ u.schema = "good" =>
             \A x \in Transport(c, Named(p.roles, u.role).transport) : ~(~x.outputSchema)
    BY <1>1, ValidTask
  <2>2. Named(p.roles, u.role) \in RolesOf(p)
    BY <2>1, <1>1, NamedFacts DEF RolesOf
  <2>3. t \in Transport(c, Named(p.roles, u.role).transport)
    BY <2>2, <1>8
  <2> QED
    BY <2>1, <2>3, <1>6
<1> QED
  BY <1>2, <1>10, <1>11, Zenon DEF StartAccepts

LEMMA DistinctCount ==
  ASSUME NEW X, NEW s \in Seq(X), Distinct(s)
  PROVE  IsFiniteSet(ToSet(s)) /\ Cardinality(ToSet(s)) = Len(s)
<1> DEFINE D == 1..Len(s)
<1>1. Len(s) \in Nat /\ DOMAIN s = D /\ ToSet(s) = {s[n] : n \in D}
  BY DEF ToSet
<1>2. IsFiniteSet(D) /\ Cardinality(D) = Len(s)
  BY <1>1, CountUpTo
<1>3. s \in [D -> ToSet(s)]
  BY <1>1
<1>4. s \in Surjection(D, ToSet(s)) /\ s \in Injection(D, ToSet(s))
  <2> HIDE DEF D
  <2> QED
    BY <1>1, <1>3 DEF Surjection, Injection, IsInjective, Distinct
<1> HIDE DEF D
<1> QED
  BY <1>2, <1>4, FS_Surjection

(* Without plan.cycle every task is in a wave.                             *)
LEMMA WavesCover ==
  ASSUME NEW p, IsPlan(p), Duplicates(p.tasks) = {}, NEW W, W = ParallelWaves(p),
         Len(FlattenSeq(W)) = Cardinality(Ids(p.tasks))
  PROVE  \A id \in Ids(p.tasks) : \E k \in 1..Len(W) : id \in ToSet(W[k])
<1> DEFINE I == Ids(p.tasks)
           N == Len(W)
           P == Placed(p)
           V(m) == [k \in 1..m |-> W[k]]
           Good(m) == V(m) \in Seq(Seq(I)) /\ Len(FlattenSeq(V(m))) = Cardinality(P[m])
           Q == {m \in Nat : m <= N => Good(m)}
<1>1. /\ W \in Seq(Seq(I)) /\ N \in Nat /\ N <= Len(p.tasks)
      /\ \A k \in 1..N : W[k] \in Seq(I) /\ ToSet(W[k]) = Ready(p, P[k - 1]) /\ Distinct(W[k])
  BY WaveFacts
<1>2. /\ \A k \in 0..N : P[k] \in SUBSET I
      /\ P[0] = {} /\ \A k \in 1..N : P[k] = P[k - 1] \cup Ready(p, P[k - 1])
  <2>1. \A k \in 0..N : k \in 0..Len(p.tasks)
    BY <1>1, PlanFacts
  <2>2. \A k \in 1..N : k \in 1..Len(p.tasks)
    BY <1>1, PlanFacts
  <2>3. /\ P \in [0..Len(p.tasks) -> SUBSET I] /\ P[0] = {}
        /\ \A k \in 1..Len(p.tasks) : P[k] = P[k - 1] \cup Ready(p, P[k - 1])
    BY PlacedUnfolds
  <2> HIDE DEF I, N, P
  <2> QED
    BY <2>1, <2>2, <2>3
<1>3. IsFiniteSet(I)
  BY IdsFacts
<1>4. \A placed : Ready(p, placed) \cap placed = {}
  BY DEF Ready
<1> HIDE DEF I, N, P
<1>5. 0 \in Q
  <2>1. V(0) = <<>>
    OBVIOUS
  <2>2. FlattenSeq(V(0)) = <<>>
    BY <2>1, FlattenOfNone
  <2>3. Len(FlattenSeq(V(0))) = 0 /\ Cardinality(P[0]) = 0
    BY <2>2, <1>2, FS_EmptySet
  <2> QED
    BY <2>1, <2>3
<1>6. ASSUME NEW m \in Nat, m \in Q
      PROVE  m + 1 \in Q
  <2> SUFFICES ASSUME m + 1 <= N
               PROVE  Good(m + 1)
    <3> HIDE DEF Good
    <3> QED
      OBVIOUS
  <2>1. m + 1 \in 1..N /\ m <= N /\ m \in 0..N /\ (m + 1) - 1 = m
    BY <1>1
  <2>2. V(m) \in Seq(Seq(I)) /\ Len(FlattenSeq(V(m))) = Cardinality(P[m])
    <3>1. Good(m)
      <4> HIDE DEF Good
      <4> QED
        BY <1>6, <2>1
    <3> HIDE DEF V
    <3> QED
      BY <3>1
  <2> DEFINE w == W[m + 1]
             S == P[m]
  <2>3. w \in Seq(I) /\ ToSet(w) = Ready(p, S) /\ Distinct(w)
    BY <1>1, <2>1
  <2>4. V(m + 1) = Append(V(m), w)
    <3>1. Len(V(m)) = m
      OBVIOUS
    <3>2. Append(V(m), w) = [k \in 1..(m + 1) |-> IF k = m + 1 THEN w ELSE V(m)[k]]
      BY <2>2, <3>1
    <3>3. \A k \in 1..(m + 1) : (IF k = m + 1 THEN w ELSE V(m)[k]) = W[k]
      OBVIOUS
    <3> QED
      BY <3>2, <3>3
  <2> HIDE DEF w, V
  <2>5. V(m + 1) \in Seq(Seq(I))
    <3> DEFINE Y == Seq(I)
    <3>1. V(m) \in Seq(Y) /\ w \in Y
      BY <2>2, <2>3
    <3> HIDE DEF Y
    <3>2. Append(V(m), w) \in Seq(Y)
      BY <3>1
    <3> QED
      BY <2>4, <3>2 DEF Y
  <2>6. FlattenSeq(V(m + 1)) = FlattenSeq(V(m)) \o w
    BY <2>2, <2>3, <2>4, FlattenAppend
  <2>7. Len(FlattenSeq(V(m + 1))) = Cardinality(S) + Len(w)
    <3> DEFINE flat == FlattenSeq(V(m))
    <3>1. flat \in Seq(I) /\ Len(flat) = Cardinality(S)
      BY <2>2, FlattenType
    <3> HIDE DEF flat, S
    <3>2. Len(flat \o w) = Len(flat) + Len(w)
      BY <2>3, <3>1
    <3> QED
      BY <2>6, <3>1, <3>2 DEF flat
  <2>8. IsFiniteSet(S) /\ Cardinality(S) \in Nat
    <3>1. S \in SUBSET I
      BY <1>2, <2>1
    <3> QED
      BY <3>1, <1>3, FS_Subset, FS_CardinalityType
  <2>9. IsFiniteSet(ToSet(w)) /\ Cardinality(ToSet(w)) = Len(w) /\ Len(w) \in Nat
    BY <2>3, DistinctCount
  <2>10. P[m + 1] = S \cup ToSet(w) /\ S \cap ToSet(w) = {}
    BY <1>2, <1>4, <2>1, <2>3
  <2> HIDE DEF S
  <2>11. Cardinality(P[m + 1]) = Cardinality(S) + Len(w)
    <3>1. Cardinality(S \cup ToSet(w)) =
            Cardinality(S) + Cardinality(ToSet(w)) - Cardinality(S \cap ToSet(w))
      BY <2>8, <2>9, FS_Union
    <3>2. Cardinality(S \cap ToSet(w)) = 0
      BY <2>10, FS_EmptySet
    <3> QED
      BY <2>8, <2>9, <2>10, <3>1, <3>2
  <2> QED
    BY <2>5, <2>7, <2>11
<1>7. \A m \in Nat : m \in Q
  <2> HIDE DEF Q
  <2> QED
    BY <1>5, <1>6, NumberInduction
<1>8. Good(N)
  <2>1. N <= N
    BY <1>1
  <2> HIDE DEF Good
  <2> QED
    BY <1>1, <1>7, <2>1
<1>9. V(N) = W
  BY <1>1 DEF N
<1>10. Cardinality(P[N]) = Cardinality(I)
  <2>1. Len(FlattenSeq(V(N))) = Cardinality(P[N])
    BY <1>8
  <2> HIDE DEF V
  <2> QED
    BY <2>1, <1>9 DEF I
<1>11. P[N] = I
  <2>1. P[N] \in SUBSET I
    BY <1>1, <1>2
  <2> QED
    BY <2>1, <1>3, <1>10, FS_Subset
<1>12. \A id : id \in P[N] <=> \E j \in 1..N : id \in ToSet(W[j])
  <2>1. \A k \in 0..Len(W) : \A id : id \in P[k] <=> \E j \in 1..k : id \in ToSet(W[j])
    BY WavesPlace DEF P
  <2>2. N \in 0..Len(W)
    BY <1>1 DEF N
  <2> QED
    BY <2>1, <2>2
<1> QED
  BY <1>11, <1>12 DEF I, N


(* The number of its wave is the level of a task.                          *)
LEMMA WavesAreLevels ==
  ASSUME NEW p, IsPlan(p), NEW c, Valid(p, c), NEW W, W = ParallelWaves(p)
  PROVE  \E level \in Levels(p) :
           \A k \in 1..Len(p.tasks) :
             {id \in Ids(p.tasks) : level[id] = k} = IF k <= Len(W) THEN ToSet(W[k]) ELSE {}
<1> DEFINE I == Ids(p.tasks)
           N == Len(W)
           of(id) == {k \in 1..N : id \in ToSet(W[k])}
           level == [id \in I |-> CHOOSE k \in 1..N : id \in ToSet(W[k])]
<1>1. /\ Duplicates(p.tasks) = {} /\ \A t \in TasksOf(p) : Deps(t) \subseteq I
      /\ Len(FlattenSeq(W)) = Cardinality(I)
  BY ValidGraph
<1>2. N \in Nat /\ N <= Len(p.tasks) /\ Len(p.tasks) \in Nat
  BY WaveFacts, PlanFacts
<1>3. \A id \in I : \E k \in 1..N : id \in ToSet(W[k])
  BY <1>1, WavesCover
<1>4. \A k \in 1..N : \A id \in ToSet(W[k]) : id \in I /\ \A j \in 1..N : id \in ToSet(W[j]) => j = k
  <2> SUFFICES ASSUME NEW k \in 1..N, NEW id \in ToSet(W[k])
               PROVE  id \in I /\ \A j \in 1..N : id \in ToSet(W[j]) => j = k
    OBVIOUS
  <2> QED
    BY WaveOrder
<1>5. \A id \in I : level[id] \in 1..N /\ id \in ToSet(W[level[id]])
  BY <1>3
<1>6. \A id \in I : \A k \in 1..N : id \in ToSet(W[k]) => level[id] = k
  <2> HIDE DEF level
  <2> QED
    BY <1>4, <1>5
<1>7. level \in [I -> 1..Len(p.tasks)]
  <2>1. \A id \in I : level[id] \in 1..Len(p.tasks)
    <3>1. 1..N \subseteq 1..Len(p.tasks)
      BY <1>2
    <3> HIDE DEF level, N
    <3> QED
      BY <3>1, <1>5
  <2>2. level = [id \in I |-> level[id]]
    OBVIOUS
  <2> HIDE DEF level, I
  <2> QED
    BY <2>1, <2>2
<1> HIDE DEF level
<1>8. \A t \in TasksOf(p) : t.id \in I /\ Named(p.tasks, t.id) = t /\ KnownDeps(p, t.id) = Deps(t)
  <2> TAKE t \in TasksOf(p)
  <2>1. t.id \in I /\ Named(p.tasks, t.id) = t
    BY <1>1, PlanFacts, DistinctIds DEF TasksOf
  <2> QED
    BY <2>1, <1>1 DEF KnownDeps
<1>9. ASSUME NEW t \in TasksOf(p)
      PROVE  /\ \A d \in Deps(t) : level[d] < level[t.id]
             /\ level[t.id] = 1 \/ \E d \in Deps(t) : level[d] = level[t.id] - 1
  <2> DEFINE id == t.id
             k == level[id]
  <2>1. id \in I /\ k \in 1..N /\ id \in ToSet(W[k])
    BY <1>5, <1>8
  <2>2. KnownDeps(p, id) = Deps(t)
    BY <1>8
  <2> HIDE DEF id, k
  <2>3. \A d \in Deps(t) : \E j \in 1..(k - 1) : d \in ToSet(W[j])
    BY <2>1, <2>2, WaveOrder DEF N
  <2>4. \A d \in Deps(t) : d \in I /\ level[d] \in 1..(k - 1) /\ d \in ToSet(W[level[d]])
    <3> TAKE d \in Deps(t)
    <3>1. PICK j \in 1..(k - 1) : d \in ToSet(W[j])
      BY <2>3
    <3>2. j \in 1..N
      BY <1>2, <2>1, <3>1
    <3>3. d \in I
      BY <1>4, <3>1, <3>2
    <3>4. level[d] = j
      BY <1>6, <3>1, <3>2, <3>3
    <3> QED
      BY <3>1, <3>3, <3>4
  <2>5. \A d \in Deps(t) : level[d] < k
    BY <2>1, <2>4, <1>2
  <2>6. ASSUME k # 1
        PROVE  \E d \in Deps(t) : level[d] = k - 1
    <3> DEFINE P == Placed(p)
               m == k - 1
    <3>1. m \in 1..N /\ m - 1 \in 0..N /\ m \in 0..N /\ m \in Nat
      BY <1>2, <2>1, <2>6
    <3>2. SUFFICES ASSUME \A d \in Deps(t) : level[d] # m
                   PROVE  FALSE
      OBVIOUS
    <3>3. \A j \in 0..N : \A x : x \in P[j] <=> \E i \in 1..j : x \in ToSet(W[i])
      BY WavesPlace
    <3>4. \A d \in Deps(t) : d \in P[m - 1]
      <4> TAKE d \in Deps(t)
      <4>1. level[d] \in 1..(m - 1)
        BY <2>4, <3>1, <3>2
      <4> HIDE DEF m, P
      <4> QED
        BY <2>4, <3>1, <3>3, <4>1
    <3>5. id \notin P[m - 1]
      <4> SUFFICES ASSUME id \in P[m - 1]
                   PROVE  FALSE
        OBVIOUS
      <4>1. PICK i \in 1..(m - 1) : id \in ToSet(W[i])
        <5> HIDE DEF m, P
        <5> QED
          BY <3>1, <3>3
      <4>2. i \in 1..N /\ i # k
        BY <1>2, <2>1, <4>1
      <4> QED
        BY <1>4, <2>1, <4>1, <4>2
    <3>6. id \in Ready(p, P[m - 1])
      BY <2>1, <2>2, <3>4, <3>5 DEF Ready
    <3>7. Ready(p, P[m - 1]) = ToSet(W[m])
      BY <3>1, WaveFacts
    <3>8. id \in ToSet(W[m]) /\ m # k
      BY <3>6, <3>7, <2>1, <1>2
    <3> HIDE DEF m
    <3> QED
      BY <3>1, <3>8, <2>1, <1>4
  <2> QED
    BY <2>5, <2>6 DEF k, id
<1>10. level \in Levels(p)
  BY <1>7, <1>9, Zenon DEF Levels
<1>11. ASSUME NEW k \in 1..Len(p.tasks)
       PROVE  {id \in I : level[id] = k} = IF k <= N THEN ToSet(W[k]) ELSE {}
  <2>1. CASE k <= N
    <3>1. k \in 1..N
      BY <1>2, <2>1
    <3>2. \A id \in I : level[id] = k <=> id \in ToSet(W[k])
      BY <1>5, <1>6, <3>1
    <3>3. ToSet(W[k]) \subseteq I
      BY <1>4, <3>1
    <3> QED
      BY <2>1, <3>2, <3>3
  <2>2. CASE ~(k <= N)
    <3>1. \A id \in I : level[id] # k
      BY <1>2, <1>5, <2>2
    <3> QED
      BY <2>2, <3>1
  <2> QED
    BY <2>1, <2>2
<1> QED
  BY <1>10, <1>11 DEF N, I

(* The plan and the host never change. *)
Decided == \E case \in Cases : plan = case.plan /\ caps = CapabilitiesOf(case.host)

LEMMA PlanAndHostStay ==
  ASSUME [Next]_vars
  PROVE  plan' = plan /\ caps' = caps
<1>1. CASE Refuse
  BY <1>1 DEF Refuse
<1>2. CASE Prepare \/ EngineStartThrows \/ EngineStarts \/ Cancel
  BY <1>2, TracksOrStops, Zenon DEF Prepare, EngineStartThrows, EngineStarts, Cancel
<1>3. ASSUME NEW t, AgentStarts(t)
      PROVE  plan' = plan /\ caps' = caps
  BY <1>3, DoesOrStops, Zenon DEF AgentStarts
<1>4. ASSUME NEW t, AgentStartIsLost(t) \/ AgentRefused(t)
      PROVE  plan' = plan /\ caps' = caps
  BY <1>4, Zenon DEF AgentStartIsLost, AgentRefused, Lose
<1>5. ASSUME NEW t, NEW outcome, AgentEnds(t, outcome)
      PROVE  plan' = plan /\ caps' = caps
  BY <1>5, DoesOrStops, Zenon DEF AgentEnds
<1>6. ASSUME NEW t, NEW outcome, AgentEndIsLost(t, outcome)
      PROVE  plan' = plan /\ caps' = caps
  BY <1>6, Zenon DEF AgentEndIsLost, Lose
<1>7. CASE StrayAgentStarts \/ StrayAgentEnds \/ ClockStepsBack
  BY <1>7, Zenon DEF StrayAgentStarts, StrayAgentEnds, Unbound, ClockStepsBack
<1>8. ASSUME NEW stop, NEW clean, ResultArrives(stop, clean)
      PROVE  plan' = plan /\ caps' = caps
  <2>1. \E helds, status : EndsWith(helds, status)
    BY <1>8, Zenon DEF ResultArrives
  <2> QED
    BY <2>1, TracksOrStops, Zenon DEF EndsWith
<1>9. CASE HostStops
  BY <1>9, Zenon DEF HostStops
<1>10. CASE Restart
  BY <1>10, DoesOrStops, Zenon DEF Restart
<1>11. CASE UNCHANGED vars
  BY <1>11 DEF vars
<1> QED
  BY <1>1, <1>2, <1>3, <1>4, <1>5, <1>6, <1>7, <1>8, <1>9, <1>10, <1>11, Zenon DEF Next

LEMMA DecidedAdmits == Decided => PreflightAdmits
<1> SUFFICES ASSUME Decided, Valid(plan, caps)
             PROVE  /\ StartAccepts(plan, caps)
                    /\ Len(plan.tasks) <= plan.maxAgents /\ plan.maxAgents <= caps.maxAgents
                    /\ \E level \in Levels(plan) :
                         \A k \in 1..Len(plan.tasks) :
                           {id \in Ids(plan.tasks) : level[id] = k}
                             = IF k <= Len(ParallelWaves(plan))
                               THEN ToSet(ParallelWaves(plan)[k]) ELSE {}
  BY Zenon DEF PreflightAdmits
<1>1. PICK case \in Cases : plan = case.plan /\ caps = CapabilitiesOf(case.host)
  BY DEF Decided
<1>2. IsPlan(plan) /\ IsHost(case.host)
  BY <1>1, CasesArePlans
<1>3. StartAccepts(plan, caps)
  BY <1>1, <1>2, ValidStarts
<1>4. Len(plan.tasks) <= plan.maxAgents /\ plan.maxAgents <= caps.maxAgents
  BY <1>1, <1>2, HostLimits, ValidBudget
<1> DEFINE W == ParallelWaves(plan)
<1>5. W = ParallelWaves(plan)
  OBVIOUS
<1> HIDE DEF W
<1>6. \E level \in Levels(plan) :
        \A k \in 1..Len(plan.tasks) :
          {id \in Ids(plan.tasks) : level[id] = k} = IF k <= Len(W) THEN ToSet(W[k]) ELSE {}
  BY <1>2, <1>5, WavesAreLevels
<1> QED
  BY <1>3, <1>4, <1>6 DEF W

(* Whatever preflight finds no error in, for any plan and host: the        *)
(* adapter's validateStart does not refuse it, it fits its own limits and  *)
(* those of the host, and its waves are the levels of its dependencies, so *)
(* that no task is left out and none waits longer than it has to           *)
(* (preflightAgentPlan, deriveParallelWaves, validateStart).               *)
THEOREM AdmissionIsSound == Spec => []PreflightAdmits
<1>1. Init => Decided
  <2> SUFFICES ASSUME Init
               PROVE  Decided
    OBVIOUS
  <2> QED
    BY DEF Init, Decided
<1>2. Decided /\ [Next]_vars => Decided'
  <2> SUFFICES ASSUME Decided, [Next]_vars
               PROVE  Decided'
    OBVIOUS
  <2> QED
    BY PlanAndHostStay DEF Decided
<1> QED
  BY <1>1, <1>2, DecidedAdmits, PTL DEF Spec


-----------------------------------------------------------------------------
(* Lists of writes.                                                        *)

WrittenUpTo(record, writes) ==
  CHOOSE after : after = [n \in 0..Len(writes) |->
    IF n = 0 THEN record ELSE Apply(after[n - 1], writes[n])]

(* The record after so many of the writes. *)
LEMMA WrittenUnfolds ==
  ASSUME NEW record, NEW X, NEW writes \in Seq(X)
  PROVE  LET A == WrittenUpTo(record, writes)
         IN  /\ A[0] = record
             /\ \A n \in 1..Len(writes) : A[n] = Apply(A[n - 1], writes[n])
             /\ Written(record, writes) = A[Len(writes)]
<1> DEFINE N == Len(writes)
           Upto(k, f) == f = [n \in 0..k |-> IF n = 0 THEN record ELSE Apply(f[n - 1], writes[n])]
           Q == {k \in Nat : \E f : Upto(k, f)}
<1>1. 0 \in Q
  <2> DEFINE f == [n \in 0..0 |-> record]
  <2>1. Upto(0, f)
    OBVIOUS
  <2> QED
    BY <2>1
<1>2. ASSUME NEW k \in Nat, k \in Q
      PROVE  k + 1 \in Q
  <2>1. PICK f : Upto(k, f)
    BY <1>2
  <2> DEFINE last == Apply(f[k], writes[k + 1])
             g == [n \in 0..(k + 1) |-> IF n = k + 1 THEN last ELSE f[n]]
  <2>2. /\ g[k] = f[k] /\ g[k + 1] = last /\ DOMAIN g = 0..(k + 1)
        /\ \A n \in 0..k : g[n] = f[n] /\ n # k + 1
    OBVIOUS
  <2>3. ASSUME NEW n \in 0..(k + 1)
        PROVE  g[n] = IF n = 0 THEN record ELSE Apply(g[n - 1], writes[n])
    <3>1. CASE n = k + 1
      <4>1. n # 0 /\ n - 1 = k
        BY <3>1
      <4> HIDE DEF g
      <4> QED
        BY <2>2, <3>1, <4>1
    <3>2. CASE n \in 0..k
      <4>1. f[n] = IF n = 0 THEN record ELSE Apply(f[n - 1], writes[n])
        <5> HIDE DEF g, last
        <5> QED
          BY <2>1, <3>2
      <4>2. g[n] = f[n] /\ (n # 0 => n - 1 \in 0..k /\ g[n - 1] = f[n - 1])
        <5> HIDE DEF g, last
        <5> QED
          BY <2>2, <3>2
      <4> HIDE DEF g, last
      <4> QED
        BY <4>1, <4>2
    <3> QED
      BY <3>1, <3>2
  <2>4. Upto(k + 1, g)
    <3>1. g = [n \in 0..(k + 1) |-> g[n]]
      OBVIOUS
    <3> HIDE DEF g, last
    <3> QED
      BY <2>3, <3>1
  <2> HIDE DEF Upto, g
  <2> QED
    BY <2>4
<1>3. \A k \in Nat : k \in Q
  <2> HIDE DEF Q
  <2> QED
    BY <1>1, <1>2, NumberInduction
<1>4. N \in Nat
  OBVIOUS
<1>5. PICK f : Upto(N, f)
  BY <1>3, <1>4
<1> DEFINE A == WrittenUpTo(record, writes)
<1>6. A = [n \in 0..N |-> IF n = 0 THEN record ELSE Apply(A[n - 1], writes[n])]
  BY <1>5 DEF WrittenUpTo
<1>7. Written(record, writes) = A[N]
  BY DEF Written, WrittenUpTo
<1> HIDE DEF A
<1>8. A[0] = record /\ \A n \in 1..N : A[n] = Apply(A[n - 1], writes[n])
  <2>1. 0 \in 0..N /\ \A n \in 1..N : n \in 0..N /\ n # 0
    BY <1>4
  <2> HIDE DEF N
  <2> QED
    BY <1>6, <2>1
<1> QED
  BY <1>7, <1>8, Zenon DEF A, N

LEMMA WrittenNone ==
  ASSUME NEW record
  PROVE  Written(record, <<>>) = record
<1> DEFINE none == <<>>
           A == WrittenUpTo(record, none)
<1>1. none \in Seq({}) /\ Len(none) = 0
  OBVIOUS
<1> HIDE DEF none
<1>2. A[0] = record /\ Written(record, none) = A[Len(none)]
  BY <1>1, WrittenUnfolds
<1>3. Written(record, none) = record
  BY <1>1, <1>2, Zenon
<1> QED
  BY <1>3, Zenon DEF none

LEMMA WrittenMore ==
  ASSUME NEW record, NEW X, NEW writes \in Seq(X), NEW w \in X
  PROVE  Written(record, Append(writes, w)) = Apply(Written(record, writes), w)
<1> DEFINE more == Append(writes, w)
           N == Len(writes)
           A == WrittenUpTo(record, writes)
           B == WrittenUpTo(record, more)
<1>1. /\ more \in Seq(X) /\ N \in Nat /\ Len(more) = N + 1 /\ more[N + 1] = w
      /\ \A n \in 1..N : more[n] = writes[n]
  OBVIOUS
<1>2. /\ A[0] = record /\ \A n \in 1..N : A[n] = Apply(A[n - 1], writes[n])
      /\ Written(record, writes) = A[N]
  BY WrittenUnfolds
<1> HIDE DEF more
<1>3. /\ B[0] = record /\ \A n \in 1..Len(more) : B[n] = Apply(B[n - 1], more[n])
      /\ Written(record, more) = B[Len(more)]
  BY <1>1, WrittenUnfolds
<1> HIDE DEF N, A, B
<1> DEFINE Q == {n \in Nat : n <= N => A[n] = B[n]}
<1>4. 0 \in Q
  BY <1>2, <1>3
<1>5. ASSUME NEW n \in Nat, n \in Q
      PROVE  n + 1 \in Q
  <2> SUFFICES ASSUME n + 1 <= N
               PROVE  A[n + 1] = B[n + 1]
    OBVIOUS
  <2>1. n + 1 \in 1..N /\ n + 1 \in 1..Len(more) /\ (n + 1) - 1 = n /\ A[n] = B[n]
    BY <1>1, <1>5
  <2> QED
    BY <1>1, <1>2, <1>3, <2>1
<1>6. \A n \in Nat : n \in Q
  <2> HIDE DEF Q
  <2> QED
    BY <1>4, <1>5, NumberInduction
<1>7. A[N] = B[N] /\ N + 1 \in 1..Len(more) /\ (N + 1) - 1 = N
  BY <1>1, <1>6
<1> QED
  BY <1>1, <1>2, <1>3, <1>7 DEF more

LEMMA WrittenAll ==
  ASSUME NEW record, NEW X, NEW first \in Seq(X), NEW second \in Seq(X)
  PROVE  Written(record, first \o second) = Written(Written(record, first), second)
<1> DEFINE start == Written(record, first)
           Q == {s \in Seq(X) : Written(record, first \o s) = Written(start, s)}
<1>1. <<>> \in Q
  <2>1. first \o <<>> = first /\ <<>> \in Seq(X)
    OBVIOUS
  <2> QED
    BY <2>1, WrittenNone
<1>2. ASSUME NEW s \in Seq(X), NEW x \in X, s \in Q
      PROVE  Append(s, x) \in Q
  <2>1. first \o Append(s, x) = Append(first \o s, x) /\ first \o s \in Seq(X)
        /\ Append(s, x) \in Seq(X)
    OBVIOUS
  <2>2. Written(record, Append(first \o s, x)) = Apply(Written(record, first \o s), x)
    <3> DEFINE both == first \o s
    <3>1. both \in Seq(X)
      BY <2>1
    <3> HIDE DEF both, start, Q
    <3>2. Written(record, Append(both, x)) = Apply(Written(record, both), x)
      BY <3>1, WrittenMore
    <3> QED
      BY Zenon, <3>2 DEF both
  <2>3. Written(start, Append(s, x)) = Apply(Written(start, s), x)
    <3> HIDE DEF start, Q
    <3> QED
      BY WrittenMore
  <2>4. Written(record, first \o s) = Written(start, s)
    BY <1>2
  <2> QED
    BY <2>1, <2>2, <2>3, <2>4
<1>3. Seq(X) \subseteq Q
  <2> HIDE DEF Q
  <2> QED
    BY <1>1, <1>2, SequenceInduction
<1> QED
  BY <1>3

-----------------------------------------------------------------------------
(* Held executions.                                                        *)

(* The statuses an attempt of this engine passes through, and how far each *)
(* of them is: two of one rank never follow each other.                    *)
Reached == {"starting", "running"} \cup TerminalAttempt

Rank(status) ==
  CASE status = "none" -> 0
    [] status = "starting" -> 1
    [] status = "running" -> 2
    [] OTHER -> 3

ExecutionRank(status) ==
  CASE status = "absent" -> 0
    [] status = "queued" -> 1
    [] status = "running" -> 2
    [] status = "stopping" -> 3
    [] OTHER -> 4

AttemptSet == [agent : Agents \cup {NoAgent}, status : Reached]
AttemptLists == {<<>>} \cup {<<a>> : a \in AttemptSet}
SnapshotSet ==
  [status : ExecutionStatus \cup {"absent"}, cancelling : BOOLEAN,
   attempts : [Tasks -> AttemptLists]]
HeldSet == [snapshot : SnapshotSet, began : [Tasks -> Int], ended : [Tasks -> Int]]

(* The Agent of the attempt is the one the task's label names. *)
Published(held, t) == Bound(held, t) /\ held.snapshot.attempts[t][1].agent = AgentOf(t)

(* An attempt that is over has its end, one that went on has its beginning *)
(* unless a restart ended it, and no time is ahead of the trail.           *)
HeldIsTimed(held, now) ==
  \A t \in Tasks :
    /\ held.began[t] \in {Unset} \cup 0..now
    /\ held.ended[t] \in {Unset} \cup 0..now
    /\ Over(held, t) <=> held.ended[t] # Unset
    /\ ~Bound(held, t) => held.began[t] = Unset
    /\ StatusOf(held, t) \notin {"none", "starting", "unknown"} => held.began[t] # Unset

HeldIsSound(held) ==
  /\ held.snapshot.status = "stopping" => held.snapshot.cancelling
  /\ held.snapshot.status = "absent" =>
       ~held.snapshot.cancelling /\ \A t \in Tasks : ~Bound(held, t)
  /\ held.snapshot.status = "succeeded" => \A t \in Tasks : StatusOf(held, t) = "completed"

(* Of an execution all of whose Agents were observed: every attempt has    *)
(* its beginning, after the end of all dependencies of its task.           *)
HeldIsOrdered(p, held) ==
  \A t \in Tasks : Bound(held, t) =>
    /\ held.began[t] # Unset
    /\ \A d \in Deps(Named(p.tasks, t)) :
         StatusOf(held, d) = "completed" /\ held.ended[d] <= held.began[t]

HeldIsGood(p, held, now, whole) ==
  /\ held \in HeldSet /\ HeldIsTimed(held, now) /\ HeldIsSound(held)
  /\ whole => HeldIsOrdered(p, held)

(* One held execution gives way to another: statuses stay or go on, and    *)
(* what is known stays known.                                              *)
GoesOn(held, next) ==
  /\ \/ held.snapshot.status = next.snapshot.status
     \/ ExecutionRank(held.snapshot.status) < ExecutionRank(next.snapshot.status)
  /\ held.snapshot.cancelling => next.snapshot.cancelling
  /\ next.snapshot.cancelling => held.snapshot.cancelling \/ next.snapshot.status = "stopping"
  /\ \A t \in Tasks :
       /\ \/ StatusOf(held, t) = StatusOf(next, t)
          \/ Rank(StatusOf(held, t)) < Rank(StatusOf(next, t))
       /\ Published(held, t) => Published(next, t)
       /\ held.began[t] # Unset => next.began[t] = held.began[t]
       /\ held.ended[t] # Unset => next.ended[t] = held.ended[t]

-----------------------------------------------------------------------------
(* The record.                                                             *)

EventSet ==
  [kind : {"execution", "attempt", "published", "terminal", "evidence"},
   task : Tasks \cup {NoTask}, status : ExecutionStatus \cup Reached \cup {"none"}, at : Nat]

(* An event tells of the past of what is held. *)
IsPast(held, e) ==
  /\ e.task # NoTask => Bound(held, e.task)
  /\ e.kind = "published" /\ e.task # NoTask => Published(held, e.task)
  /\ e.kind = "execution" =>
       /\ e.task = NoTask /\ e.status \in ExecutionStatus
       /\ \/ e.status = held.snapshot.status
          \/ ExecutionRank(e.status) < ExecutionRank(held.snapshot.status)
       /\ e.status = "stopping" => held.snapshot.cancelling
  /\ e.kind = "attempt" =>
       /\ e.task # NoTask /\ e.status \in Reached
       /\ \/ e.status = StatusOf(held, e.task)
          \/ Rank(e.status) < Rank(StatusOf(held, e.task))
       /\ e.status \in TerminalAttempt => e.at = held.ended[e.task]

(* The statuses of one subject come in their order. *)
ComesBefore(e, f) ==
  e.kind = f.kind /\ e.task = f.task =>
    /\ e.kind = "execution" => ExecutionRank(e.status) < ExecutionRank(f.status)
    /\ e.kind = "attempt" => Rank(e.status) < Rank(f.status)

InOrder(trail) ==
  \A m, n \in 1..Len(trail) : m < n => ComesBefore(trail[m], trail[n])

Told(trail, kind, t, status) ==
  \E n \in 1..Len(trail) :
    trail[n].kind = kind /\ trail[n].task = t /\ trail[n].status = status

Mentioned(trail, t) == \E n \in 1..Len(trail) : trail[n].task = t

(* The first event of a task is of its beginning. *)
StartsAt(trail, t, at) ==
  \A n \in 1..Len(trail) :
    trail[n].task = t /\ (\A m \in 1..(n - 1) : trail[m].task # t) => trail[n].at = at

Evidence(p, record, t) ==
  /\ Has(record.trail, "terminal", t)
  /\ \A v \in Lifecycle(p, t) : Receipt(t, v, "pass") \in record.receipts

(* Of a run all of whose Agents were observed. *)
TrailIsWhole(p, record) ==
  /\ ~Has(record.trail, "published", NoTask)
  /\ \A t \in Tasks :
       /\ Bound(record.held, t) /\ ~Mentioned(record.trail, t) =>
            StatusOf(record.held, t) = "starting"
       /\ StartsAt(record.trail, t, record.held.began[t])
       /\ StatusOf(record.held, t) = "completed" => Evidence(p, record, t)

(* A receipt is of a child that ended.                                     *)
ReceiptsAreGood(record) ==
  /\ IsFiniteSet(record.receipts)
  /\ \A x \in record.receipts :
       x.result = "pass" /\ x.task \in Tasks /\ Has(record.trail, "terminal", x.task)

RecordIsGood(p, record, whole) ==
  /\ DOMAIN record = {"held", "trail", "receipts"}
  /\ record.trail \in Seq(EventSet)
  /\ HeldIsGood(p, record.held, Len(record.trail), whole)
  /\ \A n \in 1..Len(record.trail) : IsPast(record.held, record.trail[n])
  /\ InOrder(record.trail)
  /\ record.held.snapshot.cancelling =>
       \/ record.held.snapshot.status = "stopping"
       \/ Told(record.trail, "execution", NoTask, "stopping")
  /\ ReceiptsAreGood(record)
  /\ whole => TrailIsWhole(p, record)

(* All that is held is in the trail. *)
IsTold(record) ==
  /\ record.held.snapshot.status # "absent" =>
       Told(record.trail, "execution", NoTask, record.held.snapshot.status)
  /\ \A t \in Tasks : Bound(record.held, t) =>
       Told(record.trail, "attempt", t, StatusOf(record.held, t))

(* What one record may become while its host writes. *)
Extends(record, next) ==
  /\ Len(record.trail) <= Len(next.trail)
  /\ \A n \in 1..Len(record.trail) : next.trail[n] = record.trail[n]
  /\ record.receipts \subseteq next.receipts
  /\ \A t \in Tasks : /\ Bound(record.held, t) => Bound(next.held, t)
                      /\ Published(record.held, t) => Published(next.held, t)

(* What the engine's Agents do, as it is held.                             *)
AgentsAreHeld(now, held, whole) ==
  /\ \A t \in Tasks :
       /\ now.child[t] = "none" => ~Bound(held, t)
       /\ Bound(held, t) => Published(held, t)
       /\ now.child[t] = "done" => now.results[t] \in {"completed", "failed"}
       /\ now.results[t] = "completed" => now.child[t] = "done"
  /\ whole =>
       /\ now.stray = 0
       /\ \A t \in Tasks :
            /\ now.child[t] = "working" => StatusOf(held, t) = "running"
            /\ now.child[t] = "done" =>
                 Over(held, t) /\ (now.results[t] = "completed" <=> StatusOf(held, t) = "completed")

(* The clock shows a time of the run; it shows the last one while every    *)
(* Agent was observed.                                                     *)
ClockIsKept == behind \in 0..Len(store.trail) /\ (observed => behind = 0)

(* The inductive invariant of the record. *)
Recording ==
  /\ ClockIsKept
  /\ observed \in BOOLEAN
  /\ RecordIsGood(plan, store, observed)
  /\ stage # "down" => IsTold(store) /\ live = store.held
  /\ stage = "down" => live = Nothing
  /\ stage \in {"draft", "refused"} => store = Empty
  /\ stage = "prepared" => live = At(Nothing, Queued, 0)
  /\ stage \in {"draft", "refused", "prepared"} => observed
  /\ stage = "running" =>
       live.snapshot.status \in {"running", "stopping"} /\ AgentsAreHeld(engine, live, observed)

(* The writes lead from one record to another, and leave a good record     *)
(* wherever the host stops.                                                *)
Runs(p, record, writes, whole, next) ==
  /\ \E X : writes \in Seq(X)
  /\ Written(record, writes) = next
  /\ \A k \in 0..Len(writes) :
       LET some == Written(record, SubSeq(writes, 1, k))
       IN  RecordIsGood(p, some, whole) /\ Extends(record, some)

-----------------------------------------------------------------------------
LEMMA AttemptFacts ==
  ASSUME NEW held, NEW t, held.snapshot.attempts[t] \in AttemptLists
  PROVE  \/ held.snapshot.attempts[t] = <<>> /\ StatusOf(held, t) = "none" /\ ~Bound(held, t)
         \/ \E a \in AttemptSet :
              /\ held.snapshot.attempts[t] = <<a>> /\ held.snapshot.attempts[t][1] = a
              /\ StatusOf(held, t) = a.status /\ a.status \in Reached /\ Bound(held, t)
<1> DEFINE list == held.snapshot.attempts[t]
<1>1. CASE list = <<>>
  BY <1>1 DEF StatusOf, Bound
<1>2. CASE \E a \in AttemptSet : list = <<a>>
  <2>1. PICK a \in AttemptSet : list = <<a>>
    BY <1>2
  <2>2. list # <<>> /\ Len(list) = 1 /\ list[1] = a
    BY <2>1
  <2>3. a.status \in Reached
    BY DEF AttemptSet
  <2> QED
    BY <2>1, <2>2, <2>3 DEF StatusOf, Bound
<1> QED
  BY <1>1, <1>2 DEF AttemptLists

LEMMA HeldFacts ==
  ASSUME NEW held \in HeldSet, NEW t \in Tasks
  PROVE  \/ held.snapshot.attempts[t] = <<>> /\ StatusOf(held, t) = "none" /\ ~Bound(held, t)
         \/ \E a \in AttemptSet :
              /\ held.snapshot.attempts[t] = <<a>> /\ held.snapshot.attempts[t][1] = a
              /\ StatusOf(held, t) = a.status /\ a.status \in Reached /\ Bound(held, t)
<1>1. held.snapshot.attempts[t] \in AttemptLists
  BY DEF HeldSet, SnapshotSet
<1> QED
  BY <1>1, AttemptFacts

LEMMA RankFacts ==
  /\ Rank("none") = 0 /\ Rank("starting") = 1 /\ Rank("running") = 2
  /\ \A s \in TerminalAttempt : Rank(s) = 3
  /\ \A s \in Reached \cup {"none"} : Rank(s) \in 0..3 /\ (Rank(s) = 3 => s \in TerminalAttempt)
  /\ \A s \in Reached : Rank(s) \in 1..3 /\ s # "none"
  /\ TerminalAttempt \subseteq Reached /\ "none" \notin Reached
  BY DEF Rank, Reached, TerminalAttempt

LEMMA ExecutionRankFacts ==
  /\ ExecutionRank("absent") = 0 /\ ExecutionRank("queued") = 1
  /\ ExecutionRank("running") = 2 /\ ExecutionRank("stopping") = 3
  /\ \A s \in TerminalExecution : ExecutionRank(s) = 4
  /\ \A s \in ExecutionStatus : ExecutionRank(s) \in 1..4 /\ s # "absent"
  /\ \A s \in ExecutionStatus : ExecutionRank(s) = 4 => s \in TerminalExecution
  BY DEF ExecutionRank, ExecutionStatus, TerminalExecution

LEMMA ExtendsItself ==
  ASSUME NEW p, NEW record, NEW whole, RecordIsGood(p, record, whole)
  PROVE  Extends(record, record)
<1>1. Len(record.trail) \in Nat
  BY DEF RecordIsGood
<1> QED
  BY <1>1 DEF Extends

LEMMA ExtendsOn ==
  ASSUME NEW a, NEW b, NEW c, Len(a.trail) \in Nat, Len(b.trail) \in Nat, Len(c.trail) \in Nat,
         Extends(a, b), Extends(b, c)
  PROVE  Extends(a, c)
<1>1. Len(a.trail) <= Len(c.trail)
  BY DEF Extends
<1>2. ASSUME NEW n \in 1..Len(a.trail)
      PROVE  c.trail[n] = a.trail[n]
  <2>1. n \in 1..Len(b.trail)
    BY DEF Extends
  <2> QED
    BY <2>1 DEF Extends
<1>3. a.receipts \subseteq c.receipts
  BY DEF Extends
<1>4. \A t \in Tasks : /\ Bound(a.held, t) => Bound(c.held, t)
                       /\ Published(a.held, t) => Published(c.held, t)
  BY DEF Extends
<1> QED
  BY <1>1, <1>2, <1>3, <1>4 DEF Extends

LEMMA RunsNone ==
  ASSUME NEW p, NEW record, NEW whole, RecordIsGood(p, record, whole)
  PROVE  Runs(p, record, <<>>, whole, record)
<1>1. <<>> \in Seq({}) /\ \A k \in 0..Len(<<>>) : SubSeq(<<>>, 1, k) = <<>>
  OBVIOUS
<1>2. Written(record, <<>>) = record /\ Extends(record, record)
  BY WrittenNone, ExtendsItself
<1> HIDE DEF RecordIsGood, Written, Extends
<1> QED
  BY <1>1, <1>2 DEF Runs

LEMMA RunsOne ==
  ASSUME NEW p, NEW record, NEW whole, RecordIsGood(p, record, whole), NEW w,
         RecordIsGood(p, Apply(record, w), whole), Extends(record, Apply(record, w))
  PROVE  Runs(p, record, <<w>>, whole, Apply(record, w))
<1>1. <<w>> \in Seq({w}) /\ <<>> \in Seq({w}) /\ Append(<<>>, w) = <<w>>
  OBVIOUS
<1>2. Written(record, <<w>>) = Apply(record, w)
  <2>1. Written(record, Append(<<>>, w)) = Apply(Written(record, <<>>), w)
    BY <1>1, WrittenMore
  <2> QED
    BY <1>1, <2>1, WrittenNone
<1>3. ASSUME NEW k \in 0..Len(<<w>>)
      PROVE  /\ RecordIsGood(p, Written(record, SubSeq(<<w>>, 1, k)), whole)
             /\ Extends(record, Written(record, SubSeq(<<w>>, 1, k)))
  <2>1. k = 0 \/ k = 1
    OBVIOUS
  <2>2. SubSeq(<<w>>, 1, 0) = <<>> /\ SubSeq(<<w>>, 1, 1) = <<w>>
    <3> DEFINE one == <<w>>
    <3>1. one \in Seq({w}) /\ Len(one) = 1
      OBVIOUS
    <3> HIDE DEF one
    <3>2. SubSeq(one, 1, 0) = <<>> /\ SubSeq(one, 1, 1) = one
      BY <3>1
    <3> QED
      BY <3>2 DEF one
  <2> QED
    BY <1>2, <2>1, <2>2, WrittenNone, ExtendsItself
<1> QED
  BY <1>1, <1>2, <1>3 DEF Runs

(* What holds at the end of the writes. *)
LEMMA RunsEnd ==
  ASSUME NEW p, NEW record, NEW writes, NEW whole, NEW next,
         Runs(p, record, writes, whole, next)
  PROVE  RecordIsGood(p, next, whole) /\ Extends(record, next) /\ Written(record, writes) = next
<1>1. PICK X : writes \in Seq(X)
  BY DEF Runs
<1>2. Len(writes) \in 0..Len(writes) /\ SubSeq(writes, 1, Len(writes)) = writes
  BY <1>1
<1> QED
  BY <1>2 DEF Runs

LEMMA RunsOn ==
  ASSUME NEW p, NEW record, NEW whole, NEW first, NEW second, NEW middle, NEW next,
         Runs(p, record, first, whole, middle), Runs(p, middle, second, whole, next)
  PROVE  Runs(p, record, first \o second, whole, next)
<1>1. PICK X : first \in Seq(X)
  BY DEF Runs
<1>2. PICK Y : second \in Seq(Y)
  BY DEF Runs
<1> DEFINE Z == X \cup Y
           all == first \o second
           M == Len(first)
<1>3. first \in Seq(Z) /\ second \in Seq(Z) /\ all \in Seq(Z) /\ M \in Nat
      /\ Len(all) = M + Len(second) /\ Len(second) \in Nat
  BY <1>1, <1>2
<1>4. Written(record, first) = middle /\ Written(middle, second) = next
  BY DEF Runs
<1>5. Written(record, all) = next
  BY <1>3, <1>4, WrittenAll
<1>6. ASSUME NEW k \in 0..Len(all)
      PROVE  /\ RecordIsGood(p, Written(record, SubSeq(all, 1, k)), whole)
             /\ Extends(record, Written(record, SubSeq(all, 1, k)))
  <2>1. CASE k <= M
    <3>1. k \in 0..Len(first) /\ SubSeq(all, 1, k) = SubSeq(first, 1, k)
      BY <1>3, <2>1
    <3> QED
      BY <3>1 DEF Runs
  <2>2. CASE k > M
    <3> DEFINE rest == SubSeq(second, 1, k - M)
               some == Written(middle, rest)
    <3>1. k - M \in 0..Len(second) /\ rest \in Seq(Z)
      BY <1>3, <2>2
    <3>2. SubSeq(all, 1, k) = first \o rest
      BY <1>3, <2>2
    <3>3. Written(record, SubSeq(all, 1, k)) = some
      <4> HIDE DEF rest, all, Z
      <4>1. Written(record, first \o rest) = Written(Written(record, first), rest)
        BY <1>3, <3>1, WrittenAll
      <4> QED
        BY <1>4, <3>2, <4>1
    <3>4. RecordIsGood(p, some, whole) /\ Extends(middle, some)
      BY <3>1 DEF Runs
    <3>5. RecordIsGood(p, middle, whole) /\ Extends(record, middle)
      BY RunsEnd
    <3>6. Extends(record, some)
      <4>1. Len(middle.trail) \in Nat /\ Len(some.trail) \in Nat
        BY <3>4, <3>5 DEF RecordIsGood
      <4>2. Len(record.trail) \in Nat
        <5>1. 0 \in 0..Len(first) /\ SubSeq(first, 1, 0) = <<>>
          BY <1>3
        <5>2. RecordIsGood(p, record, whole)
          BY <5>1, WrittenNone DEF Runs
        <5> QED
          BY <5>2 DEF RecordIsGood
      <4> HIDE DEF some
      <4> QED
        BY <3>4, <3>5, <4>1, <4>2, ExtendsOn
    <3> QED
      BY <3>3, <3>4, <3>6
  <2>3. k <= M \/ k > M
    BY <1>3
  <2> QED
    BY <2>1, <2>2, <2>3
<1> QED
  BY <1>3, <1>5, <1>6 DEF Runs

-----------------------------------------------------------------------------
(* One write.                                                              *)

(* An event of what is held. *)
MayBeAdded(record, e, whole) ==
  /\ e \in EventSet /\ IsPast(record.held, e)
  /\ e.kind = "execution" => e.status = record.held.snapshot.status
  /\ e.kind = "attempt" => e.status = StatusOf(record.held, e.task)
  /\ whole =>
       /\ e.kind = "published" => e.task # NoTask
       /\ e.task # NoTask /\ ~Mentioned(record.trail, e.task) =>
            e.at = record.held.began[e.task]

LEMMA HeldStaysGood ==
  ASSUME NEW p, NEW held, NEW now \in Nat, NEW later \in Nat, now <= later, NEW whole,
         HeldIsGood(p, held, now, whole)
  PROVE  HeldIsGood(p, held, later, whole)
<1>1. 0..now \subseteq 0..later
  OBVIOUS
<1>2. HeldIsTimed(held, later)
  BY <1>1 DEF HeldIsGood, HeldIsTimed
<1> QED
  BY <1>2 DEF HeldIsGood

(* What is told stays told. *)
LEMMA ToldOn ==
  ASSUME NEW a, NEW b, Len(a.trail) \in Nat, Len(b.trail) \in Nat, Extends(a, b)
  PROVE  /\ \A kind, t, status : Told(a.trail, kind, t, status) => Told(b.trail, kind, t, status)
         /\ \A t : Mentioned(a.trail, t) => Mentioned(b.trail, t)
<1>1. \A n \in 1..Len(a.trail) : n \in 1..Len(b.trail) /\ b.trail[n] = a.trail[n]
  BY DEF Extends
<1> QED
  BY <1>1 DEF Told, Mentioned

LEMMA HasOn ==
  ASSUME NEW a, NEW b, NEW X, a.trail \in Seq(X), b.trail \in Seq(X), Extends(a, b)
  PROVE  \A kind, t : Has(a.trail, kind, t) => Has(b.trail, kind, t)
<1>1. \A n \in DOMAIN a.trail : n \in DOMAIN b.trail /\ b.trail[n] = a.trail[n]
  BY DEF Extends
<1> QED
  BY <1>1 DEF Has

LEMMA EventKept ==
  ASSUME NEW p, NEW record, NEW whole, RecordIsGood(p, record, whole),
         NEW e, MayBeAdded(record, e, whole),
         \A n \in DOMAIN record.trail : ~SameIdentity(record.trail[n], e)
  PROVE  LET next == [record EXCEPT !.trail = Append(@, e)]
         IN  /\ RecordIsGood(p, next, whole) /\ Extends(record, next)
             /\ next.held = record.held /\ next.receipts = record.receipts
             /\ Told(next.trail, e.kind, e.task, e.status) /\ Has(next.trail, e.kind, e.task)
<1> DEFINE next == [record EXCEPT !.trail = Append(@, e)]
           old == record.trail
           new == next.trail
           N == Len(record.trail)
<1>1. /\ DOMAIN record = {"held", "trail", "receipts"} /\ old \in Seq(EventSet)
      /\ HeldIsGood(p, record.held, N, whole)
      /\ (\A n \in 1..N : IsPast(record.held, old[n])) /\ InOrder(old)
  BY DEF RecordIsGood
<1>2. e \in EventSet /\ IsPast(record.held, e)
  BY DEF MayBeAdded
<1>3. /\ DOMAIN next = {"held", "trail", "receipts"}
      /\ next.held = record.held /\ next.receipts = record.receipts /\ new = Append(old, e)
  BY <1>1
<1> HIDE DEF next
<1>4. /\ N \in Nat /\ Len(new) = N + 1 /\ new[N + 1] = e /\ new \in Seq(EventSet)
      /\ \A n \in 1..N : new[n] = old[n]
      /\ DOMAIN old = 1..N /\ DOMAIN new = 1..(N + 1)
  BY <1>1, <1>2, <1>3
<1> HIDE DEF new, old, N
<1>5. \A n \in 1..(N + 1) : n \in 1..N \/ n = N + 1
  BY <1>4
<1>6. HeldIsGood(p, next.held, Len(new), whole)
  BY <1>1, <1>3, <1>4, HeldStaysGood
<1>7. \A n \in 1..Len(new) : IsPast(next.held, new[n])
  BY <1>1, <1>2, <1>3, <1>4, <1>5
<1>8. ASSUME NEW n \in 1..N
      PROVE  ComesBefore(old[n], e)
  <2>1. IsPast(record.held, old[n]) /\ ~SameIdentity(old[n], e)
    BY <1>1, <1>4 DEF old
  <2>2. ASSUME old[n].kind = e.kind, old[n].task = e.task, e.kind = "execution"
        PROVE  ExecutionRank(old[n].status) < ExecutionRank(e.status)
    <3>1. old[n].status # e.status
      BY <2>1, <2>2 DEF SameIdentity
    <3> QED
      BY <2>1, <2>2, <3>1 DEF IsPast, MayBeAdded
  <2>3. ASSUME old[n].kind = e.kind, old[n].task = e.task, e.kind = "attempt"
        PROVE  Rank(old[n].status) < Rank(e.status)
    <3>1. old[n].status # e.status
      BY <2>1, <2>3 DEF SameIdentity
    <3> QED
      BY <2>1, <2>3, <3>1 DEF IsPast, MayBeAdded
  <2> QED
    BY <2>2, <2>3 DEF ComesBefore
<1>9. InOrder(new)
  <2> SUFFICES ASSUME NEW m \in 1..Len(new), NEW n \in 1..Len(new), m < n
               PROVE  ComesBefore(new[m], new[n])
    BY Zenon DEF InOrder
  <2>1. m \in 1..N /\ new[m] = old[m]
    BY <1>4
  <2>2. CASE n \in 1..N
    BY <1>1, <1>4, <2>1, <2>2 DEF InOrder, N, old
  <2>3. CASE n = N + 1
    BY <1>4, <1>8, <2>1, <2>3
  <2> QED
    BY <1>4, <1>5, <2>2, <2>3
<1>10. Extends(record, next)
  BY <1>3, <1>4 DEF Extends, old, new, N
<1>11. N \in Nat /\ Len(new) \in Nat
  BY <1>4
<1>12. /\ \A kind, t, status : Told(old, kind, t, status) => Told(new, kind, t, status)
       /\ \A t : Mentioned(old, t) => Mentioned(new, t)
       /\ \A kind, t : Has(old, kind, t) => Has(new, kind, t)
  <2>1. record.trail \in Seq(EventSet) /\ next.trail \in Seq(EventSet)
    <3>1. new \in Seq(EventSet)
      BY <1>4
    <3> QED
      BY <3>1, Zenon DEF RecordIsGood, new
  <2>2. Len(record.trail) \in Nat /\ Len(next.trail) \in Nat
    BY <1>11 DEF new, N
  <2>3. /\ \A kind, t, status :
             Told(record.trail, kind, t, status) => Told(next.trail, kind, t, status)
        /\ \A t : Mentioned(record.trail, t) => Mentioned(next.trail, t)
    BY <1>10, <2>2, ToldOn
  <2>4. \A kind, t : Has(record.trail, kind, t) => Has(next.trail, kind, t)
    BY <1>10, <2>1, HasOn
  <2> QED
    BY <2>3, <2>4 DEF old, new
<1>13. Told(new, e.kind, e.task, e.status) /\ Has(new, e.kind, e.task)
  <2>1. N + 1 \in 1..Len(new) /\ N + 1 \in DOMAIN new
    BY <1>4
  <2> QED
    BY <1>4, <2>1 DEF Told, Has
<1>14. next.held.snapshot.cancelling =>
         \/ next.held.snapshot.status = "stopping"
         \/ Told(new, "execution", NoTask, "stopping")
  BY <1>3, <1>12 DEF RecordIsGood, old
<1>15. ReceiptsAreGood(next)
  <2>1. ReceiptsAreGood(record)
    BY DEF RecordIsGood
  <2> QED
    BY <1>3, <1>12, <2>1 DEF ReceiptsAreGood, old, new
<1>16. ASSUME whole
       PROVE  TrailIsWhole(p, next)
  <2>1. TrailIsWhole(p, record)
    BY <1>16 DEF RecordIsGood
  <2>2. ~Has(new, "published", NoTask)
    <3>1. ~Has(old, "published", NoTask)
      BY <2>1 DEF TrailIsWhole, old
    <3>2. ~(e.kind = "published" /\ e.task = NoTask)
      BY <1>16 DEF MayBeAdded
    <3> QED
      BY <1>4, <1>5, <3>1, <3>2 DEF Has
  <2>3. ASSUME NEW t \in Tasks
        PROVE  StartsAt(new, t, next.held.began[t])
    <3>1. StartsAt(old, t, record.held.began[t])
      BY <2>1 DEF TrailIsWhole, old
    <3> SUFFICES ASSUME NEW n \in 1..Len(new), new[n].task = t,
                        \A m \in 1..(n - 1) : new[m].task # t
                 PROVE  new[n].at = record.held.began[t]
      BY <1>3 DEF StartsAt
    <3>2. CASE n \in 1..N
      <4>1. new[n] = old[n] /\ \A m \in 1..(n - 1) : m \in 1..N /\ new[m] = old[m]
        BY <1>4, <3>2
      <4> QED
        BY <3>1, <3>2, <4>1 DEF StartsAt, N, old
    <3>3. CASE n = N + 1
      <4>1. n - 1 = N /\ \A m \in 1..N : new[m] = old[m]
        BY <1>4, <3>3
      <4>2. ~Mentioned(old, t)
        BY <4>1 DEF Mentioned, N, old
      <4>3. t # NoTask
        BY NoTaskIsNone
      <4> QED
        BY <1>4, <1>16, <3>3, <4>2, <4>3 DEF MayBeAdded, old
    <3> QED
      BY <1>4, <1>5, <3>2, <3>3
  <2>4. ASSUME NEW t \in Tasks
        PROVE  /\ Bound(next.held, t) /\ ~Mentioned(new, t) => StatusOf(next.held, t) = "starting"
               /\ StatusOf(next.held, t) = "completed" => Evidence(p, next, t)
    BY <2>1, <1>3, <1>12 DEF TrailIsWhole, Evidence, old, new
  <2> QED
    BY <2>2, <2>3, <2>4 DEF TrailIsWhole, new
<1>17. RecordIsGood(p, next, whole)
  BY <1>3, <1>4, <1>6, <1>7, <1>9, <1>14, <1>15, <1>16 DEF RecordIsGood, new
<1> QED
  BY <1>3, <1>10, <1>13, <1>17 DEF next, new

LEMMA ReceiptKept ==
  ASSUME NEW p, NEW record, NEW whole, RecordIsGood(p, record, whole),
         NEW x, x.result = "pass", x.task \in Tasks, Has(record.trail, "terminal", x.task)
  PROVE  LET next == [record EXCEPT !.receipts = @ \cup {x}]
         IN  /\ RecordIsGood(p, next, whole) /\ Extends(record, next)
             /\ next.held = record.held /\ next.trail = record.trail
             /\ next.receipts = record.receipts \cup {x}
<1> DEFINE next == [record EXCEPT !.receipts = @ \cup {x}]
<1>1. /\ DOMAIN next = {"held", "trail", "receipts"}
      /\ next.held = record.held /\ next.trail = record.trail
      /\ next.receipts = record.receipts \cup {x}
  BY DEF RecordIsGood
<1> HIDE DEF next
<1>2. ReceiptsAreGood(next)
  <2>1. ReceiptsAreGood(record)
    BY DEF RecordIsGood
  <2>2. IsFiniteSet(next.receipts)
    BY <1>1, <2>1, FS_AddElement DEF ReceiptsAreGood
  <2> QED
    BY <1>1, <2>1, <2>2 DEF ReceiptsAreGood
<1>3. whole => TrailIsWhole(p, next)
  <2>1. \A t : Evidence(p, record, t) => Evidence(p, next, t)
    BY <1>1 DEF Evidence
  <2>2. whole => TrailIsWhole(p, record)
    BY DEF RecordIsGood
  <2> QED
    BY <1>1, <2>1, <2>2 DEF TrailIsWhole
<1>4. RecordIsGood(p, next, whole)
  BY <1>1, <1>2, <1>3 DEF RecordIsGood
<1>5. Extends(record, next)
  <2>1. Extends(record, record)
    BY ExtendsItself
  <2> QED
    BY <1>1, <2>1 DEF Extends
<1> QED
  BY <1>1, <1>4, <1>5 DEF next

(* Going on loses nothing. *)
LEMMA GoesOnFacts ==
  ASSUME NEW held \in HeldSet, NEW next \in HeldSet, GoesOn(held, next), NEW t \in Tasks
  PROVE  /\ Bound(held, t) => Bound(next, t)
         /\ Over(held, t) => StatusOf(next, t) = StatusOf(held, t)
<1>1. /\ StatusOf(held, t) \in Reached \cup {"none"} /\ StatusOf(next, t) \in Reached \cup {"none"}
      /\ Bound(held, t) <=> StatusOf(held, t) # "none"
      /\ Bound(next, t) <=> StatusOf(next, t) # "none"
  BY HeldFacts, RankFacts
<1>2. \/ StatusOf(held, t) = StatusOf(next, t)
      \/ Rank(StatusOf(held, t)) < Rank(StatusOf(next, t))
  BY DEF GoesOn
<1> QED
  BY <1>1, <1>2, RankFacts DEF Over

LEMMA SnapshotKept ==
  ASSUME NEW p, NEW record, NEW whole, RecordIsGood(p, record, whole), IsTold(record),
         NEW held, HeldIsGood(p, held, Len(record.trail), whole), GoesOn(record.held, held),
         whole => \A t \in Tasks :
                    /\ Bound(held, t) /\ ~Bound(record.held, t) => StatusOf(held, t) = "starting"
                    /\ StatusOf(held, t) = "completed" => Evidence(p, record, t)
  PROVE  LET next == [record EXCEPT !.held = held]
         IN  /\ RecordIsGood(p, next, whole) /\ Extends(record, next)
             /\ next.held = held /\ next.trail = record.trail
             /\ next.receipts = record.receipts
<1> DEFINE next == [record EXCEPT !.held = held]
           old == record.held
           trail == record.trail
<1>1. /\ DOMAIN next = {"held", "trail", "receipts"}
      /\ next.held = held /\ next.trail = trail /\ next.receipts = record.receipts
  BY DEF RecordIsGood
<1> HIDE DEF next
<1>2. /\ trail \in Seq(EventSet) /\ HeldIsGood(p, old, Len(trail), whole)
      /\ \A n \in 1..Len(trail) : IsPast(old, trail[n])
  BY DEF RecordIsGood
<1>3. old \in HeldSet /\ held \in HeldSet /\ HeldIsTimed(old, Len(trail))
  BY <1>2 DEF HeldIsGood
<1>4. GoesOn(old, held)
  OBVIOUS
<1> HIDE DEF old
<1>5. \A t \in Tasks : /\ Bound(old, t) => Bound(held, t)
                       /\ Published(old, t) => Published(held, t)
                       /\ Over(old, t) => StatusOf(held, t) = StatusOf(old, t)
  BY <1>3, <1>4, GoesOnFacts DEF GoesOn
<1>6. ASSUME NEW n \in 1..Len(trail)
      PROVE  IsPast(held, trail[n])
  <2> DEFINE e == trail[n]
  <2>1. e \in EventSet /\ IsPast(old, e)
    BY <1>2
  <2> HIDE DEF e
  <2>2. e.task # NoTask => e.task \in Tasks
    BY <2>1 DEF EventSet
  <2>3. e.kind = "execution" =>
          /\ e.task = NoTask /\ e.status \in ExecutionStatus
          /\ \/ e.status = held.snapshot.status
             \/ ExecutionRank(e.status) < ExecutionRank(held.snapshot.status)
          /\ e.status = "stopping" => held.snapshot.cancelling
    <3> SUFFICES ASSUME e.kind = "execution"
                 PROVE  /\ e.task = NoTask /\ e.status \in ExecutionStatus
                        /\ \/ e.status = held.snapshot.status
                           \/ ExecutionRank(e.status) < ExecutionRank(held.snapshot.status)
                        /\ e.status = "stopping" => held.snapshot.cancelling
      OBVIOUS
    <3>1. e.task = NoTask /\ e.status \in ExecutionStatus
      BY <2>1 DEF IsPast
    <3>2. /\ \/ e.status = old.snapshot.status
             \/ ExecutionRank(e.status) < ExecutionRank(old.snapshot.status)
          /\ e.status = "stopping" => old.snapshot.cancelling
      BY <2>1 DEF IsPast
    <3>3. /\ \/ old.snapshot.status = held.snapshot.status
             \/ ExecutionRank(old.snapshot.status) < ExecutionRank(held.snapshot.status)
          /\ old.snapshot.cancelling => held.snapshot.cancelling
      BY <1>4 DEF GoesOn
    <3>4. /\ old.snapshot.status \in ExecutionStatus \cup {"absent"}
          /\ held.snapshot.status \in ExecutionStatus \cup {"absent"}
      BY <1>3 DEF HeldSet, SnapshotSet
    <3>5. /\ ExecutionRank(e.status) \in Nat /\ ExecutionRank(old.snapshot.status) \in Nat
          /\ ExecutionRank(held.snapshot.status) \in Nat
      BY <3>1, <3>4, ExecutionRankFacts
    <3> QED
      BY <3>1, <3>2, <3>3, <3>5
  <2>4. ASSUME e.kind = "attempt"
        PROVE  /\ e.task # NoTask /\ e.status \in Reached
               /\ \/ e.status = StatusOf(held, e.task)
                  \/ Rank(e.status) < Rank(StatusOf(held, e.task))
               /\ e.status \in TerminalAttempt => e.at = held.ended[e.task]
    <3>1. /\ e.task # NoTask /\ e.task \in Tasks /\ e.status \in Reached
          /\ \/ e.status = StatusOf(old, e.task)
             \/ Rank(e.status) < Rank(StatusOf(old, e.task))
          /\ e.status \in TerminalAttempt => e.at = old.ended[e.task]
      BY <2>1, <2>2, <2>4 DEF IsPast
    <3> DEFINE t == e.task
    <3>2. /\ StatusOf(old, t) \in Reached \cup {"none"} /\ StatusOf(held, t) \in Reached \cup {"none"}
      BY <1>3, <3>1, HeldFacts
    <3>3. \/ StatusOf(old, t) = StatusOf(held, t)
          \/ Rank(StatusOf(old, t)) < Rank(StatusOf(held, t))
      BY <1>4, <3>1 DEF GoesOn
    <3>4. /\ Rank(e.status) \in Nat /\ Rank(StatusOf(old, t)) \in 0..3
          /\ Rank(StatusOf(held, t)) \in Nat
      BY <3>1, <3>2, RankFacts
    <3>5. \/ e.status = StatusOf(held, t) \/ Rank(e.status) < Rank(StatusOf(held, t))
      BY <3>1, <3>3, <3>4
    <3>6. ASSUME e.status \in TerminalAttempt
          PROVE  e.at = held.ended[t]
      <4>1. Rank(e.status) = 3
        BY <3>6, RankFacts
      <4>2. Over(old, t)
        BY <3>1, <3>4, <3>6, <4>1 DEF Over
      <4>3. old.ended[t] # Unset
        BY <1>3, <3>1, <4>2 DEF HeldIsTimed
      <4> QED
        BY <1>4, <3>1, <3>6, <4>3 DEF GoesOn
    <3> QED
      BY <3>1, <3>5, <3>6
  <2>5. /\ e.task # NoTask => Bound(held, e.task)
        /\ e.kind = "published" /\ e.task # NoTask => Published(held, e.task)
    BY <1>5, <2>1, <2>2 DEF IsPast
  <2> QED
    BY <2>3, <2>4, <2>5 DEF IsPast, e
<1>7. held.snapshot.cancelling =>
        held.snapshot.status = "stopping" \/ Told(trail, "execution", NoTask, "stopping")
  <2>1. held.snapshot.cancelling => old.snapshot.cancelling \/ held.snapshot.status = "stopping"
    BY <1>4 DEF GoesOn
  <2>2. old.snapshot.cancelling =>
          old.snapshot.status = "stopping" \/ Told(trail, "execution", NoTask, "stopping")
    BY DEF RecordIsGood, old
  <2>3. old.snapshot.status = "stopping" => Told(trail, "execution", NoTask, "stopping")
    BY DEF IsTold, old
  <2> QED
    BY <2>1, <2>2, <2>3
<1>8. ASSUME whole
      PROVE  TrailIsWhole(p, next)
  <2>1. TrailIsWhole(p, record)
    BY <1>8 DEF RecordIsGood
  <2>2. ASSUME NEW t \in Tasks
        PROVE  /\ Bound(held, t) /\ ~Mentioned(trail, t) => StatusOf(held, t) = "starting"
               /\ StatusOf(held, t) = "completed" => Evidence(p, next, t)
    <3>1. Bound(old, t) => Mentioned(trail, t)
      BY DEF IsTold, Told, Mentioned, old
    <3>2. Bound(held, t) /\ ~Bound(old, t) => StatusOf(held, t) = "starting"
      BY <1>8 DEF old
    <3>3. StatusOf(held, t) = "completed" => Evidence(p, record, t)
      BY <1>8
    <3>4. Evidence(p, record, t) => Evidence(p, next, t)
      BY <1>1 DEF Evidence
    <3> QED
      BY <3>1, <3>2, <3>3, <3>4
  <2>3. ASSUME NEW t \in Tasks
        PROVE  StartsAt(trail, t, held.began[t])
    <3>1. StartsAt(trail, t, old.began[t])
      BY <2>1 DEF TrailIsWhole, old
    <3>2. CASE old.began[t] # Unset
      BY <1>4, <3>1, <3>2 DEF GoesOn
    <3>3. CASE old.began[t] = Unset
      <4>1. ~Bound(old, t)
        BY <1>2, <1>8, <3>3 DEF HeldIsGood, HeldIsOrdered
      <4>2. \A n \in 1..Len(trail) : trail[n].task # t
        BY <1>2, <4>1, NoTaskIsNone DEF IsPast
      <4> QED
        BY <4>2 DEF StartsAt
    <3> QED
      BY <3>2, <3>3
  <2>4. ~Has(trail, "published", NoTask)
    BY <2>1 DEF TrailIsWhole
  <2> QED
    BY <1>1, <2>2, <2>3, <2>4 DEF TrailIsWhole
<1>9. RecordIsGood(p, next, whole)
  <2>1. InOrder(trail) /\ ReceiptsAreGood(next)
    BY <1>1 DEF RecordIsGood, ReceiptsAreGood
  <2> QED
    BY <1>1, <1>2, <1>6, <1>7, <1>8, <2>1 DEF RecordIsGood
<1>10. Extends(record, next)
  <2>1. Len(trail) <= Len(trail)
    BY <1>2
  <2> QED
    BY <1>1, <1>5, <2>1 DEF Extends, old
<1> QED
  BY <1>1, <1>9, <1>10 DEF next

-----------------------------------------------------------------------------
(* Lists of writes that leave what is held alone.                          *)

(* Events, receipts or both were written, of what is held. *)
Adds(p, record, writes, whole, next) ==
  /\ Runs(p, record, writes, whole, next)
  /\ next.held = record.held
  /\ IsTold(record) => IsTold(next)

LEMMA AddsNone ==
  ASSUME NEW p, NEW record, NEW whole, RecordIsGood(p, record, whole)
  PROVE  Adds(p, record, <<>>, whole, record)
  BY RunsNone DEF Adds

LEMMA AddsOn ==
  ASSUME NEW p, NEW record, NEW whole, NEW first, NEW second, NEW middle, NEW next,
         Adds(p, record, first, whole, middle), Adds(p, middle, second, whole, next)
  PROVE  Adds(p, record, first \o second, whole, next)
<1>1. Runs(p, record, first \o second, whole, next)
  BY RunsOn DEF Adds
<1> QED
  BY <1>1 DEF Adds

LEMMA AddsEnd ==
  ASSUME NEW p, NEW record, NEW writes, NEW whole, NEW next,
         Adds(p, record, writes, whole, next), RecordIsGood(p, record, whole)
  PROVE  /\ RecordIsGood(p, next, whole) /\ Extends(record, next)
         /\ next.held = record.held /\ record.receipts \subseteq next.receipts
         /\ IsTold(record) => IsTold(next)
         /\ \A kind, t, status : Told(record.trail, kind, t, status) => Told(next.trail, kind, t, status)
         /\ \A t : Mentioned(record.trail, t) => Mentioned(next.trail, t)
         /\ \A kind, t : Has(record.trail, kind, t) => Has(next.trail, kind, t)
<1>1. RecordIsGood(p, next, whole) /\ Extends(record, next)
  BY RunsEnd DEF Adds
<1>2. record.trail \in Seq(EventSet) /\ next.trail \in Seq(EventSet)
  BY <1>1 DEF RecordIsGood
<1>3. Len(record.trail) \in Nat /\ Len(next.trail) \in Nat
  BY <1>2
<1>4. /\ \A kind, t, status : Told(record.trail, kind, t, status) => Told(next.trail, kind, t, status)
      /\ \A t : Mentioned(record.trail, t) => Mentioned(next.trail, t)
  BY <1>1, <1>3, ToldOn
<1>5. \A kind, t : Has(record.trail, kind, t) => Has(next.trail, kind, t)
  BY <1>1, <1>2, HasOn
<1>6. record.receipts \subseteq next.receipts
  BY <1>1 DEF Extends
<1> QED
  BY <1>1, <1>4, <1>5, <1>6 DEF Adds

LEMMA ToldStays ==
  ASSUME NEW record, NEW next, next.held = record.held, Len(record.trail) \in Nat,
         Len(next.trail) \in Nat, Extends(record, next), IsTold(record)
  PROVE  IsTold(next)
<1>1. \A kind, t, status : Told(record.trail, kind, t, status) => Told(next.trail, kind, t, status)
  BY ToldOn
<1> QED
  BY <1>1 DEF IsTold

LEMMA AddsEvent ==
  ASSUME NEW p, NEW record, NEW whole, RecordIsGood(p, record, whole),
         NEW e, MayBeAdded(record, e, whole)
  PROVE  \E next :
           /\ Adds(p, record, <<Write("event", e)>>, whole, next)
           /\ next.receipts = record.receipts /\ Has(next.trail, e.kind, e.task)
           /\ e.kind \in {"execution", "attempt"} => Told(next.trail, e.kind, e.task, e.status)
<1> DEFINE w == Write("event", e)
           next == Apply(record, w)
           more == [record EXCEPT !.trail = Append(@, e)]
           same == \E n \in DOMAIN record.trail : SameIdentity(record.trail[n], e)
<1>1. next = IF same THEN record ELSE more
  <2>1. w.kind = "event" /\ w.what = e
    BY DEF Write
  <2> HIDE DEF w
  <2> QED
    BY <2>1 DEF Apply
<1> HIDE DEF next, w
<1>2. Len(record.trail) \in Nat
  BY DEF RecordIsGood
<1>3. /\ RecordIsGood(p, next, whole) /\ Extends(record, next)
      /\ next.held = record.held /\ next.receipts = record.receipts
      /\ Has(next.trail, e.kind, e.task)
      /\ e.kind \in {"execution", "attempt"} => Told(next.trail, e.kind, e.task, e.status)
  <2>1. CASE same
    <3>1. PICK n \in DOMAIN record.trail : SameIdentity(record.trail[n], e)
      BY <2>1
    <3>2. DOMAIN record.trail = 1..Len(record.trail)
      BY DEF RecordIsGood
    <3>3. next = record
      BY <1>1, <2>1
    <3> QED
      BY <3>1, <3>2, <3>3, ExtendsItself DEF SameIdentity, Has, Told
  <2>2. CASE ~same
    <3>1. next = more
      BY <1>1, <2>2
    <3>2. /\ RecordIsGood(p, more, whole) /\ Extends(record, more)
          /\ more.held = record.held /\ more.receipts = record.receipts
          /\ Told(more.trail, e.kind, e.task, e.status) /\ Has(more.trail, e.kind, e.task)
      BY <2>2, EventKept
    <3> HIDE DEF more
    <3> QED
      BY <3>1, <3>2
  <2> QED
    BY <2>1, <2>2
<1>4. Len(next.trail) \in Nat
  BY <1>3 DEF RecordIsGood
<1>5. Adds(p, record, <<w>>, whole, next)
  <2>1. Runs(p, record, <<w>>, whole, next)
    BY <1>3, RunsOne DEF next
  <2>2. IsTold(record) => IsTold(next)
    BY <1>2, <1>3, <1>4, ToldStays
  <2> QED
    BY <1>3, <2>1, <2>2 DEF Adds
<1> QED
  BY <1>3, <1>5 DEF w

LEMMA AddsReceipt ==
  ASSUME NEW p, NEW record, NEW whole, RecordIsGood(p, record, whole),
         NEW x, x.result = "pass", x.task \in Tasks, Has(record.trail, "terminal", x.task)
  PROVE  \E next : /\ Adds(p, record, <<Write("receipt", x)>>, whole, next)
                   /\ x \in next.receipts
<1> DEFINE w == Write("receipt", x)
           next == Apply(record, w)
           more == [record EXCEPT !.receipts = @ \cup {x}]
<1>1. next = more
  <2>1. w.kind = "receipt" /\ w.what = x /\ w.kind # "snapshot"
    BY DEF Write
  <2> HIDE DEF w
  <2> QED
    BY <2>1 DEF Apply
<1>2. /\ RecordIsGood(p, more, whole) /\ Extends(record, more)
      /\ more.held = record.held /\ more.trail = record.trail
      /\ more.receipts = record.receipts \cup {x}
  BY ReceiptKept
<1> HIDE DEF more, next, w
<1>3. Adds(p, record, <<w>>, whole, next)
  <2>1. Runs(p, record, <<w>>, whole, next)
    BY <1>1, <1>2, RunsOne DEF next
  <2> QED
    BY <1>1, <1>2, <2>1 DEF Adds, IsTold
<1> QED
  BY <1>1, <1>2, <1>3 DEF w

(* What may be added may still be added later. *)
LEMMA StillMayBeAdded ==
  ASSUME NEW record, NEW next, NEW whole, NEW e, MayBeAdded(record, e, whole),
         next.held = record.held,
         \A t : Mentioned(record.trail, t) => Mentioned(next.trail, t)
  PROVE  MayBeAdded(next, e, whole)
  BY DEF MayBeAdded

LEMMA AddsEvents ==
  ASSUME NEW p, NEW record, NEW whole, RecordIsGood(p, record, whole),
         NEW list \in Seq(EventSet), \A n \in DOMAIN list : MayBeAdded(record, list[n], whole)
  PROVE  \E next :
           /\ Adds(p, record, Events(list), whole, next)
           /\ next.receipts = record.receipts
           /\ \A n \in DOMAIN list : list[n].kind \in {"execution", "attempt"} =>
                Told(next.trail, list[n].kind, list[n].task, list[n].status)
<1> DEFINE May == {e \in EventSet : MayBeAdded(record, e, whole)}
           All(s, next) == \A n \in DOMAIN s : s[n].kind \in {"execution", "attempt"} =>
                             Told(next.trail, s[n].kind, s[n].task, s[n].status)
           Good(s) == \E next : /\ Adds(p, record, Events(s), whole, next)
                                /\ next.receipts = record.receipts /\ All(s, next)
           Q == {s \in Seq(May) : Good(s)}
<1>1. <<>> \in Q
  <2>1. Events(<<>>) = <<>> /\ <<>> \in Seq(May) /\ DOMAIN <<>> = {}
    BY DEF Events
  <2>2. Adds(p, record, <<>>, whole, record)
    BY AddsNone
  <2>3. All(<<>>, record)
    BY <2>1
  <2> HIDE DEF All, May
  <2> QED
    BY <2>1, <2>2, <2>3
<1>2. ASSUME NEW s \in Seq(May), NEW e \in May, s \in Q
      PROVE  Append(s, e) \in Q
  <2>1. PICK middle : /\ Adds(p, record, Events(s), whole, middle)
                      /\ middle.receipts = record.receipts /\ All(s, middle)
    <3> HIDE DEF All
    <3> QED
      BY <1>2
  <2>2. /\ RecordIsGood(p, middle, whole) /\ middle.held = record.held
        /\ \A t : Mentioned(record.trail, t) => Mentioned(middle.trail, t)
    BY <2>1, AddsEnd
  <2>3. MayBeAdded(middle, e, whole)
    BY <2>2, StillMayBeAdded
  <2>4. PICK next : /\ Adds(p, middle, <<Write("event", e)>>, whole, next)
                    /\ next.receipts = middle.receipts
                    /\ e.kind \in {"execution", "attempt"} =>
                         Told(next.trail, e.kind, e.task, e.status)
    BY <2>2, <2>3, AddsEvent
  <2>5. Events(Append(s, e)) = Events(s) \o <<Write("event", e)>>
    <3>1. /\ Len(s) \in Nat /\ DOMAIN s = 1..Len(s) /\ DOMAIN Append(s, e) = 1..(Len(s) + 1)
          /\ \A n \in 1..Len(s) : Append(s, e)[n] = s[n]
          /\ Append(s, e)[Len(s) + 1] = e
      OBVIOUS
    <3> DEFINE X == {Write("event", f) : f \in May}
               ev == Events(s)
               w == Write("event", e)
               long == Append(s, e)
               ev2 == Events(long)
    <3> HIDE DEF May
    <3>2. ev \in Seq(X) /\ Len(ev) = Len(s) /\ \A n \in 1..Len(s) : ev[n] = Write("event", s[n])
      BY <3>1 DEF Events
    <3>3. long \in Seq(May)
      OBVIOUS
    <3>4. ev2 \in Seq(X) /\ Len(ev2) = Len(s) + 1
          /\ \A n \in 1..(Len(s) + 1) : ev2[n] = Write("event", long[n])
      BY <3>1, <3>3 DEF Events
    <3>5. w \in X
      OBVIOUS
    <3> HIDE DEF X, ev, ev2, w
    <3>6. ev \o <<w>> \in Seq(X) /\ Len(ev \o <<w>>) = Len(s) + 1
          /\ (\A n \in 1..Len(s) : (ev \o <<w>>)[n] = ev[n]) /\ (ev \o <<w>>)[Len(s) + 1] = w
      BY <3>1, <3>2, <3>5
    <3>7. \A n \in 1..(Len(s) + 1) : n \in 1..Len(s) \/ n = Len(s) + 1
      BY <3>1
    <3>8. \A n \in 1..(Len(s) + 1) : ev2[n] = (ev \o <<w>>)[n]
      BY <3>1, <3>2, <3>4, <3>6, <3>7 DEF w
    <3>9. ev2 = ev \o <<w>>
      <4> DEFINE u == ev \o <<w>>
      <4>1. u \in Seq(X) /\ Len(u) = Len(ev2) /\ \A n \in 1..Len(ev2) : ev2[n] = u[n]
        BY <3>4, <3>6, <3>8
      <4> HIDE DEF u
      <4>2. ev2 = u
        BY <3>4, <4>1, SeqEqual
      <4> QED
        BY <4>2 DEF u
    <3> QED
      BY <3>9 DEF ev, ev2, w
  <2>6. Adds(p, record, Events(Append(s, e)), whole, next)
    BY <2>1, <2>4, <2>5, AddsOn
  <2>7. All(Append(s, e), next)
    <3>1. \A kind, t, status : Told(middle.trail, kind, t, status) => Told(next.trail, kind, t, status)
      BY <2>2, <2>4, AddsEnd
    <3>2. /\ Len(s) \in Nat /\ DOMAIN s = 1..Len(s) /\ DOMAIN Append(s, e) = 1..(Len(s) + 1)
          /\ \A n \in 1..Len(s) : Append(s, e)[n] = s[n]
          /\ Append(s, e)[Len(s) + 1] = e
      OBVIOUS
    <3>3. \A n \in 1..(Len(s) + 1) : n \in 1..Len(s) \/ n = Len(s) + 1
      BY <3>2
    <3> QED
      BY <2>1, <2>4, <3>1, <3>2, <3>3
  <2>8. Append(s, e) \in Seq(May) /\ next.receipts = record.receipts
    BY <2>1, <2>4
  <2> HIDE DEF All, May
  <2> QED
    BY <2>6, <2>7, <2>8
<1>3. Seq(May) \subseteq Q
  <2> HIDE DEF Q, May
  <2> QED
    BY <1>1, <1>2, SequenceInduction
<1>4. list \in Seq(May)
  <2>1. \A n \in DOMAIN list : list[n] \in May
    BY DEF MayBeAdded
  <2> HIDE DEF May
  <2> QED
    BY <2>1
<1>5. Good(list)
  <2> HIDE DEF Good, May
  <2> QED
    BY <1>3, <1>4
<1> QED
  BY <1>5

-----------------------------------------------------------------------------
(* The writes the handlers make.                                           *)

(* A plan the model was given tasks for, none of them unknown. *)
Planned(p) ==
  /\ IsPlan(p) /\ Ids(p.tasks) = Tasks
  /\ \A t \in Tasks : Deps(Named(p.tasks, t)) \subseteq Tasks

LEMMA EventType ==
  ASSUME NEW kind \in {"execution", "attempt", "published", "terminal", "evidence"},
         NEW t \in Tasks \cup {NoTask}, NEW status \in ExecutionStatus \cup Reached \cup {"none"},
         NEW at \in Nat
  PROVE  Event(kind, t, status, at) \in EventSet
  BY DEF Event, EventSet

LEMMA AttemptTimeType ==
  ASSUME NEW held, NEW now \in Nat, HeldIsTimed(held, now), NEW t \in Tasks
  PROVE  AttemptTime(held, t) \in Nat
<1>1. held.began[t] \in {Unset} \cup Nat /\ held.ended[t] \in {Unset} \cup Nat
  BY DEF HeldIsTimed
<1> QED
  BY <1>1 DEF AttemptTime

ExecutionChange(before, after, e) ==
  /\ before.snapshot.status # after.snapshot.status
  /\ e = Event("execution", NoTask, after.snapshot.status, 0)

AttemptChange(before, after, t, e) ==
  /\ StatusOf(before, t) # StatusOf(after, t)
  /\ e = Event("attempt", t, StatusOf(after, t), AttemptTime(after, t))

LEMMA TransitionsFacts ==
  ASSUME NEW p, Planned(p), NEW before, NEW after, NEW now \in Nat, HeldIsTimed(after, now),
         before.snapshot.status # after.snapshot.status =>
           after.snapshot.status \in ExecutionStatus,
         \A t \in Tasks : StatusOf(before, t) # StatusOf(after, t) => StatusOf(after, t) \in Reached
  PROVE  LET T == Transitions(p, before, after)
         IN  /\ T \in Seq(EventSet)
             /\ \A n \in DOMAIN T : \/ ExecutionChange(before, after, T[n])
                                    \/ \E t \in Tasks : AttemptChange(before, after, t, T[n])
             /\ before.snapshot.status # after.snapshot.status =>
                  \E n \in DOMAIN T : ExecutionChange(before, after, T[n])
             /\ \A t \in Tasks : StatusOf(before, t) # StatusOf(after, t) =>
                  \E n \in DOMAIN T : AttemptChange(before, after, t, T[n])
<1> DEFINE differ == {t \in Tasks : StatusOf(before, t) # StatusOf(after, t)}
           changed == Only(IdsInOrder(p), differ)
           first == IF before.snapshot.status = after.snapshot.status THEN <<>>
                    ELSE <<Event("execution", NoTask, after.snapshot.status, 0)>>
           rest == [n \in DOMAIN changed |->
                      Event("attempt", changed[n], StatusOf(after, changed[n]),
                            AttemptTime(after, changed[n]))]
           T == Transitions(p, before, after)
<1>1. T = first \o rest
  BY DEF Transitions
<1>2. changed \in Seq(Tasks) /\ ToSet(changed) = differ
  <2>1. IdsInOrder(p) \in Seq(Tasks) /\ ToSet(IdsInOrder(p)) = Tasks
    BY IdsFacts DEF Planned
  <2>2. changed \in Seq(Tasks) /\ ToSet(changed) = ToSet(IdsInOrder(p)) \cap differ
    <3> HIDE DEF differ
    <3> QED
      BY <2>1, OnlyFacts
  <2> QED
    BY <2>1, <2>2
<1> HIDE DEF changed
<1>3. /\ Len(changed) \in Nat /\ DOMAIN changed = 1..Len(changed)
      /\ \A n \in DOMAIN changed : changed[n] \in differ
      /\ \A t \in differ : \E n \in DOMAIN changed : changed[n] = t
  BY <1>2 DEF ToSet
<1>4. \A t \in differ :
        Event("attempt", t, StatusOf(after, t), AttemptTime(after, t)) \in EventSet
  BY EventType, AttemptTimeType
<1>5. /\ rest \in Seq(EventSet) /\ Len(rest) = Len(changed)
      /\ \A n \in DOMAIN changed : n \in 1..Len(rest) /\ AttemptChange(before, after, changed[n], rest[n])
      /\ \A n \in 1..Len(rest) : n \in DOMAIN changed
  <2>1. \A n \in DOMAIN changed : rest[n] \in EventSet
    BY <1>3, <1>4
  <2>2. rest \in Seq(EventSet) /\ Len(rest) = Len(changed)
    BY <1>3, <2>1
  <2>3. \A n \in DOMAIN changed : AttemptChange(before, after, changed[n], rest[n])
    BY <1>3 DEF AttemptChange
  <2> HIDE DEF rest
  <2> QED
    BY <1>3, <2>2, <2>3
<1>6. /\ first \in Seq(EventSet)
      /\ \A n \in 1..Len(first) : ExecutionChange(before, after, first[n])
      /\ before.snapshot.status # after.snapshot.status => 1 \in 1..Len(first)
  <2>1. CASE before.snapshot.status = after.snapshot.status
    BY <2>1
  <2>2. CASE before.snapshot.status # after.snapshot.status
    <3> DEFINE e == Event("execution", NoTask, after.snapshot.status, 0)
    <3>1. e \in EventSet
      BY <2>2, EventType
    <3>2. ExecutionChange(before, after, e) /\ first = <<e>>
      BY <2>2 DEF ExecutionChange
    <3> HIDE DEF e, first
    <3>3. first \in Seq(EventSet) /\ Len(first) = 1 /\ first[1] = e
      BY <3>1, <3>2
    <3> QED
      BY <3>2, <3>3
  <2> QED
    BY <2>1, <2>2
<1> HIDE DEF first, rest, differ
<1>7. /\ T \in Seq(EventSet) /\ Len(T) = Len(first) + Len(rest)
      /\ \A i \in 1..Len(first) : i \in 1..Len(T) /\ T[i] = first[i]
      /\ \A i \in 1..Len(rest) : Len(first) + i \in 1..Len(T) /\ T[Len(first) + i] = rest[i]
      /\ \A i \in 1..Len(T) :
           i \in 1..Len(first) \/ (i - Len(first) \in 1..Len(rest) /\ i = Len(first) + (i - Len(first)))
  <2> DEFINE c == first \o rest
  <2>1. first \in Seq(EventSet) /\ rest \in Seq(EventSet)
    BY <1>5, <1>6
  <2>2. /\ c \in Seq(EventSet) /\ Len(c) = Len(first) + Len(rest)
        /\ \A i \in 1..Len(first) : i \in 1..Len(c) /\ c[i] = first[i]
        /\ \A i \in 1..Len(rest) : Len(first) + i \in 1..Len(c) /\ c[Len(first) + i] = rest[i]
        /\ \A i \in 1..Len(c) :
             i \in 1..Len(first) \/ (i - Len(first) \in 1..Len(rest) /\ i = Len(first) + (i - Len(first)))
    BY <2>1, ConcatAt
  <2> HIDE DEF c
  <2>3. T = c
    BY <1>1 DEF c
  <2> HIDE DEF T
  <2> QED
    BY <2>2, <2>3
<1> HIDE DEF T
<1>8. DOMAIN T = 1..Len(T)
  BY <1>7
<1>9. ASSUME NEW n \in DOMAIN T
      PROVE  \/ ExecutionChange(before, after, T[n])
             \/ \E t \in Tasks : AttemptChange(before, after, t, T[n])
  <2>1. CASE n \in 1..Len(first)
    BY <1>6, <1>7, <2>1
  <2>2. CASE n \notin 1..Len(first)
    <3> DEFINE m == n - Len(first)
    <3>1. m \in 1..Len(rest) /\ T[n] = rest[m]
      <4>1. m \in 1..Len(rest) /\ n = Len(first) + m
        BY <1>7, <1>8, <2>2
      <4> HIDE DEF m
      <4> QED
        BY <1>7, <4>1
    <3> HIDE DEF m
    <3>2. changed[m] \in Tasks /\ AttemptChange(before, after, changed[m], T[n])
      BY <1>3, <1>5, <3>1 DEF differ
    <3> QED
      BY <3>2
  <2> QED
    BY <2>1, <2>2
<1>10. ASSUME before.snapshot.status # after.snapshot.status
       PROVE  \E n \in DOMAIN T : ExecutionChange(before, after, T[n])
  <2>1. 1 \in 1..Len(first) /\ 1 \in DOMAIN T /\ T[1] = first[1]
    BY <1>6, <1>7, <1>8, <1>10
  <2>2. ExecutionChange(before, after, T[1])
    BY <1>6, <2>1
  <2> QED
    BY <2>1, <2>2
<1>11. ASSUME NEW t \in Tasks, StatusOf(before, t) # StatusOf(after, t)
       PROVE  \E n \in DOMAIN T : AttemptChange(before, after, t, T[n])
  <2>1. PICK m \in DOMAIN changed : changed[m] = t
    BY <1>3, <1>11 DEF differ
  <2>2. /\ m \in 1..Len(rest) /\ AttemptChange(before, after, t, rest[m])
        /\ Len(first) + m \in DOMAIN T /\ T[Len(first) + m] = rest[m]
    BY <1>5, <1>7, <1>8, <2>1
  <2> QED
    BY <2>2
<1> QED
  BY <1>7, <1>9, <1>10, <1>11 DEF T

(* Whatever the trail lacks of what changed is written, and then the trail *)
(* tells all that is held.                                                 *)
LEMMA AddsTransitions ==
  ASSUME NEW p, Planned(p), NEW record, NEW whole, RecordIsGood(p, record, whole),
         NEW before,
         before.snapshot.status # record.held.snapshot.status =>
           record.held.snapshot.status # "absent",
         before.snapshot.status = record.held.snapshot.status =>
           \/ record.held.snapshot.status = "absent"
           \/ Told(record.trail, "execution", NoTask, record.held.snapshot.status),
         \A t \in Tasks :
           IF StatusOf(before, t) # StatusOf(record.held, t) THEN Bound(record.held, t)
           ELSE \/ ~Bound(record.held, t)
                \/ Told(record.trail, "attempt", t, StatusOf(record.held, t))
  PROVE  \E next :
           /\ Adds(p, record, Events(Transitions(p, before, record.held)), whole, next)
           /\ next.receipts = record.receipts /\ IsTold(next)
<1> DEFINE held == record.held
           T == Transitions(p, before, held)
           now == Len(record.trail)
<1>1. /\ HeldIsGood(p, held, now, whole) /\ held \in HeldSet /\ HeldIsTimed(held, now) /\ now \in Nat
      /\ held.snapshot.status \in ExecutionStatus \cup {"absent"}
  <2>1. HeldIsGood(p, held, now, whole) /\ record.trail \in Seq(EventSet)
    BY DEF RecordIsGood
  <2> QED
    BY <2>1 DEF HeldIsGood, HeldSet, SnapshotSet
<1>2. \A t \in Tasks : Bound(held, t) <=> StatusOf(held, t) \in Reached
  BY <1>1, HeldFacts, RankFacts
<1>3. /\ T \in Seq(EventSet)
      /\ \A n \in DOMAIN T : \/ ExecutionChange(before, held, T[n])
                             \/ \E t \in Tasks : AttemptChange(before, held, t, T[n])
      /\ before.snapshot.status # held.snapshot.status =>
           \E n \in DOMAIN T : ExecutionChange(before, held, T[n])
      /\ \A t \in Tasks : StatusOf(before, t) # StatusOf(held, t) =>
           \E n \in DOMAIN T : AttemptChange(before, held, t, T[n])
  <2>1. /\ before.snapshot.status # held.snapshot.status => held.snapshot.status \in ExecutionStatus
        /\ \A t \in Tasks : StatusOf(before, t) # StatusOf(held, t) => StatusOf(held, t) \in Reached
    BY <1>1, <1>2
  <2> HIDE DEF held, now
  <2> QED
    BY <1>1, <2>1, TransitionsFacts
<1> HIDE DEF T
<1>4. ASSUME NEW e, ExecutionChange(before, held, e), held.snapshot.status \in ExecutionStatus
      PROVE  /\ e \in EventSet => MayBeAdded(record, e, whole)
             /\ e.kind = "execution" /\ e.task = NoTask /\ e.status = held.snapshot.status
  <2>1. e.kind = "execution" /\ e.task = NoTask /\ e.status = held.snapshot.status
    BY <1>4 DEF ExecutionChange, Event
  <2>2. held.snapshot.status = "stopping" => held.snapshot.cancelling
    BY <1>1 DEF HeldIsGood, HeldIsSound
  <2>3. IsPast(held, e)
    BY <1>4, <2>1, <2>2 DEF IsPast
  <2> QED
    BY <2>1, <2>3 DEF MayBeAdded
<1>5. ASSUME NEW t \in Tasks, NEW e, AttemptChange(before, held, t, e), Bound(held, t)
      PROVE  /\ e \in EventSet => MayBeAdded(record, e, whole)
             /\ e.kind = "attempt" /\ e.task = t /\ e.status = StatusOf(held, t)
  <2>1. e.kind = "attempt" /\ e.task = t /\ e.status = StatusOf(held, t)
        /\ e.at = AttemptTime(held, t)
    BY <1>5 DEF AttemptChange, Event
  <2>2. t # NoTask
    BY NoTaskIsNone
  <2>3. e.status \in TerminalAttempt => e.at = held.ended[t]
    <3> SUFFICES ASSUME e.status \in TerminalAttempt
                 PROVE  e.at = held.ended[t]
      OBVIOUS
    <3>1. Over(held, t)
      BY <2>1 DEF Over
    <3>2. held.ended[t] # Unset
      BY <1>1, <3>1 DEF HeldIsTimed
    <3> QED
      BY <2>1, <3>1, <3>2 DEF AttemptTime
  <2>4. IsPast(held, e)
    BY <1>2, <1>5, <2>1, <2>2, <2>3 DEF IsPast
  <2>5. ASSUME whole, ~Mentioned(record.trail, t)
        PROVE  e.at = held.began[t]
    <3>1. StatusOf(held, t) = "starting"
      BY <1>5, <2>5 DEF RecordIsGood, TrailIsWhole
    <3>2. ~Over(held, t)
      BY <3>1 DEF Over, TerminalAttempt
    <3>3. held.began[t] # Unset
      BY <1>1, <1>5, <2>5 DEF HeldIsGood, HeldIsOrdered
    <3> QED
      BY <2>1, <3>2, <3>3 DEF AttemptTime
  <2> QED
    BY <2>1, <2>2, <2>4, <2>5 DEF MayBeAdded
<1>6. \A n \in DOMAIN T : MayBeAdded(record, T[n], whole)
  <2> TAKE n \in DOMAIN T
  <2>1. T[n] \in EventSet
    BY <1>3
  <2>2. CASE ExecutionChange(before, held, T[n])
    <3>1. held.snapshot.status \in ExecutionStatus
      BY <1>1, <2>2 DEF ExecutionChange
    <3> QED
      BY <1>4, <2>1, <2>2, <3>1
  <2>3. CASE \E t \in Tasks : AttemptChange(before, held, t, T[n])
    <3>1. PICK t \in Tasks : AttemptChange(before, held, t, T[n])
      BY <2>3
    <3>2. Bound(held, t)
      BY <3>1 DEF AttemptChange
    <3> QED
      BY <1>5, <2>1, <3>1, <3>2
  <2> QED
    BY <1>3, <2>2, <2>3
<1>7. PICK next : /\ Adds(p, record, Events(T), whole, next)
                  /\ next.receipts = record.receipts
                  /\ \A n \in DOMAIN T : T[n].kind \in {"execution", "attempt"} =>
                       Told(next.trail, T[n].kind, T[n].task, T[n].status)
  BY <1>3, <1>6, AddsEvents
<1>8. /\ next.held = held
      /\ \A kind, t, status : Told(record.trail, kind, t, status) => Told(next.trail, kind, t, status)
  BY <1>7, AddsEnd
<1>9. ASSUME held.snapshot.status # "absent"
      PROVE  Told(next.trail, "execution", NoTask, held.snapshot.status)
  <2>1. CASE before.snapshot.status = held.snapshot.status
    BY <1>8, <1>9, <2>1
  <2>2. CASE before.snapshot.status # held.snapshot.status
    <3>1. PICK n \in DOMAIN T : ExecutionChange(before, held, T[n])
      BY <1>3, <2>2
    <3>2. T[n].kind = "execution" /\ T[n].task = NoTask /\ T[n].status = held.snapshot.status
      BY <1>1, <1>4, <1>9, <3>1
    <3> QED
      BY <1>7, <3>2
  <2> QED
    BY <2>1, <2>2
<1>10. ASSUME NEW t \in Tasks, Bound(held, t)
       PROVE  Told(next.trail, "attempt", t, StatusOf(held, t))
  <2>1. CASE StatusOf(before, t) = StatusOf(held, t)
    BY <1>8, <1>10, <2>1
  <2>2. CASE StatusOf(before, t) # StatusOf(held, t)
    <3>1. PICK n \in DOMAIN T : AttemptChange(before, held, t, T[n])
      BY <1>3, <2>2
    <3>2. T[n].kind = "attempt" /\ T[n].task = t /\ T[n].status = StatusOf(held, t)
      BY <1>5, <1>10, <3>1
    <3> QED
      BY <1>7, <3>2
  <2> QED
    BY <2>1, <2>2
<1>11. IsTold(next)
  BY <1>8, <1>9, <1>10 DEF IsTold
<1> QED
  BY <1>7, <1>11 DEF T

-----------------------------------------------------------------------------
(* Persisting what a tracker passes through.                               *)

(* A tracker that held one execution holds another. *)
Passes(p, record, held, next, whole) ==
  /\ HeldIsGood(p, next, Len(record.trail), whole)
  /\ GoesOn(held, next)
  /\ whole => \A t \in Tasks :
                /\ Bound(next, t) /\ ~Bound(held, t) => StatusOf(next, t) = "starting"
                /\ StatusOf(next, t) = "completed" => Evidence(p, record, t)

LEMMA PersistsOne ==
  ASSUME NEW p, Planned(p), NEW record, NEW whole, RecordIsGood(p, record, whole),
         IsTold(record), NEW held, Passes(p, record, record.held, held, whole)
  PROVE  \E next :
           /\ Runs(p, record,
                   <<Write("snapshot", held)>> \o Events(Transitions(p, record.held, held)),
                   whole, next)
           /\ next.held = held /\ next.receipts = record.receipts /\ IsTold(next)
<1> DEFINE w == Write("snapshot", held)
           middle == [record EXCEPT !.held = held]
           old == record.held
<1>1. /\ HeldIsGood(p, held, Len(record.trail), whole) /\ GoesOn(old, held)
      /\ whole => \A t \in Tasks :
                    /\ Bound(held, t) /\ ~Bound(old, t) => StatusOf(held, t) = "starting"
                    /\ StatusOf(held, t) = "completed" => Evidence(p, record, t)
  BY DEF Passes
<1>2. /\ RecordIsGood(p, middle, whole) /\ Extends(record, middle)
      /\ middle.held = held /\ middle.trail = record.trail
      /\ middle.receipts = record.receipts
  BY <1>1, SnapshotKept
<1>3. Apply(record, w) = middle
  <2>1. w.kind = "snapshot" /\ w.what = held
    BY DEF Write
  <2> HIDE DEF w
  <2> QED
    BY <2>1 DEF Apply
<1> HIDE DEF middle
<1>4. Runs(p, record, <<w>>, whole, middle)
  BY <1>2, <1>3, RunsOne
<1>5. /\ old \in HeldSet /\ held \in HeldSet
      /\ old.snapshot.status \in ExecutionStatus \cup {"absent"}
      /\ held.snapshot.status \in ExecutionStatus \cup {"absent"}
  <2>1. old \in HeldSet /\ held \in HeldSet
    BY <1>1 DEF RecordIsGood, HeldIsGood
  <2> QED
    BY <2>1 DEF HeldSet, SnapshotSet
<1> HIDE DEF w, old
<1>6. ASSUME old.snapshot.status # held.snapshot.status
      PROVE  held.snapshot.status # "absent"
  <2>1. ExecutionRank(old.snapshot.status) < ExecutionRank(held.snapshot.status)
    BY <1>1, <1>6 DEF GoesOn
  <2>2. ExecutionRank(old.snapshot.status) \in Nat
    BY <1>5, ExecutionRankFacts
  <2> QED
    BY <2>1, <2>2, ExecutionRankFacts
<1>7. ASSUME old.snapshot.status = held.snapshot.status
      PROVE  \/ held.snapshot.status = "absent"
             \/ Told(record.trail, "execution", NoTask, held.snapshot.status)
  BY <1>7 DEF IsTold, old
<1>8. ASSUME NEW t \in Tasks
      PROVE  IF StatusOf(old, t) # StatusOf(held, t) THEN Bound(held, t)
             ELSE \/ ~Bound(held, t)
                  \/ Told(record.trail, "attempt", t, StatusOf(held, t))
  <2>1. CASE StatusOf(old, t) # StatusOf(held, t)
    <3>1. Rank(StatusOf(old, t)) < Rank(StatusOf(held, t))
      BY <1>1, <2>1 DEF GoesOn
    <3>2. /\ StatusOf(old, t) \in Reached \cup {"none"} /\ StatusOf(held, t) \in Reached \cup {"none"}
          /\ Bound(held, t) <=> StatusOf(held, t) # "none"
      BY <1>5, HeldFacts, RankFacts
    <3>3. Rank(StatusOf(old, t)) \in Nat
      BY <3>2, RankFacts
    <3> QED
      BY <2>1, <3>1, <3>2, <3>3, RankFacts
  <2>2. CASE StatusOf(old, t) = StatusOf(held, t)
    <3>1. Bound(old, t) => Told(record.trail, "attempt", t, StatusOf(old, t))
      BY DEF IsTold, old
    <3>2. Bound(old, t) <=> Bound(held, t)
      BY <1>5, <2>2, HeldFacts, RankFacts
    <3> QED
      BY <2>2, <3>1, <3>2
  <2> QED
    BY <2>1, <2>2
<1>9. PICK next :
        /\ Adds(p, middle, Events(Transitions(p, old, middle.held)), whole, next)
        /\ next.receipts = middle.receipts /\ IsTold(next)
  BY <1>2, <1>6, <1>7, <1>8, AddsTransitions
<1>10. Runs(p, record, <<w>> \o Events(Transitions(p, old, held)), whole, next)
  BY <1>2, <1>4, <1>9, RunsOn DEF Adds
<1> QED
  BY <1>2, <1>9, <1>10 DEF Adds, w, old

WriteSet ==
  {Write("event", e) : e \in EventSet} \cup {Write("snapshot", held) : held \in HeldSet}

StepWrites(p, held, next) ==
  IF held = next THEN <<>>
  ELSE <<Write("snapshot", next)>> \o Events(Transitions(p, held, next))

HeldAfter(held, helds) == IF helds = <<>> THEN held ELSE helds[Len(helds)]
Previous(held, helds, k) == IF k = 1 THEN held ELSE helds[k - 1]

Chained(p, record, helds, whole) ==
  \A k \in 1..Len(helds) :
    \/ helds[k] = Previous(record.held, helds, k)
    \/ Passes(p, record, Previous(record.held, helds, k), helds[k], whole)

LEMMA StepType ==
  ASSUME NEW p, Planned(p), NEW record, Len(record.trail) \in Nat, NEW whole,
         NEW held \in HeldSet, NEW next, next = held \/ Passes(p, record, held, next, whole)
  PROVE  next \in HeldSet /\ StepWrites(p, held, next) \in Seq(WriteSet)
<1>1. CASE next = held
  BY <1>1 DEF StepWrites
<1>2. CASE next # held
  <2>1. HeldIsGood(p, next, Len(record.trail), whole) /\ GoesOn(held, next)
    BY <1>2 DEF Passes
  <2>2. next \in HeldSet /\ HeldIsTimed(next, Len(record.trail))
    BY <2>1 DEF HeldIsGood
  <2>3. /\ held.snapshot.status \in ExecutionStatus \cup {"absent"}
        /\ next.snapshot.status \in ExecutionStatus \cup {"absent"}
    BY <2>2 DEF HeldSet, SnapshotSet
  <2>4. held.snapshot.status # next.snapshot.status => next.snapshot.status \in ExecutionStatus
    <3> SUFFICES ASSUME held.snapshot.status # next.snapshot.status, next.snapshot.status = "absent"
                 PROVE  FALSE
      BY <2>3
    <3>1. ExecutionRank(held.snapshot.status) < ExecutionRank(next.snapshot.status)
      BY <2>1 DEF GoesOn
    <3>2. ExecutionRank(held.snapshot.status) \in Nat
      BY <2>3, ExecutionRankFacts
    <3> QED
      BY <3>1, <3>2, ExecutionRankFacts
  <2>5. ASSUME NEW t \in Tasks, StatusOf(held, t) # StatusOf(next, t)
        PROVE  StatusOf(next, t) \in Reached
    <3>1. /\ StatusOf(held, t) \in Reached \cup {"none"} /\ StatusOf(next, t) \in Reached \cup {"none"}
      BY <2>2, HeldFacts
    <3>2. Rank(StatusOf(held, t)) < Rank(StatusOf(next, t))
      BY <2>1, <2>5 DEF GoesOn
    <3>3. Rank(StatusOf(held, t)) \in Nat
      BY <3>1, RankFacts
    <3> QED
      BY <3>1, <3>2, <3>3, RankFacts
  <2>6. Transitions(p, held, next) \in Seq(EventSet)
    BY <2>2, <2>4, <2>5, TransitionsFacts
  <2> DEFINE T == Transitions(p, held, next)
             one == <<Write("snapshot", next)>>
             more == Events(T)
  <2> HIDE DEF T
  <2>7. more \in Seq(WriteSet)
    <3>1. \A n \in DOMAIN T : Write("event", T[n]) \in WriteSet
      BY <2>6 DEF WriteSet, T
    <3>2. DOMAIN T = 1..Len(T) /\ Len(T) \in Nat
      BY <2>6 DEF T
    <3> QED
      BY <3>1, <3>2 DEF Events
  <2>8. one \in Seq(WriteSet)
    BY <2>2 DEF WriteSet
  <2> HIDE DEF one, more
  <2>9. one \o more \in Seq(WriteSet)
    BY <2>7, <2>8
  <2> QED
    BY <1>2, <2>2, <2>9 DEF StepWrites, one, more, T
<1> QED
  BY <1>1, <1>2

(* Persisting one after another is persisting all. *)
LEMMA PersistedMore ==
  ASSUME NEW p, NEW held \in HeldSet, NEW helds \in Seq(HeldSet), NEW h \in HeldSet,
         \A k \in 1..Len(helds) :
           StepWrites(p, Previous(held, helds, k), helds[k]) \in Seq(WriteSet),
         StepWrites(p, HeldAfter(held, helds), h) \in Seq(WriteSet)
  PROVE  Persisted(p, held, Append(helds, h))
           = Persisted(p, held, helds) \o StepWrites(p, HeldAfter(held, helds), h)
<1> DEFINE N == Len(helds)
           long == Append(helds, h)
           some == <<held>> \o helds
           all == <<held>> \o long
           last == StepWrites(p, HeldAfter(held, helds), h)
           S == [k \in DOMAIN helds |-> StepWrites(p, some[k], some[k + 1])]
           L == [k \in DOMAIN long |-> StepWrites(p, all[k], all[k + 1])]
<1>1. /\ N \in Nat /\ DOMAIN helds = 1..N /\ long \in Seq(HeldSet) /\ DOMAIN long = 1..(N + 1)
      /\ Len(long) = N + 1 /\ long[N + 1] = h /\ \A k \in 1..N : long[k] = helds[k]
  OBVIOUS
<1>2. /\ \A k \in 1..N : some[k] = Previous(held, helds, k) /\ some[k + 1] = helds[k]
      /\ \A k \in 1..(N + 1) : all[k] = Previous(held, long, k) /\ all[k + 1] = long[k]
  <2>1. /\ \A k \in 1..N : some[k] = Previous(held, helds, k) /\ some[k + 1] = helds[k]
    BY <1>1 DEF Previous
  <2> HIDE DEF long
  <2>2. /\ \A k \in 1..(N + 1) : all[k] = Previous(held, long, k) /\ all[k + 1] = long[k]
    BY <1>1 DEF Previous
  <2> QED
    BY <2>1, <2>2
<1>3. Persisted(p, held, helds) = FlattenSeq(S) /\ Persisted(p, held, long) = FlattenSeq(L)
  BY DEF Persisted, StepWrites
<1>4. Previous(held, long, N + 1) = HeldAfter(held, helds)
      /\ \A k \in 1..N : Previous(held, long, k) = Previous(held, helds, k)
  <2> HIDE DEF long
  <2>1. N = 0 <=> helds = <<>>
    OBVIOUS
  <2>2. \A k \in 1..N : k # 1 => k - 1 \in 1..N
    BY <1>1
  <2>3. N # 0 => (N + 1) # 1 /\ (N + 1) - 1 = N /\ N \in 1..N
    BY <1>1
  <2>4. \A k \in 1..N : Previous(held, long, k) = Previous(held, helds, k)
    BY <1>1, <2>2 DEF Previous
  <2>5. Previous(held, long, N + 1) = HeldAfter(held, helds)
    <3>1. CASE N = 0
      BY <1>1, <2>1, <3>1 DEF Previous, HeldAfter
    <3>2. CASE N # 0
      <4>1. Previous(held, long, N + 1) = long[N] /\ HeldAfter(held, helds) = helds[N]
        BY <2>1, <2>3, <3>2 DEF Previous, HeldAfter
      <4> QED
        BY <1>1, <2>3, <3>2, <4>1
    <3> QED
      BY <3>1, <3>2
  <2> QED
    BY <2>4, <2>5
<1> HIDE DEF some, all, long
<1>5. S \in Seq(Seq(WriteSet)) /\ Len(S) = N
      /\ \A k \in 1..N : S[k] = StepWrites(p, Previous(held, helds, k), helds[k])
  <2>1. \A k \in 1..N : S[k] = StepWrites(p, Previous(held, helds, k), helds[k])
    BY <1>1, <1>2
  <2>2. DOMAIN S = 1..N /\ S = [k \in 1..N |-> S[k]]
    BY <1>1
  <2> HIDE DEF S
  <2>3. \A k \in 1..N : S[k] \in Seq(WriteSet)
    BY <2>1
  <2>4. S \in Seq(Seq(WriteSet)) /\ Len(S) = N
    BY <1>1, <2>2, <2>3
  <2> QED
    BY <2>1, <2>4
<1>6. L = Append(S, last)
  <2>1. \A k \in 1..N : k \in 1..(N + 1) /\ L[k] = StepWrites(p, Previous(held, helds, k), helds[k])
    BY <1>1, <1>2, <1>4
  <2>2. L[N + 1] = last
    <3> DEFINE M == N + 1
    <3>1. M \in DOMAIN long /\ M \in 1..(N + 1)
      BY <1>1
    <3>2. all[M] = HeldAfter(held, helds) /\ all[M + 1] = h
      BY <1>1, <1>2, <1>4, <3>1
    <3> HIDE DEF M, last
    <3>3. L[M] = StepWrites(p, all[M], all[M + 1])
      BY <3>1
    <3> QED
      BY <3>2, <3>3 DEF M, last
  <2>3. DOMAIN L = 1..(N + 1) /\ L = [k \in 1..(N + 1) |-> L[k]]
    BY <1>1
  <2> DEFINE A == Append(S, last)
  <2>4. A \in Seq(Seq(WriteSet)) /\ Len(A) = N + 1 /\ A[N + 1] = last /\ \A k \in 1..N : A[k] = S[k]
    <3> HIDE DEF S, last
    <3>1. last \in Seq(WriteSet)
      BY DEF last
    <3> QED
      BY <1>1, <1>5, <3>1
  <2> HIDE DEF A, L, S, last, N
  <2>5. \A k \in 1..(N + 1) : k \in 1..N \/ k = N + 1
    BY <1>1
  <2>6. \A k \in 1..(N + 1) : L[k] = A[k]
    BY <1>5, <2>1, <2>2, <2>4, <2>5
  <2>7. \A k \in 1..(N + 1) : L[k] \in Seq(WriteSet)
    BY <1>1, <2>4, <2>6
  <2>8. L \in Seq(Seq(WriteSet)) /\ Len(L) = N + 1
    <3> DEFINE M == N + 1
    <3>1. M \in Nat
      BY <1>1
    <3>2. L = [k \in 1..M |-> L[k]] /\ \A k \in 1..M : L[k] \in Seq(WriteSet)
      BY <2>3, <2>7
    <3> HIDE DEF M
    <3>3. [k \in 1..M |-> L[k]] \in Seq(Seq(WriteSet)) /\ Len([k \in 1..M |-> L[k]]) = M
      BY <3>1, <3>2
    <3> QED
      BY <3>2, <3>3 DEF M
  <2>9. L = A
    BY <2>4, <2>6, <2>8, SeqEqual
  <2> QED
    BY <2>9 DEF A
<1> HIDE DEF S, L
<1>7. FlattenSeq(Append(S, last)) = FlattenSeq(S) \o last
  BY <1>5, FlattenAppend
<1> QED
  BY <1>3, <1>6, <1>7 DEF long

LEMMA RunsFacts ==
  ASSUME NEW p, NEW record, NEW writes, NEW whole, NEW next,
         Runs(p, record, writes, whole, next)
  PROVE  /\ RecordIsGood(p, record, whole) /\ RecordIsGood(p, next, whole) /\ Extends(record, next)
         /\ Len(record.trail) \in Nat /\ Len(next.trail) \in Nat
         /\ Len(record.trail) <= Len(next.trail) /\ record.receipts \subseteq next.receipts
         /\ \A kind, t : Has(record.trail, kind, t) => Has(next.trail, kind, t)
         /\ \A t : Evidence(p, record, t) => Evidence(p, next, t)
<1>1. RecordIsGood(p, next, whole) /\ Extends(record, next)
  BY RunsEnd
<1>2. RecordIsGood(p, record, whole)
  <2>1. PICK X : writes \in Seq(X)
    BY DEF Runs
  <2>2. 0 \in 0..Len(writes) /\ SubSeq(writes, 1, 0) = <<>>
    BY <2>1
  <2> QED
    BY <2>2, WrittenNone DEF Runs
<1>3. record.trail \in Seq(EventSet) /\ next.trail \in Seq(EventSet)
  BY <1>1, <1>2 DEF RecordIsGood
<1>4. Len(record.trail) \in Nat /\ Len(next.trail) \in Nat
  BY <1>3
<1>5. Len(record.trail) <= Len(next.trail) /\ record.receipts \subseteq next.receipts
  BY <1>1 DEF Extends
<1>6. \A kind, t : Has(record.trail, kind, t) => Has(next.trail, kind, t)
  BY <1>1, <1>3, HasOn
<1>7. \A t : Evidence(p, record, t) => Evidence(p, next, t)
  BY <1>5, <1>6 DEF Evidence
<1> QED
  BY <1>1, <1>2, <1>4, <1>5, <1>6, <1>7

(* Time and evidence do not get in the way. *)
LEMMA PassesLater ==
  ASSUME NEW p, NEW record, NEW later, NEW whole, Len(record.trail) \in Nat,
         Len(later.trail) \in Nat, Len(record.trail) <= Len(later.trail),
         \A t : Evidence(p, record, t) => Evidence(p, later, t),
         NEW held, NEW next, Passes(p, record, held, next, whole)
  PROVE  Passes(p, later, held, next, whole)
<1>1. HeldIsGood(p, next, Len(later.trail), whole)
  BY HeldStaysGood DEF Passes
<1> QED
  BY <1>1 DEF Passes

(* What a tracker passes through is persisted, and leaves a good record    *)
(* wherever the host stops.                                                *)
LEMMA PersistedRuns ==
  ASSUME NEW p, Planned(p), NEW record, NEW whole, RecordIsGood(p, record, whole),
         IsTold(record), NEW helds \in Seq(HeldSet), Chained(p, record, helds, whole)
  PROVE  \E next : /\ Runs(p, record, Persisted(p, record.held, helds), whole, next)
                   /\ next.held = HeldAfter(record.held, helds)
                   /\ next.receipts = record.receipts /\ IsTold(next)
<1> DEFINE old == record.held
           Good(s) == \E next : /\ Runs(p, record, Persisted(p, old, s), whole, next)
                                /\ next.held = HeldAfter(old, s)
                                /\ next.receipts = record.receipts /\ IsTold(next)
           Q == {s \in Seq(HeldSet) : Chained(p, record, s, whole) => Good(s)}
<1>0. old \in HeldSet /\ Len(record.trail) \in Nat
  BY DEF RecordIsGood, HeldIsGood
<1>1. <<>> \in Q
  <2>1. <<>> \in Seq(HeldSet)
    OBVIOUS
  <2>2. Persisted(p, old, <<>>) = <<>>
    <3>1. Persisted(p, old, <<>>) = FlattenSeq(<<>>)
      BY DEF Persisted
    <3> QED
      BY <3>1, FlattenOfNone
  <2>3. Runs(p, record, <<>>, whole, record)
    BY RunsNone
  <2>4. HeldAfter(old, <<>>) = old
    BY DEF HeldAfter
  <2> QED
    BY <2>1, <2>2, <2>3, <2>4
<1>2. ASSUME NEW s \in Seq(HeldSet), NEW h \in HeldSet, s \in Q
      PROVE  Append(s, h) \in Q
  <2> DEFINE long == Append(s, h)
             N == Len(s)
  <2>1. /\ N \in Nat /\ long \in Seq(HeldSet) /\ Len(long) = N + 1 /\ long[N + 1] = h
        /\ (\A k \in 1..N : k \in 1..(N + 1) /\ long[k] = s[k]) /\ long # <<>>
        /\ N + 1 \in 1..(N + 1)
    OBVIOUS
  <2> HIDE DEF long
  <2>2. /\ \A k \in 1..N : Previous(old, long, k) = Previous(old, s, k)
        /\ Previous(old, long, N + 1) = HeldAfter(old, s)
        /\ HeldAfter(old, long) = h
    <3>1. N = 0 <=> s = <<>>
      OBVIOUS
    <3>2. \A k \in 1..N : k # 1 => k - 1 \in 1..N
      BY <2>1
    <3>3. \A k \in 1..N : Previous(old, long, k) = Previous(old, s, k)
      BY <2>1, <3>2 DEF Previous
    <3>4. Previous(old, long, N + 1) = HeldAfter(old, s)
      <4>1. CASE N = 0
        BY <2>1, <3>1, <4>1 DEF Previous, HeldAfter
      <4>2. CASE N # 0
        <5>1. (N + 1) # 1 /\ (N + 1) - 1 = N /\ N \in 1..N
          BY <2>1, <4>2
        <5>2. Previous(old, long, N + 1) = long[N] /\ HeldAfter(old, s) = s[N]
          BY <3>1, <4>2, <5>1 DEF Previous, HeldAfter
        <5> QED
          BY <2>1, <5>1, <5>2
      <4> QED
        BY <4>1, <4>2
    <3>5. HeldAfter(old, long) = h
      BY <2>1 DEF HeldAfter
    <3> QED
      BY <3>3, <3>4, <3>5
  <2>3. SUFFICES ASSUME Chained(p, record, long, whole)
                 PROVE  Good(long)
    <3> HIDE DEF Good
    <3> QED
      BY <2>1 DEF long
  <2>4. Chained(p, record, s, whole)
    <3>1. ASSUME NEW k \in 1..N
          PROVE  \/ s[k] = Previous(old, s, k)
                 \/ Passes(p, record, Previous(old, s, k), s[k], whole)
      <4>1. k \in 1..Len(long) /\ long[k] = s[k] /\ Previous(old, long, k) = Previous(old, s, k)
        BY <2>1, <2>2
      <4> QED
        BY <2>3, <4>1 DEF Chained
    <3> QED
      BY <3>1 DEF Chained
  <2> DEFINE last == HeldAfter(old, s)
  <2>5. h = last \/ Passes(p, record, last, h, whole)
    <3>1. N + 1 \in 1..Len(long)
      BY <2>1
    <3> QED
      BY <2>1, <2>2, <2>3, <3>1 DEF Chained
  <2>6. PICK middle : /\ Runs(p, record, Persisted(p, old, s), whole, middle)
                      /\ middle.held = last
                      /\ middle.receipts = record.receipts /\ IsTold(middle)
    BY <1>2, <2>4
  <2>7. /\ RecordIsGood(p, middle, whole) /\ Len(middle.trail) \in Nat
        /\ Len(record.trail) <= Len(middle.trail)
        /\ \A t : Evidence(p, record, t) => Evidence(p, middle, t)
    BY <2>6, RunsFacts
  <2> HIDE DEF last
  <2>8. \E next : /\ Runs(p, middle, StepWrites(p, last, h), whole, next)
                  /\ next.held = h
                  /\ next.receipts = middle.receipts /\ IsTold(next)
    <3>1. CASE h = last
      <4>1. StepWrites(p, last, h) = <<>> /\ Runs(p, middle, <<>>, whole, middle)
        BY <2>7, <3>1, RunsNone DEF StepWrites
      <4> QED
        BY <2>6, <3>1, <4>1
    <3>2. CASE h # last
      <4>1. Passes(p, middle, last, h, whole)
        BY <1>0, <2>5, <2>7, <3>2, PassesLater
      <4>2. \E next :
              /\ Runs(p, middle,
                      <<Write("snapshot", h)>> \o Events(Transitions(p, middle.held, h)),
                      whole, next)
              /\ next.held = h /\ next.receipts = middle.receipts /\ IsTold(next)
        BY <2>6, <2>7, <4>1, PersistsOne
      <4> QED
        BY <2>6, <3>2, <4>2 DEF StepWrites
    <3> QED
      BY <3>1, <3>2
  <2>9. PICK next : /\ Runs(p, middle, StepWrites(p, last, h), whole, next)
                    /\ next.held = h
                    /\ next.receipts = middle.receipts /\ IsTold(next)
    BY <2>8
  <2>10. Persisted(p, old, long) = Persisted(p, old, s) \o StepWrites(p, last, h)
    <3>1. \A k \in 1..N : /\ Previous(old, s, k) \in HeldSet
                          /\ StepWrites(p, Previous(old, s, k), s[k]) \in Seq(WriteSet)
      <4> TAKE k \in 1..N
      <4>1. Previous(old, s, k) \in HeldSet
        <5>1. k # 1 => k - 1 \in 1..N
          BY <2>1
        <5> QED
          BY <1>0, <5>1 DEF Previous
      <4>2. s[k] = Previous(old, s, k) \/ Passes(p, record, Previous(old, s, k), s[k], whole)
        BY <2>4 DEF Chained
      <4> QED
        BY <1>0, <4>1, <4>2, StepType
    <3>2. last \in HeldSet
      BY <2>6, <2>7 DEF RecordIsGood, HeldIsGood
    <3>3. StepWrites(p, last, h) \in Seq(WriteSet)
      BY <1>0, <2>5, <3>2, StepType
    <3> QED
      BY <1>0, <3>1, <3>3, PersistedMore DEF long, last
  <2>11. Runs(p, record, Persisted(p, old, long), whole, next)
    BY <2>6, <2>9, <2>10, RunsOn
  <2> QED
    BY <2>2, <2>6, <2>9, <2>11
<1>3. Seq(HeldSet) \subseteq Q
  <2> HIDE DEF Q
  <2> QED
    BY <1>1, <1>2, SequenceInduction
<1>4. Good(helds)
  <2> HIDE DEF Good
  <2> QED
    BY <1>3
<1> QED
  BY <1>4

(* The list of a finite set has every element of it. *)
LEMMA SetToSeqFacts ==
  ASSUME NEW S, IsFiniteSet(S)
  PROVE  /\ Cardinality(S) \in Nat /\ SetToSeq(S) \in [1..Cardinality(S) -> S]
         /\ \A v \in S : \E n \in 1..Cardinality(S) : SetToSeq(S)[n] = v
<1> DEFINE N == Cardinality(S)
           P(f) == f \in [1..N -> S] /\ IsInjective(f)
<1>1. N \in Nat /\ ExistsBijection(1..N, S)
  BY FS_CardinalityType
<1>2. PICK f : f \in Injection(1..N, S)
  BY <1>1 DEF ExistsBijection, Bijection
<1>3. f \in [1..N -> S] /\ IsInjective(f)
  BY <1>2 DEF Injection
<1>4. \E g \in [1..N -> S] : IsInjective(g)
  BY <1>3
<1>5. SetToSeq(S) = CHOOSE g \in [1..N -> S] : IsInjective(g)
  BY DEF SetToSeq
<1>6. SetToSeq(S) \in [1..N -> S] /\ IsInjective(SetToSeq(S))
  BY <1>4, <1>5
<1> DEFINE s == SetToSeq(S)
<1> HIDE DEF s
<1>7. s \in Injection(1..N, S)
  BY <1>6 DEF Injection, s
<1>8. Cardinality(1..N) = N /\ IsFiniteSet(1..N)
  BY <1>1, CountUpTo
<1>9. s \in Surjection(1..N, S)
  BY <1>7, <1>8, FS_Injection
<1> QED
  BY <1>1, <1>6, <1>9 DEF Surjection, s

(* The writes each entry of a list calls for. *)
Blocks(list, B) == FlattenSeq([n \in 1..Len(list) |-> B[list[n]]])

LEMMA BlocksAppend ==
  ASSUME NEW X, NEW Y, NEW B \in [X -> Seq(Y)], NEW list \in Seq(X), NEW x \in X
  PROVE  Blocks(Append(list, x), B) = Blocks(list, B) \o B[x]
<1> DEFINE N == Len(list)
           long == Append(list, x)
           S == [n \in 1..N |-> B[list[n]]]
           L == [n \in 1..Len(long) |-> B[long[n]]]
           last == B[x]
           A == Append(S, last)
<1>1. /\ N \in Nat /\ Len(long) = N + 1 /\ long[N + 1] = x
      /\ \A n \in 1..N : long[n] = list[n] /\ list[n] \in X
  OBVIOUS
<1>2. last \in Seq(Y) /\ \A n \in 1..N : B[list[n]] \in Seq(Y)
  BY <1>1
<1> HIDE DEF long, last
<1>3. S \in Seq(Seq(Y)) /\ Len(S) = N /\ \A n \in 1..N : S[n] = B[list[n]]
  BY <1>1, <1>2
<1> HIDE DEF S
<1>4. A \in Seq(Seq(Y)) /\ Len(A) = N + 1 /\ A[N + 1] = last /\ \A n \in 1..N : A[n] = S[n]
  BY <1>1, <1>2, <1>3
<1> DEFINE M == N + 1
<1>5. M \in Nat /\ Len(long) = M /\ \A n \in 1..M : n \in 1..N \/ n = M
  BY <1>1
<1>6. \A n \in 1..M : B[long[n]] = A[n]
  BY <1>1, <1>3, <1>4, <1>5 DEF last
<1> HIDE DEF A, N
<1>7. \A n \in 1..M : B[long[n]] \in Seq(Y)
  BY <1>4, <1>5, <1>6
<1> HIDE DEF M
<1>8. L \in Seq(Seq(Y)) /\ Len(L) = M /\ \A n \in 1..M : L[n] = B[long[n]]
  <2>1. Len(long) = M /\ M \in Nat
    BY <1>5
  <2> QED
    BY <1>7, <2>1
<1> HIDE DEF L
<1>9. L = A
  <2>1. Len(A) = M
    BY <1>4 DEF M
  <2> QED
    BY <1>4, <1>6, <1>8, <2>1, SeqEqual
<1>10. FlattenSeq(A) = FlattenSeq(S) \o last
  BY <1>2, <1>3, FlattenAppend DEF A
<1> QED
  BY <1>9, <1>10 DEF Blocks, L, S, long, last, N

(* What each entry adds, wherever it is written from, all of them add. *)
LEMMA AddsBlocks ==
  ASSUME NEW p, NEW record, NEW whole, RecordIsGood(p, record, whole),
         NEW X, NEW Y, NEW B \in [X -> Seq(Y)], NEW Z, NEW list \in Seq(X),
         \A x \in X : \A r :
           RecordIsGood(p, r, whole) /\ Extends(record, r) /\ r.held = record.held =>
             \E next : Adds(p, r, B[x], whole, next) /\ Z[x] \subseteq next.receipts
  PROVE  \E next : /\ Adds(p, record, Blocks(list, B), whole, next)
                   /\ \A n \in 1..Len(list) : Z[list[n]] \subseteq next.receipts
<1> DEFINE Good(s) == \E next : /\ Adds(p, record, Blocks(s, B), whole, next)
                                /\ \A n \in 1..Len(s) : Z[s[n]] \subseteq next.receipts
           Q == {s \in Seq(X) : Good(s)}
<1>1. <<>> \in Q
  <2>1. <<>> \in Seq(X) /\ 1..Len(<<>>) = {}
    OBVIOUS
  <2>2. Blocks(<<>>, B) = <<>>
    <3>1. Blocks(<<>>, B) = FlattenSeq(<<>>)
      BY <2>1 DEF Blocks
    <3> QED
      BY <3>1, FlattenOfNone
  <2>3. Adds(p, record, <<>>, whole, record)
    BY AddsNone
  <2> QED
    BY <2>1, <2>2, <2>3
<1>2. ASSUME NEW s \in Seq(X), NEW x \in X, s \in Q
      PROVE  Append(s, x) \in Q
  <2>1. PICK middle : /\ Adds(p, record, Blocks(s, B), whole, middle)
                      /\ \A n \in 1..Len(s) : Z[s[n]] \subseteq middle.receipts
    BY <1>2
  <2>2. RecordIsGood(p, middle, whole) /\ Extends(record, middle) /\ middle.held = record.held
    BY <2>1, AddsEnd
  <2>3. PICK next : Adds(p, middle, B[x], whole, next) /\ Z[x] \subseteq next.receipts
    BY <2>2
  <2>4. Adds(p, record, Blocks(Append(s, x), B), whole, next)
    <3>1. Blocks(Append(s, x), B) = Blocks(s, B) \o B[x]
      BY BlocksAppend
    <3> QED
      BY <2>1, <2>3, <3>1, AddsOn
  <2>5. \A n \in 1..Len(Append(s, x)) : Z[Append(s, x)[n]] \subseteq next.receipts
    <3>1. middle.receipts \subseteq next.receipts
      BY <2>2, <2>3, AddsEnd
    <3>2. /\ Len(s) \in Nat /\ Len(Append(s, x)) = Len(s) + 1 /\ Append(s, x)[Len(s) + 1] = x
          /\ \A n \in 1..Len(s) : Append(s, x)[n] = s[n]
      OBVIOUS
    <3>3. \A n \in 1..(Len(s) + 1) : n \in 1..Len(s) \/ n = Len(s) + 1
      BY <3>2
    <3> QED
      BY <2>1, <2>3, <3>1, <3>2, <3>3
  <2>6. Append(s, x) \in Seq(X)
    OBVIOUS
  <2> QED
    BY <2>4, <2>5, <2>6
<1>3. Seq(X) \subseteq Q
  <2> HIDE DEF Q
  <2> QED
    BY <1>1, <1>2, SequenceInduction
<1>4. Good(list)
  <2> HIDE DEF Good
  <2> QED
    BY <1>3
<1> QED
  BY <1>4

LifecycleIsFinite(p) == \A t \in Tasks : IsFiniteSet(Lifecycle(p, t))

LEMMA LifecycleFinite ==
  ASSUME NEW p, Planned(p)
  PROVE  LifecycleIsFinite(p)
<1> SUFFICES ASSUME NEW t \in Tasks
             PROVE  IsFiniteSet(Lifecycle(p, t))
  BY DEF LifecycleIsFinite
<1>1. IsPlan(p) /\ t \in Ids(p.tasks)
  BY DEF Planned
<1>2. Named(p.tasks, t) \in TasksOf(p)
  BY <1>1, IdsFacts
<1>3. IsTask(Named(p.tasks, t))
  BY <1>1, <1>2, PlanFacts
<1>4. IsFiniteSet(Named(p.tasks, t).verifiers)
  BY <1>3 DEF IsTask
<1> QED
  BY <1>4, FS_Subset DEF Lifecycle

(* A receipt and the event of its evidence. *)
VerifierWrites(t, v) ==
  <<Write("receipt", Receipt(t, v, "pass")), Write("event", Event("evidence", t, "none", 0))>>

VerifiedSet(p) ==
  {Write("receipt", Receipt(t, v, "pass")) :
     t \in Tasks, v \in UNION {Lifecycle(p, t) : t \in Tasks}}
  \cup {Write("event", Event("evidence", t, "none", 0)) : t \in Tasks}

LEMMA VerifiedIsBlocks ==
  ASSUME NEW p, LifecycleIsFinite(p), NEW t \in Tasks
  PROVE  LET S == Lifecycle(p, t)
             B == [v \in S |-> VerifierWrites(t, v)]
         IN  /\ B \in [S -> Seq(VerifiedSet(p))]
             /\ SetToSeq(S) \in Seq(S)
             /\ \A v \in S : \E n \in 1..Len(SetToSeq(S)) : SetToSeq(S)[n] = v
             /\ Verified(p, t) = Blocks(SetToSeq(S), B)
<1> DEFINE S == Lifecycle(p, t)
           B == [v \in S |-> VerifierWrites(t, v)]
           N == Cardinality(S)
           s == SetToSeq(S)
<1>1. /\ N \in Nat /\ s \in [1..N -> S] /\ \A v \in S : \E n \in 1..N : s[n] = v
  BY SetToSeqFacts DEF LifecycleIsFinite
<1>2. S \subseteq UNION {Lifecycle(p, u) : u \in Tasks}
  OBVIOUS
<1>3. \A v \in S : VerifierWrites(t, v) \in Seq(VerifiedSet(p))
  <2> TAKE v \in S
  <2> DEFINE a == Write("receipt", Receipt(t, v, "pass"))
             b == Write("event", Event("evidence", t, "none", 0))
  <2>1. a \in VerifiedSet(p) /\ b \in VerifiedSet(p)
    BY <1>2 DEF VerifiedSet
  <2> HIDE DEF a, b
  <2>2. <<a, b>> \in Seq(VerifiedSet(p))
    BY <2>1
  <2> QED
    BY <2>2 DEF VerifierWrites, a, b
<1>4. Verified(p, t) = FlattenSeq([n \in 1..N |-> VerifierWrites(t, s[n])])
  BY DEF Verified, VerifierWrites
<1> HIDE DEF S, s, N
<1>5. s \in Seq(S) /\ Len(s) = N
  BY <1>1
<1>6. [n \in 1..N |-> VerifierWrites(t, s[n])] = [n \in 1..Len(s) |-> B[s[n]]]
  BY <1>1, <1>5
<1> QED
  BY <1>1, <1>3, <1>4, <1>5, <1>6 DEF Blocks, S, s

(* The receipts of a child that ended, and the events of their evidence.   *)
LEMMA VerifiedAdds ==
  ASSUME NEW p, LifecycleIsFinite(p), NEW record, NEW whole, RecordIsGood(p, record, whole),
         NEW t \in Tasks, Bound(record.held, t), Has(record.trail, "terminal", t)
  PROVE  \E next : /\ Adds(p, record, Verified(p, t), whole, next)
                   /\ \A v \in Lifecycle(p, t) : Receipt(t, v, "pass") \in next.receipts
<1> DEFINE S == Lifecycle(p, t)
           B == [v \in S |-> VerifierWrites(t, v)]
           Z == [v \in S |-> {Receipt(t, v, "pass")}]
           s == SetToSeq(S)
           Y == VerifiedSet(p)
<1>1. /\ B \in [S -> Seq(VerifiedSet(p))] /\ s \in Seq(S)
      /\ \A v \in S : \E n \in 1..Len(s) : s[n] = v
      /\ Verified(p, t) = Blocks(s, B)
  BY VerifiedIsBlocks
<1>2. ASSUME NEW v \in S, NEW r, RecordIsGood(p, r, whole), Extends(record, r),
             r.held = record.held
      PROVE  \E next : Adds(p, r, B[v], whole, next) /\ Z[v] \subseteq next.receipts
  <2> DEFINE x == Receipt(t, v, "pass")
             e == Event("evidence", t, "none", 0)
  <2>1. x.result = "pass" /\ x.task = t
    BY DEF Receipt
  <2>2. e \in EventSet /\ e.kind = "evidence" /\ e.task = t /\ e.at = 0
    <3>1. e \in EventSet
      BY EventType
    <3> QED
      BY <3>1 DEF Event
  <2> HIDE DEF x, e
  <2>3. PICK middle : Adds(p, r, <<Write("receipt", x)>>, whole, middle) /\ x \in middle.receipts
    <3>1. record.trail \in Seq(EventSet) /\ r.trail \in Seq(EventSet)
      BY <1>2 DEF RecordIsGood
    <3>2. Has(r.trail, "terminal", t)
      BY <1>2, <3>1, HasOn
    <3> QED
      BY <1>2, <2>1, <3>2, AddsReceipt
  <2>4. /\ RecordIsGood(p, middle, whole) /\ middle.held = record.held
        /\ \A u : Mentioned(r.trail, u) => Mentioned(middle.trail, u)
    BY <1>2, <2>3, AddsEnd
  <2>5. whole => Mentioned(middle.trail, t)
    <3>1. Len(record.trail) \in Nat /\ Len(r.trail) \in Nat
      BY <1>2 DEF RecordIsGood
    <3>2. Mentioned(record.trail, t) => Mentioned(r.trail, t)
      BY <1>2, <3>1, ToldOn
    <3>3. DOMAIN record.trail = 1..Len(record.trail)
      BY DEF RecordIsGood
    <3>4. Mentioned(record.trail, t)
      BY <3>3 DEF Has, Mentioned
    <3> QED
      BY <2>4, <3>2, <3>4
  <2>6. MayBeAdded(middle, e, whole)
    <3>1. IsPast(middle.held, e)
      BY <2>2, <2>4 DEF IsPast
    <3> QED
      BY <2>2, <2>5, <3>1 DEF MayBeAdded
  <2>7. PICK next : Adds(p, middle, <<Write("event", e)>>, whole, next)
    BY <2>4, <2>6, AddsEvent
  <2>8. Adds(p, r, <<Write("receipt", x)>> \o <<Write("event", e)>>, whole, next)
    BY <2>3, <2>7, AddsOn
  <2>9. <<Write("receipt", x)>> \o <<Write("event", e)>> = VerifierWrites(t, v)
    <3> DEFINE a == Write("receipt", x)
               b == Write("event", e)
    <3> HIDE DEF a, b
    <3>1. <<a>> \o <<b>> = <<a, b>>
      <4> DEFINE L == <<a>> \o <<b>>
                 R == <<a, b>>
      <4>1. <<a>> \in Seq({a, b}) /\ Len(<<a>>) = 1 /\ <<a>>[1] = a
            /\ <<b>> \in Seq({a, b}) /\ Len(<<b>>) = 1 /\ <<b>>[1] = b
        OBVIOUS
      <4>2. L \in Seq({a, b}) /\ Len(L) = 2 /\ L[1] = a /\ L[2] = b
        BY <4>1
      <4>3. R \in Seq({a, b}) /\ Len(R) = 2 /\ R[1] = a /\ R[2] = b
        OBVIOUS
      <4> HIDE DEF L, R
      <4>4. \A n \in 1..2 : L[n] = R[n]
        BY <4>2, <4>3
      <4>5. L = R
        BY <4>2, <4>3, <4>4, SeqEqual
      <4> QED
        BY <4>5 DEF L, R
    <3> QED
      BY <3>1 DEF VerifierWrites, a, b, x, e
  <2>10. x \in next.receipts
    <3>1. middle.receipts \subseteq next.receipts
      BY <2>4, <2>7, AddsEnd
    <3> QED
      BY <2>3, <3>1
  <2> QED
    BY <2>8, <2>9, <2>10 DEF x
<1>5. \A v \in S : \A r :
        RecordIsGood(p, r, whole) /\ Extends(record, r) /\ r.held = record.held =>
          \E next : Adds(p, r, B[v], whole, next) /\ Z[v] \subseteq next.receipts
  BY <1>2
<1> HIDE DEF B, Z, S, s
<1>6. B \in [S -> Seq(Y)] /\ s \in Seq(S)
  BY <1>1 DEF Y
<1> HIDE DEF Y
<1>7. \E next : /\ Adds(p, record, Blocks(s, B), whole, next)
                /\ \A n \in 1..Len(s) : Z[s[n]] \subseteq next.receipts
  BY <1>5, <1>6, AddsBlocks
<1>3. PICK next : /\ Adds(p, record, Blocks(s, B), whole, next)
                  /\ \A n \in 1..Len(s) : Z[s[n]] \subseteq next.receipts
  BY <1>7
<1>4. \A v \in S : Receipt(t, v, "pass") \in next.receipts
  <2> TAKE v \in S
  <2>1. PICK n \in 1..Len(s) : s[n] = v
    BY <1>1
  <2>2. Z[v] \subseteq next.receipts
    BY <1>3, <2>1
  <2> QED
    BY <2>2 DEF Z
<1> QED
  BY <1>1, <1>3, <1>4 DEF S

(* The receipts of every child-terminal of the trail. *)
LEMMA ReverifiedAdds ==
  ASSUME NEW whole, LifecycleIsFinite(plan), NEW record, RecordIsGood(plan, record, whole)
  PROVE  \E next : Adds(plan, record, Reverified(record), whole, next)
<1> DEFINE trail == record.trail
           X == {trail[n] : n \in 1..Len(trail)}
           Y == VerifiedSet(plan)
           Ends(e) == e.kind = "terminal" /\ e.task # NoTask /\ Bound(record.held, e.task)
           B == [e \in X |-> IF Ends(e) THEN Verified(plan, e.task) ELSE <<>>]
           Z == [e \in X |-> {}]
<1>1. /\ trail \in Seq(EventSet) /\ Len(trail) \in Nat /\ DOMAIN trail = 1..Len(trail)
      /\ \A n \in 1..Len(trail) : trail[n] \in EventSet
  BY DEF RecordIsGood
<1>2. \A e \in X : e \in EventSet /\ (e.task # NoTask => e.task \in Tasks)
  BY <1>1 DEF EventSet
<1>3. \A t \in Tasks : Verified(plan, t) \in Seq(Y)
  <2> TAKE t \in Tasks
  <2> DEFINE S == Lifecycle(plan, t)
             V == [v \in S |-> VerifierWrites(t, v)]
             s == SetToSeq(S)
             blocks == [n \in 1..Len(s) |-> V[s[n]]]
  <2>1. V \in [S -> Seq(Y)] /\ s \in Seq(S) /\ Verified(plan, t) = Blocks(s, V)
    BY VerifiedIsBlocks
  <2> HIDE DEF V, s, S, Y
  <2>2. \A n \in 1..Len(s) : V[s[n]] \in Seq(Y)
    BY <2>1
  <2>3. Len(s) \in Nat
    BY <2>1
  <2>4. blocks \in Seq(Seq(Y))
    BY <2>2, <2>3
  <2> QED
    BY <2>1, <2>4, FlattenType DEF Blocks
<1>4. B \in [X -> Seq(Y)]
  <2>1. \A e \in X : (IF Ends(e) THEN Verified(plan, e.task) ELSE <<>>) \in Seq(Y)
    <3> TAKE e \in X
    <3>1. CASE Ends(e)
      <4>1. e.task \in Tasks
        BY <1>2, <3>1
      <4> HIDE DEF X, Y
      <4> QED
        BY <1>3, <3>1, <4>1
    <3>2. CASE ~Ends(e)
      BY <3>2
    <3> QED
      BY <3>1, <3>2
  <2> HIDE DEF X, Y, Ends
  <2> QED
    BY <2>1
<1>5. ASSUME NEW e \in X, NEW r, RecordIsGood(plan, r, whole), Extends(record, r),
             r.held = record.held
      PROVE  \E next : Adds(plan, r, B[e], whole, next) /\ Z[e] \subseteq next.receipts
  <2>1. CASE Ends(e)
    <3>1. e.task \in Tasks /\ Bound(r.held, e.task)
      BY <1>2, <1>5, <2>1
    <3>2. Has(r.trail, "terminal", e.task)
      <4>1. PICK n \in 1..Len(trail) : trail[n] = e
        OBVIOUS
      <4>2. Has(trail, "terminal", e.task)
        BY <1>1, <2>1, <4>1 DEF Has
      <4>3. r.trail \in Seq(EventSet)
        BY <1>5 DEF RecordIsGood
      <4> QED
        BY <1>1, <1>5, <4>2, <4>3, HasOn
    <3>3. \E next : Adds(plan, r, Verified(plan, e.task), whole, next)
      BY <1>5, <3>1, <3>2, VerifiedAdds
    <3>4. B[e] = Verified(plan, e.task) /\ Z[e] = {}
      BY <2>1
    <3> QED
      BY <3>3, <3>4
  <2>2. CASE ~Ends(e)
    <3>1. B[e] = <<>> /\ Z[e] = {}
      BY <2>2
    <3> QED
      BY <1>5, <3>1, AddsNone
  <2> QED
    BY <2>1, <2>2
<1>6. Reverified(record) = Blocks(trail, B)
  <2>1. \A n \in 1..Len(trail) :
          B[trail[n]] = IF Ends(trail[n]) THEN Verified(plan, trail[n].task) ELSE <<>>
    OBVIOUS
  <2>2. Reverified(record)
          = FlattenSeq([n \in 1..Len(trail) |->
              IF Ends(trail[n]) THEN Verified(plan, trail[n].task) ELSE <<>>])
    BY <1>1 DEF Reverified
  <2> HIDE DEF B, Ends
  <2>3. [n \in 1..Len(trail) |-> IF Ends(trail[n]) THEN Verified(plan, trail[n].task) ELSE <<>>]
          = [n \in 1..Len(trail) |-> B[trail[n]]]
    BY <2>1
  <2> QED
    BY <2>2, <2>3 DEF Blocks
<1>7. trail \in Seq(X)
  BY <1>1
<1> HIDE DEF X, Y, B, Z, Ends
<1>8. \E next : /\ Adds(plan, record, Blocks(trail, B), whole, next)
                /\ \A n \in 1..Len(trail) : Z[trail[n]] \subseteq next.receipts
  <2> HIDE DEF trail
  <2> QED
    BY <1>4, <1>5, <1>7, AddsBlocks
<1> QED
  BY <1>6, <1>8

-----------------------------------------------------------------------------
(* What follows a held execution.                                          *)

Bare(held, s) == [held EXCEPT !.snapshot = s]

LEMMA HeldFields ==
  ASSUME NEW held \in HeldSet
  PROVE  /\ DOMAIN held = {"snapshot", "began", "ended"} /\ held.snapshot \in SnapshotSet
         /\ held.began \in [Tasks -> Int] /\ held.ended \in [Tasks -> Int]
         /\ DOMAIN held.snapshot = {"status", "cancelling", "attempts"}
         /\ held.snapshot.status \in ExecutionStatus \cup {"absent"}
         /\ held.snapshot.cancelling \in BOOLEAN
         /\ held.snapshot.attempts \in [Tasks -> AttemptLists]
  BY DEF HeldSet, SnapshotSet

LEMMA BareFields ==
  ASSUME NEW held \in HeldSet, NEW s \in SnapshotSet
  PROVE  /\ Bare(held, s) \in HeldSet /\ Bare(held, s).snapshot = s
         /\ Bare(held, s).began = held.began /\ Bare(held, s).ended = held.ended
  BY DEF HeldSet, Bare

(* What depends on the snapshot alone. *)
LEMMA SameSnapshot ==
  ASSUME NEW a, NEW b, a.snapshot = b.snapshot
  PROVE  /\ \A t : /\ StatusOf(a, t) = StatusOf(b, t) /\ (Bound(a, t) <=> Bound(b, t))
                   /\ (Over(a, t) <=> Over(b, t)) /\ (Published(a, t) <=> Published(b, t))
         /\ HeldIsSound(a) <=> HeldIsSound(b)
  BY DEF StatusOf, Bound, Over, Published, HeldIsSound

LEMMA AtFields ==
  ASSUME NEW held \in HeldSet, NEW s \in SnapshotSet, NEW now \in Nat
  PROVE  LET next == At(held, s, now)
         IN  /\ next \in HeldSet /\ next.snapshot = s
             /\ \A t \in Tasks :
                  /\ next.began[t] =
                       IF held.began[t] = Unset /\ StatusOf(Bare(held, s), t) \notin {"none", "starting"}
                       THEN now ELSE held.began[t]
                  /\ next.ended[t] =
                       IF held.ended[t] = Unset /\ Over(Bare(held, s), t)
                       THEN now ELSE held.ended[t]
<1> DEFINE bare == Bare(held, s)
           B == [t \in Tasks |->
                   IF held.began[t] = Unset /\ StatusOf(bare, t) \notin {"none", "starting"}
                   THEN now ELSE held.began[t]]
           E == [t \in Tasks |->
                   IF held.ended[t] = Unset /\ Over(bare, t) THEN now ELSE held.ended[t]]
<1>1. At(held, s, now) = [bare EXCEPT !.began = B, !.ended = E]
  BY DEF At, Bare
<1>2. bare \in HeldSet /\ bare.snapshot = s /\ bare.began = held.began /\ bare.ended = held.ended
  BY BareFields
<1>3. B \in [Tasks -> Int] /\ E \in [Tasks -> Int]
  <2>1. /\ \A t \in Tasks : held.began[t] \in Int /\ held.ended[t] \in Int
    BY HeldFields
  <2> HIDE DEF bare
  <2> QED
    BY <2>1
<1>4. /\ \A t \in Tasks : B[t] = IF held.began[t] = Unset /\ StatusOf(bare, t) \notin {"none", "starting"}
                              THEN now ELSE held.began[t]
      /\ \A t \in Tasks : E[t] = IF held.ended[t] = Unset /\ Over(bare, t) THEN now ELSE held.ended[t]
  OBVIOUS
<1> DEFINE next == [bare EXCEPT !.began = B, !.ended = E]
<1> HIDE DEF bare, B, E
<1>5. next \in HeldSet /\ next.snapshot = s /\ next.began = B /\ next.ended = E
  BY <1>2, <1>3 DEF HeldSet
<1> HIDE DEF next
<1>6. At(held, s, now) = next
  BY <1>1 DEF next
<1> QED
  BY <1>4, <1>5, <1>6 DEF bare

LEMMA AtFacts ==
  ASSUME NEW held \in HeldSet, NEW s \in SnapshotSet, NEW now \in Nat, HeldIsTimed(held, now),
         NEW at \in 0..now, GoesOn(held, Bare(held, s))
  PROVE  LET next == At(held, s, at)
         IN  /\ HeldIsTimed(next, now) /\ GoesOn(held, next)
             /\ \A t \in Tasks :
                  /\ held.began[t] # Unset => next.began[t] = held.began[t]
                  /\ held.ended[t] # Unset => next.ended[t] = held.ended[t]
<1> DEFINE bare == Bare(held, s)
           next == At(held, s, at)
<1>1. bare \in HeldSet /\ bare.snapshot = s
  BY BareFields
<1>2. /\ next \in HeldSet /\ next.snapshot = s
      /\ \A t \in Tasks :
           /\ next.began[t] =
                IF held.began[t] = Unset /\ StatusOf(bare, t) \notin {"none", "starting"}
                THEN at ELSE held.began[t]
           /\ next.ended[t] =
                IF held.ended[t] = Unset /\ Over(bare, t)
                THEN at ELSE held.ended[t]
  <2>1. at \in Nat
    OBVIOUS
  <2> QED
    BY <2>1, AtFields
<1>3. GoesOn(held, bare)
  OBVIOUS
<1> HIDE DEF bare, next
<1>4. \A t \in Tasks : /\ StatusOf(next, t) = StatusOf(bare, t) /\ (Bound(next, t) <=> Bound(bare, t))
                       /\ (Over(next, t) <=> Over(bare, t)) /\ (Published(next, t) <=> Published(bare, t))
  BY <1>1, <1>2, SameSnapshot
<1>5. \A t \in Tasks :
        /\ held.began[t] # Unset => next.began[t] = held.began[t]
        /\ held.ended[t] # Unset => next.ended[t] = held.ended[t]
  BY <1>2
<1>6. GoesOn(held, next)
  BY <1>1, <1>2, <1>3, <1>4, <1>5 DEF GoesOn
<1>7. at # Unset /\ at \in {Unset} \cup 0..now
  BY DEF Unset
<1>8. ASSUME NEW t \in Tasks
      PROVE  /\ next.began[t] \in {Unset} \cup 0..now
             /\ next.ended[t] \in {Unset} \cup 0..now
             /\ Over(next, t) <=> next.ended[t] # Unset
             /\ ~Bound(next, t) => next.began[t] = Unset
             /\ StatusOf(next, t) \notin {"none", "starting", "unknown"} => next.began[t] # Unset
  <2>1. /\ held.began[t] \in {Unset} \cup 0..now
        /\ held.ended[t] \in {Unset} \cup 0..now
        /\ Over(held, t) <=> held.ended[t] # Unset
        /\ ~Bound(held, t) => held.began[t] = Unset
        /\ StatusOf(held, t) \notin {"none", "starting", "unknown"} => held.began[t] # Unset
    BY DEF HeldIsTimed
  <2>2. /\ Bound(held, t) => Bound(bare, t)
        /\ Over(held, t) => StatusOf(bare, t) = StatusOf(held, t)
    BY <1>1, <1>3, GoesOnFacts
  <2>3. Bound(bare, t) <=> StatusOf(bare, t) # "none"
    BY <1>1, HeldFacts, RankFacts
  <2>4. /\ next.began[t] \in {Unset} \cup 0..now
        /\ next.ended[t] \in {Unset} \cup 0..now
    BY <1>2, <1>7, <2>1
  <2>5. Over(next, t) <=> next.ended[t] # Unset
    <3>1. held.ended[t] # Unset => Over(bare, t)
      BY <2>1, <2>2 DEF Over
    <3> QED
      BY <1>2, <1>4, <1>7, <3>1
  <2>6. ~Bound(next, t) => next.began[t] = Unset
    BY <1>2, <1>4, <2>1, <2>2, <2>3
  <2>7. StatusOf(next, t) \notin {"none", "starting", "unknown"} => next.began[t] # Unset
    BY <1>2, <1>4, <1>7
  <2> QED
    BY <2>4, <2>5, <2>6, <2>7
<1>9. HeldIsTimed(next, now)
  BY <1>8 DEF HeldIsTimed
<1> QED
  BY <1>5, <1>6, <1>9 DEF next

(* Nothing new is bound. *)
SameBound(held, next) == \A t \in Tasks : Bound(next, t) => Bound(held, t)

LEMMA StaysOrdered ==
  ASSUME NEW p, Planned(p), NEW held \in HeldSet, NEW next \in HeldSet,
         NEW now \in Nat, HeldIsTimed(held, now),
         HeldIsOrdered(p, held), GoesOn(held, next), SameBound(held, next)
  PROVE  HeldIsOrdered(p, next)
<1> SUFFICES ASSUME NEW t \in Tasks, Bound(next, t)
             PROVE  /\ next.began[t] # Unset
                    /\ \A d \in Deps(Named(p.tasks, t)) :
                         StatusOf(next, d) = "completed" /\ next.ended[d] <= next.began[t]
  BY DEF HeldIsOrdered
<1>1. /\ Bound(held, t) /\ held.began[t] # Unset
      /\ \A d \in Deps(Named(p.tasks, t)) :
           StatusOf(held, d) = "completed" /\ held.ended[d] <= held.began[t]
  BY DEF HeldIsOrdered, SameBound
<1>2. next.began[t] = held.began[t]
  BY <1>1 DEF GoesOn
<1>3. ASSUME NEW d \in Deps(Named(p.tasks, t))
      PROVE  StatusOf(next, d) = "completed" /\ next.ended[d] <= next.began[t]
  <2>1. d \in Tasks
    BY DEF Planned
  <2>2. StatusOf(held, d) = "completed" /\ Over(held, d)
    BY <1>1 DEF Over, TerminalAttempt
  <2>3. StatusOf(next, d) = "completed"
    BY <2>1, <2>2, GoesOnFacts
  <2>4. held.ended[d] # Unset
    BY <2>1, <2>2 DEF HeldIsTimed
  <2>5. next.ended[d] = held.ended[d]
    BY <2>1, <2>4 DEF GoesOn
  <2> QED
    BY <1>1, <1>2, <2>3, <2>5
<1> QED
  BY <1>1, <1>2, <1>3

(* The next one binds nothing new: it is good, and may be persisted.       *)
LEMMA PassesAt ==
  ASSUME NEW p, Planned(p), NEW record, NEW whole, Len(record.trail) \in Nat,
         NEW held, HeldIsGood(p, held, Len(record.trail), whole),
         NEW s \in SnapshotSet, NEW at \in 0..Len(record.trail),
         GoesOn(held, Bare(held, s)), SameBound(held, Bare(held, s)), HeldIsSound(Bare(held, s)),
         whole => \A t \in Tasks : StatusOf(Bare(held, s), t) = "completed" => Evidence(p, record, t)
  PROVE  Passes(p, record, held, At(held, s, at), whole)
<1> DEFINE bare == Bare(held, s)
           next == At(held, s, at)
           now == Len(record.trail)
<1>1. held \in HeldSet /\ (whole => HeldIsOrdered(p, held))
      /\ HeldIsTimed(held, now) /\ now \in Nat /\ at \in 0..now /\ at \in Nat
  BY DEF HeldIsGood
<1>2. bare \in HeldSet /\ bare.snapshot = s /\ next \in HeldSet /\ next.snapshot = s
  BY <1>1, BareFields, AtFields
<1> HIDE DEF now
<1>3. HeldIsTimed(next, now) /\ GoesOn(held, next)
  BY <1>1, AtFacts
<1> HIDE DEF bare, next
<1>4. /\ \A t : /\ StatusOf(next, t) = StatusOf(bare, t) /\ (Bound(next, t) <=> Bound(bare, t))
      /\ HeldIsSound(next) <=> HeldIsSound(bare)
  BY <1>2, SameSnapshot
<1>5. SameBound(held, next) /\ HeldIsSound(next)
  BY <1>4 DEF SameBound, bare
<1>6. whole => HeldIsOrdered(p, next)
  BY <1>1, <1>2, <1>3, <1>5, StaysOrdered
<1>7. HeldIsGood(p, next, now, whole)
  BY <1>2, <1>3, <1>5, <1>6 DEF HeldIsGood
<1>8. HeldIsGood(p, next, Len(record.trail), whole)
  BY <1>7 DEF now
<1>9. whole => \A t \in Tasks :
        /\ Bound(next, t) /\ ~Bound(held, t) => StatusOf(next, t) = "starting"
        /\ StatusOf(next, t) = "completed" => Evidence(p, record, t)
  BY <1>4, <1>5 DEF SameBound, bare
<1> QED
  BY <1>3, <1>8, <1>9 DEF Passes, next

(* The attempt of a task stays or goes on, and keeps its Agent. *)
AttemptGoesOn(old, new) ==
  \/ new = old
  \/ \E a \in AttemptSet, b \in AttemptSet :
       /\ old = <<a>> /\ new = <<b>> /\ a.agent \in {b.agent, NoAgent}
       /\ a.status = b.status \/ Rank(a.status) < Rank(b.status)

StatusGoesOn(old, new) ==
  /\ old.status = new.status \/ ExecutionRank(old.status) < ExecutionRank(new.status)
  /\ old.cancelling => new.cancelling
  /\ new.cancelling => old.cancelling \/ new.status = "stopping"

AgentsAreNamed == \A t \in Tasks : AgentOf(t) \in Agents /\ TaskOf[AgentOf(t)] = t

LEMMA AgentFacts == AgentsAreNamed
<1> SUFFICES ASSUME NEW t \in Tasks
             PROVE  AgentOf(t) \in Agents /\ TaskOf[AgentOf(t)] = t
  BY DEF AgentsAreNamed
<1>1. \E c \in Agents : TaskOf[c] = t
  BY EveryTaskHasAnAgent
<1> QED
  BY <1>1 DEF AgentOf

LEMMA SnapshotGoesOn ==
  ASSUME NEW held \in HeldSet, NEW s \in SnapshotSet, StatusGoesOn(held.snapshot, s),
         \A t \in Tasks : AttemptGoesOn(held.snapshot.attempts[t], s.attempts[t])
  PROVE  GoesOn(held, Bare(held, s)) /\ SameBound(held, Bare(held, s))
<1> DEFINE bare == Bare(held, s)
<1>1. bare \in HeldSet /\ bare.snapshot = s /\ bare.began = held.began /\ bare.ended = held.ended
  BY BareFields
<1> HIDE DEF bare
<1>2. ASSUME NEW t \in Tasks
      PROVE  /\ \/ StatusOf(held, t) = StatusOf(bare, t)
                \/ Rank(StatusOf(held, t)) < Rank(StatusOf(bare, t))
             /\ Published(held, t) => Published(bare, t)
             /\ Bound(bare, t) => Bound(held, t)
  <2>1. CASE s.attempts[t] = held.snapshot.attempts[t]
    BY <1>1, <2>1 DEF StatusOf, Published, Bound
  <2>2. CASE s.attempts[t] # held.snapshot.attempts[t]
    <3>1. PICK a \in AttemptSet, b \in AttemptSet :
            /\ held.snapshot.attempts[t] = <<a>> /\ s.attempts[t] = <<b>>
            /\ a.agent \in {b.agent, NoAgent}
            /\ a.status = b.status \/ Rank(a.status) < Rank(b.status)
      BY <2>2 DEF AttemptGoesOn
    <3>2. /\ <<a>> # <<>> /\ <<b>> # <<>> /\ Len(<<a>>) = 1 /\ Len(<<b>>) = 1
          /\ <<a>>[1] = a /\ <<b>>[1] = b
      OBVIOUS
    <3>3. StatusOf(held, t) = a.status /\ StatusOf(bare, t) = b.status /\ Bound(held, t) /\ Bound(bare, t)
      BY <1>1, <3>1, <3>2 DEF StatusOf, Bound
    <3>4. AgentOf(t) # NoAgent
      BY AgentFacts, NoAgentIsNone DEF AgentsAreNamed
    <3>5. Published(held, t) => Published(bare, t)
      BY <1>1, <3>1, <3>2, <3>3, <3>4 DEF Published
    <3> QED
      BY <3>1, <3>3, <3>5
  <2> QED
    BY <2>1, <2>2
<1>3. SameBound(held, bare)
  BY <1>2 DEF SameBound
<1>4. GoesOn(held, bare)
  BY <1>1, <1>2 DEF GoesOn, StatusGoesOn
<1> QED
  BY <1>3, <1>4 DEF bare

-----------------------------------------------------------------------------
(* What the tracker makes of one attempt. *)

LEMMA SettleLastFacts ==
  ASSUME NEW list \in AttemptLists, NEW status \in TerminalAttempt
  PROVE  /\ SettleLast(list, status) \in AttemptLists
         /\ AttemptGoesOn(list, SettleLast(list, status))
         /\ list # <<>> => \E a \in AttemptSet :
              list = <<a>> /\ SettleLast(list, status)
                = IF a.status \in TerminalAttempt THEN list ELSE <<[a EXCEPT !.status = status]>>
<1>1. CASE list = <<>>
  BY <1>1 DEF SettleLast, AttemptGoesOn, AttemptLists
<1>2. CASE list # <<>>
  <2>1. PICK a \in AttemptSet : list = <<a>>
    BY <1>2 DEF AttemptLists
  <2> DEFINE b == [a EXCEPT !.status = status]
  <2>2. Len(list) = 1 /\ list[1] = a
    BY <2>1
  <2>3. b \in AttemptSet /\ b.agent = a.agent /\ b.status = status
    BY RankFacts DEF AttemptSet
  <2>4. [list EXCEPT ![1].status = status] = <<b>>
    BY <2>1, <2>2
  <2> HIDE DEF b
  <2>5. CASE a.status \in TerminalAttempt
    <3>1. SettleLast(list, status) = list
      BY <2>2, <2>5 DEF SettleLast, Live
    <3> QED
      BY <2>1, <2>5, <3>1 DEF AttemptGoesOn
  <2>6. CASE a.status \notin TerminalAttempt
    <3>1. SettleLast(list, status) = <<b>>
      BY <1>2, <2>2, <2>4, <2>6 DEF SettleLast, Live
    <3>2. <<b>> \in AttemptLists
      BY <2>3 DEF AttemptLists
    <3>3. Rank(a.status) < Rank(b.status)
      <4>1. a.status \in Reached
        BY DEF AttemptSet
      <4>2. Rank(a.status) \in 0..3 /\ Rank(a.status) # 3 /\ Rank(b.status) = 3
        BY <2>3, <2>6, <4>1, RankFacts
      <4> QED
        BY <4>2
    <3>4. AttemptGoesOn(list, <<b>>)
      BY <2>1, <2>3, <3>3 DEF AttemptGoesOn
    <3> QED
      BY <2>1, <2>6, <3>1, <3>2, <3>4 DEF b
  <2> QED
    BY <2>5, <2>6
<1> QED
  BY <1>1, <1>2

(* markAttemptRunning and markAttemptFinished of the Agent of the attempt. *)
LEMMA MarkListFacts ==
  ASSUME NEW a \in AttemptSet, NEW c \in Agents, a.agent = c, NEW status \in Reached,
         Rank(a.status) < Rank(status)
  PROVE  /\ MarkList(<<a>>, c, status) = <<[agent |-> c, status |-> status]>>
         /\ <<[agent |-> c, status |-> status]>> \in AttemptLists
         /\ AttemptGoesOn(<<a>>, <<[agent |-> c, status |-> status]>>)
<1> DEFINE list == <<a>>
           mine == [agent |-> c, status |-> status]
<1>1. Len(list) = 1 /\ list[1] = a
  OBVIOUS
<1>2. [list EXCEPT ![1] = mine] = <<mine>>
  OBVIOUS
<1>3. mine \in AttemptSet /\ mine.status = status /\ mine.agent = c
  BY DEF AttemptSet
<1>4. Live(a)
  <2>1. a.status \in Reached
    BY DEF AttemptSet
  <2>2. Rank(a.status) # 3
    BY <2>1, RankFacts
  <2> QED
    BY <2>2, RankFacts DEF Live
<1> HIDE DEF list, mine
<1>5. BindingsFor(list, c) = {1}
  BY <1>1 DEF BindingsFor
<1>6. (CHOOSE n \in BindingsFor(list, c) : \A m \in BindingsFor(list, c) : m <= n) = 1
  BY <1>5
<1>7. MarkList(list, c, status) = <<mine>>
  BY <1>1, <1>2, <1>4, <1>5, <1>6 DEF MarkList, mine
<1>8. <<mine>> \in AttemptLists
  BY <1>3 DEF AttemptLists
<1>9. AttemptGoesOn(list, <<mine>>)
  BY <1>3 DEF AttemptGoesOn, list
<1> QED
  BY <1>7, <1>8, <1>9 DEF list, mine

LEMMA InterruptedListFacts ==
  ASSUME NEW list \in AttemptLists
  PROVE  InterruptedList(list) \in AttemptLists /\ AttemptGoesOn(list, InterruptedList(list))
<1> DEFINE new == InterruptedList(list)
<1>1. CASE list = <<>>
  <2>1. new = <<>>
    BY <1>1 DEF InterruptedList
  <2> QED
    BY <1>1, <2>1 DEF AttemptGoesOn
<1>2. CASE list # <<>>
  <2>1. PICK a \in AttemptSet : list = <<a>>
    BY <1>2 DEF AttemptLists
  <2> DEFINE b == IF Live(a) THEN [a EXCEPT !.status = "unknown"] ELSE a
  <2>2. Len(list) = 1 /\ list[1] = a
    BY <2>1
  <2>3. b \in AttemptSet /\ b.agent = a.agent /\ b.status = IF Live(a) THEN "unknown" ELSE a.status
    BY DEF AttemptSet, Reached, TerminalAttempt
  <2>4. new = <<b>>
    <3>1. InterruptedList(list) = [n \in 1..1 |-> b]
      BY <2>2 DEF InterruptedList
    <3> QED
      BY <3>1
  <2> HIDE DEF new, b
  <2>5. <<b>> \in AttemptLists
    BY <2>3 DEF AttemptLists
  <2>6. a.status = b.status \/ Rank(a.status) < Rank(b.status)
    <3>1. CASE Live(a)
      <4>1. a.status \in Reached /\ a.status \notin TerminalAttempt
        BY <3>1 DEF AttemptSet, Live
      <4>2. Rank(a.status) \in 0..3 /\ Rank(a.status) # 3 /\ Rank(b.status) = 3
        BY <2>3, <3>1, <4>1, RankFacts DEF TerminalAttempt
      <4> QED
        BY <4>2
    <3> QED
      BY <2>3, <3>1
  <2>7. AttemptGoesOn(list, <<b>>)
    BY <2>1, <2>3, <2>6 DEF AttemptGoesOn
  <2> QED
    BY <2>4, <2>5, <2>7 DEF new
<1> QED
  BY <1>1, <1>2

-----------------------------------------------------------------------------
(* What a running execution passes through.                                *)

ChainedFrom(p, record, held, helds, whole) ==
  \A k \in 1..Len(helds) :
    \/ helds[k] = Previous(held, helds, k)
    \/ Passes(p, record, Previous(held, helds, k), helds[k], whole)

(* A held execution whose engine runs. *)
IsRunning(p, record, held, whole) ==
  /\ HeldIsGood(p, held, Len(record.trail), whole)
  /\ held.snapshot.status \in {"running", "stopping"}
  /\ whole => \A t \in Tasks : StatusOf(held, t) = "completed" => Evidence(p, record, t)

Leads(p, record, held, helds, whole) ==
  /\ helds \in Seq(HeldSet)
  /\ ChainedFrom(p, record, held, helds, whole)
  /\ IsRunning(p, record, HeldAfter(held, helds), whole)

LEMMA LeadsNone ==
  ASSUME NEW p, NEW record, NEW held, NEW whole, IsRunning(p, record, held, whole)
  PROVE  Leads(p, record, held, <<>>, whole) /\ HeldAfter(held, <<>>) = held
<1>1. <<>> \in Seq(HeldSet) /\ 1..Len(<<>>) = {}
  OBVIOUS
<1>2. HeldAfter(held, <<>>) = held
  BY DEF HeldAfter
<1>3. ChainedFrom(p, record, held, <<>>, whole)
  BY <1>1 DEF ChainedFrom
<1> QED
  BY <1>1, <1>2, <1>3 DEF Leads

LEMMA ChainedOn ==
  ASSUME NEW p, NEW record, NEW held, NEW whole, NEW a \in Seq(HeldSet), NEW b \in Seq(HeldSet),
         ChainedFrom(p, record, held, a, whole),
         ChainedFrom(p, record, HeldAfter(held, a), b, whole)
  PROVE  /\ ChainedFrom(p, record, held, a \o b, whole) /\ a \o b \in Seq(HeldSet)
         /\ HeldAfter(held, a \o b) = HeldAfter(HeldAfter(held, a), b)
<1> DEFINE c == a \o b
           M == Len(a)
           middle == HeldAfter(held, a)
<1>1. /\ c \in Seq(HeldSet) /\ Len(c) = M + Len(b) /\ M \in Nat /\ Len(b) \in Nat
      /\ \A i \in 1..M : i \in 1..Len(c) /\ c[i] = a[i]
      /\ \A i \in 1..Len(b) : M + i \in 1..Len(c) /\ c[M + i] = b[i]
      /\ \A i \in 1..Len(c) :
           i \in 1..M \/ (i - M \in 1..Len(b) /\ i = M + (i - M))
  <2>1. Len(a) \in Nat /\ Len(b) \in Nat
    OBVIOUS
  <2> QED
    BY <2>1, ConcatAt
<1> HIDE DEF c
<1>2. (a = <<>> <=> M = 0) /\ (b = <<>> <=> Len(b) = 0) /\ (c = <<>> <=> Len(c) = 0)
  BY <1>1
<1> HIDE DEF M
<1>3. middle = IF M = 0 THEN held ELSE a[M]
  BY <1>2 DEF HeldAfter, M
<1>4. ASSUME NEW i \in 1..M
      PROVE  Previous(held, c, i) = Previous(held, a, i) /\ c[i] = a[i]
  <2>1. i # 1 => i - 1 \in 1..M
    BY <1>1
  <2> QED
    BY <1>1, <2>1 DEF Previous
<1>5. ASSUME NEW i \in 1..Len(b)
      PROVE  Previous(held, c, M + i) = Previous(middle, b, i) /\ c[M + i] = b[i]
  <2>1. c[M + i] = b[i]
    BY <1>1
  <2>2. CASE i = 1 /\ M = 0
    <3>1. M + i = 1
      BY <2>2
    <3> QED
      BY <1>3, <2>1, <2>2, <3>1 DEF Previous
  <2>3. CASE i = 1 /\ M # 0
    <3>1. M + i # 1 /\ (M + i) - 1 = M /\ M \in 1..M
      BY <1>1, <2>3
    <3>2. Previous(held, c, M + i) = c[M]
      BY <3>1 DEF Previous
    <3>3. c[M] = a[M]
      BY <1>1, <3>1
    <3> QED
      BY <1>3, <2>1, <2>3, <3>2, <3>3 DEF Previous
  <2>4. CASE i # 1
    <3>1. i - 1 \in 1..Len(b) /\ M + i # 1 /\ (M + i) - 1 = M + (i - 1)
      BY <1>1, <2>4
    <3>2. Previous(held, c, M + i) = c[M + (i - 1)]
      BY <3>1 DEF Previous
    <3>3. c[M + (i - 1)] = b[i - 1]
      BY <1>1, <3>1
    <3> QED
      BY <2>1, <2>4, <3>2, <3>3 DEF Previous
  <2> QED
    BY <2>2, <2>3, <2>4
<1>6. ASSUME NEW i \in 1..Len(c)
      PROVE  \/ c[i] = Previous(held, c, i)
             \/ Passes(p, record, Previous(held, c, i), c[i], whole)
  <2>1. CASE i \in 1..M
    <3>1. i \in 1..Len(a)
      BY <2>1 DEF M
    <3>2. a[i] = Previous(held, a, i) \/ Passes(p, record, Previous(held, a, i), a[i], whole)
      BY <3>1 DEF ChainedFrom
    <3> QED
      BY <1>4, <2>1, <3>2
  <2>2. CASE i \notin 1..M
    <3> DEFINE j == i - M
    <3>1. j \in 1..Len(b) /\ i = M + j
      BY <1>1, <2>2
    <3> HIDE DEF j
    <3>2. b[j] = Previous(middle, b, j) \/ Passes(p, record, Previous(middle, b, j), b[j], whole)
      BY <3>1 DEF ChainedFrom
    <3> QED
      BY <1>5, <3>1, <3>2
  <2> QED
    BY <2>1, <2>2
<1>7. ChainedFrom(p, record, held, c, whole)
  BY <1>6 DEF ChainedFrom
<1>8. HeldAfter(held, c) = HeldAfter(middle, b)
  <2>1. CASE Len(b) = 0
    <3>1. Len(c) = M
      BY <1>1, <2>1
    <3>2. M # 0 => M \in 1..M
      BY <1>1
    <3> QED
      BY <1>1, <1>2, <1>3, <2>1, <3>1, <3>2 DEF HeldAfter
  <2>2. CASE Len(b) # 0
    <3>1. Len(c) # 0 /\ Len(b) \in 1..Len(b) /\ Len(c) = M + Len(b)
      BY <1>1, <2>2
    <3>2. c[Len(c)] = b[Len(b)]
      BY <1>1, <3>1
    <3> QED
      BY <1>2, <2>2, <3>1, <3>2 DEF HeldAfter
  <2> QED
    BY <2>1, <2>2
<1> QED
  BY <1>1, <1>7, <1>8 DEF c

LEMMA LeadsOn ==
  ASSUME NEW p, NEW record, NEW held, NEW whole, NEW a, NEW b,
         Leads(p, record, held, a, whole), Leads(p, record, HeldAfter(held, a), b, whole)
  PROVE  /\ Leads(p, record, held, a \o b, whole)
         /\ HeldAfter(held, a \o b) = HeldAfter(HeldAfter(held, a), b)
<1>1. /\ ChainedFrom(p, record, held, a \o b, whole) /\ a \o b \in Seq(HeldSet)
      /\ HeldAfter(held, a \o b) = HeldAfter(HeldAfter(held, a), b)
  BY ChainedOn DEF Leads
<1> QED
  BY <1>1 DEF Leads

LEMMA ChainedOne ==
  ASSUME NEW p, NEW record, NEW held, NEW whole, NEW next \in HeldSet,
         next = held \/ Passes(p, record, held, next, whole)
  PROVE  /\ <<next>> \in Seq(HeldSet) /\ ChainedFrom(p, record, held, <<next>>, whole)
         /\ HeldAfter(held, <<next>>) = next
<1> DEFINE one == <<next>>
<1>1. one \in Seq(HeldSet) /\ Len(one) = 1 /\ one[1] = next /\ one # <<>>
  OBVIOUS
<1> HIDE DEF one
<1>2. HeldAfter(held, one) = next
  BY <1>1 DEF HeldAfter
<1>3. ChainedFrom(p, record, held, one, whole)
  <2>1. Previous(held, one, 1) = held
    BY DEF Previous
  <2>2. \A k \in 1..Len(one) : k = 1
    BY <1>1
  <2> QED
    BY <1>1, <2>1, <2>2 DEF ChainedFrom
<1> QED
  BY <1>1, <1>2, <1>3 DEF one

LEMMA LeadsOne ==
  ASSUME NEW p, NEW record, NEW held, NEW whole, NEW next,
         next = held \/ Passes(p, record, held, next, whole), IsRunning(p, record, next, whole)
  PROVE  Leads(p, record, held, <<next>>, whole) /\ HeldAfter(held, <<next>>) = next
<1>1. next \in HeldSet
  BY DEF IsRunning, HeldIsGood
<1> QED
  BY <1>1, ChainedOne DEF Leads

(* A running execution goes on without a new attempt. *)
LEMMA RunsAt ==
  ASSUME NEW p, Planned(p), NEW record, NEW whole, Len(record.trail) \in Nat,
         NEW held, IsRunning(p, record, held, whole), NEW at \in 0..Len(record.trail),
         NEW s \in SnapshotSet, StatusGoesOn(held.snapshot, s),
         s.status \in {"running", "stopping"}, s.status = "stopping" => s.cancelling,
         \A t \in Tasks : AttemptGoesOn(held.snapshot.attempts[t], s.attempts[t]),
         whole => \A t \in Tasks :
           StatusOf(Bare(held, s), t) = "completed" => Evidence(p, record, t)
  PROVE  LET next == At(held, s, at)
         IN  /\ Passes(p, record, held, next, whole) /\ IsRunning(p, record, next, whole)
             /\ next.snapshot = s
<1> DEFINE now == Len(record.trail)
           next == At(held, s, at)
<1>1. /\ HeldIsGood(p, held, now, whole) /\ held \in HeldSet /\ HeldIsTimed(held, now)
  BY DEF IsRunning, HeldIsGood
<1>2. GoesOn(held, Bare(held, s)) /\ SameBound(held, Bare(held, s))
  BY <1>1, SnapshotGoesOn
<1>3. Bare(held, s).snapshot = s
  BY <1>1, BareFields
<1>4. HeldIsSound(Bare(held, s))
  BY <1>3 DEF HeldIsSound
<1>5. Passes(p, record, held, next, whole)
  <2> DEFINE good == HeldIsGood(p, held, Len(record.trail), whole)
             bare == Bare(held, s)
  <2>2. good
    BY <1>1
  <2>3. GoesOn(held, bare) /\ SameBound(held, bare) /\ HeldIsSound(bare)
    BY <1>2, <1>4
  <2> HIDE DEF now
  <2> QED
    BY <2>2, <2>3, PassesAt
<1>6. next.snapshot = s
  <2>1. at \in Nat
    OBVIOUS
  <2> QED
    BY <1>1, <2>1, AtFields
<1> HIDE DEF next
<1>7. HeldIsGood(p, next, now, whole)
  BY <1>5 DEF Passes
<1>8. \A t \in Tasks : StatusOf(next, t) = StatusOf(Bare(held, s), t)
  BY <1>3, <1>6, SameSnapshot
<1>9. IsRunning(p, record, next, whole)
  BY <1>6, <1>7, <1>8 DEF IsRunning
<1> QED
  BY <1>5, <1>6, <1>9 DEF next

(* What a new attempt needs of the execution it is one of. *)
MayMaterialize(p, held, t, c, at, now, whole) ==
  /\ t \in Tasks /\ ~Bound(held, t) /\ c \in Agents \cup {NoAgent}
  /\ at \in {Unset} \cup 0..now
  /\ whole => /\ at # Unset
              /\ \A d \in Deps(Named(p.tasks, t)) : StatusOf(held, d) = "completed"

MaterializedAs(held, next, t, c, at) ==
  /\ next \in HeldSet
  /\ next.snapshot.status = held.snapshot.status
  /\ next.snapshot.cancelling = held.snapshot.cancelling
  /\ next.snapshot.attempts
       = [held.snapshot.attempts EXCEPT ![t] = <<[agent |-> c, status |-> "starting"]>>]
  /\ next.began = [held.began EXCEPT ![t] = at] /\ next.ended = held.ended
  /\ StatusOf(next, t) = "starting" /\ Bound(next, t)
  /\ \A u \in Tasks \ {t} :
       /\ StatusOf(next, u) = StatusOf(held, u)
       /\ (Bound(next, u) <=> Bound(held, u)) /\ (Over(next, u) <=> Over(held, u))
       /\ (Published(next, u) <=> Published(held, u))
       /\ next.began[u] = held.began[u]

LEMMA MaterializedFields ==
  ASSUME NEW held \in HeldSet, NEW t \in Tasks, NEW c \in Agents \cup {NoAgent}, NEW at \in Int
  PROVE  MaterializedAs(held, Materialized(held, t, c, at), t, c, at)
<1> DEFINE next == Materialized(held, t, c, at)
           mine == [agent |-> c, status |-> "starting"]
<1>1. /\ DOMAIN held = {"snapshot", "began", "ended"} /\ held.snapshot \in SnapshotSet
      /\ held.began \in [Tasks -> Int] /\ held.ended \in [Tasks -> Int]
      /\ DOMAIN held.snapshot = {"status", "cancelling", "attempts"}
      /\ held.snapshot.status \in ExecutionStatus \cup {"absent"}
      /\ held.snapshot.cancelling \in BOOLEAN
      /\ held.snapshot.attempts \in [Tasks -> AttemptLists]
  BY HeldFields
<1>2. mine \in AttemptSet /\ mine.status = "starting"
  BY DEF AttemptSet, Reached
<1>3. <<mine>> \in AttemptLists
  BY <1>2 DEF AttemptLists
<1> DEFINE lists == [held.snapshot.attempts EXCEPT ![t] = <<mine>>]
           s == [held.snapshot EXCEPT !.attempts = lists]
           B == [held.began EXCEPT ![t] = at]
<1>4. next = [held EXCEPT !.snapshot = s, !.began = B]
  BY <1>1 DEF Materialized
<1> HIDE DEF mine
<1>5. /\ lists \in [Tasks -> AttemptLists] /\ lists[t] = <<mine>>
      /\ \A u \in Tasks \ {t} : lists[u] = held.snapshot.attempts[u]
  BY <1>1, <1>3
<1>6. B \in [Tasks -> Int] /\ \A u \in Tasks \ {t} : B[u] = held.began[u]
  BY <1>1
<1> HIDE DEF lists, B
<1>7. /\ s \in SnapshotSet /\ s.status = held.snapshot.status
      /\ s.cancelling = held.snapshot.cancelling /\ s.attempts = lists
  BY <1>1, <1>5 DEF SnapshotSet
<1> HIDE DEF s
<1>8. /\ next \in HeldSet /\ next.snapshot = s /\ next.began = B /\ next.ended = held.ended
  BY <1>1, <1>4, <1>6, <1>7 DEF HeldSet
<1> HIDE DEF next
<1>9. Len(<<mine>>) = 1 /\ <<mine>>[1] = mine /\ <<mine>> # <<>>
  OBVIOUS
<1>10. StatusOf(next, t) = "starting" /\ Bound(next, t)
  BY <1>2, <1>5, <1>7, <1>8, <1>9 DEF StatusOf, Bound
<1>11. ASSUME NEW u \in Tasks \ {t}
       PROVE  /\ StatusOf(next, u) = StatusOf(held, u)
              /\ (Bound(next, u) <=> Bound(held, u)) /\ (Over(next, u) <=> Over(held, u))
              /\ (Published(next, u) <=> Published(held, u))
              /\ next.began[u] = held.began[u]
  BY <1>5, <1>6, <1>7, <1>8 DEF StatusOf, Bound, Over, Published
<1>12. MaterializedAs(held, next, t, c, at)
  BY <1>7, <1>8, <1>10, <1>11 DEF MaterializedAs, mine, lists, B
<1> QED
  BY <1>12 DEF next

LEMMA RunsMaterialized ==
  ASSUME NEW p, Planned(p), NEW record, NEW whole, Len(record.trail) \in Nat,
         NEW held, IsRunning(p, record, held, whole), NEW t, NEW c, NEW at,
         MayMaterialize(p, held, t, c, at, Len(record.trail), whole),
         whole => at = Len(record.trail)
  PROVE  LET next == Materialized(held, t, c, at)
         IN  Passes(p, record, held, next, whole) /\ IsRunning(p, record, next, whole)
<1> DEFINE now == Len(record.trail)
           next == Materialized(held, t, c, at)
           mine == [agent |-> c, status |-> "starting"]
<1>1. /\ HeldIsGood(p, held, now, whole) /\ held \in HeldSet /\ HeldIsTimed(held, now)
      /\ held.snapshot.status \in {"running", "stopping"} /\ HeldIsSound(held)
      /\ whole => HeldIsOrdered(p, held)
  BY DEF IsRunning, HeldIsGood
<1>2. /\ t \in Tasks /\ ~Bound(held, t) /\ c \in Agents \cup {NoAgent}
      /\ at \in {Unset} \cup 0..now /\ at \in Int
  BY DEF MayMaterialize, Unset
<1> HIDE DEF now
<1>3. /\ next \in HeldSet
      /\ next.snapshot.status = held.snapshot.status
      /\ next.snapshot.cancelling = held.snapshot.cancelling
      /\ next.began = [held.began EXCEPT ![t] = at] /\ next.ended = held.ended
      /\ StatusOf(next, t) = "starting" /\ Bound(next, t)
      /\ \A u \in Tasks \ {t} :
           /\ StatusOf(next, u) = StatusOf(held, u)
           /\ (Bound(next, u) <=> Bound(held, u)) /\ (Over(next, u) <=> Over(held, u))
           /\ (Published(next, u) <=> Published(held, u))
           /\ next.began[u] = held.began[u]
  <2>1. held \in HeldSet /\ t \in Tasks /\ c \in Agents \cup {NoAgent} /\ at \in Int
    BY <1>1, <1>2
  <2>2. MaterializedAs(held, next, t, c, at)
    BY <2>1, MaterializedFields
  <2> HIDE DEF next
  <2> QED
    BY <2>2 DEF MaterializedAs
<1> USE DEF now
<1> HIDE DEF next
<1>4. StatusOf(held, t) = "none" /\ ~Over(held, t) /\ ~Over(next, t)
  <2>1. StatusOf(held, t) = "none"
    BY <1>1, <1>2, HeldFacts
  <2> QED
    BY <1>3, <2>1 DEF Over, TerminalAttempt
<1>5. held.began[t] = Unset /\ held.ended[t] = Unset /\ next.began[t] = at
  BY <1>1, <1>2, <1>3, <1>4, HeldFields DEF HeldIsTimed
<1>6. GoesOn(held, next)
  <2>1. ASSUME NEW u \in Tasks
        PROVE  /\ \/ StatusOf(held, u) = StatusOf(next, u)
                  \/ Rank(StatusOf(held, u)) < Rank(StatusOf(next, u))
               /\ Published(held, u) => Published(next, u)
               /\ held.began[u] # Unset => next.began[u] = held.began[u]
               /\ held.ended[u] # Unset => next.ended[u] = held.ended[u]
    <3>1. CASE u = t
      <4>1. Rank(StatusOf(held, t)) < Rank(StatusOf(next, t))
        BY <1>3, <1>4, RankFacts
      <4>2. ~Published(held, t)
        BY <1>2 DEF Published
      <4> QED
        BY <1>5, <3>1, <4>1, <4>2
    <3>2. CASE u # t
      BY <1>3, <3>2
    <3> QED
      BY <3>1, <3>2
  <2> QED
    BY <1>3, <2>1 DEF GoesOn
<1>7. HeldIsTimed(next, now)
  <2> SUFFICES ASSUME NEW u \in Tasks
               PROVE  /\ next.began[u] \in {Unset} \cup 0..now
                      /\ next.ended[u] \in {Unset} \cup 0..now
                      /\ Over(next, u) <=> next.ended[u] # Unset
                      /\ ~Bound(next, u) => next.began[u] = Unset
                      /\ StatusOf(next, u) \notin {"none", "starting", "unknown"} =>
                           next.began[u] # Unset
    BY DEF HeldIsTimed
  <2>1. CASE u = t
    BY <1>1, <1>2, <1>3, <1>4, <1>5, <2>1 DEF HeldIsTimed
  <2>2. CASE u # t
    BY <1>1, <1>3, <2>2 DEF HeldIsTimed
  <2> QED
    BY <2>1, <2>2
<1>8. HeldIsSound(next)
  BY <1>1, <1>3 DEF HeldIsSound
<1>9. ASSUME whole
      PROVE  HeldIsOrdered(p, next)
  <2> SUFFICES ASSUME NEW u \in Tasks, Bound(next, u)
               PROVE  /\ next.began[u] # Unset
                      /\ \A d \in Deps(Named(p.tasks, u)) :
                           StatusOf(next, d) = "completed" /\ next.ended[d] <= next.began[u]
    BY DEF HeldIsOrdered
  <2>1. ASSUME NEW d \in Tasks, StatusOf(held, d) = "completed"
        PROVE  d # t /\ StatusOf(next, d) = "completed" /\ next.ended[d] = held.ended[d]
               /\ held.ended[d] \in 0..now
    <3>1. d # t
      BY <1>4, <2>1
    <3>2. Over(held, d)
      BY <2>1 DEF Over, TerminalAttempt
    <3> QED
      BY <1>1, <1>3, <2>1, <3>1, <3>2 DEF HeldIsTimed
  <2>2. Deps(Named(p.tasks, u)) \subseteq Tasks
    BY DEF Planned
  <2>3. CASE u = t
    <3>1. at # Unset /\ at = now /\ \A d \in Deps(Named(p.tasks, t)) : StatusOf(held, d) = "completed"
      BY <1>9 DEF MayMaterialize
    <3> QED
      BY <1>5, <2>1, <2>2, <2>3, <3>1
  <2>4. CASE u # t
    <3>1. Bound(held, u) /\ next.began[u] = held.began[u]
      BY <1>3, <2>4
    <3>2. /\ held.began[u] # Unset
          /\ \A d \in Deps(Named(p.tasks, u)) :
               StatusOf(held, d) = "completed" /\ held.ended[d] <= held.began[u]
      BY <1>1, <1>9, <3>1 DEF HeldIsOrdered
    <3> QED
      BY <2>1, <2>2, <3>1, <3>2
  <2> QED
    BY <2>3, <2>4
<1>10. HeldIsGood(p, next, now, whole)
  BY <1>3, <1>7, <1>8, <1>9 DEF HeldIsGood
<1>11. whole => \A u \in Tasks :
         /\ Bound(next, u) /\ ~Bound(held, u) => StatusOf(next, u) = "starting"
         /\ StatusOf(next, u) = "completed" => Evidence(p, record, u)
  <2>1. ASSUME whole, NEW u \in Tasks, StatusOf(next, u) = "completed"
        PROVE  Evidence(p, record, u)
    <3>1. u # t
      BY <1>3, <2>1
    <3> QED
      BY <1>3, <2>1, <3>1 DEF IsRunning
  <2> QED
    BY <1>3, <2>1
<1>12. Passes(p, record, held, next, whole)
  BY <1>6, <1>10, <1>11 DEF Passes
<1>13. IsRunning(p, record, next, whole)
  BY <1>1, <1>3, <1>10, <1>11 DEF IsRunning
<1> QED
  BY <1>12, <1>13 DEF next

(* What was bound stays bound, and what was over stays over. *)
Keeps(held, next) ==
  \A t \in Tasks : /\ Bound(held, t) => Bound(next, t)
                   /\ Over(held, t) => Over(next, t)

LEMMA PassesKeeps ==
  ASSUME NEW p, NEW record, NEW whole, NEW held \in HeldSet, NEW next,
         next = held \/ Passes(p, record, held, next, whole)
  PROVE  Keeps(held, next)
<1>1. CASE next = held
  BY <1>1 DEF Keeps
<1>2. CASE Passes(p, record, held, next, whole)
  <2>1. next \in HeldSet /\ GoesOn(held, next)
    BY <1>2 DEF Passes, HeldIsGood
  <2>2. \A t \in Tasks : /\ Bound(held, t) => Bound(next, t)
                         /\ Over(held, t) => StatusOf(next, t) = StatusOf(held, t)
    BY <2>1, GoesOnFacts
  <2> QED
    BY <2>2 DEF Keeps, Over
<1> QED
  BY <1>1, <1>2

(* A running execution gets its last attempt of a task settled. *)
LEMMA RunsSettled ==
  ASSUME NEW p, Planned(p), NEW record, NEW whole, Len(record.trail) \in Nat,
         NEW held, IsRunning(p, record, held, whole), NEW t \in Tasks,
         NEW status \in TerminalAttempt, NEW at \in 0..Len(record.trail),
         whole => Over(held, t) \/ status # "completed"
  PROVE  LET s == [held.snapshot EXCEPT !.attempts[t] = SettleLast(@, status)]
             next == At(held, s, at)
         IN  Passes(p, record, held, next, whole) /\ IsRunning(p, record, next, whole)
<1> DEFINE list == held.snapshot.attempts[t]
           new == SettleLast(list, status)
           lists == [held.snapshot.attempts EXCEPT ![t] = new]
           s == [held.snapshot EXCEPT !.attempts = lists]
<1>0. held \in HeldSet
  BY DEF IsRunning, HeldIsGood
<1>1. /\ held.snapshot \in SnapshotSet
      /\ DOMAIN held.snapshot = {"status", "cancelling", "attempts"}
      /\ held.snapshot.attempts \in [Tasks -> AttemptLists]
      /\ held.snapshot.status \in {"running", "stopping"}
      /\ held.snapshot.status = "stopping" => held.snapshot.cancelling
  BY <1>0, HeldFields DEF IsRunning, HeldIsGood, HeldIsSound
<1>2. /\ list \in AttemptLists /\ new \in AttemptLists /\ AttemptGoesOn(list, new)
      /\ list # <<>> => \E a \in AttemptSet :
           list = <<a>> /\ new = IF a.status \in TerminalAttempt THEN list
                                 ELSE <<[a EXCEPT !.status = status]>>
  <2>1. list \in AttemptLists
    BY <1>1
  <2> HIDE DEF list
  <2> QED
    BY <2>1, SettleLastFacts
<1>3. s = [held.snapshot EXCEPT !.attempts[t] = SettleLast(@, status)]
  BY <1>1
<1> HIDE DEF new
<1>4. /\ lists \in [Tasks -> AttemptLists] /\ lists[t] = new
      /\ \A u \in Tasks \ {t} : lists[u] = held.snapshot.attempts[u]
  BY <1>1, <1>2
<1> HIDE DEF lists
<1>5. /\ s \in SnapshotSet /\ s.status = held.snapshot.status
      /\ s.cancelling = held.snapshot.cancelling /\ s.attempts = lists
  BY <1>1, <1>4 DEF SnapshotSet
<1> HIDE DEF s
<1>6. \A u \in Tasks : AttemptGoesOn(held.snapshot.attempts[u], s.attempts[u])
  <2> TAKE u \in Tasks
  <2>1. CASE u = t
    BY <1>2, <1>4, <1>5, <2>1
  <2>2. CASE u # t
    BY <1>4, <1>5, <2>2 DEF AttemptGoesOn
  <2> QED
    BY <2>1, <2>2
<1>7. ASSUME whole, NEW u \in Tasks, StatusOf(Bare(held, s), u) = "completed"
      PROVE  StatusOf(held, u) = "completed"
  <2>1. Bare(held, s).snapshot = s
    BY <1>0, <1>5, BareFields
  <2>2. CASE s.attempts[u] = held.snapshot.attempts[u]
    BY <1>7, <2>1, <2>2 DEF StatusOf
  <2>3. CASE s.attempts[u] # held.snapshot.attempts[u]
    <3>1. u = t /\ new # list
      BY <1>4, <1>5, <2>3
    <3>2. list # <<>>
      BY <3>1, SettleLastFacts DEF new, SettleLast
    <3>3. PICK a \in AttemptSet : /\ list = <<a>> /\ a.status \notin TerminalAttempt
                                  /\ new = <<[a EXCEPT !.status = status]>>
      BY <1>2, <3>1, <3>2
    <3> DEFINE b == [a EXCEPT !.status = status]
    <3>4. b.status = status
      BY DEF AttemptSet
    <3> HIDE DEF b
    <3>5. /\ new = <<b>> /\ <<b>> # <<>> /\ Len(<<b>>) = 1 /\ <<b>>[1] = b
          /\ <<a>> # <<>> /\ Len(<<a>>) = 1 /\ <<a>>[1] = a
      BY <3>3 DEF b
    <3>6. StatusOf(Bare(held, s), t) = status
      BY <1>4, <1>5, <2>1, <3>4, <3>5 DEF StatusOf
    <3>7. StatusOf(held, t) = a.status
      BY <3>3, <3>5 DEF StatusOf
    <3>8. ~Over(held, t)
      BY <3>3, <3>7 DEF Over
    <3> QED
      BY <1>7, <3>1, <3>6, <3>8
  <2> QED
    BY <2>2, <2>3
<1>8. whole => \A u \in Tasks : StatusOf(Bare(held, s), u) = "completed" => Evidence(p, record, u)
  BY <1>7 DEF IsRunning
<1>9. StatusGoesOn(held.snapshot, s)
  BY <1>5 DEF StatusGoesOn
<1>10. Passes(p, record, held, At(held, s, at), whole)
       /\ IsRunning(p, record, At(held, s, at), whole)
  BY <1>1, <1>5, <1>6, <1>8, <1>9, RunsAt
<1> QED
  BY <1>3, <1>10

LEMMA MarksLead ==
  ASSUME NEW whole, Planned(plan), Len(store.trail) \in Nat, Now \in 0..Len(store.trail),
         NEW held, IsRunning(plan, store, held, whole), NEW t \in Tasks,
         NEW status \in TerminalAttempt,
         whole => /\ Bound(held, t) \/ status = "skipped"
                  /\ Over(held, t) \/ status # "completed"
  PROVE  /\ Leads(plan, store, held, Marks(held, t, status), whole)
         /\ Keeps(held, HeldAfter(held, Marks(held, t, status)))
<1> DEFINE open == IF Bound(held, t) THEN held ELSE Materialized(held, t, NoAgent, Unset)
           s == [open.snapshot EXCEPT !.attempts[t] = SettleLast(@, status)]
           over == At(open, s, Now)
<1>0. held \in HeldSet
  BY DEF IsRunning, HeldIsGood
<1>1. Marks(held, t, status) = IF ~Bound(held, t) /\ status = "skipped" THEN <<>> ELSE <<open, over>>
  BY DEF Marks
<1>2. CASE ~Bound(held, t) /\ status = "skipped"
  <2>1. Marks(held, t, status) = <<>>
    BY <1>1, <1>2
  <2>2. Keeps(held, held)
    BY DEF Keeps
  <2> QED
    BY <2>1, <2>2, LeadsNone
<1>3. CASE Bound(held, t) \/ status # "skipped"
  <2>1. /\ open = held \/ Passes(plan, store, held, open, whole)
        /\ IsRunning(plan, store, open, whole)
    <3>1. CASE Bound(held, t)
      BY <3>1
    <3>2. CASE ~Bound(held, t)
      <4>1. ~whole
        BY <1>3, <3>2
      <4>2. MayMaterialize(plan, held, t, NoAgent, Unset, Len(store.trail), whole)
        BY <3>2, <4>1 DEF MayMaterialize
      <4>3. open = Materialized(held, t, NoAgent, Unset)
        BY <3>2
      <4> HIDE DEF open
      <4> QED
        BY <4>1, <4>2, <4>3, RunsMaterialized
    <3> QED
      BY <3>1, <3>2
  <2>2. whole => Over(open, t) \/ status # "completed"
    <3>1. Keeps(held, open)
      BY <1>0, <2>1, PassesKeeps
    <3> QED
      BY <3>1 DEF Keeps
  <2> HIDE DEF open
  <2>3. Passes(plan, store, open, over, whole) /\ IsRunning(plan, store, over, whole)
    BY <2>1, <2>2, RunsSettled
  <2> HIDE DEF over, s
  <2>4. Leads(plan, store, held, <<open>>, whole) /\ HeldAfter(held, <<open>>) = open
    BY <2>1, LeadsOne
  <2>5. Leads(plan, store, open, <<over>>, whole) /\ HeldAfter(open, <<over>>) = over
    BY <2>3, LeadsOne
  <2>6. /\ Leads(plan, store, held, <<open>> \o <<over>>, whole)
        /\ HeldAfter(held, <<open>> \o <<over>>) = over
    BY <2>4, <2>5, LeadsOn
  <2>7. <<open>> \o <<over>> = <<open, over>>
    <3>1. open \in HeldSet /\ over \in HeldSet
      BY <2>1, <2>3 DEF IsRunning, HeldIsGood
    <3>2. <<open>> \in Seq(HeldSet) /\ <<over>> \in Seq(HeldSet)
          /\ Len(<<open>>) = 1 /\ Len(<<over>>) = 1 /\ <<open>>[1] = open /\ <<over>>[1] = over
      BY <3>1
    <3> DEFINE L == <<open>> \o <<over>>
               R == <<open, over>>
    <3>3. L \in Seq(HeldSet) /\ Len(L) = 2 /\ L[1] = open /\ L[2] = over
      BY <3>2
    <3>4. R \in Seq(HeldSet) /\ Len(R) = 2 /\ R[1] = open /\ R[2] = over
      BY <3>1
    <3> HIDE DEF L, R
    <3>5. \A n \in 1..2 : L[n] = R[n]
      BY <3>3, <3>4
    <3>6. L = R
      BY <3>3, <3>4, <3>5, SeqEqual
    <3> QED
      BY <3>6 DEF L, R
  <2>8. Keeps(held, over)
    <3>1. open \in HeldSet
      BY <2>1 DEF IsRunning, HeldIsGood
    <3>2. Keeps(held, open) /\ Keeps(open, over)
      BY <1>0, <2>1, <2>3, <3>1, PassesKeeps
    <3> QED
      BY <3>2 DEF Keeps
  <2>9. Marks(held, t, status) = <<open, over>>
    BY <1>1, <1>3 DEF open, over, s
  <2> QED
    BY <2>6, <2>7, <2>8, <2>9
<1> QED
  BY <1>2, <1>3

MarksUpTo(held, statuses) ==
  CHOOSE helds : helds = [n \in 0..Len(plan.tasks) |->
    IF n = 0 THEN <<held>>
    ELSE helds[n - 1] \o Marks(Last(helds[n - 1]), plan.tasks[n].id, statuses[plan.tasks[n].id])]

LEMMA MarksUnfold ==
  ASSUME NEW held, NEW statuses, Len(plan.tasks) \in Nat
  PROVE  LET A == MarksUpTo(held, statuses)
         IN  /\ A[0] = <<held>>
             /\ \A n \in 1..Len(plan.tasks) :
                  A[n] = A[n - 1] \o Marks(Last(A[n - 1]), plan.tasks[n].id,
                                           statuses[plan.tasks[n].id])
             /\ MarkAll(held, statuses) = A[Len(plan.tasks)]
<1> DEFINE N == Len(plan.tasks)
           more(s, n) == s \o Marks(Last(s), plan.tasks[n].id, statuses[plan.tasks[n].id])
           Upto(k, f) == f = [n \in 0..k |-> IF n = 0 THEN <<held>> ELSE more(f[n - 1], n)]
           Q == {k \in Nat : \E f : Upto(k, f)}
<1>a. \A s, n : s \o Marks(Last(s), plan.tasks[n].id, statuses[plan.tasks[n].id]) = more(s, n)
  OBVIOUS
<1>1. 0 \in Q
  <2> DEFINE f == [n \in 0..0 |-> <<held>>]
  <2>1. Upto(0, f)
    <3> HIDE DEF more
    <3> QED
      OBVIOUS
  <2> QED
    BY <2>1
<1>2. ASSUME NEW k \in Nat, k \in Q
      PROVE  k + 1 \in Q
  <2> HIDE DEF more
  <2>1. PICK f : Upto(k, f)
    BY <1>2
  <2> DEFINE last == more(f[k], k + 1)
             g == [n \in 0..(k + 1) |-> IF n = k + 1 THEN last ELSE f[n]]
  <2>2. /\ g[k] = f[k] /\ g[k + 1] = last /\ DOMAIN g = 0..(k + 1)
        /\ \A n \in 0..k : g[n] = f[n] /\ n # k + 1
    OBVIOUS
  <2>3. ASSUME NEW n \in 0..(k + 1)
        PROVE  g[n] = IF n = 0 THEN <<held>> ELSE more(g[n - 1], n)
    <3>1. CASE n = k + 1
      <4>1. n # 0 /\ n - 1 = k
        BY <3>1
      <4> HIDE DEF g
      <4> QED
        BY <2>2, <3>1, <4>1
    <3>2. CASE n \in 0..k
      <4>1. f[n] = IF n = 0 THEN <<held>> ELSE more(f[n - 1], n)
        <5> HIDE DEF g, last
        <5> QED
          BY <2>1, <3>2
      <4>2. g[n] = f[n] /\ (n # 0 => n - 1 \in 0..k /\ g[n - 1] = f[n - 1])
        <5> HIDE DEF g, last
        <5> QED
          BY <2>2, <3>2
      <4> HIDE DEF g, last
      <4> QED
        BY <4>1, <4>2
    <3> QED
      BY <3>1, <3>2
  <2>4. Upto(k + 1, g)
    <3>1. g = [n \in 0..(k + 1) |-> g[n]]
      OBVIOUS
    <3> HIDE DEF g, last
    <3> QED
      BY <2>3, <3>1
  <2> HIDE DEF Upto, g
  <2> QED
    BY <2>4
<1>3. \A k \in Nat : k \in Q
  <2> HIDE DEF Q
  <2> QED
    BY <1>1, <1>2, NumberInduction
<1>4. N \in Nat
  OBVIOUS
<1>5. PICK f : Upto(N, f)
  <2> HIDE DEF Upto, N
  <2>1. N \in Q
    BY <1>3, <1>4
  <2> QED
    BY <2>1
<1> DEFINE A == MarksUpTo(held, statuses)
<1>6. A = [n \in 0..N |-> IF n = 0 THEN <<held>> ELSE more(A[n - 1], n)]
  BY <1>5 DEF MarksUpTo
<1>7. MarkAll(held, statuses) = A[N]
  BY DEF MarkAll, MarksUpTo
<1> HIDE DEF A, more
<1>8. A[0] = <<held>> /\ \A n \in 1..N : A[n] = more(A[n - 1], n)
  <2>1. 0 \in 0..N /\ \A n \in 1..N : n \in 0..N /\ n # 0
    BY <1>4
  <2> HIDE DEF N
  <2> QED
    BY <1>6, <2>1
<1> QED
  BY <1>7, <1>8, <1>a DEF A, N

(* The list of what is passed through begins with what is held, and ends   *)
(* with a running execution.                                               *)
MayBeMarked(held, statuses, whole) ==
  \A t \in Tasks :
    /\ statuses[t] \in TerminalAttempt
    /\ whole => /\ Bound(held, t) \/ statuses[t] = "skipped"
                /\ Over(held, t) \/ statuses[t] # "completed"

LeadsFrom(held, helds, whole) ==
  /\ Leads(plan, store, held, helds, whole) /\ helds # <<>> /\ helds[1] = held
  /\ Last(helds) = HeldAfter(held, helds) /\ Keeps(held, Last(helds))

LEMMA MarkAllLeads ==
  ASSUME NEW whole, Planned(plan), Len(store.trail) \in Nat, Now \in 0..Len(store.trail),
         NEW held, IsRunning(plan, store, held, whole),
         NEW statuses, MayBeMarked(held, statuses, whole)
  PROVE  LeadsFrom(held, MarkAll(held, statuses), whole)
<1> DEFINE N == Len(plan.tasks)
           A == MarksUpTo(held, statuses)
           Q == {n \in Nat : n <= N => LeadsFrom(held, A[n], whole)}
<1>1. N \in Nat /\ DOMAIN plan.tasks = 1..N /\ IsPlan(plan) /\ Ids(plan.tasks) = Tasks
  BY PlanFacts DEF Planned
<1>2. /\ A[0] = <<held>>
      /\ \A n \in 1..N :
           A[n] = A[n - 1] \o Marks(Last(A[n - 1]), plan.tasks[n].id, statuses[plan.tasks[n].id])
      /\ MarkAll(held, statuses) = A[N]
  BY <1>1, MarksUnfold
<1> HIDE DEF A, N
<1>3. 0 \in Q
  <2>1. Leads(plan, store, held, <<held>>, whole) /\ HeldAfter(held, <<held>>) = held
    BY LeadsOne
  <2>2. <<held>> # <<>> /\ Last(<<held>>) = held /\ <<held>>[1] = held
    BY DEF Last
  <2>3. Keeps(held, held)
    BY DEF Keeps
  <2> QED
    BY <1>2, <2>1, <2>2, <2>3 DEF LeadsFrom
<1>4. ASSUME NEW n \in Nat, n \in Q
      PROVE  n + 1 \in Q
  <2> SUFFICES ASSUME n + 1 <= N
               PROVE  LeadsFrom(held, A[n + 1], whole)
    BY <1>4
  <2>1. LeadsFrom(held, A[n], whole) /\ n + 1 \in 1..N /\ (n + 1) - 1 = n
    BY <1>1, <1>4
  <2> DEFINE s == A[n]
             h == Last(s)
             t == plan.tasks[n + 1].id
             m == Marks(h, t, statuses[t])
             u == s \o m
  <2>2. A[n + 1] = u
    BY <1>2, <2>1
  <2>3. t \in Tasks
    BY <1>1, <2>1 DEF Ids
  <2>4. /\ Leads(plan, store, held, s, whole) /\ s # <<>> /\ s[1] = held
        /\ h = HeldAfter(held, s) /\ Keeps(held, h)
    BY <2>1 DEF LeadsFrom
  <2> HIDE DEF s, h, t
  <2>5. IsRunning(plan, store, h, whole)
    BY <2>4 DEF Leads
  <2>6. /\ statuses[t] \in TerminalAttempt
        /\ whole => /\ Bound(h, t) \/ statuses[t] = "skipped"
                    /\ Over(h, t) \/ statuses[t] # "completed"
    BY <2>3, <2>4 DEF MayBeMarked, Keeps
  <2>7. Leads(plan, store, h, m, whole) /\ Keeps(h, HeldAfter(h, m))
    BY <2>3, <2>5, <2>6, MarksLead
  <2> HIDE DEF m
  <2>8. Leads(plan, store, held, u, whole) /\ HeldAfter(held, u) = HeldAfter(h, m)
    BY <2>4, <2>7, LeadsOn
  <2>9. u # <<>> /\ u[1] = held
    <3>1. s \in Seq(HeldSet) /\ m \in Seq(HeldSet)
      BY <2>4, <2>7 DEF Leads
    <3>2. Len(u) = Len(s) + Len(m) /\ Len(s) # 0 /\ Len(s) \in Nat /\ Len(m) \in Nat
      BY <2>4, <3>1
    <3>3. u[1] = s[1]
      BY <3>1, <3>2
    <3> QED
      BY <2>4, <3>2, <3>3
  <2> HIDE DEF u
  <2>10. Last(u) = HeldAfter(held, u)
    BY <2>9 DEF Last, HeldAfter
  <2>11. Keeps(held, Last(u))
    BY <2>4, <2>7, <2>8, <2>10 DEF Keeps
  <2>12. Leads(plan, store, held, u, whole)
    BY <2>8
  <2> QED
    BY <2>2, <2>9, <2>10, <2>11, <2>12 DEF LeadsFrom
<1>5. \A n \in Nat : n \in Q
  <2> HIDE DEF Q
  <2> QED
    BY <1>3, <1>4, NumberInduction
<1> QED
  BY <1>1, <1>2, <1>5 DEF N

(* markUnsettledAttempts. *)
LEMMA SettleLeads ==
  ASSUME NEW whole, Planned(plan), Len(store.trail) \in Nat, Now \in 0..Len(store.trail),
         NEW held, IsRunning(plan, store, held, whole), NEW status \in {"cancelled", "unknown"}
  PROVE  LeadsFrom(held, Settle(held, status), whole)
<1> DEFINE statuses == [t \in Tasks |-> IF Bound(held, t) THEN status ELSE "skipped"]
<1>1. MayBeMarked(held, statuses, whole)
  BY DEF MayBeMarked, TerminalAttempt
<1> HIDE DEF statuses
<1>2. LeadsFrom(held, MarkAll(held, statuses), whole)
  BY <1>1, MarkAllLeads
<1> QED
  BY <1>2 DEF Settle, statuses

LEMMA LeadsFromOn ==
  ASSUME NEW held, NEW whole, NEW a, NEW b,
         LeadsFrom(held, a, whole), LeadsFrom(Last(a), b, whole)
  PROVE  LeadsFrom(held, a \o b, whole) /\ Last(a \o b) = Last(b)
<1>1. /\ Leads(plan, store, held, a, whole) /\ Leads(plan, store, HeldAfter(held, a), b, whole)
      /\ Last(b) = HeldAfter(HeldAfter(held, a), b) /\ Keeps(held, Last(a))
      /\ Keeps(Last(a), Last(b)) /\ b # <<>> /\ a[1] = held /\ a # <<>>
  BY DEF LeadsFrom
<1>2. Leads(plan, store, held, a \o b, whole) /\ HeldAfter(held, a \o b) = Last(b)
  BY <1>1, LeadsOn
<1>3. a \o b # <<>> /\ (a \o b)[1] = held
  <2>1. a \in Seq(HeldSet) /\ b \in Seq(HeldSet)
    BY <1>1 DEF Leads
  <2>2. Len(a \o b) = Len(a) + Len(b) /\ Len(a) # 0 /\ Len(a) \in Nat /\ Len(b) \in Nat
    BY <1>1, <2>1
  <2>3. (a \o b)[1] = a[1]
    BY <2>1, <2>2
  <2> QED
    BY <1>1, <2>2, <2>3
<1> DEFINE c == a \o b
<1> HIDE DEF c
<1>4. Last(c) = HeldAfter(held, c)
  BY <1>3 DEF Last, HeldAfter, c
<1>5. Keeps(held, Last(b))
  BY <1>1 DEF Keeps
<1> QED
  BY <1>2, <1>3, <1>4, <1>5 DEF LeadsFrom, c

-----------------------------------------------------------------------------
(* The end of an execution.                                                *)

LEMMA SucceededIsComplete ==
  ASSUME NEW held \in HeldSet, NEW stop, FinalStatus(held.snapshot, stop) = "succeeded"
  PROVE  \A t \in Tasks : StatusOf(held, t) = "completed"
<1> DEFINE s == held.snapshot
           ids == AttemptIds(s)
<1>1. /\ Cardinality(ids) = Cardinality(Tasks)
      /\ \A id \in ids : s.attempts[id[1]][id[2]].status = "completed"
  BY DEF FinalStatus, DeriveCompletionStatus
<1>2. /\ s.attempts \in [Tasks -> AttemptLists]
  BY HeldFields
<1> HIDE DEF s
<1>3. \A t \in Tasks : \/ s.attempts[t] = <<>> /\ DOMAIN s.attempts[t] = {}
                       \/ \E a \in AttemptSet : /\ s.attempts[t] = <<a>> /\ DOMAIN s.attempts[t] = {1}
                                                /\ Len(s.attempts[t]) = 1 /\ s.attempts[t] # <<>>
  <2> TAKE t \in Tasks
  <2>1. CASE s.attempts[t] = <<>>
    BY <2>1
  <2>2. CASE \E a \in AttemptSet : s.attempts[t] = <<a>>
    <3>1. PICK a \in AttemptSet : s.attempts[t] = <<a>>
      BY <2>2
    <3>2. DOMAIN <<a>> = {1} /\ Len(<<a>>) = 1 /\ <<a>> # <<>>
      <4>1. DOMAIN <<a>> = 1..1 /\ 1..1 = {1}
        OBVIOUS
      <4> QED
        BY <4>1
    <3> QED
      BY <3>1, <3>2
  <2> QED
    BY <1>2, <2>1, <2>2 DEF AttemptLists
<1>4. /\ \A id \in ids : id[1] \in Tasks /\ id[2] = 1 /\ id = <<id[1], 1>>
      /\ \A t \in Tasks : <<t, 1>> \in ids => 1 \in DOMAIN s.attempts[t]
  BY <1>3 DEF AttemptIds
<1> DEFINE f == [id \in ids |-> id[1]]
<1> HIDE DEF ids
<1>5. f \in Injection(ids, Tasks)
  <2>1. f \in [ids -> Tasks] /\ \A id \in ids : f[id] = id[1]
    BY <1>4
  <2> HIDE DEF f
  <2>2. DOMAIN f = ids
    BY <2>1
  <2>3. ASSUME NEW a \in ids, NEW b \in ids, f[a] = f[b]
        PROVE  a = b
    BY <1>4, <2>1, <2>3
  <2>4. IsInjective(f)
    BY <2>2, <2>3 DEF IsInjective
  <2> QED
    BY <2>1, <2>4 DEF Injection
<1>6. f \in Surjection(ids, Tasks)
  <2> HIDE DEF f
  <2> QED
    BY <1>1, <1>5, TasksFinite, FS_Injection
<1>7. \A t \in Tasks : \E id \in ids : f[id] = t
  BY <1>6 DEF Surjection
<1> SUFFICES ASSUME NEW t \in Tasks
             PROVE  StatusOf(held, t) = "completed"
  OBVIOUS
<1>8. PICK id \in ids : id[1] = t
  BY <1>7
<1>9. id[2] = 1 /\ <<t, 1>> \in ids
  BY <1>4, <1>8
<1>10. Len(s.attempts[t]) = 1 /\ s.attempts[t] # <<>>
  BY <1>3, <1>4, <1>9
<1>11. s.attempts[t][1].status = "completed"
  BY <1>1, <1>8, <1>9
<1> QED
  BY <1>10, <1>11 DEF StatusOf, s

LEMMA FinalStatusType ==
  ASSUME NEW s, NEW stop
  PROVE  FinalStatus(s, stop) \in TerminalExecution
  BY DEF FinalStatus, DeriveCompletionStatus, TerminalExecution

(* An execution that runs comes to its end. *)
LEMMA PassesEnd ==
  ASSUME NEW p, Planned(p), NEW record, NEW whole, Len(record.trail) \in Nat, NEW held,
         HeldIsGood(p, held, Len(record.trail), whole),
         held.snapshot.status \in {"queued", "running", "stopping"},
         whole => \A t \in Tasks : StatusOf(held, t) = "completed" => Evidence(p, record, t),
         NEW status \in TerminalExecution, NEW at \in 0..Len(record.trail),
         status = "succeeded" => \A t \in Tasks : StatusOf(held, t) = "completed"
  PROVE  LET next == At(held, Finish(held.snapshot, status), at)
         IN  /\ Passes(p, record, held, next, whole) /\ next \in HeldSet
             /\ next.snapshot.status = status
<1> DEFINE now == Len(record.trail)
           s == [held.snapshot EXCEPT !.status = status]
           next == At(held, s, at)
<1>1. Finish(held.snapshot, status) = s
  BY DEF Finish, Ended, TerminalExecution
<1>2. /\ held \in HeldSet /\ HeldIsTimed(held, now)
  BY DEF HeldIsGood
<1>3. /\ held.snapshot \in SnapshotSet
      /\ DOMAIN held.snapshot = {"status", "cancelling", "attempts"}
  BY <1>2, HeldFields
<1>4. /\ s \in SnapshotSet /\ s.status = status /\ s.cancelling = held.snapshot.cancelling
      /\ s.attempts = held.snapshot.attempts
  BY <1>3 DEF SnapshotSet, ExecutionStatus
<1> HIDE DEF s
<1>5. StatusGoesOn(held.snapshot, s)
  <2>1. ExecutionRank(held.snapshot.status) < ExecutionRank(s.status)
    BY <1>4, ExecutionRankFacts
  <2> QED
    BY <1>4, <2>1 DEF StatusGoesOn
<1>6. \A t \in Tasks : AttemptGoesOn(held.snapshot.attempts[t], s.attempts[t])
  BY <1>4 DEF AttemptGoesOn
<1>7. GoesOn(held, Bare(held, s)) /\ SameBound(held, Bare(held, s))
  BY <1>2, <1>4, <1>5, <1>6, SnapshotGoesOn
<1>8. Bare(held, s).snapshot = s
  BY <1>2, <1>4, BareFields
<1>9. \A t \in Tasks : StatusOf(Bare(held, s), t) = StatusOf(held, t)
  BY <1>4, <1>8 DEF StatusOf
<1>10. HeldIsSound(Bare(held, s))
  BY <1>4, <1>8, <1>9 DEF HeldIsSound, TerminalExecution
<1>11. whole => \A t \in Tasks :
         StatusOf(Bare(held, s), t) = "completed" => Evidence(p, record, t)
  BY <1>9
<1>12. Passes(p, record, held, next, whole)
  <2> DEFINE bare == Bare(held, s)
  <2>2. GoesOn(held, bare) /\ SameBound(held, bare) /\ HeldIsSound(bare)
    BY <1>7, <1>10
  <2> HIDE DEF now
  <2> QED
    BY <1>2, <1>4, <1>11, <2>2, PassesAt
<1>13. next \in HeldSet /\ next.snapshot = s
  <2>1. at \in Nat
    OBVIOUS
  <2> QED
    BY <1>2, <1>4, <2>1, AtFields
<1> HIDE DEF next
<1> QED
  BY <1>1, <1>4, <1>12, <1>13 DEF next

-----------------------------------------------------------------------------
(* The clock goes on, or the Agents are no longer all observed.            *)
LEMMA ClockStays ==
  ASSUME ClockIsKept, UNCHANGED behind, Len(store.trail) \in Nat, Len(store'.trail) \in Nat,
         Len(store.trail) <= Len(store'.trail), observed' => observed
  PROVE  ClockIsKept'
<1>1. behind' = behind /\ behind \in 0..Len(store.trail) /\ (observed => behind = 0)
  BY DEF ClockIsKept
<1>2. behind' \in 0..Len(store'.trail)
  BY <1>1
<1>3. observed' => behind' = 0
  BY <1>1
<1> QED
  BY <1>2, <1>3 DEF ClockIsKept

(* The time it shows. *)
LEMMA NowFacts ==
  ASSUME Recording
  PROVE  /\ Now \in 0..Len(store.trail) /\ Now \in Nat /\ Len(store.trail) \in Nat
         /\ observed => Now = Len(store.trail)
<1>1. store.trail \in Seq(EventSet) /\ behind \in 0..Len(store.trail) /\ (observed => behind = 0)
  BY DEF Recording, RecordIsGood, ClockIsKept
<1>2. Len(store.trail) \in Nat
  BY <1>1
<1> QED
  BY <1>1, <1>2 DEF Now

(* What a handler leaves behind, whether the host goes on or stops.        *)
LEMMA DoKeeps ==
  ASSUME Recording, NEW writes, NEW held, NEW next, NEW after, NEW record,
         Runs(plan, store, writes, observed, record), record.held = held, IsTold(record),
         Do(writes, held, next, after), UNCHANGED observed,
         after \in {"prepared", "running", "over", "restored"},
         after = "prepared" => observed /\ held = At(Nothing, Queued, 0),
         after = "running" => /\ held.snapshot.status \in {"running", "stopping"}
                              /\ AgentsAreHeld(next, held, observed)
  PROVE  Recording' /\ Extends(store, store')
<1>1. plan' = plan /\ observed' = observed /\ observed \in BOOLEAN /\ behind' = behind
      /\ ClockIsKept /\ Len(store.trail) \in Nat
  BY NowFacts DEF Do, Recording
<1>2. CASE store' = Written(store, writes) /\ live' = held /\ stage' = after /\ engine' = next
  <2>1. store' = record /\ RecordIsGood(plan, record, observed) /\ Extends(store, record)
    BY <1>2, RunsEnd
  <2>2. /\ observed' \in BOOLEAN /\ RecordIsGood(plan, store, observed)'
        /\ Extends(store, store') /\ IsTold(store)' /\ (live = store.held)'
    BY <1>1, <1>2, <2>1
  <2>3. /\ (stage # "down" => IsTold(store) /\ live = store.held)'
        /\ (stage = "down" => live = Nothing)'
        /\ (stage \in {"draft", "refused"} => store = Empty)'
    BY <1>2, <2>2
  <2>4. /\ (stage = "prepared" => live = At(Nothing, Queued, 0))'
        /\ (stage \in {"draft", "refused", "prepared"} => observed)'
    BY <1>1, <1>2
  <2>5. (stage = "running" =>
           live.snapshot.status \in {"running", "stopping"} /\ AgentsAreHeld(engine, live, observed))'
    BY <1>1, <1>2
  <2>6. ClockIsKept'
    <3>1. Len(store'.trail) \in Nat /\ Len(store.trail) <= Len(store'.trail)
      BY <2>1 DEF RecordIsGood, Extends
    <3> QED
      BY <1>1, <3>1, ClockStays
  <2> QED
    BY <2>2, <2>3, <2>4, <2>5, <2>6 DEF Recording
<1>3. CASE /\ \E k \in 0..(Len(writes) - 1) : store' = Written(store, SubSeq(writes, 1, k))
           /\ live' = Nothing /\ stage' = "down"
  <2>1. PICK k \in 0..(Len(writes) - 1) : store' = Written(store, SubSeq(writes, 1, k))
    BY <1>3
  <2>2. k \in 0..Len(writes)
    <3>1. PICK X : writes \in Seq(X)
      BY DEF Runs
    <3>2. Len(writes) \in Nat
      BY <3>1
    <3> QED
      BY <3>2
  <2>3. RecordIsGood(plan, store', observed) /\ Extends(store, store')
    BY <2>1, <2>2 DEF Runs
  <2>4. ClockIsKept'
    <3>1. Len(store'.trail) \in Nat /\ Len(store.trail) <= Len(store'.trail)
      BY <2>3 DEF RecordIsGood, Extends
    <3> QED
      BY <1>1, <3>1, ClockStays
  <2> QED
    BY <1>1, <1>3, <2>3, <2>4 DEF Recording
<1> QED
  BY <1>2, <1>3 DEF Do

-----------------------------------------------------------------------------
(* The steps that only track.                                              *)

RecordIsKept == Recording' /\ Extends(store, store')

(* A plan that was prepared names the tasks of the model, and so do its dependencies. *)
LEMMA PlannedPlan ==
  ASSUME PlanFits, stage \notin {"draft", "refused"} \/ Valid(plan, caps)
  PROVE  Planned(plan)
<1>1. CASE stage \notin {"draft", "refused"}
  BY <1>1, PreparedPlan DEF Planned, PlanFits, Known
<1>2. CASE Valid(plan, caps)
  <2>1. IsPlan(plan) /\ (Duplicates(plan.tasks) = {} => Ids(plan.tasks) = Tasks)
    BY DEF PlanFits
  <2>2. Ids(plan.tasks) = Tasks /\ \A t \in TasksOf(plan) : Deps(t) \subseteq Tasks
    BY <1>2, <2>1, ValidGraph
  <2>3. \A t \in Tasks : Named(plan.tasks, t) \in TasksOf(plan)
    BY <2>1, <2>2, IdsFacts
  <2> QED
    BY <2>1, <2>2, <2>3 DEF Planned
<1> QED
  BY <1>1, <1>2

(* What holds of the execution in memory while the engine runs. *)
LEMMA LiveRuns ==
  ASSUME Recording, stage = "running"
  PROVE  /\ IsRunning(plan, store, live, observed) /\ live = store.held /\ IsTold(store)
         /\ AgentsAreHeld(engine, live, observed) /\ RecordIsGood(plan, store, observed)
         /\ Len(store.trail) \in Nat /\ live \in HeldSet
         /\ HeldIsGood(plan, live, Len(store.trail), observed)
<1>1. /\ RecordIsGood(plan, store, observed) /\ IsTold(store) /\ live = store.held
      /\ live.snapshot.status \in {"running", "stopping"} /\ AgentsAreHeld(engine, live, observed)
  BY DEF Recording
<1>2. /\ store.trail \in Seq(EventSet) /\ HeldIsGood(plan, store.held, Len(store.trail), observed)
      /\ observed => TrailIsWhole(plan, store)
  BY <1>1 DEF RecordIsGood
<1>3. observed => \A t \in Tasks : StatusOf(live, t) = "completed" => Evidence(plan, store, t)
  BY <1>1, <1>2 DEF TrailIsWhole
<1>4. IsRunning(plan, store, live, observed)
  BY <1>1, <1>2, <1>3 DEF IsRunning
<1> QED
  BY <1>1, <1>2, <1>4 DEF HeldIsGood

(* The tracker passes through a chain of held executions. *)
LEMMA TrackKeeps ==
  ASSUME Recording, Planned(plan), stage # "down", NEW helds \in Seq(HeldSet),
         ChainedFrom(plan, store, live, helds, observed),
         NEW held, held = HeldAfter(live, helds), NEW next, NEW after,
         Track(helds, next, after), UNCHANGED observed,
         after \in {"prepared", "running", "over"},
         after = "prepared" => observed /\ held = At(Nothing, Queued, 0),
         after = "running" => /\ held.snapshot.status \in {"running", "stopping"}
                              /\ AgentsAreHeld(next, held, observed)
  PROVE  RecordIsKept
<1>1. /\ RecordIsGood(plan, store, observed) /\ IsTold(store) /\ live = store.held
  BY DEF Recording
<1>2. Chained(plan, store, helds, observed)
  BY <1>1 DEF ChainedFrom, Chained
<1>3. PICK record : /\ Runs(plan, store, Persisted(plan, store.held, helds), observed, record)
                    /\ record.held = HeldAfter(store.held, helds) /\ IsTold(record)
  BY <1>1, <1>2, PersistedRuns
<1> DEFINE writes == Persisted(plan, live, helds)
<1>4. Runs(plan, store, writes, observed, record) /\ record.held = held
  BY <1>1, <1>3
<1>5. Last(<<live>> \o helds) = held
  <2>1. CASE helds = <<>>
    <3>1. <<live>> \o helds = <<live>>
      BY <2>1
    <3>2. Last(<<live>>) = live
      BY DEF Last
    <3> QED
      BY <2>1, <3>1, <3>2 DEF HeldAfter
  <2>2. CASE helds # <<>>
    <3>1. Len(helds) \in Nat /\ Len(helds) # 0 /\ Len(<<live>>) = 1 /\ <<live>> \in Seq({live})
      BY <2>2
    <3>2. /\ Len(<<live>> \o helds) = 1 + Len(helds)
          /\ (<<live>> \o helds)[1 + Len(helds)] = helds[Len(helds)]
      <4>1. /\ <<live>> \in Seq(HeldSet \cup {live}) /\ helds \in Seq(HeldSet \cup {live})
        OBVIOUS
      <4> QED
        BY <3>1, <4>1
    <3> QED
      BY <2>2, <3>2 DEF HeldAfter, Last
  <2> QED
    BY <2>1, <2>2
<1>6. Do(writes, held, next, after)
  BY <1>5 DEF Track
<1> HIDE DEF writes
<1>7. Recording' /\ Extends(store, store')
  BY <1>3, <1>4, <1>6, DoKeeps
<1> QED
  BY <1>7 DEF RecordIsKept

LEMMA NothingFacts ==
  /\ Nothing \in HeldSet /\ Nothing.snapshot = Absent /\ HeldIsTimed(Nothing, 0)
  /\ \A t \in Tasks : /\ ~Bound(Nothing, t) /\ StatusOf(Nothing, t) = "none"
                      /\ Nothing.began[t] = Unset /\ Nothing.ended[t] = Unset
<1>1. /\ Nothing.snapshot = Absent /\ Absent.attempts = [t \in Tasks |-> <<>>]
      /\ Absent.status = "absent" /\ Absent.cancelling = FALSE
      /\ \A t \in Tasks : Nothing.began[t] = Unset /\ Nothing.ended[t] = Unset
  BY DEF Nothing, Absent, Unattempted, Untimed
<1>2. Nothing \in HeldSet
  <2>1. Absent \in SnapshotSet
    BY DEF Absent, Unattempted, SnapshotSet, AttemptLists
  <2>2. Untimed \in [Tasks -> Int]
    BY DEF Untimed, Unset
  <2> QED
    BY <2>1, <2>2 DEF Nothing, HeldSet
<1>3. \A t \in Tasks : ~Bound(Nothing, t) /\ StatusOf(Nothing, t) = "none"
  BY <1>1 DEF Bound, StatusOf
<1>4. HeldIsTimed(Nothing, 0)
  BY <1>1, <1>3, RankFacts DEF HeldIsTimed, Over
<1> QED
  BY <1>1, <1>2, <1>3, <1>4

(* The execution appears queued and without attempts. *)
LEMMA QueuedFacts ==
  ASSUME NEW p, Planned(p), NEW record, Len(record.trail) \in Nat, NEW whole
  PROVE  LET next == At(Nothing, Queued, 0)
         IN  /\ Passes(p, record, Nothing, next, whole) /\ next \in HeldSet
             /\ next.snapshot = Queued
             /\ \A t \in Tasks : ~Bound(next, t) /\ StatusOf(next, t) = "none"
<1>1. Queued \in SnapshotSet /\ Queued.attempts = Absent.attempts
  BY DEF Queued, Absent, Unattempted, SnapshotSet, AttemptLists, ExecutionStatus
<1>2. Queued.status = "queued" /\ Queued.cancelling = FALSE
      /\ Absent.status = "absent" /\ Absent.cancelling = FALSE
  BY DEF Queued, Absent
<1>3. /\ Nothing \in HeldSet /\ Nothing.snapshot = Absent /\ HeldIsTimed(Nothing, 0)
      /\ \A t \in Tasks : ~Bound(Nothing, t) /\ StatusOf(Nothing, t) = "none"
  BY NothingFacts
<1> DEFINE bare == Bare(Nothing, Queued)
<1>4. bare \in HeldSet /\ bare.snapshot = Queued
  BY <1>1, <1>3, BareFields
<1>5. GoesOn(Nothing, bare) /\ SameBound(Nothing, bare)
  <2>1. StatusGoesOn(Nothing.snapshot, Queued)
    BY <1>2, <1>3, ExecutionRankFacts DEF StatusGoesOn
  <2>2. \A t \in Tasks : AttemptGoesOn(Nothing.snapshot.attempts[t], Queued.attempts[t])
    BY <1>1, <1>3 DEF AttemptGoesOn
  <2> QED
    BY <1>1, <1>3, <2>1, <2>2, SnapshotGoesOn
<1>6. \A t \in Tasks : ~Bound(bare, t) /\ StatusOf(bare, t) = "none"
  BY <1>1, <1>3, <1>4 DEF Bound, StatusOf
<1>7. HeldIsSound(bare)
  BY <1>2, <1>4, <1>6 DEF HeldIsSound
<1>8. HeldIsGood(p, Nothing, Len(record.trail), whole)
  <2>1. HeldIsSound(Nothing)
    BY <1>2, <1>3 DEF HeldIsSound
  <2>2. HeldIsOrdered(p, Nothing)
    BY <1>3 DEF HeldIsOrdered
  <2>3. HeldIsGood(p, Nothing, 0, whole)
    BY <1>3, <2>1, <2>2 DEF HeldIsGood
  <2> QED
    BY <2>3, HeldStaysGood
<1>9. whole => \A t \in Tasks : StatusOf(bare, t) = "completed" => Evidence(p, record, t)
  BY <1>6
<1>10. Passes(p, record, Nothing, At(Nothing, Queued, 0), whole)
  <2>1. 0 \in 0..Len(record.trail)
    OBVIOUS
  <2> HIDE DEF bare
  <2> QED
    BY <1>1, <1>3, <1>5, <1>7, <1>8, <1>9, <2>1, PassesAt DEF bare
<1>11. At(Nothing, Queued, 0) \in HeldSet /\ At(Nothing, Queued, 0).snapshot = Queued
  BY <1>1, <1>3, AtFields
<1>12. \A t \in Tasks : ~Bound(At(Nothing, Queued, 0), t) /\ StatusOf(At(Nothing, Queued, 0), t) = "none"
  BY <1>4, <1>6, <1>11, SameSnapshot
<1> QED
  BY <1>10, <1>11, <1>12

LEMMA TracksOn ==
  ASSUME Recording, Planned(plan), stage # "down", NEW helds \in Seq(HeldSet),
         ChainedFrom(plan, store, live, helds, observed),
         NEW held, HeldAfter(live, helds) = held, NEW next,
         Track(helds, next, "running"), observed' = observed,
         held.snapshot.status \in {"running", "stopping"}, AgentsAreHeld(next, held, observed)
  PROVE  RecordIsKept
<1>1. "running" \in {"prepared", "running", "over"} /\ "running" # "prepared"
  OBVIOUS
<1> DEFINE after == "running"
<1>2. /\ after \in {"prepared", "running", "over"} /\ Track(helds, next, after)
      /\ (after = "prepared" => observed /\ held = At(Nothing, Queued, 0))
      /\ (after = "running" => /\ held.snapshot.status \in {"running", "stopping"}
                               /\ AgentsAreHeld(next, held, observed))
      /\ UNCHANGED observed /\ held = HeldAfter(live, helds)
  BY <1>1
<1> HIDE DEF after
<1> QED
  BY <1>2, TrackKeeps

LEMMA TracksToTheEnd ==
  ASSUME Recording, Planned(plan), stage # "down", NEW helds \in Seq(HeldSet),
         ChainedFrom(plan, store, live, helds, observed), NEW next,
         Track(helds, next, "over"), observed' = observed
  PROVE  RecordIsKept
<1> DEFINE after == "over"
           held == HeldAfter(live, helds)
<1>2. /\ after \in {"prepared", "running", "over"} /\ Track(helds, next, after)
      /\ (after = "prepared" => observed /\ held = At(Nothing, Queued, 0))
      /\ (after = "running" => /\ held.snapshot.status \in {"running", "stopping"}
                               /\ AgentsAreHeld(next, held, observed))
      /\ UNCHANGED observed /\ held = HeldAfter(live, helds)
  OBVIOUS
<1> HIDE DEF after, held
<1> QED
  BY <1>2, TrackKeeps

(* What the engine's Agents do is held the same if the attempts are. *)
LEMMA AgentsStayHeld ==
  ASSUME NEW now, NEW a, NEW b, NEW whole, b.snapshot.attempts = a.snapshot.attempts,
         AgentsAreHeld(now, a, whole)
  PROVE  AgentsAreHeld(now, b, whole)
<1>1. \A t : /\ StatusOf(a, t) = StatusOf(b, t) /\ (Bound(a, t) <=> Bound(b, t))
             /\ (Over(a, t) <=> Over(b, t)) /\ (Published(a, t) <=> Published(b, t))
  BY DEF StatusOf, Bound, Over, Published
<1> QED
  BY <1>1 DEF AgentsAreHeld

(* The engine before its first Agent starts: nothing is completed. *)
LEMMA FirstAgents ==
  ASSUME Scheduling, stage = "prepared", NEW held, \A t \in Tasks : ~Bound(held, t), NEW whole
  PROVE  AgentsAreHeld([Idle EXCEPT !.results = Advanced(plan, args, NoResults(plan))], held, whole)
<1> DEFINE R == NoResults(plan)
           S == Advanced(plan, args, R)
           first == [Idle EXCEPT !.results = S]
<1>1. Ids(plan.tasks) = Tasks /\ Known(plan, Tasks) /\ Apart(args, Tasks)
  BY PreparedPlan DEF Scheduling
<1>2. R \in [Tasks -> Result] /\ \A t \in Tasks : R[t] = "none"
  BY <1>1 DEF NoResults, Result
<1>3. \A k \in 1..Len(args) : ToSet(args[k]) \subseteq Tasks
  BY <1>1 DEF Apart
<1>4. Behind(args, R)
  BY <1>2, <1>3 DEF Behind
<1> HIDE DEF R
<1>5. Skips(plan, Tasks, R, S)
  BY <1>1, <1>2, <1>4, AdvancedFacts
<1> HIDE DEF S
<1>6. first.results = S /\ first.stray = 0 /\ \A t \in Tasks : first.child[t] = "none"
  BY DEF Idle
<1>7. \A t \in Tasks : S[t] \in {"none", "skipped"}
  BY <1>2, <1>5 DEF Skips
<1> HIDE DEF first
<1>8. AgentsAreHeld(first, held, whole)
  BY <1>6, <1>7 DEF AgentsAreHeld
<1> QED
  BY <1>8 DEF first, S, R

LEMMA PrepareKeeps ==
  ASSUME Recording, Scheduling, Prepare
  PROVE  RecordIsKept
<1> DEFINE next == At(Nothing, Queued, 0)
<1>1. /\ stage = "draft" /\ Valid(plan, caps) /\ Track(<<next>>, Idle, "prepared")
      /\ observed' = observed
  BY Zenon DEF Prepare, StartAccepts
<1>2. Planned(plan)
  BY <1>1, PlannedPlan DEF Scheduling
<1>3. store = Empty /\ live = store.held /\ observed /\ RecordIsGood(plan, store, observed)
  BY <1>1 DEF Recording
<1>4. live = Nothing /\ Len(store.trail) \in Nat
  <2>1. store.trail \in Seq(EventSet)
    BY <1>3 DEF RecordIsGood
  <2> QED
    BY <1>3, <2>1 DEF Empty
<1>5. Passes(plan, store, live, next, observed) /\ next \in HeldSet
  BY <1>2, <1>4, QueuedFacts
<1> HIDE DEF next
<1>6. /\ <<next>> \in Seq(HeldSet) /\ ChainedFrom(plan, store, live, <<next>>, observed)
      /\ HeldAfter(live, <<next>>) = next
  BY <1>5, ChainedOne
<1>7. observed /\ next = At(Nothing, Queued, 0)
  BY <1>3 DEF next
<1> QED
  BY <1>1, <1>2, <1>6, <1>7, TrackKeeps

(* What holds of the execution that was prepared. *)
LEMMA PreparedFacts ==
  ASSUME Recording, Scheduling, stage = "prepared"
  PROVE  /\ Planned(plan) /\ live \in HeldSet /\ live.snapshot = Queued
         /\ Len(store.trail) \in Nat /\ observed
         /\ HeldIsGood(plan, live, Len(store.trail), observed)
         /\ \A t \in Tasks : ~Bound(live, t) /\ StatusOf(live, t) = "none"
<1>1. Planned(plan)
  BY PlannedPlan DEF Scheduling
<1>2. /\ live = store.held /\ live = At(Nothing, Queued, 0) /\ observed
      /\ RecordIsGood(plan, store, observed)
  BY DEF Recording
<1>3. store.trail \in Seq(EventSet) /\ HeldIsGood(plan, live, Len(store.trail), observed)
  BY <1>2 DEF RecordIsGood
<1>4. Len(store.trail) \in Nat
  BY <1>3
<1> QED
  BY <1>1, <1>2, <1>3, <1>4, QueuedFacts

LEMMA EngineStartThrowsKeeps ==
  ASSUME Recording, Scheduling, EngineStartThrows
  PROVE  RecordIsKept
<1> DEFINE next == At(live, Finish(live.snapshot, "unknown"), Now)
<1>1. stage = "prepared" /\ Track(<<next>>, Idle, "over") /\ observed' = observed
  BY Zenon DEF EngineStartThrows
<1>2. /\ Planned(plan) /\ live.snapshot = Queued /\ Len(store.trail) \in Nat
      /\ HeldIsGood(plan, live, Len(store.trail), observed)
      /\ \A t \in Tasks : StatusOf(live, t) = "none"
  BY <1>1, PreparedFacts
<1>3. /\ live.snapshot.status \in {"queued", "running", "stopping"}
      /\ "unknown" \in TerminalExecution
  BY <1>2 DEF Queued, TerminalExecution
<1>4. Passes(plan, store, live, next, observed) /\ next \in HeldSet
  BY <1>2, <1>3, NowFacts, PassesEnd
<1> HIDE DEF next
<1>5. /\ <<next>> \in Seq(HeldSet) /\ ChainedFrom(plan, store, live, <<next>>, observed)
      /\ HeldAfter(live, <<next>>) = next
  BY <1>4, ChainedOne
<1> QED
  BY <1>1, <1>2, <1>5, TracksToTheEnd

LEMMA EngineStartsKeeps ==
  ASSUME Recording, Scheduling, EngineStarts
  PROVE  RecordIsKept
<1> DEFINE s == [live.snapshot EXCEPT !.status = "running"]
           now == Len(store.trail)
           next == At(live, s, Now)
           first == [Idle EXCEPT !.results = Advanced(plan, args, NoResults(plan))]
<1>1. stage = "prepared" /\ Track(<<next>>, first, "running") /\ observed' = observed
  BY Zenon DEF EngineStarts
<1>2. /\ Planned(plan) /\ live \in HeldSet /\ live.snapshot = Queued /\ now \in Nat
      /\ HeldIsGood(plan, live, now, observed) /\ HeldIsTimed(live, now)
      /\ \A t \in Tasks : ~Bound(live, t) /\ StatusOf(live, t) = "none"
  BY <1>1, PreparedFacts DEF HeldIsGood
<1>3. /\ s.status = "running" /\ s.cancelling = FALSE /\ s.attempts = live.snapshot.attempts
      /\ s \in SnapshotSet
  <2>1. /\ live.snapshot \in SnapshotSet /\ DOMAIN live.snapshot = {"status", "cancelling", "attempts"}
    BY <1>2, HeldFields
  <2>2. live.snapshot.cancelling = FALSE
    BY <1>2 DEF Queued
  <2> QED
    BY <2>1, <2>2 DEF SnapshotSet, ExecutionStatus
<1> HIDE DEF s
<1>4. StatusGoesOn(live.snapshot, s)
  BY <1>2, <1>3, ExecutionRankFacts DEF StatusGoesOn, Queued
<1>5. \A t \in Tasks : AttemptGoesOn(live.snapshot.attempts[t], s.attempts[t])
  BY <1>3 DEF AttemptGoesOn
<1> DEFINE bare == Bare(live, s)
<1>6. /\ GoesOn(live, bare) /\ SameBound(live, bare) /\ bare.snapshot = s
  BY <1>2, <1>3, <1>4, <1>5, SnapshotGoesOn, BareFields
<1>7. \A t \in Tasks : StatusOf(bare, t) = "none" /\ ~Bound(bare, t)
  BY <1>2, <1>3, <1>6 DEF StatusOf, Bound
<1>8. HeldIsSound(bare)
  BY <1>3, <1>6 DEF HeldIsSound
<1>9. observed => \A t \in Tasks : StatusOf(bare, t) = "completed" => Evidence(plan, store, t)
  BY <1>7
<1> HIDE DEF bare, now
<1>10. Passes(plan, store, live, next, observed)
  <2>1. Now \in 0..Len(store.trail) /\ Len(store.trail) \in Nat
    BY NowFacts
  <2>2. HeldIsGood(plan, live, Len(store.trail), observed)
    BY <1>2 DEF now
  <2> HIDE DEF next
  <2>3. /\ GoesOn(live, Bare(live, s)) /\ SameBound(live, Bare(live, s))
        /\ HeldIsSound(Bare(live, s))
        /\ observed => \A t \in Tasks :
             StatusOf(Bare(live, s), t) = "completed" => Evidence(plan, store, t)
    BY <1>6, <1>8, <1>9 DEF bare
  <2>4. Passes(plan, store, live, At(live, s, Now), observed)
    BY <1>2, <1>3, <2>1, <2>2, <2>3, PassesAt
  <2> QED
    BY <2>4 DEF next
<1>11. next \in HeldSet /\ next.snapshot = s
  BY <1>2, <1>3, NowFacts, AtFields
<1> HIDE DEF next, first
<1>12. /\ <<next>> \in Seq(HeldSet) /\ ChainedFrom(plan, store, live, <<next>>, observed)
       /\ HeldAfter(live, <<next>>) = next
  BY <1>10, <1>11, ChainedOne
<1>13. AgentsAreHeld(first, next, observed)
  <2>1. \A t \in Tasks : ~Bound(next, t)
    BY <1>2, <1>3, <1>11 DEF Bound
  <2> QED
    BY <1>1, <2>1, FirstAgents DEF first
<1>14. next.snapshot.status \in {"running", "stopping"} /\ stage # "down"
  BY <1>1, <1>3, <1>11
<1> QED
  BY <1>1, <1>2, <1>12, <1>13, <1>14, TracksOn

LEMMA CancelKeeps ==
  ASSUME Recording, Scheduling, Cancel
  PROVE  RecordIsKept
<1> DEFINE s == RequestCancellation(live.snapshot)
           next == At(live, s, Now)
<1>1. /\ stage = "running" /\ ~live.snapshot.cancelling /\ observed' = observed
      /\ Track(<<next>>, engine, "running")
  BY Zenon DEF Cancel
<1>2. Planned(plan)
  BY <1>1, PlannedPlan DEF Scheduling
<1>3. /\ IsRunning(plan, store, live, observed) /\ AgentsAreHeld(engine, live, observed)
      /\ live \in HeldSet /\ Len(store.trail) \in Nat
  BY <1>1, LiveRuns
<1>4. /\ s \in SnapshotSet /\ s.attempts = live.snapshot.attempts
      /\ s.status = "stopping" /\ s.cancelling /\ StatusGoesOn(live.snapshot, s)
  <2>1. live.snapshot.status \in {"running", "stopping"}
    BY <1>3 DEF IsRunning
  <2>2. s = [live.snapshot EXCEPT !.status = "stopping", !.cancelling = TRUE]
    BY <2>1 DEF RequestCancellation, Ended, TerminalExecution
  <2>3. /\ live.snapshot \in SnapshotSet /\ DOMAIN live.snapshot = {"status", "cancelling", "attempts"}
    BY <1>3, HeldFields
  <2>4. /\ s \in SnapshotSet /\ s.attempts = live.snapshot.attempts
        /\ s.status = "stopping" /\ s.cancelling
    BY <2>2, <2>3 DEF SnapshotSet, ExecutionStatus
  <2> QED
    BY <2>1, <2>4, ExecutionRankFacts DEF StatusGoesOn
<1> HIDE DEF s
<1>5. \A t \in Tasks : AttemptGoesOn(live.snapshot.attempts[t], s.attempts[t])
  BY <1>4 DEF AttemptGoesOn
<1>6. observed => \A t \in Tasks :
        StatusOf(Bare(live, s), t) = "completed" => Evidence(plan, store, t)
  <2>1. \A t \in Tasks : StatusOf(Bare(live, s), t) = StatusOf(live, t)
    BY <1>3, <1>4, BareFields DEF StatusOf
  <2> QED
    BY <1>3, <2>1 DEF IsRunning
<1>7. /\ Passes(plan, store, live, next, observed) /\ IsRunning(plan, store, next, observed)
      /\ next.snapshot = s
  BY <1>2, <1>3, <1>4, <1>5, <1>6, NowFacts, RunsAt
<1> HIDE DEF next
<1>8. next \in HeldSet /\ next.snapshot.status \in {"running", "stopping"}
  BY <1>7 DEF IsRunning, HeldIsGood
<1>9. /\ <<next>> \in Seq(HeldSet) /\ ChainedFrom(plan, store, live, <<next>>, observed)
      /\ HeldAfter(live, <<next>>) = next
  BY <1>7, <1>8, ChainedOne
<1>10. AgentsAreHeld(engine, next, observed)
  BY <1>3, <1>4, <1>7, AgentsStayHeld
<1> QED
  BY <1>1, <1>2, <1>8, <1>9, <1>10, TracksOn

-----------------------------------------------------------------------------
(* The result of the engine.                                               *)

(* What the tracker passes through before the end. *)
Concludes(helds) ==
  /\ helds \in Seq(HeldSet) /\ helds # <<>>
  /\ ChainedFrom(plan, store, live, helds, observed)
  /\ IsRunning(plan, store, Last(helds), observed)

LEMMA LeadsConclude ==
  ASSUME NEW held, held = live \/ Passes(plan, store, live, held, observed),
         NEW helds, LeadsFrom(held, helds, observed)
  PROVE  Concludes(helds)
<1>1. /\ helds \in Seq(HeldSet) /\ ChainedFrom(plan, store, held, helds, observed)
      /\ IsRunning(plan, store, HeldAfter(held, helds), observed)
      /\ helds # <<>> /\ helds[1] = held /\ Last(helds) = HeldAfter(held, helds)
  BY DEF LeadsFrom, Leads
<1>2. ChainedFrom(plan, store, live, helds, observed)
  <2> SUFFICES ASSUME NEW k \in 1..Len(helds)
               PROVE  \/ helds[k] = Previous(live, helds, k)
                      \/ Passes(plan, store, Previous(live, helds, k), helds[k], observed)
    BY DEF ChainedFrom
  <2>1. CASE k = 1
    <3>1. helds[k] = held /\ Previous(live, helds, k) = live
      BY <1>1, <2>1 DEF Previous
    <3> QED
      BY <3>1
  <2>2. CASE k # 1
    <3>1. Previous(live, helds, k) = Previous(held, helds, k)
      BY <2>2 DEF Previous
    <3> QED
      BY <1>1, <3>1 DEF ChainedFrom
  <2> QED
    BY <2>1, <2>2
<1> QED
  BY <1>1, <1>2 DEF Concludes

LEMMA ConcludesOn ==
  ASSUME NEW a, NEW b, Concludes(a), LeadsFrom(Last(a), b, observed)
  PROVE  Concludes(a \o b)
<1> DEFINE h == Last(a)
<1>1. /\ a \in Seq(HeldSet) /\ a # <<>> /\ ChainedFrom(plan, store, live, a, observed)
      /\ b \in Seq(HeldSet) /\ b # <<>> /\ ChainedFrom(plan, store, h, b, observed)
      /\ IsRunning(plan, store, Last(b), observed)
  BY DEF Concludes, LeadsFrom, Leads
<1>2. HeldAfter(live, a) = h
  BY <1>1 DEF HeldAfter, Last
<1> HIDE DEF h
<1> DEFINE c == a \o b
<1>3. ChainedFrom(plan, store, live, c, observed) /\ c \in Seq(HeldSet)
  <2>1. ChainedFrom(plan, store, HeldAfter(live, a), b, observed)
    BY <1>1, <1>2
  <2> QED
    BY <1>1, <2>1, ChainedOn
<1>4. c # <<>> /\ Last(c) = Last(b)
  <2>1. /\ Len(a) \in Nat /\ Len(b) \in Nat /\ Len(b) # 0 /\ Len(c) = Len(a) + Len(b)
        /\ c[Len(a) + Len(b)] = b[Len(b)]
    BY <1>1
  <2> QED
    BY <2>1 DEF Last
<1> HIDE DEF c
<1>5. Concludes(c)
  BY <1>1, <1>3, <1>4 DEF Concludes
<1> QED
  BY <1>5 DEF c

LEMMA EndsWithKeeps ==
  ASSUME Recording, Planned(plan), stage = "running", NEW helds, Concludes(helds),
         NEW status \in TerminalExecution,
         status = "succeeded" => \A t \in Tasks : StatusOf(Last(helds), t) = "completed",
         EndsWith(helds, status)
  PROVE  RecordIsKept
<1> DEFINE h == Last(helds)
           next == At(h, Finish(h.snapshot, status), Now)
           all == Append(helds, next)
<1>1. Track(all, engine, "over") /\ observed' = observed
  BY DEF EndsWith
<1>2. /\ helds \in Seq(HeldSet) /\ helds # <<>> /\ ChainedFrom(plan, store, live, helds, observed)
      /\ IsRunning(plan, store, h, observed)
  BY DEF Concludes
<1>3. HeldAfter(live, helds) = h
  BY <1>2 DEF HeldAfter, Last
<1>4. \A t \in Tasks : status = "succeeded" => StatusOf(h, t) = "completed"
  OBVIOUS
<1>5. Len(store.trail) \in Nat
  BY LiveRuns
<1> HIDE DEF h
<1>6. /\ HeldIsGood(plan, h, Len(store.trail), observed)
      /\ h.snapshot.status \in {"queued", "running", "stopping"}
      /\ observed => \A t \in Tasks : StatusOf(h, t) = "completed" => Evidence(plan, store, t)
  BY <1>2 DEF IsRunning
<1>7. Passes(plan, store, h, next, observed) /\ next \in HeldSet
  BY <1>4, <1>5, <1>6, NowFacts, PassesEnd
<1> HIDE DEF next
<1>8. <<next>> \in Seq(HeldSet) /\ ChainedFrom(plan, store, h, <<next>>, observed)
  BY <1>7, ChainedOne
<1> DEFINE both == helds \o <<next>>
<1>9. both \in Seq(HeldSet) /\ ChainedFrom(plan, store, live, both, observed)
  BY <1>2, <1>3, <1>8, ChainedOn
<1>10. all = both
  BY <1>2, <1>7, <1>8
<1> HIDE DEF all, both
<1>11. stage # "down"
  OBVIOUS
<1> QED
  BY <1>1, <1>9, <1>10, <1>11, TracksToTheEnd

(* As many Agents ran as tasks have a result of one: they are the same.    *)
LEMMA ResultsAreOfAgents ==
  ASSUME Recording, Scheduling, stage = "running", observed,
         ScriptDone(engine.results), WellFormed(engine.results, Started),
         NEW t \in Tasks, engine.results[t] # "skipped"
  PROVE  engine.child[t] = "done"
<1> DEFINE R == engine.results
           child == engine.child
           ran == {u \in Tasks : child[u] # "none"}
           resulted == {u \in Tasks : R[u] # "skipped"}
<1>1. /\ R \in [Tasks -> Result] /\ child \in [Tasks -> {"none", "working", "done"}]
      /\ \A u \in Tasks : child[u] = "working" => R[u] = "none"
  BY DEF Scheduling, EngineOrderly, Orderly
<1>2. AgentsAreHeld(engine, live, observed)
  BY LiveRuns
<1>3. engine.stray = 0 /\ \A u \in Tasks : child[u] = "done" => R[u] \in {"completed", "failed"}
  BY <1>2 DEF AgentsAreHeld
<1>4. \A u \in Tasks : R[u] # "none"
  BY <1>1 DEF ScriptDone
<1>5. \A u \in Tasks : child[u] # "none" => child[u] = "done"
  BY <1>1, <1>4
<1>6. ran \subseteq resulted
  BY <1>3, <1>5
<1>7. IsFiniteSet(resulted) /\ IsFiniteSet(ran)
  BY TasksFinite, FS_Subset
<1>8. Cardinality(resulted) = Cardinality(ran)
  <2>1. Cardinality(resulted) = Started
    <3>1. DOMAIN R = Tasks
      BY <1>1
    <3> QED
      BY <3>1 DEF WellFormed
  <2>2. Started = Cardinality(ran) + 0
    BY <1>3 DEF Started
  <2>3. Cardinality(ran) \in Nat
    BY <1>7, FS_CardinalityType
  <2> QED
    BY <2>1, <2>2, <2>3
<1>9. ran = resulted
  <2> HIDE DEF ran, resulted
  <2> QED
    BY <1>6, <1>7, <1>8, FS_Subset
<1> QED
  BY <1>5, <1>9

LEMMA ConcludedFacts ==
  ASSUME Recording, Scheduling, stage = "running", NEW stop,
         stop = "completed" => ScriptDone(engine.results)
  PROVE  Concludes(Concluded(stop))
<1>1. Planned(plan)
  BY PlannedPlan DEF Scheduling
<1>2. /\ IsRunning(plan, store, live, observed) /\ AgentsAreHeld(engine, live, observed)
      /\ live \in HeldSet /\ Len(store.trail) \in Nat /\ Now \in 0..Len(store.trail)
  BY LiveRuns, NowFacts
<1>3. CASE stop = "completed" /\ WellFormed(engine.results, Started)
  <2>1. Concluded(stop) = MarkAll(live, engine.results)
    BY <1>3 DEF Concluded
  <2>2. MayBeMarked(live, engine.results, observed)
    <3> SUFFICES ASSUME NEW t \in Tasks
                 PROVE  /\ engine.results[t] \in TerminalAttempt
                        /\ observed => /\ Bound(live, t) \/ engine.results[t] = "skipped"
                                       /\ Over(live, t) \/ engine.results[t] # "completed"
      BY DEF MayBeMarked
    <3>1. engine.results \in [Tasks -> Result]
      BY DEF Scheduling, EngineOrderly, Orderly
    <3>2. engine.results[t] # "none"
      BY <1>3, <3>1 DEF ScriptDone
    <3>3. engine.results[t] \in TerminalAttempt
      BY <3>1, <3>2 DEF Result, TerminalAttempt
    <3>4. CASE observed /\ engine.results[t] # "skipped"
      <4>1. engine.child[t] = "done"
        BY <1>3, <3>4, ResultsAreOfAgents
      <4>2. Over(live, t)
        BY <1>2, <3>4, <4>1 DEF AgentsAreHeld
      <4>3. Bound(live, t)
        BY <1>2, <4>2, HeldFacts, RankFacts DEF Over
      <4> QED
        BY <3>3, <4>2, <4>3
    <3> QED
      BY <3>3, <3>4
  <2>3. LeadsFrom(live, MarkAll(live, engine.results), observed)
    BY <1>1, <1>2, <2>2, MarkAllLeads
  <2> QED
    BY <2>1, <2>3, LeadsConclude
<1>4. CASE stop = "cancelled"
  <2> DEFINE s == RequestCancellation(live.snapshot)
             held == At(live, s, Now)
  <2>1. Concluded(stop) = Settle(held, "cancelled")
    BY <1>4 DEF Concluded
  <2>2. /\ s \in SnapshotSet /\ s.attempts = live.snapshot.attempts
        /\ s.status = "stopping" /\ s.cancelling /\ StatusGoesOn(live.snapshot, s)
    <3>1. live.snapshot.status \in {"running", "stopping"}
      BY <1>2 DEF IsRunning
    <3>2. s = [live.snapshot EXCEPT !.status = "stopping", !.cancelling = TRUE]
      BY <3>1 DEF RequestCancellation, Ended, TerminalExecution
    <3>3. /\ live.snapshot \in SnapshotSet /\ DOMAIN live.snapshot = {"status", "cancelling", "attempts"}
      BY <1>2, HeldFields
    <3>4. /\ s \in SnapshotSet /\ s.attempts = live.snapshot.attempts
          /\ s.status = "stopping" /\ s.cancelling
      BY <3>2, <3>3 DEF SnapshotSet, ExecutionStatus
    <3> QED
      BY <3>1, <3>4, ExecutionRankFacts DEF StatusGoesOn
  <2> HIDE DEF s
  <2>3. \A t \in Tasks : AttemptGoesOn(live.snapshot.attempts[t], s.attempts[t])
    BY <2>2 DEF AttemptGoesOn
  <2>4. observed => \A t \in Tasks :
          StatusOf(Bare(live, s), t) = "completed" => Evidence(plan, store, t)
    <3>1. \A t \in Tasks : StatusOf(Bare(live, s), t) = StatusOf(live, t)
      BY <1>2, <2>2, BareFields DEF StatusOf
    <3> QED
      BY <1>2, <3>1 DEF IsRunning
  <2>5. Passes(plan, store, live, held, observed) /\ IsRunning(plan, store, held, observed)
    BY <1>1, <1>2, <2>2, <2>3, <2>4, RunsAt
  <2> HIDE DEF held
  <2>6. LeadsFrom(held, Settle(held, "cancelled"), observed)
    BY <1>1, <1>2, <2>5, SettleLeads
  <2> QED
    BY <2>1, <2>5, <2>6, LeadsConclude
<1>5. CASE ~(stop = "completed" /\ WellFormed(engine.results, Started)) /\ stop # "cancelled"
  <2>1. Concluded(stop) = Settle(live, "unknown")
    BY <1>5 DEF Concluded
  <2>2. LeadsFrom(live, Settle(live, "unknown"), observed)
    BY <1>1, <1>2, SettleLeads
  <2> QED
    BY <2>1, <2>2, LeadsConclude
<1> QED
  BY <1>3, <1>4, <1>5

LEMMA ResultArrivesKeeps ==
  ASSUME Recording, Scheduling, NEW stop, NEW clean, ResultArrives(stop, clean)
  PROVE  RecordIsKept
<1> DEFINE helds == Concluded(stop)
           final == FinalStatus(Last(helds).snapshot, stop)
<1>1. /\ stage = "running" /\ (stop = "completed" => ScriptDone(engine.results))
      /\ \/ EndsWith(helds, final)
         \/ EndsWith(helds \o Settle(Last(helds), "unknown"), "unknown")
  BY Zenon DEF ResultArrives
<1>2. Planned(plan) /\ Len(store.trail) \in Nat /\ Now \in 0..Len(store.trail)
  BY <1>1, PlannedPlan, LiveRuns, NowFacts DEF Scheduling
<1>3. Concludes(helds)
  BY <1>1, ConcludedFacts
<1> HIDE DEF helds
<1>4. IsRunning(plan, store, Last(helds), observed) /\ Last(helds) \in HeldSet
  BY <1>3 DEF Concludes, IsRunning, HeldIsGood
<1>5. CASE EndsWith(helds, final)
  <2>1. final \in TerminalExecution
    BY FinalStatusType
  <2>2. final = "succeeded" => \A t \in Tasks : StatusOf(Last(helds), t) = "completed"
    BY <1>4, SucceededIsComplete
  <2> HIDE DEF final
  <2> QED
    BY <1>1, <1>2, <1>3, <1>5, <2>1, <2>2, EndsWithKeeps
<1>6. CASE EndsWith(helds \o Settle(Last(helds), "unknown"), "unknown")
  <2> DEFINE more == helds \o Settle(Last(helds), "unknown")
             status == "unknown"
  <2>1. LeadsFrom(Last(helds), Settle(Last(helds), "unknown"), observed)
    BY <1>2, <1>4, SettleLeads
  <2>2. Concludes(more)
    BY <1>3, <2>1, ConcludesOn
  <2>3. status \in TerminalExecution /\ status # "succeeded" /\ EndsWith(more, status)
    BY <1>6 DEF TerminalExecution
  <2> HIDE DEF more, status
  <2> QED
    BY <1>1, <1>2, <2>2, <2>3, EndsWithKeeps
<1> QED
  BY <1>1, <1>5, <1>6

-----------------------------------------------------------------------------
(* The Agents' events.                                                     *)

(* An attempt that is over stays as it is. *)
LEMMA MarkListOver ==
  ASSUME NEW a, NEW c, a.agent = c, a.status \in TerminalAttempt, NEW status
  PROVE  MarkList(<<a>>, c, status) = <<a>>
<1> DEFINE list == <<a>>
<1>1. Len(list) = 1 /\ list[1] = a
  OBVIOUS
<1>2. ~Live(a)
  BY DEF Live
<1> HIDE DEF list
<1>3. BindingsFor(list, c) = {1}
  BY <1>1 DEF BindingsFor
<1>4. (CHOOSE n \in BindingsFor(list, c) : \A m \in BindingsFor(list, c) : m <= n) = 1
  BY <1>3
<1>5. MarkList(list, c, status) = list
  BY <1>1, <1>2, <1>3, <1>4 DEF MarkList
<1> QED
  BY <1>5 DEF list

(* What the event of its Agent makes of the attempt of a task. *)
MarkedAs(old, new, t, a, status) ==
  /\ new \in SnapshotSet /\ new.status = old.status /\ new.cancelling = old.cancelling
  /\ StatusGoesOn(old, new)
  /\ \A u \in Tasks : AttemptGoesOn(old.attempts[u], new.attempts[u])
  /\ \A u \in Tasks \ {t} : new.attempts[u] = old.attempts[u]
  /\ new.attempts[t] = IF a.status \in TerminalAttempt THEN <<a>>
                       ELSE <<[agent |-> AgentOf(t), status |-> status]>>

LEMMA MarkedFacts ==
  ASSUME NEW old \in SnapshotSet, NEW t \in Tasks, NEW a \in AttemptSet,
         old.attempts[t] = <<a>>, a.agent = AgentOf(t), NEW status \in Reached,
         a.status \in TerminalAttempt \/ Rank(a.status) < Rank(status)
  PROVE  MarkedAs(old, MarkAttempt(old, AgentOf(t), status), t, a, status)
<1> DEFINE c == AgentOf(t)
           list == MarkList(<<a>>, c, status)
           new == [old EXCEPT !.attempts = [old.attempts EXCEPT ![t] = list]]
<1>1. c \in Agents /\ TaskOf[c] = t
  BY AgentFacts DEF AgentsAreNamed
<1>2. /\ list = IF a.status \in TerminalAttempt THEN <<a>> ELSE <<[agent |-> c, status |-> status]>>
      /\ list \in AttemptLists /\ AttemptGoesOn(<<a>>, list)
  <2>1. CASE a.status \in TerminalAttempt
    <3>1. list = <<a>>
      BY <2>1, MarkListOver
    <3> HIDE DEF list
    <3> QED
      BY <2>1, <3>1 DEF AttemptLists, AttemptGoesOn
  <2>2. CASE a.status \notin TerminalAttempt
    BY <1>1, <2>2, MarkListFacts
  <2> QED
    BY <2>1, <2>2
<1>3. DOMAIN old = {"status", "cancelling", "attempts"} /\ old.attempts \in [Tasks -> AttemptLists]
  BY DEF SnapshotSet
<1>4. MarkAttempt(old, c, status) = new
  <2>1. MarkAttempt(old, c, status)
          = [old EXCEPT !.attempts[t] = MarkList(old.attempts[t], c, status)]
    BY <1>1, <1>3 DEF MarkAttempt
  <2> QED
    BY <1>3, <2>1
<1> HIDE DEF list, c
<1>5. /\ new \in SnapshotSet /\ new.status = old.status /\ new.cancelling = old.cancelling
      /\ new.attempts[t] = list /\ \A u \in Tasks \ {t} : new.attempts[u] = old.attempts[u]
  BY <1>2, <1>3 DEF SnapshotSet
<1> HIDE DEF new
<1>6. \A u \in Tasks : AttemptGoesOn(old.attempts[u], new.attempts[u])
  BY <1>2, <1>5 DEF AttemptGoesOn
<1>7. StatusGoesOn(old, new)
  BY <1>5 DEF StatusGoesOn
<1>8. MarkedAs(old, new, t, a, status)
  BY <1>2, <1>5, <1>6, <1>7 DEF MarkedAs, c
<1> QED
  BY <1>4, <1>8 DEF c

(* One more result has nothing else change but what is skipped. *)
LEMMA ResultSkips ==
  ASSUME NEW p, NEW I, Known(p, I), NEW B, Apart(B, I), NEW R, NEW child,
         Orderly(p, I, B, R, child), NEW t \in I,
         \A k \in 1..Len(B) : t \in ToSet(B[k]) =>
           \A j \in 1..Len(B) : j < k => Settled(R, B[j]),
         NEW result \in {"completed", "failed"}
  PROVE  LET R0 == [R EXCEPT ![t] = result]
         IN  Skips(p, I, R0, Advanced(p, B, R0)) /\ Advanced(p, B, R0) \in [I -> Result]
<1> DEFINE R0 == [R EXCEPT ![t] = result]
           S == Advanced(p, B, R0)
<1>1. R \in [I -> Result] /\ Len(B) \in Nat /\ \A k \in 1..Len(B) : ToSet(B[k]) \subseteq I
  BY DEF Orderly, Apart
<1>2. /\ R0 \in [I -> Result] /\ R0[t] = result /\ result # "none"
      /\ \A id \in I : id # t => R0[id] = R[id]
  BY <1>1 DEF Result
<1> HIDE DEF R0
<1>4. \A k \in 1..Len(B) : Settled(R, B[k]) => Settled(R0, B[k])
  BY <1>1, <1>2 DEF Settled
<1>5. Behind(B, R0)
  <2> SUFFICES ASSUME NEW j \in 1..Len(B), NEW k \in 1..Len(B), j < k, ~Settled(R0, B[j]),
                      NEW id \in ToSet(B[k])
               PROVE  R0[id] = "none"
    BY Zenon DEF Behind
  <2>1. ~Settled(R, B[j])
    BY <1>4
  <2>2. R[id] = "none"
    BY <2>1 DEF Orderly, Behind
  <2>3. id # t
    BY <2>1
  <2> QED
    BY <2>2, <2>3, <1>1, <1>2
<1>6. S \in [I -> Result] /\ Skips(p, I, R0, S)
  BY <1>2, <1>5, AdvancedFacts
<1> QED
  BY <1>6 DEF R0, S

(* A task that may run has no dependency that did not complete. *)
LEMMA RunnableIsReady ==
  ASSUME Scheduling, stage = "running", NEW t \in Runnable(args, engine.results)
  PROVE  /\ t \in Tasks /\ engine.results[t] = "none"
         /\ \A d \in Deps(Named(plan.tasks, t)) : engine.results[d] = "completed"
<1> DEFINE B == args
           R == engine.results
<1>1. Orderly(plan, Tasks, B, R, engine.child) /\ Apart(B, Tasks)
  BY PreparedPlan DEF Scheduling, EngineOrderly
<1> HIDE DEF B, R
<1>2. t \in Runnable(B, R)
  BY DEF B, R
<1>3. /\ R[t] = "none" /\ t \in Tasks /\ \E k \in 1..Len(B) : t \in ToSet(B[k])
      /\ \A k \in 1..Len(B) : t \in ToSet(B[k]) =>
           \A j \in 1..Len(B) : j < k => Settled(R, B[j])
  BY <1>1, <1>2, RunnableFacts
<1>4. PICK k \in 1..Len(B) : t \in ToSet(B[k])
  BY <1>3
<1>5. k <= Len(B) /\ Cleared(plan, B, R, Len(B))
  BY <1>1 DEF Orderly, Apart
<1>6. ~DependencyFailed(plan, R, t)
  BY <1>3, <1>4, <1>5 DEF Cleared
<1> QED
  BY <1>3, <1>6 DEF DependencyFailed, R

(* The record after the snapshots of an Agent that starts, and its event.  *)
LEMMA AddsPublished ==
  ASSUME NEW p, NEW record, NEW whole, RecordIsGood(p, record, whole), IsTold(record),
         NEW t \in Tasks, NEW kind \in {"published", "terminal"}, NEW at \in Nat,
         Published(record.held, t)
  PROVE  \E next : /\ Adds(p, record, <<Write("event", Event(kind, t, "none", at))>>, whole, next)
                   /\ Has(next.trail, kind, t) /\ next.receipts = record.receipts
                   /\ Mentioned(next.trail, t)
<1> DEFINE e == Event(kind, t, "none", at)
<1>1. /\ e.kind = kind /\ e.task = t /\ e.status = "none" /\ e.at = at
  BY DEF Event
<1>2. e \in EventSet
  BY EventType
<1> HIDE DEF e
<1>3. t # NoTask /\ Bound(record.held, t)
  BY NoTaskIsNone DEF Published
<1>4. IsPast(record.held, e)
  BY <1>1, <1>3 DEF IsPast
<1>5. Mentioned(record.trail, t)
  BY <1>3 DEF IsTold, Told, Mentioned
<1>6. MayBeAdded(record, e, whole)
  BY <1>1, <1>2, <1>3, <1>4, <1>5 DEF MayBeAdded
<1>7. PICK next : /\ Adds(p, record, <<Write("event", e)>>, whole, next)
                  /\ next.receipts = record.receipts /\ Has(next.trail, e.kind, e.task)
  BY <1>6, AddsEvent
<1>8. Mentioned(next.trail, t)
  BY <1>5, <1>7, AddsEnd
<1> QED
  BY <1>1, <1>7, <1>8 DEF e

(* One more Agent works, of a task that runs. *)
LEMMA AgentsAfterStart ==
  ASSUME NEW t \in Tasks, NEW held, NEW next, NEW whole,
         engine.child \in [Tasks -> {"none", "working", "done"}],
         DOMAIN engine = {"child", "results", "stray", "astray"},
         AgentsAreHeld(engine, held, whole), engine.results[t] = "none",
         StatusOf(next, t) = "running", Published(next, t),
         \A u \in Tasks \ {t} : next.snapshot.attempts[u] = held.snapshot.attempts[u]
  PROVE  AgentsAreHeld(Starting(t), next, whole)
<1> DEFINE d == [engine.child EXCEPT ![t] = "working"]
           e == Starting(t)
<1>1. e.child = d /\ e.results = engine.results /\ e.stray = engine.stray
  <2>1. e = [engine EXCEPT !.child = d]
    BY DEF Starting
  <2> HIDE DEF d, e
  <2> QED
    BY <2>1
<1>2. d[t] = "working" /\ \A u \in Tasks \ {t} : d[u] = engine.child[u]
  OBVIOUS
<1>3. \A u \in Tasks \ {t} :
        /\ StatusOf(next, u) = StatusOf(held, u) /\ (Bound(next, u) <=> Bound(held, u))
        /\ (Over(next, u) <=> Over(held, u)) /\ (Published(next, u) <=> Published(held, u))
  BY DEF StatusOf, Bound, Over, Published
<1> HIDE DEF d, e
<1>4. AgentsAreHeld(e, next, whole)
  <2>1. ASSUME NEW u \in Tasks
        PROVE  /\ e.child[u] = "none" => ~Bound(next, u)
               /\ Bound(next, u) => Published(next, u)
               /\ e.child[u] = "done" => e.results[u] \in {"completed", "failed"}
               /\ e.results[u] = "completed" => e.child[u] = "done"
    <3>1. CASE u = t
      BY <1>1, <1>2, <3>1
    <3>2. CASE u # t
      BY <1>1, <1>2, <1>3, <3>2 DEF AgentsAreHeld
    <3> QED
      BY <3>1, <3>2
  <2>2. ASSUME whole, NEW u \in Tasks
        PROVE  /\ e.child[u] = "working" => StatusOf(next, u) = "running"
               /\ e.child[u] = "done" =>
                    Over(next, u) /\ (e.results[u] = "completed" <=> StatusOf(next, u) = "completed")
    <3>1. CASE u = t
      BY <1>1, <1>2, <3>1
    <3>2. CASE u # t
      BY <1>1, <1>2, <1>3, <2>2, <3>2 DEF AgentsAreHeld
    <3> QED
      BY <3>1, <3>2
  <2>3. whole => e.stray = 0
    BY <1>1 DEF AgentsAreHeld
  <2> QED
    BY <2>1, <2>2, <2>3 DEF AgentsAreHeld
<1> QED
  BY <1>4 DEF e

LEMMA AgentStartsKeeps ==
  ASSUME Recording, Scheduling, NEW t \in Tasks, AgentStarts(t)
  PROVE  RecordIsKept
<1> DEFINE c == AgentOf(t)
           now == Now
           starting == Materialized(live, t, c, now)
           s == MarkAttempt(starting.snapshot, c, "running")
           running == At(starting, s, now)
           helds == <<starting, running>>
           writes == Persisted(plan, live, helds)
           event == <<Write("event", Event("published", t, "none", now))>>
<1>1. /\ stage = "running" /\ t \in Runnable(args, engine.results) /\ engine.child[t] = "none"
      /\ Do(writes \o event, running, Starting(t), "running") /\ observed' = observed
  BY Zenon DEF AgentStarts
<1>2. Planned(plan)
  BY <1>1, PlannedPlan DEF Scheduling
<1>3. /\ IsRunning(plan, store, live, observed) /\ live = store.held /\ IsTold(store)
      /\ AgentsAreHeld(engine, live, observed) /\ RecordIsGood(plan, store, observed)
      /\ now \in Nat /\ live \in HeldSet /\ now \in 0..Len(store.trail)
      /\ Len(store.trail) \in Nat /\ (observed => now = Len(store.trail))
  BY <1>1, LiveRuns, NowFacts
<1>4. /\ engine.results[t] = "none"
      /\ \A d \in Deps(Named(plan.tasks, t)) : engine.results[d] = "completed"
  BY <1>1, RunnableIsReady
<1>5. c \in Agents
  BY AgentFacts DEF AgentsAreNamed
<1> HIDE DEF c, writes, event
<1>6. MayMaterialize(plan, live, t, c, now, Len(store.trail), observed)
  <2>1. ~Bound(live, t)
    BY <1>1, <1>3 DEF AgentsAreHeld
  <2>2. now \in {Unset} \cup 0..Len(store.trail) /\ now # Unset
    BY <1>3 DEF Unset
  <2>3. observed => \A d \in Deps(Named(plan.tasks, t)) : StatusOf(live, d) = "completed"
    <3>1. \A d \in Deps(Named(plan.tasks, t)) : d \in Tasks
      BY <1>2 DEF Planned
    <3> QED
      BY <1>3, <1>4, <3>1 DEF AgentsAreHeld
  <2> HIDE DEF now
  <2> QED
    BY <1>5, <2>1, <2>2, <2>3 DEF MayMaterialize
<1>7. Passes(plan, store, live, starting, observed) /\ IsRunning(plan, store, starting, observed)
  BY <1>2, <1>3, <1>6, RunsMaterialized
<1>8. MaterializedAs(live, starting, t, c, now)
  <2>1. now \in Int /\ c \in Agents \cup {NoAgent}
    BY <1>3, <1>5
  <2> HIDE DEF now
  <2> QED
    BY <1>3, <2>1, MaterializedFields
<1> HIDE DEF starting
<1> DEFINE a == [agent |-> c, status |-> "starting"]
<1>9. /\ starting \in HeldSet /\ starting.snapshot.attempts[t] = <<a>>
      /\ \A u \in Tasks \ {t} : starting.snapshot.attempts[u] = live.snapshot.attempts[u]
  <2>1. live.snapshot.attempts \in [Tasks -> AttemptLists]
    BY <1>3, HeldFields
  <2> QED
    BY <1>8, <2>1 DEF MaterializedAs
<1>10. MarkedAs(starting.snapshot, s, t, a, "running")
  <2>1. /\ a \in AttemptSet /\ a.agent = AgentOf(t) /\ "running" \in Reached
        /\ Rank(a.status) < Rank("running")
    BY <1>5, RankFacts DEF AttemptSet, Reached, c
  <2>2. starting.snapshot \in SnapshotSet
    BY <1>9, HeldFields
  <2> HIDE DEF a
  <2> QED
    BY <1>9, <2>1, <2>2, MarkedFacts DEF c
<1> HIDE DEF s
<1>11. /\ s \in SnapshotSet /\ StatusGoesOn(starting.snapshot, s)
       /\ s.status = starting.snapshot.status /\ s.cancelling = starting.snapshot.cancelling
       /\ \A u \in Tasks : AttemptGoesOn(starting.snapshot.attempts[u], s.attempts[u])
       /\ \A u \in Tasks \ {t} : s.attempts[u] = starting.snapshot.attempts[u]
       /\ s.attempts[t] = <<[agent |-> c, status |-> "running"]>>
  <2>1. a.status \notin TerminalAttempt
    BY DEF TerminalAttempt
  <2> QED
    BY <1>10, <2>1 DEF MarkedAs, c
<1>12. s.status \in {"running", "stopping"} /\ (s.status = "stopping" => s.cancelling)
  BY <1>7, <1>11 DEF IsRunning, HeldIsGood, HeldIsSound
<1>13. observed => \A u \in Tasks :
         StatusOf(Bare(starting, s), u) = "completed" => Evidence(plan, store, u)
  <2> SUFFICES ASSUME observed, NEW u \in Tasks, StatusOf(Bare(starting, s), u) = "completed"
               PROVE  Evidence(plan, store, u)
    OBVIOUS
  <2>1. Bare(starting, s).snapshot = s
    BY <1>9, <1>11, BareFields
  <2>2. u # t
    BY <1>11, <2>1 DEF StatusOf
  <2>3. StatusOf(starting, u) = "completed"
    BY <1>11, <2>1, <2>2 DEF StatusOf
  <2> QED
    BY <1>7, <2>3 DEF IsRunning
<1>14. /\ Passes(plan, store, starting, running, observed)
       /\ IsRunning(plan, store, running, observed) /\ running.snapshot = s
  <2> DEFINE next == At(starting, s, now)
  <2>1. now \in 0..Len(store.trail) /\ Len(store.trail) \in Nat
    BY <1>3
  <2> HIDE DEF now, running, a
  <2>2. /\ Passes(plan, store, starting, next, observed) /\ IsRunning(plan, store, next, observed)
        /\ next.snapshot = s
    BY <1>2, <1>7, <1>11, <1>12, <1>13, <2>1, RunsAt
  <2> QED
    BY <2>2 DEF running
<1> HIDE DEF running, a
<1>15. running \in HeldSet /\ running.snapshot.status \in {"running", "stopping"}
  BY <1>14 DEF IsRunning, HeldIsGood
<1>16. /\ helds \in Seq(HeldSet) /\ ChainedFrom(plan, store, live, helds, observed)
       /\ HeldAfter(live, helds) = running
  <2> DEFINE x == <<starting>>
             y == <<running>>
  <2>1. /\ x \in Seq(HeldSet) /\ ChainedFrom(plan, store, live, x, observed)
        /\ HeldAfter(live, x) = starting
    BY <1>7, <1>9, ChainedOne
  <2>2. /\ y \in Seq(HeldSet) /\ ChainedFrom(plan, store, starting, y, observed)
        /\ HeldAfter(starting, y) = running
    BY <1>14, <1>15, ChainedOne
  <2>3. x \o y = helds
    <3>1. /\ x \o y \in Seq(HeldSet) /\ helds \in Seq(HeldSet)
          /\ Len(x \o y) = 2 /\ Len(helds) = 2
          /\ (x \o y)[1] = starting /\ (x \o y)[2] = running
          /\ helds[1] = starting /\ helds[2] = running
      BY <1>9, <1>15
    <3>2. \A n \in 1..2 : n = 1 \/ n = 2
      OBVIOUS
    <3> HIDE DEF x, y, helds
    <3> DEFINE z == x \o y
    <3>3. /\ z \in Seq(HeldSet) /\ helds \in Seq(HeldSet) /\ Len(z) = 2 /\ Len(helds) = 2
          /\ \A n \in 1..Len(z) : z[n] = helds[n]
      BY <3>1, <3>2
    <3> HIDE DEF z
    <3>4. z = helds
      BY <3>3, SeqEqual
    <3> QED
      BY <3>4 DEF z
  <2> HIDE DEF x, y, helds
  <2>4. /\ ChainedFrom(plan, store, live, x \o y, observed) /\ x \o y \in Seq(HeldSet)
        /\ HeldAfter(live, x \o y) = running
    BY <2>1, <2>2, ChainedOn
  <2> QED
    BY <2>3, <2>4
<1> HIDE DEF helds
<1>17. PICK r1 : /\ Runs(plan, store, writes, observed, r1) /\ r1.held = running /\ IsTold(r1)
  <2>1. Chained(plan, store, helds, observed)
    BY <1>3, <1>16 DEF Chained, ChainedFrom
  <2>2. PICK r1 : /\ Runs(plan, store, Persisted(plan, store.held, helds), observed, r1)
                  /\ r1.held = HeldAfter(store.held, helds) /\ IsTold(r1)
    BY <1>2, <1>3, <1>16, <2>1, PersistedRuns
  <2> QED
    BY <1>3, <1>16, <2>2 DEF writes
<1>18. StatusOf(running, t) = "running" /\ Published(running, t)
  <2>1. Len(s.attempts[t]) = 1 /\ s.attempts[t] # <<>>
        /\ s.attempts[t][1] = [agent |-> c, status |-> "running"]
    BY <1>11
  <2> QED
    BY <1>14, <2>1 DEF StatusOf, Published, Bound, c
<1>19. PICK r2 : Adds(plan, r1, event, observed, r2)
  <2>1. RecordIsGood(plan, r1, observed) /\ Published(r1.held, t)
    BY <1>17, <1>18, RunsFacts
  <2> HIDE DEF now
  <2>2. now \in Nat /\ "published" \in {"published", "terminal"}
    BY <1>3
  <2> QED
    BY <1>17, <2>1, <2>2, AddsPublished DEF event
<1>20. Runs(plan, store, writes \o event, observed, r2) /\ r2.held = running /\ IsTold(r2)
  BY <1>17, <1>19, RunsOn DEF Adds
<1>21. AgentsAreHeld(Starting(t), running, observed)
  <2>1. /\ engine.child \in [Tasks -> {"none", "working", "done"}]
        /\ DOMAIN engine = {"child", "results", "stray", "astray"}
    BY <1>1 DEF Scheduling, EngineOrderly, Orderly
  <2>2. \A u \in Tasks \ {t} : running.snapshot.attempts[u] = live.snapshot.attempts[u]
    BY <1>9, <1>11, <1>14
  <2> QED
    BY <1>3, <1>4, <1>18, <2>1, <2>2, AgentsAfterStart
<1> DEFINE after == "running"
           all == writes \o event
<1>22. /\ after \in {"prepared", "running", "over", "restored"}
       /\ after = "prepared" => observed /\ running = At(Nothing, Queued, 0)
       /\ after = "running" => /\ running.snapshot.status \in {"running", "stopping"}
                               /\ AgentsAreHeld(Starting(t), running, observed)
       /\ Do(all, running, Starting(t), after) /\ UNCHANGED observed
       /\ Runs(plan, store, all, observed, r2)
  BY <1>1, <1>15, <1>20, <1>21
<1> HIDE DEF after, all
<1>23. Recording' /\ Extends(store, store')
  BY <1>20, <1>22, DoKeeps
<1> QED
  BY <1>23 DEF RecordIsKept

(* One task more has a result, of an Agent that ended or was refused. *)
LEMMA AgentsAfterResult ==
  ASSUME Scheduling, stage = "running", NEW t \in Tasks, NEW held, NEW next, NEW whole,
         AgentsAreHeld(engine, held, whole),
         \A u \in Tasks \ {t} : next.snapshot.attempts[u] = held.snapshot.attempts[u],
         NEW result \in {"completed", "failed"}, NEW c \in {"none", "done"},
         \A k \in 1..Len(args) : t \in ToSet(args[k]) =>
           \A j \in 1..Len(args) : j < k => Settled(engine.results, args[j]),
         c = "none" => ~Bound(next, t) /\ result = "failed", Bound(next, t) => Published(next, t),
         whole /\ c = "done" =>
           Over(next, t) /\ (result = "completed" <=> StatusOf(next, t) = "completed"),
         NEW e, e.child = [engine.child EXCEPT ![t] = c], e.stray = engine.stray,
         e.results = Advanced(plan, args, [engine.results EXCEPT ![t] = result])
  PROVE  AgentsAreHeld(e, next, whole)
<1> DEFINE B == args
           R == engine.results
           R0 == [R EXCEPT ![t] = result]
           child == engine.child
           d == [child EXCEPT ![t] = c]
           S == Advanced(plan, B, R0)
<1>1. Orderly(plan, Tasks, B, R, child) /\ Apart(B, Tasks) /\ Known(plan, Tasks)
  BY PreparedPlan DEF Scheduling, EngineOrderly
<1>2. \A k \in 1..Len(B) : t \in ToSet(B[k]) =>
        \A j \in 1..Len(B) : j < k => Settled(R, B[j])
  OBVIOUS
<1>3. e.child = d /\ e.results = S
  OBVIOUS
<1>4. \A u \in Tasks \ {t} :
        /\ child[u] = "none" => ~Bound(held, u)
        /\ Bound(held, u) => Published(held, u)
        /\ child[u] = "done" => R[u] \in {"completed", "failed"}
        /\ R[u] = "completed" => child[u] = "done"
        /\ whole => /\ child[u] = "working" => StatusOf(held, u) = "running"
                    /\ child[u] = "done" => /\ Over(held, u)
                                            /\ R[u] = "completed" <=> StatusOf(held, u) = "completed"
  BY DEF AgentsAreHeld
<1> HIDE DEF B, R, child
<1>5. Skips(plan, Tasks, R0, S)
  <2> HIDE DEF S
  <2> QED
    BY <1>1, <1>2, ResultSkips DEF S
<1>6. /\ R0[t] = result /\ d[t] = c
      /\ \A u \in Tasks \ {t} : R0[u] = R[u] /\ d[u] = child[u]
  BY <1>1 DEF Orderly
<1> HIDE DEF R0, d, S
<1>7. S[t] = result
  BY <1>5, <1>6 DEF Skips
<1>8. \A u \in Tasks \ {t} : S[u] = R[u] \/ (R[u] = "none" /\ S[u] = "skipped")
  BY <1>5, <1>6 DEF Skips
<1>9. \A u \in Tasks \ {t} :
        /\ StatusOf(next, u) = StatusOf(held, u) /\ (Bound(next, u) <=> Bound(held, u))
        /\ (Over(next, u) <=> Over(held, u)) /\ (Published(next, u) <=> Published(held, u))
  BY DEF StatusOf, Bound, Over, Published
<1>10. ASSUME NEW u \in Tasks
       PROVE  /\ d[u] = "none" => ~Bound(next, u)
              /\ Bound(next, u) => Published(next, u)
              /\ d[u] = "done" => S[u] \in {"completed", "failed"}
              /\ S[u] = "completed" => d[u] = "done"
  <2>1. CASE u = t
    BY <1>6, <1>7, <2>1
  <2>2. CASE u # t
    BY <1>4, <1>6, <1>8, <1>9, <2>2
  <2> QED
    BY <2>1, <2>2
<1>11. ASSUME whole, NEW u \in Tasks
       PROVE  /\ d[u] = "working" => StatusOf(next, u) = "running"
              /\ d[u] = "done" =>
                   Over(next, u) /\ (S[u] = "completed" <=> StatusOf(next, u) = "completed")
  <2>1. CASE u = t
    BY <1>6, <1>7, <1>11, <2>1
  <2>2. CASE u # t
    <3>1. d[u] = child[u] /\ (child[u] = "done" => (S[u] = "completed" <=> R[u] = "completed"))
      BY <1>4, <1>6, <1>8, <2>2
    <3> QED
      BY <1>4, <1>9, <1>11, <2>2, <3>1
  <2> QED
    BY <2>1, <2>2
<1>12. whole => e.stray = 0
  BY DEF AgentsAreHeld
<1> QED
  BY <1>3, <1>10, <1>11, <1>12 DEF AgentsAreHeld

LEMMA AgentsAfterEnd ==
  ASSUME Scheduling, stage = "running", NEW t \in Tasks, engine.child[t] = "working",
         NEW outcome, NEW held, NEW next, NEW whole, AgentsAreHeld(engine, held, whole),
         \A u \in Tasks \ {t} : next.snapshot.attempts[u] = held.snapshot.attempts[u],
         Bound(next, t) => Published(next, t),
         whole => Over(next, t) /\ (outcome = "completed" <=> StatusOf(next, t) = "completed")
  PROVE  AgentsAreHeld(Ending(t, outcome), next, whole)
<1> DEFINE result == IF outcome = "completed" THEN "completed" ELSE "failed"
           S == Advanced(plan, args, [engine.results EXCEPT ![t] = result])
           d == [engine.child EXCEPT ![t] = "done"]
           e == Ending(t, outcome)
           c == "done"
<1>1. DOMAIN engine = {"child", "results", "stray", "astray"}
      /\ Orderly(plan, Tasks, args, engine.results, engine.child)
  BY DEF Scheduling, EngineOrderly
<1>2. e.child = d /\ e.results = S /\ e.stray = engine.stray
  <2>1. e = [engine EXCEPT !.child = d, !.results = S]
    BY <1>1 DEF Ending
  <2> HIDE DEF d, S, e
  <2> QED
    BY <1>1, <2>1
<1>3. \A k \in 1..Len(args) : t \in ToSet(args[k]) =>
        \A j \in 1..Len(args) : j < k => Settled(engine.results, args[j])
  BY <1>1 DEF Orderly
<1>4. /\ result \in {"completed", "failed"} /\ c \in {"none", "done"} /\ c # "none"
      /\ result = "completed" <=> outcome = "completed"
      /\ e.child = [engine.child EXCEPT ![t] = c] /\ e.stray = engine.stray
      /\ e.results = Advanced(plan, args, [engine.results EXCEPT ![t] = result])
  BY <1>2
<1> HIDE DEF result, c, e, S, d
<1>5. AgentsAreHeld(e, next, whole)
  BY <1>3, <1>4, AgentsAfterResult
<1> QED
  BY <1>5 DEF e

(* Every record of a run with a lost event is one of any run. *)
LEMMA LooksAway ==
  ASSUME NEW p, NEW record, NEW whole, RecordIsGood(p, record, whole)
  PROVE  RecordIsGood(p, record, FALSE)
  BY DEF RecordIsGood, HeldIsGood

LEMMA LosesKeep ==
  ASSUME Recording, stage = "running", NEW next, Lose(next), AgentsAreHeld(next, live, FALSE)
  PROVE  RecordIsKept
<1>1. /\ plan' = plan /\ stage' = stage /\ live' = live /\ store' = store /\ engine' = next
      /\ observed' = FALSE /\ behind' = behind
  BY DEF Lose
<1>2. RecordIsGood(plan, store, FALSE) /\ Extends(store, store)
  BY LooksAway, ExtendsItself DEF Recording
<1>3. /\ IsTold(store) /\ live = store.held /\ live.snapshot.status \in {"running", "stopping"}
  BY DEF Recording
<1>4. ClockIsKept'
  BY <1>1, NowFacts, ClockStays DEF Recording
<1>5. Recording'
  BY <1>1, <1>2, <1>3, <1>4 DEF Recording
<1> QED
  BY <1>1, <1>2, <1>5 DEF RecordIsKept

(* The clock steps back: from then on the Agents count as not observed.    *)
LEMMA ClockStepsBackKeeps ==
  ASSUME Recording, ClockStepsBack
  PROVE  RecordIsKept
<1>1. /\ stage = "running" /\ plan' = plan /\ stage' = stage /\ live' = live
      /\ store' = store /\ engine' = engine /\ observed' = FALSE
      /\ \E moment \in 1..(Now - 1) : behind' = Len(store.trail) - moment
  BY DEF ClockStepsBack
<1>2. RecordIsGood(plan, store, FALSE) /\ Extends(store, store)
  BY LooksAway, ExtendsItself DEF Recording
<1>3. /\ IsTold(store) /\ live = store.held /\ live.snapshot.status \in {"running", "stopping"}
      /\ AgentsAreHeld(engine, live, observed)
  BY <1>1 DEF Recording
<1>4. AgentsAreHeld(engine, live, FALSE)
  BY <1>3 DEF AgentsAreHeld
<1>5. ClockIsKept'
  <2>1. PICK moment \in 1..(Now - 1) : behind' = Len(store.trail) - moment
    BY <1>1
  <2>2. behind' \in 0..Len(store.trail)
    BY <2>1, NowFacts
  <2> QED
    BY <1>1, <2>2 DEF ClockIsKept
<1>6. Recording'
  BY <1>1, <1>2, <1>3, <1>4, <1>5 DEF Recording
<1> QED
  BY <1>1, <1>2, <1>6 DEF RecordIsKept

LEMMA AgentEventsLostKeep ==
  ASSUME Recording, Scheduling, NEW t \in Tasks, NEW outcome,
         AgentStartIsLost(t) \/ AgentEndIsLost(t, outcome)
  PROVE  RecordIsKept
<1>1. stage = "running"
  BY DEF AgentStartIsLost, AgentEndIsLost
<1>2. AgentsAreHeld(engine, live, FALSE)
  BY <1>1 DEF Recording, AgentsAreHeld
<1>3. CASE AgentEndIsLost(t, outcome)
  <2>1. engine.child[t] = "working" /\ Lose(Ending(t, outcome))
    BY <1>3 DEF AgentEndIsLost
  <2>2. Bound(live, t) => Published(live, t)
    BY <1>2 DEF AgentsAreHeld
  <2> DEFINE whole == FALSE
  <2>3. /\ AgentsAreHeld(engine, live, whole) /\ ~whole
        /\ \A u \in Tasks \ {t} : live.snapshot.attempts[u] = live.snapshot.attempts[u]
    BY <1>2
  <2> HIDE DEF whole
  <2>4. AgentsAreHeld(Ending(t, outcome), live, whole)
    BY <1>1, <2>1, <2>2, <2>3, AgentsAfterEnd
  <2> USE DEF whole
  <2> QED
    BY <1>1, <2>1, <2>4, LosesKeep
<1>4. CASE AgentStartIsLost(t)
  <2>1. /\ t \in Runnable(args, engine.results) /\ engine.child[t] = "none" /\ Lose(Starting(t))
    BY <1>4 DEF AgentStartIsLost
  <2>2. engine.results[t] = "none"
    BY <1>1, <2>1, RunnableIsReady
  <2>3. DOMAIN engine = {"child", "results", "stray", "astray"}
        /\ engine.child \in [Tasks -> {"none", "working", "done"}]
    BY <1>1 DEF Scheduling, EngineOrderly, Orderly
  <2> DEFINE d == [engine.child EXCEPT ![t] = "working"]
             e == Starting(t)
  <2>4. e.child = d /\ e.results = engine.results
    <3>1. e = [engine EXCEPT !.child = d]
      BY <2>3 DEF Starting
    <3> HIDE DEF d, e
    <3> QED
      BY <2>3, <3>1
  <2>5. d[t] = "working" /\ \A u \in Tasks \ {t} : d[u] = engine.child[u]
    BY <2>3
  <2> HIDE DEF d, e
  <2>6. AgentsAreHeld(e, live, FALSE)
    <3> SUFFICES ASSUME NEW u \in Tasks
                 PROVE  /\ d[u] = "none" => ~Bound(live, u)
                        /\ Bound(live, u) => Published(live, u)
                        /\ d[u] = "done" => engine.results[u] \in {"completed", "failed"}
                        /\ engine.results[u] = "completed" => d[u] = "done"
      BY <2>4 DEF AgentsAreHeld
    <3>1. /\ engine.child[u] = "none" => ~Bound(live, u)
          /\ Bound(live, u) => Published(live, u)
          /\ engine.child[u] = "done" => engine.results[u] \in {"completed", "failed"}
          /\ engine.results[u] = "completed" => engine.child[u] = "done"
      BY <1>2 DEF AgentsAreHeld
    <3> QED
      BY <2>2, <2>5, <3>1
  <2> QED
    BY <1>1, <2>1, <2>6, LosesKeep DEF e
<1> QED
  BY <1>3, <1>4

LEMMA AgentRefusedLeaves ==
  ASSUME Recording, Scheduling, NEW t \in Tasks, AgentRefused(t)
  PROVE  RecordIsKept
<1> DEFINE S == Advanced(plan, args, [engine.results EXCEPT ![t] = "failed"])
           e == [engine EXCEPT !.results = S]
           result == "failed"
           c == "none"
<1>1. DOMAIN engine = {"child", "results", "stray", "astray"}
      /\ Orderly(plan, Tasks, args, engine.results, engine.child) /\ Apart(args, Tasks)
  BY PreparedPlan DEF Scheduling, EngineOrderly, AgentRefused
<1>2. /\ stage = "running" /\ t \in Runnable(args, engine.results) /\ engine.child[t] = "none"
      /\ plan' = plan /\ stage' = stage /\ live' = live /\ store' = store /\ observed' = observed
      /\ engine' = e /\ behind' = behind
  BY <1>1 DEF AgentRefused
<1>3. /\ e.child = [engine.child EXCEPT ![t] = c] /\ e.stray = engine.stray
      /\ e.results = Advanced(plan, args, [engine.results EXCEPT ![t] = result])
  <2>1. [engine.child EXCEPT ![t] = "none"] = engine.child
    BY <1>1, <1>2 DEF Orderly
  <2> HIDE DEF S
  <2>2. e.child = engine.child /\ e.stray = engine.stray /\ e.results = S
    BY <1>1
  <2> QED
    BY <2>1, <2>2 DEF S
<1>4. \A k \in 1..Len(args) : t \in ToSet(args[k]) =>
        \A j \in 1..Len(args) : j < k => Settled(engine.results, args[j])
  <2> DEFINE B == args
             R == engine.results
  <2>1. t \in Runnable(B, R) /\ Apart(B, Tasks)
    BY <1>1, <1>2
  <2> HIDE DEF B, R
  <2>2. \A k \in 1..Len(B) : t \in ToSet(B[k]) => \A j \in 1..Len(B) : j < k => Settled(R, B[j])
    BY <2>1, RunnableFacts
  <2> QED
    BY <2>2 DEF B, R
<1>5. /\ AgentsAreHeld(engine, live, observed) /\ IsTold(store) /\ live = store.held
      /\ RecordIsGood(plan, store, observed) /\ live.snapshot.status \in {"running", "stopping"}
      /\ observed \in BOOLEAN
  BY <1>2 DEF Recording
<1>6. ~Bound(live, t)
  BY <1>2, <1>5 DEF AgentsAreHeld
<1>7. /\ result \in {"completed", "failed"} /\ c \in {"none", "done"} /\ c # "done"
      /\ (c = "none" => ~Bound(live, t) /\ result = "failed")
      /\ (Bound(live, t) => Published(live, t))
      /\ \A u \in Tasks \ {t} : live.snapshot.attempts[u] = live.snapshot.attempts[u]
  BY <1>6
<1> HIDE DEF result, c, e, S
<1>8. AgentsAreHeld(e, live, observed)
  BY <1>2, <1>3, <1>4, <1>5, <1>7, AgentsAfterResult
<1>9. Recording'
  <2>1. ClockIsKept'
    BY <1>2, NowFacts, ClockStays DEF Recording
  <2> QED
    BY <1>2, <1>5, <1>8, <2>1 DEF Recording
<1>10. Extends(store, store')
  BY <1>2, <1>5, ExtendsItself
<1> QED
  BY <1>9, <1>10 DEF RecordIsKept

(* The attempt an Agent that ends is the one of, new or not. *)
BoundFor(t) == IF Bound(live, t) THEN live ELSE Materialized(live, t, AgentOf(t), Unset)

LEMMA BoundForFacts ==
  ASSUME Recording, Scheduling, stage = "running", NEW t \in Tasks, engine.child[t] = "working"
  PROVE  /\ BoundFor(t) = live \/ Passes(plan, store, live, BoundFor(t), observed)
         /\ IsRunning(plan, store, BoundFor(t), observed) /\ BoundFor(t) \in HeldSet
         /\ Published(BoundFor(t), t)
         /\ \A u \in Tasks \ {t} :
              BoundFor(t).snapshot.attempts[u] = live.snapshot.attempts[u]
         /\ observed => StatusOf(BoundFor(t), t) = "running"
<1>1. /\ IsRunning(plan, store, live, observed) /\ AgentsAreHeld(engine, live, observed)
      /\ live \in HeldSet /\ Len(store.trail) \in Nat
  BY LiveRuns
<1>2. Planned(plan)
  BY PlannedPlan DEF Scheduling
<1>3. CASE Bound(live, t)
  <2>1. BoundFor(t) = live
    BY <1>3 DEF BoundFor
  <2>2. Published(live, t) /\ (observed => StatusOf(live, t) = "running")
    BY <1>1, <1>3 DEF AgentsAreHeld
  <2> QED
    BY <1>1, <2>1, <2>2
<1>4. CASE ~Bound(live, t)
  <2> DEFINE c == AgentOf(t)
             next == Materialized(live, t, c, Unset)
  <2>1. BoundFor(t) = next
    BY <1>4 DEF BoundFor
  <2>2. ~observed
    <3> SUFFICES ASSUME observed
                 PROVE  FALSE
      OBVIOUS
    <3>1. StatusOf(live, t) = "running"
      BY <1>1 DEF AgentsAreHeld
    <3>2. StatusOf(live, t) = "none"
      BY <1>1, <1>4, HeldFacts
    <3> QED
      BY <3>1, <3>2
  <2>3. c \in Agents \cup {NoAgent} /\ Unset \in Int
    BY AgentFacts DEF AgentsAreNamed, Unset
  <2> HIDE DEF c
  <2>4. MayMaterialize(plan, live, t, c, Unset, Len(store.trail), observed)
    BY <1>4, <2>2, <2>3 DEF MayMaterialize
  <2>5. Passes(plan, store, live, next, observed) /\ IsRunning(plan, store, next, observed)
    BY <1>1, <1>2, <2>2, <2>4, RunsMaterialized
  <2>6. MaterializedAs(live, next, t, c, Unset)
    BY <1>1, <2>3, MaterializedFields
  <2> HIDE DEF next
  <2>7. live.snapshot.attempts \in [Tasks -> AttemptLists]
    BY <1>1, HeldFields
  <2>8. /\ next \in HeldSet /\ Bound(next, t)
        /\ next.snapshot.attempts[t] = <<[agent |-> c, status |-> "starting"]>>
        /\ \A u \in Tasks \ {t} : next.snapshot.attempts[u] = live.snapshot.attempts[u]
    BY <2>6, <2>7 DEF MaterializedAs
  <2>9. Published(next, t)
    <3>1. next.snapshot.attempts[t][1].agent = c
      BY <2>8
    <3> QED
      BY <2>8, <3>1 DEF Published, c
  <2> QED
    BY <2>1, <2>2, <2>5, <2>8, <2>9
<1> QED
  BY <1>3, <1>4

(* The attempt of an Agent that ended. *)
LEMMA EndedFacts ==
  ASSUME NEW held \in HeldSet, NEW t \in Tasks, Published(held, t),
         NEW outcome \in {"completed", "failed", "cancelled"}
  PROVE  LET s == MarkAttempt(held.snapshot, AgentOf(t), outcome)
         IN  /\ s \in SnapshotSet /\ s.status = held.snapshot.status
             /\ s.cancelling = held.snapshot.cancelling
             /\ GoesOn(held, Bare(held, s)) /\ SameBound(held, Bare(held, s))
             /\ Bare(held, s).snapshot = s
             /\ \A u \in Tasks \ {t} : s.attempts[u] = held.snapshot.attempts[u]
             /\ s.attempts[t] # <<>> /\ s.attempts[t][1].agent = AgentOf(t)
             /\ ~Over(held, t) => /\ Len(s.attempts[t]) = 1
                                  /\ s.attempts[t][1].status = outcome
<1> DEFINE s == MarkAttempt(held.snapshot, AgentOf(t), outcome)
<1>1. PICK a \in AttemptSet : /\ held.snapshot.attempts[t] = <<a>>
                              /\ held.snapshot.attempts[t][1] = a
                              /\ StatusOf(held, t) = a.status /\ a.status \in Reached
  BY HeldFacts DEF Published
<1>2. a.agent = AgentOf(t) /\ held.snapshot \in SnapshotSet
  BY <1>1, HeldFields DEF Published
<1>3. outcome \in Reached /\ outcome \in TerminalAttempt
  BY DEF Reached, TerminalAttempt
<1>4. a.status \in TerminalAttempt \/ Rank(a.status) < Rank(outcome)
  <2>1. Rank(outcome) = 3 /\ Rank(a.status) \in 1..3
        /\ (Rank(a.status) = 3 => a.status \in TerminalAttempt)
    BY <1>1, <1>3, RankFacts
  <2> QED
    BY <2>1
<1>5. MarkedAs(held.snapshot, s, t, a, outcome)
  BY <1>1, <1>2, <1>3, <1>4, MarkedFacts
<1> HIDE DEF s
<1>6. /\ s \in SnapshotSet /\ s.status = held.snapshot.status /\ s.cancelling = held.snapshot.cancelling
      /\ StatusGoesOn(held.snapshot, s)
      /\ \A u \in Tasks : AttemptGoesOn(held.snapshot.attempts[u], s.attempts[u])
      /\ \A u \in Tasks \ {t} : s.attempts[u] = held.snapshot.attempts[u]
      /\ s.attempts[t] = IF a.status \in TerminalAttempt THEN <<a>>
                         ELSE <<[agent |-> AgentOf(t), status |-> outcome]>>
  BY <1>5 DEF MarkedAs
<1>7. /\ GoesOn(held, Bare(held, s)) /\ SameBound(held, Bare(held, s)) /\ Bare(held, s).snapshot = s
  BY <1>6, SnapshotGoesOn, BareFields
<1>8. s.attempts[t] # <<>> /\ s.attempts[t][1].agent = AgentOf(t)
  BY <1>2, <1>6
<1>9. ~Over(held, t) => Len(s.attempts[t]) = 1 /\ s.attempts[t][1].status = outcome
  BY <1>1, <1>6 DEF Over
<1> QED
  BY <1>6, <1>7, <1>8, <1>9 DEF s

(* The record after one more held execution. *)
LEMMA PersistsNext ==
  ASSUME NEW p, Planned(p), NEW record, NEW whole, RecordIsGood(p, record, whole), IsTold(record),
         NEW held, held = record.held \/ Passes(p, record, record.held, held, whole),
         held \in HeldSet
  PROVE  \E next : /\ Runs(p, record, Persisted(p, record.held, <<held>>), whole, next)
                   /\ next.held = held /\ next.receipts = record.receipts /\ IsTold(next)
<1> DEFINE helds == <<held>>
<1>1. /\ helds \in Seq(HeldSet) /\ ChainedFrom(p, record, record.held, helds, whole)
      /\ HeldAfter(record.held, helds) = held
  BY ChainedOne
<1> HIDE DEF helds
<1>2. Chained(p, record, helds, whole)
  BY <1>1 DEF Chained, ChainedFrom
<1>3. PICK next : /\ Runs(p, record, Persisted(p, record.held, helds), whole, next)
                  /\ next.held = HeldAfter(record.held, helds)
                  /\ next.receipts = record.receipts /\ IsTold(next)
  BY <1>1, <1>2, PersistedRuns
<1> QED
  BY <1>1, <1>3 DEF helds

LEMMA AgentEndsKeeps ==
  ASSUME Recording, Scheduling, NEW t \in Tasks,
         NEW outcome \in {"completed", "failed", "cancelled"}, AgentEnds(t, outcome)
  PROVE  RecordIsKept
<1> DEFINE bound == BoundFor(t)
           now == Now
           s == MarkAttempt(bound.snapshot, AgentOf(t), outcome)
           over == At(bound, s, now)
           w1 == Persisted(plan, live, <<bound>>)
           w2 == <<Write("event", Event("terminal", t, "none", now))>>
           w3 == Verified(plan, t)
           w4 == Persisted(plan, bound, <<over>>)
<1>1. /\ stage = "running" /\ engine.child[t] = "working" /\ observed' = observed
      /\ Do(w1 \o w2 \o w3 \o w4, over, Ending(t, outcome), "running")
  BY Zenon DEF AgentEnds, BoundFor
<1>2. Planned(plan) /\ LifecycleIsFinite(plan)
  BY <1>1, PlannedPlan, LifecycleFinite DEF Scheduling
<1>3. /\ live = store.held /\ IsTold(store) /\ AgentsAreHeld(engine, live, observed)
      /\ RecordIsGood(plan, store, observed) /\ now \in Nat /\ live \in HeldSet /\ now \in 0..Len(store.trail)
      /\ Len(store.trail) \in Nat
  BY <1>1, LiveRuns, NowFacts
<1>4. /\ bound = live \/ Passes(plan, store, live, bound, observed)
      /\ IsRunning(plan, store, bound, observed) /\ bound \in HeldSet /\ Published(bound, t)
      /\ \A u \in Tasks \ {t} : bound.snapshot.attempts[u] = live.snapshot.attempts[u]
      /\ observed => StatusOf(bound, t) = "running"
  BY <1>1, BoundForFacts
<1> HIDE DEF bound, w2, w3
<1>5. /\ s \in SnapshotSet /\ s.status = bound.snapshot.status
      /\ s.cancelling = bound.snapshot.cancelling
      /\ GoesOn(bound, Bare(bound, s)) /\ SameBound(bound, Bare(bound, s))
      /\ Bare(bound, s).snapshot = s
      /\ \A u \in Tasks \ {t} : s.attempts[u] = bound.snapshot.attempts[u]
      /\ s.attempts[t] # <<>> /\ s.attempts[t][1].agent = AgentOf(t)
      /\ ~Over(bound, t) => Len(s.attempts[t]) = 1 /\ s.attempts[t][1].status = outcome
  BY <1>4, EndedFacts
<1> HIDE DEF s
<1>6. PICK r1 : /\ Runs(plan, store, w1, observed, r1) /\ r1.held = bound /\ IsTold(r1)
  BY <1>2, <1>3, <1>4, PersistsNext
<1> HIDE DEF w1
<1>7. RecordIsGood(plan, r1, observed)
  BY <1>6, RunsFacts
<1>8. PICK r2 : /\ Adds(plan, r1, w2, observed, r2) /\ Has(r2.trail, "terminal", t)
                /\ Mentioned(r2.trail, t)
  <2> DEFINE kind == "terminal"
  <2>1. kind \in {"published", "terminal"} /\ Published(r1.held, t)
    BY <1>4, <1>6
  <2> HIDE DEF kind, now
  <2>2. PICK r2 : /\ Adds(plan, r1, <<Write("event", Event(kind, t, "none", now))>>, observed, r2)
                  /\ Has(r2.trail, kind, t) /\ Mentioned(r2.trail, t)
    BY <1>3, <1>6, <1>7, <2>1, AddsPublished
  <2> QED
    BY <2>2 DEF w2, kind
<1>9. /\ RecordIsGood(plan, r2, observed) /\ r2.held = bound /\ IsTold(r2)
  BY <1>6, <1>7, <1>8, AddsEnd
<1>10. PICK r3 : /\ Adds(plan, r2, w3, observed, r3)
                 /\ \A v \in Lifecycle(plan, t) : Receipt(t, v, "pass") \in r3.receipts
  <2>1. Bound(r2.held, t) /\ Has(r2.trail, "terminal", t)
    BY <1>4, <1>8, <1>9 DEF Published
  <2> QED
    BY <1>2, <1>9, <2>1, VerifiedAdds DEF w3
<1>11. /\ RecordIsGood(plan, r3, observed) /\ r3.held = bound /\ IsTold(r3)
       /\ Has(r3.trail, "terminal", t)
  BY <1>8, <1>9, <1>10, AddsEnd
<1>12. Runs(plan, store, w1 \o w2 \o w3, observed, r3)
  <2>1. Runs(plan, r1, w2, observed, r2) /\ Runs(plan, r2, w3, observed, r3)
    BY <1>8, <1>10 DEF Adds
  <2>2. Runs(plan, store, w1 \o w2, observed, r2)
    BY <1>6, <2>1, RunsOn
  <2> QED
    BY <2>1, <2>2, RunsOn
<1>13. /\ Len(store.trail) <= Len(r3.trail) /\ Len(r3.trail) \in Nat
       /\ \A u : Evidence(plan, store, u) => Evidence(plan, r3, u)
  BY <1>12, RunsFacts
<1>14. Evidence(plan, r3, t)
  BY <1>10, <1>11 DEF Evidence
<1>15. over \in HeldSet /\ over.snapshot = s
  BY <1>3, <1>4, <1>5, AtFields
<1> DEFINE bare == Bare(bound, s)
<1>16. HeldIsSound(bare)
  <2>1. HeldIsSound(bound) /\ bound.snapshot.status \in {"running", "stopping"}
    BY <1>4 DEF IsRunning, HeldIsGood
  <2> QED
    BY <1>5, <2>1 DEF HeldIsSound
<1>17. observed => \A u \in Tasks : StatusOf(bare, u) = "completed" => Evidence(plan, r3, u)
  <2> SUFFICES ASSUME observed, NEW u \in Tasks, StatusOf(bare, u) = "completed"
               PROVE  Evidence(plan, r3, u)
    OBVIOUS
  <2>1. CASE u = t
    BY <1>14, <2>1
  <2>2. CASE u # t
    <3>1. StatusOf(bound, u) = "completed"
      BY <1>5, <2>2 DEF StatusOf
    <3> QED
      BY <1>4, <1>13, <3>1 DEF IsRunning
  <2> QED
    BY <2>1, <2>2
<1>18. Passes(plan, r3, bound, over, observed)
  <2>1. HeldIsGood(plan, bound, Len(r3.trail), observed)
    BY <1>11 DEF RecordIsGood
  <2>2. now \in 0..Len(r3.trail)
    BY <1>3, <1>13
  <2>3. /\ GoesOn(bound, bare) /\ SameBound(bound, bare) /\ HeldIsSound(bare)
        /\ observed => \A u \in Tasks : StatusOf(bare, u) = "completed" => Evidence(plan, r3, u)
    BY <1>5, <1>16, <1>17
  <2> HIDE DEF now, over
  <2>4. Passes(plan, r3, bound, At(bound, s, now), observed)
    BY <1>2, <1>3, <1>5, <1>13, <2>1, <2>2, <2>3, PassesAt
  <2> QED
    BY <2>4 DEF over
<1> HIDE DEF over, bare
<1>19. PICK r4 : /\ Runs(plan, r3, w4, observed, r4) /\ r4.held = over /\ IsTold(r4)
  BY <1>2, <1>11, <1>15, <1>18, PersistsNext
<1> HIDE DEF w4
<1> DEFINE all == w1 \o w2 \o w3 \o w4
<1>20. Runs(plan, store, all, observed, r4)
  BY <1>12, <1>19, RunsOn
<1>21. AgentsAreHeld(Ending(t, outcome), over, observed)
  <2>1. \A u \in Tasks \ {t} : over.snapshot.attempts[u] = live.snapshot.attempts[u]
    BY <1>4, <1>5, <1>15
  <2>2. Published(over, t)
    BY <1>5, <1>15 DEF Published, Bound
  <2>3. ASSUME observed
        PROVE  Over(over, t) /\ (outcome = "completed" <=> StatusOf(over, t) = "completed")
    <3>1. ~Over(bound, t)
      BY <1>4, <2>3 DEF Over, TerminalAttempt
    <3>2. StatusOf(over, t) = outcome
      BY <1>5, <1>15, <3>1 DEF StatusOf
    <3> QED
      BY <3>2 DEF Over, TerminalAttempt
  <2> QED
    BY <1>1, <1>3, <2>1, <2>2, <2>3, AgentsAfterEnd
<1>22. over.snapshot.status \in {"running", "stopping"}
  BY <1>4, <1>5, <1>15 DEF IsRunning
<1> DEFINE after == "running"
           next == Ending(t, outcome)
<1>23. /\ after \in {"prepared", "running", "over", "restored"}
       /\ after = "prepared" => observed /\ over = At(Nothing, Queued, 0)
       /\ after = "running" => /\ over.snapshot.status \in {"running", "stopping"}
                               /\ AgentsAreHeld(next, over, observed)
       /\ Do(all, over, next, after) /\ UNCHANGED observed
  BY <1>1, <1>21, <1>22
<1> HIDE DEF after, all, next
<1>24. Recording' /\ Extends(store, store')
  BY <1>19, <1>20, <1>23, DoKeeps
<1> QED
  BY <1>24 DEF RecordIsKept

-----------------------------------------------------------------------------
(* Agents beside the plan.                                                 *)

LEMMA UnboundKeeps ==
  ASSUME Recording, stage = "running", NEW kind \in {"published", "terminal"}, NEW next,
         Unbound(kind, next), observed' = FALSE \/ (observed' = observed /\ kind = "terminal"),
         next.child = engine.child, next.results = engine.results,
         observed' => next.stray = engine.stray
  PROVE  RecordIsKept
<1> DEFINE e == Event(kind, NoTask, "none", Now)
           w == <<Write("event", e)>>
           whole == observed'
<1>1. /\ plan' = plan /\ stage' = stage /\ live' = live /\ engine' = next
      /\ store' = Written(store, w) /\ behind' = behind
  BY DEF Unbound
<1>2. /\ live = store.held /\ IsTold(store) /\ AgentsAreHeld(engine, live, observed)
      /\ RecordIsGood(plan, store, observed) /\ Len(store.trail) \in Nat
      /\ live.snapshot.status \in {"running", "stopping"} /\ observed \in BOOLEAN
  BY LiveRuns DEF Recording
<1>3. RecordIsGood(plan, store, whole)
  BY <1>2, LooksAway
<1>4. whole \in BOOLEAN /\ (whole => observed)
  <2>1. CASE observed' = FALSE
    BY <2>1
  <2>2. CASE observed' = observed
    BY <1>2, <2>2
  <2> QED
    BY <2>1, <2>2
<1>5. e.kind = kind /\ e.task = NoTask
  BY DEF Event
<1>6. MayBeAdded(store, e, whole)
  <2>1. e \in EventSet
    BY NowFacts, EventType
  <2>2. whole => kind = "terminal"
    OBVIOUS
  <2> HIDE DEF e, whole
  <2>3. IsPast(store.held, e)
    BY <1>5 DEF IsPast
  <2> QED
    BY <1>5, <2>1, <2>2, <2>3 DEF MayBeAdded
<1> HIDE DEF e
<1>7. PICK r : Adds(plan, store, w, whole, r)
  <2> HIDE DEF whole
  <2> QED
    BY <1>3, <1>6, AddsEvent
<1>8. /\ RecordIsGood(plan, r, whole) /\ Extends(store, r) /\ r.held = live /\ IsTold(r)
  BY <1>2, <1>3, <1>7, AddsEnd
<1>9. store' = r
  BY <1>1, <1>7, RunsEnd DEF Adds
<1>10. AgentsAreHeld(next, live, whole)
  <2> HIDE DEF whole
  <2>1. whole => next.stray = engine.stray
    BY DEF whole
  <2> QED
    BY <1>2, <1>4, <2>1 DEF AgentsAreHeld
<1>11. Recording'
  <2>1. Len(store'.trail) \in Nat /\ Len(store.trail) <= Len(store'.trail)
    BY <1>8, <1>9 DEF RecordIsGood, Extends
  <2>2. ClockIsKept'
    BY <1>1, <1>2, <1>4, <2>1, ClockStays DEF Recording
  <2> QED
    BY <1>1, <1>2, <1>4, <1>8, <1>9, <1>10, <2>2 DEF Recording
<1> QED
  BY <1>8, <1>9, <1>11 DEF RecordIsKept

LEMMA StrayAgentsKeep ==
  ASSUME Recording, Scheduling, StrayAgentStarts \/ StrayAgentEnds
  PROVE  RecordIsKept
<1>1. stage = "running"
  BY DEF StrayAgentStarts, StrayAgentEnds
<1>2. DOMAIN engine = {"child", "results", "stray", "astray"}
  BY <1>1 DEF Scheduling, EngineOrderly
<1>3. CASE StrayAgentStarts
  <2> DEFINE next == [engine EXCEPT !.stray = @ + 1, !.astray = @ + 1]
             kind == "published"
  <2>1. /\ Unbound(kind, next) /\ observed' = FALSE /\ kind \in {"published", "terminal"}
    BY <1>3 DEF StrayAgentStarts
  <2>2. next.child = engine.child /\ next.results = engine.results
    BY <1>2
  <2> HIDE DEF next, kind
  <2> QED
    BY <1>1, <2>1, <2>2, UnboundKeeps
<1>4. CASE StrayAgentEnds
  <2> DEFINE next == [engine EXCEPT !.astray = @ - 1]
             kind == "terminal"
  <2>1. /\ Unbound(kind, next) /\ observed' = observed /\ kind \in {"published", "terminal"}
        /\ kind = "terminal"
    BY <1>4 DEF StrayAgentEnds
  <2>2. next.child = engine.child /\ next.results = engine.results /\ next.stray = engine.stray
    BY <1>2
  <2> HIDE DEF next, kind
  <2> QED
    BY <1>1, <2>1, <2>2, UnboundKeeps
<1> QED
  BY <1>3, <1>4

-----------------------------------------------------------------------------
(* The restart.                                                            *)

LEMMA InterruptedStatus ==
  ASSUME NEW t, NEW old, NEW list \in AttemptLists, old.snapshot.attempts[t] = list,
         NEW held, held.snapshot.attempts[t] = InterruptedList(list)
  PROVE  StatusOf(held, t) \in {StatusOf(old, t), "unknown"}
<1>1. CASE list = <<>>
  <2>1. InterruptedList(list) = <<>>
    BY <1>1 DEF InterruptedList
  <2> QED
    BY <1>1, <2>1 DEF StatusOf
<1>2. CASE \E a \in AttemptSet : list = <<a>>
  <2>1. PICK a \in AttemptSet : list = <<a>>
    BY <1>2
  <2>2. Len(list) = 1 /\ list[1] = a /\ list # <<>>
    BY <2>1
  <2> DEFINE b == IF Live(a) THEN [a EXCEPT !.status = "unknown"] ELSE a
             next == InterruptedList(list)
  <2>3. Len(next) = 1 /\ next[1] = b /\ next # <<>>
    BY <2>2 DEF InterruptedList
  <2>4. b.status \in {a.status, "unknown"}
    BY DEF AttemptSet
  <2> HIDE DEF b, next
  <2>5. held.snapshot.attempts[t] = next
    BY DEF next
  <2> QED
    BY <2>2, <2>3, <2>4, <2>5 DEF StatusOf
<1> QED
  BY <1>1, <1>2 DEF AttemptLists

(* What closing an interrupted execution makes of its snapshot. *)
LEMMA InterruptedFacts ==
  ASSUME NEW held \in HeldSet, HeldIsSound(held)
  PROVE  LET s == Interrupted(held.snapshot)
             bare == Bare(held, s)
         IN  /\ s \in SnapshotSet /\ GoesOn(held, bare) /\ SameBound(held, bare)
             /\ HeldIsSound(bare) /\ bare.snapshot = s
             /\ \A t \in Tasks : StatusOf(bare, t) \in {StatusOf(held, t), "unknown"}
<1> DEFINE old == held.snapshot
           s == Interrupted(old)
           bare == Bare(held, s)
           lists == [t \in Tasks |-> InterruptedList(old.attempts[t])]
<1>1. old \in SnapshotSet /\ old.attempts \in [Tasks -> AttemptLists]
      /\ DOMAIN old = {"status", "cancelling", "attempts"}
  BY HeldFields
<1>2. CASE s = old
  <2>1. StatusGoesOn(old, s) /\ \A t \in Tasks : AttemptGoesOn(old.attempts[t], s.attempts[t])
    BY <1>2 DEF StatusGoesOn, AttemptGoesOn
  <2> HIDE DEF s
  <2>2. bare.snapshot = s /\ GoesOn(held, bare) /\ SameBound(held, bare)
    BY <1>1, <1>2, <2>1, BareFields, SnapshotGoesOn
  <2> HIDE DEF bare
  <2>3. bare.snapshot = held.snapshot
    BY <1>2, <2>2
  <2>4. HeldIsSound(bare) /\ \A t \in Tasks : StatusOf(bare, t) = StatusOf(held, t)
    BY <2>3, SameSnapshot
  <2> QED
    BY <1>1, <1>2, <2>2, <2>4 DEF bare, s
<1>3. CASE s # old
  <2>1. ~Ended(old) /\ s = [old EXCEPT !.status = "unknown", !.attempts = lists]
    BY <1>3 DEF Interrupted
  <2>2. /\ lists \in [Tasks -> AttemptLists]
        /\ \A t \in Tasks : AttemptGoesOn(old.attempts[t], lists[t])
    BY <1>1, InterruptedListFacts
  <2>3. /\ s \in SnapshotSet /\ s.status = "unknown" /\ s.cancelling = old.cancelling
        /\ s.attempts = lists
    <3> HIDE DEF lists, s
    <3> QED
      BY <1>1, <2>1, <2>2 DEF SnapshotSet, ExecutionStatus, TerminalExecution
  <2> HIDE DEF s
  <2>4. StatusGoesOn(old, s)
    <3>1. old.status \in ExecutionStatus \cup {"absent"} /\ old.status \notin TerminalExecution
      BY <1>1, <2>1 DEF SnapshotSet, Ended
    <3>2. ExecutionRank(old.status) < 4 /\ ExecutionRank("unknown") = 4
      BY <3>1, ExecutionRankFacts DEF ExecutionStatus, TerminalExecution
    <3> QED
      BY <2>3, <3>2 DEF StatusGoesOn
  <2>5. bare.snapshot = s /\ GoesOn(held, bare) /\ SameBound(held, bare)
    <3>1. \A t \in Tasks : AttemptGoesOn(held.snapshot.attempts[t], s.attempts[t])
      BY <2>2, <2>3
    <3> QED
      BY <2>3, <2>4, <3>1, BareFields, SnapshotGoesOn
  <2> HIDE DEF bare
  <2>6. HeldIsSound(bare)
    BY <2>3, <2>5 DEF HeldIsSound
  <2>7. \A t \in Tasks : StatusOf(bare, t) \in {StatusOf(held, t), "unknown"}
    <3> SUFFICES ASSUME NEW t \in Tasks
                 PROVE  StatusOf(bare, t) \in {StatusOf(held, t), "unknown"}
      OBVIOUS
    <3>1. /\ held.snapshot.attempts[t] \in AttemptLists
          /\ bare.snapshot.attempts[t] = InterruptedList(held.snapshot.attempts[t])
      BY <1>1, <2>3, <2>5
    <3> QED
      BY <3>1, InterruptedStatus
  <2> QED
    BY <2>3, <2>5, <2>6, <2>7 DEF bare, s
<1> QED
  BY <1>2, <1>3

(* closeInterruptedDurableExecutions: it sets the end of what ran, and no  *)
(* beginning.                                                              *)
LEMMA ClosedPasses ==
  ASSUME NEW whole, Planned(plan), NEW record, RecordIsGood(plan, record, whole),
         Len(store.trail) \in Nat, Len(store.trail) <= Len(record.trail),
         Now \in 0..Len(store.trail),
         NEW held, HeldIsGood(plan, held, Len(store.trail), whole),
         whole => \A t \in Tasks : StatusOf(held, t) = "completed" => Evidence(plan, record, t)
  PROVE  Passes(plan, record, held, Closed(held), whole) /\ Closed(held) \in HeldSet
<1> DEFINE now == Len(store.trail)
           s == Interrupted(held.snapshot)
           bare == Bare(held, s)
           mid == At(held, s, Now)
           next == [mid EXCEPT !.began = held.began]
<1>1. Closed(held) = next
  BY DEF Closed
<1>2. held \in HeldSet /\ HeldIsTimed(held, now) /\ HeldIsSound(held)
      /\ (whole => HeldIsOrdered(plan, held))
  BY DEF HeldIsGood
<1>3. /\ s \in SnapshotSet /\ GoesOn(held, bare) /\ SameBound(held, bare)
      /\ HeldIsSound(bare) /\ bare.snapshot = s
      /\ \A t \in Tasks : StatusOf(bare, t) \in {StatusOf(held, t), "unknown"}
  BY <1>2, InterruptedFacts
<1> HIDE DEF s, now
<1>4. now \in Nat /\ Now \in 0..now /\ Now \in Nat
  BY DEF now
<1>5. HeldIsTimed(mid, now) /\ GoesOn(held, mid) /\ mid \in HeldSet /\ mid.snapshot = s
  BY <1>2, <1>3, <1>4, AtFacts, AtFields
<1> HIDE DEF mid
<1>6. /\ next \in HeldSet /\ next.snapshot = s /\ next.began = held.began /\ next.ended = mid.ended
  <2>1. /\ DOMAIN mid = {"snapshot", "began", "ended"} /\ held.began \in [Tasks -> Int]
    BY <1>2, <1>5, HeldFields
  <2> QED
    BY <1>5, <2>1 DEF HeldSet
<1> HIDE DEF next, bare
<1>7. \A t \in Tasks :
        /\ StatusOf(next, t) = StatusOf(mid, t) /\ (Bound(next, t) <=> Bound(mid, t))
        /\ (Over(next, t) <=> Over(mid, t)) /\ (Published(next, t) <=> Published(mid, t))
        /\ StatusOf(next, t) = StatusOf(bare, t) /\ (Bound(next, t) <=> Bound(bare, t))
  BY <1>3, <1>5, <1>6, SameSnapshot
<1>8. GoesOn(held, next)
  BY <1>5, <1>6, <1>7 DEF GoesOn
<1>9. SameBound(held, next)
  BY <1>3, <1>7 DEF SameBound
<1>10. HeldIsSound(next)
  <2>1. next.snapshot = bare.snapshot
    BY <1>3, <1>6
  <2> QED
    BY <1>3, <2>1, SameSnapshot
<1>11. HeldIsTimed(next, now)
  <2> SUFFICES ASSUME NEW t \in Tasks
               PROVE  /\ next.began[t] \in {Unset} \cup 0..now
                      /\ next.ended[t] \in {Unset} \cup 0..now
                      /\ Over(next, t) <=> next.ended[t] # Unset
                      /\ ~Bound(next, t) => next.began[t] = Unset
                      /\ StatusOf(next, t) \notin {"none", "starting", "unknown"} =>
                           next.began[t] # Unset
    BY DEF HeldIsTimed
  <2>1. next.ended[t] \in {Unset} \cup 0..now /\ (Over(next, t) <=> next.ended[t] # Unset)
    BY <1>5, <1>6, <1>7 DEF HeldIsTimed
  <2>2. Bound(held, t) => Bound(next, t)
    BY <1>2, <1>6, <1>8, GoesOnFacts
  <2>3. StatusOf(next, t) \in {StatusOf(held, t), "unknown"}
    BY <1>3, <1>7
  <2> QED
    BY <1>2, <1>6, <2>1, <2>2, <2>3 DEF HeldIsTimed
<1>12. whole => HeldIsOrdered(plan, next)
  BY <1>2, <1>4, <1>6, <1>8, <1>9, StaysOrdered
<1>13. HeldIsGood(plan, next, Len(record.trail), whole)
  <2>1. HeldIsGood(plan, next, now, whole)
    BY <1>6, <1>10, <1>11, <1>12 DEF HeldIsGood
  <2>2. now <= Len(record.trail) /\ Len(record.trail) \in Nat
    BY DEF now, RecordIsGood
  <2> QED
    BY <1>4, <2>1, <2>2, HeldStaysGood
<1>14. whole => \A t \in Tasks :
         /\ Bound(next, t) /\ ~Bound(held, t) => StatusOf(next, t) = "starting"
         /\ StatusOf(next, t) = "completed" => Evidence(plan, record, t)
  <2>1. \A t \in Tasks : StatusOf(next, t) = "completed" => StatusOf(held, t) = "completed"
    BY <1>3, <1>7
  <2> QED
    BY <1>9, <2>1 DEF SameBound
<1>15. Passes(plan, record, held, next, whole)
  BY <1>8, <1>13, <1>14 DEF Passes
<1> QED
  BY <1>1, <1>6, <1>15

(* The events a crash kept out of the trail are written at the restart.    *)
LEMMA RepairAdds ==
  ASSUME NEW whole, Planned(plan), RecordIsGood(plan, store, whole)
  PROVE  LET repair == IF store.held = Nothing THEN <<>>
                       ELSE Events(Transitions(plan, Nothing, store.held))
         IN  \E next : Adds(plan, store, repair, whole, next) /\ IsTold(next)
<1> DEFINE repair == IF store.held = Nothing THEN <<>>
                     ELSE Events(Transitions(plan, Nothing, store.held))
<1>1. /\ Nothing.snapshot.status = "absent"
      /\ \A t \in Tasks : ~Bound(Nothing, t) /\ StatusOf(Nothing, t) = "none"
  BY NothingFacts DEF Absent
<1>2. CASE store.held = Nothing
  <2>1. repair = <<>>
    BY <1>2
  <2>2. Adds(plan, store, <<>>, whole, store)
    BY AddsNone
  <2>3. IsTold(store)
    BY <1>1, <1>2 DEF IsTold
  <2> QED
    BY <2>1, <2>2, <2>3
<1>3. CASE store.held # Nothing
  <2>1. repair = Events(Transitions(plan, Nothing, store.held))
    BY <1>3
  <2> HIDE DEF repair
  <2>2. store.held \in HeldSet
    BY DEF RecordIsGood, HeldIsGood
  <2>3. \A t \in Tasks :
          IF StatusOf(Nothing, t) # StatusOf(store.held, t) THEN Bound(store.held, t)
          ELSE ~Bound(store.held, t) \/ Told(store.trail, "attempt", t, StatusOf(store.held, t))
    <3> TAKE t \in Tasks
    <3>1. StatusOf(Nothing, t) = "none"
      BY <1>1
    <3>2. \/ StatusOf(store.held, t) = "none" /\ ~Bound(store.held, t)
          \/ StatusOf(store.held, t) # "none" /\ Bound(store.held, t)
      BY <2>2, HeldFacts, RankFacts
    <3> QED
      BY <3>1, <3>2
  <2>4. /\ Nothing.snapshot.status # store.held.snapshot.status =>
             store.held.snapshot.status # "absent"
        /\ Nothing.snapshot.status = store.held.snapshot.status =>
             \/ store.held.snapshot.status = "absent"
             \/ Told(store.trail, "execution", NoTask, store.held.snapshot.status)
    BY <1>1
  <2> DEFINE before == Nothing
  <2>5. /\ before.snapshot.status # store.held.snapshot.status =>
             store.held.snapshot.status # "absent"
        /\ before.snapshot.status = store.held.snapshot.status =>
             \/ store.held.snapshot.status = "absent"
             \/ Told(store.trail, "execution", NoTask, store.held.snapshot.status)
        /\ \A t \in Tasks :
             IF StatusOf(before, t) # StatusOf(store.held, t) THEN Bound(store.held, t)
             ELSE ~Bound(store.held, t) \/ Told(store.trail, "attempt", t, StatusOf(store.held, t))
    BY <2>3, <2>4
  <2> HIDE DEF before
  <2>6. PICK next : /\ Adds(plan, store, Events(Transitions(plan, before, store.held)), whole, next)
                    /\ IsTold(next)
    BY <2>5, AddsTransitions
  <2> QED
    BY <2>1, <2>6 DEF before, repair
<1> QED
  BY <1>2, <1>3

LEMMA RestartKeeps ==
  ASSUME Recording, Scheduling, Restart
  PROVE  RecordIsKept
<1> DEFINE repair == IF store.held = Nothing THEN <<>>
                     ELSE Events(Transitions(plan, Nothing, store.held))
           w2 == Reverified(Written(store, repair))
           held == Closed(store.held)
           w3 == Persisted(plan, store.held, <<held>>)
<1>1. stage = "down" /\ Do(repair \o w2 \o w3, held, Idle, "restored") /\ observed' = observed
  BY Zenon DEF Restart
<1>2. Planned(plan) /\ LifecycleIsFinite(plan)
  BY <1>1, PlannedPlan, LifecycleFinite DEF Scheduling
<1>3. RecordIsGood(plan, store, observed)
  BY DEF Recording
<1>4. PICK r1 : Adds(plan, store, repair, observed, r1) /\ IsTold(r1)
  BY <1>2, <1>3, RepairAdds
<1> HIDE DEF repair
<1>5. RecordIsGood(plan, r1, observed) /\ r1.held = store.held /\ Written(store, repair) = r1
  BY <1>3, <1>4, AddsEnd, RunsEnd DEF Adds
<1>6. PICK r2 : Adds(plan, r1, w2, observed, r2)
  BY <1>2, <1>5, ReverifiedAdds
<1> HIDE DEF w2
<1>7. RecordIsGood(plan, r2, observed) /\ r2.held = store.held /\ IsTold(r2)
  BY <1>4, <1>5, <1>6, AddsEnd
<1>8. Runs(plan, store, repair \o w2, observed, r2)
  BY <1>4, <1>6, RunsOn DEF Adds
<1>9. /\ Len(store.trail) \in Nat /\ Len(store.trail) <= Len(r2.trail)
      /\ \A t : Evidence(plan, store, t) => Evidence(plan, r2, t)
  BY <1>8, RunsFacts
<1>10. Passes(plan, r2, store.held, held, observed) /\ held \in HeldSet
  <2>1. HeldIsGood(plan, store.held, Len(store.trail), observed)
    BY <1>3 DEF RecordIsGood
  <2>2. observed => \A t \in Tasks :
          StatusOf(store.held, t) = "completed" => Evidence(plan, r2, t)
    BY <1>3, <1>9 DEF RecordIsGood, TrailIsWhole
  <2> QED
    BY <1>2, <1>7, <1>9, <2>1, <2>2, NowFacts, ClosedPasses
<1> HIDE DEF held
<1>11. PICK r3 : Runs(plan, r2, w3, observed, r3) /\ r3.held = held /\ IsTold(r3)
  <2>1. held = r2.held \/ Passes(plan, r2, r2.held, held, observed)
    BY <1>7, <1>10
  <2>2. w3 = Persisted(plan, r2.held, <<held>>)
    BY <1>7
  <2> QED
    BY <1>2, <1>7, <1>10, <2>1, <2>2, PersistsNext
<1> HIDE DEF w3
<1> DEFINE all == repair \o w2 \o w3
           after == "restored"
<1>12. Runs(plan, store, all, observed, r3)
  BY <1>8, <1>11, RunsOn
<1>13. /\ after \in {"prepared", "running", "over", "restored"}
       /\ after = "prepared" => observed /\ held = At(Nothing, Queued, 0)
       /\ after = "running" => /\ held.snapshot.status \in {"running", "stopping"}
                               /\ AgentsAreHeld(Idle, held, observed)
       /\ Do(all, held, Idle, after) /\ UNCHANGED observed
  BY <1>1
<1> HIDE DEF after, all
<1>14. Recording' /\ Extends(store, store')
  BY <1>11, <1>12, <1>13, DoKeeps
<1> QED
  BY <1>14 DEF RecordIsKept

-----------------------------------------------------------------------------
(* The invariant of the record.                                            *)

LEMMA EmptyIsGood ==
  ASSUME NEW p, NEW whole
  PROVE  RecordIsGood(p, Empty, whole) /\ IsTold(Empty)
<1>1. /\ Empty.held = Nothing /\ Empty.trail = <<>> /\ Empty.receipts = {}
      /\ DOMAIN Empty = {"held", "trail", "receipts"}
  BY DEF Empty
<1>2. /\ Nothing \in HeldSet /\ Nothing.snapshot = Absent /\ HeldIsTimed(Nothing, 0)
      /\ Absent.status = "absent" /\ Absent.cancelling = FALSE
      /\ \A t \in Tasks : ~Bound(Nothing, t) /\ StatusOf(Nothing, t) = "none"
  BY NothingFacts DEF Absent
<1>3. HeldIsSound(Nothing) /\ HeldIsOrdered(p, Nothing)
  BY <1>2 DEF HeldIsSound, HeldIsOrdered
<1>4. HeldIsGood(p, Nothing, 0, whole)
  BY <1>2, <1>3 DEF HeldIsGood
<1>5. /\ Empty.trail \in Seq(EventSet) /\ Len(Empty.trail) = 0
      /\ \A kind, t : ~Has(Empty.trail, kind, t)
  BY <1>1 DEF Has
<1>6. \A t : \A at : StartsAt(Empty.trail, t, at)
  BY <1>5 DEF StartsAt
<1>7. InOrder(Empty.trail)
  BY <1>5 DEF InOrder
<1> HIDE DEF Empty
<1>8. TrailIsWhole(p, Empty)
  BY <1>1, <1>2, <1>5, <1>6 DEF TrailIsWhole
<1>9. IsTold(Empty)
  BY <1>1, <1>2 DEF IsTold
<1>10. ReceiptsAreGood(Empty)
  BY <1>1, FS_EmptySet DEF ReceiptsAreGood
<1> QED
  BY <1>1, <1>2, <1>4, <1>5, <1>7, <1>8, <1>9, <1>10 DEF RecordIsGood

LEMMA RecordingStarts == Init => Recording
<1> SUFFICES ASSUME Init
             PROVE  Recording
  OBVIOUS
<1>1. stage = "draft" /\ live = Nothing /\ store = Empty /\ observed = TRUE /\ behind = 0
  BY DEF Init
<1>2. RecordIsGood(plan, store, observed) /\ IsTold(store)
  BY <1>1, EmptyIsGood
<1>3. live = store.held
  BY <1>1 DEF Empty
<1>4. ClockIsKept
  <2>1. Len(store.trail) = 0
    BY <1>1 DEF Empty
  <2> QED
    BY <1>1, <2>1 DEF ClockIsKept
<1> QED
  BY <1>1, <1>2, <1>3, <1>4 DEF Recording

LEMMA RefuseKeeps ==
  ASSUME Recording, Refuse
  PROVE  RecordIsKept
<1>1. /\ stage = "draft" /\ stage' = "refused" /\ plan' = plan /\ live' = live /\ store' = store
      /\ observed' = observed /\ behind' = behind
  BY DEF Refuse
<1>2. /\ RecordIsGood(plan, store, observed) /\ IsTold(store) /\ live = store.held
      /\ store = Empty /\ observed /\ observed \in BOOLEAN
  BY <1>1 DEF Recording
<1>3. Extends(store, store)
  BY <1>2, ExtendsItself
<1>4. Recording'
  <2>1. Empty' = Empty
    BY DEF Empty, Nothing, Absent, Unattempted, Untimed, Unset
  <2>2. ClockIsKept'
    BY <1>1, NowFacts, ClockStays DEF Recording
  <2> QED
    BY <1>1, <1>2, <2>1, <2>2 DEF Recording
<1> QED
  BY <1>1, <1>3, <1>4 DEF RecordIsKept

LEMMA HostStopsKeeps ==
  ASSUME Recording, HostStops
  PROVE  RecordIsKept
<1>1. /\ stage' = "down" /\ live' = Nothing /\ plan' = plan /\ store' = store
      /\ observed' = observed /\ behind' = behind
  BY DEF HostStops
<1>2. RecordIsGood(plan, store, observed) /\ observed \in BOOLEAN
  BY DEF Recording
<1>3. Extends(store, store)
  BY <1>2, ExtendsItself
<1>4. Recording'
  <2>1. ClockIsKept'
    BY <1>1, NowFacts, ClockStays DEF Recording
  <2> QED
    BY <1>1, <1>2, <2>1 DEF Recording
<1> QED
  BY <1>1, <1>3, <1>4 DEF RecordIsKept

LEMMA StutterKeeps ==
  ASSUME Recording, UNCHANGED vars
  PROVE  RecordIsKept
<1>1. /\ stage' = stage /\ live' = live /\ plan' = plan /\ store' = store
      /\ observed' = observed /\ engine' = engine /\ behind' = behind
  BY DEF vars
<1>2. Recording'
  <2>1. ClockIsKept'
    BY <1>1, NowFacts, ClockStays DEF Recording
  <2> QED
    BY <1>1, <2>1 DEF Recording
<1>3. Extends(store, store')
  BY <1>1, ExtendsItself DEF Recording
<1> QED
  BY <1>2, <1>3 DEF RecordIsKept

LEMMA RecordingSteps ==
  ASSUME Recording, Scheduling, [Next]_vars
  PROVE  RecordIsKept
<1>1. ASSUME NEW t \in Tasks, NEW outcome \in {"completed", "failed", "cancelled"},
             AgentEnds(t, outcome) \/ AgentEndIsLost(t, outcome)
      PROVE  RecordIsKept
  BY <1>1, AgentEndsKeeps, AgentEventsLostKeep
<1>2. ASSUME NEW t \in Tasks, AgentStarts(t) \/ AgentStartIsLost(t) \/ AgentRefused(t)
      PROVE  RecordIsKept
  BY <1>2, AgentStartsKeeps, AgentEventsLostKeep, AgentRefusedLeaves
<1>3. ASSUME NEW stop, NEW clean, ResultArrives(stop, clean)
      PROVE  RecordIsKept
  BY <1>3, ResultArrivesKeeps
<1>4. CASE UNCHANGED vars
  BY <1>4, StutterKeeps
<1>5. CASE Refuse \/ Prepare \/ EngineStartThrows \/ EngineStarts
  BY <1>5, RefuseKeeps, PrepareKeeps, EngineStartThrowsKeeps, EngineStartsKeeps
<1>6. CASE StrayAgentStarts \/ StrayAgentEnds \/ ClockStepsBack \/ Cancel \/ HostStops \/ Restart
  BY <1>6, StrayAgentsKeep, ClockStepsBackKeeps, CancelKeeps, HostStopsKeeps, RestartKeeps
<1> QED
  BY <1>1, <1>2, <1>3, <1>4, <1>5, <1>6, Zenon DEF Next

(* The record is good in every state: whatever the Agents do, whichever of *)
(* their events are lost and wherever the host stops                       *)
(* (persistExecutionSnapshot, recordExecutionTransitions and the repair of *)
(* a restart in index.ts).                                                 *)
THEOREM AlwaysRecording == Spec => [](Scheduling /\ Recording)
<1>1. Init => Scheduling /\ Recording
  BY SchedulingStarts, RecordingStarts
<1>2. Scheduling /\ Recording /\ [Next]_vars => (Scheduling /\ Recording)'
  BY SchedulingSteps, RecordingSteps DEF RecordIsKept
<1> QED
  BY <1>1, <1>2, PTL DEF Spec
=============================================================================
