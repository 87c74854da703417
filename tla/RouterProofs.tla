---------------------------- MODULE RouterProofs ----------------------------
(***************************************************************************)
(* The invariants of Router, for every configuration of networks, devices  *)
(* and commands and for every bound.  They are proved together: each needs *)
(* the types, ReconnectArmed needs the count of networks to be right, and  *)
(* the count needs to know that a router starts with no network connected. *)
(***************************************************************************)
EXTENDS Router, FiniteSetTheorems, SequenceTheorems, WellFoundedInduction, TLAPS

-----------------------------------------------------------------------------
(***************************************************************************)
(* What the kept part of a list contains (Subsequence)                     *)
(***************************************************************************)

\* A nonempty set of natural numbers has a least element: induction, in the form
\* of a least counterexample.
LEMMA LeastNatural ==
    ASSUME NEW T, T \subseteq Nat, T # {}
    PROVE  \E x \in T : \A y \in T : x <= y
<1> DEFINE R == OpToRel(<, Nat)
<1>1. R = {ss \in Nat \X Nat : ss[1] < ss[2]}
  BY Zenon DEF OpToRel
<1>2. \E x \in T : \A y \in T : ~ (<<y, x>> \in R)
  <2>1. IsWellFoundedOn(R, Nat)
    BY NatLessThanWellFounded
  <2> HIDE DEF R
  <2>2. QED
    BY <2>1, WFMin
<1> HIDE DEF R
<1>3. PICK x \in T : \A y \in T : ~ (<<y, x>> \in R)
  BY <1>2
<1>4. \A y, z \in Nat : <<y, z>> \in R <=> y < z
  BY <1>1
<1>5. ASSUME NEW y \in T PROVE x <= y
  <2>1. x \in Nat /\ y \in Nat
    OBVIOUS
  <2>2. ~ (y < x)
    BY <1>3, <1>4, <2>1
  <2>3. QED
    BY <2>1, <2>2
<1>6. QED
  BY <1>5

\* Induction up to a bound, over a set.
LEMMA UpTo ==
    ASSUME NEW n \in Nat, NEW T, 0 \in T, \A k \in 0 .. n - 1 : k \in T => k + 1 \in T
    PROVE  \A k \in 0 .. n : k \in T
<1> DEFINE Bad == {k \in 0 .. n : k \notin T}
<1>1. SUFFICES ASSUME Bad # {} PROVE FALSE
  OBVIOUS
<1>2. PICK k \in Bad : \A m \in Bad : k <= m
  <2>1. Bad \subseteq Nat
    OBVIOUS
  <2> HIDE DEF Bad
  <2> QED
    BY <1>1, <2>1, LeastNatural
<1>3. k # 0 /\ k \in 0 .. n
  OBVIOUS
<1>4. k - 1 \in 0 .. n - 1 /\ (k - 1) + 1 = k /\ ~ (k <= k - 1) /\ k - 1 \in 0 .. n
  BY <1>3
<1>5. k - 1 \in T
  BY <1>2, <1>4
<1>6. (k - 1) + 1 \in T
  BY <1>4, <1>5
<1> QED
  BY <1>2, <1>4, <1>6

\* One step of the recursion in Kept.
KeptStep(s, K, upTo, i) ==
    IF i = 0 THEN << >>
    ELSE IF s[i] \in K THEN Append(upTo[i - 1], s[i])
                       ELSE upTo[i - 1]

\* The recursive function in the definition of Kept exists, for each prefix of
\* the list.
LEMMA KeptPrefixExists ==
    ASSUME NEW S, NEW s \in Seq(S), NEW K
    PROVE  \A n \in 0 .. Len(s) : \E F : F = [i \in 0 .. n |-> KeptStep(s, K, F, i)]
<1> DEFINE Good(n) == \E F : F = [i \in 0 .. n |-> KeptStep(s, K, F, i)]
           Bad == {n \in 0 .. Len(s) : ~ Good(n)}
<1>1. SUFFICES ASSUME Bad # {} PROVE FALSE
  OBVIOUS
<1>2. PICK n \in Bad : \A m \in Bad : n <= m
  <2>1. Bad \subseteq Nat
    OBVIOUS
  <2> HIDE DEF Bad
  <2>2. QED
    BY <1>1, <2>1, LeastNatural
<1>3. n # 0
  <2>1. [i \in 0 .. 0 |-> << >>]
           = [i \in 0 .. 0 |-> KeptStep(s, K, [j \in 0 .. 0 |-> << >>], i)]
    BY DEF KeptStep
  <2>2. QED
    BY <2>1, <1>2
<1>4. PICK F : F = [i \in 0 .. (n - 1) |-> KeptStep(s, K, F, i)]
  BY <1>2, <1>3
<1> DEFINE G == [i \in 0 .. n |-> IF i < n THEN F[i] ELSE KeptStep(s, K, F, i)]
<1>5. ASSUME NEW i \in 0 .. n PROVE G[i] = KeptStep(s, K, G, i)
  <2>1. CASE i < n
    <3>1. G[i] = KeptStep(s, K, F, i)
      BY <2>1, <1>4
    <3>2. i # 0 => G[i - 1] = F[i - 1]
      BY <2>1
    <3>3. QED
      BY <3>1, <3>2 DEF KeptStep
  <2>2. CASE i = n
    BY <2>2, <1>3, <1>4, n - 1 \in 0 .. n DEF KeptStep
  <2>3. QED
    BY <2>1, <2>2
<1>6. G = [i \in 0 .. n |-> KeptStep(s, K, G, i)]
  BY <1>5
<1>7. QED
  BY <1>2, <1>6

\* Kept is the last value of a function that satisfies the recursion.
LEMMA KeptUnfolds ==
    ASSUME NEW S, NEW s \in Seq(S), NEW K
    PROVE  \E F : /\ F = [i \in 0 .. Len(s) |-> KeptStep(s, K, F, i)]
                  /\ Kept(s, K) = F[Len(s)]
<1> DEFINE F == CHOOSE G : G = [i \in 0 .. Len(s) |-> KeptStep(s, K, G, i)]
<1>1. F = [i \in 0 .. Len(s) |-> KeptStep(s, K, F, i)]
  <2>1. \E G : G = [i \in 0 .. Len(s) |-> KeptStep(s, K, G, i)]
    BY KeptPrefixExists, Len(s) \in 0 .. Len(s)
  <2>2. QED
    BY <2>1
<1>2. Kept(s, K) = F[Len(s)]
  BY Zenon DEF Kept, KeptStep
<1>3. QED
  BY <1>1, <1>2

\* remove_if and erase leave a list of the kept elements: nothing that was
\* removed is left, and nothing is invented.
THEOREM KeptInSeq ==
    ASSUME NEW S, NEW s \in Seq(S), NEW K
    PROVE  Kept(s, K) \in Seq(S \cap K)
<1> DEFINE P == S \cap K
<1>1. PICK F : /\ F = [i \in 0 .. Len(s) |-> KeptStep(s, K, F, i)]
               /\ Kept(s, K) = F[Len(s)]
  BY KeptUnfolds
<1> DEFINE Bad == {n \in 0 .. Len(s) : F[n] \notin Seq(P)}
<1>2. Len(s) \in 0 .. Len(s)
  OBVIOUS
<1>3. SUFFICES ASSUME Bad # {} PROVE FALSE
  BY <1>1, <1>2
<1>4. PICK n \in Bad : \A m \in Bad : n <= m
  <2>1. Bad \subseteq Nat
    OBVIOUS
  <2> HIDE DEF Bad
  <2>2. QED
    BY <1>3, <2>1, LeastNatural
<1>5. n # 0
  BY <1>1 DEF KeptStep
<1>6. F[n - 1] \in Seq(P)
  BY <1>4, <1>5
<1>7. F[n] = IF s[n] \in K THEN Append(F[n - 1], s[n]) ELSE F[n - 1]
  BY <1>1, <1>5 DEF KeptStep
<1>8. s[n] \in K => s[n] \in P
  BY <1>5
<1>9. F[n] \in Seq(P)
  <2> HIDE DEF P
  <2>1. QED
    BY <1>6, <1>7, <1>8
<1>10. QED
  BY <1>4, <1>9

\* The elements of the kept part are elements of the list that were kept.
THEOREM KeptElements ==
    ASSUME NEW S, NEW s \in Seq(S), NEW K
    PROVE  /\ Kept(s, K) \in Seq(S)
           /\ ElementsOf(Kept(s, K)) \subseteq ElementsOf(s) \cap K
<1>1. s \in Seq(ElementsOf(s))
  BY DEF ElementsOf
<1> DEFINE E == ElementsOf(s) \cap K
           k == Kept(s, K)
<1>2. k \in Seq(E)
  BY <1>1, KeptInSeq
<1>3. E \subseteq S
  BY DEF ElementsOf
<1> HIDE DEF E, k
<1>4. k \in Seq(S)
  BY <1>2, <1>3
<1>5. ElementsOf(k) \subseteq E
  BY <1>2 DEF ElementsOf
<1>6. QED
  BY <1>4, <1>5 DEF E, k

\* push_back adds one element, pop_front adds none.
LEMMA PushPopElements ==
    ASSUME NEW S, NEW s \in Seq(S), NEW e
    PROVE  /\ ElementsOf(Append(s, e)) = ElementsOf(s) \cup {e}
           /\ s # << >> => /\ Tail(s) \in Seq(S)
                           /\ Head(s) \in S
                           /\ ElementsOf(Tail(s)) \subseteq ElementsOf(s)
           /\ ElementsOf(<< >>) = {}
<1>1. ElementsOf(Append(s, e)) \subseteq ElementsOf(s) \cup {e}
  BY DEF ElementsOf
<1>2. ElementsOf(s) \cup {e} \subseteq ElementsOf(Append(s, e))
  <2>1. \A i \in DOMAIN s : i \in DOMAIN Append(s, e) /\ Append(s, e)[i] = s[i]
    OBVIOUS
  <2>2. Len(s) + 1 \in DOMAIN Append(s, e) /\ Append(s, e)[Len(s) + 1] = e
    OBVIOUS
  <2>3. QED
    BY <2>1, <2>2, Zenon DEF ElementsOf
<1>3. s # << >> => /\ Tail(s) \in Seq(S)
                   /\ Head(s) \in S
                   /\ ElementsOf(Tail(s)) \subseteq ElementsOf(s)
  BY DEF ElementsOf
<1>4. ElementsOf(<< >>) = {}
  BY DEF ElementsOf
<1>5. QED
  BY <1>1, <1>2, <1>3, <1>4

\* C[i] is the number of the first i elements of s that are in K.
Counts(C, s, K) ==
    /\ C \in [0 .. Len(s) -> Nat]
    /\ C[0] = 0
    /\ \A i \in 1 .. Len(s) : C[i] = IF s[i] \in K THEN C[i - 1] + 1 ELSE C[i - 1]

\* CountOf counts element by element.
LEMMA CountUnfolds ==
    ASSUME NEW S, NEW s \in Seq(S), NEW K
    PROVE  \E C : Counts(C, s, K) /\ CountOf(s, K) = C[Len(s)]
<1>0. Len(s) \in Nat /\ \A i \in 1 .. Len(s) : s[i] \in S /\ i \in Nat /\ i - 1 \in 0 .. Len(s)
  OBVIOUS
<1>1. PICK F : /\ F = [i \in 0 .. Len(s) |-> KeptStep(s, K, F, i)]
               /\ Kept(s, K) = F[Len(s)]
  BY KeptUnfolds
<1>2. F[0] = << >>
  BY <1>0, <1>1 DEF KeptStep
<1>3. ASSUME NEW i \in 1 .. Len(s)
      PROVE  F[i] = IF s[i] \in K THEN Append(F[i - 1], s[i]) ELSE F[i - 1]
  <2>1. i \in 0 .. Len(s) /\ i # 0
    BY <1>0
  <2>2. F[i] = KeptStep(s, K, F, i)
    BY <1>1, <2>1
  <2> QED
    BY <2>1, <2>2 DEF KeptStep
<1> DEFINE T == {i \in 0 .. Len(s) : F[i] \in Seq(S)}
<1>4. 0 \in T
  <2>1. 0 \in 0 .. Len(s) /\ << >> \in Seq(S)
    BY <1>0
  <2> QED
    BY <1>2, <2>1
<1>5. ASSUME NEW k \in 0 .. Len(s) - 1, k \in T PROVE k + 1 \in T
  <2>1. k + 1 \in 1 .. Len(s) /\ (k + 1) - 1 = k /\ k + 1 \in 0 .. Len(s)
    BY <1>0
  <2>2. F[k + 1] = IF s[k + 1] \in K THEN Append(F[k], s[k + 1]) ELSE F[k]
    BY <1>3, <2>1
  <2>3. F[k] \in Seq(S) /\ s[k + 1] \in S
    BY <1>0, <1>5, <2>1
  <2>4. F[k + 1] \in Seq(S)
    BY <2>2, <2>3
  <2> QED
    BY <2>1, <2>4
<1> HIDE DEF T
<1>6. \A k \in 0 .. Len(s) : k \in T
  BY <1>0, <1>4, <1>5, UpTo
<1>7. \A k \in 0 .. Len(s) : F[k] \in Seq(S)
  BY <1>6 DEF T
<1> DEFINE C == [i \in 0 .. Len(s) |-> Len(F[i])]
<1>8. C \in [0 .. Len(s) -> Nat]
  BY <1>7
<1>9. C[0] = 0
  BY <1>0, <1>2
<1>10. ASSUME NEW i \in 1 .. Len(s)
       PROVE  C[i] = IF s[i] \in K THEN C[i - 1] + 1 ELSE C[i - 1]
  <2>1. i \in 0 .. Len(s) /\ i - 1 \in 0 .. Len(s) /\ s[i] \in S
    BY <1>0
  <2>2. C[i] = Len(F[i]) /\ C[i - 1] = Len(F[i - 1]) /\ F[i - 1] \in Seq(S)
    BY <1>7, <2>1
  <2>3. Len(Append(F[i - 1], s[i])) = Len(F[i - 1]) + 1
    BY <2>1, <2>2
  <2> QED
    BY <1>3, <2>2, <2>3
<1>11. C[Len(s)] = CountOf(s, K)
  BY <1>0, <1>1 DEF CountOf
<1> HIDE DEF C
<1>12. Counts(C, s, K)
  BY <1>8, <1>9, <1>10 DEF Counts
<1> QED
  BY <1>11, <1>12

LEMMA CountIsNatural ==
    ASSUME NEW S, NEW s \in Seq(S), NEW K
    PROVE  CountOf(s, K) \in Nat
<1>1. PICK C : Counts(C, s, K) /\ CountOf(s, K) = C[Len(s)]
  BY CountUnfolds
<1>2. Len(s) \in 0 .. Len(s)
  OBVIOUS
<1> QED
  BY <1>1, <1>2 DEF Counts

\* Two lists of one length that agree on which positions count have one count.
LEMMA SameCount ==
    ASSUME NEW S, NEW s \in Seq(S), NEW K, NEW S2, NEW t \in Seq(S2), NEW L,
           Len(s) = Len(t), \A i \in 1 .. Len(s) : s[i] \in K <=> t[i] \in L
    PROVE  CountOf(s, K) = CountOf(t, L)
<1>0. Len(s) \in Nat
  OBVIOUS
<1>1. PICK C : Counts(C, s, K) /\ CountOf(s, K) = C[Len(s)]
  BY CountUnfolds
<1>2. PICK D : Counts(D, t, L) /\ CountOf(t, L) = D[Len(t)]
  BY CountUnfolds
<1> DEFINE T == {i \in 0 .. Len(s) : C[i] = D[i]}
<1>3. 0 \in T
  BY <1>0, <1>1, <1>2 DEF Counts
<1>4. ASSUME NEW k \in 0 .. Len(s) - 1, k \in T PROVE k + 1 \in T
  <2>1. k + 1 \in 1 .. Len(s) /\ (k + 1) - 1 = k /\ k + 1 \in 0 .. Len(s)
    BY <1>0
  <2>2. C[k + 1] = IF s[k + 1] \in K THEN C[k] + 1 ELSE C[k]
    BY <1>1, <2>1 DEF Counts
  <2>3. D[k + 1] = IF t[k + 1] \in L THEN D[k] + 1 ELSE D[k]
    BY <1>2, <2>1 DEF Counts
  <2> QED
    BY <1>4, <2>1, <2>2, <2>3
<1> HIDE DEF T
<1>5. \A k \in 0 .. Len(s) : k \in T
  BY <1>0, <1>3, <1>4, UpTo
<1>6. Len(s) \in T
  BY <1>0, <1>5
<1> QED
  BY <1>1, <1>2, <1>6 DEF T

\* push_back
LEMMA CountAppend ==
    ASSUME NEW S, NEW s \in Seq(S), NEW e \in S, NEW K
    PROVE  CountOf(Append(s, e), K) = IF e \in K THEN CountOf(s, K) + 1 ELSE CountOf(s, K)
<1> DEFINE t == Append(s, e)
<1>0. /\ Len(s) \in Nat /\ t \in Seq(S) /\ Len(t) = Len(s) + 1
      /\ \A i \in 1 .. Len(s) : t[i] = s[i]
      /\ t[Len(s) + 1] = e
  OBVIOUS
<1> HIDE DEF t
<1>1. PICK C : Counts(C, s, K) /\ CountOf(s, K) = C[Len(s)]
  BY CountUnfolds
<1>2. PICK D : Counts(D, t, K) /\ CountOf(t, K) = D[Len(t)]
  BY <1>0, CountUnfolds
<1> DEFINE T == {i \in 0 .. Len(s) : C[i] = D[i]}
<1>3. 0 \in T
  BY <1>0, <1>1, <1>2 DEF Counts
<1>4. ASSUME NEW k \in 0 .. Len(s) - 1, k \in T PROVE k + 1 \in T
  <2>1. k + 1 \in 1 .. Len(s) /\ (k + 1) - 1 = k /\ k + 1 \in 0 .. Len(s) /\ k + 1 \in 1 .. Len(t)
    BY <1>0
  <2>2. C[k + 1] = IF s[k + 1] \in K THEN C[k] + 1 ELSE C[k]
    BY <1>1, <2>1 DEF Counts
  <2>3. D[k + 1] = IF t[k + 1] \in K THEN D[k] + 1 ELSE D[k]
    BY <1>2, <2>1 DEF Counts
  <2> QED
    BY <1>0, <1>4, <2>1, <2>2, <2>3
<1> HIDE DEF T
<1>5. \A k \in 0 .. Len(s) : k \in T
  BY <1>0, <1>3, <1>4, UpTo
<1>6. C[Len(s)] = D[Len(s)]
  BY <1>0, <1>5 DEF T
<1>7. Len(t) \in 1 .. Len(t) /\ Len(t) - 1 = Len(s)
  BY <1>0
<1>8. D[Len(t)] = IF t[Len(t)] \in K THEN D[Len(s)] + 1 ELSE D[Len(s)]
  BY <1>2, <1>7 DEF Counts
<1> QED
  BY <1>0, <1>1, <1>2, <1>6, <1>8 DEF t

LEMMA CountEmpty == \A K : CountOf(<< >>, K) = 0
<1> SUFFICES ASSUME NEW K PROVE CountOf(<< >>, K) = 0
  OBVIOUS
<1>1. << >> \in Seq({}) /\ Len(<< >>) = 0
  OBVIOUS
<1>2. PICK C : Counts(C, << >>, K) /\ CountOf(<< >>, K) = C[Len(<< >>)]
  BY <1>1, CountUnfolds
<1> QED
  BY <1>1, <1>2 DEF Counts

\* pop_front
LEMMA CountTail ==
    ASSUME NEW S, NEW s \in Seq(S), s # << >>, NEW K
    PROVE  CountOf(s, K) = IF Head(s) \in K THEN CountOf(Tail(s), K) + 1 ELSE CountOf(Tail(s), K)
<1> DEFINE t == Tail(s)
           one == IF Head(s) \in K THEN 1 ELSE 0
<1>0. /\ Len(s) \in Nat /\ t \in Seq(S) /\ Len(s) = Len(t) + 1 /\ Len(t) \in Nat
      /\ \A i \in 1 .. Len(t) : t[i] = s[i + 1]
      /\ s[1] = Head(s)
  OBVIOUS
<1>a. one \in Nat /\ one = IF Head(s) \in K THEN 1 ELSE 0
  OBVIOUS
<1> HIDE DEF t, one
<1>1. PICK C : Counts(C, s, K) /\ CountOf(s, K) = C[Len(s)]
  BY CountUnfolds
<1>2. PICK D : Counts(D, t, K) /\ CountOf(t, K) = D[Len(t)]
  BY <1>0, CountUnfolds
<1>b. D \in [0 .. Len(t) -> Nat]
  BY <1>2 DEF Counts
<1> DEFINE T == {i \in 0 .. Len(t) : C[i + 1] = D[i] + one}
<1>3. 0 \in T
  <2>1. 1 \in 1 .. Len(s) /\ 1 - 1 = 0 /\ 0 + 1 = 1 /\ 0 \in 0 .. Len(t)
    BY <1>0
  <2>2. C[1] = IF s[1] \in K THEN C[0] + 1 ELSE C[0]
    BY <1>1, <2>1 DEF Counts
  <2>3. C[0] = 0 /\ D[0] = 0
    BY <1>1, <1>2 DEF Counts
  <2> QED
    BY <1>0, <1>a, <2>1, <2>2, <2>3
<1>4. ASSUME NEW k \in 0 .. Len(t) - 1, k \in T PROVE k + 1 \in T
  <2>1. /\ k + 1 \in 1 .. Len(t) /\ (k + 1) - 1 = k /\ k + 1 \in 0 .. Len(t)
        /\ (k + 1) + 1 \in 1 .. Len(s) /\ ((k + 1) + 1) - 1 = k + 1 /\ k \in 0 .. Len(t)
    BY <1>0
  <2>2. C[(k + 1) + 1] = IF s[(k + 1) + 1] \in K THEN C[k + 1] + 1 ELSE C[k + 1]
    BY <1>1, <2>1 DEF Counts
  <2>3. D[k + 1] = IF t[k + 1] \in K THEN D[k] + 1 ELSE D[k]
    BY <1>2, <2>1 DEF Counts
  <2>4. t[k + 1] = s[(k + 1) + 1]
    BY <1>0, <2>1
  <2>5. C[k + 1] = D[k] + one /\ D[k] \in Nat
    BY <1>4, <1>b, <2>1
  <2>6. C[(k + 1) + 1] = D[k + 1] + one
    BY <1>a, <2>2, <2>3, <2>4, <2>5
  <2> QED
    BY <2>1, <2>6
<1> HIDE DEF T
<1>5. \A k \in 0 .. Len(t) : k \in T
  BY <1>0, <1>3, <1>4, UpTo
<1>6. C[Len(t) + 1] = D[Len(t)] + one /\ D[Len(t)] \in Nat
  BY <1>0, <1>5, <1>b DEF T
<1>7. CountOf(s, K) = CountOf(t, K) + one /\ CountOf(t, K) \in Nat
  BY <1>0, <1>1, <1>2, <1>6
<1> QED
  BY <1>7, <1>a DEF t

\* A list put at the end of another
LEMMA CountConcat ==
    ASSUME NEW S, NEW s \in Seq(S), NEW t \in Seq(S), NEW K
    PROVE  CountOf(s \o t, K) = CountOf(s, K) + CountOf(t, K)
<1> DEFINE u == s \o t
<1>0. /\ Len(s) \in Nat /\ Len(t) \in Nat /\ u \in Seq(S) /\ Len(u) = Len(s) + Len(t)
      /\ \A i \in 1 .. Len(s) : u[i] = s[i]
      /\ \A i \in 1 .. Len(t) : u[Len(s) + i] = t[i]
  OBVIOUS
<1> HIDE DEF u
<1>1. PICK C : Counts(C, s, K) /\ CountOf(s, K) = C[Len(s)]
  BY CountUnfolds
<1>2. PICK D : Counts(D, t, K) /\ CountOf(t, K) = D[Len(t)]
  BY CountUnfolds
<1>3. PICK E : Counts(E, u, K) /\ CountOf(u, K) = E[Len(u)]
  BY <1>0, CountUnfolds
<1>a. C[Len(s)] \in Nat /\ D \in [0 .. Len(t) -> Nat]
  BY <1>0, <1>1, <1>2 DEF Counts
<1> DEFINE T == {i \in 0 .. Len(s) : E[i] = C[i]}
<1>4. 0 \in T
  BY <1>0, <1>1, <1>3 DEF Counts
<1>5. ASSUME NEW k \in 0 .. Len(s) - 1, k \in T PROVE k + 1 \in T
  <2>1. k + 1 \in 1 .. Len(s) /\ (k + 1) - 1 = k /\ k + 1 \in 0 .. Len(s) /\ k + 1 \in 1 .. Len(u)
    BY <1>0
  <2>2. C[k + 1] = IF s[k + 1] \in K THEN C[k] + 1 ELSE C[k]
    BY <1>1, <2>1 DEF Counts
  <2>3. E[k + 1] = IF u[k + 1] \in K THEN E[k] + 1 ELSE E[k]
    BY <1>3, <2>1 DEF Counts
  <2> QED
    BY <1>0, <1>5, <2>1, <2>2, <2>3
<1> HIDE DEF T
<1>6. \A k \in 0 .. Len(s) : k \in T
  BY <1>0, <1>4, <1>5, UpTo
<1>7. E[Len(s)] = C[Len(s)]
  BY <1>0, <1>6 DEF T
<1> DEFINE V == {i \in 0 .. Len(t) : E[Len(s) + i] = C[Len(s)] + D[i]}
<1>8. 0 \in V
  <2>1. D[0] = 0 /\ 0 \in 0 .. Len(t) /\ Len(s) + 0 = Len(s)
    BY <1>0, <1>2 DEF Counts
  <2> QED
    BY <1>a, <1>7, <2>1
<1>9. ASSUME NEW k \in 0 .. Len(t) - 1, k \in V PROVE k + 1 \in V
  <2>1. /\ k + 1 \in 1 .. Len(t) /\ (k + 1) - 1 = k /\ k + 1 \in 0 .. Len(t) /\ k \in 0 .. Len(t)
        /\ Len(s) + (k + 1) \in 1 .. Len(u) /\ (Len(s) + (k + 1)) - 1 = Len(s) + k
    BY <1>0
  <2>2. D[k + 1] = IF t[k + 1] \in K THEN D[k] + 1 ELSE D[k]
    BY <1>2, <2>1 DEF Counts
  <2>3. E[Len(s) + (k + 1)] = IF u[Len(s) + (k + 1)] \in K THEN E[Len(s) + k] + 1 ELSE E[Len(s) + k]
    BY <1>3, <2>1 DEF Counts
  <2>4. u[Len(s) + (k + 1)] = t[k + 1]
    BY <1>0, <2>1
  <2>5. E[Len(s) + k] = C[Len(s)] + D[k] /\ D[k] \in Nat
    BY <1>9, <1>a, <2>1
  <2>6. E[Len(s) + (k + 1)] = C[Len(s)] + D[k + 1]
    <3>1. \A x, y \in Nat : (x + y) + 1 = x + (y + 1)
      OBVIOUS
    <3>2. (C[Len(s)] + D[k]) + 1 = C[Len(s)] + (D[k] + 1)
      BY <1>a, <2>5, <3>1
    <3>3. CASE t[k + 1] \in K
      <4>1. E[Len(s) + (k + 1)] = E[Len(s) + k] + 1 /\ D[k + 1] = D[k] + 1
        BY <2>2, <2>3, <2>4, <3>3
      <4> QED
        BY <2>5, <3>2, <4>1
    <3>4. CASE t[k + 1] \notin K
      <4>1. E[Len(s) + (k + 1)] = E[Len(s) + k] /\ D[k + 1] = D[k]
        BY <2>2, <2>3, <2>4, <3>4
      <4> QED
        BY <2>5, <4>1
    <3> QED
      BY <3>3, <3>4
  <2> QED
    BY <2>1, <2>6
<1> HIDE DEF V
<1>10. \A k \in 0 .. Len(t) : k \in V
  BY <1>0, <1>8, <1>9, UpTo
<1>11. E[Len(s) + Len(t)] = C[Len(s)] + D[Len(t)]
  BY <1>0, <1>10 DEF V
<1> QED
  BY <1>0, <1>1, <1>2, <1>3, <1>11 DEF u

\* What counts is in the one part or in the other.
LEMMA CountSplit ==
    ASSUME NEW S, NEW s \in Seq(S), NEW K, NEW L, NEW M,
           K = L \cup M, L \cap M = {}
    PROVE  CountOf(s, K) = CountOf(s, L) + CountOf(s, M)
<1>0. Len(s) \in Nat
  OBVIOUS
<1>1. PICK C : Counts(C, s, K) /\ CountOf(s, K) = C[Len(s)]
  BY CountUnfolds
<1>2. PICK D : Counts(D, s, L) /\ CountOf(s, L) = D[Len(s)]
  BY CountUnfolds
<1>3. PICK E : Counts(E, s, M) /\ CountOf(s, M) = E[Len(s)]
  BY CountUnfolds
<1>a. D \in [0 .. Len(s) -> Nat] /\ E \in [0 .. Len(s) -> Nat]
  BY <1>2, <1>3 DEF Counts
<1> DEFINE T == {i \in 0 .. Len(s) : C[i] = D[i] + E[i]}
<1>4. 0 \in T
  BY <1>0, <1>1, <1>2, <1>3 DEF Counts
<1>5. ASSUME NEW k \in 0 .. Len(s) - 1, k \in T PROVE k + 1 \in T
  <2>1. k + 1 \in 1 .. Len(s) /\ (k + 1) - 1 = k /\ k + 1 \in 0 .. Len(s) /\ k \in 0 .. Len(s)
    BY <1>0
  <2>2. C[k + 1] = IF s[k + 1] \in K THEN C[k] + 1 ELSE C[k]
    BY <1>1, <2>1 DEF Counts
  <2>3. D[k + 1] = IF s[k + 1] \in L THEN D[k] + 1 ELSE D[k]
    BY <1>2, <2>1 DEF Counts
  <2>4. E[k + 1] = IF s[k + 1] \in M THEN E[k] + 1 ELSE E[k]
    BY <1>3, <2>1 DEF Counts
  <2>5. C[k] = D[k] + E[k] /\ D[k] \in Nat /\ E[k] \in Nat
    BY <1>5, <1>a, <2>1
  <2>6. C[k + 1] = D[k + 1] + E[k + 1]
    BY <2>2, <2>3, <2>4, <2>5
  <2> QED
    BY <2>1, <2>6
<1> HIDE DEF T
<1>6. \A k \in 0 .. Len(s) : k \in T
  BY <1>0, <1>4, <1>5, UpTo
<1>7. C[Len(s)] = D[Len(s)] + E[Len(s)]
  BY <1>0, <1>6 DEF T
<1> QED
  BY <1>1, <1>2, <1>3, <1>7

\* remove_if and erase: what counts afterwards counted before, and was kept.
LEMMA CountKept ==
    ASSUME NEW S, NEW s \in Seq(S), NEW K, NEW L
    PROVE  CountOf(Kept(s, K), L) = CountOf(s, K \cap L)
<1>0. Len(s) \in Nat /\ \A i \in 1 .. Len(s) : s[i] \in S /\ i \in Nat
  OBVIOUS
<1>1. PICK F : /\ F = [i \in 0 .. Len(s) |-> KeptStep(s, K, F, i)]
               /\ Kept(s, K) = F[Len(s)]
  BY KeptUnfolds
<1>2. F[0] = << >>
  BY <1>0, <1>1 DEF KeptStep
<1>3. ASSUME NEW i \in 1 .. Len(s)
      PROVE  F[i] = IF s[i] \in K THEN Append(F[i - 1], s[i]) ELSE F[i - 1]
  <2>1. i \in 0 .. Len(s) /\ i # 0
    BY <1>0
  <2>2. F[i] = KeptStep(s, K, F, i)
    BY <1>1, <2>1
  <2> QED
    BY <2>1, <2>2 DEF KeptStep
<1>4. PICK C : Counts(C, s, K \cap L) /\ CountOf(s, K \cap L) = C[Len(s)]
  BY CountUnfolds
<1> DEFINE T == {i \in 0 .. Len(s) : F[i] \in Seq(S) /\ CountOf(F[i], L) = C[i]}
<1>5. 0 \in T
  <2>1. C[0] = 0 /\ CountOf(F[0], L) = 0
    BY <1>2, <1>4, CountEmpty DEF Counts
  <2>2. 0 \in 0 .. Len(s) /\ << >> \in Seq(S)
    BY <1>0
  <2> QED
    BY <1>2, <2>1, <2>2
<1>6. ASSUME NEW k \in 0 .. Len(s) - 1, k \in T PROVE k + 1 \in T
  <2>1. k + 1 \in 1 .. Len(s) /\ (k + 1) - 1 = k /\ k + 1 \in 0 .. Len(s)
    BY <1>0
  <2>2. F[k + 1] = IF s[k + 1] \in K THEN Append(F[k], s[k + 1]) ELSE F[k]
    BY <1>3, <2>1
  <2>3. C[k + 1] = IF s[k + 1] \in K \cap L THEN C[k] + 1 ELSE C[k]
    BY <1>4, <2>1 DEF Counts
  <2>4. F[k] \in Seq(S) /\ s[k + 1] \in S /\ CountOf(F[k], L) = C[k]
    BY <1>0, <1>6, <2>1
  <2>5. F[k + 1] \in Seq(S)
    BY <2>2, <2>4
  <2>6. CountOf(Append(F[k], s[k + 1]), L)
           = IF s[k + 1] \in L THEN CountOf(F[k], L) + 1 ELSE CountOf(F[k], L)
    BY <2>4, CountAppend
  <2>7. CountOf(F[k + 1], L) = C[k + 1]
    BY <2>2, <2>3, <2>4, <2>6
  <2> QED
    BY <2>1, <2>5, <2>7
<1> HIDE DEF T
<1>7. \A k \in 0 .. Len(s) : k \in T
  BY <1>0, <1>5, <1>6, UpTo
<1>8. CountOf(F[Len(s)], L) = C[Len(s)]
  BY <1>0, <1>7 DEF T
<1> QED
  BY <1>1, <1>4, <1>8

-----------------------------------------------------------------------------
(***************************************************************************)
(* The invariants                                                          *)
(***************************************************************************)

\* A router that is not started has no connected network.
StoppedDisconnected == status = "stopped" => Connected = {}

\* The inductive invariant.
RouterInv ==
    /\ TypeOK
    /\ SendTimerArmed
    /\ NetworksCounted
    /\ ReconnectArmed
    /\ RepliesAwaitedOnConnectedNetworks
    /\ SubscriptionsOwned
    /\ StoppedDisconnected

-----------------------------------------------------------------------------

\* Sets of networks are finite, and all networks are counted only when all
\* are in the set: update_reconnect_timer()'s comparison of two numbers.
LEMMA NetworkCounts ==
    ASSUME NEW T \in SUBSET Networks
    PROVE  /\ IsFiniteSet(T)
           /\ Cardinality(T) \in 0 .. Cardinality(Networks)
           /\ Cardinality(Networks) \in Nat
           /\ Cardinality(T) < Cardinality(Networks) <=> T # Networks
<1>1. IsFiniteSet(Networks)
  BY ConfigAssumption
<1>2. /\ IsFiniteSet(T)
      /\ Cardinality(T) <= Cardinality(Networks)
      /\ Cardinality(Networks) = Cardinality(T) => Networks = T
  BY <1>1, FS_Subset
<1>3. Cardinality(T) \in Nat /\ Cardinality(Networks) \in Nat
  BY <1>1, <1>2, FS_CardinalityType
<1>4. QED
  BY <1>2, <1>3

\* connect_networks() adds the networks that answered, and counts them.
LEMMA ConnectCounts ==
    ASSUME TypeOK, NetworksCounted,
           NEW reached \in SUBSET (Networks \ Connected),
           ConnectNetworks(reached)
    PROVE  /\ networks' \in [Networks -> {"down", "up", "error"}]
           /\ network_buffer' \in [Networks -> 0 .. BufferLimit]
           /\ Connected' = Connected \cup reached
           /\ NetworksCounted'
           /\ connected_networks' \in 0 .. Cardinality(Networks)
           /\ connected_networks' = connected_networks + Cardinality(reached)
           /\ \A n \in Networks : networks[n] # "down" => networks'[n] # "down"
<1>1. /\ networks' \in [Networks -> {"down", "up", "error"}]
      /\ network_buffer' \in [Networks -> 0 .. BufferLimit]
  BY DEF TypeOK, ConnectNetworks
<1>2. \A n \in Networks : networks'[n] = IF n \in reached THEN "up" ELSE networks[n]
  BY DEF ConnectNetworks
<1>3. Connected' = Connected \cup reached
  BY <1>2 DEF Connected
<1>4. Connected \in SUBSET Networks /\ Connected' \in SUBSET Networks
  BY DEF Connected
<1>5. IsFiniteSet(Connected) /\ IsFiniteSet(reached)
  BY <1>4, NetworkCounts
<1>6. Cardinality(Connected \cup reached) = Cardinality(Connected) + Cardinality(reached)
  <2>1. Cardinality(Connected \cup reached) =
           Cardinality(Connected) + Cardinality(reached) - Cardinality(Connected \cap reached)
    BY <1>5, FS_Union
  <2>2. Cardinality(Connected \cap reached) = 0
    <3>1. Connected \cap reached = {}
      OBVIOUS
    <3>2. QED
      BY <3>1, FS_EmptySet
  <2>3. Cardinality(Connected) \in Nat /\ Cardinality(reached) \in Nat
    BY <1>5, FS_CardinalityType
  <2>4. QED
    BY <2>1, <2>2, <2>3
<1>7. connected_networks' = connected_networks + Cardinality(reached)
  BY DEF ConnectNetworks
<1>8. NetworksCounted'
  BY <1>3, <1>6, <1>7 DEF NetworksCounted
<1>9. connected_networks' \in 0 .. Cardinality(Networks)
  BY <1>8, <1>4, NetworkCounts DEF NetworksCounted
<1>10. QED
  BY <1>1, <1>2, <1>3, <1>7, <1>8, <1>9

\* disconnect_network(n) of a connected network takes one network and its reply
\* filters away, and starts the reconnect timer.
LEMMA DisconnectCounts ==
    ASSUME TypeOK, NetworksCounted, RepliesAwaitedOnConnectedNetworks, SubscriptionsOwned,
           NEW n \in Networks, networks[n] # "down",
           DisconnectNetwork(n), UNCHANGED connections
    PROVE  /\ networks' \in [Networks -> {"down", "up", "error"}]
           /\ network_buffer' \in [Networks -> 0 .. BufferLimit]
           /\ NetworksCounted'
           /\ connected_networks' \in 0 .. Cardinality(Networks)
           /\ reconnect_timeout' = TRUE /\ attempt' = attempt
           /\ Connected' # Networks
           /\ filters' \in Seq(FilterRecord)
           /\ RepliesAwaitedOnConnectedNetworks'
           /\ SubscriptionsOwned'
<1>1. /\ networks' = [networks EXCEPT ![n] = "down"]
      /\ networks' \in [Networks -> {"down", "up", "error"}]
      /\ network_buffer' \in [Networks -> 0 .. BufferLimit]
  BY BoundsAssumption DEF TypeOK, DisconnectNetwork
<1>2. Connected' = Connected \ {n} /\ n \in Connected
  BY <1>1 DEF Connected, TypeOK
<1>3. Connected \in SUBSET Networks /\ Connected' \in SUBSET Networks
  BY DEF Connected
<1>4. IsFiniteSet(Connected)
  BY <1>3, NetworkCounts
<1>5. Cardinality(Connected') = Cardinality(Connected) - 1
  BY <1>2, <1>4, FS_RemoveElement
<1>6. NetworksCounted'
  BY <1>5 DEF NetworksCounted, DisconnectNetwork
<1>7. connected_networks' \in 0 .. Cardinality(Networks)
  BY <1>3, <1>6, NetworkCounts DEF NetworksCounted
<1>8. Connected' # Networks
  BY <1>2
<1>9. reconnect_timeout' = TRUE /\ attempt' = attempt
  <2>1. connected_networks - 1 < Cardinality(Networks)
    BY <1>3, NetworkCounts DEF NetworksCounted
  <2>2. QED
    BY <2>1 DEF DisconnectNetwork, UpdateReconnectTimer
<1>10. /\ filters' \in Seq(FilterRecord)
       /\ ElementsOf(filters') \subseteq ElementsOf(filters) \ ReplyFiltersOf(n)
  BY KeptElements DEF TypeOK, DisconnectNetwork
<1>11. RepliesAwaitedOnConnectedNetworks'
  BY <1>1, <1>10 DEF RepliesAwaitedOnConnectedNetworks, ReplyFiltersOf, TypeOK
<1>12. SubscriptionsOwned'
  BY <1>10 DEF SubscriptionsOwned
<1>13. QED
  BY <1>1, <1>6, <1>7, <1>8, <1>9, <1>10, <1>11, <1>12

-----------------------------------------------------------------------------

\* The state after the constructor satisfies the invariant.
LEMMA InitInv == Init => RouterInv
<1> SUFFICES ASSUME Init PROVE RouterInv
  OBVIOUS
<1>1. Connected = {}
  BY DEF Init, Connected
<1>2. connected_networks = Cardinality(Connected)
  BY <1>1, FS_EmptySet DEF Init
<1>3. Cardinality(Networks) \in Nat
  BY ConfigAssumption, FS_CardinalityType
<1>4. TypeOK
  <2>1. /\ networks \in [Networks -> {"down", "up", "error"}]
        /\ network_buffer \in [Networks -> 0 .. BufferLimit]
        /\ connections \in [ConnectionId -> {"absent", "open", "error"}]
        /\ client_buffer \in [ConnectionId -> Seq(Line)]
    BY BoundsAssumption DEF Init
  <2>2. /\ connected_networks \in 0 .. Cardinality(Networks)
        /\ next_connection_id \in 0 .. MaxConnections
    BY <1>3, BoundsAssumption DEF Init
  <2>3. filters \in Seq(FilterRecord) /\ send_queue \in Seq(SendRecord)
    BY DEF Init
  <2>4. QED
    BY <2>1, <2>2, <2>3 DEF Init, TypeOK
<1>5. ElementsOf(filters) = {}
  BY DEF Init, ElementsOf
<1>6. QED
  BY <1>1, <1>2, <1>4, <1>5
     DEF Init, RouterInv, SendTimerArmed, NetworksCounted, ReconnectArmed, Running,
         RepliesAwaitedOnConnectedNetworks, SubscriptionsOwned, StoppedDisconnected

\* Start and reconnect: connect_networks() with the timer that follows it.
LEMMA ConnectStep ==
    ASSUME RouterInv, Start \/ OnReconnectTimeout
    PROVE  RouterInv'
<1> USE DEF RouterInv
<1>1. PICK reached \in SUBSET (Networks \ Connected) :
         /\ ConnectNetworks(reached)
         /\ reconnect_timeout' =
               UpdateReconnectTimer(connected_networks + Cardinality(reached), FALSE)
  <2>1. CASE Start
    <3>1. Connected = {} /\ connected_networks = 0
      BY <2>1, FS_EmptySet DEF Start, StoppedDisconnected, NetworksCounted
    <3>2. PICK reached \in SUBSET Networks :
             /\ ConnectNetworks(reached)
             /\ reconnect_timeout' = UpdateReconnectTimer(Cardinality(reached), FALSE)
      BY <2>1 DEF Start
    <3>3. connected_networks + Cardinality(reached) = Cardinality(reached)
      BY <3>1, NetworkCounts
    <3>4. QED
      BY <3>1, <3>2, <3>3
  <2>2. CASE OnReconnectTimeout
    BY <2>2 DEF OnReconnectTimeout
  <2>3. QED
    BY <2>1, <2>2
<1>2. status' = "running" /\ UNCHANGED << clientVars, routeVars >>
  BY DEF Start, OnReconnectTimeout, Running
<1>3. /\ networks' \in [Networks -> {"down", "up", "error"}]
      /\ network_buffer' \in [Networks -> 0 .. BufferLimit]
      /\ NetworksCounted'
      /\ connected_networks' \in 0 .. Cardinality(Networks)
      /\ connected_networks' = connected_networks + Cardinality(reached)
      /\ \A n \in Networks : networks[n] # "down" => networks'[n] # "down"
  BY <1>1, ConnectCounts
<1>4. reconnect_timeout' = (Connected' # Networks)
  <2>1. Connected' \in SUBSET Networks
    BY DEF Connected
  <2>2. connected_networks' < Cardinality(Networks) <=> Connected' # Networks
    BY <1>3, <2>1, NetworkCounts DEF NetworksCounted
  <2>3. QED
    BY <1>1, <1>3, <2>2 DEF UpdateReconnectTimer
<1>5. TypeOK'
  <2>1. attempt' \in BOOLEAN
    <3>1. attempt' = attempt \/ attempt' = (reconnect_timeout' /\ ~ attempt)
      BY Zenon DEF Start, OnReconnectTimeout, NextAttempt
    <3> QED
      BY <3>1, Zenon DEF TypeOK
  <2> QED
    BY <1>2, <1>3, <1>4, <2>1 DEF TypeOK, clientVars, routeVars
<1>6. SendTimerArmed' /\ SubscriptionsOwned'
  BY <1>2 DEF SendTimerArmed, SubscriptionsOwned, clientVars, routeVars
<1>7. ReconnectArmed' /\ StoppedDisconnected'
  BY <1>2, <1>4 DEF ReconnectArmed, StoppedDisconnected, Running
<1>8. RepliesAwaitedOnConnectedNetworks'
  BY <1>2, <1>3, ConfigAssumption DEF RepliesAwaitedOnConnectedNetworks, routeVars
<1>9. QED
  BY <1>3, <1>5, <1>6, <1>7, <1>8

\* stop(), and stop() followed by start().
LEMMA ReplacedStep ==
    ASSUME RouterInv, Terminate \/ Restart
    PROVE  RouterInv'
<1>1. PICK after \in {"running", "exited", "crashed"}, reached \in SUBSET Networks :
         Replaced(after, reached)
  BY DEF Terminate, Restart, StopResult
<1> DEFINE up == IF after = "running" THEN reached ELSE {}
<1>2. up \in SUBSET Networks
  OBVIOUS
<1>3. /\ networks' = [n \in Networks |-> IF n \in up THEN "up" ELSE "down"]
      /\ connected_networks' = Cardinality(up)
      /\ reconnect_timeout' = (after = "running" /\ UpdateReconnectTimer(Cardinality(up), FALSE))
  BY <1>1 DEF Replaced
<1> HIDE DEF up
<1>4. Connected' = up
  BY <1>2, <1>3 DEF Connected
<1>5. NetworksCounted'
  BY <1>3, <1>4 DEF NetworksCounted
<1>6. ReconnectArmed'
  <2>1. Cardinality(up) < Cardinality(Networks) <=> up # Networks
    BY <1>2, NetworkCounts
  <2>2. status' = after
    BY <1>1 DEF Replaced
  <2>3. QED
    BY <1>3, <1>4, <2>1, <2>2 DEF ReconnectArmed, Running, UpdateReconnectTimer
<1>7. TypeOK'
  <2>1. /\ networks' \in [Networks -> {"down", "up", "error"}]
        /\ network_buffer' \in [Networks -> 0 .. BufferLimit]
        /\ connections' \in [ConnectionId -> {"absent", "open", "error"}]
        /\ client_buffer' \in [ConnectionId -> Seq(Line)]
    BY <1>1, <1>3, BoundsAssumption DEF Replaced
  <2>2. connected_networks' \in 0 .. Cardinality(Networks)
    BY <1>2, <1>3, NetworkCounts
  <2>3. next_connection_id' \in 0 .. MaxConnections
    BY <1>1, BoundsAssumption DEF Replaced
  <2>4. filters' \in Seq(FilterRecord) /\ send_queue' \in Seq(SendRecord)
    BY <1>1 DEF Replaced
  <2>5. reconnect_timeout' \in BOOLEAN /\ attempt' \in BOOLEAN /\ send_timer' \in BOOLEAN
    BY <1>1, <1>3 DEF Replaced
  <2>6. status' \in {"stopped", "running", "hung", "crashed", "exited"}
    BY <1>1 DEF Replaced
  <2>7. QED
    BY <2>1, <2>2, <2>3, <2>4, <2>5, <2>6 DEF TypeOK
<1>8. SendTimerArmed' /\ StoppedDisconnected'
  BY <1>1 DEF Replaced, SendTimerArmed, StoppedDisconnected
<1>9. RepliesAwaitedOnConnectedNetworks' /\ SubscriptionsOwned'
  <2>1. ElementsOf(filters') = {}
    BY <1>1 DEF Replaced, ElementsOf
  <2>2. QED
    BY <2>1 DEF RepliesAwaitedOnConnectedNetworks, SubscriptionsOwned
<1>10. QED
  BY <1>5, <1>6, <1>7, <1>8, <1>9 DEF RouterInv

\* The steps that change neither which networks are connected nor the filters
\* and the queue: sockets that fail or take data, a connection that is accepted.
LEMMA QuietStep ==
    ASSUME RouterInv,
           \/ StartFails
           \/ \E n \in Networks : NetworkError(n) \/ NetworkWritten(n)
           \/ OnAcceptedConnection
           \/ \E c \in ConnectionId :
                 ConnectionError(c) \/ OnConnectionTerminated(c) \/ ConnectionWritten(c)
    PROVE  RouterInv'
<1> USE DEF RouterInv
<1>1. /\ UNCHANGED << connected_networks, reconnect_timeout, attempt, filters, send_queue,
                      send_timer >>
      /\ status' # "running" \/ status = "running"
      /\ status' # "stopped"
  BY DEF StartFails, NetworkError, NetworkWritten, OnAcceptedConnection, ConnectionError,
         OnConnectionTerminated, ConnectionWritten, Running, networkVars, clientVars, routeVars
<1>2. /\ networks' \in [Networks -> {"down", "up", "error"}]
      /\ \A n \in Networks : networks'[n] = "down" <=> networks[n] = "down"
  BY DEF StartFails, NetworkError, NetworkWritten, OnAcceptedConnection, ConnectionError,
         OnConnectionTerminated, ConnectionWritten, networkVars, TypeOK
<1>3. Connected' = Connected
  BY <1>2 DEF Connected
<1>4. /\ connections' \in [ConnectionId -> {"absent", "open", "error"}]
      /\ \A c \in ConnectionId : connections[c] # "absent" => connections'[c] # "absent"
  BY DEF StartFails, NetworkError, NetworkWritten, OnAcceptedConnection, ConnectionError,
         OnConnectionTerminated, ConnectionWritten, clientVars, TypeOK
<1>5. network_buffer' \in [Networks -> 0 .. BufferLimit]
  <2>1. CASE \E n \in Networks : NetworkWritten(n)
    <3>1. PICK n \in Networks : NetworkWritten(n)
      BY <2>1
    <3>2. network_buffer[n] - 1 \in 0 .. BufferLimit
      BY <3>1, BoundsAssumption DEF NetworkWritten, TypeOK
    <3>3. QED
      BY <3>1, <3>2 DEF NetworkWritten, TypeOK
  <2>2. CASE ~ \E n \in Networks : NetworkWritten(n)
    BY <2>2 DEF StartFails, NetworkError, OnAcceptedConnection, ConnectionError,
                OnConnectionTerminated, ConnectionWritten, networkVars, TypeOK
  <2>3. QED
    BY <2>1, <2>2
<1>6. client_buffer' \in [ConnectionId -> Seq(Line)]
  <2>1. CASE \E c \in ConnectionId : ConnectionWritten(c)
    <3>1. PICK c \in ConnectionId : ConnectionWritten(c)
      BY <2>1
    <3>2. Tail(client_buffer[c]) \in Seq(Line)
      BY <3>1 DEF ConnectionWritten, TypeOK
    <3>3. QED
      BY <3>1, <3>2 DEF ConnectionWritten, TypeOK
  <2>2. CASE ~ \E c \in ConnectionId : ConnectionWritten(c)
    BY <2>2 DEF StartFails, NetworkError, NetworkWritten, OnAcceptedConnection,
                ConnectionError, OnConnectionTerminated, clientVars, TypeOK
  <2>3. QED
    BY <2>1, <2>2
<1>7. next_connection_id' \in 0 .. MaxConnections
  BY BoundsAssumption
     DEF StartFails, NetworkError, NetworkWritten, OnAcceptedConnection, ConnectionError,
         OnConnectionTerminated, ConnectionWritten, clientVars, TypeOK
<1>8. status' \in {"stopped", "running", "hung", "crashed", "exited"}
  BY DEF StartFails, NetworkError, NetworkWritten, OnAcceptedConnection, ConnectionError,
         OnConnectionTerminated, ConnectionWritten, TypeOK
<1>9. TypeOK'
  BY <1>1, <1>2, <1>4, <1>5, <1>6, <1>7, <1>8 DEF TypeOK
<1>10. SendTimerArmed' /\ NetworksCounted' /\ ReconnectArmed' /\ StoppedDisconnected'
  BY <1>1, <1>3
     DEF SendTimerArmed, NetworksCounted, ReconnectArmed, StoppedDisconnected, Running
<1>11. RepliesAwaitedOnConnectedNetworks'
  BY <1>1, <1>2, ConfigAssumption DEF RepliesAwaitedOnConnectedNetworks
<1>12. SubscriptionsOwned'
  <2>1. \A f \in ElementsOf(filters) : f \in FilterRecord
    BY DEF ElementsOf, TypeOK
  <2>2. \A f \in ElementsOf(filters) : f.connection \in ConnectionId
    BY <2>1 DEF FilterRecord
  <2>3. QED
    BY <1>1, <1>4, <2>2 DEF SubscriptionsOwned
<1>13. QED
  BY <1>9, <1>10, <1>11, <1>12

\* A network's error reaches the router.
LEMMA DisconnectedStep ==
    ASSUME RouterInv, NEW n \in Networks, OnNetworkDisconnected(n)
    PROVE  RouterInv'
<1> USE DEF RouterInv
<1>1. /\ DisconnectNetwork(n) /\ networks[n] # "down"
      /\ status = "running"
      /\ UNCHANGED << status, connections, client_buffer, next_connection_id,
                      send_queue, send_timer >>
  BY DEF OnNetworkDisconnected, Running, clientVars
<1>2. /\ networks' \in [Networks -> {"down", "up", "error"}]
      /\ network_buffer' \in [Networks -> 0 .. BufferLimit]
      /\ NetworksCounted'
      /\ connected_networks' \in 0 .. Cardinality(Networks)
      /\ reconnect_timeout' = TRUE /\ attempt' = attempt
      /\ Connected' # Networks
      /\ filters' \in Seq(FilterRecord)
      /\ RepliesAwaitedOnConnectedNetworks'
      /\ SubscriptionsOwned'
  BY <1>1, DisconnectCounts
<1>3. TypeOK'
  BY <1>1, <1>2 DEF TypeOK
<1>4. SendTimerArmed' /\ ReconnectArmed' /\ StoppedDisconnected'
  BY <1>1, <1>2 DEF SendTimerArmed, ReconnectArmed, StoppedDisconnected
<1>5. QED
  BY <1>2, <1>3, <1>4

\* A device's message: lines are appended to client buffers and filters erased,
\* or the router hangs.
LEMMA DeviceMessageStep ==
    ASSUME RouterInv, NEW d \in Devices, NEW a \in Address, OnDeviceMessage(d, a)
    PROVE  RouterInv'
<1> USE DEF RouterInv
<1>1. /\ UNCHANGED << networkVars, connections, next_connection_id, send_queue, send_timer >>
      /\ status = "running" /\ status' \in {"running", "hung"}
  BY DEF OnDeviceMessage, Running
<1>2. /\ filters' \in Seq(FilterRecord)
      /\ ElementsOf(filters') \subseteq ElementsOf(filters)
  <2>1. CASE UNCHANGED filters
    BY <2>1 DEF TypeOK
  <2>2. CASE filters' = Kept(filters, {f \in ElementsOf(filters) :
                           ~ (PassesFilter(f, d, a) /\ ErasedOnceRouted(f))})
    BY <2>2, KeptElements DEF TypeOK
  <2>3. QED
    BY <2>1, <2>2 DEF OnDeviceMessage
<1>3. client_buffer' \in [ConnectionId -> Seq(Line)]
  <2>1. CASE UNCHANGED client_buffer
    BY <2>1 DEF TypeOK
  <2>2. CASE client_buffer' = [c \in ConnectionId |->
                IF connections[c] = "open"
                  THEN client_buffer[c] \o
                       [i \in DOMAIN Hits(c, d, a) |-> RoutedLine(Hits(c, d, a)[i], d, a)]
                  ELSE client_buffer[c]]
    <3>1. ASSUME NEW c \in ConnectionId
          PROVE  client_buffer[c] \o
                    [i \in DOMAIN Hits(c, d, a) |-> RoutedLine(Hits(c, d, a)[i], d, a)]
                    \in Seq(Line)
      <4>1. Hits(c, d, a) \in Seq(FilterRecord)
        BY KeptElements DEF Hits, TypeOK
      <4>2. \A f \in FilterRecord : RoutedLine(f, d, a) \in Line
        BY DEF RoutedLine, Line
      <4>3. client_buffer[c] \in Seq(Line)
        BY DEF TypeOK
      <4> DEFINE h == Hits(c, d, a)
                 lines == [i \in DOMAIN h |-> RoutedLine(h[i], d, a)]
      <4>4. lines \in Seq(Line)
        <5> HIDE DEF h
        <5>1. DOMAIN h = 1 .. Len(h) /\ Len(h) \in Nat
          BY <4>1 DEF h
        <5>2. \A i \in DOMAIN h : RoutedLine(h[i], d, a) \in Line
          BY <4>1, <4>2 DEF h
        <5>3. QED
          BY <5>1, <5>2
      <4>5. QED
        BY <4>3, <4>4
    <3>2. \A c \in ConnectionId : client_buffer[c] \in Seq(Line)
      BY DEF TypeOK
    <3>3. QED
      BY <2>2, <3>1, <3>2
  <2>3. QED
    BY <2>1, <2>2 DEF OnDeviceMessage
<1>4. TypeOK'
  BY <1>1, <1>2, <1>3 DEF TypeOK, networkVars
<1>5. SendTimerArmed' /\ NetworksCounted' /\ ReconnectArmed' /\ StoppedDisconnected'
  BY <1>1 DEF SendTimerArmed, NetworksCounted, ReconnectArmed, StoppedDisconnected,
              Running, Connected, networkVars
<1>6. RepliesAwaitedOnConnectedNetworks' /\ SubscriptionsOwned'
  BY <1>1, <1>2 DEF RepliesAwaitedOnConnectedNetworks, SubscriptionsOwned, networkVars
<1>7. QED
  BY <1>4, <1>5, <1>6

\* What a command handler leaves: typed records, the send timer started exactly
\* when something is queued, and at most one more filter, a subscription of the
\* connection that sent the command.
LEMMA HandleCommandResult ==
    ASSUME RouterInv, NEW c \in ConnectionId, NEW cmd \in Commands,
           NEW done \in HandleCommand(c, cmd)
    PROVE  /\ done.ok \in BOOLEAN
           /\ done.filters \in Seq(FilterRecord)
           /\ done.queue \in Seq(SendRecord)
           /\ done.timer \in BOOLEAN
           /\ done.timer <=> done.queue # << >>
           /\ \A f \in ElementsOf(done.filters) :
                 f \in ElementsOf(filters) \/ (f.connection = c /\ ~ f.reply)
           /\ \/ done.filters = filters
              \/ \E g \in FilterRecord : ~ g.reply /\ done.filters = Append(filters, g)
           /\ \/ done.queue = send_queue
              \/ \E r \in SendRecord : done.queue = Append(send_queue, r)
<1> USE DEF RouterInv
<1>1. cmd \in Command
  BY AddressAssumption
<1>2. CASE done \in Rejected
  <2>1. /\ done.ok = FALSE /\ done.filters = filters
        /\ done.queue = send_queue /\ done.timer = send_timer
    BY <1>2 DEF Rejected
  <2>2. done.ok \in BOOLEAN
    BY <2>1
  <2>3. QED
    BY <2>1, <2>2 DEF TypeOK, SendTimerArmed
<1>3. CASE cmd.action = "filter" /\ done \in HandleFilter(c, cmd) /\ done \notin Rejected
  <2> DEFINE ranged == cmd.address # Missing /\ cmd.mask # Missing
             filter == [connection |-> c, device |-> cmd.device,
                        address |-> IF ranged THEN cmd.address \cap cmd.mask ELSE {},
                        mask |-> IF ranged THEN cmd.mask ELSE {},
                        one_time |-> cmd.one_time, reply |-> FALSE]
  <2>1. /\ cmd.device \in Devices \cup {NoDevice, UnknownDevice}
        /\ cmd.address \in {Missing, Invalid} \cup Address
        /\ cmd.mask \in {Missing, Invalid} \cup Address
        /\ cmd.one_time \in BOOLEAN
    BY <1>1, <1>3 DEF Command
  <2>2. /\ cmd.device # UnknownDevice
        /\ ~ (ranged /\ Invalid \in {cmd.address, cmd.mask})
        /\ \E returned \in BOOLEAN :
              done = [ok |-> returned, filters |-> Append(filters, filter),
                      queue |-> send_queue, timer |-> send_timer]
    BY <1>3 DEF HandleFilter
  <2>3. ranged => cmd.address \in Address /\ cmd.mask \in Address
    BY <2>1, <2>2
  <2>4. filter \in FilterRecord
    BY <2>1, <2>2, <2>3 DEF FilterRecord, Address
  <2>5. filter.connection = c /\ filter.reply = FALSE
    OBVIOUS
  <2> HIDE DEF filter
  <2>6. Append(filters, filter) \in Seq(FilterRecord)
    BY <2>4 DEF TypeOK
  <2>7. ElementsOf(Append(filters, filter)) = ElementsOf(filters) \cup {filter}
    BY PushPopElements DEF TypeOK
  <2>8. QED
    BY <2>2, <2>5, <2>6, <2>7 DEF TypeOK, SendTimerArmed
<1>4. CASE cmd.action \in {"send", "query"} /\ done \in HandleSend(c, cmd) /\ done \notin Rejected
  <2> DEFINE record == [type |-> IF cmd.action = "send" THEN "Data" ELSE "Request",
                        connection |-> c, device |-> cmd.device, address |-> cmd.address]
  <2>1. /\ cmd.device \in Devices \cup {UnknownDevice}
        /\ cmd.address \in {Invalid} \cup Address
    BY <1>1, <1>4 DEF Command
  <2>2. /\ cmd.device # UnknownDevice
        /\ cmd.address # Invalid
        /\ done = [ok |-> TRUE, filters |-> filters,
                   queue |-> Append(send_queue, record), timer |-> SendTimerOnPush]
    BY <1>4 DEF HandleSend
  <2>3. record \in SendRecord
    BY <2>1, <2>2 DEF SendRecord
  <2> HIDE DEF record
  <2>4. Append(send_queue, record) \in Seq(SendRecord) /\ Append(send_queue, record) # << >>
    <3>1. send_queue \in Seq(SendRecord)
      BY DEF TypeOK
    <3>2. QED
      BY <2>3, <3>1, AppendProperties
  <2>5. SendTimerOnPush = TRUE
    BY DEF SendTimerOnPush, SendTimerArmed, TypeOK
  <2>6. QED
    BY <2>2, <2>4, <2>5 DEF TypeOK
<1>5. cmd.action \in {"filter", "send", "query", "unknown"}
  BY <1>1 DEF Command
<1>6. QED
  BY <1>2, <1>3, <1>4, <1>5 DEF HandleCommand

\* A command of a client, its answer, and the close when the answer does not fit.
LEMMA CommandStep ==
    ASSUME RouterInv, NEW c \in ConnectionId, NEW cmd \in Commands, OnCommand(c, cmd)
    PROVE  RouterInv'
<1> USE DEF RouterInv
<1>1. PICK done \in HandleCommand(c, cmd) :
         /\ send_queue' = done.queue
         /\ send_timer' = done.timer
         /\ \/ /\ filters' = RemoveFilters(done.filters, c)
               /\ connections' = [connections EXCEPT ![c] = "absent"]
               /\ client_buffer' = [client_buffer EXCEPT ![c] = << >>]
            \/ /\ filters' = done.filters
               /\ client_buffer' = [client_buffer EXCEPT ![c] =
                     IF connections[c] = "open"
                       THEN Append(@, [kind |-> IF done.ok THEN "ok" ELSE "fail"])
                       ELSE @]
               /\ UNCHANGED connections
  BY DEF OnCommand
<1>2. /\ UNCHANGED << status, networkVars, next_connection_id >>
      /\ status = "running" /\ connections[c] # "absent"
  BY DEF OnCommand, Running
<1>3. /\ done.ok \in BOOLEAN
      /\ done.filters \in Seq(FilterRecord)
      /\ done.queue \in Seq(SendRecord)
      /\ done.timer \in BOOLEAN
      /\ done.timer <=> done.queue # << >>
      /\ \A f \in ElementsOf(done.filters) :
            f \in ElementsOf(filters) \/ (f.connection = c /\ ~ f.reply)
  BY HandleCommandResult
<1>4. /\ RemoveFilters(done.filters, c) \in Seq(FilterRecord)
      /\ \A f \in ElementsOf(RemoveFilters(done.filters, c)) :
            f \in ElementsOf(done.filters) /\ f.connection # c
  BY <1>3, KeptElements DEF RemoveFilters
<1>5. /\ filters' \in Seq(FilterRecord)
      /\ ElementsOf(filters') \subseteq ElementsOf(done.filters)
  BY <1>1, <1>3, <1>4
<1>6. client_buffer' \in [ConnectionId -> Seq(Line)]
  <2>1. [kind |-> IF done.ok THEN "ok" ELSE "fail"] \in Line
    BY DEF Line
  <2>2. Append(client_buffer[c], [kind |-> IF done.ok THEN "ok" ELSE "fail"]) \in Seq(Line)
    BY <2>1 DEF TypeOK
  <2>3. << >> \in Seq(Line)
    OBVIOUS
  <2>4. QED
    BY <1>1, <2>2, <2>3 DEF TypeOK
<1>7. connections' \in [ConnectionId -> {"absent", "open", "error"}]
  BY <1>1 DEF TypeOK
<1>8. TypeOK'
  BY <1>1, <1>2, <1>3, <1>5, <1>6, <1>7 DEF TypeOK, networkVars
<1>9. SendTimerArmed'
  BY <1>1, <1>3 DEF SendTimerArmed
<1>10. NetworksCounted' /\ ReconnectArmed' /\ StoppedDisconnected'
  BY <1>2 DEF NetworksCounted, ReconnectArmed, StoppedDisconnected, Running, Connected,
              networkVars
<1>11. RepliesAwaitedOnConnectedNetworks'
  BY <1>2, <1>3, <1>5 DEF RepliesAwaitedOnConnectedNetworks, networkVars
<1>12. SubscriptionsOwned'
  <2>1. \A f \in ElementsOf(filters) : f \in FilterRecord
    BY DEF ElementsOf, TypeOK
  <2>2. \A f \in ElementsOf(filters) : f.connection \in ConnectionId
    BY <2>1 DEF FilterRecord
  <2>3. CASE /\ filters' = RemoveFilters(done.filters, c)
             /\ connections' = [connections EXCEPT ![c] = "absent"]
    BY <1>3, <1>4, <2>2, <2>3 DEF SubscriptionsOwned, TypeOK
  <2>4. CASE filters' = done.filters /\ UNCHANGED connections
    BY <1>2, <1>3, <2>4 DEF SubscriptionsOwned
  <2>5. QED
    BY <1>1, <2>3, <2>4
<1>13. QED
  BY <1>8, <1>9, <1>10, <1>11, <1>12

\* The send timer: the head of the queue is sent, dropped, or takes its network
\* down.
LEMMA SendTimerStep ==
    ASSUME RouterInv, OnSendTimer
    PROVE  RouterInv'
<1> USE DEF RouterInv
<1> DEFINE r == Head(send_queue)
           n == NetworkOf[r.device]
<1>1. /\ status = "running" /\ send_queue # << >>
      /\ SendRecordNow(r)
      /\ send_queue' = Tail(send_queue)
      /\ send_timer' = (send_queue' # << >>)
      /\ UNCHANGED << status, connections, client_buffer, next_connection_id >>
  BY DEF OnSendTimer, SendTimerAfterPop, Running, clientVars
<1>2. r \in SendRecord /\ send_queue' \in Seq(SendRecord)
  BY <1>1, PushPopElements DEF TypeOK
<1>3. n \in Networks /\ r.device \in Devices
  BY <1>2, ConfigAssumption DEF SendRecord
<1>4. SendTimerArmed' /\ StoppedDisconnected'
  BY <1>1 DEF SendTimerArmed, StoppedDisconnected
<1>5. CASE networks[n] = "up" /\ DisconnectNetwork(n)
  <2>1. /\ networks' \in [Networks -> {"down", "up", "error"}]
        /\ network_buffer' \in [Networks -> 0 .. BufferLimit]
        /\ NetworksCounted'
        /\ connected_networks' \in 0 .. Cardinality(Networks)
        /\ reconnect_timeout' = TRUE /\ attempt' = attempt
        /\ Connected' # Networks
        /\ filters' \in Seq(FilterRecord)
        /\ RepliesAwaitedOnConnectedNetworks'
        /\ SubscriptionsOwned'
    BY <1>1, <1>3, <1>5, DisconnectCounts
  <2>2. TypeOK' /\ ReconnectArmed'
    BY <1>1, <1>2, <2>1 DEF TypeOK, ReconnectArmed
  <2>3. QED
    BY <1>4, <2>1, <2>2
<1>6. CASE /\ UNCHANGED << networks, connected_networks, reconnect_timeout, attempt >>
           /\ network_buffer' \in [Networks -> 0 .. BufferLimit]
           /\ filters' = filters \/ (filters' = FiltersAfterSend(r) /\ networks[n] # "down")
  <2> DEFINE g == ResponseFilter(r)
  <2>1. g \in FilterRecord /\ g.device = r.device /\ g.reply = TRUE
    BY <1>2 DEF ResponseFilter, FilterRecord, SendRecord, FullMask, Address
  <2> HIDE DEF g
  <2>2. \/ filters' = filters
        \/ filters' = Append(filters, g) /\ networks[n] # "down"
    BY <1>6 DEF FiltersAfterSend, g
  <2>3. filters' \in Seq(FilterRecord)
    <3>1. filters \in Seq(FilterRecord)
      BY DEF TypeOK
    <3>2. Append(filters, g) \in Seq(FilterRecord)
      BY <2>1, <3>1, AppendProperties
    <3>3. QED
      BY <2>2, <3>1, <3>2
  <2>4. \A f \in ElementsOf(filters') :
           f \in ElementsOf(filters) \/ (f = g /\ networks[n] # "down")
    <3>1. ElementsOf(Append(filters, g)) = ElementsOf(filters) \cup {g}
      BY PushPopElements DEF TypeOK
    <3>2. QED
      BY <2>2, <3>1
  <2>5. TypeOK'
    BY <1>1, <1>2, <1>6, <2>3 DEF TypeOK
  <2>6. NetworksCounted' /\ ReconnectArmed'
    BY <1>1, <1>6 DEF NetworksCounted, ReconnectArmed, Connected, Running
  <2>7. RepliesAwaitedOnConnectedNetworks'
    BY <1>3, <1>6, <2>1, <2>4 DEF RepliesAwaitedOnConnectedNetworks
  <2>8. SubscriptionsOwned'
    BY <1>1, <2>1, <2>4 DEF SubscriptionsOwned
  <2>9. QED
    BY <1>4, <2>5, <2>6, <2>7, <2>8
<1>7. QED
  <2>1. \/ networks[n] = "up" /\ DisconnectNetwork(n)
        \/ /\ UNCHANGED << networks, connected_networks, reconnect_timeout, attempt >>
           /\ network_buffer' = network_buffer
           /\ filters' = filters \/ (filters' = FiltersAfterSend(r) /\ networks[n] # "down")
        \/ /\ UNCHANGED << networks, connected_networks, reconnect_timeout, attempt >>
           /\ network_buffer[n] + 1 <= BufferLimit
           /\ network_buffer' = [network_buffer EXCEPT ![n] = @ + 1]
           /\ filters' = FiltersAfterSend(r) /\ networks[n] # "down"
    BY <1>1 DEF SendRecordNow, networkVars
  <2>2. network_buffer[n] + 1 <= BufferLimit =>
           [network_buffer EXCEPT ![n] = @ + 1] \in [Networks -> 0 .. BufferLimit]
    BY <1>3, BoundsAssumption DEF TypeOK
  <2> HIDE DEF r, n
  <2>3. QED
    BY <1>5, <1>6, <2>1, <2>2 DEF TypeOK

-----------------------------------------------------------------------------

\* Every step of the router preserves the invariant.
LEMMA NextInv == RouterInv /\ [Next]_vars => RouterInv'
<1> SUFFICES ASSUME RouterInv, [Next]_vars PROVE RouterInv'
  OBVIOUS
<1>1. CASE Start \/ OnReconnectTimeout
  BY <1>1, ConnectStep
<1>2. CASE Terminate \/ Restart
  BY <1>2, ReplacedStep
<1>3. CASE \/ StartFails
           \/ \E n \in Networks : NetworkError(n) \/ NetworkWritten(n)
           \/ OnAcceptedConnection
           \/ \E c \in ConnectionId :
                 ConnectionError(c) \/ OnConnectionTerminated(c) \/ ConnectionWritten(c)
  BY <1>3, QuietStep
<1>4. CASE \E n \in Networks : OnNetworkDisconnected(n)
  BY <1>4, DisconnectedStep
<1>5. CASE \E d \in Devices, a \in Address : OnDeviceMessage(d, a)
  BY <1>5, DeviceMessageStep
<1>6. CASE \E c \in ConnectionId, cmd \in Commands : OnCommand(c, cmd)
  BY <1>6, CommandStep
<1>7. CASE OnSendTimer
  BY <1>7, SendTimerStep
<1>8. CASE UNCHANGED vars
  BY <1>8 DEF RouterInv, TypeOK, SendTimerArmed, NetworksCounted, ReconnectArmed,
              RepliesAwaitedOnConnectedNetworks, SubscriptionsOwned, StoppedDisconnected,
              Running, Connected, vars, networkVars, clientVars, routeVars
<1>9. QED
  BY <1>1, <1>2, <1>3, <1>4, <1>5, <1>6, <1>7, <1>8 DEF Next

\* The invariant holds in every state of the router.
THEOREM RouterInvariant == Spec => []RouterInv
<1>1. QED
  BY InitInv, NextInv, PTL DEF Spec

\* Router's state keeps its types: buffers within their limits, records whose
\* connections, devices and addresses exist.
THEOREM TypeCorrect == Spec => []TypeOK
<1>1. RouterInv => TypeOK
  BY DEF RouterInv
<1>2. QED
  BY <1>1, RouterInvariant, PTL

\* handle_send() and on_send_timer() together never strand a queued command.
THEOREM SendTimerAlwaysArmed == Spec => []SendTimerArmed
<1>1. RouterInv => SendTimerArmed
  BY DEF RouterInv
<1>2. QED
  BY <1>1, RouterInvariant, PTL

\* connected_networks_ is right and no network that is down is given up.
THEOREM NetworksNeverGivenUp == Spec => []NetworksTracked
<1>1. RouterInv => NetworksTracked
  BY DEF RouterInv, NetworksTracked
<1>2. QED
  BY <1>1, RouterInvariant, PTL

\* No filter waits for a reply of a network that is down, so that a reconnected
\* network's messages are not taken for the answers to lost queries.
THEOREM RepliesOnlyAwaitedWhenConnected == Spec => []RepliesAwaitedOnConnectedNetworks
<1>1. RouterInv => RepliesAwaitedOnConnectedNetworks
  BY DEF RouterInv
<1>2. QED
  BY <1>1, RouterInvariant, PTL

\* A subscription never outlives its connection in connections_.
THEOREM SubscriptionsAlwaysOwned == Spec => []SubscriptionsOwned
<1>1. RouterInv => SubscriptionsOwned
  BY DEF RouterInv
<1>2. QED
  BY <1>1, RouterInvariant, PTL

-----------------------------------------------------------------------------
(***************************************************************************)
(* Queries and their answers                                               *)
(***************************************************************************)

Queries(c, n) ==
    {r \in SendRecord : r.type = "Request" /\ r.connection = c /\ NetworkOf[r.device] = n}

Awaiting(c, n) ==
    {f \in FilterRecord : f.reply /\ f.connection = c /\ NetworkOf[f.device] = n}

ReplyLines == {l \in Line : l.kind = "reply"}

\* Outstanding and Answers, for a queue, filters and a buffer.
Pending(q, fs, c, n) == CountOf(q, Queries(c, n)) + CountOf(fs, Awaiting(c, n))

Replies(b) == CountOf(b, ReplyLines)

\* What AnswersSettleQueries and QueriesNotForgotten say of a step.
Settled(c) ==
    Replies(client_buffer'[c]) > Replies(client_buffer[c]) =>
       \E n \in Networks :
          Replies(client_buffer'[c]) - Replies(client_buffer[c])
             = Pending(send_queue, filters, c, n) - Pending(send_queue', filters', c, n)

Remembered(c, n) ==
    Pending(send_queue', filters', c, n) < Pending(send_queue, filters, c, n) =>
       \/ Replies(client_buffer'[c]) > Replies(client_buffer[c])
       \/ connections'[c] # "open"
       \/ networks'[n] = "down"

\* The sets that the properties count in depend on the lists; these do not.
LEMMA OutstandingIs ==
    ASSUME NEW q \in Seq(SendRecord), NEW fs \in Seq(FilterRecord), NEW c, NEW n
    PROVE  CountOf(q, {r \in ElementsOf(q) :
               r.type = "Request" /\ r.connection = c /\ NetworkOf[r.device] = n})
           + CountOf(fs, {f \in ElementsOf(fs) :
               f.connection = c
               /\ f \in {g \in ElementsOf(fs) : g.reply /\ NetworkOf[g.device] = n}})
           = Pending(q, fs, c, n)
<1> DEFINE K == {r \in ElementsOf(q) :
                   r.type = "Request" /\ r.connection = c /\ NetworkOf[r.device] = n}
           L == {f \in ElementsOf(fs) :
                   f.connection = c
                   /\ f \in {g \in ElementsOf(fs) : g.reply /\ NetworkOf[g.device] = n}}
<1>1. \A i \in 1 .. Len(q) : q[i] \in SendRecord /\ q[i] \in ElementsOf(q)
  BY DEF ElementsOf
<1>2. \A i \in 1 .. Len(q) : q[i] \in K <=> q[i] \in Queries(c, n)
  BY <1>1, Zenon DEF Queries
<1>3. \A i \in 1 .. Len(fs) : fs[i] \in FilterRecord /\ fs[i] \in ElementsOf(fs)
  BY DEF ElementsOf
<1>4. \A i \in 1 .. Len(fs) : fs[i] \in L <=> fs[i] \in Awaiting(c, n)
  BY <1>3, Zenon DEF Awaiting
<1> HIDE DEF K, L
<1>5. CountOf(q, K) = CountOf(q, Queries(c, n))
  BY <1>2, SameCount
<1>6. CountOf(fs, L) = CountOf(fs, Awaiting(c, n))
  BY <1>4, SameCount
<1>7. CountOf(q, K) + CountOf(fs, L) = Pending(q, fs, c, n)
  BY <1>5, <1>6 DEF Pending
<1> QED
  BY <1>7 DEF K, L

LEMMA AnswersAre ==
    ASSUME NEW b \in Seq(Line)
    PROVE  CountOf(b, {l \in ElementsOf(b) : l.kind = "reply"}) = Replies(b)
<1> DEFINE K == {l \in ElementsOf(b) : l.kind = "reply"}
<1>1. \A i \in 1 .. Len(b) : b[i] \in Line /\ b[i] \in ElementsOf(b)
  BY DEF ElementsOf
<1>2. \A i \in 1 .. Len(b) : b[i] \in K <=> b[i] \in ReplyLines
  BY <1>1, Zenon DEF ReplyLines
<1> HIDE DEF K
<1>3. CountOf(b, K) = CountOf(b, ReplyLines)
  BY <1>2, SameCount
<1> QED
  BY <1>3 DEF K, Replies

\* Nothing that counts is erased.
LEMMA CountUnerased ==
    ASSUME NEW S, NEW s \in Seq(S), NEW K, NEW L, \A x \in ElementsOf(s) : x \in L => x \in K
    PROVE  CountOf(Kept(s, K), L) = CountOf(s, L)
<1>1. CountOf(Kept(s, K), L) = CountOf(s, K \cap L)
  BY CountKept
<1>2. \A i \in 1 .. Len(s) : s[i] \in K \cap L <=> s[i] \in L
  BY DEF ElementsOf
<1> DEFINE M == K \cap L
<1> HIDE DEF M
<1>3. CountOf(s, M) = CountOf(s, L)
  BY <1>2, SameCount DEF M
<1> QED
  BY <1>1, <1>3 DEF M

LEMMA CountsTyped ==
    /\ \A q \in Seq(SendRecord), fs \in Seq(FilterRecord) : \A c, n : Pending(q, fs, c, n) \in Nat
    /\ \A b \in Seq(Line) : Replies(b) \in Nat
<1>1. ASSUME NEW q \in Seq(SendRecord), NEW fs \in Seq(FilterRecord), NEW c, NEW n
      PROVE  Pending(q, fs, c, n) \in Nat
  <2>1. CountOf(q, Queries(c, n)) \in Nat /\ CountOf(fs, Awaiting(c, n)) \in Nat
    BY CountIsNatural
  <2> QED
    BY <2>1 DEF Pending
<1>2. ASSUME NEW b \in Seq(Line) PROVE Replies(b) \in Nat
  BY CountIsNatural DEF Replies
<1> QED
  BY <1>1, <1>2

\* Steps that leave the queue, the filters and the buffers alone.
LEMMA QuietQueries ==
    ASSUME TypeOK, UNCHANGED << filters, send_queue, client_buffer >>,
           NEW c \in ConnectionId, NEW n \in Networks
    PROVE  Settled(c) /\ Remembered(c, n)
<1>1. Replies(client_buffer[c]) \in Nat /\ Pending(send_queue, filters, c, n) \in Nat
  BY CountsTyped DEF TypeOK
<1>2. ~ (Replies(client_buffer'[c]) > Replies(client_buffer[c]))
  BY <1>1
<1>3. ~ (Pending(send_queue', filters', c, n) < Pending(send_queue, filters, c, n))
  BY <1>1
<1> QED
  BY <1>2, <1>3 DEF Settled, Remembered

\* A client takes a line.
LEMMA WrittenQueries ==
    ASSUME TypeOK, NEW x \in ConnectionId, ConnectionWritten(x),
           NEW c \in ConnectionId, NEW n \in Networks
    PROVE  Settled(c) /\ Remembered(c, n)
<1>1. /\ client_buffer' = [client_buffer EXCEPT ![x] = Tail(client_buffer[x])]
      /\ client_buffer[x] # << >>
      /\ UNCHANGED << filters, send_queue >>
  BY DEF ConnectionWritten, routeVars
<1>2. client_buffer[c] \in Seq(Line) /\ send_queue \in Seq(SendRecord)
      /\ filters \in Seq(FilterRecord) /\ client_buffer \in [ConnectionId -> Seq(Line)]
  BY DEF TypeOK
<1>3. ~ (Pending(send_queue', filters', c, n) < Pending(send_queue, filters, c, n))
  <2>1. Pending(send_queue, filters, c, n) \in Nat
    BY <1>2, CountsTyped
  <2> QED
    BY <1>1, <2>1
<1>4. ~ (Replies(client_buffer'[c]) > Replies(client_buffer[c]))
  <2>0. Replies(client_buffer[c]) \in Nat
    BY <1>2, CountsTyped
  <2>1. CASE c # x
    BY <1>1, <1>2, <2>0, <2>1
  <2>2. CASE c = x
    <3> DEFINE b == client_buffer[c]
    <3>1. client_buffer'[c] = Tail(b) /\ b \in Seq(Line) /\ b # << >>
      BY <1>1, <1>2, <2>2
    <3> HIDE DEF b
    <3>2. Tail(b) \in Seq(Line)
      BY <3>1
    <3>3. Replies(Tail(b)) \in Nat
      BY <3>2, CountsTyped
    <3>4. Replies(b) = IF Head(b) \in ReplyLines THEN Replies(Tail(b)) + 1 ELSE Replies(Tail(b))
      BY <3>1, CountTail DEF Replies
    <3>5. ~ (Replies(Tail(b)) > Replies(b))
      BY <3>3, <3>4
    <3> QED
      BY <3>1, <3>5 DEF b
  <2> QED
    BY <2>1, <2>2
<1> QED
  BY <1>3, <1>4 DEF Settled, Remembered

\* The router is replaced.
LEMMA ReplacedQueries ==
    ASSUME TypeOK, Terminate \/ Restart, NEW c \in ConnectionId, NEW n \in Networks
    PROVE  Settled(c) /\ Remembered(c, n)
<1>1. client_buffer'[c] = << >> /\ connections'[c] = "absent"
  BY DEF Terminate, Restart, Replaced
<1>2. Replies(client_buffer'[c]) = 0
  BY <1>1, CountEmpty DEF Replies
<1>3. Replies(client_buffer[c]) \in Nat
  BY CountsTyped DEF TypeOK
<1>4. ~ (Replies(client_buffer'[c]) > Replies(client_buffer[c]))
  BY <1>2, <1>3
<1> QED
  BY <1>1, <1>4 DEF Settled, Remembered

\* disconnect_network() erases the reply filters of its network only.
LEMMA DisconnectCountsOthers ==
    ASSUME TypeOK, NEW m \in Networks, DisconnectNetwork(m),
           NEW c \in ConnectionId, NEW n \in Networks
    PROVE  \/ networks'[n] = "down"
           \/ CountOf(filters', Awaiting(c, n)) = CountOf(filters, Awaiting(c, n))
<1>1. CASE n = m
  BY <1>1 DEF DisconnectNetwork, TypeOK
<1>2. CASE n # m
  <2> DEFINE K == ElementsOf(filters) \ ReplyFiltersOf(m)
  <2>1. filters' = Kept(filters, K) /\ filters \in Seq(FilterRecord)
    BY DEF DisconnectNetwork, TypeOK
  <2>2. \A f \in ElementsOf(filters) : f \in Awaiting(c, n) => f \in K
    BY <1>2 DEF Awaiting, ReplyFiltersOf
  <2> HIDE DEF K
  <2> QED
    BY <2>1, <2>2, CountUnerased
<1> QED
  BY <1>1, <1>2

LEMMA DisconnectedQueries ==
    ASSUME TypeOK, NEW m \in Networks, OnNetworkDisconnected(m),
           NEW c \in ConnectionId, NEW n \in Networks
    PROVE  Settled(c) /\ Remembered(c, n)
<1>1. DisconnectNetwork(m) /\ UNCHANGED << client_buffer, send_queue >>
  BY DEF OnNetworkDisconnected, clientVars
<1>2. Replies(client_buffer[c]) \in Nat /\ Pending(send_queue, filters, c, n) \in Nat
  BY CountsTyped DEF TypeOK
<1>3. ~ (Replies(client_buffer'[c]) > Replies(client_buffer[c]))
  BY <1>1, <1>2
<1>4. CASE networks'[n] = "down"
  BY <1>3, <1>4 DEF Settled, Remembered
<1>5. CASE CountOf(filters', Awaiting(c, n)) = CountOf(filters, Awaiting(c, n))
  <2>1. Pending(send_queue', filters', c, n) = Pending(send_queue, filters, c, n)
    BY <1>1, <1>5 DEF Pending
  <2>2. ~ (Pending(send_queue', filters', c, n) < Pending(send_queue, filters, c, n))
    BY <1>2, <2>1
  <2> QED
    BY <1>3, <2>2 DEF Settled, Remembered
<1> QED
  BY <1>1, <1>4, <1>5, DisconnectCountsOthers

LEMMA CountMonotone ==
    ASSUME NEW S, NEW s \in Seq(S), NEW K, NEW L, \A x \in ElementsOf(s) : x \in K => x \in L
    PROVE  CountOf(s, K) <= CountOf(s, L)
<1> DEFINE M == L \cap K
           N == L \ K
<1>0. L = M \cup N /\ M \cap N = {}
  OBVIOUS
<1>2. \A i \in 1 .. Len(s) : s[i] \in K <=> s[i] \in M
  BY DEF ElementsOf
<1> HIDE DEF M, N
<1>1. CountOf(s, L) = CountOf(s, M) + CountOf(s, N)
  BY <1>0, CountSplit
<1>3. CountOf(s, K) = CountOf(s, M)
  BY <1>2, SameCount
<1>4. CountOf(s, M) \in Nat /\ CountOf(s, N) \in Nat
  BY CountIsNatural
<1> QED
  BY <1>1, <1>3, <1>4

\* A message of a device: the connection is sent as many replies as it loses reply
\* filters, all of them filters for the network of the device.
LEMMA MessageQueries ==
    ASSUME RouterInv, NEW d \in Devices, NEW a \in Address, OnDeviceMessage(d, a),
           NEW c \in ConnectionId, NEW n \in Networks
    PROVE  Settled(c) /\ Remembered(c, n)
<1>0. /\ TypeOK /\ filters \in Seq(FilterRecord) /\ send_queue \in Seq(SendRecord)
      /\ client_buffer[c] \in Seq(Line)
  BY DEF RouterInv, TypeOK
<1>a. Replies(client_buffer[c]) \in Nat
  BY <1>0, CountsTyped
<1>1. CASE UNCHANGED << client_buffer, filters >>
  <2>1. UNCHANGED << filters, send_queue, client_buffer >>
    BY <1>1 DEF OnDeviceMessage
  <2> QED
    BY <1>0, <2>1, QuietQueries
<1>2. CASE connections[c] # "open" /\ ~ UNCHANGED << client_buffer, filters >>
  <2>1. client_buffer'[c] = client_buffer[c] /\ connections'[c] = connections[c]
    BY <1>2 DEF OnDeviceMessage
  <2>2. ~ (Replies(client_buffer'[c]) > Replies(client_buffer[c]))
    BY <1>a, <2>1
  <2> QED
    BY <1>2, <2>1, <2>2 DEF Settled, Remembered
<1>3. CASE connections[c] = "open" /\ ~ UNCHANGED << client_buffer, filters >>
  <2> DEFINE P == {f \in ElementsOf(filters) : f.connection = c /\ PassesFilter(f, d, a)}
             K == {f \in ElementsOf(filters) : ~ (PassesFilter(f, d, a) /\ ErasedOnceRouted(f))}
             R == {f \in FilterRecord : f.reply}
             h == Kept(filters, P)
             lines == [i \in DOMAIN h |-> RoutedLine(h[i], d, a)]
  <2>1. /\ client_buffer'[c] = client_buffer[c] \o lines
        /\ filters' = Kept(filters, K)
        /\ send_queue' = send_queue
    BY <1>3 DEF OnDeviceMessage, Hits
  <2>2. h \in Seq(FilterRecord)
    BY <1>0, KeptElements
  \* The replies among the lines.
  <2>3. /\ lines \in Seq(Line) /\ Len(lines) = Len(h)
        /\ \A i \in 1 .. Len(h) : h[i] \in R <=> lines[i] \in ReplyLines
    <3> HIDE DEF h
    <3>1. DOMAIN h = 1 .. Len(h) /\ Len(h) \in Nat /\ \A i \in 1 .. Len(h) : h[i] \in FilterRecord
      BY <2>2
    <3>2. ASSUME NEW f \in FilterRecord
          PROVE  RoutedLine(f, d, a) \in Line /\ (f \in R <=> RoutedLine(f, d, a) \in ReplyLines)
      BY DEF RoutedLine, Line, ReplyLines
    <3>3. lines \in Seq(Line) /\ Len(lines) = Len(h)
      BY <3>1, <3>2
    <3>4. \A i \in 1 .. Len(h) : lines[i] = RoutedLine(h[i], d, a)
      BY <3>1
    <3> QED
      BY <3>1, <3>2, <3>3, <3>4
  <2> DEFINE p == CountOf(filters, P \cap R)
  <2>4. Replies(lines) = p
    <3>1. CountOf(h, R) = p
      BY <1>0, CountKept
    <3> HIDE DEF h, lines, R, p
    <3>2. CountOf(h, R) = CountOf(lines, ReplyLines)
      BY <2>2, <2>3, SameCount
    <3> QED
      BY <3>1, <3>2 DEF Replies
  <2>5. Replies(client_buffer'[c]) = Replies(client_buffer[c]) + p
    <3> HIDE DEF lines, p
    <3>1. CountOf(client_buffer[c] \o lines, ReplyLines)
             = CountOf(client_buffer[c], ReplyLines) + CountOf(lines, ReplyLines)
      BY <1>0, <2>3, CountConcat
    <3> QED
      BY <2>1, <2>4, <3>1 DEF Replies
  \* The reply filters that are erased.
  <2> DEFINE gone(m) == CountOf(filters, Awaiting(c, m) \ K)
  <2>6. ASSUME NEW m \in Networks
        PROVE  /\ gone(m) \in Nat
               /\ Pending(send_queue, filters, c, m) - Pending(send_queue', filters', c, m)
                     = gone(m)
               /\ Pending(send_queue', filters', c, m) < Pending(send_queue, filters, c, m)
                     => gone(m) > 0
    <3> HIDE DEF K
    <3>1. CountOf(filters', Awaiting(c, m)) = CountOf(filters, K \cap Awaiting(c, m))
      BY <1>0, <2>1, CountKept
    <3>2. K \cap Awaiting(c, m) = Awaiting(c, m) \cap K
      OBVIOUS
    <3>3. CountOf(filters, Awaiting(c, m))
             = CountOf(filters, Awaiting(c, m) \cap K) + CountOf(filters, Awaiting(c, m) \ K)
      <4> DEFINE A == Awaiting(c, m)
                 L == A \cap K
                 M == A \ K
      <4>1. A = L \cup M /\ L \cap M = {}
        OBVIOUS
      <4> HIDE DEF A, L, M
      <4>2. CountOf(filters, A) = CountOf(filters, L) + CountOf(filters, M)
        BY <1>0, <4>1, CountSplit
      <4> QED
        BY <4>2 DEF A, L, M
    <3> DEFINE x == CountOf(filters, Awaiting(c, m) \cap K)
               y == CountOf(filters, Awaiting(c, m) \ K)
               z == CountOf(send_queue, Queries(c, m))
    <3>4. x \in Nat /\ y \in Nat /\ z \in Nat
      BY <1>0, CountIsNatural
    <3>5. /\ Pending(send_queue, filters, c, m) = z + (x + y)
          /\ Pending(send_queue', filters', c, m) = z + x
          /\ gone(m) = y
      BY <2>1, <3>1, <3>2, <3>3 DEF Pending
    <3> HIDE DEF x, y, z, gone
    <3> QED
      BY <3>4, <3>5
  <2>7. \A f \in ElementsOf(filters) : f \in FilterRecord
    BY <1>0 DEF ElementsOf
  <2>8. ASSUME NEW f \in ElementsOf(filters), f.reply, PassesFilter(f, d, a)
        PROVE  f.device = d
    BY <2>8, ConfigAssumption DEF PassesFilter, RouterInv, RepliesAwaitedOnConnectedNetworks
  <2>9. NetworkOf[d] \in Networks
    BY ConfigAssumption
  <2>10. ASSUME NEW f \in ElementsOf(filters), NEW m \in Networks, f \in Awaiting(c, m) \ K
         PROVE  f \in P \cap R
    <3>1. f \in FilterRecord /\ f.reply /\ f.connection = c
      BY <2>10 DEF Awaiting
    <3>2. PassesFilter(f, d, a)
      BY <2>10
    <3> QED
      BY <3>1, <3>2
  <2>11. ASSUME NEW f \in ElementsOf(filters), f \in P \cap R
         PROVE  f \in Awaiting(c, NetworkOf[d]) \ K
    <3>1. f \in FilterRecord /\ f.reply /\ f.connection = c /\ PassesFilter(f, d, a)
      BY <2>11
    <3>2. f.device = d
      BY <2>8, <3>1
    <3>3. f \in Awaiting(c, NetworkOf[d])
      BY <3>1, <3>2 DEF Awaiting
    <3>4. f \notin K
      BY <3>1 DEF ErasedOnceRouted
    <3> QED
      BY <3>3, <3>4
  <2>12. ASSUME NEW m \in Networks PROVE gone(m) <= p
    <3> DEFINE G == Awaiting(c, m) \ K
               Q == P \cap R
    <3>1. \A f \in ElementsOf(filters) : f \in G => f \in Q
      BY <2>10
    <3> HIDE DEF G, Q
    <3>2. CountOf(filters, G) <= CountOf(filters, Q)
      BY <1>0, <3>1, CountMonotone
    <3> QED
      BY <3>2 DEF G, Q
  <2>13. p <= gone(NetworkOf[d])
    <3> DEFINE G == Awaiting(c, NetworkOf[d]) \ K
               Q == P \cap R
    <3>1. \A f \in ElementsOf(filters) : f \in Q => f \in G
      BY <2>11
    <3> HIDE DEF G, Q
    <3>2. CountOf(filters, Q) <= CountOf(filters, G)
      BY <1>0, <3>1, CountMonotone
    <3> QED
      BY <3>2 DEF G, Q
  <2>14. p \in Nat
    BY <1>0, CountIsNatural
  <2> HIDE DEF p, gone, P, K, R, h, lines
  <2>15. gone(NetworkOf[d]) = p
    <3>1. gone(NetworkOf[d]) \in Nat /\ gone(NetworkOf[d]) <= p
      BY <2>6, <2>9, <2>12
    <3> QED
      BY <2>13, <2>14, <3>1
  <2>16. Replies(client_buffer'[c]) - Replies(client_buffer[c]) = p
    BY <1>a, <2>5, <2>14
  <2>17. Settled(c)
    <3>1. Pending(send_queue, filters, c, NetworkOf[d])
             - Pending(send_queue', filters', c, NetworkOf[d]) = p
      BY <2>6, <2>9, <2>15
    <3> QED
      BY <2>9, <2>16, <3>1 DEF Settled
  <2>18. Remembered(c, n)
    <3>1. SUFFICES ASSUME Pending(send_queue', filters', c, n) < Pending(send_queue, filters, c, n)
                   PROVE  Replies(client_buffer'[c]) > Replies(client_buffer[c])
      BY DEF Remembered
    <3>2. gone(n) > 0 /\ gone(n) \in Nat /\ gone(n) <= p
      BY <2>6, <2>12, <3>1
    <3> QED
      BY <1>a, <2>5, <2>14, <3>2
  <2> QED
    BY <2>17, <2>18
<1> QED
  BY <1>1, <1>2, <1>3

\* A command queues or subscribes, and its answer is no reply.  When the answer
\* does not fit, the filters of its own connection go with the connection.
LEMMA CommandQueries ==
    ASSUME RouterInv, NEW x \in ConnectionId, NEW cmd \in Commands, OnCommand(x, cmd),
           NEW c \in ConnectionId, NEW n \in Networks
    PROVE  Settled(c) /\ Remembered(c, n)
<1>0. /\ filters \in Seq(FilterRecord) /\ send_queue \in Seq(SendRecord)
      /\ client_buffer \in [ConnectionId -> Seq(Line)]
      /\ connections \in [ConnectionId -> {"absent", "open", "error"}]
  BY DEF RouterInv, TypeOK
<1>1. PICK done \in HandleCommand(x, cmd) :
         /\ send_queue' = done.queue
         /\ \/ /\ filters' = RemoveFilters(done.filters, x)
               /\ connections' = [connections EXCEPT ![x] = "absent"]
               /\ client_buffer' = [client_buffer EXCEPT ![x] = << >>]
            \/ /\ filters' = done.filters
               /\ client_buffer' = [client_buffer EXCEPT ![x] =
                     IF connections[x] = "open"
                       THEN Append(@, [kind |-> IF done.ok THEN "ok" ELSE "fail"])
                       ELSE @]
  BY DEF OnCommand
<1>2. /\ done.filters \in Seq(FilterRecord) /\ done.queue \in Seq(SendRecord)
      /\ \/ done.filters = filters
         \/ \E g \in FilterRecord : ~ g.reply /\ done.filters = Append(filters, g)
      /\ \/ done.queue = send_queue
         \/ \E r \in SendRecord : done.queue = Append(send_queue, r)
  BY HandleCommandResult
<1>3. CountOf(done.filters, Awaiting(c, n)) = CountOf(filters, Awaiting(c, n))
  <2>1. ASSUME NEW g \in FilterRecord, ~ g.reply
        PROVE  CountOf(Append(filters, g), Awaiting(c, n)) = CountOf(filters, Awaiting(c, n))
    <3>1. g \notin Awaiting(c, n)
      BY <2>1 DEF Awaiting
    <3> QED
      BY <1>0, <3>1, CountAppend
  <2>2. CASE \E g \in FilterRecord : ~ g.reply /\ done.filters = Append(filters, g)
    <3>1. PICK g \in FilterRecord : ~ g.reply /\ done.filters = Append(filters, g)
      BY <2>2
    <3>2. CountOf(Append(filters, g), Awaiting(c, n)) = CountOf(filters, Awaiting(c, n))
      BY <2>1, <3>1
    <3> QED
      BY <3>1, <3>2
  <2> QED
    BY <1>2, <2>2
<1>4. CountOf(done.queue, Queries(c, n)) >= CountOf(send_queue, Queries(c, n))
  <2>1. CountOf(send_queue, Queries(c, n)) \in Nat
    BY <1>0, CountIsNatural
  <2>2. ASSUME NEW r \in SendRecord
        PROVE  CountOf(Append(send_queue, r), Queries(c, n)) >= CountOf(send_queue, Queries(c, n))
    <3>1. CountOf(Append(send_queue, r), Queries(c, n))
             = IF r \in Queries(c, n) THEN CountOf(send_queue, Queries(c, n)) + 1
                                      ELSE CountOf(send_queue, Queries(c, n))
      BY <1>0, CountAppend
    <3> QED
      BY <2>1, <3>1
  <2>3. CASE \E r \in SendRecord : done.queue = Append(send_queue, r)
    <3>1. PICK r \in SendRecord : done.queue = Append(send_queue, r)
      BY <2>3
    <3>2. CountOf(Append(send_queue, r), Queries(c, n)) >= CountOf(send_queue, Queries(c, n))
      BY <2>2
    <3> QED
      BY <3>1, <3>2
  <2>4. CASE done.queue = send_queue
    BY <2>1, <2>4
  <2> QED
    BY <1>2, <2>3, <2>4
<1>5. Settled(c)
  <2>1. client_buffer[c] \in Seq(Line) /\ Replies(client_buffer[c]) \in Nat
    BY <1>0, CountsTyped
  <2>2. Replies(<< >>) = 0
    BY CountEmpty DEF Replies
  <2>3. ASSUME NEW b \in Seq(Line), NEW k \in {"ok", "fail"}
        PROVE  Replies(Append(b, [kind |-> k])) = Replies(b)
    <3> DEFINE l == [kind |-> k]
    <3>1. l \in Line /\ l \notin ReplyLines
      BY DEF Line, ReplyLines
    <3> HIDE DEF l
    <3>2. CountOf(Append(b, l), ReplyLines) = CountOf(b, ReplyLines)
      BY <3>1, CountAppend
    <3> QED
      BY <3>2 DEF Replies, l
  <2>4. \/ client_buffer'[c] = client_buffer[c]
        \/ client_buffer'[c] = << >>
        \/ \E k \in {"ok", "fail"} : client_buffer'[c] = Append(client_buffer[c], [kind |-> k])
    BY <1>0, <1>1
  <2>5. Replies(client_buffer'[c]) \in {Replies(client_buffer[c]), 0}
    BY <2>1, <2>2, <2>3, <2>4
  <2>6. ~ (Replies(client_buffer'[c]) > Replies(client_buffer[c]))
    BY <2>1, <2>5
  <2> QED
    BY <2>6 DEF Settled
<1>6. Remembered(c, n)
  <2>1. CASE connections'[c] = "absent"
    BY <2>1 DEF Remembered
  <2>2. CASE CountOf(filters', Awaiting(c, n)) = CountOf(filters, Awaiting(c, n))
    <3> DEFINE u == CountOf(filters, Awaiting(c, n))
               v == CountOf(send_queue, Queries(c, n))
               w == CountOf(done.queue, Queries(c, n))
    <3>1. u \in Nat /\ v \in Nat /\ w \in Nat
      BY <1>0, <1>2, CountIsNatural
    <3>2. Pending(send_queue', filters', c, n) = w + u /\ Pending(send_queue, filters, c, n) = v + u
      BY <1>1, <2>2 DEF Pending
    <3>3. w >= v
      BY <1>4
    <3> HIDE DEF u, v, w
    <3>4. ~ (Pending(send_queue', filters', c, n) < Pending(send_queue, filters, c, n))
      BY <3>1, <3>2, <3>3
    <3> QED
      BY <3>4 DEF Remembered
  <2>3. CASE /\ filters' = RemoveFilters(done.filters, x)
             /\ connections' = [connections EXCEPT ![x] = "absent"]
    <3>1. CASE c = x
      BY <1>0, <2>1, <2>3, <3>1
    <3>2. CASE c # x
      <4> DEFINE K == {f \in ElementsOf(done.filters) : f.connection # x}
      <4>1. \A f \in ElementsOf(done.filters) : f \in Awaiting(c, n) => f \in K
        BY <3>2 DEF Awaiting
      <4>2. filters' = Kept(done.filters, K)
        BY <2>3 DEF RemoveFilters
      <4> HIDE DEF K
      <4>3. CountOf(Kept(done.filters, K), Awaiting(c, n)) = CountOf(done.filters, Awaiting(c, n))
        BY <1>2, <4>1, CountUnerased
      <4> QED
        BY <1>3, <2>2, <4>2, <4>3
    <3> QED
      BY <3>1, <3>2
  <2> QED
    BY <1>1, <1>3, <2>2, <2>3
<1> QED
  BY <1>5, <1>6

\* The query at the head of the queue becomes a reply filter, or its network is down.
LEMMA SendTimerQueries ==
    ASSUME RouterInv, OnSendTimer, NEW c \in ConnectionId, NEW n \in Networks
    PROVE  Settled(c) /\ Remembered(c, n)
<1> DEFINE r == Head(send_queue)
           m == NetworkOf[r.device]
           rest == Tail(send_queue)
<1>0. /\ TypeOK /\ filters \in Seq(FilterRecord) /\ send_queue \in Seq(SendRecord)
      /\ networks \in [Networks -> {"down", "up", "error"}]
      /\ client_buffer[c] \in Seq(Line)
  BY DEF RouterInv, TypeOK
<1>1. /\ send_queue # << >> /\ SendRecordNow(r)
      /\ send_queue' = rest /\ client_buffer' = client_buffer
  BY DEF OnSendTimer, clientVars
<1>2. r \in SendRecord /\ rest \in Seq(SendRecord)
  BY <1>0, <1>1
<1>3. CountOf(send_queue, Queries(c, n))
         = IF r \in Queries(c, n) THEN CountOf(rest, Queries(c, n)) + 1
                                  ELSE CountOf(rest, Queries(c, n))
  BY <1>0, <1>1, CountTail
<1>4. \/ networks[m] = "down" /\ networks' = networks /\ filters' = filters
      \/ networks[m] = "up" /\ DisconnectNetwork(m)
      \/ filters' = FiltersAfterSend(r)
  BY <1>1 DEF SendRecordNow, networkVars
<1> HIDE DEF r, rest
<1>5. m \in Networks /\ (r \in Queries(c, n) => m = n)
  BY <1>2, ConfigAssumption DEF SendRecord, Queries
<1>6. Settled(c)
  <2>1. Replies(client_buffer[c]) \in Nat
    BY <1>0, CountsTyped
  <2>2. ~ (Replies(client_buffer'[c]) > Replies(client_buffer[c]))
    BY <1>1, <2>1
  <2> QED
    BY <2>2 DEF Settled
<1> DEFINE A == Awaiting(c, n)
           Q == Queries(c, n)
<1> HIDE DEF m, A, Q
<1>7. /\ CountOf(filters, A) \in Nat /\ CountOf(rest, Q) \in Nat
      /\ CountOf(send_queue, Q) = IF r \in Q THEN CountOf(rest, Q) + 1 ELSE CountOf(rest, Q)
      /\ Pending(send_queue, filters, c, n) = CountOf(send_queue, Q) + CountOf(filters, A)
      /\ Pending(send_queue', filters', c, n) = CountOf(rest, Q) + CountOf(filters', A)
  BY <1>0, <1>1, <1>2, <1>3, CountIsNatural DEF Pending, A, Q
\* The record is no query of c to n, or its filter takes its place.
<1>8. CASE r \notin Q /\ CountOf(filters', A) = CountOf(filters, A)
  <2>1. ~ (Pending(send_queue', filters', c, n) < Pending(send_queue, filters, c, n))
    BY <1>7, <1>8
  <2> QED
    BY <1>6, <2>1 DEF Remembered
<1>9. CASE filters' = Append(filters, ResponseFilter(r)) /\ (r \in Q => ResponseFilter(r) \in A)
  <2> DEFINE g == ResponseFilter(r)
  <2>1. g \in FilterRecord
    BY <1>2 DEF ResponseFilter, FilterRecord, SendRecord, FullMask, Address
  <2> HIDE DEF g
  <2>2. CountOf(Append(filters, g), A) = IF g \in A THEN CountOf(filters, A) + 1 ELSE CountOf(filters, A)
    BY <1>0, <2>1, CountAppend
  <2>3. CountOf(filters', A) = IF g \in A THEN CountOf(filters, A) + 1 ELSE CountOf(filters, A)
    BY <1>9, <2>2 DEF g
  <2>4. r \in Q => g \in A
    BY <1>9 DEF g
  <2>5. ~ (Pending(send_queue', filters', c, n) < Pending(send_queue, filters, c, n))
    BY <1>7, <2>3, <2>4
  <2> QED
    BY <1>6, <2>5 DEF Remembered
<1>10. CASE networks'[n] = "down"
  BY <1>6, <1>10 DEF Remembered
<1>11. CASE networks[m] = "down" /\ networks' = networks /\ filters' = filters
  <2>1. r \in Q => networks'[n] = "down"
    BY <1>5, <1>11 DEF Q
  <2> QED
    BY <1>8, <1>10, <1>11, <2>1
<1>12. CASE networks[m] = "up" /\ DisconnectNetwork(m)
  <2>1. networks'[m] = "down"
    BY <1>0, <1>5, <1>12 DEF DisconnectNetwork
  <2>2. r \in Q => networks'[n] = "down"
    BY <1>5, <2>1 DEF Q
  <2>3. networks'[n] = "down" \/ CountOf(filters', A) = CountOf(filters, A)
    BY <1>0, <1>5, <1>12, DisconnectCountsOthers DEF A
  <2> QED
    BY <1>8, <1>10, <2>2, <2>3
<1>13. CASE filters' = FiltersAfterSend(r)
  <2>1. CASE r.type = "Request"
    <3>1. filters' = Append(filters, ResponseFilter(r))
      BY <1>13, <2>1 DEF FiltersAfterSend
    <3>2. ResponseFilter(r) \in FilterRecord
      BY <1>2 DEF ResponseFilter, FilterRecord, SendRecord, FullMask, Address
    <3>3. r \in Q => ResponseFilter(r) \in A
      BY <3>2 DEF ResponseFilter, Awaiting, Queries, A, Q
    <3> QED
      BY <1>9, <3>1, <3>3
  <2>2. CASE r.type # "Request"
    <3>1. filters' = filters
      BY <1>13, <2>2 DEF FiltersAfterSend
    <3>2. r \notin Q
      BY <2>2 DEF Queries, Q
    <3> QED
      BY <1>8, <3>1, <3>2
  <2> QED
    BY <2>1, <2>2
<1> QED
  BY <1>4, <1>11, <1>12, <1>13

\* What every step does about the queries of a connection to a network.
LEMMA QueryStep ==
    ASSUME RouterInv, [Next]_vars, NEW c \in ConnectionId, NEW n \in Networks
    PROVE  Settled(c) /\ Remembered(c, n)
<1>0. TypeOK
  BY DEF RouterInv
<1>1. CASE \/ Start \/ StartFails \/ OnReconnectTimeout \/ OnAcceptedConnection
           \/ \E m \in Networks : NetworkError(m) \/ NetworkWritten(m)
           \/ \E x \in ConnectionId : ConnectionError(x) \/ OnConnectionTerminated(x)
           \/ UNCHANGED vars
  <2>1. UNCHANGED << filters, send_queue, client_buffer >>
    BY <1>1 DEF Start, StartFails, OnReconnectTimeout, OnAcceptedConnection, NetworkError,
                NetworkWritten, ConnectionError, OnConnectionTerminated, clientVars, routeVars,
                vars
  <2> QED
    BY <1>0, <2>1, QuietQueries
<1>2. CASE \E x \in ConnectionId : ConnectionWritten(x)
  BY <1>0, <1>2, WrittenQueries
<1>3. CASE Terminate \/ Restart
  BY <1>0, <1>3, ReplacedQueries
<1>4. CASE \E m \in Networks : OnNetworkDisconnected(m)
  BY <1>0, <1>4, DisconnectedQueries
<1>5. CASE \E d \in Devices, a \in Address : OnDeviceMessage(d, a)
  BY <1>5, MessageQueries
<1>6. CASE \E x \in ConnectionId, cmd \in Commands : OnCommand(x, cmd)
  BY <1>6, CommandQueries
<1>7. CASE OnSendTimer
  BY <1>7, SendTimerQueries
<1> QED
  BY <1>1, <1>2, <1>3, <1>4, <1>5, <1>6, <1>7 DEF Next

\* Outstanding and Answers count what Pending and Replies count, before a step and
\* after it.
LEMMA QueriesCounted ==
    ASSUME RouterInv, RouterInv', NEW c \in ConnectionId, NEW n \in Networks
    PROVE  /\ Outstanding(c, n) = Pending(send_queue, filters, c, n)
           /\ Outstanding(c, n)' = Pending(send_queue', filters', c, n)
           /\ Answers(c) = Replies(client_buffer[c])
           /\ Answers(c)' = Replies(client_buffer'[c])
<1>1. /\ send_queue \in Seq(SendRecord) /\ filters \in Seq(FilterRecord)
      /\ client_buffer[c] \in Seq(Line)
  BY DEF RouterInv, TypeOK
<1>2. /\ send_queue' \in Seq(SendRecord) /\ filters' \in Seq(FilterRecord)
      /\ client_buffer'[c] \in Seq(Line)
  BY DEF RouterInv, TypeOK
<1>3. Outstanding(c, n) = Pending(send_queue, filters, c, n)
  BY <1>1, OutstandingIs, Zenon DEF Outstanding, ReplyFiltersOf
<1>4. Outstanding(c, n)' = Pending(send_queue', filters', c, n)
  BY <1>2, OutstandingIs, Zenon DEF Outstanding, ReplyFiltersOf
<1>5. Answers(c) = Replies(client_buffer[c])
  BY <1>1, AnswersAre, Zenon DEF Answers
<1>6. Answers(c)' = Replies(client_buffer'[c])
  BY <1>2, AnswersAre, Zenon DEF Answers
<1> QED
  BY <1>3, <1>4, <1>5, <1>6

\* Each reply that a client is sent settles one of its queries: no message of a
\* device is the answer to a query that was already answered (handle_device_packet).
THEOREM AnswersAlwaysSettleQueries == Spec => AnswersSettleQueries
<1> DEFINE A == \A c \in ConnectionId :
                   Answers(c)' > Answers(c) =>
                      \E n \in Networks :
                         Answers(c)' - Answers(c) = Outstanding(c, n) - Outstanding(c, n)'
<1>1. ASSUME RouterInv, RouterInv', [Next]_vars PROVE A
  <2>1. ASSUME NEW c \in ConnectionId, Answers(c)' > Answers(c)
        PROVE  \E n \in Networks :
                  Answers(c)' - Answers(c) = Outstanding(c, n) - Outstanding(c, n)'
    <3>1. PICK k \in Networks : TRUE
      BY ConfigAssumption
    <3>2. Answers(c) = Replies(client_buffer[c]) /\ Answers(c)' = Replies(client_buffer'[c])
      BY <1>1, <3>1, QueriesCounted
    <3>3. Settled(c)
      BY <1>1, <3>1, QueryStep
    <3>4. PICK n \in Networks :
             Replies(client_buffer'[c]) - Replies(client_buffer[c])
                = Pending(send_queue, filters, c, n) - Pending(send_queue', filters', c, n)
      BY <2>1, <3>2, <3>3 DEF Settled
    <3>5. /\ Outstanding(c, n) = Pending(send_queue, filters, c, n)
          /\ Outstanding(c, n)' = Pending(send_queue', filters', c, n)
      BY <1>1, QueriesCounted
    <3> QED
      BY <3>2, <3>4, <3>5
  <2> QED
    BY <2>1
<1>2. RouterInv /\ RouterInv' /\ [Next]_vars => [A]_vars
  BY <1>1
<1> HIDE DEF A
<1>3. Spec => [][A]_vars
  BY <1>2, RouterInvariant, PTL DEF Spec
<1> QED
  BY <1>3 DEF AnswersSettleQueries, A

\* A query is forgotten only when it is answered, its connection or its network is
\* gone, or the router stopped: not by the commands, the sends or the losses of
\* others (on_send_timer, disconnect_network, remove_filters).
THEOREM QueriesNeverForgotten == Spec => QueriesNotForgotten
<1> DEFINE A == \A c \in ConnectionId, n \in Networks :
                   Outstanding(c, n)' < Outstanding(c, n) =>
                      \/ Answers(c)' > Answers(c)
                      \/ connections'[c] # "open"
                      \/ networks'[n] = "down"
<1>1. ASSUME RouterInv, RouterInv', [Next]_vars PROVE A
  <2>1. ASSUME NEW c \in ConnectionId, NEW n \in Networks,
               Outstanding(c, n)' < Outstanding(c, n)
        PROVE  \/ Answers(c)' > Answers(c)
               \/ connections'[c] # "open"
               \/ networks'[n] = "down"
    <3>1. /\ Outstanding(c, n) = Pending(send_queue, filters, c, n)
          /\ Outstanding(c, n)' = Pending(send_queue', filters', c, n)
          /\ Answers(c) = Replies(client_buffer[c])
          /\ Answers(c)' = Replies(client_buffer'[c])
      BY <1>1, QueriesCounted
    <3>2. Remembered(c, n)
      BY <1>1, QueryStep
    <3> QED
      BY <2>1, <3>1, <3>2 DEF Remembered
  <2> QED
    BY <2>1
<1>2. RouterInv /\ RouterInv' /\ [Next]_vars => [A]_vars
  BY <1>1
<1> HIDE DEF A
<1>3. Spec => [][A]_vars
  BY <1>2, RouterInvariant, PTL DEF Spec
<1> QED
  BY <1>3 DEF QueriesNotForgotten, A
=============================================================================
