-------------------------- MODULE CheckRun_proofs ---------------------------
(* Proofs about a lint run, for every input, any number of workers and any  *)
(* rules, and about the command that starts it, for every tree and every    *)
(* list of arguments.                                                       *)
EXTENDS CheckRun, FiniteSetTheorems, SequenceTheorems, WellFoundedInduction, TLAPS

-----------------------------------------------------------------------------
(* Sequences: concatenation and FlattenSeq, on which the functions of       *)
(* LintResult are built.                                                    *)

\* A set of numbers that is not empty has a least element.
LEMMA Minimum ==
  ASSUME NEW T \in SUBSET Nat, NEW n \in T
  PROVE  \E x \in T : \A y \in T : x <= y
<1> DEFINE S == 0..n
           U == {0..k : k \in {i \in T : i <= n}}
           R == StrictSubsetOrdering(S)
<1>1. IsFiniteSet(S)
  BY FS_Interval
<1>2. IsWellFoundedOn(R, SUBSET S)
  BY <1>1, FS_StrictSubsetOrderingWellFounded, FS_FiniteSubsetsOfFinite
<1>3. U \subseteq SUBSET S /\ U # {}
  OBVIOUS
<1>4. \E x \in U : \A y \in U : ~(<<y,x>> \in R)
  <2> HIDE DEF S, U, R
  <2> QED BY <1>2, <1>3, WFMin
<1> PICK k \in T : k <= n /\ \A y \in U : ~(<<y,0..k>> \in R)
  BY <1>4
<1>5. ASSUME NEW y \in T, y < k PROVE FALSE
  <2>1. 0..y \in U /\ 0..y \in SUBSET S /\ 0..k \in SUBSET S /\ 0..y \subseteq 0..k
    BY <1>5
  <2>2. k \notin 0..y /\ k \in 0..k
    BY <1>5
  <2>3. <<0..y, 0..k>> \notin R
    BY <2>1
  <2> HIDE DEF S, U
  <2>4. \A a, b \in SUBSET S : a \subseteq b /\ a # b => <<a, b>> \in R
    BY DEF StrictSubsetOrdering
  <2> QED BY <2>1, <2>2, <2>3, <2>4
<1> QED BY <1>5

\* A set, not an operator, holds of every number.
LEMMA NatInd ==
  ASSUME NEW S, 0 \in S, \A n \in Nat : n \in S => n+1 \in S
  PROVE  Nat \subseteq S
<1> DEFINE T == Nat \ S
<1>1. SUFFICES ASSUME NEW n \in T PROVE FALSE
  OBVIOUS
<1> PICK x \in T : \A y \in T : x <= y
  <2>1. T \in SUBSET Nat OBVIOUS
  <2> HIDE DEF T
  <2> QED BY <2>1, Minimum
<1>2. x # 0 /\ x - 1 \in Nat /\ x - 1 \notin T
  OBVIOUS
<1> QED BY <1>2

LEMMA IsSequence ==
  ASSUME NEW X, NEW n \in Nat, NEW q \in [1..n -> X]
  PROVE  q \in Seq(X) /\ DOMAIN q = 1..n /\ Len(q) = n
  OBVIOUS

LEMMA Concatenation ==
  ASSUME NEW X, NEW s \in Seq(X), NEW t \in Seq(X)
  PROVE  /\ s \o t \in Seq(X)
         /\ ToSet(s \o t) = ToSet(s) \cup ToSet(t)
         /\ IsInjective(s) /\ IsInjective(t) /\ ToSet(s) \cap ToSet(t) = {}
                => IsInjective(s \o t)
<1> DEFINE u == s \o t
           n == Len(s)
<1>1. /\ u \in Seq(X) /\ n \in Nat
      /\ DOMAIN s \subseteq Nat /\ DOMAIN t \subseteq Nat /\ DOMAIN u \subseteq Nat
      /\ \A i \in DOMAIN s : i \in DOMAIN u /\ u[i] = s[i] /\ i <= n
      /\ \A i \in DOMAIN t : i + n \in DOMAIN u /\ u[i + n] = t[i]
      /\ \A i \in DOMAIN u : i <= n => i \in DOMAIN s
      /\ \A i \in DOMAIN u : ~(i <= n) => i - n \in DOMAIN t /\ u[i] = t[i - n]
  OBVIOUS
<1> HIDE DEF u, n
<1>2. ToSet(u) = ToSet(s) \cup ToSet(t)
  <2>1. ASSUME NEW i \in DOMAIN u PROVE u[i] \in ToSet(s) \cup ToSet(t)
    BY <1>1 DEF ToSet
  <2>2. ASSUME NEW i \in DOMAIN s PROVE s[i] \in ToSet(u)
    BY <1>1 DEF ToSet
  <2>3. ASSUME NEW i \in DOMAIN t PROVE t[i] \in ToSet(u)
    <3>1. i + n \in DOMAIN u /\ u[i + n] = t[i]
      BY <1>1
    <3> QED BY <3>1 DEF ToSet
  <2>4. ToSet(u) \subseteq ToSet(s) \cup ToSet(t)
    BY <2>1 DEF ToSet
  <2>5. ToSet(s) \subseteq ToSet(u) /\ ToSet(t) \subseteq ToSet(u)
    BY <2>2, <2>3 DEF ToSet
  <2> QED BY <2>4, <2>5
<1>3. ASSUME IsInjective(s), IsInjective(t), ToSet(s) \cap ToSet(t) = {},
             NEW i \in DOMAIN u, NEW j \in DOMAIN u, u[i] = u[j]
      PROVE  i = j
  <2>1. CASE i <= n /\ j <= n
    BY <2>1, <1>1, <1>3 DEF IsInjective
  <2>2. CASE ~(i <= n) /\ ~(j <= n)
    <3>1. i - n \in DOMAIN t /\ j - n \in DOMAIN t /\ t[i - n] = t[j - n]
      BY <2>2, <1>1, <1>3
    <3>2. i - n = j - n
      BY <3>1, <1>3 DEF IsInjective
    <3> QED BY <3>2, <1>1
  <2>3. CASE (i <= n) # (j <= n)
    <3>1. \E k \in DOMAIN s : \E l \in DOMAIN t : s[k] = t[l]
      BY <2>3, <1>1, <1>3
    <3>2. \E x : x \in ToSet(s) /\ x \in ToSet(t)
      BY <3>1 DEF ToSet
    <3> QED BY <3>2, <1>3
  <2> QED BY <2>1, <2>2, <2>3
<1>4. IsInjective(s) /\ IsInjective(t) /\ ToSet(s) \cap ToSet(t) = {} => IsInjective(u)
  BY <1>3 DEF IsInjective
<1> QED BY <1>1, <1>2, <1>4 DEF u

\* FlattenSeq is what its recursion says.
LEMMA FlattenIs ==
  ASSUME NEW X, NEW q \in Seq(Seq(X)), q # <<>>
  PROVE  \E f \in [1..Len(q) -> Seq(X)] :
            /\ FlattenSeq(q) = f[Len(q)] /\ f[1] = q[1]
            /\ \A i \in 2..Len(q) : f[i] = f[i - 1] \o q[i]
<1> DEFINE N == Len(q)
           Upto(f, n) == /\ f \in [1..n -> Seq(X)] /\ f[1] = q[1]
                         /\ \A i \in 2..n : f[i] = f[i - 1] \o q[i]
           M == {n \in Nat : n \in 1..N => \E f : Upto(f, n)}
           Body(f) == [i \in 1..N |-> IF i = 1 THEN q[i] ELSE f[i - 1] \o q[i]]
           F == CHOOSE f : f = Body(f)
<1>1. N \in Nat \ {0} /\ \A i \in 1..N : q[i] \in Seq(X)
  OBVIOUS
<1>8. FlattenSeq(q) = F[N]
  BY <1>1 DEF FlattenSeq
<1> HIDE DEF N
<1>2. 0 \in M
  BY <1>1
<1>3. ASSUME NEW n \in Nat, n \in M PROVE n + 1 \in M
  <2> HIDE DEF Upto
  <2>1. SUFFICES ASSUME n + 1 \in 1..N PROVE \E f : Upto(f, n + 1)
    OBVIOUS
  <2> USE DEF Upto
  <2>2. CASE n = 0
    <3> DEFINE f == [i \in 1..1 |-> q[1]]
    <3>1. f \in [1..1 -> Seq(X)] /\ f[1] = q[1] /\ 2..1 = {}
      BY <1>1
    <3>2. Upto(f, 1)
      BY <3>1
    <3> HIDE DEF Upto
    <3>3. n + 1 = 1
      BY <2>2
    <3> QED BY <3>3, <3>2
  <2>3. CASE n # 0
    <3>1. n \in 1..N
      BY <1>1, <2>1, <2>3
    <3>2. \E f : Upto(f, n)
      BY <3>1, <1>3
    <3> PICK f : Upto(f, n)
      BY <3>2
    <3> DEFINE g == [i \in 1..n + 1 |-> IF i = n + 1 THEN f[n] \o q[n + 1] ELSE f[i]]
    <3>3. f[n] \in Seq(X) /\ q[n + 1] \in Seq(X)
      BY <1>1, <2>1, <3>1
    <3>4. f[n] \o q[n + 1] \in Seq(X)
      BY <3>3
    <3>5. \A i \in 1..n : i \in 1..n + 1 /\ i # n + 1 /\ n + 1 \in 1..n + 1
      BY <1>1
    <3>6. (\A i \in 1..n : g[i] = f[i]) /\ g[n + 1] = f[n] \o q[n + 1]
      BY <3>1, <3>5
    <3>7. g \in [1..n + 1 -> Seq(X)] /\ g[1] = q[1]
      BY <3>1, <3>4, <3>5, <3>6
    <3> HIDE DEF g
    <3>8. ASSUME NEW i \in 2..n + 1 PROVE g[i] = g[i - 1] \o q[i]
      <4>1. CASE i = n + 1
        <5>1. i - 1 = n
          BY <4>1
        <5>2. g[n] = f[n]
          BY <3>1, <3>6, <1>1
        <5>3. g[n + 1] = g[n] \o q[n + 1]
          BY <5>2, <3>6
        <5> QED BY <4>1, <5>1, <5>3
      <4>2. CASE i # n + 1
        <5>1. i \in 2..n /\ i \in 1..n /\ i - 1 \in 1..n
          BY <4>2
        <5> QED BY <5>1, <3>6
      <4> QED BY <4>1, <4>2
    <3>9. Upto(g, n + 1)
      BY <3>7, <3>8
    <3> QED BY <3>9
  <2> QED BY <2>2, <2>3
<1>4. Nat \subseteq M
  <2> HIDE DEF M
  <2> QED BY <1>2, <1>3, NatInd
<1>5. \E f : Upto(f, N)
  <2>1. N \in M
    <3> HIDE DEF M
    <3> QED BY <1>1, <1>4
  <2>2. N \in 1..N
    BY <1>1
  <2> HIDE DEF Upto
  <2> QED BY <2>1, <2>2
<1>6. ASSUME NEW f, Upto(f, N) PROVE f = Body(f)
  <2>1. ASSUME NEW i \in 1..N PROVE f[i] = Body(f)[i]
    <3>1. CASE i = 1
      BY <3>1, <1>6
    <3>2. CASE i # 1
      <4>1. i \in 2..N
        BY <3>2, <1>1
      <4> QED BY <3>2, <4>1, <1>6
    <3> QED BY <3>1, <3>2
  <2>2. DOMAIN f = 1..N /\ f = [i \in 1..N |-> f[i]]
    BY <1>6
  <2>3. Body(f) = [i \in 1..N |-> Body(f)[i]]
    OBVIOUS
  <2> HIDE DEF Body
  <2> QED BY <2>1, <2>2, <2>3
<1>7. F = Body(F)
  <2>1. \E f : f = Body(f)
    <3> HIDE DEF Body, Upto
    <3> QED BY <1>5, <1>6
  <2> HIDE DEF Body
  <2> QED BY <2>1
<1> HIDE DEF F
<1>9. /\ F = [i \in 1..N |-> F[i]] /\ DOMAIN F = 1..N
      /\ F[1] = q[1] /\ \A i \in 2..N : F[i] = F[i - 1] \o q[i]
  <2>1. DOMAIN F = 1..N /\ F = [i \in 1..N |-> F[i]]
    BY <1>7
  <2>2. \A i \in 1..N : F[i] = IF i = 1 THEN q[i] ELSE F[i - 1] \o q[i]
    BY <1>7
  <2> HIDE DEF Body
  <2>3. F[1] = q[1]
    BY <1>1, <2>2
  <2>4. ASSUME NEW i \in 2..N PROVE F[i] = F[i - 1] \o q[i]
    <3>1. i \in 1..N /\ i # 1
      BY <1>1
    <3> QED BY <2>2, <3>1
  <2> QED BY <2>1, <2>3, <2>4
<1> DEFINE T == {n \in Nat : n \in 1..N => F[n] \in Seq(X)}
<1>10. 0 \in T
  OBVIOUS
<1>11. ASSUME NEW n \in Nat, n \in T PROVE n + 1 \in T
  <2> SUFFICES ASSUME n + 1 \in 1..N PROVE F[n + 1] \in Seq(X)
    OBVIOUS
  <2>1. CASE n = 0
    BY <2>1, <1>1, <1>9
  <2>2. CASE n # 0
    <3>1. n + 1 \in 2..N /\ n \in 1..N /\ (n + 1) - 1 = n /\ F[n] \in Seq(X)
      BY <2>2, <1>1, <1>11
    <3>2. F[n + 1] = F[n] \o q[n + 1]
      BY <3>1, <1>9
    <3>3. q[n + 1] \in Seq(X)
      BY <1>1
    <3> QED BY <3>1, <3>2, <3>3
  <2> QED BY <2>1, <2>2
<1>12. Nat \subseteq T
  <2> HIDE DEF T
  <2> QED BY <1>10, <1>11, NatInd
<1>13. \A i \in 1..N : F[i] \in Seq(X)
  BY <1>1, <1>12
<1>14. F \in [1..N -> Seq(X)]
  BY <1>9, <1>13
<1> QED BY <1>8, <1>9, <1>14 DEF N

\* What FlattenSeq returns: the elements of the parts and no other, and each
\* once when no part has it twice and no two parts have it.
LEMMA Flattened ==
  ASSUME NEW X, NEW q \in Seq(Seq(X))
  PROVE  /\ FlattenSeq(q) \in Seq(X)
         /\ \A x : x \in ToSet(FlattenSeq(q)) <=> \E i \in DOMAIN q : x \in ToSet(q[i])
         /\ /\ \A i \in DOMAIN q : IsInjective(q[i])
            /\ \A i, j \in DOMAIN q : i # j => ToSet(q[i]) \cap ToSet(q[j]) = {}
            => IsInjective(FlattenSeq(q))
<1>1. CASE q = <<>>
  <2>1. FlattenSeq(q) = <<>>
    BY <1>1 DEF FlattenSeq
  <2>2. DOMAIN q = {} /\ DOMAIN FlattenSeq(q) = {}
    BY <1>1, <2>1
  <2> QED BY <2>1, <2>2 DEF ToSet, IsInjective
<1>2. CASE q # <<>>
  <2> DEFINE N == Len(q)
  <2>1. N \in Nat \ {0} /\ DOMAIN q = 1..N /\ \A i \in 1..N : q[i] \in Seq(X)
    BY <1>2
  <2>p. \E f \in [1..N -> Seq(X)] :
            /\ FlattenSeq(q) = f[N] /\ f[1] = q[1]
            /\ \A i \in 2..N : f[i] = f[i - 1] \o q[i]
    BY <1>2, FlattenIs
  <2> HIDE DEF N
  <2> PICK f \in [1..N -> Seq(X)] :
            /\ FlattenSeq(q) = f[N] /\ f[1] = q[1]
            /\ \A i \in 2..N : f[i] = f[i - 1] \o q[i]
    BY <2>p
  <2> DEFINE Apart == /\ \A i \in DOMAIN q : IsInjective(q[i])
                      /\ \A i, j \in DOMAIN q :
                            i # j => ToSet(q[i]) \cap ToSet(q[j]) = {}
             P(n) == /\ \A x : x \in ToSet(f[n]) <=> \E i \in 1..n : x \in ToSet(q[i])
                     /\ Apart => IsInjective(f[n])
             M == {n \in Nat : n \in 1..N => P(n)}
  <2>2. 0 \in M
    OBVIOUS
  <2>3. ASSUME NEW n \in Nat, n \in M PROVE n + 1 \in M
    <3> SUFFICES ASSUME n + 1 \in 1..N PROVE P(n + 1)
      OBVIOUS
    <3>1. CASE n = 0
      <4>1. 1..1 = {1} /\ 1 \in DOMAIN q
        BY <2>1
      <4>3. P(1)
        BY <4>1
      <4> HIDE DEF P
      <4> QED BY <3>1, <4>3
    <3>2. CASE n # 0
      <4>1. /\ n + 1 \in 2..N /\ n \in 1..N /\ (n + 1) - 1 = n
            /\ 1..n + 1 = (1..n) \cup {n + 1}
            /\ \A i \in 1..n : i \in DOMAIN q /\ i # n + 1
        BY <2>1, <3>2
      <4>2. P(n)
        BY <2>3, <4>1
      <4>3. f[n + 1] = f[n] \o q[n + 1] /\ f[n] \in Seq(X) /\ q[n + 1] \in Seq(X)
        BY <2>1, <4>1
      <4>4. /\ ToSet(f[n + 1]) = ToSet(f[n]) \cup ToSet(q[n + 1])
            /\ IsInjective(f[n]) /\ IsInjective(q[n + 1])
                  /\ ToSet(f[n]) \cap ToSet(q[n + 1]) = {} => IsInjective(f[n + 1])
        BY <4>3, Concatenation
      <4>6. ASSUME Apart PROVE IsInjective(f[n + 1])
        <5>1. IsInjective(q[n + 1])
          BY <2>1, <4>1, <4>6
        <5>2. \A i \in 1..n : ToSet(q[i]) \cap ToSet(q[n + 1]) = {}
          BY <2>1, <4>1, <4>6
        <5>3. ToSet(f[n]) \cap ToSet(q[n + 1]) = {}
          BY <4>2, <5>2
        <5> QED BY <4>2, <4>4, <4>6, <5>1, <5>3
      <4>7. \A x : x \in ToSet(f[n + 1]) <=> \E i \in 1..n + 1 : x \in ToSet(q[i])
        BY <4>1, <4>2, <4>4
      <4> QED BY <4>6, <4>7
    <3> QED BY <3>1, <3>2
  <2>4. Nat \subseteq M
    <3> HIDE DEF M
    <3> QED BY <2>2, <2>3, NatInd
  <2>5. P(N)
    <3>1. N \in M
      <4> HIDE DEF M
      <4> QED BY <2>1, <2>4
    <3> QED BY <2>1, <3>1
  <2>6. f[N] \in Seq(X)
    BY <2>1
  <2> QED BY <2>1, <2>5, <2>6
<1> QED BY <1>1, <1>2

-----------------------------------------------------------------------------
(* Sorting.                                                                *)

\* The ranks of a finite total order are a permutation.
LEMMA Ranks ==
  ASSUME NEW N \in Nat, NEW R,
         \A i, j \in 1..N : <<i, j>> \in R \/ <<j, i>> \in R,
         \A i, j \in 1..N : i # j => ~(<<i, j>> \in R /\ <<j, i>> \in R),
         \A i, j, k \in 1..N : <<i, j>> \in R /\ <<j, k>> \in R => <<i, k>> \in R
  PROVE  LET rank(i) == Cardinality({j \in 1..N : <<j, i>> \in R})
         IN  /\ \A i \in 1..N : rank(i) \in 1..N
             /\ \A i, j \in 1..N : rank(i) = rank(j) => i = j
             /\ \A n \in 1..N : \E i \in 1..N : rank(i) = n
<1> DEFINE D == 1..N
           below(i) == {j \in D : <<j, i>> \in R}
           rank(i) == Cardinality(below(i))
           f == [i \in D |-> rank(i)]
<1>1. IsFiniteSet(D) /\ Cardinality(D) = N
  BY FS_Interval
<1>2. ASSUME NEW i \in D
      PROVE  IsFiniteSet(below(i)) /\ rank(i) \in Nat /\ rank(i) <= N /\ rank(i) # 0
  <2>1. below(i) \in SUBSET D /\ i \in below(i)
    OBVIOUS
  <2> HIDE DEF below, D
  <2>2. IsFiniteSet(below(i)) /\ Cardinality(below(i)) <= N
    BY <1>1, <2>1, FS_Subset
  <2>3. Cardinality(below(i)) \in Nat
    BY <2>2, FS_CardinalityType
  <2>4. Cardinality(below(i)) # 0
    BY <2>1, <2>2, FS_EmptySet
  <2> QED BY <2>2, <2>3, <2>4
<1>3. \A i \in D : rank(i) \in D
  <2> TAKE i \in D
  <2>1. rank(i) \in Nat /\ rank(i) <= N /\ rank(i) # 0
    BY <1>2
  <2> HIDE DEF rank
  <2> QED BY <2>1
<1>4. ASSUME NEW i \in D, NEW j \in D, i # j, <<i, j>> \in R PROVE rank(i) # rank(j)
  <2>1. below(i) \in SUBSET below(j) /\ j \in below(j) /\ j \notin below(i)
    BY <1>4
  <2> HIDE DEF below, D
  <2>2. Cardinality(below(j)) = Cardinality(below(i)) => below(j) = below(i)
    BY <1>2, <2>1, FS_Subset
  <2> QED BY <2>1, <2>2
<1>5. \A i, j \in D : rank(i) = rank(j) => i = j
  <2> TAKE i, j \in D
  <2> HIDE DEF rank
  <2>1. <<i, j>> \in R \/ <<j, i>> \in R
    OBVIOUS
  <2> QED BY <2>1, <1>4
<1>6. \A n \in D : \E i \in D : rank(i) = n
  <2> HIDE DEF rank, D
  <2>1. f \in Injection(D, D)
    BY <1>3, <1>5 DEF Injection, IsInjective
  <2>2. f \in Surjection(D, D)
    <3> HIDE DEF f
    <3> QED BY <1>1, <2>1, FS_Injection
  <2> QED BY <2>2 DEF Surjection
<1> QED BY <1>3, <1>5, <1>6

LEMMA IntegerKeys == \A d \in Diagnostics : d.file \in Int /\ d.line \in Int /\ d.message \in Int
  BY LintResultAssumption DEF Diagnostics

\* sortDiagnostics gives back the same diagnostics, each as often.
LEMMA Sorted ==
  ASSUME NEW d \in Seq(Diagnostics)
  PROVE  /\ SortDiagnostics[d] \in Seq(Diagnostics)
         /\ ToSet(SortDiagnostics[d]) = ToSet(d)
         /\ IsInjective(d) => IsInjective(SortDiagnostics[d])
<1> DEFINE N == Len(d)
           prec(j, i) == \/ Before(d[j], d[i])
                         \/ ~Before(d[i], d[j]) /\ j <= i
           R == {p \in (1..N) \X (1..N) : prec(p[1], p[2])}
           rank(i) == Cardinality({j \in 1..N : <<j, i>> \in R})
           nth(n) == CHOOSE i \in 1..N : rank(i) = n
<1>1. N \in Nat /\ DOMAIN d = 1..N /\ \A i \in 1..N : d[i] \in Diagnostics
  OBVIOUS
<1> HIDE DEF N
<1>2. \A i, j \in 1..N : <<j, i>> \in R <=> prec(j, i)
  <2> HIDE DEF prec
  <2> QED OBVIOUS
<1>3. \A i, j \in 1..N : prec(i, j) \/ prec(j, i)
  BY <1>1, IntegerKeys DEF Before
<1>4. \A i, j \in 1..N : i # j => ~(prec(i, j) /\ prec(j, i))
  BY <1>1, IntegerKeys DEF Before
<1>5. \A i, j, k \in 1..N : prec(i, j) /\ prec(j, k) => prec(i, k)
  <2> TAKE i, j, k \in 1..N
  <2> DEFINE a == d[i]
             b == d[j]
             c == d[k]
  <2>1. /\ a.file \in Int /\ a.line \in Int /\ a.message \in Int
        /\ b.file \in Int /\ b.line \in Int /\ b.message \in Int
        /\ c.file \in Int /\ c.line \in Int /\ c.message \in Int
    BY <1>1, IntegerKeys
  <2> HIDE DEF a, b, c
  <2>2. /\ Before(a, b) \/ (~Before(b, a) /\ i <= j)
        /\ Before(b, c) \/ (~Before(c, b) /\ j <= k)
        => Before(a, c) \/ (~Before(c, a) /\ i <= k)
    BY <1>1, <2>1 DEF Before
  <2>3. /\ prec(i, j) <=> (Before(a, b) \/ (~Before(b, a) /\ i <= j))
        /\ prec(j, k) <=> (Before(b, c) \/ (~Before(c, b) /\ j <= k))
        /\ prec(i, k) <=> (Before(a, c) \/ (~Before(c, a) /\ i <= k))
    BY DEF a, b, c
  <2> HIDE DEF prec
  <2> QED BY <2>2, <2>3
<1> HIDE DEF prec, R
<1>6. /\ \A i \in 1..N : rank(i) \in 1..N
      /\ \A i, j \in 1..N : rank(i) = rank(j) => i = j
      /\ \A n \in 1..N : \E i \in 1..N : rank(i) = n
  BY <1>1, <1>2, <1>3, <1>4, <1>5, Ranks
<1>7. \A i \in 1..N : rank(i) = Cardinality({j \in DOMAIN d : prec(j, i)})
  BY <1>1, <1>2
<1>8. SortDiagnostics[d] = [n \in 1..N |-> d[CHOOSE i \in DOMAIN d :
                                Cardinality({j \in DOMAIN d : prec(j, i)}) = n]]
  BY <1>1 DEF SortDiagnostics, prec
<1> HIDE DEF rank
<1>9. \A n \in 1..N : nth(n) \in 1..N /\ rank(nth(n)) = n
  BY <1>6
<1>10. \A n \in 1..N : (CHOOSE i \in DOMAIN d :
                Cardinality({j \in DOMAIN d : prec(j, i)}) = n) = nth(n)
  BY <1>1, <1>7
<1> HIDE DEF nth
<1>11. SortDiagnostics[d] = [n \in 1..N |-> d[nth(n)]]
  BY <1>8, <1>10
<1>12. \A i \in 1..N : rank(i) \in 1..N /\ nth(rank(i)) = i
  BY <1>6, <1>9
<1>13. SortDiagnostics[d] \in Seq(Diagnostics) /\ DOMAIN SortDiagnostics[d] = 1..N
  BY <1>1, <1>9, <1>11
<1>14. ToSet(SortDiagnostics[d]) = ToSet(d)
  <2>1. \A n \in 1..N : SortDiagnostics[d][n] \in ToSet(d)
    BY <1>1, <1>9, <1>11 DEF ToSet
  <2>2. \A i \in 1..N : d[i] = SortDiagnostics[d][rank(i)] /\ rank(i) \in 1..N
    BY <1>11, <1>12
  <2>3. \A i \in 1..N : d[i] \in ToSet(SortDiagnostics[d])
    BY <1>13, <2>2 DEF ToSet
  <2> QED BY <1>1, <1>13, <2>1, <2>3 DEF ToSet
<1>15. IsInjective(d) => IsInjective(SortDiagnostics[d])
  BY <1>1, <1>9, <1>11, <1>13 DEF IsInjective
<1> QED BY <1>13, <1>14, <1>15

-----------------------------------------------------------------------------
(* Filtering, duplicates and adjustment.                                   *)

\* Some of the elements of a sequence, in their order.
Sieve(d, S) == FlattenSeq([i \in DOMAIN d |-> IF i \in S THEN <<d[i]>> ELSE <<>>])

LEMMA Sieved ==
  ASSUME NEW X, NEW d \in Seq(X), NEW S \in SUBSET DOMAIN d
  PROVE  /\ Sieve(d, S) \in Seq(X)
         /\ \A x : x \in ToSet(Sieve(d, S)) <=> \E i \in S : x = d[i]
         /\ (\A i, j \in S : i # j => d[i] # d[j]) => IsInjective(Sieve(d, S))
<1> DEFINE q == [i \in DOMAIN d |-> IF i \in S THEN <<d[i]>> ELSE <<>>]
<1>1. \A i \in DOMAIN d : d[i] \in X
  OBVIOUS
<1>2. \A i \in DOMAIN d : /\ q[i] \in Seq(X)
                          /\ i \in S => q[i] = <<d[i]>>
                          /\ i \notin S => q[i] = <<>>
  BY <1>1
<1>3. q \in Seq(Seq(X)) /\ DOMAIN q = DOMAIN d
  <2>1. /\ DOMAIN q = DOMAIN d /\ DOMAIN d = 1..Len(d) /\ Len(d) \in Nat
        /\ q = [i \in 1..Len(d) |-> q[i]]
    OBVIOUS
  <2>2. \A i \in DOMAIN d : q[i] \in Seq(X)
    BY <1>2
  <2> HIDE DEF q
  <2>3. q \in [1..Len(d) -> Seq(X)]
    BY <2>1, <2>2
  <2> QED BY <2>1, <2>3, IsSequence
<1> HIDE DEF q
<1>4. ASSUME NEW i \in DOMAIN d
      PROVE  /\ \A x : x \in ToSet(q[i]) <=> i \in S /\ x = d[i]
             /\ IsInjective(q[i])
  <2>1. CASE i \in S
    <3>1. DOMAIN q[i] = {1} /\ q[i][1] = d[i]
      BY <2>1, <1>2
    <3> QED BY <2>1, <3>1 DEF ToSet, IsInjective
  <2>2. CASE i \notin S
    <3>1. DOMAIN q[i] = {}
      BY <2>2, <1>2
    <3> QED BY <2>2, <3>1 DEF ToSet, IsInjective
  <2> QED BY <2>1, <2>2
<1>5. /\ FlattenSeq(q) \in Seq(X)
      /\ \A x : x \in ToSet(FlattenSeq(q)) <=> \E i \in DOMAIN q : x \in ToSet(q[i])
      /\ /\ \A i \in DOMAIN q : IsInjective(q[i])
         /\ \A i, j \in DOMAIN q : i # j => ToSet(q[i]) \cap ToSet(q[j]) = {}
         => IsInjective(FlattenSeq(q))
  BY <1>3, Flattened
<1>6. \A x : x \in ToSet(FlattenSeq(q)) <=> \E i \in S : x = d[i]
  BY <1>3, <1>4, <1>5
<1>7. ASSUME \A i, j \in S : i # j => d[i] # d[j] PROVE IsInjective(FlattenSeq(q))
  <2>1. ASSUME NEW i \in DOMAIN q, NEW j \in DOMAIN q, i # j, NEW x,
               x \in ToSet(q[i]), x \in ToSet(q[j])
        PROVE  FALSE
    BY <1>3, <1>4, <1>7, <2>1
  <2> QED BY <1>3, <1>4, <1>5, <2>1
<1> QED BY <1>5, <1>6, <1>7 DEF q, Sieve

\* DedupeDiagnostics keeps every diagnostic, and each once.
LEMMA Deduped ==
  ASSUME NEW d \in Seq(Diagnostics)
  PROVE  /\ DedupeDiagnostics[d] \in Seq(Diagnostics)
         /\ ToSet(DedupeDiagnostics[d]) = ToSet(d)
         /\ IsInjective(DedupeDiagnostics[d])
<1> DEFINE S == {i \in DOMAIN d : ~\E j \in 1..i - 1 : d[j] = d[i]}
           kept == Sieve(d, S)
<1>1. [i \in DOMAIN d |-> IF i \in S THEN <<d[i]>> ELSE <<>>]
        = [i \in DOMAIN d |-> IF \E j \in 1..i - 1 : d[j] = d[i] THEN <<>> ELSE <<d[i]>>]
  OBVIOUS
<1>2. DedupeDiagnostics[d] = kept
  BY <1>1 DEF DedupeDiagnostics, Sieve
<1>3. DOMAIN d \subseteq Nat \ {0} /\ \A i \in DOMAIN d : 1..i - 1 \subseteq DOMAIN d
  OBVIOUS
<1>4. S \in SUBSET DOMAIN d
  OBVIOUS
<1>5. /\ kept \in Seq(Diagnostics)
      /\ \A x : x \in ToSet(kept) <=> \E i \in S : x = d[i]
      /\ (\A i, j \in S : i # j => d[i] # d[j]) => IsInjective(kept)
  <2> HIDE DEF S
  <2> QED BY <1>4, Sieved
<1> HIDE DEF kept
<1>6. ASSUME NEW i \in S, NEW j \in S, i # j PROVE d[i] # d[j]
  <2>1. i \in 1..j - 1 \/ j \in 1..i - 1
    BY <1>3, <1>6
  <2> QED BY <2>1
<1>7. ASSUME NEW i \in DOMAIN d PROVE \E k \in S : d[i] = d[k]
  <2> DEFINE T == {k \in DOMAIN d : d[k] = d[i]}
  <2>1. T \in SUBSET Nat /\ i \in T
    BY <1>3
  <2>2. \E k \in T : \A l \in T : k <= l
    <3> HIDE DEF T
    <3> QED BY <2>1, Minimum
  <2> PICK k \in T : \A l \in T : k <= l
    BY <2>2
  <2>3. \A j \in 1..k - 1 : d[j] # d[k]
    BY <1>3
  <2> QED BY <2>3
<1>8. \A x : x \in ToSet(kept) <=> x \in ToSet(d)
  BY <1>4, <1>5, <1>7 DEF ToSet
<1> QED BY <1>2, <1>5, <1>6, <1>8

LEMMA Filtered ==
  ASSUME NEW d \in Seq(Diagnostics), NEW lines
  PROVE  LET kept == FilterGenerated(lines)[d]
         IN  /\ kept \in Seq(Diagnostics)
             /\ \A x : x \in ToSet(kept) <=> x \in ToSet(d) /\ x.line \notin lines
             /\ IsInjective(d) => IsInjective(kept)
<1> DEFINE S == {i \in DOMAIN d : d[i].line \notin lines}
           kept == Sieve(d, S)
<1>1. [i \in DOMAIN d |-> IF i \in S THEN <<d[i]>> ELSE <<>>]
        = [i \in DOMAIN d |-> IF d[i].line \in lines THEN <<>> ELSE <<d[i]>>]
  OBVIOUS
<1>2. FilterGenerated(lines)[d] = kept
  BY <1>1 DEF FilterGenerated, Sieve
<1>3. S \in SUBSET DOMAIN d
  OBVIOUS
<1>4. /\ kept \in Seq(Diagnostics)
      /\ \A x : x \in ToSet(kept) <=> \E i \in S : x = d[i]
      /\ (\A i, j \in S : i # j => d[i] # d[j]) => IsInjective(kept)
  <2> HIDE DEF S
  <2> QED BY <1>3, Sieved
<1> HIDE DEF kept
<1>5. \A x : x \in ToSet(kept) <=> x \in ToSet(d) /\ x.line \notin lines
  BY <1>4 DEF ToSet
<1>6. IsInjective(d) => IsInjective(kept)
  BY <1>4 DEF IsInjective
<1> QED BY <1>2, <1>4, <1>5, <1>6

LEMMA Shifted ==
  ASSUME NEW d \in Seq(Diagnostics), NEW offset \in Nat
  PROVE  LET moved == AdjustDiagnostics(offset)[d]
         IN  /\ moved \in Seq(Diagnostics)
             /\ \A x : x \in ToSet(moved) <=>
                    \E y \in ToSet(d) : x = [y EXCEPT !.line = @ + offset]
             /\ IsInjective(d) => IsInjective(moved)
<1> DEFINE moved == [i \in DOMAIN d |-> [d[i] EXCEPT !.line = @ + offset]]
<1>1. AdjustDiagnostics(offset)[d] = moved
  BY DEF AdjustDiagnostics
<1>2. ASSUME NEW x \in Diagnostics, NEW y \in Diagnostics
      PROVE  /\ [x EXCEPT !.line = @ + offset] \in Diagnostics
             /\ [x EXCEPT !.line = @ + offset] = [y EXCEPT !.line = @ + offset] => x = y
  <2>1. [x EXCEPT !.line = @ + offset] \in Diagnostics
    BY DEF Diagnostics
  <2>2. ASSUME [x EXCEPT !.line = @ + offset] = [y EXCEPT !.line = @ + offset]
        PROVE  x = y
    <3>1. x.line + offset = y.line + offset
      BY <2>2 DEF Diagnostics
    <3>2. x.file = y.file /\ x.rule = y.rule /\ x.message = y.message
      BY <2>2 DEF Diagnostics
    <3>3. x.line = y.line
      BY <3>1 DEF Diagnostics
    <3> QED BY <3>2, <3>3 DEF Diagnostics
  <2> QED BY <2>1, <2>2
<1>3. \A i \in DOMAIN d : d[i] \in Diagnostics /\ moved[i] \in Diagnostics
  BY <1>2
<1>4. moved \in Seq(Diagnostics) /\ DOMAIN moved = DOMAIN d
  BY <1>3
<1>5. \A i, j \in DOMAIN d : moved[i] = moved[j] => d[i] = d[j]
  BY <1>2, <1>3
<1> QED BY <1>1, <1>4, <1>5 DEF ToSet, IsInjective

-----------------------------------------------------------------------------
(* What is found in a file, and what is reported of it.                    *)

LEMMA InputTypes ==
  ASSUME NEW j \in Jobs
  PROVE  /\ j.paths \in Seq(Files) /\ j.inMemory \in BOOLEAN
         /\ j.finds \in [Files \cup {ConfigFile} -> [Rules -> Seq(Diagnostics)]]
         /\ j.generated \in [Files -> SUBSET Nat]
         /\ j.offset \in [Files -> Nat]
         /\ j.enabled \in [Files \cup {ConfigFile} -> SUBSET Rules]
         /\ j.loads \in [Files -> Loads]
BY LintResultAssumption DEF JobType

\* A rule that gives its own name to what it finds, and finds nothing twice.
NamesItself(finds, r) ==
  IsInjective(finds) /\ \A x \in ToSet(finds) : x.rule = r

\* The findings of some rules, in the order of the rules.
Findings(finds, S) == FlattenSeq([r \in Rules |-> IF r \in S THEN finds[r] ELSE <<>>])

LEMMA Gathered ==
  ASSUME NEW finds \in [Rules -> Seq(Diagnostics)], NEW S \in SUBSET Rules
  PROVE  /\ Findings(finds, S) \in Seq(Diagnostics)
         /\ \A x : x \in ToSet(Findings(finds, S)) <=> \E r \in S : x \in ToSet(finds[r])
         /\ (\A r \in S : NamesItself(finds[r], r)) => IsInjective(Findings(finds, S))
<1> DEFINE q == [r \in Rules |-> IF r \in S THEN finds[r] ELSE <<>>]
<1>1. \A r \in Rules : /\ q[r] \in Seq(Diagnostics)
                       /\ r \in S => q[r] = finds[r]
                       /\ r \notin S => DOMAIN q[r] = {}
  OBVIOUS
<1>2. q \in Seq(Seq(Diagnostics)) /\ DOMAIN q = Rules
  <2>1. q \in [Rules -> Seq(Diagnostics)] /\ RuleCount \in Nat
    BY <1>1, LintResultAssumption
  <2> HIDE DEF q
  <2> QED BY <2>1, IsSequence DEF Rules
<1> HIDE DEF q
<1>3. /\ FlattenSeq(q) \in Seq(Diagnostics)
      /\ \A x : x \in ToSet(FlattenSeq(q)) <=> \E r \in DOMAIN q : x \in ToSet(q[r])
      /\ /\ \A r \in DOMAIN q : IsInjective(q[r])
         /\ \A r, t \in DOMAIN q : r # t => ToSet(q[r]) \cap ToSet(q[t]) = {}
         => IsInjective(FlattenSeq(q))
  BY <1>2, Flattened
<1>4. ASSUME NEW r \in Rules
      PROVE  \A x : x \in ToSet(q[r]) <=> r \in S /\ x \in ToSet(finds[r])
  BY <1>1 DEF ToSet
<1>5. \A x : x \in ToSet(FlattenSeq(q)) <=> \E r \in S : x \in ToSet(finds[r])
  BY <1>2, <1>3, <1>4
<1>6. ASSUME \A r \in S : NamesItself(finds[r], r) PROVE IsInjective(FlattenSeq(q))
  <2>1. ASSUME NEW r \in Rules PROVE IsInjective(q[r])
    <3>1. CASE r \in S
      BY <3>1, <1>1, <1>6 DEF NamesItself
    <3>2. CASE r \notin S
      BY <3>2, <1>1 DEF IsInjective
    <3> QED BY <3>1, <3>2
  <2>2. ASSUME NEW r \in Rules, NEW t \in Rules, r # t, NEW x,
               x \in ToSet(q[r]), x \in ToSet(q[t])
        PROVE  FALSE
    BY <1>4, <1>6, <2>2 DEF NamesItself
  <2> QED BY <1>2, <1>3, <2>1, <2>2
<1> QED BY <1>3, <1>5, <1>6 DEF q, Findings

\* A finding is reported at its line in the whole file.
AsReported(j, f, x) == [x EXCEPT !.line = @ + j.offset[f]]

\* checkRules reports of a file what its rules find outside generated sections,
\* and nothing else.
LEMMA Collected ==
  ASSUME NEW j \in Jobs, NEW f \in Files
  PROVE  LET c == Collect(j, f, Filled(j, f))
         IN  /\ c \in Seq(Diagnostics)
             /\ \A x : x \in ToSet(c) <=>
                    \E r \in Slots(j, f) : \E y \in ToSet(j.finds[f][r]) :
                        y.line \notin j.generated[f] /\ x = AsReported(j, f, y)
             /\ (\A r \in Slots(j, f) : NamesItself(j.finds[f][r], r)) => IsInjective(c)
<1> DEFINE S == Slots(j, f)
           finds == j.finds[f]
           all == Findings(finds, S)
           kept == FilterGenerated(j.generated[f])[all]
           c == AdjustDiagnostics(j.offset[f])[kept]
<1>1. S \in SUBSET Rules /\ finds \in [Rules -> Seq(Diagnostics)] /\ j.offset[f] \in Nat
  BY InputTypes DEF Slots, MarkdownRules
<1>2. Collect(j, f, Filled(j, f)) = c
  <2>1. [r \in Rules |-> IF r \in DOMAIN Filled(j, f) THEN Filled(j, f)[r] ELSE <<>>]
            = [r \in Rules |-> IF r \in S THEN finds[r] ELSE <<>>]
    BY DEF Filled
  <2> QED BY <2>1 DEF Collect, Findings
<1> HIDE DEF S, finds
<1>3. /\ all \in Seq(Diagnostics)
      /\ \A x : x \in ToSet(all) <=> \E r \in S : x \in ToSet(finds[r])
      /\ (\A r \in S : NamesItself(finds[r], r)) => IsInjective(all)
  BY <1>1, Gathered
<1> HIDE DEF all
<1>4. /\ kept \in Seq(Diagnostics)
      /\ \A x : x \in ToSet(kept) <=> x \in ToSet(all) /\ x.line \notin j.generated[f]
      /\ IsInjective(all) => IsInjective(kept)
  BY <1>3, Filtered
<1> HIDE DEF kept
<1>5. /\ c \in Seq(Diagnostics)
      /\ \A x : x \in ToSet(c) <=> \E y \in ToSet(kept) : x = AsReported(j, f, y)
      /\ IsInjective(kept) => IsInjective(c)
  BY <1>1, <1>4, Shifted DEF AsReported
<1> HIDE DEF c
<1>6. \A x : x \in ToSet(c) <=>
            \E r \in S : \E y \in ToSet(finds[r]) :
                y.line \notin j.generated[f] /\ x = AsReported(j, f, y)
  BY <1>3, <1>4, <1>5
<1>7. (\A r \in S : NamesItself(finds[r], r)) => IsInjective(c)
  BY <1>3, <1>4, <1>5
<1> QED BY <1>2, <1>5, <1>6, <1>7 DEF S, finds

LEMMA ReportedKeepsNames ==
  ASSUME NEW j \in Jobs, NEW f \in Files, NEW x \in Diagnostics
  PROVE  AsReported(j, f, x).rule = x.rule /\ AsReported(j, f, x).file = x.file
BY DEF AsReported, Diagnostics

\* runConfigTargetRules reports what the rules about the configuration find.
LEMMA ConfigDiagsAre ==
  ASSUME NEW j \in Jobs
  PROVE  LET c == ConfigDiags(j)
             S == ConfigTargets(j) \ j.badSettings
         IN  /\ c \in Seq(Diagnostics)
             /\ \A x : x \in ToSet(c) <=> \E r \in S : x \in ToSet(j.finds[ConfigFile][r])
             /\ (\A r \in S : NamesItself(j.finds[ConfigFile][r], r)) => IsInjective(c)
<1> DEFINE S == ConfigTargets(j) \ j.badSettings
           finds == j.finds[ConfigFile]
<1>1. S \in SUBSET Rules /\ finds \in [Rules -> Seq(Diagnostics)]
  BY InputTypes, LintResultAssumption DEF ConfigTargets
<1>2. ConfigDiags(j) = Findings(finds, S)
  BY DEF ConfigDiags, Findings
<1> HIDE DEF S, finds
<1> QED BY <1>1, <1>2, Gathered DEF S, finds

-----------------------------------------------------------------------------
(* The result of a run, one file after the other.                          *)

\* filterIgnored only takes paths away.
LEMMA WorkIs ==
  ASSUME NEW j \in Jobs
  PROVE  /\ Work(j) \in Seq(Files)
         /\ \A f : f \in ToSet(Work(j)) <=>
                f \in ToSet(j.paths) /\ (j.inMemory \/ f \notin j.ignored)
         /\ IsInjective(j.paths) => IsInjective(Work(j))
<1> DEFINE p == j.paths
           S == {i \in DOMAIN p : p[i] \notin j.ignored}
<1>1. p \in Seq(Files) /\ S \in SUBSET DOMAIN p
  BY InputTypes
<1>2. CASE j.inMemory
  BY <1>1, <1>2 DEF Work
<1>3. CASE ~j.inMemory
  <2>1. [i \in DOMAIN p |-> IF p[i] \in j.ignored THEN <<>> ELSE <<p[i]>>]
            = [i \in DOMAIN p |-> IF i \in S THEN <<p[i]>> ELSE <<>>]
    OBVIOUS
  <2>2. Work(j) = Sieve(p, S)
    BY <1>3, <2>1 DEF Work, Sieve
  <2>3. \A f : (\E i \in S : f = p[i]) <=> f \in ToSet(p) /\ f \notin j.ignored
    BY DEF ToSet
  <2>4. IsInjective(p) => \A i, k \in S : i # k => p[i] # p[k]
    BY DEF IsInjective
  <2> HIDE DEF S, p
  <2>5. /\ Sieve(p, S) \in Seq(Files)
        /\ \A f : f \in ToSet(Sieve(p, S)) <=> \E i \in S : f = p[i]
        /\ (\A i, k \in S : i # k => p[i] # p[k]) => IsInjective(Sieve(p, S))
    BY <1>1, Sieved
  <2> QED BY <1>3, <2>2, <2>3, <2>4, <2>5 DEF p
<1> QED BY <1>2, <1>3

\* What a run reports of a file that it reads.
Reported(j, f) == Outcome(j, f, Filled(j, f)).diags

LEMMA ReportedIs ==
  ASSUME NEW j \in Jobs, NEW f \in Files
  PROVE  /\ Reported(j, f) \in Seq(Diagnostics)
         /\ \A x : x \in ToSet(Reported(j, f)) <=>
                j.loads[f] = "ok" /\ \E r \in Slots(j, f) : \E y \in ToSet(j.finds[f][r]) :
                    y.line \notin j.generated[f] /\ x = AsReported(j, f, y)
         /\ (\A r \in Slots(j, f) : NamesItself(j.finds[f][r], r)) => IsInjective(Reported(j, f))
<1>1. CASE j.loads[f] = "ok"
  <2>1. Reported(j, f) = Collect(j, f, Filled(j, f))
    BY <1>1 DEF Reported, Outcome
  <2> QED BY <1>1, <2>1, Collected
<1>2. CASE j.loads[f] # "ok"
  <2>1. Reported(j, f) = <<>>
    BY <1>2 DEF Reported, Outcome
  <2> QED BY <1>2, <2>1 DEF ToSet, IsInjective
<1> QED BY <1>1, <1>2

\* The diagnostics before duplicates are looked for and the sort.
Gather(j) ==
  ConfigDiags(j) \o FlattenSeq([i \in DOMAIN Work(j) |-> Reported(j, Work(j)[i])])

LEMMA GatherIs ==
  ASSUME NEW j \in Jobs
  PROVE  /\ Gather(j) \in Seq(Diagnostics)
         /\ \A x : x \in ToSet(Gather(j)) <=>
                \/ x \in ToSet(ConfigDiags(j))
                \/ \E i \in DOMAIN Work(j) : x \in ToSet(Reported(j, Work(j)[i]))
         /\ /\ IsInjective(ConfigDiags(j))
            /\ \A i \in DOMAIN Work(j) :
                /\ IsInjective(Reported(j, Work(j)[i]))
                /\ ToSet(ConfigDiags(j)) \cap ToSet(Reported(j, Work(j)[i])) = {}
                /\ \A k \in DOMAIN Work(j) : i # k =>
                    ToSet(Reported(j, Work(j)[i])) \cap ToSet(Reported(j, Work(j)[k])) = {}
            => IsInjective(Gather(j))
<1> DEFINE w == Work(j)
           q == [i \in DOMAIN w |-> Reported(j, w[i])]
           c == ConfigDiags(j)
<1>1. w \in Seq(Files) /\ c \in Seq(Diagnostics)
  BY WorkIs, ConfigDiagsAre
<1> HIDE DEF w, c
<1>2. q \in Seq(Seq(Diagnostics)) /\ DOMAIN q = DOMAIN w
      /\ \A i \in DOMAIN w : q[i] = Reported(j, w[i])
  <2>1. DOMAIN w = 1..Len(w) /\ Len(w) \in Nat /\ \A i \in DOMAIN w : w[i] \in Files
    BY <1>1
  <2>2. \A i \in DOMAIN w : Reported(j, w[i]) \in Seq(Diagnostics)
    BY <2>1, ReportedIs
  <2>3. q \in [1..Len(w) -> Seq(Diagnostics)]
    BY <2>1, <2>2
  <2>4. \A i \in DOMAIN w : q[i] = Reported(j, w[i])
    OBVIOUS
  <2> HIDE DEF q
  <2> QED BY <2>1, <2>3, <2>4, IsSequence
<1>3. Gather(j) = c \o FlattenSeq(q)
  BY DEF Gather, w, c
<1> HIDE DEF q
<1>4. /\ FlattenSeq(q) \in Seq(Diagnostics)
      /\ \A x : x \in ToSet(FlattenSeq(q)) <=> \E i \in DOMAIN q : x \in ToSet(q[i])
      /\ /\ \A i \in DOMAIN q : IsInjective(q[i])
         /\ \A i, k \in DOMAIN q : i # k => ToSet(q[i]) \cap ToSet(q[k]) = {}
         => IsInjective(FlattenSeq(q))
  BY <1>2, Flattened
<1>5. /\ c \o FlattenSeq(q) \in Seq(Diagnostics)
      /\ ToSet(c \o FlattenSeq(q)) = ToSet(c) \cup ToSet(FlattenSeq(q))
      /\ IsInjective(c) /\ IsInjective(FlattenSeq(q)) /\ ToSet(c) \cap ToSet(FlattenSeq(q)) = {}
            => IsInjective(c \o FlattenSeq(q))
  BY <1>1, <1>4, Concatenation
<1>6. \A x : x \in ToSet(Gather(j)) <=>
            x \in ToSet(c) \/ \E i \in DOMAIN w : x \in ToSet(Reported(j, w[i]))
  BY <1>2, <1>3, <1>4, <1>5
<1>7. ASSUME /\ IsInjective(c)
             /\ \A i \in DOMAIN w :
                 /\ IsInjective(Reported(j, w[i]))
                 /\ ToSet(c) \cap ToSet(Reported(j, w[i])) = {}
                 /\ \A k \in DOMAIN w : i # k =>
                     ToSet(Reported(j, w[i])) \cap ToSet(Reported(j, w[k])) = {}
      PROVE  IsInjective(Gather(j))
  <2>1. IsInjective(FlattenSeq(q))
    BY <1>2, <1>4, <1>7
  <2>2. \A i \in DOMAIN q : ToSet(c) \cap ToSet(q[i]) = {}
    BY <1>2, <1>7
  <2>3. ToSet(c) \cap ToSet(FlattenSeq(q)) = {}
    BY <1>4, <2>2
  <2> QED BY <1>3, <1>5, <1>7, <2>1, <2>3
<1> QED BY <1>3, <1>5, <1>6, <1>7 DEF w, c

\* The hypotheses on a run's input.

\* A rule gives its own name to what it finds and finds nothing twice; unless
\* it is about the repository, it speaks of the file it checks.
RulesAreProper(j) ==
  \A r \in Rules :
    /\ NamesItself(j.finds[ConfigFile][r], r)
    /\ \A f \in Files :
        /\ NamesItself(j.finds[f][r], r)
        /\ r \notin RepoRules => \A x \in ToSet(j.finds[f][r]) : x.file = f

\* No file is named twice, and a buffer is one file.
NamedOnce(j) == IsInjective(j.paths) /\ (j.inMemory => Len(j.paths) <= 1)

\* A rule about the repository that is on for a file's kind is on for the run,
\* which is what decides whether duplicates are looked for.
GlobalWhenOn(j) == \A f \in Files : j.enabled[f] \cap RepoRules \subseteq j.enabledGlobally

ProperInput(j) == RulesAreProper(j) /\ NamedOnce(j) /\ GlobalWhenOn(j)

\* Where a run does not look for duplicates there is none.
LEMMA NoneToLookFor ==
  ASSUME NEW j \in Jobs, ProperInput(j), j.inMemory \/ ~AnyRepoScopedEnabled(j)
  PROVE  IsInjective(Gather(j))
<1> DEFINE w == Work(j)
<1>1. w \in Seq(Files) /\ IsInjective(w) /\ \A i \in DOMAIN w : w[i] \in Files
  BY WorkIs DEF ProperInput, NamedOnce
<1>2. IsInjective(ConfigDiags(j))
  <2>1. ConfigTargets(j) \subseteq Rules
    BY LintResultAssumption DEF ConfigTargets
  <2> QED BY <2>1, ConfigDiagsAre DEF ProperInput, RulesAreProper
<1>3. \A f \in Files : Slots(j, f) \subseteq Rules
  BY DEF Slots, MarkdownRules
<1>4. \A i \in DOMAIN w : IsInjective(Reported(j, w[i]))
  BY <1>1, <1>3, ReportedIs DEF ProperInput, RulesAreProper
<1>5. ASSUME NEW i \in DOMAIN w, NEW x \in ToSet(Reported(j, w[i]))
      PROVE  \E r \in Slots(j, w[i]) :
                /\ x.rule = r /\ r \in Rules
                /\ r \notin RepoRules => x.file = w[i]
  <2>1. PICK r \in Slots(j, w[i]) : \E y \in ToSet(j.finds[w[i]][r]) : x = AsReported(j, w[i], y)
    BY <1>1, ReportedIs
  <2>2. PICK y \in ToSet(j.finds[w[i]][r]) : x = AsReported(j, w[i], y)
    BY <2>1
  <2>3. r \in Rules /\ w[i] \in Files
    BY <1>1, <1>3
  <2>4. y \in Diagnostics
    BY <2>3, InputTypes DEF ToSet
  <2>5. x.rule = y.rule /\ x.file = y.file
    BY <2>2, <2>3, <2>4, ReportedKeepsNames
  <2>6. y.rule = r /\ (r \notin RepoRules => y.file = w[i])
    BY <2>3 DEF ProperInput, RulesAreProper, NamesItself
  <2> QED BY <2>3, <2>5, <2>6
<1>6. ASSUME NEW i \in DOMAIN w, NEW x, x \in ToSet(ConfigDiags(j)), x \in ToSet(Reported(j, w[i]))
      PROVE  FALSE
  <2>1. PICK r \in ConfigTargets(j) : x \in ToSet(j.finds[ConfigFile][r])
    BY <1>6, ConfigDiagsAre
  <2>2. r \in ConfigRules /\ r \in Rules /\ j.configPath # NoConfig
    BY <2>1, LintResultAssumption DEF ConfigTargets
  <2>3. x.rule = r
    BY <2>1, <2>2 DEF ProperInput, RulesAreProper, NamesItself
  <2>4. r \in Slots(j, w[i])
    BY <1>5, <1>6, <2>3
  <2> QED BY <2>2, <2>4 DEF Slots, MarkdownRules
<1>7. ASSUME NEW i \in DOMAIN w, NEW k \in DOMAIN w, i # k, NEW x,
             x \in ToSet(Reported(j, w[i])), x \in ToSet(Reported(j, w[k]))
      PROVE  FALSE
  <2>1. CASE j.inMemory
    <3>1. w = j.paths /\ Len(w) <= 1
      BY <2>1 DEF Work, ProperInput, NamedOnce
    <3> QED BY <1>1, <1>7, <3>1
  <2>2. CASE ~j.inMemory
    <3>1. ~AnyRepoScopedEnabled(j)
      BY <2>2
    <3>2. \A f \in Files : \A r \in Slots(j, f) : r \notin RepoRules
      BY <3>1 DEF AnyRepoScopedEnabled, Slots, ProperInput, GlobalWhenOn
    <3>3. x.file = w[i] /\ x.file = w[k]
      BY <1>1, <1>5, <1>7, <3>2
    <3> QED BY <1>1, <1>7, <3>3 DEF IsInjective
  <2> QED BY <2>1, <2>2
<1> HIDE DEF w
<1>8. \A i \in DOMAIN w : ToSet(ConfigDiags(j)) \cap ToSet(Reported(j, w[i])) = {}
  BY <1>6
<1>9. \A i, k \in DOMAIN w : i # k => ToSet(Reported(j, w[i])) \cap ToSet(Reported(j, w[k])) = {}
  BY <1>7
<1> QED BY <1>2, <1>4, <1>8, <1>9, GatherIs DEF w

\* The result has everything that was gathered, each once.
LEMMA SequentialResultIs ==
  ASSUME NEW j \in Jobs
  PROVE  /\ SequentialResult(j).diags \in Seq(Diagnostics)
         /\ ToSet(SequentialResult(j).diags) = ToSet(Gather(j))
         /\ ProperInput(j) => IsInjective(SequentialResult(j).diags)
<1> DEFINE o == [i \in DOMAIN Work(j) |-> Outcome(j, Work(j)[i], Filled(j, Work(j)[i]))]
           once == IF ~j.inMemory /\ AnyRepoScopedEnabled(j)
                   THEN DedupeDiagnostics[Gather(j)] ELSE Gather(j)
<1>1. [i \in DOMAIN o |-> o[i].diags] = [i \in DOMAIN Work(j) |-> Reported(j, Work(j)[i])]
  BY DEF Reported
<1>2. SequentialResult(j).diags = Ordered(j, once)
  BY <1>1 DEF SequentialResult, MergeOutcomes, Gather
<1>3. Gather(j) \in Seq(Diagnostics)
  BY GatherIs
<1>4. once \in Seq(Diagnostics) /\ ToSet(once) = ToSet(Gather(j))
  BY <1>3, Deduped
<1>5. ASSUME ProperInput(j) PROVE IsInjective(once)
  <2>1. CASE ~j.inMemory /\ AnyRepoScopedEnabled(j)
    BY <2>1, <1>3, Deduped
  <2>2. CASE ~(~j.inMemory /\ AnyRepoScopedEnabled(j))
    <3>1. IsInjective(Gather(j))
      BY <1>5, <2>2, InputTypes, NoneToLookFor
    <3> QED BY <2>2, <3>1
  <2> QED BY <2>1, <2>2
<1> HIDE DEF once
<1> QED BY <1>2, <1>4, <1>5, Sorted DEF Ordered

-----------------------------------------------------------------------------
(* What the proofs need to know of the functions of LintResult.            *)

LEMMA WorkIsSequence ==
    ASSUME NEW j \in Jobs
    PROVE  /\ Work(j) \in Seq(Files)
           /\ DOMAIN Work(j) = 1..Len(Work(j)) /\ Len(Work(j)) \in Nat
  BY WorkIs

LEMMA WorkerCount ==
    ASSUME NEW j \in Jobs
    PROVE  ResolveWorkers(j) \in Int /\ ResolveWorkers(j) <= MaxWorkers
<1>1. j.concurrency \in Int /\ j.gomaxprocs \in Nat
  BY LintResultAssumption DEF JobType
<1> QED BY <1>1, WorkIsSequence, EngineRunAssumption DEF ResolveWorkers

-----------------------------------------------------------------------------
(* The inductive invariant.                                                *)

\* What linting the i-th file alone gives.
Done(i) == Outcome(job, Work(job)[i], Filled(job, Work(job)[i]))

\* A worker that runs has instances of its own, or is the only one.
Ownership ==
    \A w \in Workers :
        /\ pc[w] \in {"pull", "lint", "check"} =>
            IF ResolveWorkers(job) <= 1 THEN w = 1 ELSE rules[w] = w
        /\ pc[w] = "clone" => ResolveWorkers(job) > 1
        /\ pc[w] # "check" => running[w] = {}

\* Every file before the counter is done, or some worker has it.
Progress ==
    \A i \in DOMAIN outcomes : i < next =>
        \/ outcomes[i] = Done(i)
        \/ \E w \in Workers : pc[w] \in {"lint", "check"} /\ index[w] = i

\* A rule of the file has been checked, is being checked, or is left to check.
Slotted ==
    \A w \in Workers : pc[w] = "check" =>
        /\ job.loads[File(w)] = "ok"
        /\ left[w] \cup running[w] \subseteq Rules
        /\ \A r \in Checkers(job, File(w)) :
            r \in left[w] \cup running[w]
                \/ found[w][r] = job.finds[File(w)][r]

\* A worker stops when the counter has passed the last file.
Exhausted ==
    /\ stage = "new" => next = 1 /\ \A w \in Workers : pc[w] = "off"
    /\ stage # "new" =>
        \A w \in Workers :
            /\ pc[w] # "off"
            /\ w \in UsedWorkers /\ pc[w] = "exit" =>
                \A i \in DOMAIN outcomes : i < next

\* The slice is a function of its indices.
IsSlice == outcomes = [i \in DOMAIN outcomes |-> outcomes[i]]

Inv == TypeOK /\ Ownership /\ Progress /\ Slotted /\ Exhausted /\ IsSlice

LEMMA InvInit == Init => Inv
<1> SUFFICES ASSUME Init PROVE Inv
  OBVIOUS
<1>1. TypeOK
  BY DEF Init, TypeOK, WorkerPCs, NothingFound
<1>2. Ownership /\ Progress /\ Slotted /\ Exhausted /\ IsSlice
  BY DEF Init, Ownership, Progress, Slotted, Exhausted, IsSlice
<1> QED BY <1>1, <1>2 DEF Inv

LEMMA JobFacts ==
    ASSUME NEW j \in Jobs, NEW f \in Files
    PROVE  /\ Checkers(j, f) \subseteq Rules
           /\ Checkers(j, f) = Slots(j, f) \ NodeRules
           /\ Slots(j, f) \subseteq Rules
           /\ j.finds[f] \in [Rules -> Seq(Diagnostics)]
<1>1. j.finds \in [Files \cup {ConfigFile} -> [Rules -> Seq(Diagnostics)]]
  BY LintResultAssumption DEF JobType
<1> QED BY <1>1 DEF Checkers, Slots, MarkdownRules

LEMMA FileOfWorker ==
    ASSUME Inv, NEW w \in Workers, pc[w] \in {"lint", "check"}
    PROVE  /\ index[w] \in DOMAIN outcomes
           /\ DOMAIN outcomes = DOMAIN Work(job)
           /\ File(w) \in Files
<1>1. index[w] \in DOMAIN outcomes /\ stage # "new"
  BY DEF Inv, TypeOK, Exhausted
<1>2. DOMAIN outcomes = DOMAIN Work(job)
  BY <1>1 DEF Inv, TypeOK
<1> QED BY <1>1, <1>2, WorkIsSequence DEF Inv, TypeOK, File

LEMMA InvStep == Inv /\ [Next]_vars => Inv'
<1> SUFFICES ASSUME Inv, [Next]_vars PROVE Inv'
  OBVIOUS
<1> USE EngineRunAssumption DEF Inv, WorkerPCs, IsSlice
<1>j. job \in Jobs
  BY DEF TypeOK
<1>1. CASE Start
  <2> USE <1>1 DEF Start
  <2>1. UsedWorkers \subseteq Workers /\ UsedWorkers # {}
    BY <1>j, WorkerCount DEF UsedWorkers, Workers
  <2>2. DOMAIN outcomes' = DOMAIN Work(job)
    OBVIOUS
  <2>3. TypeOK'
    BY <2>2 DEF TypeOK
  <2>4. Ownership'
    <3>1. \A w \in Workers :
            /\ pc'[w] \in {"exit", "pull", "clone"}
            /\ pc'[w] = "pull" => ResolveWorkers(job) <= 1 /\ w = 1
            /\ pc'[w] = "clone" => ~(ResolveWorkers(job) <= 1)
      BY DEF UsedWorkers
    <3>2. ResolveWorkers(job) \in Int
      BY <1>j, WorkerCount
    <3>3. \A w \in Workers : pc[w] = "off" /\ running[w] = {}
      BY DEF Ownership, Exhausted
    <3> QED BY <3>1, <3>2, <3>3 DEF Ownership
  <2>5. Progress'
    BY <1>j, <2>2, WorkIsSequence DEF Progress, Exhausted
  <2>6. Slotted'
    BY DEF Slotted, TypeOK
  <2>7. Exhausted'
    BY DEF Exhausted, TypeOK, UsedWorkers
  <2> QED BY <2>3, <2>4, <2>5, <2>6, <2>7
<1>2. CASE Finish
  <2> USE <1>2 DEF Finish
  <2>1. TypeOK'
    BY DEF TypeOK
  <2>2. Ownership' /\ Progress' /\ Slotted' /\ Exhausted'
    BY DEF Ownership, Progress, Slotted, Exhausted, Done, File, UsedWorkers
  <2> QED BY <2>1, <2>2
<1>3. ASSUME NEW w \in Workers, StartWorker(w) PROVE Inv'
  <2> USE <1>3 DEF StartWorker, CloneRules
  <2>1. TypeOK'
    BY DEF TypeOK
  <2>2. Ownership'
    <3>1. ResolveWorkers(job) \in Int
      BY <1>j, WorkerCount
    <3>2. rules' = [rules EXCEPT ![w] = w] /\ rules'[w] = w
      BY DEF TypeOK
    <3>3. pc' = [pc EXCEPT ![w] = "pull"] /\ ~(ResolveWorkers(job) <= 1)
      BY <3>1 DEF Ownership
    <3> QED BY <3>2, <3>3 DEF Ownership, TypeOK
  <2>3. Progress'
    BY DEF Progress, TypeOK, Done
  <2>4. Slotted'
    BY DEF Slotted, TypeOK, File
  <2>5. Exhausted'
    BY DEF Exhausted, TypeOK, UsedWorkers
  <2> QED BY <2>1, <2>2, <2>3, <2>4, <2>5
<1>4. ASSUME NEW w \in Workers, Pull(w) PROVE Inv'
  <2> USE <1>4 DEF Pull
  <2>1. TypeOK'
    <3>1. CASE next \in DOMAIN outcomes
      <4>1. /\ pc' = [pc EXCEPT ![w] = "lint"]
            /\ index' = [index EXCEPT ![w] = next]
        BY <3>1
      <4> QED BY <3>1, <4>1 DEF TypeOK
    <3>2. CASE next \notin DOMAIN outcomes
      <4>1. pc' = [pc EXCEPT ![w] = "exit"] /\ index' = index
        BY <3>2
      <4> QED BY <4>1 DEF TypeOK
    <3> QED BY <3>1, <3>2
  <2>2. Ownership'
    BY DEF Ownership, TypeOK
  <2>3. Progress'
    <3> SUFFICES ASSUME NEW i \in DOMAIN outcomes, i < next + 1,
                        outcomes[i] # Done(i)
                 PROVE  \E v \in Workers :
                            pc'[v] \in {"lint", "check"} /\ index'[v] = i
      BY DEF Progress, Done
    <3>1. i \in Nat /\ next \in Nat
      BY <1>j, WorkIsSequence DEF TypeOK
    <3>2. CASE i < next
      <4> PICK v \in Workers : pc[v] \in {"lint", "check"} /\ index[v] = i
        BY <3>2 DEF Progress
      <4>1. v # w
        OBVIOUS
      <4> QED BY <4>1 DEF TypeOK
    <3>3. CASE i = next
      BY <3>3 DEF TypeOK
    <3> QED BY <3>1, <3>2, <3>3
  <2>4. Slotted'
    <3>1. \A v \in Workers : pc'[v] = "check" =>
            pc[v] = "check" /\ index'[v] = index[v]
      BY DEF TypeOK
    <3> QED BY <3>1 DEF Slotted, File
  <2>5. Exhausted'
    <3>1. \A i \in DOMAIN outcomes : i \in Nat
      BY <1>j, WorkIsSequence DEF TypeOK
    <3>2. next \notin DOMAIN outcomes /\ stage # "new" =>
            \A i \in DOMAIN outcomes : i < next + 1
      <4>1. CASE stage # "new"
        <5>1. DOMAIN outcomes = 1..Len(Work(job)) /\ Len(Work(job)) \in Nat
          BY <1>j, <4>1, WorkIsSequence DEF TypeOK
        <5> QED BY <5>1 DEF TypeOK
      <4> QED BY <4>1
    <3>3. stage # "new"
      BY DEF Exhausted, TypeOK
    <3> QED BY <3>1, <3>2, <3>3 DEF Exhausted, TypeOK, UsedWorkers
  <2> QED BY <2>1, <2>2, <2>3, <2>4, <2>5
<1>5. ASSUME NEW w \in Workers, FailFile(w) PROVE Inv'
  <2> USE <1>5 DEF FailFile, Put
  <2>1. File(w) \in Files /\ index[w] \in DOMAIN outcomes
    BY FileOfWorker
  <2>2. Outcome(job, File(w), <<>>) = Done(index[w])
    BY DEF Outcome, Done, File
  <2>3. DOMAIN outcomes' = DOMAIN outcomes
    OBVIOUS
  <2>4. TypeOK'
    BY <2>3 DEF TypeOK
  <2>5. Ownership'
    BY DEF Ownership, TypeOK
  <2>6. Progress'
    BY <2>1, <2>2 DEF Progress, TypeOK, Done
  <2>7. Slotted'
    BY DEF Slotted, TypeOK, File
  <2>8. Exhausted'
    BY <2>3 DEF Exhausted, TypeOK, UsedWorkers
  <2> QED BY <2>4, <2>5, <2>6, <2>7, <2>8
<1>6. ASSUME NEW w \in Workers, ClassifyRules(w) PROVE Inv'
  <2> USE <1>6 DEF ClassifyRules
  <2>1. File(w) \in Files
    BY FileOfWorker
  <2>2. Checkers(job, File(w)) \subseteq Rules
    BY <1>j, <2>1, JobFacts
  <2>3. TypeOK'
    BY <2>2 DEF TypeOK, NothingFound
  <2>4. Ownership'
    BY DEF Ownership, TypeOK
  <2>5. Progress'
    <3>1. \A v \in Workers :
            pc[v] \in {"lint", "check"} => pc'[v] \in {"lint", "check"}
      BY DEF TypeOK
    <3> QED BY <3>1 DEF Progress, Done
  <2>6. Slotted'
    BY <2>2 DEF Slotted, TypeOK, File, Ownership
  <2>7. Exhausted'
    BY DEF Exhausted, TypeOK, UsedWorkers
  <2> QED BY <2>3, <2>4, <2>5, <2>6, <2>7
<1>7. ASSUME NEW w \in Workers, SpawnCheck(w) PROVE Inv'
  <2> USE <1>7 DEF SpawnCheck
  <2>1. TypeOK'
    BY DEF TypeOK
  <2>2. Ownership'
    BY DEF Ownership, TypeOK
  <2>3. Progress'
    BY DEF Progress, TypeOK, Done
  <2>4. Slotted'
    BY DEF Slotted, TypeOK, File
  <2>5. Exhausted'
    BY DEF Exhausted, TypeOK, UsedWorkers
  <2> QED BY <2>1, <2>2, <2>3, <2>4, <2>5
<1>8. ASSUME NEW w \in Workers, NEW r \in Rules, FinishCheck(w, r)
      PROVE  Inv'
  <2> USE <1>8 DEF FinishCheck
  <2>1. pc[w] = "check"
    BY DEF Ownership
  <2>2. File(w) \in Files
    BY <2>1, FileOfWorker
  <2>3. job.finds[File(w)] \in [Rules -> Seq(Diagnostics)]
    BY <1>j, <2>2, JobFacts
  <2>4. TypeOK'
    BY <2>3 DEF TypeOK
  <2>5. Ownership'
    BY DEF Ownership, TypeOK
  <2>6. Progress'
    BY DEF Progress, TypeOK, Done
  <2>7. Slotted'
    BY <2>1 DEF Slotted, TypeOK, File
  <2>8. Exhausted'
    BY DEF Exhausted, TypeOK, UsedWorkers
  <2> QED BY <2>4, <2>5, <2>6, <2>7, <2>8
<1>9. ASSUME NEW w \in Workers, WalkAndCollect(w) PROVE Inv'
  <2> USE <1>9 DEF WalkAndCollect, Put, Joined
  <2> DEFINE slots == [r \in Slots(job, File(w)) |->
                        IF r \in NodeRules THEN job.finds[File(w)][r]
                        ELSE found[w][r]]
  <2>1. File(w) \in Files /\ index[w] \in DOMAIN outcomes
    BY FileOfWorker
  <2>2. \A r \in Slots(job, File(w)) \ NodeRules :
            found[w][r] = job.finds[File(w)][r]
    BY <1>j, <2>1, JobFacts DEF Slotted
  <2>3. slots = Filled(job, File(w))
    BY <2>2 DEF Filled
  <2>4. outcomes' = [outcomes EXCEPT ![index[w]] = Done(index[w])]
    BY <2>3 DEF Done, File
  <2>5. DOMAIN outcomes' = DOMAIN outcomes
    OBVIOUS
  <2>6. TypeOK'
    BY <2>5 DEF TypeOK
  <2>7. Ownership'
    BY DEF Ownership, TypeOK
  <2>8. Progress'
    BY <2>1, <2>4 DEF Progress, TypeOK, Done
  <2>9. Slotted'
    BY DEF Slotted, TypeOK, File
  <2>10. Exhausted'
    BY <2>5 DEF Exhausted, TypeOK, UsedWorkers
  <2> QED BY <2>6, <2>7, <2>8, <2>9, <2>10
<1>10. CASE UNCHANGED vars
  <2> USE <1>10 DEF vars
  <2>1. TypeOK'
    BY DEF TypeOK
  <2>2. Ownership' /\ Progress'
    BY DEF Ownership, Progress, Done
  <2>3. Slotted' /\ Exhausted' /\ IsSlice'
    BY DEF Slotted, Exhausted, File, UsedWorkers
  <2> QED BY <2>1, <2>2, <2>3
<1> QED
  BY <1>1, <1>2, <1>3, <1>4, <1>5, <1>6, <1>7, <1>8, <1>9, <1>10
     DEF Next, WorkerStep

LEMMA Invariance == Spec => []Inv
  BY InvInit, InvStep, PTL DEF Spec

-----------------------------------------------------------------------------

\* runner.go: every variable of a run keeps its type; a worker never takes an
\* index outside the slice.
THEOREM TypeCorrect == Spec => []TypeOK
<1>1. Inv => TypeOK
  BY DEF Inv
<1> QED BY <1>1, Invariance, PTL

\* cloneRules: two workers never use one rule instance at the same time.
THEOREM InstancesAreExclusive == Spec => []RulesAreNotShared
<1>1. Inv => RulesAreNotShared
  <2> SUFFICES ASSUME Inv, NEW v \in Workers, NEW w \in Workers,
                      NEW r \in Rules, v # w, r \in running[v],
                      pc[w] = "check"
               PROVE  rules[v] # rules[w]
    BY DEF RulesAreNotShared
  <2>1. pc[v] = "check"
    BY DEF Inv, Ownership
  <2> QED BY <2>1 DEF Inv, Ownership
<1> QED BY <1>1, Invariance, PTL

\* runFiles: the result of a run is the one OneShotRun gives, whatever the
\* schedule of the workers and of the checks inside a file.
THEOREM ScheduleDoesNotMatter == Spec => RunIsSequential
<1>1. Init => OneShot!Init
  BY DEF Init, OneShot!Init, NoResult
<1>2. Inv /\ [Next]_vars => [OneShot!Return]_(OneShot!vars)
  <2> SUFFICES ASSUME Inv, [Next]_vars
               PROVE  OneShot!Return \/ UNCHANGED OneShot!vars
    OBVIOUS
  <2>1. CASE Finish
    <3>1. job \in Jobs /\ stage = "files"
      BY <2>1 DEF Inv, TypeOK, Finish
    <3>2. UsedWorkers # {} /\ UsedWorkers \subseteq Workers
      BY <3>1, WorkerCount, EngineRunAssumption DEF UsedWorkers, Workers
    <3>3. \A i \in DOMAIN outcomes : i < next
      BY <2>1, <3>1, <3>2 DEF Inv, Exhausted, Finish
    <3>4. \A i \in DOMAIN outcomes : outcomes[i] = Done(i)
      BY <2>1, <3>3 DEF Inv, Progress, Finish
    <3>5. DOMAIN outcomes = DOMAIN Work(job)
      BY <3>1 DEF Inv, TypeOK
    <3>6. outcomes = [i \in DOMAIN Work(job) |-> Done(i)]
      BY <3>4, <3>5 DEF Inv, IsSlice
    <3>7. result' = SequentialResult(job)
      BY <2>1, <3>6 DEF Finish, SequentialResult, Done
    <3> QED BY <2>1, <3>1, <3>7 DEF Finish, OneShot!Return
  <2>2. CASE ~Finish
    <3>1. job' = job /\ result' = result
      BY <2>2 DEF Next, WorkerStep, Start, StartWorker, Pull, FailFile,
         ClassifyRules, SpawnCheck, FinishCheck, WalkAndCollect, vars
    <3>2. (stage = "done") <=> (stage' = "done")
      BY <2>2 DEF Next, WorkerStep, Start, StartWorker, Pull, FailFile,
         ClassifyRules, SpawnCheck, FinishCheck, WalkAndCollect, vars
    <3> QED BY <3>1, <3>2 DEF OneShot!vars
  <2> QED BY <2>1, <2>2
<1> QED BY <1>1, <1>2, Invariance, PTL DEF Spec, OneShot!Spec, RunIsSequential

-----------------------------------------------------------------------------
(* What a run returns, and of that what is said of each finding.           *)

ResultInv == result = IF stage = "done" THEN SequentialResult(job) ELSE NoResult

LEMMA ResultInvariance == Spec => []ResultInv
<1>1. OneShot!Init => ResultInv
  BY DEF OneShot!Init, ResultInv
<1>2. ResultInv /\ [OneShot!Return]_(OneShot!vars) => ResultInv'
  BY DEF OneShot!Return, OneShot!vars, ResultInv
<1> QED BY <1>1, <1>2, ScheduleDoesNotMatter, PTL DEF RunIsSequential, OneShot!Spec

\* Every finding is reported, whatever the input.
LEMMA AllReported ==
  ASSUME NEW j \in Jobs, NEW i \in DOMAIN Work(j), j.loads[Work(j)[i]] = "ok",
         NEW r \in Slots(j, Work(j)[i]), NEW n \in DOMAIN j.finds[Work(j)[i]][r],
         j.finds[Work(j)[i]][r][n].line \notin j.generated[Work(j)[i]]
  PROVE  AsReported(j, Work(j)[i], j.finds[Work(j)[i]][r][n]) \in ToSet(SequentialResult(j).diags)
<1> DEFINE f == Work(j)[i]
           y == j.finds[f][r][n]
<1>1. f \in Files
  BY WorkIsSequence
<1>2. y \in ToSet(j.finds[f][r])
  BY DEF ToSet
<1>3. AsReported(j, f, y) \in ToSet(Reported(j, f))
  <2>1. j.loads[f] = "ok" /\ y.line \notin j.generated[f] /\ r \in Slots(j, f)
    OBVIOUS
  <2> HIDE DEF f, y
  <2> QED BY <1>1, <1>2, <2>1, ReportedIs
<1>4. AsReported(j, f, y) \in ToSet(Gather(j))
  BY <1>3, GatherIs
<1> QED BY <1>4, SequentialResultIs

\* sortDiagnostics, DedupeDiagnostics, Run: every finding outside generated
\* sections is reported at its line, and none is reported twice.  The rules
\* have to be proper and the input's files named once, as ProperInput says.
THEOREM FindingsAreReportedOnce == Spec /\ ProperInput(job) => []EachFindingOnce
<1>1. ProperInput(job) /\ [OneShot!Return]_(OneShot!vars) => ProperInput(job)'
  BY DEF OneShot!Return, OneShot!vars
<1>2. TypeOK /\ ResultInv /\ ProperInput(job) => EachFindingOnce
  <2> SUFFICES ASSUME TypeOK, ResultInv, ProperInput(job) PROVE EachFindingOnce
    OBVIOUS
  <2>1. job \in Jobs
    BY DEF TypeOK
  <2>2. CASE stage = "done"
    <3>1. result = SequentialResult(job)
      BY <2>2 DEF ResultInv
    <3>2. IsInjective(result.diags)
      BY <2>1, <3>1, SequentialResultIs
    <3>3. \A i, k \in DOMAIN result.diags : i # k => result.diags[i] # result.diags[k]
      BY <3>2 DEF IsInjective
    <3>4. \A i \in DOMAIN Work(job) : LET f == Work(job)[i] IN
            job.loads[f] = "ok" =>
                \A r \in Slots(job, f) : \A n \in DOMAIN job.finds[f][r] :
                    LET d == job.finds[f][r][n]
                    IN d.line \notin job.generated[f] =>
                        [d EXCEPT !.line = @ + job.offset[f]] \in ToSet(result.diags)
      BY <2>1, <3>1, AllReported DEF AsReported
    <3> QED BY <3>3, <3>4 DEF EachFindingOnce
  <2>3. CASE stage # "done"
    <3>1. DOMAIN result.diags = {}
      BY <2>3 DEF ResultInv, NoResult
    <3> QED BY <2>3, <3>1 DEF EachFindingOnce
  <2> QED BY <2>2, <2>3
<1> QED
  BY <1>1, <1>2, TypeCorrect, ResultInvariance, ScheduleDoesNotMatter, PTL
     DEF RunIsSequential, OneShot!Spec

\* Run and RunSource report nothing that no rule found: every diagnostic is a
\* finding about the configuration, or one outside the generated sections of a
\* file that was read, at its line in the whole file.
NothingIsInvented ==
  \A x \in ToSet(result.diags) :
    \/ \E r \in ConfigTargets(job) \ job.badSettings : x \in ToSet(job.finds[ConfigFile][r])
    \/ \E i \in DOMAIN Work(job) : LET f == Work(job)[i] IN
        /\ job.loads[f] = "ok"
        /\ \E r \in Slots(job, f) : \E y \in ToSet(job.finds[f][r]) :
            y.line \notin job.generated[f] /\ x = [y EXCEPT !.line = @ + job.offset[f]]

THEOREM ReportsAreFindings == Spec => []NothingIsInvented
<1>1. TypeOK /\ ResultInv => NothingIsInvented
  <2> SUFFICES ASSUME TypeOK, ResultInv, NEW x \in ToSet(result.diags)
               PROVE  \/ \E r \in ConfigTargets(job) \ job.badSettings :
                            x \in ToSet(job.finds[ConfigFile][r])
                      \/ \E i \in DOMAIN Work(job) :
                            /\ job.loads[Work(job)[i]] = "ok"
                            /\ \E r \in Slots(job, Work(job)[i]) :
                                \E y \in ToSet(job.finds[Work(job)[i]][r]) :
                                    /\ y.line \notin job.generated[Work(job)[i]]
                                    /\ x = [y EXCEPT !.line = @ + job.offset[Work(job)[i]]]
    BY DEF NothingIsInvented
  <2>1. job \in Jobs
    BY DEF TypeOK
  <2>2. stage = "done"
    BY DEF ResultInv, NoResult, ToSet
  <2>3. x \in ToSet(Gather(job))
    BY <2>1, <2>2, SequentialResultIs DEF ResultInv
  <2>4. CASE x \in ToSet(ConfigDiags(job))
    BY <2>1, <2>4, ConfigDiagsAre
  <2>5. ASSUME NEW i \in DOMAIN Work(job), x \in ToSet(Reported(job, Work(job)[i]))
        PROVE  /\ job.loads[Work(job)[i]] = "ok"
               /\ \E r \in Slots(job, Work(job)[i]) :
                    \E y \in ToSet(job.finds[Work(job)[i]][r]) :
                        /\ y.line \notin job.generated[Work(job)[i]]
                        /\ x = [y EXCEPT !.line = @ + job.offset[Work(job)[i]]]
    <3>1. Work(job)[i] \in Files
      BY <2>1, WorkIsSequence
    <3> QED BY <2>1, <2>5, <3>1, ReportedIs DEF AsReported
  <2> QED BY <2>1, <2>3, <2>4, <2>5, GatherIs
<1> QED BY <1>1, TypeCorrect, ResultInvariance, PTL

-----------------------------------------------------------------------------
(* The files of a command.                                                 *)

\* A function can be iterated: the recursion is well founded.
Iterated(V, N, d, G) ==
    \E f \in [0..N -> V] : f[0] = d /\ \A n \in 1..N : f[n] = G[<<n, f[n - 1]>>]

LEMMA Iteration ==
  ASSUME NEW V, NEW N \in Nat, NEW d \in V, NEW G \in [(1..N) \X V -> V]
  PROVE  Iterated(V, N, d, G)
<1> DEFINE Upto(m) == \E f \in [0..m -> V] :
                        f[0] = d /\ \A n \in 1..m : f[n] = G[<<n, f[n - 1]>>]
           M == {m \in Nat : m <= N => Upto(m)}
<1>1. 0 \in M
  <2> DEFINE f == [i \in 0..0 |-> d]
  <2>1. f \in [0..0 -> V] /\ f[0] = d /\ 1..0 = {}
    OBVIOUS
  <2> HIDE DEF f
  <2>2. Upto(0)
    BY <2>1
  <2> QED BY <2>2
<1>2. ASSUME NEW m \in Nat, m \in M PROVE m + 1 \in M
  <2> SUFFICES ASSUME m + 1 <= N PROVE Upto(m + 1)
    OBVIOUS
  <2> PICK f \in [0..m -> V] :
        f[0] = d /\ \A n \in 1..m : f[n] = G[<<n, f[n - 1]>>]
    BY <1>2
  <2> DEFINE g == [i \in 0..m + 1 |-> IF i = m + 1 THEN G[<<m + 1, f[m]>>] ELSE f[i]]
  <2>1. f[m] \in V /\ m + 1 \in 1..N
    OBVIOUS
  <2>2. g \in [0..m + 1 -> V]
    BY <2>1
  <2>3. \A i \in 0..m : g[i] = f[i]
    OBVIOUS
  <2>4. g[m + 1] = G[<<m + 1, g[m]>>]
    BY <2>3
  <2> HIDE DEF g
  <2>5. \A n \in 1..m + 1 : g[n] = G[<<n, g[n - 1]>>]
    <3> TAKE n \in 1..m + 1
    <3>1. CASE n = m + 1
      BY <3>1, <2>4
    <3>2. CASE n # m + 1
      <4>1. n \in 1..m /\ n - 1 \in 0..m /\ n \in 0..m
        BY <3>2
      <4> QED BY <4>1, <2>3
    <3> QED BY <3>1, <3>2
  <2> QED BY <2>2, <2>3, <2>5
<1>3. Nat \subseteq M
  <2> HIDE DEF M
  <2> QED BY <1>1, <1>2, NatInd
<1> QED BY <1>3 DEF Iterated

\* A path with more names at its end.
LEMMA Lengthened ==
  ASSUME NEW S, NEW arg \in [abs : BOOLEAN, segs : S], NEW t
  PROVE  [arg EXCEPT !.segs = t] = [abs |-> arg.abs, segs |-> t]
OBVIOUS

LEMMA StepIsPath ==
  ASSUME NEW d \in Seq(Names), NEW x \in Names \cup {Up}
  PROVE  Step(d, x) \in Seq(Names)
<1>1. CASE x # Up
  BY <1>1 DEF Step
<1>2. CASE x = Up /\ d = <<>>
  BY <1>2 DEF Step
<1>3. CASE x = Up /\ d # <<>>
  <2>1. Front(d) \in Seq(Names)
    BY <1>3, SubSeqProperties DEF Front
  <2> QED BY <1>3, <2>1 DEF Step
<1> QED BY <1>1, <1>2, <1>3

\* Abs is what its recursion says: the path after each name of the argument.
LEMMA AbsIs ==
  ASSUME NEW cwd \in Seq(Names), NEW arg \in Spellings
  PROVE  \E f \in [0..Len(arg.segs) -> Seq(Names)] :
            /\ f[0] = IF arg.abs THEN <<>> ELSE cwd
            /\ \A n \in 1..Len(arg.segs) : f[n] = Step(f[n - 1], arg.segs[n])
            /\ Abs(cwd, arg) = f[Len(arg.segs)]
<1> DEFINE N == Len(arg.segs)
           d == IF arg.abs THEN <<>> ELSE cwd
           V == Seq(Names)
           G == [p \in (1..N) \X V |-> Step(p[2], arg.segs[p[1]])]
           Body(f) == [n \in 0..N |-> IF n = 0 THEN d ELSE Step(f[n - 1], arg.segs[n])]
           F == CHOOSE f : f = Body(f)
<1>1. N \in Nat /\ d \in V /\ \A n \in 1..N : arg.segs[n] \in Names \cup {Up}
  BY DEF Spellings
<1>n. N \in Nat
  BY <1>1
<1>d. d \in V
  BY <1>1
<1>2. Abs(cwd, arg) = F[N]
  BY DEF Abs
<1> HIDE DEF N, d, V
<1>3. G \in [(1..N) \X V -> V]
  BY <1>1, StepIsPath DEF V
<1>4. \E f \in [0..N -> V] : f[0] = d /\ \A n \in 1..N : f[n] = Step(f[n - 1], arg.segs[n])
  <2>1. \E f \in [0..N -> V] : f[0] = d /\ \A n \in 1..N : f[n] = G[<<n, f[n - 1]>>]
    <3> HIDE DEF G
    <3>1. Iterated(V, N, d, G)
      BY <1>n, <1>d, <1>3, Iteration
    <3> QED BY <3>1 DEF Iterated
  <2> PICK f \in [0..N -> V] : f[0] = d /\ \A n \in 1..N : f[n] = G[<<n, f[n - 1]>>]
    BY <2>1
  <2>2. \A n \in 1..N : <<n, f[n - 1]>> \in (1..N) \X V
    BY <1>1
  <2>3. \A n \in 1..N : f[n] = Step(f[n - 1], arg.segs[n])
    BY <2>2
  <2> QED BY <2>3
<1> HIDE DEF G
<1> PICK f \in [0..N -> V] : f[0] = d /\ \A n \in 1..N : f[n] = Step(f[n - 1], arg.segs[n])
  BY <1>4
<1>5. f = Body(f)
  <2>1. f = [n \in 0..N |-> f[n]] /\ \A n \in 0..N : n # 0 => n \in 1..N
    BY <1>1
  <2> QED BY <2>1
<1>6. F = Body(F)
  <2> HIDE DEF Body
  <2> QED BY <1>5
<1> HIDE DEF F
<1>7. DOMAIN F = 0..N /\ F = [n \in 0..N |-> F[n]]
      /\ F[0] = d /\ \A n \in 1..N : F[n] = Step(F[n - 1], arg.segs[n])
  <2>1. DOMAIN F = 0..N /\ F = [n \in 0..N |-> F[n]]
    BY <1>6
  <2>2. \A n \in 0..N : F[n] = IF n = 0 THEN d ELSE Step(F[n - 1], arg.segs[n])
    BY <1>6
  <2> HIDE DEF Body
  <2>3. F[0] = d
    BY <1>1, <2>2
  <2>4. ASSUME NEW n \in 1..N PROVE F[n] = Step(F[n - 1], arg.segs[n])
    <3>1. n \in 0..N /\ n # 0
      BY <1>1
    <3> QED BY <2>2, <3>1
  <2> QED BY <2>1, <2>3, <2>4
<1> DEFINE M == {n \in Nat : n <= N => F[n] = f[n]}
<1>8. 0 \in M
  BY <1>7
<1>9. ASSUME NEW n \in Nat, n \in M PROVE n + 1 \in M
  <2> SUFFICES ASSUME n + 1 <= N PROVE F[n + 1] = f[n + 1]
    OBVIOUS
  <2>1. n + 1 \in 1..N /\ (n + 1) - 1 = n /\ F[n] = f[n]
    BY <1>1, <1>9
  <2>2. F[n + 1] = Step(F[n], arg.segs[n + 1])
    BY <1>7, <2>1
  <2>3. f[n + 1] = Step(f[n], arg.segs[n + 1])
    BY <2>1
  <2> QED BY <2>1, <2>2, <2>3
<1>10. Nat \subseteq M
  <2> HIDE DEF M
  <2> QED BY <1>8, <1>9, NatInd
<1>11. F[N] = f[N]
  BY <1>1, <1>10
<1> QED BY <1>2, <1>11 DEF N, d, V

\* A path goes on from what it begins with.
LEMMA AbsExtends ==
  ASSUME NEW cwd \in Seq(Names), NEW arg \in Spellings, NEW rest \in Seq(Names)
  PROVE  /\ [arg EXCEPT !.segs = @ \o rest] \in Spellings
         /\ Abs(cwd, [arg EXCEPT !.segs = @ \o rest]) = Abs(cwd, arg) \o rest
<1> DEFINE long == [arg EXCEPT !.segs = @ \o rest]
           L == Len(arg.segs)
           R == Len(rest)
<1>1. /\ long \in Spellings /\ long.abs = arg.abs /\ long.segs = arg.segs \o rest
      /\ arg.segs \in Seq(Names \cup {Up})
  <2>1. arg.segs \in Seq(Names \cup {Up}) /\ arg = [abs |-> arg.abs, segs |-> arg.segs]
        /\ arg.abs \in BOOLEAN
    BY DEF Spellings
  <2>2. rest \in Seq(Names \cup {Up})
    BY SeqMonotonic, Names \subseteq Names \cup {Up}
  <2>3. arg.segs \o rest \in Seq(Names \cup {Up})
    BY <2>1, <2>2, ConcatProperties
  <2>4. long = [abs |-> arg.abs, segs |-> arg.segs \o rest]
    BY Lengthened DEF Spellings
  <2> HIDE DEF long
  <2> QED BY <2>1, <2>3, <2>4 DEF Spellings
<1>2. /\ L \in Nat /\ R \in Nat /\ Len(long.segs) = L + R
      /\ \A n \in 1..L : long.segs[n] = arg.segs[n]
      /\ \A n \in 1..R : long.segs[L + n] = rest[n] /\ rest[n] \in Names
  <2>1. rest \in Seq(Names \cup {Up})
    BY SeqMonotonic, Names \subseteq Names \cup {Up}
  <2> HIDE DEF long
  <2>2. L \in Nat /\ R \in Nat /\ \A n \in 1..R : rest[n] \in Names
    BY <1>1
  <2>3. /\ Len(arg.segs \o rest) = Len(arg.segs) + Len(rest)
        /\ \A i \in 1..Len(arg.segs) + Len(rest) :
              (arg.segs \o rest)[i] = IF i <= Len(arg.segs) THEN arg.segs[i]
                                      ELSE rest[i - Len(arg.segs)]
    BY <1>1, <2>1, ConcatProperties
  <2>4. ASSUME NEW n \in 1..R PROVE long.segs[L + n] = rest[n]
    <3>1. L + n \in 1..Len(arg.segs) + Len(rest) /\ ~(L + n <= Len(arg.segs))
          /\ L + n - Len(arg.segs) = n
      BY <2>2
    <3> QED BY <1>1, <2>3, <3>1
  <2>5. ASSUME NEW n \in 1..L PROVE long.segs[n] = arg.segs[n]
    BY <1>1, <2>2, <2>3
  <2> QED BY <1>1, <2>2, <2>3, <2>4, <2>5
<1> HIDE DEF long, L, R
<1> PICK f \in [0..L -> Seq(Names)] :
        /\ f[0] = IF arg.abs THEN <<>> ELSE cwd
        /\ \A n \in 1..L : f[n] = Step(f[n - 1], arg.segs[n])
        /\ Abs(cwd, arg) = f[L]
  BY AbsIs DEF L
<1>g. \E g \in [0..L + R -> Seq(Names)] :
        /\ g[0] = IF arg.abs THEN <<>> ELSE cwd
        /\ \A n \in 1..L + R : g[n] = Step(g[n - 1], long.segs[n])
        /\ Abs(cwd, long) = g[L + R]
  <2>1. long \in Spellings
    BY <1>1
  <2> PICK g \in [0..Len(long.segs) -> Seq(Names)] :
        /\ g[0] = IF long.abs THEN <<>> ELSE cwd
        /\ \A n \in 1..Len(long.segs) : g[n] = Step(g[n - 1], long.segs[n])
        /\ Abs(cwd, long) = g[Len(long.segs)]
    BY <2>1, AbsIs
  <2> QED BY <1>1, <1>2
<1> PICK g \in [0..L + R -> Seq(Names)] :
        /\ g[0] = IF arg.abs THEN <<>> ELSE cwd
        /\ \A n \in 1..L + R : g[n] = Step(g[n - 1], long.segs[n])
        /\ Abs(cwd, long) = g[L + R]
  BY <1>g
<1> DEFINE M == {n \in Nat : n <= L => g[n] = f[n]}
<1>3. 0 \in M
  OBVIOUS
<1>4. ASSUME NEW n \in Nat, n \in M PROVE n + 1 \in M
  <2> SUFFICES ASSUME n + 1 <= L PROVE g[n + 1] = f[n + 1]
    OBVIOUS
  <2>1. n + 1 \in 1..L /\ n + 1 \in 1..L + R /\ (n + 1) - 1 = n /\ g[n] = f[n]
    BY <1>2, <1>4
  <2>2. g[n + 1] = Step(g[n], long.segs[n + 1]) /\ f[n + 1] = Step(f[n], arg.segs[n + 1])
    BY <2>1
  <2> QED BY <1>2, <2>1, <2>2
<1>5. Nat \subseteq M
  <2> HIDE DEF M
  <2> QED BY <1>3, <1>4, NatInd
<1>6. g[L] = f[L]
  BY <1>2, <1>5
<1> HIDE DEF M
<1>fl. f[L] \in Seq(Names)
  BY <1>2
<1> DEFINE Goes(n) == g[L + n] = f[L] \o SubSeq(rest, 1, n)
           K == {n \in Nat : n <= R => Goes(n)}
<1>7. Goes(0)
  <2>1. SubSeq(rest, 1, 0) = <<>>
    BY SubSeqEmpty
  <2>2. f[L] \o <<>> = f[L] /\ L + 0 = L
    BY <1>2, <1>fl, ConcatEmptySeq
  <2> QED BY <1>6, <2>1, <2>2
<1>8. ASSUME NEW n \in Nat, n + 1 <= R, Goes(n) PROVE Goes(n + 1)
  <2>1. /\ L + (n + 1) \in 1..L + R /\ (L + (n + 1)) - 1 = L + n /\ n + 1 \in 1..R
        /\ g[L + n] = f[L] \o SubSeq(rest, 1, n)
    BY <1>2, <1>8
  <2>2. g[L + (n + 1)] = Step(g[L + n], rest[n + 1])
    BY <1>2, <2>1
  <2>3. rest[n + 1] \in Names /\ rest[n + 1] # Up
    BY <1>2, <2>1, DiscoveryAssumption
  <2>4. g[L + (n + 1)] = Append(f[L] \o SubSeq(rest, 1, n), rest[n + 1])
    BY <2>1, <2>2, <2>3 DEF Step
  <2>5. SubSeq(rest, 1, n + 1) = SubSeq(rest, 1, n) \o <<rest[n + 1]>>
    <3>1. 1 \in 1..Len(rest) /\ n + 1 \in 1..Len(rest) /\ (n + 1) - 1 = n
      BY <1>2, <2>1 DEF R
    <3> QED BY <3>1, SubSeqRecursiveSecond
  <2>6. SubSeq(rest, 1, n) \in Seq(Names)
    <3>1. \A i \in 1..n : rest[i] \in Names
      BY <1>2, <1>8 DEF R
    <3> QED BY <3>1, SubSeqProperties
  <2> DEFINE a == f[L]
             b == SubSeq(rest, 1, n)
             x == rest[n + 1]
  <2>7. Append(a \o b, x) = a \o (b \o <<x>>)
    <3>1. a \in Seq(Names) /\ b \in Seq(Names) /\ x \in Names
      BY <1>fl, <2>3, <2>6
    <3> HIDE DEF a, b, x
    <3>2. a \o b \in Seq(Names) /\ <<x>> \in Seq(Names)
      BY <3>1, ConcatProperties
    <3>3. Append(a \o b, x) = (a \o b) \o <<x>>
      BY <3>1, <3>2, AppendIsConcat
    <3>4. (a \o b) \o <<x>> = a \o (b \o <<x>>)
      <4> DEFINE u == <<x>>
      <4>1. u \in Seq(Names)
        BY <3>2
      <4> HIDE DEF u
      <4>2. (a \o b) \o u = a \o (b \o u)
        BY <3>1, <4>1, ConcatAssociative
      <4> QED BY <4>2 DEF u
    <3> QED BY <3>3, <3>4
  <2> QED BY <2>4, <2>5, <2>7
<1> HIDE DEF Goes
<1>k. ASSUME NEW n \in Nat, n \in K PROVE n + 1 \in K
  BY <1>2, <1>8, <1>k
<1>9. Nat \subseteq K
  <2>1. 0 \in K
    BY <1>7
  <2> HIDE DEF K
  <2> QED BY <2>1, <1>k, NatInd
<1>10. Goes(R)
  BY <1>2, <1>9
<1>11. SubSeq(rest, 1, R) = rest
  BY SubSeqFull DEF R
<1>12. g[L + R] = f[L] \o rest
  BY <1>10, <1>11 DEF Goes
<1> QED BY <1>1, <1>12 DEF long

LEMMA AbsIsPath ==
  ASSUME NEW cwd \in Seq(Names), NEW arg \in Spellings
  PROVE  Abs(cwd, arg) \in Seq(Names)
<1> PICK f \in [0..Len(arg.segs) -> Seq(Names)] : Abs(cwd, arg) = f[Len(arg.segs)]
  BY AbsIs
<1>1. Len(arg.segs) \in Nat
  BY DEF Spellings
<1> QED BY <1>1

\* Discover gives absolute paths.
LEMMA AbsOfAbsolute ==
  ASSUME NEW cwd \in Seq(Names), NEW p \in Seq(Names)
  PROVE  /\ [abs |-> TRUE, segs |-> p] \in Spellings
         /\ Abs(cwd, [abs |-> TRUE, segs |-> p]) = p
<1> DEFINE root == [abs |-> TRUE, segs |-> <<>>]
<1>1. root \in Spellings /\ root.abs /\ root.segs = <<>>
  BY DEF Spellings
<1>2. [root EXCEPT !.segs = @ \o p] = [abs |-> TRUE, segs |-> <<>> \o p]
  BY <1>1, Lengthened DEF Spellings
<1>3. Abs(cwd, root) = <<>>
  <2> PICK f \in [0..Len(root.segs) -> Seq(Names)] :
        f[0] = (IF root.abs THEN <<>> ELSE cwd) /\ Abs(cwd, root) = f[Len(root.segs)]
    <3>1. root \in Spellings
      BY <1>1
    <3> HIDE DEF root
    <3> QED BY <3>1, AbsIs
  <2>1. Len(root.segs) = 0
    BY <1>1
  <2> QED BY <1>1, <2>1
<1> HIDE DEF root
<1>4. Abs(cwd, [root EXCEPT !.segs = @ \o p]) = <<>> \o p
      /\ [root EXCEPT !.segs = @ \o p] \in Spellings
  <2>1. root \in Spellings
    BY <1>1
  <2>2. /\ [root EXCEPT !.segs = @ \o p] \in Spellings
        /\ Abs(cwd, [root EXCEPT !.segs = @ \o p]) = Abs(cwd, root) \o p
    BY <2>1, AbsExtends
  <2> QED BY <1>3, <2>2
<1>5. <<>> \o p = p
  BY ConcatEmptySeq
<1> QED BY <1>2, <1>4, <1>5

\* What the resolution has gathered: one spelling of each path it has seen, of
\* files that can be read.
Accs == [seen : SUBSET Seq(Names), result : SUBSET Spellings, failed : BOOLEAN]

Consistent(tree, cwd, opts) ==
    {acc \in Accs :
        /\ \A p : p \in acc.seen <=> \E f \in acc.result : Abs(cwd, f) = p
        /\ \A f, g \in acc.result : Abs(cwd, f) = Abs(cwd, g) => f = g
        /\ \A f \in acc.result :
            Abs(cwd, f) \in DOMAIN tree.kind /\ Readable(tree, Abs(cwd, f), opts.follow)}

\* Files that an argument gives: of different paths, and they can be read.
Given(tree, cwd, opts, files) ==
    /\ files \subseteq Spellings
    /\ \A f, g \in files : Abs(cwd, f) = Abs(cwd, g) => f = g
    /\ \A f \in files :
        Abs(cwd, f) \in DOMAIN tree.kind /\ Readable(tree, Abs(cwd, f), opts.follow)

LEMMA Gained ==
  ASSUME NEW A, NEW B, NEW acc \in [seen : A, result : B, failed : BOOLEAN],
         NEW s \in A, NEW t \in B
  PROVE  LET r == [acc EXCEPT !.seen = s, !.result = t]
         IN  /\ r \in [seen : A, result : B, failed : BOOLEAN]
             /\ r.seen = s /\ r.result = t /\ r.failed = acc.failed
OBVIOUS

LEMMA AddFilesKeeps ==
  ASSUME NEW tree, NEW opts, NEW cwd \in Seq(Names),
         NEW acc \in Consistent(tree, cwd, opts), NEW files, Given(tree, cwd, opts, files)
  PROVE  LET r == addFiles(acc, cwd, files)
         IN  /\ r \in Consistent(tree, cwd, opts) /\ r.failed = acc.failed
             /\ \A p : p \in r.seen <=> p \in acc.seen \/ \E f \in files : Abs(cwd, f) = p
<1> DEFINE new == {f \in files : Abs(cwd, f) \notin acc.seen}
           paths == {Abs(cwd, f) : f \in new}
           r == addFiles(acc, cwd, files)
<1>1. acc \in Accs
  BY DEF Consistent
<1>4. \A f \in new : f \in Spellings /\ Abs(cwd, f) \in Seq(Names) /\ Abs(cwd, f) \notin acc.seen
  BY AbsIsPath DEF Given
<1>5. \A p : p \in paths <=> \E f \in new : Abs(cwd, f) = p
  OBVIOUS
<1>6. new \subseteq files
  OBVIOUS
<1> HIDE DEF new, paths
<1>7. r \in Accs /\ r.seen = acc.seen \cup paths /\ r.result = acc.result \cup new
      /\ r.failed = acc.failed
  <2>1. paths \subseteq Seq(Names) /\ new \subseteq Spellings
    BY <1>4, <1>5
  <2>2. acc.seen \cup paths \in SUBSET Seq(Names) /\ acc.result \cup new \in SUBSET Spellings
        /\ acc.failed \in BOOLEAN
    BY <1>1, <2>1 DEF Accs
  <2>3. r = [acc EXCEPT !.seen = acc.seen \cup paths, !.result = acc.result \cup new]
    BY DEF addFiles, new, paths
  <2> HIDE DEF r
  <2> QED BY <1>1, <2>2, <2>3, Gained DEF Accs
<1> HIDE DEF r
<1>8. \A p : p \in r.seen <=> \E f \in r.result : Abs(cwd, f) = p
  BY <1>5, <1>7 DEF Consistent
<1>9. \A f, g \in r.result : Abs(cwd, f) = Abs(cwd, g) => f = g
  <2> SUFFICES ASSUME NEW f \in r.result, NEW g \in r.result, Abs(cwd, f) = Abs(cwd, g)
               PROVE  f = g
    OBVIOUS
  <2>1. CASE f \in acc.result /\ g \in acc.result
    BY <2>1 DEF Consistent
  <2>2. CASE f \in new /\ g \in new
    BY <1>6, <2>2 DEF Given
  <2>3. \A h \in acc.result : Abs(cwd, h) \in acc.seen
    BY DEF Consistent
  <2> QED BY <1>4, <1>7, <2>1, <2>2, <2>3
<1>10. \A f \in r.result :
            Abs(cwd, f) \in DOMAIN tree.kind /\ Readable(tree, Abs(cwd, f), opts.follow)
  BY <1>6, <1>7 DEF Consistent, Given
<1>11. \A p : p \in r.seen <=> p \in acc.seen \/ \E f \in files : Abs(cwd, f) = p
  BY <1>5, <1>7 DEF new
<1>12. r \in Consistent(tree, cwd, opts)
  BY <1>7, <1>8, <1>9, <1>10 DEF Consistent
<1> QED BY <1>7, <1>11, <1>12 DEF r

\* A resolution that fails has no more files.
LEMMA FailureKeeps ==
  ASSUME NEW tree, NEW opts, NEW cwd, NEW acc \in Consistent(tree, cwd, opts)
  PROVE  LET r == [acc EXCEPT !.failed = TRUE]
         IN  r \in Consistent(tree, cwd, opts) /\ r.failed
<1> DEFINE r == [acc EXCEPT !.failed = TRUE]
<1>1. acc \in Accs
  BY DEF Consistent
<1>2. r \in Accs /\ r.seen = acc.seen /\ r.result = acc.result /\ r.failed
  BY <1>1 DEF Accs
<1> HIDE DEF r
<1>3. r \in Consistent(tree, cwd, opts)
  BY <1>2 DEF Consistent
<1> QED BY <1>2, <1>3 DEF r

\* What follows a prefix of a path leads to it.
LEMMA Continued ==
  ASSUME NEW d \in Seq(Names), NEW p \in Seq(Names), Under(d, p)
  PROVE  From(d, p) \in Seq(Names) /\ p = d \o From(d, p)
<1> DEFINE n == Len(d)
           m == Len(p)
           rest == From(d, p)
<1>1. n \in Nat /\ m \in Nat /\ n <= m /\ SubSeq(d, 1, n) = SubSeq(p, 1, n)
  BY DEF Under, IsPrefix
<1>2. SubSeq(d, 1, n) = d /\ SubSeq(p, 1, m) = p
  BY SubSeqFull
<1>3. \A i \in n + 1 .. m : p[i] \in Names
  BY <1>1
<1>4. /\ rest \in Seq(Names) /\ Len(rest) = m - n
      /\ \A i \in 1 .. m - n : rest[i] = p[n + i]
  <2>1. /\ rest \in Seq(Names)
        /\ Len(rest) = IF n + 1 <= m THEN m - (n + 1) + 1 ELSE 0
        /\ \A i \in 1 .. m - (n + 1) + 1 : rest[i] = p[n + 1 + i - 1]
    BY <1>1, <1>3, SubSeqProperties DEF From
  <2>2. (IF n + 1 <= m THEN m - (n + 1) + 1 ELSE 0) = m - n /\ m - (n + 1) + 1 = m - n
    BY <1>1
  <2>3. \A i \in 1 .. m - n : n + 1 + i - 1 = n + i
    BY <1>1
  <2> HIDE DEF rest
  <2>4. rest \in Seq(Names) /\ Len(rest) = m - n
    BY <2>1, <2>2
  <2> QED BY <2>1, <2>2, <2>3, <2>4
<1>5. \A i \in 1..n : d[i] = p[i]
  <2>1. \A i \in 1..n - 1 + 1 : SubSeq(p, 1, n)[i] = p[1 + i - 1]
    <3>1. \A i \in 1..n : p[i] \in Names
      BY <1>1
    <3> QED BY <1>1, <3>1, SubSeqProperties
  <2> QED BY <1>1, <1>2, <2>1
<1> HIDE DEF rest
<1>6. /\ d \o rest \in Seq(Names) /\ Len(d \o rest) = n + Len(rest)
      /\ \A i \in 1..n + Len(rest) :
            (d \o rest)[i] = IF i <= n THEN d[i] ELSE rest[i - n]
  BY <1>4, ConcatProperties
<1>7. Len(d \o rest) = m /\ \A i \in 1..m : (d \o rest)[i] = p[i]
  <2>1. Len(d \o rest) = m
    BY <1>1, <1>4, <1>6
  <2> SUFFICES ASSUME NEW i \in 1..m PROVE (d \o rest)[i] = p[i]
    BY <2>1
  <2>2. CASE i <= n
    BY <1>1, <1>4, <1>5, <1>6, <2>2
  <2>3. CASE ~(i <= n)
    <3>1. i - n \in 1..m - n /\ n + (i - n) = i
      BY <1>1, <2>3
    <3>2. i \in 1..n + Len(rest)
      BY <1>1, <1>4
    <3>3. (d \o rest)[i] = rest[i - n]
      BY <1>6, <2>3, <3>2
    <3>4. rest[i - n] = p[n + (i - n)]
      BY <1>4, <3>1
    <3> QED BY <3>1, <3>3, <3>4
  <2> QED BY <2>2, <2>3
<1>8. p = d \o rest
  BY <1>6, <1>7, SeqEqual
<1> QED BY <1>4, <1>8 DEF rest

LEMMA SpelledIs ==
  ASSUME NEW cwd \in Seq(Names), NEW arg \in Spellings, NEW p \in Seq(Names),
         Under(Abs(cwd, arg), p)
  PROVE  Spelled(arg, cwd, p) \in Spellings /\ Abs(cwd, Spelled(arg, cwd, p)) = p
<1> DEFINE d == Abs(cwd, arg)
<1>1. d \in Seq(Names)
  BY AbsIsPath
<1>2. From(d, p) \in Seq(Names) /\ p = d \o From(d, p)
  BY <1>1, Continued
<1> QED BY <1>2, AbsExtends DEF Spelled

LEMMA AddDirKeeps ==
  ASSUME NEW tree, IsTree(tree), NEW opts, NEW cwd \in Seq(Names), NEW arg \in Spellings,
         NEW acc \in Consistent(tree, cwd, opts)
  PROVE  addDirFiles(acc, tree, cwd, arg, opts) \in Consistent(tree, cwd, opts)
<1> DEFINE dir == Abs(cwd, arg)
           finds == walkDir(tree, dir, opts)
           files == {Spelled(arg, cwd, p) : p \in finds}
<1>1. \A p \in finds : /\ p \in DOMAIN tree.kind /\ p \in Seq(Names)
                       /\ Under(dir, p) /\ Readable(tree, p, opts.follow)
  BY DEF walkDir, Visited, IsTree
<1> HIDE DEF finds
<1>2. \A p \in finds : Spelled(arg, cwd, p) \in Spellings /\ Abs(cwd, Spelled(arg, cwd, p)) = p
  BY <1>1, SpelledIs
<1>3. Given(tree, cwd, opts, files)
  BY <1>1, <1>2 DEF Given
<1> HIDE DEF files
<1>4. addFiles(acc, cwd, files) \in Consistent(tree, cwd, opts)
  BY <1>3, AddFilesKeeps
<1>5. [acc EXCEPT !.failed = TRUE] \in Consistent(tree, cwd, opts)
  BY FailureKeeps
<1>6. addDirFiles(acc, tree, cwd, arg, opts)
        \in {addFiles(acc, cwd, files), [acc EXCEPT !.failed = TRUE]}
  BY DEF addDirFiles, files, finds
<1> QED BY <1>4, <1>5, <1>6

LEMMA ResolvePathKeeps ==
  ASSUME NEW tree, IsTree(tree), NEW opts, NEW cwd \in Seq(Names), NEW arg \in Spellings,
         NEW globbed \in BOOLEAN, NEW acc \in Consistent(tree, cwd, opts)
  PROVE  ResolvePath(acc, tree, cwd, arg, opts, globbed) \in Consistent(tree, cwd, opts)
<1> DEFINE p == Abs(cwd, arg)
           kind == IF p \in DOMAIN tree.kind /\ Leads(tree, cwd, arg) THEN tree.kind[p] ELSE "none"
           r == ResolvePath(acc, tree, cwd, arg, opts, globbed)
           failed == [acc EXCEPT !.failed = TRUE]
           named == kind \in {"file", "link"} /\ Readable(tree, p, opts.follow)
                      /\ (globbed => Last(p) \in Markdown)
<1>1. failed \in Consistent(tree, cwd, opts)
  BY FailureKeeps
<1>2. addDirFiles(acc, tree, cwd, arg, opts) \in Consistent(tree, cwd, opts)
  BY AddDirKeeps
<1>3. ASSUME named PROVE addFiles(acc, cwd, {arg}) \in Consistent(tree, cwd, opts)
  <2>1. p \in DOMAIN tree.kind
    BY <1>3
  <2>2. Given(tree, cwd, opts, {arg})
    BY <1>3, <2>1 DEF Given
  <2> QED BY <2>2, AddFilesKeeps
<1>4. \/ r = acc \/ r = failed \/ r = addDirFiles(acc, tree, cwd, arg, opts)
      \/ named /\ r = addFiles(acc, cwd, {arg})
  <2> DEFINE passed == acc.failed \/ hasSymlinkAncestor(tree, cwd, arg)
             dirFiles == addDirFiles(acc, tree, cwd, arg, opts)
             ownFile == addFiles(acc, cwd, {arg})
  <2>1. r = IF passed THEN acc
            ELSE CASE kind = "none" /\ ~globbed -> failed
                   [] kind \in {"dir", "locked"} -> dirFiles
                   [] named -> ownFile
                   [] OTHER -> acc
    BY DEF ResolvePath
  <2> HIDE DEF passed, dirFiles, ownFile, r, named, failed, kind
  <2>2. r = acc \/ r = failed \/ r = dirFiles \/ (named /\ r = ownFile)
    <3>1. CASE passed
      BY <2>1, <3>1
    <3>2. CASE ~passed /\ kind = "none" /\ ~globbed
      BY <2>1, <3>2 DEF named
    <3>3. CASE ~passed /\ kind \in {"dir", "locked"}
      BY <2>1, <3>3 DEF named
    <3>4. CASE ~passed /\ named
      BY <2>1, <3>4 DEF named
    <3>5. CASE ~passed /\ ~(kind = "none" /\ ~globbed) /\ kind \notin {"dir", "locked"} /\ ~named
      BY <2>1, <3>5
    <3> QED BY <3>1, <3>2, <3>3, <3>4, <3>5
  <2> QED BY <2>2 DEF dirFiles, ownFile
<1> HIDE DEF r, named, failed
<1> QED BY <1>1, <1>2, <1>3, <1>4 DEF r

\* What holds first and is kept by every step holds at the end.
LEMMA Stays ==
  ASSUME NEW V, NEW N \in Nat, NEW F, F[0] \in V,
         \A n \in 1..N : F[n - 1] \in V => F[n] \in V
  PROVE  F[N] \in V
<1> DEFINE M == {n \in Nat : n <= N => F[n] \in V}
<1>1. 0 \in M
  OBVIOUS
<1>2. ASSUME NEW n \in Nat, n \in M PROVE n + 1 \in M
  <2> SUFFICES ASSUME n + 1 <= N PROVE F[n + 1] \in V
    OBVIOUS
  <2>1. n + 1 \in 1..N /\ (n + 1) - 1 = n /\ F[n] \in V
    BY <1>2
  <2> QED BY <2>1
<1>3. Nat \subseteq M
  <2> HIDE DEF M
  <2> QED BY <1>1, <1>2, NatInd
<1> QED BY <1>3

\* An argument of the command line.
Arguments == [glob : BOOLEAN, path : Spellings, matches : Seq(Spellings)]

\* What its matches give, one after the other.
ArgRun(F, acc, tree, cwd, arg, opts) ==
  LET N == Len(arg.matches) IN
  /\ F \in [0..N -> Consistent(tree, cwd, opts)] /\ F[0] = acc
  /\ \A n \in 1..N : F[n] = ResolvePath(F[n - 1], tree, cwd, arg.matches[n], opts, TRUE)
  /\ arg.glob => resolveArg(acc, tree, cwd, arg, opts) = F[N]

LEMMA ResolveArgRuns ==
  ASSUME NEW tree, IsTree(tree), NEW opts, NEW cwd \in Seq(Names), NEW arg \in Arguments,
         NEW acc \in Consistent(tree, cwd, opts)
  PROVE  \E F : ArgRun(F, acc, tree, cwd, arg, opts)
<1> DEFINE V == Consistent(tree, cwd, opts)
           N == Len(arg.matches)
           Match(v, n) == ResolvePath(v, tree, cwd, arg.matches[n], opts, TRUE)
           G == [x \in (1..N) \X V |-> Match(x[2], x[1])]
           Body(f) == [n \in 0..N |-> IF n = 0 THEN acc ELSE Match(f[n - 1], n)]
           F == CHOOSE f : f = Body(f)
<1>1. arg.path \in Spellings /\ arg.matches \in Seq(Spellings)
  BY DEF Arguments
<1>2. arg.glob => resolveArg(acc, tree, cwd, arg, opts) = F[N]
  BY DEF resolveArg
<1>4. \A n \in 1..N : \A v \in V : Match(v, n) \in V
  <2>1. \A n \in 1..N : arg.matches[n] \in Spellings
    BY <1>1
  <2> QED BY <2>1, ResolvePathKeeps
<1>n. N \in Nat
  BY <1>1
<1>v. acc \in V
  OBVIOUS
<1> HIDE DEF V, N, Match
<1>5. G \in [(1..N) \X V -> V]
  BY <1>4
<1>6. \E f : f = Body(f)
  <2>1. Iterated(V, N, acc, G)
    <3> HIDE DEF G
    <3> QED BY <1>n, <1>v, <1>5, Iteration
  <2> HIDE DEF G
  <2> PICK f \in [0..N -> V] : f[0] = acc /\ \A n \in 1..N : f[n] = G[<<n, f[n - 1]>>]
    BY <2>1 DEF Iterated
  <2>2. \A n \in 1..N : <<n, f[n - 1]>> \in (1..N) \X V
    BY <1>n
  <2>3. \A n \in 1..N : f[n] = Match(f[n - 1], n)
    BY <2>2 DEF G
  <2>4. f = [n \in 0..N |-> f[n]] /\ \A n \in 0..N : n # 0 => n \in 1..N
    BY <1>n
  <2>5. f = Body(f)
    BY <2>3, <2>4
  <2> QED BY <2>5
<1>7. F = Body(F)
  <2> HIDE DEF Body
  <2> QED BY <1>6
<1> HIDE DEF F
<1>8. F[0] = acc /\ \A n \in 1..N : F[n] = Match(F[n - 1], n)
  <2>1. \A n \in 0..N : F[n] = IF n = 0 THEN acc ELSE Match(F[n - 1], n)
    BY <1>7
  <2>2. 0 \in 0..N /\ \A n \in 1..N : n \in 0..N /\ n # 0
    BY <1>n
  <2> QED BY <2>1, <2>2
<1>9. DOMAIN F = 0..N /\ F = [n \in 0..N |-> F[n]]
  BY <1>7
<1>10. \A n \in 0..N : F[n] \in V
  <2> SUFFICES ASSUME NEW n \in 0..N PROVE F[n] \in V
    OBVIOUS
  <2>1. n \in Nat /\ F[0] \in V /\ \A i \in 1..n : F[i - 1] \in V => F[i] \in V
    BY <1>4, <1>n, <1>v, <1>8
  <2> QED BY <2>1, Stays
<1>11. F \in [0..N -> V]
  BY <1>9, <1>10
<1> QED BY <1>2, <1>8, <1>11 DEF V, N, Match, ArgRun

LEMMA ResolveArgKeeps ==
  ASSUME NEW tree, IsTree(tree), NEW opts, NEW cwd \in Seq(Names), NEW arg \in Arguments,
         NEW acc \in Consistent(tree, cwd, opts)
  PROVE  resolveArg(acc, tree, cwd, arg, opts) \in Consistent(tree, cwd, opts)
<1>1. arg.path \in Spellings /\ Len(arg.matches) \in Nat
  BY DEF Arguments
<1>2. CASE arg.glob
  <2> PICK F : ArgRun(F, acc, tree, cwd, arg, opts)
    BY ResolveArgRuns
  <2>1. F[Len(arg.matches)] \in Consistent(tree, cwd, opts)
    BY <1>1 DEF ArgRun
  <2> QED BY <1>2, <2>1 DEF ArgRun
<1>3. CASE ~arg.glob
  <2>1. resolveArg(acc, tree, cwd, arg, opts) = ResolvePath(acc, tree, cwd, arg.path, opts, FALSE)
    BY <1>3 DEF resolveArg
  <2> QED BY <1>1, <2>1, ResolvePathKeeps
<1> QED BY <1>2, <1>3

\* What the arguments give, up to one that fails.
ArgsRun(F, tree, cwd, args, opts) ==
  LET N == Len(args) IN
  /\ F \in [0..N -> Consistent(tree, cwd, opts)]
  /\ F[0] = [seen |-> {}, result |-> {}, failed |-> FALSE]
  /\ \A n \in 1..N : F[n] = IF F[n - 1].failed THEN F[n - 1]
                            ELSE resolveArg(F[n - 1], tree, cwd, args[n], opts)
  /\ ResolveFilesWithOpts(tree, cwd, args, opts) = F[N]

LEMMA ResolveFilesRuns ==
  ASSUME NEW tree, IsTree(tree), NEW opts, NEW cwd \in Seq(Names), NEW args \in Seq(Arguments)
  PROVE  \E F : ArgsRun(F, tree, cwd, args, opts)
<1> DEFINE V == Consistent(tree, cwd, opts)
           N == Len(args)
           none == [seen |-> {}, result |-> {}, failed |-> FALSE]
           Arg(v, n) == resolveArg(v, tree, cwd, args[n], opts)
           Go(v, n) == IF v.failed THEN v ELSE Arg(v, n)
           G == [x \in (1..N) \X V |-> Go(x[2], x[1])]
           Body(f) == [n \in 0..N |-> IF n = 0 THEN none
                                      ELSE IF f[n - 1].failed THEN f[n - 1] ELSE Arg(f[n - 1], n)]
           F == CHOOSE f : f = Body(f)
<1>1. ResolveFilesWithOpts(tree, cwd, args, opts) = F[N]
  BY DEF ResolveFilesWithOpts
<1>4. \A n \in 1..N : \A v \in V : Arg(v, n) \in V
  <2>1. \A n \in 1..N : args[n] \in Arguments
    OBVIOUS
  <2> QED BY <2>1, ResolveArgKeeps
<1>n. N \in Nat
  OBVIOUS
<1>v. none \in V
  <2>1. none \in Accs /\ none.seen = {} /\ none.result = {}
    BY DEF Accs
  <2> HIDE DEF none
  <2> QED BY <2>1 DEF Consistent
<1> HIDE DEF V, N, Arg, none
<1>5. G \in [(1..N) \X V -> V]
  BY <1>4
<1>6. \E f : f = Body(f)
  <2>1. Iterated(V, N, none, G)
    <3> HIDE DEF G
    <3> QED BY <1>n, <1>v, <1>5, Iteration
  <2> HIDE DEF G
  <2> PICK f \in [0..N -> V] : f[0] = none /\ \A n \in 1..N : f[n] = G[<<n, f[n - 1]>>]
    BY <2>1 DEF Iterated
  <2>2. \A n \in 1..N : <<n, f[n - 1]>> \in (1..N) \X V
    BY <1>n
  <2>3. \A n \in 1..N : f[n] = Go(f[n - 1], n)
    BY <2>2 DEF G
  <2>4. f = [n \in 0..N |-> f[n]] /\ \A n \in 0..N : n # 0 => n \in 1..N
    BY <1>n
  <2>5. f = Body(f)
    BY <2>3, <2>4
  <2> QED BY <2>5
<1>7. F = Body(F)
  <2> HIDE DEF Body
  <2> QED BY <1>6
<1> HIDE DEF F
<1>8. F[0] = none /\ \A n \in 1..N : F[n] = Go(F[n - 1], n)
  <2>1. \A n \in 0..N : F[n] = IF n = 0 THEN none ELSE Go(F[n - 1], n)
    BY <1>7
  <2>2. 0 \in 0..N /\ \A n \in 1..N : n \in 0..N /\ n # 0
    BY <1>n
  <2> HIDE DEF Go
  <2> QED BY <2>1, <2>2
<1>9. DOMAIN F = 0..N /\ F = [n \in 0..N |-> F[n]]
  BY <1>7
<1>10. \A n \in 0..N : F[n] \in V
  <2> SUFFICES ASSUME NEW n \in 0..N PROVE F[n] \in V
    OBVIOUS
  <2>1. n \in Nat /\ F[0] \in V /\ \A i \in 1..n : F[i - 1] \in V => F[i] \in V
    BY <1>4, <1>n, <1>v, <1>8
  <2> QED BY <2>1, Stays
<1>11. F \in [0..N -> V]
  BY <1>9, <1>10
<1> QED BY <1>1, <1>8, <1>11 DEF V, N, Arg, none, ArgsRun

LEMMA ResolveFilesIs ==
  ASSUME NEW tree, IsTree(tree), NEW opts, NEW cwd \in Seq(Names), NEW args \in Seq(Arguments)
  PROVE  ResolveFilesWithOpts(tree, cwd, args, opts) \in Consistent(tree, cwd, opts)
<1> PICK F : ArgsRun(F, tree, cwd, args, opts)
  BY ResolveFilesRuns
<1>1. Len(args) \in Nat
  OBVIOUS
<1> QED BY <1>1 DEF ArgsRun

LEMMA CommandTypes ==
  ASSUME NEW c \in Commands
  PROVE  /\ c.cwd \in Seq(Names) /\ IsTree(c.tree) /\ c.args \in Seq(Arguments)
         /\ c.run \in JobType /\ c.run.inMemory = c.stdin /\ Len(c.run.paths) <= 1
<1>1. /\ IsTree(c.tree) /\ c.cwd \in DOMAIN c.tree.ignore
      /\ c.args \in Seq([glob : BOOLEAN, path : Spellings, matches : Seq(Spellings)])
      /\ c.run \in JobType /\ c.run.inMemory = c.stdin /\ Len(c.run.paths) <= 1
  BY CheckRunAssumption
<1>2. c.cwd \in Seq(Names)
  BY <1>1 DEF IsTree
<1> QED BY <1>1, <1>2 DEF Arguments

\* The files of a command have different paths, and can be read.
LEMMA ResolutionIs ==
  ASSUME NEW c \in Commands
  PROVE  Given(c.tree, c.cwd, resolveOpts(c), Resolution(c).result)
<1> DEFINE opts == resolveOpts(c)
           some == ResolveFilesWithOpts(c.tree, c.cwd, c.args, opts)
           finds == Discover(c.tree, c.cwd, c.config.files, opts)
           all == {[abs |-> TRUE, segs |-> q] : q \in finds}
           r == Resolution(c).result
<1>1. c.cwd \in Seq(Names) /\ IsTree(c.tree) /\ c.args \in Seq(Arguments)
  BY CommandTypes
<1>2. r = {} \/ r = some.result \/ r = all
  <2> DEFINE nothing == [failed |-> FALSE, result |-> {}]
             listed == [failed |-> some.failed, result |-> some.result]
             walked == [failed |-> DiscoverFails(c.tree, c.cwd, opts), result |-> all]
             R == Resolution(c)
  <2>1. R = CASE HasStdin(c) -> nothing
              [] ~HasStdin(c) /\ c.args # <<>> -> listed
              [] ~HasStdin(c) /\ c.args = <<>> /\ c.config.files = {} -> nothing
              [] OTHER -> walked
    BY DEF Resolution
  <2>2. R = nothing \/ R = listed \/ R = walked
    <3> HIDE DEF R, nothing, listed, walked
    <3>1. CASE HasStdin(c)
      BY <2>1, <3>1
    <3>2. CASE ~HasStdin(c) /\ c.args # <<>>
      BY <2>1, <3>2
    <3>3. CASE ~HasStdin(c) /\ c.args = <<>> /\ c.config.files = {}
      BY <2>1, <3>3
    <3>4. CASE ~HasStdin(c) /\ c.args = <<>> /\ ~(c.config.files = {})
      BY <2>1, <3>4
    <3> QED BY <3>1, <3>2, <3>3, <3>4
  <2>3. nothing.result = {} /\ listed.result = some.result /\ walked.result = all
    OBVIOUS
  <2> HIDE DEF nothing, listed, walked
  <2> QED BY <2>2, <2>3
<1>3. Given(c.tree, c.cwd, opts, {})
  BY DEF Given
<1>4. Given(c.tree, c.cwd, opts, some.result)
  <2>1. some \in Consistent(c.tree, c.cwd, opts)
    BY <1>1, ResolveFilesIs
  <2> HIDE DEF some, opts
  <2> QED BY <2>1 DEF Consistent, Accs, Given
<1>5. Given(c.tree, c.cwd, opts, all)
  <2>1. \A q \in finds : /\ q \in DOMAIN c.tree.kind /\ q \in Seq(Names)
                         /\ Readable(c.tree, q, opts.follow)
    BY <1>1 DEF Discover, IsTree
  <2> HIDE DEF finds
  <2>2. \A q \in finds : /\ [abs |-> TRUE, segs |-> q] \in Spellings
                         /\ Abs(c.cwd, [abs |-> TRUE, segs |-> q]) = q
    BY <1>1, <2>1, AbsOfAbsolute
  <2> QED BY <2>1, <2>2 DEF Given
<1> HIDE DEF r, some, all
<1>6. Given(c.tree, c.cwd, opts, r)
  BY <1>2, <1>3, <1>4, <1>5
<1> QED BY <1>6 DEF r

\* The engine is given the file of each path, once.
LEMMA FilesOfIs ==
  ASSUME NEW c \in Commands, NEW paths, Given(c.tree, c.cwd, resolveOpts(c), paths)
  PROVE  /\ FilesOf(c, paths) \in Seq(Files)
         /\ \A f : f \in ToSet(FilesOf(c, paths))
                    <=> f \in Files /\ \E q \in paths : Abs(c.cwd, q) = PathOf[f]
         /\ IsInjective(FilesOf(c, paths))
<1> DEFINE of(f) == {q \in paths : Abs(c.cwd, q) = PathOf[f]}
           times(f) == Cardinality(of(f))
           s == [f \in DOMAIN PathOf |-> [i \in 1 .. times(f) |-> f]]
<1>1. FilesOf(c, paths) = FlattenSeq(s)
  BY DEF FilesOf
<1>2. \A f \in Files : \/ of(f) = {} /\ times(f) = 0
                       \/ of(f) # {} /\ times(f) = 1
  <2> SUFFICES ASSUME NEW f \in Files
               PROVE  \/ of(f) = {} /\ times(f) = 0
                      \/ of(f) # {} /\ times(f) = 1
    OBVIOUS
  <2>1. CASE of(f) = {}
    BY <2>1, FS_EmptySet
  <2>2. CASE of(f) # {}
    <3> PICK q \in of(f) : TRUE
      BY <2>2
    <3>1. of(f) = {q}
      BY DEF Given
    <3> HIDE DEF of
    <3> QED BY <3>1, FS_Singleton
  <2> QED BY <2>1, <2>2
<1>3. /\ PathOf \in Seq(Seq(Names)) /\ DOMAIN PathOf = Files
      /\ Len(PathOf) \in Nat /\ Files = 1..Len(PathOf)
  BY CheckRunAssumption
<1>4. \A f \in Files : of(f) # {} <=> \E q \in paths : Abs(c.cwd, q) = PathOf[f]
  OBVIOUS
<1> HIDE DEF of
<1>5. DOMAIN s = Files /\ \A f \in Files :
        /\ s[f] \in Seq(Files) /\ IsInjective(s[f])
        /\ \A x : x \in ToSet(s[f]) <=> x = f /\ of(f) # {}
  <2>1. DOMAIN s = Files /\ \A f \in Files : s[f] = [i \in 1 .. times(f) |-> f]
    BY <1>3
  <2> HIDE DEF s
  <2> SUFFICES ASSUME NEW f \in Files
               PROVE  /\ s[f] \in Seq(Files) /\ IsInjective(s[f])
                      /\ \A x : x \in ToSet(s[f]) <=> x = f /\ of(f) # {}
    BY <2>1
  <2>2. times(f) \in Nat
    BY <1>2
  <2>3. s[f] = [i \in 1 .. times(f) |-> f]
    BY <2>1
  <2> HIDE DEF times
  <2>4. s[f] \in [1 .. times(f) -> Files]
    BY <2>3
  <2>5. s[f] \in Seq(Files)
    BY <2>2, <2>4, IsSequence
  <2>6. IsInjective(s[f])
    <3>1. \A i, j \in DOMAIN s[f] : i = j
      BY <1>2, <2>3 DEF times
    <3> QED BY <3>1 DEF IsInjective
  <2>7. \A x : x \in ToSet(s[f]) <=> x = f /\ of(f) # {}
    <3>1. CASE of(f) = {}
      BY <1>2, <2>3, <3>1 DEF ToSet, times
    <3>2. CASE of(f) # {}
      BY <1>2, <2>3, <3>2 DEF ToSet, times
    <3> QED BY <3>1, <3>2
  <2> QED BY <2>5, <2>6, <2>7
<1>6. s \in Seq(Seq(Files))
  <2>1. s \in [1..Len(PathOf) -> Seq(Files)]
    <3>1. s = [f \in Files |-> s[f]]
      BY <1>3
    <3> HIDE DEF s
    <3> QED BY <1>3, <1>5, <3>1
  <2> HIDE DEF s
  <2> QED BY <1>3, <2>1, IsSequence
<1> HIDE DEF s
<1>7. /\ FlattenSeq(s) \in Seq(Files)
      /\ \A x : x \in ToSet(FlattenSeq(s)) <=> \E f \in DOMAIN s : x \in ToSet(s[f])
      /\ /\ \A f \in DOMAIN s : IsInjective(s[f])
         /\ \A f, g \in DOMAIN s : f # g => ToSet(s[f]) \cap ToSet(s[g]) = {}
         => IsInjective(FlattenSeq(s))
  BY <1>6, Flattened
<1>8. IsInjective(FlattenSeq(s))
  BY <1>5, <1>7
<1>9. \A f : f \in ToSet(FlattenSeq(s)) <=> f \in Files /\ of(f) # {}
  BY <1>5, <1>7
<1> QED BY <1>1, <1>4, <1>7, <1>8, <1>9

\* The input of the engine: its files are named once, and are those of the
\* command where they could be told.
LEMMA JobOfIs ==
  ASSUME NEW c \in Commands
  PROVE  LET r == Resolution(c)
             j == JobOf(c, r)
         IN  /\ j.inMemory = HasStdin(c) /\ j.paths \in Seq(Files)
             /\ IsInjective(j.paths) /\ (j.inMemory => Len(j.paths) <= 1)
             /\ ~HasStdin(c) /\ ~r.failed => j.paths = FilesOf(c, r.result)
<1> DEFINE r == Resolution(c)
           j == JobOf(c, r)
           files == FilesOf(c, r.result)
<1>1. /\ c.run \in JobType /\ c.run.inMemory = c.stdin /\ c.run.paths \in Seq(Files)
      /\ Len(c.run.paths) <= 1
  BY CommandTypes DEF JobType
<1>2. files \in Seq(Files) /\ IsInjective(files)
  BY ResolutionIs, FilesOfIs
<1>3. [c.run EXCEPT !.paths = files].paths = files
      /\ [c.run EXCEPT !.paths = files].inMemory = c.run.inMemory
  <2> HIDE DEF files
  <2> QED BY <1>1, <1>2 DEF JobType
<1> HIDE DEF files
<1>4. IsInjective(c.run.paths)
  <2>1. Len(c.run.paths) \in Nat /\ DOMAIN c.run.paths = 1..Len(c.run.paths)
    BY <1>1
  <2>2. \A i, k \in DOMAIN c.run.paths : i = k
    BY <1>1, <2>1
  <2> QED BY <2>2 DEF IsInjective
<1>5. CASE HasStdin(c) \/ r.failed
  <2>1. j = c.run
    BY <1>5 DEF JobOf
  <2> HIDE DEF j, r
  <2>2. /\ j.inMemory = HasStdin(c) /\ j.paths \in Seq(Files)
        /\ IsInjective(j.paths) /\ (j.inMemory => Len(j.paths) <= 1)
        /\ ~HasStdin(c) /\ ~r.failed => j.paths = files
    BY <1>1, <1>4, <1>5, <2>1 DEF HasStdin
  <2> QED BY <2>2 DEF j, r, files
<1>6. CASE ~HasStdin(c) /\ ~r.failed
  <2>1. j = [c.run EXCEPT !.paths = files]
    BY <1>6 DEF JobOf, files
  <2> HIDE DEF j, r
  <2>2. j.paths = files /\ j.inMemory = c.stdin
    BY <1>1, <1>3, <2>1
  <2>3. /\ j.inMemory = HasStdin(c) /\ j.paths \in Seq(Files)
        /\ IsInjective(j.paths) /\ (j.inMemory => Len(j.paths) <= 1)
        /\ ~HasStdin(c) /\ ~r.failed => j.paths = files
    BY <1>2, <1>6, <2>2 DEF HasStdin
  <2> QED BY <2>3 DEF j, r, files
<1> QED BY <1>5, <1>6

-----------------------------------------------------------------------------
(* The command.                                                            *)

\* What was asked for stays, and the engine works on what it stands for.
CommandInv == cmd \in Commands /\ resolved = Resolution(cmd) /\ job = JobOf(cmd, resolved)

LEMMA CommandSteps ==
  /\ CheckInit => Init /\ CommandInv
  /\ [CheckNext]_checkVars => [Next]_vars
  /\ CommandInv /\ [CheckNext]_checkVars => CommandInv'
<1>1. CheckInit => Init /\ CommandInv
  BY DEF CheckInit, CommandInv
<1>2. [CheckNext]_checkVars => [Next]_vars
  BY DEF CheckNext, Reject, NothingToCheck, Load, Engine, Report, checkVars
<1>3. [CheckNext]_checkVars => UNCHANGED <<cmd, resolved>>
  BY DEF CheckNext, Reject, NothingToCheck, Load, Engine, Report, checkVars
<1>4. [Next]_vars => UNCHANGED job
  BY DEF Next, vars, Start, Finish, WorkerStep, StartWorker, Pull, FailFile, ClassifyRules,
         SpawnCheck, WalkAndCollect, FinishCheck
<1>5. CommandInv /\ UNCHANGED <<cmd, resolved, job>> => CommandInv'
  BY DEF CommandInv
<1> QED BY <1>1, <1>2, <1>3, <1>4, <1>5

\* checkFiles: a command runs the engine, on one input.
THEOREM CommandRunsTheEngine == CheckSpec => Spec /\ []CommandInv
BY CommandSteps, PTL DEF CheckSpec, Spec

\* The output of a command does not depend on the schedule of its workers.
THEOREM CommandIsSequential == CheckSpec => RunIsSequential
BY CommandRunsTheEngine, ScheduleDoesNotMatter, PTL

\* A command checks each file at most once, in however many spellings, by
\* however many arguments and globs it was named; it checks a file for every
\* path that its arguments stand for, and that file can be read.
EachFileOnce ==
  /\ IsInjective(Work(job))
  /\ ~HasStdin(cmd) /\ ~resolved.failed =>
        /\ \A f \in Files : f \in ToSet(job.paths)
                            <=> \E q \in resolved.result : Abs(cmd.cwd, q) = PathOf[f]
        /\ \A f \in ToSet(job.paths) :
            /\ PathOf[f] \in DOMAIN cmd.tree.kind
            /\ Readable(cmd.tree, PathOf[f], resolveOpts(cmd).follow)

LEMMA FilesAreOnce ==
  ASSUME CommandInv, job \in Jobs
  PROVE  NamedOnce(job) /\ EachFileOnce
<1> DEFINE r == Resolution(cmd)
<1>1. cmd \in Commands /\ resolved = r /\ job = JobOf(cmd, r)
  BY DEF CommandInv
<1> HIDE DEF r
<1>2. /\ IsInjective(job.paths) /\ (job.inMemory => Len(job.paths) <= 1)
      /\ ~HasStdin(cmd) /\ ~r.failed => job.paths = FilesOf(cmd, r.result)
  BY <1>1, JobOfIs DEF r
<1>3. IsInjective(Work(job))
  BY <1>2, WorkIs
<1>4. ASSUME ~HasStdin(cmd), ~r.failed
      PROVE  /\ \A f \in Files : f \in ToSet(job.paths)
                                 <=> \E q \in r.result : Abs(cmd.cwd, q) = PathOf[f]
             /\ \A f \in ToSet(job.paths) :
                 /\ PathOf[f] \in DOMAIN cmd.tree.kind
                 /\ Readable(cmd.tree, PathOf[f], resolveOpts(cmd).follow)
  <2>1. Given(cmd.tree, cmd.cwd, resolveOpts(cmd), r.result)
    BY <1>1, ResolutionIs DEF r
  <2>2. \A f : f \in ToSet(FilesOf(cmd, r.result))
                  <=> f \in Files /\ \E q \in r.result : Abs(cmd.cwd, q) = PathOf[f]
    BY <1>1, <2>1, FilesOfIs
  <2>3. \A q \in r.result : /\ Abs(cmd.cwd, q) \in DOMAIN cmd.tree.kind
                            /\ Readable(cmd.tree, Abs(cmd.cwd, q), resolveOpts(cmd).follow)
    BY <2>1 DEF Given
  <2> QED BY <1>2, <1>4, <2>2, <2>3
<1> QED BY <1>1, <1>2, <1>3, <1>4 DEF NamedOnce, EachFileOnce

THEOREM FilesAreCheckedOnce == CheckSpec => []EachFileOnce
<1>1. CommandInv /\ TypeOK => EachFileOnce
  BY FilesAreOnce DEF TypeOK
<1> QED BY <1>1, CommandRunsTheEngine, TypeCorrect, PTL

\* A command reports every finding once, whatever its arguments.
THEOREM CommandReportsOnce ==
  CheckSpec /\ RulesAreProper(job) /\ GlobalWhenOn(job) => []EachFindingOnce
<1>1. CommandInv /\ Init /\ RulesAreProper(job) /\ GlobalWhenOn(job) => ProperInput(job)
  BY FilesAreOnce DEF Init, ProperInput
<1>2. Spec => Init
  BY PTL DEF Spec
<1> QED BY <1>1, <1>2, CommandRunsTheEngine, FindingsAreReportedOnce, PTL

-----------------------------------------------------------------------------
(* The exit code.                                                          *)

\* A command ends with 0 for one of two reasons, and with 1 for one.
ExitInv ==
  phase = "exited" =>
    /\ exit = 0 => \/ ~HasStdin(cmd) /\ ~resolved.failed /\ resolved.result = {}
                   \/ stage = "done" /\ result.diags = <<>> /\ result.errs = <<>>
    /\ exit = 1 => result.diags # <<>>

LEMMA ExitInvariance == CheckSpec => []ExitInv
<1>1. CheckInit => ExitInv
  BY DEF CheckInit, ExitInv
<1>2. ExitInv /\ [CheckNext]_checkVars => ExitInv'
  <2> SUFFICES ASSUME ExitInv, [CheckNext]_checkVars PROVE ExitInv'
    OBVIOUS
  <2>1. CASE Reject
    BY <2>1 DEF Reject, ExitInv
  <2>2. CASE NothingToCheck
    BY <2>2 DEF NothingToCheck, Nothing, HasStdin, ExitInv
  <2>3. CASE Load
    BY <2>3 DEF Load, ExitInv
  <2>4. CASE Engine
    BY <2>4 DEF Engine, ExitInv
  <2>5. CASE Report
    BY <2>5 DEF Report, ExitInv, vars
  <2>6. CASE UNCHANGED checkVars
    BY <2>6 DEF checkVars, vars, ExitInv
  <2> QED BY <2>1, <2>2, <2>3, <2>4, <2>5, <2>6 DEF CheckNext
<1> QED BY <1>1, <1>2, PTL DEF CheckSpec

\* No error is lost in the merge: without one every file was read.
LEMMA NoErrorsNoFailures ==
  ASSUME NEW j \in Jobs, SequentialResult(j).errs = <<>>, NEW i \in DOMAIN Work(j)
  PROVE  j.loads[Work(j)[i]] = "ok"
<1> DEFINE X == ({"settings"} \X Rules) \cup (Loads \X Files)
           e(k) == Outcome(j, Work(j)[k], Filled(j, Work(j)[k])).errs
           q == [k \in DOMAIN Work(j) |-> e(k)]
<1>1. /\ Work(j) \in Seq(Files) /\ DOMAIN Work(j) = 1..Len(Work(j)) /\ Len(Work(j)) \in Nat
  BY WorkIsSequence
<1>2. \A S : SettingsErrors(S) \in Seq(X)
  <2> SUFFICES ASSUME NEW S PROVE SettingsErrors(S) \in Seq(X)
    OBVIOUS
  <2> DEFINE s == [r \in Rules |-> IF r \in S THEN <<<<"settings", r>>>> ELSE <<>>]
  <2>1. RuleCount \in Nat /\ Rules = 1..RuleCount
    BY LintResultAssumption DEF Rules
  <2>2. \A r \in Rules : <<<<"settings", r>>>> \in Seq(X) /\ <<>> \in Seq(X)
    <3> SUFFICES ASSUME NEW r \in Rules
                 PROVE  <<<<"settings", r>>>> \in Seq(X) /\ <<>> \in Seq(X)
      OBVIOUS
    <3> DEFINE x == <<"settings", r>>
    <3>1. x \in X
      OBVIOUS
    <3> HIDE DEF x, X
    <3>2. <<x>> \in Seq(X) /\ <<>> \in Seq(X)
      BY <3>1
    <3> QED BY <3>2 DEF x
  <2> HIDE DEF X
  <2>3. s \in [1..RuleCount -> Seq(X)]
    BY <2>1, <2>2
  <2>4. s \in Seq(Seq(X))
    <3> HIDE DEF s
    <3> QED BY <2>1, <2>3, IsSequence
  <2>5. FlattenSeq(s) \in Seq(X)
    <3> HIDE DEF s
    <3> QED BY <2>4, Flattened
  <2> QED BY <2>5 DEF SettingsErrors
<1>3. \A k \in DOMAIN Work(j) :
        /\ j.loads[Work(j)[k]] = "ok" => e(k) = ClassifyErrors(j, Work(j)[k])
        /\ j.loads[Work(j)[k]] # "ok" => e(k) = <<<<j.loads[Work(j)[k]], Work(j)[k]>>>>
  BY DEF Outcome
<1>4. \A k \in DOMAIN Work(j) : j.loads[Work(j)[k]] \in Loads /\ Work(j)[k] \in Files
  BY <1>1, InputTypes
<1>5. \A k \in DOMAIN Work(j) : e(k) \in Seq(X)
  <2> SUFFICES ASSUME NEW k \in DOMAIN Work(j) PROVE e(k) \in Seq(X)
    OBVIOUS
  <2>1. CASE j.loads[Work(j)[k]] = "ok"
    <3> HIDE DEF e, X
    <3> QED BY <1>2, <1>3, <2>1 DEF ClassifyErrors
  <2>2. CASE j.loads[Work(j)[k]] # "ok"
    <3> DEFINE x == <<j.loads[Work(j)[k]], Work(j)[k]>>
    <3>1. x \in X
      BY <1>4
    <3>2. e(k) = <<x>>
      BY <1>3, <2>2
    <3> HIDE DEF x, X, e
    <3> QED BY <3>1, <3>2
  <2> QED BY <2>1, <2>2
<1> HIDE DEF X, e
<1>6. q \in Seq(Seq(X)) /\ DOMAIN q = DOMAIN Work(j) /\ \A k \in DOMAIN Work(j) : q[k] = e(k)
  <2>1. q \in [1..Len(Work(j)) -> Seq(X)] /\ \A k \in DOMAIN Work(j) : q[k] = e(k)
    BY <1>1, <1>5
  <2> HIDE DEF q
  <2> QED BY <1>1, <2>1, IsSequence
<1>7. SequentialResult(j).errs = ConfigErrors(j) \o FlattenSeq(q)
  <2> DEFINE o == [k \in DOMAIN Work(j) |-> Outcome(j, Work(j)[k], Filled(j, Work(j)[k]))]
  <2>1. MergeOutcomes(j, o).errs = ConfigErrors(j) \o FlattenSeq([k \in DOMAIN o |-> o[k].errs])
    BY DEF MergeOutcomes
  <2>2. [k \in DOMAIN o |-> o[k].errs] = q
    BY DEF e
  <2> HIDE DEF o, q
  <2>3. MergeOutcomes(j, o).errs = ConfigErrors(j) \o FlattenSeq(q)
    BY <2>1, <2>2
  <2> QED BY <2>3 DEF SequentialResult, o
<1> HIDE DEF q
<1>8. FlattenSeq(q) \in Seq(X) /\ ConfigErrors(j) \in Seq(X)
  BY <1>2, <1>6, Flattened DEF ConfigErrors
<1>9. ToSet(FlattenSeq(q)) = {}
  <2>1. ToSet(ConfigErrors(j) \o FlattenSeq(q))
            = ToSet(ConfigErrors(j)) \cup ToSet(FlattenSeq(q))
    BY <1>8, Concatenation
  <2>2. ToSet(<<>>) = {}
    BY DEF ToSet
  <2> QED BY <1>7, <2>1, <2>2
<1>10. SUFFICES ASSUME j.loads[Work(j)[i]] # "ok" PROVE FALSE
  OBVIOUS
<1>11. <<j.loads[Work(j)[i]], Work(j)[i]>> \in ToSet(q[i])
  <2> DEFINE x == <<j.loads[Work(j)[i]], Work(j)[i]>>
  <2>1. q[i] = <<x>>
    BY <1>3, <1>6, <1>10
  <2> HIDE DEF x
  <2>2. x \in ToSet(q[i])
    BY <2>1 DEF ToSet
  <2> QED BY <2>2 DEF x
<1>12. \A x : x \in ToSet(FlattenSeq(q)) <=> \E k \in DOMAIN q : x \in ToSet(q[k])
  BY <1>6, Flattened
<1> QED BY <1>6, <1>9, <1>11, <1>12

\* Where a command stands for no file there is none to check.
LEMMA NoFiles ==
  ASSUME CommandInv, job \in Jobs, ~HasStdin(cmd), ~resolved.failed, resolved.result = {}
  PROVE  DOMAIN Work(job) = {}
<1>1. \A f \in Files : f \notin ToSet(job.paths)
  BY FilesAreOnce DEF EachFileOnce
<1>2. \A f : f \notin ToSet(Work(job))
  <2>1. Work(job) \in Seq(Files)
    BY WorkIs
  <2>2. \A f \in ToSet(Work(job)) : f \in Files
    BY <2>1 DEF ToSet
  <2> QED BY <1>1, <2>2, WorkIs
<1> QED BY <1>2 DEF ToSet

\* checkFiles: with exit code 0 every file was read, and none has a finding
\* outside its generated sections.
THEOREM ExitZeroIsClean == CheckSpec => []ZeroIsClean
<1>1. CommandInv /\ TypeOK /\ ResultInv /\ ExitInv => ZeroIsClean
  <2> SUFFICES ASSUME CommandInv, TypeOK, ResultInv, ExitInv, phase = "exited", exit = 0,
                      NEW i \in DOMAIN Work(job)
               PROVE  /\ job.loads[Work(job)[i]] = "ok"
                      /\ \A r \in Slots(job, Work(job)[i]) :
                            \A n \in DOMAIN job.finds[Work(job)[i]][r] :
                                job.finds[Work(job)[i]][r][n].line
                                    \in job.generated[Work(job)[i]]
    BY DEF ZeroIsClean
  <2>1. job \in Jobs
    BY DEF TypeOK
  <2>2. stage = "done" /\ result.diags = <<>> /\ result.errs = <<>>
    BY <2>1, NoFiles DEF ExitInv
  <2>3. result = SequentialResult(job)
    BY <2>2 DEF ResultInv
  <2>4. job.loads[Work(job)[i]] = "ok"
    BY <2>1, <2>2, <2>3, NoErrorsNoFailures
  <2>5. \A x : x \notin ToSet(SequentialResult(job).diags)
    BY <2>2, <2>3 DEF ToSet
  <2>6. ASSUME NEW r \in Slots(job, Work(job)[i]), NEW n \in DOMAIN job.finds[Work(job)[i]][r]
        PROVE  job.finds[Work(job)[i]][r][n].line \in job.generated[Work(job)[i]]
    BY <2>1, <2>4, <2>5, AllReported
  <2> QED BY <2>4, <2>6
<1> QED BY <1>1, CommandRunsTheEngine, TypeCorrect, ResultInvariance, ExitInvariance, PTL

\* With exit code 1 there is a finding, of a rule about the configuration or of
\* a rule that is on for a file the command was to check.
OneHasFinding ==
  (phase = "exited" /\ exit = 1) =>
    \/ \E r \in ConfigTargets(job) \ job.badSettings : job.finds[ConfigFile][r] # <<>>
    \/ \E i \in DOMAIN Work(job) : \E r \in Slots(job, Work(job)[i]) :
        \E y \in ToSet(job.finds[Work(job)[i]][r]) :
            y.line \notin job.generated[Work(job)[i]]

THEOREM ExitOneHasFinding == CheckSpec => []OneHasFinding
<1>1. TypeOK /\ ResultInv /\ ExitInv /\ NothingIsInvented => OneHasFinding
  <2> SUFFICES ASSUME TypeOK, ResultInv, ExitInv, NothingIsInvented, phase = "exited", exit = 1
               PROVE  \/ \E r \in ConfigTargets(job) \ job.badSettings :
                            job.finds[ConfigFile][r] # <<>>
                      \/ \E i \in DOMAIN Work(job) : \E r \in Slots(job, Work(job)[i]) :
                            \E y \in ToSet(job.finds[Work(job)[i]][r]) :
                                y.line \notin job.generated[Work(job)[i]]
    BY DEF OneHasFinding
  <2>1. job \in Jobs /\ result.diags # <<>>
    BY DEF TypeOK, ExitInv
  <2>2. \E x : x \in ToSet(result.diags)
    <3>1. result.diags \in Seq(Diagnostics)
      BY <2>1, SequentialResultIs DEF ResultInv, NoResult
    <3>2. 1 \in DOMAIN result.diags
      BY <2>1, <3>1
    <3>3. result.diags[1] \in ToSet(result.diags)
      BY <3>2 DEF ToSet
    <3> QED BY <3>3
  <2> PICK x : x \in ToSet(result.diags)
    BY <2>2
  <2>3. \/ \E r \in ConfigTargets(job) \ job.badSettings : x \in ToSet(job.finds[ConfigFile][r])
        \/ \E i \in DOMAIN Work(job) : \E r \in Slots(job, Work(job)[i]) :
            \E y \in ToSet(job.finds[Work(job)[i]][r]) :
                y.line \notin job.generated[Work(job)[i]]
    BY DEF NothingIsInvented
  <2>4. \A r : x \in ToSet(job.finds[ConfigFile][r]) => job.finds[ConfigFile][r] # <<>>
    BY DEF ToSet
  <2> QED BY <2>3, <2>4
<1> QED BY <1>1, CommandRunsTheEngine, TypeCorrect, ResultInvariance, ExitInvariance,
           ReportsAreFindings, PTL

-----------------------------------------------------------------------------
(* What the rules of the ignore files decide.                              *)

\* A rule of the sequence hits; the last one that does excludes.
HitIn(s, H) == \E i \in DOMAIN s : s[i] \in H
ExcludedBy(s, H) == LastExcludes(s, {i \in DOMAIN s : s[i] \in H})

\* Of two sequences of rules the later one decides, if it has something to say.
LEMMA LastWins ==
  ASSUME NEW X, NEW s \in Seq(X), NEW t \in Seq(X), NEW H
  PROVE  /\ s \o t \in Seq(X)
         /\ HitIn(s \o t, H) <=> HitIn(s, H) \/ HitIn(t, H)
         /\ ExcludedBy(s \o t, H)
                <=> IF HitIn(t, H) THEN ExcludedBy(t, H) ELSE ExcludedBy(s, H)
<1> DEFINE u == s \o t
           n == Len(s)
           Says(v, i) == v[i] \in H /\ (\A j \in DOMAIN v : v[j] \in H => j <= i) /\ ~v[i].negate
<1>1. /\ DOMAIN s \subseteq Nat \ {0} /\ DOMAIN t \subseteq Nat \ {0} /\ DOMAIN u \subseteq Nat \ {0}
      /\ n \in Nat
      /\ \A i \in DOMAIN s : i \in DOMAIN u /\ u[i] = s[i] /\ i <= n
      /\ \A i \in DOMAIN t : i + n \in DOMAIN u /\ u[i + n] = t[i]
      /\ \A i \in DOMAIN u : i <= n => i \in DOMAIN s
      /\ \A i \in DOMAIN u : ~(i <= n) => i - n \in DOMAIN t /\ u[i] = t[i - n]
  OBVIOUS
<1>2. \A v : ExcludedBy(v, H) <=> \E i \in DOMAIN v : Says(v, i)
  BY DEF ExcludedBy, LastExcludes
<1>3. u \in Seq(X)
  OBVIOUS
<1> HIDE DEF u, n
<1>4. HitIn(u, H) <=> HitIn(s, H) \/ HitIn(t, H)
  BY <1>1 DEF HitIn
<1>5. CASE HitIn(t, H)
  <2> PICK k \in DOMAIN t : t[k] \in H
    BY <1>5 DEF HitIn
  <2>1. ASSUME NEW i \in DOMAIN u, Says(u, i) PROVE \E m \in DOMAIN t : Says(t, m)
    <3>1. k + n <= i /\ ~(i <= n)
      BY <1>1, <2>1
    <3>2. i - n \in DOMAIN t /\ u[i] = t[i - n]
      BY <1>1, <3>1
    <3>3. \A j \in DOMAIN t : t[j] \in H => j <= i - n
      <4> TAKE j \in DOMAIN t
      <4>1. t[j] \in H => j + n <= i
        BY <1>1, <2>1
      <4> QED BY <1>1, <4>1
    <3> QED BY <2>1, <3>2, <3>3
  <2>2. ASSUME NEW i \in DOMAIN t, Says(t, i) PROVE \E m \in DOMAIN u : Says(u, m)
    <3>1. i + n \in DOMAIN u /\ u[i + n] = t[i]
      BY <1>1
    <3>2. \A j \in DOMAIN u : u[j] \in H => j <= i + n
      <4> TAKE j \in DOMAIN u
      <4>1. CASE j <= n
        BY <1>1, <4>1
      <4>2. CASE ~(j <= n)
        <5>1. j - n \in DOMAIN t /\ u[j] = t[j - n]
          BY <1>1, <4>2
        <5>2. u[j] \in H => j - n <= i
          BY <2>2, <5>1
        <5> QED BY <1>1, <5>2
      <4> QED BY <4>1, <4>2
    <3> QED BY <2>2, <3>1, <3>2
  <2>3. ExcludedBy(u, H) <=> ExcludedBy(t, H)
    <3> HIDE DEF Says
    <3> QED BY <1>2, <2>1, <2>2
  <2> QED BY <1>3, <1>4, <1>5, <2>3 DEF u
<1>6. CASE ~HitIn(t, H)
  <2>0. \A j \in DOMAIN u : u[j] \in H => j <= n /\ j \in DOMAIN s /\ s[j] \in H
    BY <1>1, <1>6 DEF HitIn
  <2>1. ASSUME NEW i \in DOMAIN u, Says(u, i) PROVE \E m \in DOMAIN s : Says(s, m)
    <3>1. i \in DOMAIN s /\ u[i] = s[i]
      BY <1>1, <2>0, <2>1
    <3>2. \A j \in DOMAIN s : s[j] \in H => j <= i
      BY <1>1, <2>1
    <3> QED BY <2>1, <3>1, <3>2
  <2>2. ASSUME NEW i \in DOMAIN s, Says(s, i) PROVE \E m \in DOMAIN u : Says(u, m)
    <3>1. i \in DOMAIN u /\ u[i] = s[i]
      BY <1>1
    <3>2. \A j \in DOMAIN u : u[j] \in H => j <= i
      BY <2>0, <2>2
    <3> QED BY <2>2, <3>1, <3>2
  <2>3. ExcludedBy(u, H) <=> ExcludedBy(s, H)
    <3> HIDE DEF Says
    <3> QED BY <1>2, <2>1, <2>2
  <2> QED BY <1>3, <1>4, <1>6, <2>3 DEF u
<1> QED BY <1>5, <1>6

\* A sequence of rules decides as the levels from a to b of a path do, of which
\* the deepest that has something to say decides.
Agrees(s, L, a, b, H) ==
  /\ HitIn(s, H) <=> \E m \in a .. b : HitIn(L[m], H)
  /\ ExcludedBy(s, H) <=> \E m \in a .. b :
        ExcludedBy(L[m], H) /\ \A k \in a .. b : HitIn(L[k], H) => k <= m

LEMMA ExcludesIsHit ==
  ASSUME NEW s, NEW H, ExcludedBy(s, H)
  PROVE  HitIn(s, H)
BY DEF ExcludedBy, HitIn, LastExcludes

LEMMA AgreesWithOne ==
  ASSUME NEW L, NEW H, NEW m \in Int
  PROVE  Agrees(L[m], L, m, m, H)
<1>1. \A k : k \in m .. m <=> k = m
  OBVIOUS
<1> QED BY <1>1 DEF Agrees

LEMMA AgreesWithNone ==
  ASSUME NEW L, NEW H, NEW a \in Int, NEW b \in Int, b < a
  PROVE  Agrees(<<>>, L, a, b, H)
<1>1. \A k : k \notin a .. b
  OBVIOUS
<1>2. ~HitIn(<<>>, H) /\ ~ExcludedBy(<<>>, H)
  BY DEF HitIn, ExcludedBy, LastExcludes
<1> QED BY <1>1, <1>2 DEF Agrees

LEMMA AgreesJoined ==
  ASSUME NEW X, NEW s \in Seq(X), NEW t \in Seq(X), NEW L, NEW H,
         NEW a \in Int, NEW b \in Int, NEW c \in Int, a <= b + 1, b <= c,
         Agrees(s, L, a, b, H), Agrees(t, L, b + 1, c, H)
  PROVE  Agrees(s \o t, L, a, c, H)
<1>1. \A k : k \in a .. c <=> k \in a .. b \/ k \in b + 1 .. c
  OBVIOUS
<1>2. \A k \in a .. b : \A m \in b + 1 .. c : k <= m /\ ~(m <= k)
  OBVIOUS
<1>3. \A k \in a .. c : ExcludedBy(L[k], H) => HitIn(L[k], H)
  BY ExcludesIsHit
<1>4. HitIn(s \o t, H) <=> \E m \in a .. c : HitIn(L[m], H)
  BY <1>1, LastWins DEF Agrees
<1>5. CASE HitIn(t, H)
  <2>1. ExcludedBy(s \o t, H) <=> ExcludedBy(t, H)
    BY <1>5, LastWins
  <2> PICK k \in b + 1 .. c : HitIn(L[k], H)
    BY <1>5 DEF Agrees
  <2>2. ASSUME NEW m \in b + 1 .. c, ExcludedBy(L[m], H),
               \A j \in b + 1 .. c : HitIn(L[j], H) => j <= m
        PROVE  \E i \in a .. c : ExcludedBy(L[i], H) /\ \A j \in a .. c : HitIn(L[j], H) => j <= i
    BY <1>1, <1>2, <2>2
  <2>3. ASSUME NEW m \in a .. c, ExcludedBy(L[m], H), \A j \in a .. c : HitIn(L[j], H) => j <= m
        PROVE  \E i \in b + 1 .. c :
                    ExcludedBy(L[i], H) /\ \A j \in b + 1 .. c : HitIn(L[j], H) => j <= i
    <3>1. k <= m
      BY <1>1, <2>3
    <3>2. m \in b + 1 .. c
      BY <1>1, <1>2, <3>1
    <3> QED BY <1>1, <2>3, <3>2
  <2> QED BY <1>4, <2>1, <2>2, <2>3 DEF Agrees
<1>6. CASE ~HitIn(t, H)
  <2>1. ExcludedBy(s \o t, H) <=> ExcludedBy(s, H)
    BY <1>6, LastWins
  <2>2. \A m \in b + 1 .. c : ~HitIn(L[m], H)
    BY <1>6 DEF Agrees
  <2>3. ASSUME NEW m \in a .. b, ExcludedBy(L[m], H), \A j \in a .. b : HitIn(L[j], H) => j <= m
        PROVE  \E i \in a .. c : ExcludedBy(L[i], H) /\ \A j \in a .. c : HitIn(L[j], H) => j <= i
    BY <1>1, <2>2, <2>3
  <2>4. ASSUME NEW m \in a .. c, ExcludedBy(L[m], H), \A j \in a .. c : HitIn(L[j], H) => j <= m
        PROVE  \E i \in a .. b : ExcludedBy(L[i], H) /\ \A j \in a .. b : HitIn(L[j], H) => j <= i
    <3>1. m \in a .. b
      BY <1>1, <1>3, <2>2, <2>4
    <3> QED BY <1>1, <2>4, <3>1
  <2> QED BY <1>4, <2>1, <2>3, <2>4 DEF Agrees
<1> QED BY <1>5, <1>6

\* Two sequences that agree with the same levels, where these say the same to
\* both, decide the same.
LEMMA SameDecision ==
  ASSUME NEW s, NEW t, NEW L, NEW G, NEW H, NEW a \in Int, NEW b \in Int, NEW c \in Int, NEW d \in Int,
         a <= b, c <= d, Agrees(s, L, a, d, G), Agrees(t, L, b, c, H),
         \A m \in b .. c : \A i \in DOMAIN L[m] : L[m][i] \in G <=> L[m][i] \in H,
         \A m \in a .. d : m \notin b .. c => ~HitIn(L[m], G)
  PROVE  ExcludedBy(s, G) <=> ExcludedBy(t, H)
<1>1. \A m \in b .. c : m \in a .. d
  OBVIOUS
<1>2. \A m \in b .. c : /\ HitIn(L[m], G) <=> HitIn(L[m], H)
                        /\ ExcludedBy(L[m], G) <=> ExcludedBy(L[m], H)
  <2> SUFFICES ASSUME NEW m \in b .. c
               PROVE  /\ HitIn(L[m], G) <=> HitIn(L[m], H)
                      /\ ExcludedBy(L[m], G) <=> ExcludedBy(L[m], H)
    OBVIOUS
  <2>1. {i \in DOMAIN L[m] : L[m][i] \in G} = {i \in DOMAIN L[m] : L[m][i] \in H}
    OBVIOUS
  <2> QED BY <2>1 DEF HitIn, ExcludedBy
<1>3. \A m \in a .. d : ExcludedBy(L[m], G) => m \in b .. c
  BY ExcludesIsHit
<1> QED BY <1>1, <1>2, <1>3 DEF Agrees

\* The levels one after the other decide as the levels do.
LEMMA FlattenAgrees ==
  ASSUME NEW X, NEW q \in Seq(Seq(X)), NEW L, NEW H, NEW a \in Int,
         \A i \in DOMAIN q : q[i] = L[a + i - 1]
  PROVE  FlattenSeq(q) \in Seq(X) /\ Agrees(FlattenSeq(q), L, a, a + Len(q) - 1, H)
<1>1. CASE q = <<>>
  <2>1. FlattenSeq(q) = <<>>
    <3>0. DOMAIN q = {}
      BY <1>1
    <3>1. FlattenSeq(q) \in Seq(X) /\ \A x : x \notin ToSet(FlattenSeq(q))
      BY <3>0, Flattened
    <3>2. DOMAIN FlattenSeq(q) = {}
      BY <3>1 DEF ToSet
    <3> QED BY <3>1, <3>2
  <2>2. a + Len(q) - 1 \in Int /\ a + Len(q) - 1 < a
    BY <1>1
  <2> QED BY <2>1, <2>2, AgreesWithNone
<1>2. CASE q # <<>>
  <2> DEFINE N == Len(q)
  <2>1. N \in Nat /\ N > 0 /\ DOMAIN q = 1..N
    BY <1>2
  <2> PICK f \in [1..N -> Seq(X)] :
            /\ FlattenSeq(q) = f[N] /\ f[1] = q[1]
            /\ \A i \in 2..N : f[i] = f[i - 1] \o q[i]
    BY <1>2, FlattenIs
  <2> HIDE DEF N
  <2> DEFINE Good(n) == Agrees(f[n], L, a, a + n - 1, H)
             M == {n \in Nat : n \in 1..N => Good(n)}
  <2>2. Good(1)
    <3>0. a + 1 - 1 = a /\ 1 \in DOMAIN q
      BY <2>1
    <3>1. q[1] = L[a]
      BY <3>0
    <3> QED BY <3>0, <3>1, AgreesWithOne
  <2>3. ASSUME NEW n \in Nat, n \in M PROVE n + 1 \in M
    <3>1. CASE n = 0
      BY <2>2, <3>1
    <3>2. CASE n # 0 /\ n + 1 \in 1..N
      <4>1. n \in 1..N /\ n + 1 \in 2..N /\ (n + 1) - 1 = n
        BY <2>1, <3>2
      <4>2. Good(n) /\ f[n + 1] = f[n] \o q[n + 1]
        BY <2>3, <4>1
      <4> DEFINE b == a + n - 1
                 c == a + (n + 1) - 1
      <4>3. b \in Int /\ c \in Int /\ a <= b + 1 /\ b <= c /\ c = b + 1
        BY <4>1
      <4>4. q[n + 1] = L[c]
        BY <2>1, <3>2
      <4>5. f[n] \in Seq(X) /\ q[n + 1] \in Seq(X)
        BY <2>1, <3>2, <4>1
      <4> HIDE DEF b, c
      <4>6. Agrees(q[n + 1], L, b + 1, c, H)
        BY <4>3, <4>4, AgreesWithOne
      <4>7. Agrees(f[n], L, a, b, H)
        BY <4>2 DEF b
      <4>8. Agrees(f[n] \o q[n + 1], L, a, c, H)
        BY <4>3, <4>5, <4>6, <4>7, AgreesJoined
      <4>9. Good(n + 1)
        BY <4>2, <4>8 DEF c
      <4> HIDE DEF Good
      <4> QED BY <4>9
    <3>3. CASE n + 1 \notin 1..N
      BY <3>3
    <3> QED BY <3>1, <3>2, <3>3
  <2>4. Nat \subseteq M
    <3>1. 0 \in M
      BY <2>1
    <3> HIDE DEF M
    <3> QED BY <2>3, <3>1, NatInd
  <2>5. Good(N)
    BY <2>1, <2>4
  <2>6. f[N] \in Seq(X)
    BY <2>1
  <2> QED BY <2>5, <2>6 DEF N
<1> QED BY <1>1, <1>2

-----------------------------------------------------------------------------
(* Paths and what they begin with.                                         *)

LEMMA Beginning ==
  ASSUME NEW p \in Seq(Names), NEW m \in 0 .. Len(p)
  PROVE  LET d == SubSeq(p, 1, m)
         IN  d \in Seq(Names) /\ Len(d) = m /\ \A i \in 1 .. m : d[i] = p[i]
<1>1. m \in Nat /\ \A i \in 1 .. m : p[i] \in Names
  OBVIOUS
<1>2. /\ SubSeq(p, 1, m) \in Seq(Names)
      /\ Len(SubSeq(p, 1, m)) = IF 1 <= m THEN m - 1 + 1 ELSE 0
      /\ \A i \in 1 .. m - 1 + 1 : SubSeq(p, 1, m)[i] = p[1 + i - 1]
  BY <1>1, SubSeqProperties
<1>3. (IF 1 <= m THEN m - 1 + 1 ELSE 0) = m /\ m - 1 + 1 = m
  BY <1>1
<1>4. \A i \in 1 .. m : 1 + i - 1 = i
  OBVIOUS
<1> DEFINE d == SubSeq(p, 1, m)
<1>5. d \in Seq(Names) /\ Len(d) = m /\ \A i \in 1 .. m : d[i] = p[1 + i - 1]
  BY <1>2, <1>3
<1> HIDE DEF d
<1>6. d \in Seq(Names) /\ Len(d) = m /\ \A i \in 1 .. m : d[i] = p[i]
  BY <1>4, <1>5
<1> QED BY <1>6 DEF d

LEMMA UnderIs ==
  ASSUME NEW d \in Seq(Names), NEW p \in Seq(Names)
  PROVE  /\ Under(d, p) <=> Len(d) <= Len(p) /\ \A i \in 1 .. Len(d) : d[i] = p[i]
         /\ Under(d, p) => d = SubSeq(p, 1, Len(d))
         /\ Under(d, p) /\ Len(d) = Len(p) => d = p
<1> DEFINE n == Len(d)
<1>1. n \in Nat /\ Len(p) \in Nat /\ SubSeq(d, 1, n) = d
  BY SubSeqFull
<1>2. CASE n <= Len(p)
  <2> DEFINE s == SubSeq(p, 1, n)
  <2>1. n \in 0 .. Len(p)
    BY <1>1, <1>2
  <2>2. s \in Seq(Names) /\ Len(s) = n /\ \A i \in 1 .. n : s[i] = p[i]
    BY <2>1, Beginning
  <2>3. Under(d, p) <=> d = s
    BY <1>1, <1>2 DEF Under, IsPrefix
  <2> HIDE DEF s
  <2>4. d = s <=> \A i \in 1 .. n : d[i] = s[i]
    BY <2>2, SeqEqual
  <2>5. Len(d) = Len(p) /\ (\A i \in 1 .. n : d[i] = p[i]) => d = p
    BY <1>1, SeqEqual
  <2> QED BY <1>2, <2>2, <2>3, <2>4, <2>5 DEF s
<1>3. CASE ~(n <= Len(p))
  BY <1>3 DEF Under, IsPrefix
<1> QED BY <1>2, <1>3

LEMMA PrefixesAre ==
  ASSUME NEW p \in Seq(Names), NEW q
  PROVE  q \in Prefixes(p) <=> q \in Seq(Names) /\ Under(q, p)
<1>1. Len(p) \in Nat
  OBVIOUS
<1>2. ASSUME q \in Prefixes(p) PROVE q \in Seq(Names) /\ Under(q, p)
  <2> PICK m \in 0 .. Len(p) : q = SubSeq(p, 1, m)
    BY <1>2 DEF Prefixes
  <2>1. q \in Seq(Names) /\ Len(q) = m /\ \A i \in 1 .. m : q[i] = p[i]
    BY Beginning
  <2>2. Len(q) <= Len(p) /\ \A i \in 1 .. Len(q) : q[i] = p[i]
    BY <1>1, <2>1
  <2>3. Under(q, p) <=> Len(q) <= Len(p) /\ \A i \in 1 .. Len(q) : q[i] = p[i]
    BY <2>1, UnderIs
  <2> QED BY <2>1, <2>2, <2>3
<1>3. ASSUME q \in Seq(Names), Under(q, p) PROVE q \in Prefixes(p)
  <2>1. Len(q) \in 0 .. Len(p) /\ q = SubSeq(p, 1, Len(q))
    BY <1>1, <1>3, UnderIs
  <2> QED BY <2>1 DEF Prefixes
<1> QED BY <1>2, <1>3

\* Of two paths that a third begins with, one begins with the other.
LEMMA UnderOrder ==
  ASSUME NEW a \in Seq(Names), NEW b \in Seq(Names), NEW c \in Seq(Names), Under(b, c)
  PROVE  /\ Under(a, b) => Under(a, c)
         /\ Under(a, c) /\ Len(a) <= Len(b) => Under(a, b)
<1>1. Len(a) \in Nat /\ Len(b) \in Nat /\ Len(c) \in Nat
  OBVIOUS
<1>2. Len(b) <= Len(c) /\ \A i \in 1 .. Len(b) : b[i] = c[i]
  BY UnderIs
<1>3. ASSUME Len(a) <= Len(b)
      PROVE  (\A i \in 1 .. Len(a) : a[i] = b[i]) <=> \A i \in 1 .. Len(a) : a[i] = c[i]
  <2>1. \A i \in 1 .. Len(a) : i \in 1 .. Len(b)
    BY <1>1, <1>3
  <2> QED BY <1>2, <2>1
<1>4. Under(a, b) <=> Len(a) <= Len(b) /\ \A i \in 1 .. Len(a) : a[i] = b[i]
  BY UnderIs
<1>5. Under(a, c) <=> Len(a) <= Len(c) /\ \A i \in 1 .. Len(a) : a[i] = c[i]
  BY UnderIs
<1> QED BY <1>1, <1>2, <1>3, <1>4, <1>5

\* The levels of a path: each of its beginnings.
LEMMA LevelPath ==
  ASSUME NEW p \in Seq(Names), NEW m \in 0 .. Len(p)
  PROVE  LET d == SubSeq(p, 1, m)
         IN  /\ Under(d, p) /\ d \in Prefixes(p) /\ (d = p <=> m = Len(p))
             /\ \A k \in 0 .. m : SubSeq(d, 1, k) = SubSeq(p, 1, k)
<1> DEFINE d == SubSeq(p, 1, m)
<1>1. d \in Seq(Names) /\ Len(d) = m /\ (\A i \in 1 .. m : d[i] = p[i]) /\ m <= Len(p)
      /\ m \in Nat
  BY Beginning
<1>2. d = p <=> m = Len(p)
  BY <1>1, SubSeqFull
<1> HIDE DEF d
<1>3. Under(d, p) /\ d \in Prefixes(p)
  BY <1>1, UnderIs, PrefixesAre
<1>4. ASSUME NEW k \in 0 .. m PROVE SubSeq(d, 1, k) = SubSeq(p, 1, k)
  <2>1. k \in 0 .. Len(d) /\ k \in 0 .. Len(p) /\ \A i \in 1 .. k : i \in 1 .. m
    BY <1>1
  <2> DEFINE a == SubSeq(d, 1, k)
             b == SubSeq(p, 1, k)
  <2>2. a \in Seq(Names) /\ Len(a) = k /\ \A i \in 1 .. k : a[i] = d[i]
    BY <1>1, <2>1, Beginning
  <2>3. b \in Seq(Names) /\ Len(b) = k /\ \A i \in 1 .. k : b[i] = p[i]
    BY <1>1, <2>1, Beginning
  <2> HIDE DEF a, b
  <2>4. \A i \in 1 .. k : a[i] = b[i]
    BY <1>1, <2>1, <2>2, <2>3
  <2>5. a = b
    BY <2>2, <2>3, <2>4, SeqEqual
  <2> QED BY <2>5 DEF a, b
<1> QED BY <1>2, <1>3, <1>4 DEF d

-----------------------------------------------------------------------------
(* The levels of a path: what the ignore files on the way to it say.       *)

IgnoreRule ==
  [base : Seq(Names), negate : BOOLEAN, dirOnly : BOOLEAN, hasSlash : BOOLEAN,
   parts : Seq({Stars} \cup SUBSET (Names \cup {Here}))]

Own(tree, d) == IF d \in DOMAIN tree.ignore THEN parseGitignoreFile(tree, d) ELSE <<>>
Levels(tree, p) == [m \in 0 .. Len(p) |-> Own(tree, SubSeq(p, 1, m))]

LEMMA OwnRules ==
  ASSUME NEW tree, IsTree(tree), NEW d \in Seq(Names)
  PROVE  /\ Own(tree, d) \in Seq(IgnoreRule)
         /\ \A i \in DOMAIN Own(tree, d) : Own(tree, d)[i].base = d
         /\ d \in DOMAIN tree.ignore /\ tree.ignore[d] = <<>> => Own(tree, d) = <<>>
<1>1. CASE d \notin DOMAIN tree.ignore
  BY <1>1 DEF Own
<1>2. CASE d \in DOMAIN tree.ignore
  <2> DEFINE lines == tree.ignore[d]
             n == Len(lines)
             rule(i) == [base |-> d, negate |-> lines[i].negate, dirOnly |-> lines[i].dirOnly,
                         hasSlash |-> lines[i].hasSlash, parts |-> lines[i].parts]
             s == [i \in DOMAIN lines |-> rule(i)]
  <2>1. lines \in Seq(IgnoreLine)
    BY <1>2 DEF IsTree
  <2>2. Own(tree, d) = s
    BY <1>2 DEF Own, parseGitignoreFile
  <2> HIDE DEF lines
  <2>3. n \in Nat /\ DOMAIN lines = 1 .. n /\ \A i \in 1 .. n : lines[i] \in IgnoreLine
    BY <2>1
  <2>4. \A i \in 1 .. n : rule(i) \in IgnoreRule /\ rule(i).base = d
    BY <2>3 DEF IgnoreLine, IgnoreRule
  <2> HIDE DEF rule, n
  <2>5. s \in [1 .. n -> IgnoreRule] /\ \A i \in 1 .. n : s[i].base = d
    BY <2>3, <2>4
  <2>6. lines = <<>> => n = 0
    BY DEF n
  <2> HIDE DEF s
  <2>7. s \in Seq(IgnoreRule) /\ DOMAIN s = 1 .. n /\ Len(s) = n
    BY <2>3, <2>5, IsSequence
  <2>8. lines = <<>> => s = <<>>
    BY <2>6, <2>7
  <2> QED BY <2>2, <2>5, <2>7, <2>8 DEF lines
<1> QED BY <1>1, <1>2

\* Every directory on the way to a path is one that may have an ignore file.
LEMMA DirectoriesAbove ==
  ASSUME NEW tree, IsTree(tree), NEW p \in DOMAIN tree.kind, NEW m \in 0 .. Len(p), m # Len(p)
  PROVE  SubSeq(p, 1, m) \in DOMAIN tree.ignore
<1>1. p \in Seq(Names)
  BY DEF IsTree
<1>2. SubSeq(p, 1, m) \in Prefixes(p) \ {p}
  BY <1>1, LevelPath
<1> QED BY <1>2 DEF IsTree

\* No rule is above the repository, nor below a directory that is read late.
NoneAstray(tree, g) ==
  \A d \in DOMAIN tree.ignore :
    tree.ignore[d] # <<>> => Under(g, d) /\ ToSet(From(g, d)) \cap Early = {}

LEMMA LevelIs ==
  ASSUME NEW tree, IsTree(tree), NEW p \in Seq(Names), NEW m \in 0 .. Len(p)
  PROVE  /\ Levels(tree, p)[m] = Own(tree, SubSeq(p, 1, m))
         /\ Levels(tree, p)[m] \in Seq(IgnoreRule)
         /\ \A i \in DOMAIN Levels(tree, p)[m] : Levels(tree, p)[m][i].base = SubSeq(p, 1, m)
<1>1. SubSeq(p, 1, m) \in Seq(Names)
  BY Beginning
<1>2. Levels(tree, p)[m] = Own(tree, SubSeq(p, 1, m))
  BY DEF Levels
<1> QED BY <1>1, <1>2, OwnRules

LEMMA NoLevelAstray ==
  ASSUME NEW tree, IsTree(tree), NEW g \in Seq(Names), NoneAstray(tree, g),
         NEW p \in Seq(Names), NEW m \in 0 .. Len(p), NEW H
  PROVE  /\ m < Len(g) => ~HitIn(Levels(tree, p)[m], H)
         /\ \A n \in Nat : Len(g) <= n /\ n < m /\ p[n + 1] \in Early => ~HitIn(Levels(tree, p)[m], H)
<1> DEFINE d == SubSeq(p, 1, m)
<1>1. d \in Seq(Names) /\ Len(d) = m /\ (\A i \in 1 .. m : d[i] = p[i]) /\ m \in Nat
      /\ Levels(tree, p)[m] = Own(tree, d)
  BY Beginning, LevelIs
<1> HIDE DEF d
<1>2. ASSUME HitIn(Own(tree, d), H) PROVE Under(g, d) /\ ToSet(From(g, d)) \cap Early = {}
  <2>1. d \in DOMAIN tree.ignore
    BY <1>2 DEF HitIn, Own
  <2>2. tree.ignore[d] # <<>>
    BY <1>1, <1>2, <2>1, OwnRules DEF HitIn
  <2> QED BY <2>1, <2>2 DEF NoneAstray
<1>3. m < Len(g) => ~HitIn(Own(tree, d), H)
  BY <1>1, <1>2, UnderIs
<1>4. ASSUME NEW n \in Nat, Len(g) <= n, n < m, p[n + 1] \in Early PROVE ~HitIn(Own(tree, d), H)
  <2> SUFFICES ASSUME HitIn(Own(tree, d), H) PROVE FALSE
    OBVIOUS
  <2> DEFINE k == Len(g)
             i == n + 1 - k
  <2>1. k \in Nat /\ i \in 1 .. m - (k + 1) + 1 /\ k + 1 + i - 1 = n + 1 /\ n + 1 \in 1 .. m
    BY <1>1, <1>4
  <2>2. \A j \in k + 1 .. m : d[j] \in Names
    BY <1>1, <2>1
  <2>3. /\ From(g, d) \in Seq(Names) /\ Len(From(g, d)) = m - (k + 1) + 1
        /\ From(g, d)[i] = d[k + 1 + i - 1]
    <3>1. k + 1 \in Int /\ m \in Int /\ k + 1 <= m
      BY <1>1, <2>1
    <3> QED BY <1>1, <2>1, <2>2, <3>1, SubSeqProperties DEF From
  <2> HIDE DEF i
  <2>4. From(g, d)[i] = p[n + 1]
    BY <1>1, <2>1, <2>3
  <2>5. i \in DOMAIN From(g, d)
    BY <2>1, <2>3
  <2>6. p[n + 1] \in ToSet(From(g, d))
    BY <2>4, <2>5 DEF ToSet
  <2> QED BY <1>2, <1>4, <2>6
<1> QED BY <1>1, <1>3, <1>4

-----------------------------------------------------------------------------
(* The matcher of the code decides as the levels do.                       *)

\* Rules that come first, though their level is the deeper one, do not matter
\* where they have nothing to say.
LEMMA AgreesLate ==
  ASSUME NEW X, NEW s \in Seq(X), NEW t \in Seq(X), NEW L, NEW H,
         NEW a \in Int, NEW c \in Int, a <= c,
         Agrees(s, L, a + 1, c, H), Agrees(t, L, a, a, H),
         \A m \in a + 1 .. c : ~HitIn(L[m], H)
  PROVE  Agrees(s \o t, L, a, c, H)
<1>1. \A k : k \in a .. c <=> k = a \/ k \in a + 1 .. c
  OBVIOUS
<1>2. ~HitIn(s, H)
  BY DEF Agrees
<1>3. ~ExcludedBy(s, H)
  BY <1>2, ExcludesIsHit
<1>4. \A m \in a + 1 .. c : ~ExcludedBy(L[m], H)
  BY ExcludesIsHit
<1>5. /\ HitIn(s \o t, H) <=> HitIn(t, H)
      /\ ExcludedBy(s \o t, H) <=> ExcludedBy(t, H)
  <2>1. ExcludedBy(t, H) => HitIn(t, H)
    BY ExcludesIsHit
  <2>2. /\ HitIn(s \o t, H) <=> HitIn(s, H) \/ HitIn(t, H)
        /\ ExcludedBy(s \o t, H)
              <=> IF HitIn(t, H) THEN ExcludedBy(t, H) ELSE ExcludedBy(s, H)
    BY LastWins
  <2> QED BY <1>2, <1>3, <2>1, <2>2
<1>6. \A k : k \in a .. a <=> k = a
  OBVIOUS
<1>7. /\ HitIn(t, H) <=> HitIn(L[a], H)
      /\ ExcludedBy(t, H) <=> ExcludedBy(L[a], H) /\ (HitIn(L[a], H) => a <= a)
  BY <1>6 DEF Agrees
<1> QED BY <1>1, <1>4, <1>5, <1>7 DEF Agrees

\* collectAncestorGitignores: the levels above the root.
LEMMA AncestorsAgree ==
  ASSUME NEW tree, IsTree(tree), NEW root \in DOMAIN tree.kind, NEW p \in Seq(Names),
         Under(root, p), NEW H
  PROVE  /\ collectAncestorGitignores(tree, root) \in Seq(IgnoreRule)
         /\ Agrees(collectAncestorGitignores(tree, root), Levels(tree, p), 0, Len(root) - 1, H)
<1> DEFINE n == Len(root)
           q == [i \in DOMAIN root |-> parseGitignoreFile(tree, SubSeq(root, 1, i - 1))]
<1>1. root \in Seq(Names) /\ n \in Nat /\ DOMAIN root = 1 .. n /\ n <= Len(p) /\ Len(p) \in Nat
      /\ root = SubSeq(p, 1, n)
  <2>1. root \in Seq(Names)
    BY DEF IsTree
  <2> QED BY <2>1, UnderIs
<1>2. ASSUME NEW i \in 1 .. n
      PROVE  /\ parseGitignoreFile(tree, SubSeq(root, 1, i - 1)) = Levels(tree, p)[i - 1]
             /\ Levels(tree, p)[i - 1] \in Seq(IgnoreRule)
  <2>1. i - 1 \in 0 .. n /\ i - 1 # n /\ i - 1 \in 0 .. Len(p) /\ n \in 0 .. Len(p)
    BY <1>1
  <2>2. SubSeq(root, 1, i - 1) \in DOMAIN tree.ignore
    BY <2>1, DirectoriesAbove
  <2>3. SubSeq(root, 1, i - 1) = SubSeq(p, 1, i - 1)
    BY <1>1, <2>1, LevelPath
  <2>4. /\ Levels(tree, p)[i - 1] = Own(tree, SubSeq(p, 1, i - 1))
        /\ Levels(tree, p)[i - 1] \in Seq(IgnoreRule)
    BY <2>1, LevelIs
  <2> QED BY <2>2, <2>3, <2>4 DEF Own
<1>3. q \in Seq(Seq(IgnoreRule)) /\ Len(q) = n /\ \A i \in DOMAIN q : q[i] = Levels(tree, p)[i - 1]
  <2>1. q \in [1 .. n -> Seq(IgnoreRule)] /\ \A i \in 1 .. n : q[i] = Levels(tree, p)[i - 1]
    BY <1>1, <1>2
  <2> HIDE DEF q, n
  <2> QED BY <1>1, <2>1, IsSequence
<1>4. collectAncestorGitignores(tree, root) = FlattenSeq(q)
  BY DEF collectAncestorGitignores
<1> HIDE DEF q
<1>5. \A i \in DOMAIN q : 0 + i - 1 = i - 1
  BY <1>3
<1>6. \A i \in DOMAIN q : q[i] = Levels(tree, p)[0 + i - 1]
  BY <1>3, <1>5
<1>7. 0 + Len(q) - 1 = n - 1
  BY <1>1, <1>3
<1>8. FlattenSeq(q) \in Seq(IgnoreRule)
      /\ Agrees(FlattenSeq(q), Levels(tree, p), 0, 0 + Len(q) - 1, H)
  <2> DEFINE X == IgnoreRule
             L == Levels(tree, p)
             a == 0
  <2>1. q \in Seq(Seq(X)) /\ a \in Int /\ \A i \in DOMAIN q : q[i] = L[a + i - 1]
    BY <1>3, <1>6
  <2> HIDE DEF X, L, a
  <2>2. FlattenSeq(q) \in Seq(X) /\ Agrees(FlattenSeq(q), L, a, a + Len(q) - 1, H)
    BY <2>1, FlattenAgrees
  <2> QED BY <2>2 DEF X, L, a
<1> QED BY <1>4, <1>7, <1>8

\* What the walk reads from a level on: its own rules, before or after what it
\* reads below.
Walked(tree, p, n, below) ==
  IF n < Len(p) /\ p[n + 1] \in Early THEN below \o Own(tree, SubSeq(p, 1, n))
  ELSE Own(tree, SubSeq(p, 1, n)) \o below

LEMMA MatcherIs ==
  ASSUME NEW tree, IsTree(tree), NEW p \in Seq(Names), NEW root \in Seq(Names), Under(root, p)
  PROVE  \E F : /\ F[Len(p) + 1] = <<>>
                /\ \A n \in 0 .. Len(p) : F[n] = Walked(tree, p, n, F[n + 1])
                /\ NewGitignoreMatcher(tree, root, p)
                     = collectAncestorGitignores(tree, root) \o F[Len(root)]
<1> DEFINE N == Len(p)
           K == N + 1
           V == Seq(IgnoreRule)
           G == [x \in (1 .. K) \X V |-> Walked(tree, p, K - x[1], x[2])]
           Body(f) == [n \in 0 .. Len(p) + 1 |->
                        IF n > Len(p) THEN <<>>
                        ELSE IF n < Len(p) /\ p[n + 1] \in Early
                             THEN f[n + 1] \o Own(tree, SubSeq(p, 1, n))
                             ELSE Own(tree, SubSeq(p, 1, n)) \o f[n + 1]]
           F == CHOOSE f : f = Body(f)
<1>1. NewGitignoreMatcher(tree, root, p) = collectAncestorGitignores(tree, root) \o F[Len(root)]
  BY DEF NewGitignoreMatcher, Own
<1>2. \A f, n : n \in 0 .. N + 1 => Body(f)[n] = IF n > N THEN <<>> ELSE Walked(tree, p, n, f[n + 1])
  BY DEF Walked
<1>3. \A f : DOMAIN Body(f) = 0 .. N + 1 /\ Body(f) = [n \in 0 .. N + 1 |-> Body(f)[n]]
  OBVIOUS
<1>n. N \in Nat /\ K \in Nat
  OBVIOUS
<1>k. K \in Nat
  BY <1>n
<1>v. <<>> \in V
  OBVIOUS
<1>4. \A n \in 0 .. N : \A v \in V : Walked(tree, p, n, v) \in V
  <2> SUFFICES ASSUME NEW n \in 0 .. N, NEW v \in V PROVE Walked(tree, p, n, v) \in V
    OBVIOUS
  <2>1. Own(tree, SubSeq(p, 1, n)) \in V
    BY Beginning, OwnRules
  <2> QED BY <2>1, Concatenation DEF Walked
<1> HIDE DEF Body
<1>5. G \in [(1 .. K) \X V -> V]
  <2>1. \A k \in 1 .. K : K - k \in 0 .. N
    BY <1>n
  <2> HIDE DEF V, N, K
  <2> QED BY <1>4, <2>1
<1>6. \E f : f = Body(f)
  <2>1. Iterated(V, K, <<>>, G)
    <3> HIDE DEF G, K, V
    <3> QED BY <1>k, <1>v, <1>5, Iteration
  <2> HIDE DEF G, V
  <2> PICK h \in [0 .. K -> V] : h[0] = <<>> /\ \A k \in 1 .. K : h[k] = G[<<k, h[k - 1]>>]
    BY <2>1 DEF Iterated
  <2>2. \A k \in 1 .. K : h[k] = Walked(tree, p, K - k, h[k - 1])
    <3>1. \A k \in 1 .. K : <<k, h[k - 1]>> \in (1 .. K) \X V
      <4> HIDE DEF K
      <4> QED BY <1>k
    <3> QED BY <3>1 DEF G
  <2> DEFINE f == [n \in 0 .. N + 1 |-> h[K - n]]
  <2>3. ASSUME NEW n \in 0 .. N + 1
        PROVE  f[n] = IF n > N THEN <<>> ELSE Walked(tree, p, n, f[n + 1])
    <3>1. CASE n > N
      <4>1. K - n = 0
        BY <1>n, <3>1
      <4> QED BY <3>1, <4>1
    <3>2. CASE ~(n > N)
      <4>1. K - n \in 1 .. K /\ K - (K - n) = n /\ n + 1 \in 0 .. N + 1 /\ K - (n + 1) = (K - n) - 1
        BY <1>n, <3>2
      <4> HIDE DEF K, N
      <4>2. f[n] = h[K - n] /\ f[n + 1] = h[(K - n) - 1]
        BY <4>1
      <4>3. h[K - n] = Walked(tree, p, K - (K - n), h[(K - n) - 1])
        BY <2>2, <4>1
      <4> QED BY <3>2, <4>1, <4>2, <4>3
    <3> QED BY <3>1, <3>2
  <2>4. \A n \in 0 .. N + 1 : f[n] = Body(f)[n]
    <3> HIDE DEF f, N
    <3> QED BY <1>2, <2>3
  <2>5. DOMAIN f = 0 .. N + 1 /\ f = [n \in 0 .. N + 1 |-> f[n]]
    OBVIOUS
  <2> HIDE DEF f, N
  <2>6. f = Body(f)
    BY <1>3, <2>4, <2>5
  <2> QED BY <2>6
<1>7. F = Body(F)
  BY <1>6
<1> HIDE DEF F
<1>8. \A n \in 0 .. N + 1 : F[n] = IF n > N THEN <<>> ELSE Walked(tree, p, n, F[n + 1])
  <2> HIDE DEF N
  <2> QED BY <1>2, <1>7
<1>9. F[N + 1] = <<>> /\ \A n \in 0 .. N : F[n] = Walked(tree, p, n, F[n + 1])
  <2>1. N + 1 \in 0 .. N + 1 /\ N + 1 > N /\ \A n \in 0 .. N : n \in 0 .. N + 1 /\ ~(n > N)
    BY <1>n
  <2> HIDE DEF N
  <2> QED BY <1>8, <2>1
<1> QED BY <1>1, <1>9

\* From the root's level down, the walk decides as the levels do.
LEMMA WalkAgrees ==
  ASSUME NEW tree, IsTree(tree), NEW g \in Seq(Names), NoneAstray(tree, g),
         NEW p \in Seq(Names), NEW a \in 0 .. Len(p), Len(g) <= a, NEW H, NEW F,
         F[Len(p) + 1] = <<>>, \A n \in 0 .. Len(p) : F[n] = Walked(tree, p, n, F[n + 1])
  PROVE  F[a] \in Seq(IgnoreRule) /\ Agrees(F[a], Levels(tree, p), a, Len(p), H)
<1> DEFINE N == Len(p)
           L == Levels(tree, p)
           X == IgnoreRule
           Good(n) == F[n] \in Seq(X) /\ Agrees(F[n], L, n, N, H)
           M == {k \in Nat : k <= N + 1 - a => Good(N + 1 - k)}
<1>n. N \in Nat /\ Len(g) \in Nat
  OBVIOUS
<1>0. Good(N + 1)
  <2>1. N + 1 \in Int /\ N \in Int /\ N < N + 1
    BY <1>n
  <2> HIDE DEF N, L, X
  <2>2. Agrees(<<>>, L, N + 1, N, H)
    BY <2>1, AgreesWithNone
  <2> QED BY <2>2 DEF N
<1>1. ASSUME NEW n \in 0 .. N, a <= n, Good(n + 1) PROVE Good(n)
  <2> DEFINE own == Own(tree, SubSeq(p, 1, n))
  <2>1. own \in Seq(X) /\ L[n] = own
    BY LevelIs
  <2>2. F[n] = IF n < N /\ p[n + 1] \in Early THEN F[n + 1] \o own ELSE own \o F[n + 1]
    BY DEF Walked
  <2>3. n \in Int /\ N \in Int /\ n <= n + 1 /\ n <= N
    BY <1>n
  <2>4. CASE n < N /\ p[n + 1] \in Early
    <3>1. ASSUME NEW m \in n + 1 .. N PROVE ~HitIn(L[m], H)
      <4>1. m \in 0 .. N /\ n < m /\ n \in Nat /\ Len(g) <= n
        BY <1>n, <1>1
      <4> QED BY <2>4, <4>1, NoLevelAstray
    <3> HIDE DEF own, L, X, N
    <3>2. Agrees(own, L, n, n, H)
      BY <2>1, <2>3, AgreesWithOne
    <3>3. F[n + 1] \o own \in Seq(X)
      BY <1>1, <2>1, Concatenation
    <3>4. Agrees(F[n + 1] \o own, L, n, N, H)
      BY <1>1, <2>1, <2>3, <3>1, <3>2, AgreesLate
    <3> QED BY <2>2, <2>4, <3>3, <3>4
  <2>5. CASE ~(n < N /\ p[n + 1] \in Early)
    <3> HIDE DEF own, L, X, N
    <3>2. Agrees(own, L, n, n, H)
      BY <2>1, <2>3, AgreesWithOne
    <3>3. own \o F[n + 1] \in Seq(X)
      BY <1>1, <2>1, Concatenation
    <3>4. Agrees(own \o F[n + 1], L, n, N, H)
      BY <1>1, <2>1, <2>3, <3>2, AgreesJoined
    <3> QED BY <2>2, <2>5, <3>3, <3>4
  <2> QED BY <2>4, <2>5
<1> HIDE DEF Good
<1>2. 0 \in M
  <2>1. N + 1 - 0 = N + 1
    BY <1>n
  <2> HIDE DEF N
  <2> QED BY <1>0, <2>1
<1>3. ASSUME NEW k \in Nat, k \in M PROVE k + 1 \in M
  <2> SUFFICES ASSUME k + 1 <= N + 1 - a PROVE Good(N + 1 - (k + 1))
    OBVIOUS
  <2> DEFINE n == N + 1 - (k + 1)
  <2>1. n \in 0 .. N /\ a <= n /\ n + 1 = N + 1 - k /\ k <= N + 1 - a
    BY <1>n
  <2> HIDE DEF n, N
  <2>2. Good(n + 1)
    BY <1>3, <2>1
  <2>3. Good(n)
    BY <1>1, <2>1, <2>2
  <2> QED BY <2>3 DEF n
<1>4. Nat \subseteq M
  <2> HIDE DEF M
  <2> QED BY <1>2, <1>3, NatInd
<1>5. Good(a)
  <2>1. N + 1 - a \in Nat /\ N + 1 - (N + 1 - a) = a
    BY <1>n
  <2> HIDE DEF N
  <2> QED BY <1>4, <2>1
<1> QED BY <1>5 DEF Good

LEMMA MatcherAgrees ==
  ASSUME NEW tree, IsTree(tree), NEW g \in Seq(Names), NoneAstray(tree, g),
         NEW root \in DOMAIN tree.kind, Under(g, root), NEW p \in Seq(Names), Under(root, p), NEW H
  PROVE  LET s == NewGitignoreMatcher(tree, root, p)
         IN  s \in Seq(IgnoreRule) /\ Agrees(s, Levels(tree, p), 0, Len(p), H)
<1> DEFINE n == Len(root)
           s == collectAncestorGitignores(tree, root)
           L == Levels(tree, p)
<1>1. root \in Seq(Names) /\ n \in Nat /\ Len(p) \in Nat /\ n <= Len(p) /\ Len(g) <= n
  <2>1. root \in Seq(Names)
    BY DEF IsTree
  <2> QED BY <2>1, UnderIs
<1> PICK F : /\ F[Len(p) + 1] = <<>>
             /\ \A i \in 0 .. Len(p) : F[i] = Walked(tree, p, i, F[i + 1])
             /\ NewGitignoreMatcher(tree, root, p) = s \o F[n]
  BY <1>1, MatcherIs
<1>2. s \in Seq(IgnoreRule) /\ Agrees(s, L, 0, n - 1, H)
  BY AncestorsAgree
<1>3. F[n] \in Seq(IgnoreRule) /\ Agrees(F[n], L, n, Len(p), H)
  <2>1. n \in 0 .. Len(p)
    BY <1>1
  <2> QED BY <1>1, <2>1, WalkAgrees
<1>4. s \o F[n] \in Seq(IgnoreRule)
  BY <1>2, <1>3, Concatenation
<1>5. Agrees(s \o F[n], L, 0, Len(p), H)
  <2> DEFINE a == 0
             b == n - 1
             t == F[n]
             X == IgnoreRule
             c == Len(p)
  <2>1. a \in Int /\ b \in Int /\ c \in Int /\ a <= b + 1 /\ b <= c /\ b + 1 = n
    BY <1>1
  <2>2. s \in Seq(X) /\ t \in Seq(X) /\ Agrees(s, L, a, b, H) /\ Agrees(t, L, b + 1, c, H)
    BY <1>2, <1>3, <2>1
  <2> HIDE DEF a, b, s, t, c, L, X
  <2>3. Agrees(s \o t, L, a, c, H)
    BY <2>1, <2>2, AgreesJoined
  <2> QED BY <2>3 DEF a, c, t
<1> QED BY <1>4, <1>5

-----------------------------------------------------------------------------
(* What the code ignores is what Git excludes.                              *)

CodeHits(tree, p) ==
  {r \in IgnoreRule : (r.dirOnly => tree.kind[p] \in {"dir", "locked"}) /\ matchRule(r, p)}
GitHits(tree, p) ==
  {r \in IgnoreRule : (r.dirOnly => tree.kind[p] \in {"dir", "locked"}) /\ GitMatchesRule(r, p)}

\* Where the patterns are read as Git does, in a tree with one repository.
OneRepository(tree, g) == IsTree(tree) /\ tree.git = {g} /\ ReadsAsGit(tree)

LEMMA RepositoryIs ==
  ASSUME NEW tree, NEW g, OneRepository(tree, g)
  PROVE  /\ g \in DOMAIN tree.ignore /\ g \in DOMAIN tree.kind /\ g \in Seq(Names)
         /\ NoneAstray(tree, g)
<1>1. g \in DOMAIN tree.ignore /\ g \in DOMAIN tree.kind /\ g \in Seq(Names)
  BY DEF OneRepository, IsTree
<1>2. NoneAstray(tree, g)
  BY DEF OneRepository, ReadsAsGit, NoneAstray
<1> QED BY <1>1, <1>2

\* A rule of a level hits for the code where it hits for Git.
LEMMA HitsAgree ==
  ASSUME NEW tree, NEW g, OneRepository(tree, g), NEW p \in DOMAIN tree.kind, NEW m \in 0 .. Len(p)
  PROVE  /\ \A i \in DOMAIN Levels(tree, p)[m] :
                Levels(tree, p)[m][i] \in CodeHits(tree, p) <=> Levels(tree, p)[m][i] \in GitHits(tree, p)
         /\ m = Len(p) => ~HitIn(Levels(tree, p)[m], CodeHits(tree, p))
<1> DEFINE d == SubSeq(p, 1, m)
           s == Levels(tree, p)[m]
<1>1. IsTree(tree) /\ p \in Seq(Names) /\ ReadsAsGit(tree)
  BY DEF OneRepository, IsTree
<1>2. /\ s = Own(tree, d) /\ s \in Seq(IgnoreRule) /\ Under(d, p) /\ (d = p <=> m = Len(p))
      /\ \A i \in DOMAIN s : s[i].base = d /\ s[i] \in IgnoreRule
  BY <1>1, LevelIs, LevelPath
<1> HIDE DEF s, d
<1>3. ASSUME NEW i \in DOMAIN s PROVE matchRule(s[i], p) <=> GitMatchesRule(s[i], p)
  <2>1. d \in DOMAIN tree.ignore /\ s = parseGitignoreFile(tree, d)
    BY <1>2 DEF Own
  <2>2. s[i] \in ToSet(parseGitignoreFile(tree, d))
    BY <2>1 DEF ToSet
  <2> QED BY <1>1, <1>2, <2>1, <2>2 DEF ReadsAsGit
<1>4. \A i \in DOMAIN s : s[i] \in CodeHits(tree, p) <=> s[i] \in GitHits(tree, p)
  BY <1>2, <1>3 DEF CodeHits, GitHits
<1>5. m = Len(p) => ~HitIn(s, CodeHits(tree, p))
  BY <1>2, <1>3 DEF HitIn, CodeHits, GitMatchesRule
<1> QED BY <1>4, <1>5 DEF s

LEMMA IgnoredIs ==
  ASSUME NEW tree, NEW root, NEW p, NewGitignoreMatcher(tree, root, p) \in Seq(IgnoreRule)
  PROVE  isGitignored(tree, root, p)
            <=> ExcludedBy(NewGitignoreMatcher(tree, root, p), CodeHits(tree, p))
<1> DEFINE s == NewGitignoreMatcher(tree, root, p)
           isDir == tree.kind[p] \in {"dir", "locked"}
<1>1. isGitignored(tree, root, p) <=> LastExcludes(s,
            {i \in DOMAIN s : (s[i].dirOnly => isDir) /\ matchRule(s[i], p)})
  BY DEF isGitignored, IsIgnored
<1>2. s \in Seq(IgnoreRule)
  OBVIOUS
<1> HIDE DEF s
<1>3. {i \in DOMAIN s : (s[i].dirOnly => isDir) /\ matchRule(s[i], p)}
        = {i \in DOMAIN s : s[i] \in CodeHits(tree, p)}
  BY <1>2 DEF CodeHits
<1>4. isGitignored(tree, root, p) <=> ExcludedBy(s, CodeHits(tree, p))
  BY <1>1, <1>3 DEF ExcludedBy
<1> QED BY <1>4 DEF s

\* The repository of what lies strictly below it.
LEMMA RepositoryOf ==
  ASSUME NEW tree, NEW g, OneRepository(tree, g), NEW p \in DOMAIN tree.kind, Under(g, p), p # g
  PROVE  Repository(tree, p) = g
<1>1. g \in Seq(Names) /\ p \in Seq(Names) /\ tree.git = {g}
  BY RepositoryIs DEF OneRepository, IsTree
<1>2. g \in Prefixes(p) \ {p}
  BY <1>1, PrefixesAre
<1>3. {d \in Prefixes(p) \ {p} : d \in tree.git} = {g}
  BY <1>1, <1>2
<1>4. Len(g) \in Nat
  BY <1>1
<1>5. gitProjectRoot(tree, p) = {g}
  BY <1>3, <1>4 DEF gitProjectRoot
<1> QED BY <1>5 DEF Repository

LEMMA GitAgrees ==
  ASSUME NEW tree, NEW g, OneRepository(tree, g), NEW p \in DOMAIN tree.kind, Under(g, p), p # g
  PROVE  \E s \in Seq(IgnoreRule) :
            /\ GitExcludes(tree, p) <=> ExcludedBy(s, GitHits(tree, p))
            /\ Agrees(s, Levels(tree, p), Len(g), Len(p) - 1, GitHits(tree, p))
<1> DEFINE k == Len(g)
           n == Len(p) - k
           L == Levels(tree, p)
           q == [i \in 1 .. n |-> parseGitignoreFile(tree, SubSeq(p, 1, k + i - 1))]
           s == FlattenSeq(q)
           H == GitHits(tree, p)
           isDir == tree.kind[p] \in {"dir", "locked"}
<1>1. IsTree(tree) /\ g \in Seq(Names) /\ p \in Seq(Names) /\ Repository(tree, p) = g
  BY RepositoryIs, RepositoryOf DEF OneRepository, IsTree
<1>2. k \in Nat /\ Len(p) \in Nat /\ n \in Nat
  BY <1>1, UnderIs
<1>3. ASSUME NEW i \in 1 .. n
      PROVE  /\ parseGitignoreFile(tree, SubSeq(p, 1, k + i - 1)) = L[k + i - 1]
             /\ L[k + i - 1] \in Seq(IgnoreRule)
  <2> DEFINE m == k + i - 1
  <2>1. m \in 0 .. Len(p) /\ m # Len(p)
    BY <1>2
  <2> HIDE DEF m
  <2>2. SubSeq(p, 1, m) \in DOMAIN tree.ignore
    BY <1>1, <2>1, DirectoriesAbove
  <2>3. L[m] = Own(tree, SubSeq(p, 1, m)) /\ L[m] \in Seq(IgnoreRule)
    BY <1>1, <2>1, LevelIs
  <2> QED BY <2>2, <2>3 DEF Own, m
<1>4. q \in Seq(Seq(IgnoreRule)) /\ Len(q) = n /\ \A i \in DOMAIN q : q[i] = L[k + i - 1]
  <2>1. q \in [1 .. n -> Seq(IgnoreRule)] /\ \A i \in 1 .. n : q[i] = L[k + i - 1]
    BY <1>3
  <2> HIDE DEF q, n, L
  <2> QED BY <1>2, <2>1, IsSequence
<1>5. GitExcludes(tree, p) <=> LastExcludes(s, {i \in DOMAIN s :
            /\ s[i].dirOnly => isDir
            /\ GitMatchesRule(s[i], p)})
  BY <1>1 DEF GitExcludes
<1> HIDE DEF q
<1>6. s \in Seq(IgnoreRule) /\ Agrees(s, L, k, k + Len(q) - 1, H)
  <2> DEFINE X == IgnoreRule
  <2>1. q \in Seq(Seq(X)) /\ k \in Int
    BY <1>2, <1>4
  <2> HIDE DEF X, L, k, H
  <2>2. FlattenSeq(q) \in Seq(X) /\ Agrees(FlattenSeq(q), L, k, k + Len(q) - 1, H)
    BY <1>4, <2>1, FlattenAgrees
  <2> QED BY <2>2 DEF X
<1>7. k + Len(q) - 1 = Len(p) - 1
  BY <1>2, <1>4
<1> HIDE DEF s, k
<1>8. {i \in DOMAIN s : (s[i].dirOnly => isDir) /\ GitMatchesRule(s[i], p)}
        = {i \in DOMAIN s : s[i] \in H}
  BY <1>6 DEF GitHits
<1>9. GitExcludes(tree, p) <=> ExcludedBy(s, H)
  BY <1>5, <1>8 DEF ExcludedBy
<1>10. Agrees(s, L, k, Len(p) - 1, H)
  BY <1>6, <1>7
<1> QED BY <1>6, <1>9, <1>10 DEF k

\* The code ignores a path below the directory it starts from exactly when Git
\* excludes it, and never the repository itself.
THEOREM IgnoresAsGit ==
  ASSUME NEW tree, NEW g, OneRepository(tree, g), NEW root \in DOMAIN tree.kind, Under(g, root),
         NEW p \in DOMAIN tree.kind, Under(root, p)
  PROVE  isGitignored(tree, root, p) <=> p # g /\ GitExcludes(tree, p)
<1> DEFINE s == NewGitignoreMatcher(tree, root, p)
           L == Levels(tree, p)
           G == CodeHits(tree, p)
           H == GitHits(tree, p)
           N == Len(p)
           k == Len(g)
<1>1. IsTree(tree) /\ g \in Seq(Names) /\ p \in Seq(Names) /\ root \in Seq(Names)
      /\ NoneAstray(tree, g)
  BY RepositoryIs DEF OneRepository, IsTree
<1>2. s \in Seq(IgnoreRule) /\ Agrees(s, L, 0, N, G)
  BY <1>1, MatcherAgrees
<1>3. isGitignored(tree, root, p) <=> ExcludedBy(s, G)
  BY <1>2, IgnoredIs
<1>4. Under(g, p) /\ N \in Nat /\ k \in Nat /\ k <= N /\ (k = N => p = g)
  <2>1. Under(g, p)
    BY <1>1, UnderOrder
  <2> QED BY <1>1, <2>1, UnderIs
<1>5. ~HitIn(L[N], G) /\ \A m \in 0 .. N : m < k => ~HitIn(L[m], G)
  <2>1. N \in 0 .. N
    BY <1>4
  <2> QED BY <1>1, <2>1, HitsAgree, NoLevelAstray
<1>6. CASE p = g
  <2>1. \A m \in 0 .. N : ~HitIn(L[m], G)
    <3>1. k = N /\ \A m \in 0 .. N : m < k \/ m = N
      BY <1>4, <1>6
    <3> QED BY <1>5, <3>1
  <2>2. \A m \in 0 .. N : ~ExcludedBy(L[m], G)
    BY <2>1, ExcludesIsHit
  <2>3. ~ExcludedBy(s, G)
    <3> HIDE DEF s, L, G, N
    <3> QED BY <1>2, <2>2 DEF Agrees
  <2> QED BY <1>3, <1>6, <2>3
<1>7. CASE p # g
  <2> PICK t \in Seq(IgnoreRule) :
        (GitExcludes(tree, p) <=> ExcludedBy(t, H)) /\ Agrees(t, L, k, N - 1, H)
    BY <1>4, <1>7, GitAgrees
  <2>1. \A m \in k .. N - 1 : \A i \in DOMAIN L[m] : L[m][i] \in G <=> L[m][i] \in H
    <3>1. \A m \in k .. N - 1 : m \in 0 .. N
      BY <1>4
    <3> QED BY <3>1, HitsAgree
  <2>2. \A m \in 0 .. N : m \notin k .. N - 1 => ~HitIn(L[m], G)
    <3>1. \A m \in 0 .. N : m \notin k .. N - 1 => m < k \/ m = N
      BY <1>4
    <3> QED BY <1>5, <3>1
  <2>3. 0 \in Int /\ k \in Int /\ N - 1 \in Int /\ N \in Int /\ 0 <= k /\ N - 1 <= N
    BY <1>4
  <2> DEFINE a == 0
             c == N - 1
  <2>4. /\ a \in Int /\ c \in Int /\ k \in Int /\ N \in Int /\ a <= k /\ c <= N
        /\ Agrees(s, L, a, N, G) /\ Agrees(t, L, k, c, H)
        /\ \A m \in k .. c : \A i \in DOMAIN L[m] : L[m][i] \in G <=> L[m][i] \in H
        /\ \A m \in a .. N : m \notin k .. c => ~HitIn(L[m], G)
    BY <1>2, <2>1, <2>2, <2>3
  <2> HIDE DEF a, c, s, L, G, H, N, k
  <2>5. ExcludedBy(s, G) <=> ExcludedBy(t, H)
    BY <2>4, SameDecision
  <2> QED BY <1>3, <1>7, <2>5 DEF G
<1> QED BY <1>6, <1>7

-----------------------------------------------------------------------------
(* What the walks find is what Git keeps.                                  *)

LEMMA NeverIgnored ==
  ASSUME NEW tree, NEW g, OneRepository(tree, g), NEW root \in DOMAIN tree.kind, Under(g, root),
         NEW p \in DOMAIN tree.kind, NEW q \in Prefixes(p), Under(root, q)
  PROVE  isGitignored(tree, root, q) <=> q \notin tree.git /\ GitExcludes(tree, q)
<1>1. q \in DOMAIN tree.kind
  BY DEF OneRepository, IsTree
<1>2. q \notin tree.git <=> q # g
  BY DEF OneRepository
<1> QED BY <1>1, <1>2, IgnoresAsGit

\* A path begins with itself.
LEMMA OwnPrefix ==
  ASSUME NEW tree, IsTree(tree), NEW p \in DOMAIN tree.kind
  PROVE  p \in Prefixes(p)
<1>1. p \in Seq(Names) /\ Len(p) \in Nat
  BY DEF IsTree
<1> QED BY <1>1, PrefixesAre, UnderIs

LEMMA WalkIs ==
  ASSUME NEW c, NEW g, OneRepository(c.tree, g), c.args # <<>>,
         NEW dir \in DOMAIN c.tree.kind, Under(g, dir)
  PROVE  walkDir(c.tree, dir, resolveOpts(c)) = {q \in Kept(c, dir) : Last(q) \in Markdown}
<1> DEFINE tree == c.tree
           opts == resolveOpts(c)
<1>1. IsTree(tree)
  BY DEF OneRepository
<1>2. ASSUME NEW p \in DOMAIN tree.kind, Under(dir, p)
      PROVE  /\ Visited(tree, dir, p, opts.gitignore)
             /\ opts.gitignore => ~isGitignored(tree, dir, p)
             <=>
             (opts.gitignore => \A q \in Prefixes(p) : Under(dir, q) /\ q \notin tree.git =>
                                    ~GitExcludes(tree, q))
  <2>1. \A q \in Prefixes(p) : Under(dir, q) =>
            (isGitignored(tree, dir, q) <=> q \notin tree.git /\ GitExcludes(tree, q))
    BY <1>2, NeverIgnored
  <2>2. p \in Prefixes(p)
    BY <1>1, OwnPrefix
  <2>3. Visited(tree, dir, p, opts.gitignore) <=>
            (opts.gitignore => \A q \in Prefixes(p) \ {p} : Under(dir, q) => ~isGitignored(tree, dir, q))
    BY <1>2 DEF Visited
  <2> HIDE DEF tree, opts
  <2> QED BY <1>2, <2>1, <2>2, <2>3
<1>3. \A p : p \in walkDir(tree, dir, opts) <=>
            /\ p \in DOMAIN tree.kind /\ Under(dir, p)
            /\ Visited(tree, dir, p, opts.gitignore) /\ Readable(tree, p, opts.follow)
            /\ opts.gitignore => ~isGitignored(tree, dir, p)
            /\ Last(p) \in Markdown
  BY DEF walkDir, Visited
<1>4. \A p : p \in Kept(c, dir) <=>
            /\ p \in DOMAIN tree.kind /\ Under(dir, p) /\ Readable(tree, p, opts.follow)
            /\ opts.gitignore => \A q \in Prefixes(p) : Under(dir, q) /\ q \notin tree.git =>
                                    ~GitExcludes(tree, q)
  BY DEF Kept
<1> HIDE DEF tree, opts
<1>5. walkDir(tree, dir, opts) = {q \in Kept(c, dir) : Last(q) \in Markdown}
  BY <1>2, <1>3, <1>4
<1> QED BY <1>5 DEF tree, opts

LEMMA DiscoverIs ==
  ASSUME NEW c, NEW g, OneRepository(c.tree, g), c.args = <<>>,
         c.cwd \in DOMAIN c.tree.ignore, Under(g, c.cwd), NEW files
  PROVE  Discover(c.tree, c.cwd, files, resolveOpts(c)) = {q \in Kept(c, c.cwd) : Last(q) \in files}
<1> DEFINE tree == c.tree
           opts == resolveOpts(c)
           dir == c.cwd
<1>1. IsTree(tree) /\ dir \in DOMAIN tree.kind /\ ~Readable(tree, dir, opts.follow)
  BY DEF OneRepository, IsTree, Readable
<1>2. ASSUME NEW p \in DOMAIN tree.kind, Under(dir, p), p # dir
      PROVE  /\ DiscoverVisits(tree, dir, p, opts.gitignore)
             /\ opts.gitignore => ~isGitignored(tree, dir, p)
             <=>
             (opts.gitignore => \A q \in Prefixes(p) : Under(dir, q) /\ q \notin tree.git /\ q # dir =>
                                    ~GitExcludes(tree, q))
  <2>1. \A q \in Prefixes(p) : Under(dir, q) =>
            (isGitignored(tree, dir, q) <=> q \notin tree.git /\ GitExcludes(tree, q))
    BY <1>1, <1>2, NeverIgnored
  <2>2. p \in Prefixes(p)
    BY <1>1, OwnPrefix
  <2>3. DiscoverVisits(tree, dir, p, opts.gitignore) <=>
            (opts.gitignore =>
                \A q \in Prefixes(p) \ {p, dir} : Under(dir, q) => ~isGitignored(tree, dir, q))
    BY <1>2 DEF DiscoverVisits
  <2> HIDE DEF tree, opts, dir
  <2> QED BY <1>2, <2>1, <2>2, <2>3
<1>3. \A p : p \in Discover(tree, dir, files, opts) <=>
            /\ p \in DOMAIN tree.kind /\ Under(dir, p) /\ p # dir
            /\ DiscoverVisits(tree, dir, p, opts.gitignore) /\ Readable(tree, p, opts.follow)
            /\ opts.gitignore => ~isGitignored(tree, dir, p)
            /\ Last(p) \in files
  BY DEF Discover, DiscoverVisits
<1>4. \A p : p \in Kept(c, dir) <=>
            /\ p \in DOMAIN tree.kind /\ Under(dir, p) /\ Readable(tree, p, opts.follow)
            /\ opts.gitignore => \A q \in Prefixes(p) : Under(dir, q) /\ q \notin tree.git /\ q # dir =>
                                    ~GitExcludes(tree, q)
  BY DEF Kept
<1> HIDE DEF tree, opts, dir
<1>5. Discover(tree, dir, files, opts) = {q \in Kept(c, dir) : Last(q) \in files}
  BY <1>1, <1>2, <1>3, <1>4
<1> QED BY <1>5 DEF tree, opts, dir

-----------------------------------------------------------------------------
(* What an argument stands for.                                            *)

\* What a step adds to the paths seen, unless it fails.
Adds(v, w, S) == ~w.failed => ~v.failed /\ \A x : x \in w.seen <=> x \in v.seen \/ x \in S

\* The directories that are links on the way to a path, and before ".." takes
\* any of them back, are those that hasSymlinkAncestor looks for.
LinksAreSeen(c, arg) ==
  \A n \in 1 .. Len(arg.segs) - 1 :
    LET q == Abs(c.cwd, [arg EXCEPT !.segs = SubSeq(arg.segs, 1, n)])
    IN arg.segs[n] # Up /\ q \in DOMAIN c.tree.kind /\ c.tree.kind[q] = "dirlink"
          => hasSymlinkAncestor(c.tree, c.cwd, arg)

Exists(c, arg) == Abs(c.cwd, arg) \in DOMAIN c.tree.kind /\ Leads(c.tree, c.cwd, arg)

\* A directory that is named lies in the repository, and a match of a glob exists,
\* or is below a link.
IsClear(c, g, arg, globbed) ==
  /\ LinksAreSeen(c, arg)
  /\ globbed => Exists(c, arg) \/ hasSymlinkAncestor(c.tree, c.cwd, arg)
  /\ Exists(c, arg) /\ c.tree.kind[Abs(c.cwd, arg)] = "dir" => Under(g, Abs(c.cwd, arg))

\* A path that exists is reached unless a link is on the way, or it is one.
LEMMA ReachedIs ==
  ASSUME NEW c, NEW arg \in Spellings, LinksAreSeen(c, arg)
  PROVE  /\ hasSymlinkAncestor(c.tree, c.cwd, arg) => ~Reached(c, arg)
         /\ /\ Exists(c, arg) /\ ~hasSymlinkAncestor(c.tree, c.cwd, arg)
            /\ c.tree.kind[Abs(c.cwd, arg)] # "dirlink"
            => Reached(c, arg)
<1> DEFINE N == Len(arg.segs)
           way(n) == Abs(c.cwd, [arg EXCEPT !.segs = SubSeq(arg.segs, 1, n)])
<1>1. arg.segs \in Seq(Names \cup {Up}) /\ N \in Nat /\ DOMAIN arg.segs = 1 .. N
  BY DEF Spellings
<1>2. way(N) = Abs(c.cwd, arg)
  <2>1. SubSeq(arg.segs, 1, N) = arg.segs
    BY <1>1, SubSeqFull
  <2>2. [arg EXCEPT !.segs = arg.segs] = arg
    BY DEF Spellings
  <2> QED BY <2>1, <2>2
<1>3. Reached(c, arg) <=> \A n \in 1 .. N : arg.segs[n] # Up =>
                                way(n) \in DOMAIN c.tree.kind /\ c.tree.kind[way(n)] # "dirlink"
  BY <1>1 DEF Reached
<1>4. hasSymlinkAncestor(c.tree, c.cwd, arg) => \E n \in 1 .. N - 1 :
        arg.segs[n] # Up /\ way(n) \in DOMAIN c.tree.kind /\ c.tree.kind[way(n)] = "dirlink"
  BY DEF hasSymlinkAncestor
<1>5. Leads(c.tree, c.cwd, arg) => \A n \in 1 .. N - 1 : arg.segs[n] # Up => way(n) \in DOMAIN c.tree.kind
  BY DEF Leads
<1>6. \A n \in 1 .. N - 1 : arg.segs[n] # Up /\ way(n) \in DOMAIN c.tree.kind
            /\ c.tree.kind[way(n)] = "dirlink" => hasSymlinkAncestor(c.tree, c.cwd, arg)
  BY DEF LinksAreSeen
<1>7. \A n \in 1 .. N - 1 : n \in 1 .. N
  BY <1>1
<1>8. \A n \in 1 .. N : n \in 1 .. N - 1 \/ n = N
  BY <1>1
<1> HIDE DEF way, N
<1>9. hasSymlinkAncestor(c.tree, c.cwd, arg) => ~Reached(c, arg)
  BY <1>3, <1>4, <1>7
<1>10. ASSUME Exists(c, arg), ~hasSymlinkAncestor(c.tree, c.cwd, arg),
              c.tree.kind[Abs(c.cwd, arg)] # "dirlink"
       PROVE  Reached(c, arg)
  BY <1>2, <1>3, <1>5, <1>6, <1>8, <1>10 DEF Exists
<1> QED BY <1>9, <1>10

\* A directory that cannot be read ends a walk that starts from it.
LEMMA LockedFails ==
  ASSUME NEW tree, IsTree(tree), NEW p \in DOMAIN tree.kind, tree.kind[p] = "locked", NEW gitignore
  PROVE  WalkFails(tree, p, gitignore)
<1>1. p \in Seq(Names) /\ Len(p) \in Nat
  BY DEF IsTree
<1>2. Under(p, p)
  BY <1>1, UnderIs
<1>3. \A q \in Prefixes(p) \ {p} : ~Under(p, q)
  <2> SUFFICES ASSUME NEW q \in Prefixes(p), Under(p, q) PROVE q = p
    OBVIOUS
  <2>1. q \in Seq(Names) /\ Under(q, p)
    BY <1>1, PrefixesAre
  <2>2. Len(q) = Len(p)
    BY <1>1, <2>1, UnderIs
  <2> QED BY <1>1, <2>1, <2>2, UnderIs
<1> QED BY <1>2, <1>3 DEF WalkFails, Visited

LEMMA AddDirAdds ==
  ASSUME NEW c, IsTree(c.tree), c.cwd \in Seq(Names), NEW arg \in Spellings,
         NEW acc \in Consistent(c.tree, c.cwd, resolveOpts(c))
  PROVE  Adds(acc, addDirFiles(acc, c.tree, c.cwd, arg, resolveOpts(c)),
              walkDir(c.tree, Abs(c.cwd, arg), resolveOpts(c)))
<1> DEFINE tree == c.tree
           cwd == c.cwd
           opts == resolveOpts(c)
           dir == Abs(cwd, arg)
           finds == walkDir(tree, dir, opts)
           files == {Spelled(arg, cwd, p) : p \in finds}
           w == addDirFiles(acc, tree, cwd, arg, opts)
<1>1. \A p \in finds : /\ p \in DOMAIN tree.kind /\ p \in Seq(Names)
                       /\ Under(dir, p) /\ Readable(tree, p, opts.follow)
  BY DEF walkDir, Visited, IsTree
<1>2. w = IF WalkFails(tree, dir, opts.gitignore) THEN [acc EXCEPT !.failed = TRUE]
          ELSE addFiles(acc, cwd, files)
  BY DEF addDirFiles
<1> HIDE DEF finds, w
<1>3. \A p \in finds : Spelled(arg, cwd, p) \in Spellings /\ Abs(cwd, Spelled(arg, cwd, p)) = p
  BY <1>1, SpelledIs
<1>4. Given(tree, cwd, opts, files)
  BY <1>1, <1>3 DEF Given
<1>5. \A x : x \in finds <=> \E f \in files : Abs(cwd, f) = x
  BY <1>3
<1> HIDE DEF files, opts, tree, cwd
<1>6. /\ addFiles(acc, cwd, files).failed = acc.failed
      /\ \A x : x \in addFiles(acc, cwd, files).seen
                    <=> x \in acc.seen \/ \E f \in files : Abs(cwd, f) = x
  BY <1>4, AddFilesKeeps DEF tree, cwd, opts
<1>7. [acc EXCEPT !.failed = TRUE].failed
  BY FailureKeeps DEF tree, cwd, opts
<1>8. Adds(acc, w, finds)
  BY <1>2, <1>5, <1>6, <1>7 DEF Adds
<1> QED BY <1>8 DEF w, finds, opts, tree, cwd

LEMMA PathMeans ==
  ASSUME NEW c, NEW g, OneRepository(c.tree, g), c.cwd \in Seq(Names), c.args # <<>>,
         NEW arg \in Spellings, NEW globbed \in BOOLEAN, IsClear(c, g, arg, globbed),
         NEW acc \in Consistent(c.tree, c.cwd, resolveOpts(c))
  PROVE  Adds(acc, ResolvePath(acc, c.tree, c.cwd, arg, resolveOpts(c), globbed), Named(c, arg, globbed))
<1> DEFINE tree == c.tree
           cwd == c.cwd
           opts == resolveOpts(c)
           p == Abs(cwd, arg)
           exists == p \in DOMAIN tree.kind /\ Leads(tree, cwd, arg)
           kind == IF exists THEN tree.kind[p] ELSE "none"
           linked == hasSymlinkAncestor(tree, cwd, arg)
           failed == [acc EXCEPT !.failed = TRUE]
           dirFiles == addDirFiles(acc, tree, cwd, arg, opts)
           ownFile == addFiles(acc, cwd, {arg})
           named == kind \in {"file", "link"} /\ Readable(tree, p, opts.follow)
                      /\ (globbed => Last(p) \in Markdown)
           w == ResolvePath(acc, tree, cwd, arg, opts, globbed)
           S == Named(c, arg, globbed)
<1>1. IsTree(tree) /\ LinksAreSeen(c, arg) /\ (exists <=> Exists(c, arg))
  BY DEF OneRepository, IsClear, Exists
<1>2. w = IF acc.failed \/ linked THEN acc
          ELSE CASE kind = "none" /\ ~globbed -> failed
                 [] kind \in {"dir", "locked"} -> dirFiles
                 [] named -> ownFile
                 [] OTHER -> acc
  BY DEF ResolvePath
<1>3. S = IF ~Reached(c, arg) THEN {}
          ELSE IF tree.kind[p] = "dir" THEN {q \in Kept(c, p) : Last(q) \in Markdown}
          ELSE {q \in {p} : Readable(tree, p, opts.follow) /\ (globbed => Last(p) \in Markdown)}
  BY DEF Named
<1>4. /\ linked => ~Reached(c, arg)
      /\ exists /\ ~linked /\ tree.kind[p] # "dirlink" => Reached(c, arg)
  BY <1>1, ReachedIs
<1>5. failed.failed
  BY FailureKeeps
<1>6. exists => tree.kind[p] \in Kinds /\ p \in DOMAIN tree.kind
  BY <1>1 DEF IsTree
<1>7. globbed => exists \/ linked
  BY <1>1 DEF IsClear
<1>8. exists /\ tree.kind[p] = "dir" => Under(g, p)
  BY <1>1 DEF IsClear
<1>9. Adds(acc, dirFiles, walkDir(tree, p, opts))
  BY <1>1, AddDirAdds
<1>10. ASSUME exists, tree.kind[p] = "locked" PROVE dirFiles = failed
  <2>1. WalkFails(tree, p, opts.gitignore)
    BY <1>1, <1>10, LockedFails
  <2> QED BY <2>1 DEF addDirFiles
<1>11. ASSUME exists, tree.kind[p] = "dir"
       PROVE  walkDir(tree, p, opts) = {q \in Kept(c, p) : Last(q) \in Markdown}
  BY <1>8, <1>11, WalkIs
<1>12. ASSUME named PROVE Adds(acc, ownFile, {p})
  <2> DEFINE files == {arg}
  <2>1. Given(tree, cwd, opts, files)
    BY <1>6, <1>12 DEF Given
  <2>2. \A x : (\E f \in files : Abs(cwd, f) = x) <=> x = p
    OBVIOUS
  <2> HIDE DEF named, tree, cwd, opts, p, files
  <2>3. /\ addFiles(acc, cwd, files).failed = acc.failed
        /\ \A x : x \in addFiles(acc, cwd, files).seen
                      <=> x \in acc.seen \/ \E f \in files : Abs(cwd, f) = x
    BY <2>1, AddFilesKeeps DEF tree, cwd, opts
  <2>4. Adds(acc, addFiles(acc, cwd, files), {p})
    BY <2>2, <2>3 DEF Adds
  <2> QED BY <2>4 DEF files
<1>13. Readable(tree, p, opts.follow) => tree.kind[p] \in {"file", "link"}
  BY DEF Readable
<1>14. /\ kind = "none" <=> ~exists
       /\ exists => kind = tree.kind[p]
  BY <1>6 DEF Kinds
<1>15. named <=> kind \in {"file", "link"} /\ Readable(tree, p, opts.follow)
                      /\ (globbed => Last(p) \in Markdown)
  OBVIOUS
<1> HIDE DEF exists, kind, linked, failed, dirFiles, ownFile, named, w, S, p
<1>16. Adds(acc, w, S)
  <2>1. CASE acc.failed
    BY <1>2, <2>1 DEF Adds
  <2>2. CASE ~acc.failed /\ linked
    BY <1>2, <1>3, <1>4, <2>2 DEF Adds
  <2>3. CASE ~acc.failed /\ ~linked /\ ~exists
    <3>1. w = failed
      BY <1>2, <1>7, <1>14, <1>15, <2>3
    <3> QED BY <1>5, <3>1 DEF Adds
  <2>4. CASE ~acc.failed /\ ~linked /\ exists /\ tree.kind[p] \in {"dir", "locked"}
    <3>1. w = dirFiles
      BY <1>2, <1>14, <1>15, <2>4
    <3>2. CASE tree.kind[p] = "locked"
      BY <1>5, <1>10, <2>4, <3>1, <3>2 DEF Adds
    <3>3. CASE tree.kind[p] = "dir"
      <4>1. S = walkDir(tree, p, opts)
        BY <1>3, <1>4, <1>11, <2>4, <3>3
      <4> QED BY <1>9, <3>1, <4>1
    <3> QED BY <2>4, <3>2, <3>3
  <2>5. CASE ~acc.failed /\ ~linked /\ exists /\ named
    <3>1. w = ownFile
      BY <1>2, <1>14, <1>15, <2>5
    <3>2. S = {p}
      <4>1. Reached(c, arg) /\ tree.kind[p] # "dir"
        BY <1>4, <1>13, <1>15, <2>5
      <4> QED BY <1>3, <1>15, <2>5, <4>1
    <3> QED BY <1>12, <2>5, <3>1, <3>2
  <2>6. CASE ~acc.failed /\ ~linked /\ exists /\ ~named /\ tree.kind[p] \notin {"dir", "locked"}
    <3>1. w = acc
      BY <1>2, <1>14, <2>6
    <3>2. S = {}
      BY <1>3, <1>13, <1>14, <1>15, <2>6
    <3> QED BY <2>6, <3>1, <3>2 DEF Adds
  <2> QED BY <2>1, <2>2, <2>3, <2>4, <2>5, <2>6
<1> QED BY <1>16 DEF w, S

\* What the steps of a run add, one after the other.
LEMMA AddsUp ==
  ASSUME NEW N \in Nat, NEW F, NEW S, \A n \in 1 .. N : Adds(F[n - 1], F[n], S[n]), ~F[N].failed
  PROVE  ~F[0].failed /\ \A x : x \in F[N].seen <=> x \in F[0].seen \/ \E n \in 1 .. N : x \in S[n]
<1> DEFINE Sum(m) == ~F[m].failed =>
                       /\ ~F[0].failed
                       /\ \A x : x \in F[m].seen <=> x \in F[0].seen \/ \E n \in 1 .. m : x \in S[n]
           M == {m \in Nat : m <= N => Sum(m)}
<1>1. Sum(0)
  <2>1. \A n : n \notin 1 .. 0
    OBVIOUS
  <2> QED BY <2>1
<1>2. ASSUME NEW m \in Nat, m \in M PROVE m + 1 \in M
  <2> SUFFICES ASSUME m + 1 <= N, ~F[m + 1].failed
               PROVE  /\ ~F[0].failed
                      /\ \A x : x \in F[m + 1].seen
                                  <=> x \in F[0].seen \/ \E n \in 1 .. m + 1 : x \in S[n]
    OBVIOUS
  <2>1. m + 1 \in 1 .. N /\ (m + 1) - 1 = m
    OBVIOUS
  <2>2. Adds(F[m], F[m + 1], S[m + 1])
    BY <2>1
  <2>3. ~F[m].failed /\ \A x : x \in F[m + 1].seen <=> x \in F[m].seen \/ x \in S[m + 1]
    BY <2>2 DEF Adds
  <2>4. Sum(m)
    BY <1>2
  <2>5. \A n : n \in 1 .. m + 1 <=> n \in 1 .. m \/ n = m + 1
    OBVIOUS
  <2> QED BY <2>3, <2>4, <2>5
<1> HIDE DEF Sum
<1>3. Nat \subseteq M
  <2>1. 0 \in M
    BY <1>1
  <2> HIDE DEF M
  <2> QED BY <1>2, <2>1, NatInd
<1>4. Sum(N)
  BY <1>3
<1> QED BY <1>4 DEF Sum

\* What one argument stands for.
MeantBy(c, arg) ==
  IF arg.glob THEN UNION {Named(c, arg.matches[n], TRUE) : n \in DOMAIN arg.matches}
  ELSE Named(c, arg.path, FALSE)

\* An argument is clear: a path, or every match of a glob.
ArgIsClear(c, g, arg) ==
  IF arg.glob THEN \A n \in DOMAIN arg.matches : IsClear(c, g, arg.matches[n], TRUE)
  ELSE IsClear(c, g, arg.path, FALSE)

LEMMA ArgMeans ==
  ASSUME NEW c, NEW g, OneRepository(c.tree, g), c.cwd \in Seq(Names), c.args # <<>>,
         NEW arg \in Arguments, ArgIsClear(c, g, arg),
         NEW acc \in Consistent(c.tree, c.cwd, resolveOpts(c))
  PROVE  Adds(acc, resolveArg(acc, c.tree, c.cwd, arg, resolveOpts(c)), MeantBy(c, arg))
<1> DEFINE tree == c.tree
           cwd == c.cwd
           opts == resolveOpts(c)
           w == resolveArg(acc, tree, cwd, arg, opts)
           N == Len(arg.matches)
<1>1. /\ arg.path \in Spellings /\ arg.matches \in Seq(Spellings) /\ N \in Nat
      /\ DOMAIN arg.matches = 1 .. N /\ \A n \in 1 .. N : arg.matches[n] \in Spellings
  BY DEF Arguments
<1>2. CASE ~arg.glob
  <2>1. w = ResolvePath(acc, tree, cwd, arg.path, opts, FALSE) /\ IsClear(c, g, arg.path, FALSE)
    BY <1>2 DEF resolveArg, ArgIsClear
  <2>2. Adds(acc, ResolvePath(acc, tree, cwd, arg.path, opts, FALSE), Named(c, arg.path, FALSE))
    BY <1>1, <2>1, PathMeans
  <2> HIDE DEF w
  <2>3. Adds(acc, w, MeantBy(c, arg))
    BY <1>2, <2>1, <2>2 DEF MeantBy
  <2> QED BY <2>3 DEF w
<1>3. CASE arg.glob
  <2>1. IsTree(tree)
    BY DEF OneRepository
  <2> PICK F : ArgRun(F, acc, tree, cwd, arg, opts)
    BY <2>1, ResolveArgRuns
  <2> DEFINE S == [n \in 1 .. N |-> Named(c, arg.matches[n], TRUE)]
  <2>2. F[0] = acc /\ w = F[N]
    BY <1>3 DEF ArgRun
  <2>3. ASSUME NEW n \in 1 .. N PROVE Adds(F[n - 1], F[n], S[n])
    <3>1. n - 1 \in 0 .. N
      BY <1>1
    <3>2. F[n - 1] \in Consistent(tree, cwd, opts)
          /\ F[n] = ResolvePath(F[n - 1], tree, cwd, arg.matches[n], opts, TRUE)
      BY <3>1 DEF ArgRun
    <3>3. IsClear(c, g, arg.matches[n], TRUE) /\ arg.matches[n] \in Spellings
      BY <1>1, <1>3 DEF ArgIsClear
    <3>4. Adds(F[n - 1], ResolvePath(F[n - 1], tree, cwd, arg.matches[n], opts, TRUE),
               Named(c, arg.matches[n], TRUE))
      BY <3>2, <3>3, PathMeans
    <3> QED BY <3>2, <3>4
  <2>4. \A x : x \in MeantBy(c, arg) <=> \E n \in 1 .. N : x \in S[n]
    <3>1. MeantBy(c, arg) = UNION {Named(c, arg.matches[n], TRUE) : n \in 1 .. N}
      BY <1>1, <1>3 DEF MeantBy
    <3>2. \A n \in 1 .. N : S[n] = Named(c, arg.matches[n], TRUE)
      OBVIOUS
    <3> HIDE DEF S
    <3>3. ASSUME NEW x, x \in MeantBy(c, arg) PROVE \E n \in 1 .. N : x \in S[n]
      <4>1. \E T \in {Named(c, arg.matches[n], TRUE) : n \in 1 .. N} : x \in T
        BY <3>1, <3>3
      <4>2. \E n \in 1 .. N : x \in Named(c, arg.matches[n], TRUE)
        BY <4>1
      <4> QED BY <3>2, <4>2
    <3>4. ASSUME NEW x, NEW n \in 1 .. N, x \in S[n] PROVE x \in MeantBy(c, arg)
      <4>1. x \in Named(c, arg.matches[n], TRUE)
        BY <3>2, <3>4
      <4>2. Named(c, arg.matches[n], TRUE) \in {Named(c, arg.matches[k], TRUE) : k \in 1 .. N}
        OBVIOUS
      <4> QED BY <3>1, <4>1, <4>2
    <3> QED BY <3>3, <3>4
  <2> HIDE DEF w, S, N, tree, cwd, opts
  <2>5. ASSUME ~w.failed PROVE ~acc.failed /\ \A x : x \in w.seen <=> x \in acc.seen \/ x \in MeantBy(c, arg)
    <3>1. N \in Nat /\ ~F[N].failed
      BY <1>1, <2>2, <2>5 DEF N
    <3>2. ~F[0].failed /\ \A x : x \in F[N].seen <=> x \in F[0].seen \/ \E n \in 1 .. N : x \in S[n]
      BY <2>3, <3>1, AddsUp
    <3> QED BY <2>2, <2>4, <3>2
  <2>6. Adds(acc, w, MeantBy(c, arg))
    BY <2>5 DEF Adds
  <2> QED BY <2>6 DEF w, tree, cwd, opts
<1> QED BY <1>2, <1>3

\* ResolveFilesWithOpts: if no argument fails, their paths are those meant.
LEMMA ArgsMean ==
  ASSUME NEW c, NEW g, OneRepository(c.tree, g), c.cwd \in Seq(Names),
         c.args \in Seq(Arguments), c.args # <<>>,
         \A i \in DOMAIN c.args : ArgIsClear(c, g, c.args[i]),
         ~ResolveFilesWithOpts(c.tree, c.cwd, c.args, resolveOpts(c)).failed
  PROVE  ResolveFilesWithOpts(c.tree, c.cwd, c.args, resolveOpts(c)).seen = Meant(c)
<1> DEFINE tree == c.tree
           cwd == c.cwd
           opts == resolveOpts(c)
           args == c.args
           w == ResolveFilesWithOpts(tree, cwd, args, opts)
           N == Len(args)
           S == [n \in 1 .. N |-> MeantBy(c, args[n])]
<1>1. IsTree(tree) /\ N \in Nat /\ DOMAIN args = 1 .. N /\ \A n \in 1 .. N : args[n] \in Arguments
  BY DEF OneRepository
<1> PICK F : ArgsRun(F, tree, cwd, args, opts)
  BY <1>1, ResolveFilesRuns
<1>2. F[0].seen = {} /\ w = F[N] /\ ~F[N].failed
  BY DEF ArgsRun
<1>3. ASSUME NEW n \in 1 .. N PROVE Adds(F[n - 1], F[n], S[n])
  <2>1. n - 1 \in 0 .. N
    BY <1>1
  <2>2. F[n - 1] \in Consistent(tree, cwd, opts)
        /\ F[n] = IF F[n - 1].failed THEN F[n - 1] ELSE resolveArg(F[n - 1], tree, cwd, args[n], opts)
    BY <2>1 DEF ArgsRun
  <2>3. ArgIsClear(c, g, args[n]) /\ args[n] \in Arguments
    BY <1>1
  <2>4. Adds(F[n - 1], resolveArg(F[n - 1], tree, cwd, args[n], opts), MeantBy(c, args[n]))
    BY <2>2, <2>3, ArgMeans
  <2>5. S[n] = MeantBy(c, args[n])
    OBVIOUS
  <2> HIDE DEF S, tree, cwd, opts, args
  <2> QED BY <2>2, <2>4, <2>5 DEF Adds
<1>4. \A x : x \in Meant(c) <=> \E n \in 1 .. N : x \in S[n]
  <2>1. Meant(c) = UNION {MeantBy(c, args[n]) : n \in 1 .. N}
    BY <1>1 DEF Meant, MeantBy
  <2>2. \A n \in 1 .. N : S[n] = MeantBy(c, args[n])
    OBVIOUS
  <2> HIDE DEF S, args
  <2>3. ASSUME NEW x, x \in Meant(c) PROVE \E n \in 1 .. N : x \in S[n]
    BY <2>1, <2>2, <2>3
  <2>4. ASSUME NEW x, NEW n \in 1 .. N, x \in S[n] PROVE x \in Meant(c)
    <3>1. x \in MeantBy(c, args[n])
      BY <2>2, <2>4
    <3>2. MeantBy(c, args[n]) \in {MeantBy(c, args[k]) : k \in 1 .. N}
      OBVIOUS
    <3> QED BY <2>1, <3>1, <3>2
  <2> QED BY <2>3, <2>4
<1> HIDE DEF w, S, N
<1>5. \A x : x \in F[N].seen <=> x \in F[0].seen \/ \E n \in 1 .. N : x \in S[n]
  <2>1. N \in Nat /\ ~F[N].failed
    BY <1>1, <1>2 DEF N
  <2> QED BY <1>3, <2>1, AddsUp
<1>6. w.seen = Meant(c)
  BY <1>2, <1>4, <1>5
<1> QED BY <1>6 DEF w

-----------------------------------------------------------------------------
(* The files that are checked are those that are meant.                    *)

\* Every directory that is named lies in the one repository on the disk, with
\* the working directory; the matches of globs exist; and the links to
\* directories on the way to a path are those that the code looks for.
InRepository(c) ==
  \E g \in Seq(Names) :
    /\ c.tree.git = {g} /\ Under(g, c.cwd)
    /\ \A i \in DOMAIN c.args : ArgIsClear(c, g, c.args[i])

LEMMA ResolutionMeans ==
  ASSUME NEW c \in Commands, ~HasStdin(c), ~Resolution(c).failed, InRepository(c), ReadsAsGit(c.tree)
  PROVE  \A p : p \in Meant(c) <=> \E q \in Resolution(c).result : Abs(c.cwd, q) = p
<1> DEFINE tree == c.tree
           cwd == c.cwd
           opts == resolveOpts(c)
           some == ResolveFilesWithOpts(tree, cwd, c.args, opts)
           finds == Discover(tree, cwd, c.config.files, opts)
           all == {[abs |-> TRUE, segs |-> q] : q \in finds}
           r == Resolution(c)
<1> PICK g \in Seq(Names) :
        /\ tree.git = {g} /\ Under(g, cwd)
        /\ \A i \in DOMAIN c.args : ArgIsClear(c, g, c.args[i])
  BY DEF InRepository
<1>1. /\ IsTree(tree) /\ cwd \in Seq(Names) /\ c.args \in Seq(Arguments)
      /\ OneRepository(tree, g) /\ cwd \in DOMAIN tree.ignore
  <2>1. c.cwd \in DOMAIN c.tree.ignore
    BY CheckRunAssumption
  <2> QED BY <2>1, CommandTypes DEF OneRepository
<1>2. CASE c.args # <<>>
  <2> DEFINE listed == [failed |-> some.failed, result |-> some.result]
  <2>1. r = listed
    BY <1>2 DEF Resolution
  <2>2. listed.failed = some.failed /\ listed.result = some.result
    OBVIOUS
  <2> HIDE DEF listed, r, some
  <2>3. r.failed = some.failed /\ r.result = some.result
    BY <2>1, <2>2
  <2>4. ~some.failed
    BY <2>3 DEF r
  <2>5. some.seen = Meant(c)
    BY <1>1, <1>2, <2>4, ArgsMean DEF some
  <2>6. some \in Consistent(tree, cwd, opts)
    BY <1>1, ResolveFilesIs DEF some
  <2>7. \A p : p \in some.seen <=> \E q \in some.result : Abs(cwd, q) = p
    BY <2>6 DEF Consistent
  <2>8. \A p : p \in Meant(c) <=> \E q \in r.result : Abs(cwd, q) = p
    BY <2>3, <2>5, <2>7
  <2> QED BY <2>8 DEF r
<1>3. CASE c.args = <<>>
  <2>1. Meant(c) = {p \in Kept(c, cwd) : Last(p) \in c.config.files}
    BY <1>3 DEF Meant
  <2>2. finds = Meant(c)
    BY <1>1, <1>3, <2>1, DiscoverIs
  <2>3. CASE c.config.files = {}
    <3>1. Resolution(c).result = {}
      <4> DEFINE nothing == [failed |-> FALSE, result |-> {}]
      <4>1. Resolution(c) = nothing
        BY <1>3, <2>3 DEF Resolution
      <4> QED BY <4>1
    <3> QED BY <2>1, <2>3, <3>1
  <2>4. CASE c.config.files # {}
    <3> DEFINE walked == [failed |-> DiscoverFails(tree, cwd, opts), result |-> all]
    <3>1. r = walked
      BY <1>3, <2>4 DEF Resolution
    <3>2. walked.result = all
      OBVIOUS
    <3> HIDE DEF walked, r
    <3>3. r.result = all
      BY <3>1, <3>2
    <3>4. \A q \in finds : q \in Seq(Names)
      BY <1>1 DEF Discover, IsTree
    <3> HIDE DEF finds
    <3>5. \A q \in finds : Abs(cwd, [abs |-> TRUE, segs |-> q]) = q
      BY <1>1, <3>4, AbsOfAbsolute
    <3>6. \A p : p \in finds <=> \E q \in all : Abs(cwd, q) = p
      BY <3>5
    <3> HIDE DEF all
    <3>7. \A p : p \in Meant(c) <=> \E q \in r.result : Abs(cwd, q) = p
      BY <2>2, <3>3, <3>6
    <3> QED BY <3>7 DEF r
  <2> QED BY <2>3, <2>4
<1> QED BY <1>2, <1>3

\* Only Report and NothingToCheck end with 0 or 1, and what was asked for is then
\* resolved.
ResolvedInv == phase = "run" \/ (phase = "exited" /\ exit # 2) => ~resolved.failed

LEMMA ResolvedInvariance == CheckSpec => []ResolvedInv
<1>1. CheckInit => ResolvedInv
  BY DEF CheckInit, ResolvedInv
<1>2. ResolvedInv /\ [CheckNext]_checkVars => ResolvedInv'
  <2> SUFFICES ASSUME ResolvedInv, [CheckNext]_checkVars PROVE ResolvedInv'
    OBVIOUS
  <2>1. CASE Reject
    BY <2>1 DEF Reject, ResolvedInv
  <2>2. CASE NothingToCheck
    BY <2>2 DEF NothingToCheck, Nothing, ResolvedInv
  <2>3. CASE Load
    BY <2>3 DEF Load, ResolvedInv
  <2>4. CASE Engine
    BY <2>4 DEF Engine, ResolvedInv
  <2>5. CASE Report
    BY <2>5 DEF Report, ResolvedInv
  <2>6. CASE UNCHANGED checkVars
    BY <2>6 DEF checkVars, ResolvedInv
  <2> QED BY <2>1, <2>2, <2>3, <2>4, <2>5, <2>6 DEF CheckNext
<1> QED BY <1>1, <1>2, PTL DEF CheckSpec

\* A set that is named by numbers, each of its elements once, has as many elements.
LEMMA Counted ==
  ASSUME NEW n \in Nat, NEW T, NEW f \in [1 .. n -> T], IsInjective(f),
         \A t \in T : \E i \in 1 .. n : f[i] = t
  PROVE  Cardinality(T) = n
<1>1. f \in Bijection(1 .. n, T)
  BY DEF Bijection, Injection, Surjection, IsInjective
<1>2. ExistsBijection(1 .. n, T)
  BY <1>1 DEF ExistsBijection
<1>3. IsFiniteSet(1 .. n) /\ Cardinality(1 .. n) = n
  <2>1. 1 \in Int /\ n \in Int /\ (IF 1 > n THEN 0 ELSE n - 1 + 1) = n
    OBVIOUS
  <2> QED BY <2>1, FS_Interval
<1> QED BY <1>2, <1>3, FS_Bijection

LEMMA FilesAreMeant ==
  ASSUME CommandInv, job \in Jobs, ~HasStdin(cmd), ~resolved.failed,
         InRepository(cmd), ReadsAsGit(cmd.tree)
  PROVE  /\ {PathOf[job.paths[i]] : i \in DOMAIN job.paths} = Meant(cmd)
         /\ Len(job.paths) = Cardinality(Meant(cmd))
<1> DEFINE paths == job.paths
           n == Len(paths)
           f == [i \in 1 .. n |-> PathOf[paths[i]]]
           tree == cmd.tree
<1>1. cmd \in Commands /\ resolved = Resolution(cmd) /\ job = JobOf(cmd, resolved)
  BY DEF CommandInv
<1>2. paths \in Seq(Files) /\ n \in Nat /\ DOMAIN paths = 1 .. n /\ IsInjective(paths)
  <2>1. paths \in Seq(Files) /\ IsInjective(paths)
    BY <1>1, JobOfIs
  <2> QED BY <2>1
<1>3. \A x \in Files : x \in ToSet(paths) <=> PathOf[x] \in Meant(cmd)
  <2>1. \A x \in Files : x \in ToSet(paths)
                            <=> \E q \in resolved.result : Abs(cmd.cwd, q) = PathOf[x]
    BY FilesAreOnce DEF EachFileOnce
  <2>2. \A p : p \in Meant(cmd) <=> \E q \in resolved.result : Abs(cmd.cwd, q) = p
    BY <1>1, ResolutionMeans
  <2> QED BY <2>1, <2>2
<1>4. \A p \in Meant(cmd) : \E x \in Files : PathOf[x] = p
  <2> SUFFICES ASSUME NEW p \in Meant(cmd) PROVE \E x \in Files : PathOf[x] = p
    OBVIOUS
  <2>1. \E q \in resolved.result : Abs(cmd.cwd, q) = p
    BY <1>1, ResolutionMeans
  <2>2. Given(tree, cmd.cwd, resolveOpts(cmd), resolved.result)
    BY <1>1, ResolutionIs
  <2>3. p \in DOMAIN tree.kind /\ Readable(tree, p, resolveOpts(cmd).follow)
    BY <2>1, <2>2 DEF Given
  <2>4. tree.kind[p] \in {"file", "link"}
    BY <2>3 DEF Readable
  <2>5. p \in Range(PathOf)
    BY <1>1, <2>3, <2>4, CheckRunAssumption
  <2> QED BY <2>5, CheckRunAssumption DEF Range
<1>5. \A i \in 1 .. n : paths[i] \in Files /\ paths[i] \in ToSet(paths)
  BY <1>2 DEF ToSet
<1>6. f \in [1 .. n -> Meant(cmd)]
  <2>1. \A i \in 1 .. n : PathOf[paths[i]] \in Meant(cmd)
    BY <1>3, <1>5
  <2> QED BY <2>1
<1>7. \A p \in Meant(cmd) : \E i \in 1 .. n : f[i] = p
  <2> SUFFICES ASSUME NEW p \in Meant(cmd) PROVE \E i \in 1 .. n : f[i] = p
    OBVIOUS
  <2> PICK x \in Files : PathOf[x] = p
    BY <1>4
  <2>1. x \in ToSet(paths)
    BY <1>3
  <2> PICK i \in 1 .. n : paths[i] = x
    BY <1>2, <2>1 DEF ToSet
  <2> QED OBVIOUS
<1>8. IsInjective(f)
  <2>1. \A i, k \in 1 .. n : PathOf[paths[i]] = PathOf[paths[k]] => paths[i] = paths[k]
    BY <1>5, CheckRunAssumption
  <2>2. \A i, k \in 1 .. n : paths[i] = paths[k] => i = k
    BY <1>2 DEF IsInjective
  <2>3. \A i, k \in 1 .. n : f[i] = f[k] => i = k
    BY <2>1, <2>2
  <2>4. DOMAIN f = 1 .. n
    OBVIOUS
  <2> HIDE DEF f, n
  <2> QED BY <2>3, <2>4 DEF IsInjective
<1>9. {PathOf[paths[i]] : i \in DOMAIN paths} = Meant(cmd)
  <2>1. \A i \in 1 .. n : f[i] = PathOf[paths[i]] /\ f[i] \in Meant(cmd)
    BY <1>6
  <2> HIDE DEF f, n
  <2> QED BY <1>2, <1>7, <2>1
<1>10. n = Cardinality(Meant(cmd))
  <2> HIDE DEF f, n
  <2> QED BY <1>2, <1>6, <1>7, <1>8, Counted
<1> QED BY <1>9, <1>10

\* A command that ends with 0 or 1 checked the files that its arguments stand
\* for, each once, and no other: those that Git would keep, wherever the ignore
\* files are read in Git's order and each rule as Git reads it.
THEOREM CommandChecksWhatIsMeant == CheckSpec /\ InRepository(cmd) => []ChecksWhatIsMeant
<1>1. InRepository(cmd) /\ [CheckNext]_checkVars => InRepository(cmd)'
  BY DEF CheckNext, Reject, NothingToCheck, Load, Engine, Report, checkVars
<1>2. InRepository(cmd) /\ CommandInv /\ TypeOK /\ ResolvedInv /\ ZeroIsClean => ChecksWhatIsMeant
  <2> SUFFICES ASSUME InRepository(cmd), CommandInv, TypeOK, ResolvedInv, ZeroIsClean,
                      phase = "exited", exit # 2, ~HasStdin(cmd), ReadsAsGit(cmd.tree)
               PROVE  /\ {PathOf[job.paths[i]] : i \in DOMAIN job.paths} = Meant(cmd)
                      /\ Len(job.paths) = Cardinality(Meant(cmd))
    BY DEF ChecksWhatIsMeant
  <2>1. job \in Jobs
    BY DEF TypeOK
  <2>2. ~resolved.failed
    BY DEF ResolvedInv
  <2> QED BY <2>1, <2>2, FilesAreMeant
<1> QED BY <1>1, <1>2, CommandRunsTheEngine, TypeCorrect, ResolvedInvariance, ExitZeroIsClean,
           PTL DEF CheckSpec
=============================================================================
