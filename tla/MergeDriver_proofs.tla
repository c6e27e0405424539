-------------------------- MODULE MergeDriver_proofs --------------------------
(* Proofs about MergeDriver, for every job, every document and every number   *)
(* of failing system calls.  Stripping, pairing of markers and fixing go line *)
(* by line: each is followed by a function of the number of lines read, and   *)
(* a set of numbers that holds 0 and each successor holds them all.           *)
EXTENDS MergeDriver, FiniteSetTheorems, SequenceTheorems, WellFoundedInduction, TLAPS

-----------------------------------------------------------------------------
(* Numbers and recursive functions                                         *)

\* A set of numbers that is not empty has a least element.
LEMMA Minimum ==
  ASSUME NEW T \in SUBSET Nat, NEW n \in T
  PROVE  \E x \in T : \A y \in T : x <= y
<1> DEFINE S == 0..n
           U == {0..k : k \in {i \in T : i <= n}}
           R == StrictSubsetOrdering(S)
<1>1. IsFiniteSet(S)
  BY FS_Interval
<1>2. IsWellFoundedOn(R, SUBSET S)
  BY <1>1, FS_StrictSubsetOrderingWellFounded, FS_FiniteSubsetsOfFinite
<1>3. U \subseteq SUBSET S /\ U # {}
  OBVIOUS
<1>4. \E x \in U : \A y \in U : ~(<<y,x>> \in R)
  <2> HIDE DEF S, U, R
  <2> QED BY <1>2, <1>3, WFMin
<1> PICK k \in T : k <= n /\ \A y \in U : ~(<<y,0..k>> \in R)
  BY <1>4
<1>5. ASSUME NEW y \in T, y < k PROVE FALSE
  <2>1. 0..y \in U /\ 0..y \in SUBSET S /\ 0..k \in SUBSET S /\ 0..y \subseteq 0..k
    BY <1>5
  <2>2. k \notin 0..y /\ k \in 0..k
    BY <1>5
  <2>3. <<0..y, 0..k>> \notin R
    BY <2>1
  <2> HIDE DEF S, U
  <2>4. \A a, b \in SUBSET S : a \subseteq b /\ a # b => <<a, b>> \in R
    BY DEF StrictSubsetOrdering
  <2> QED BY <2>1, <2>2, <2>3, <2>4
<1> QED BY <1>5

\* A set, not an operator, holds of every number.
LEMMA NatInd ==
  ASSUME NEW S, 0 \in S, \A n \in Nat : n \in S => n+1 \in S
  PROVE  Nat \subseteq S
<1> DEFINE T == Nat \ S
<1>1. SUFFICES ASSUME NEW n \in T PROVE FALSE
  OBVIOUS
<1> PICK x \in T : \A y \in T : x <= y
  <2>1. T \in SUBSET Nat OBVIOUS
  <2> HIDE DEF T
  <2> QED BY <2>1, Minimum
<1>2. x # 0 /\ x - 1 \in Nat /\ x - 1 \notin T
  OBVIOUS
<1> QED BY <1>2
\* A set holds every sequence when appending an element keeps to it.
\* A function can be iterated: the recursion is well founded.
Iterated(V, N, d, G) ==
  \E f : /\ f[0] = d /\ \A n \in 1..N : f[n] = G[<<n, f[n - 1]>>]
        /\ \A n \in 0..N : f[n] \in V[n]

\* What a step makes of a value is a value of the next number.
LEMMA Iteration ==
  ASSUME NEW V, NEW N \in Nat, NEW d \in V[0], NEW G,
         \A n \in 1..N : \A v \in V[n - 1] : G[<<n, v>>] \in V[n]
  PROVE  Iterated(V, N, d, G)
<1> DEFINE Upto(m) == \E f : /\ f[0] = d /\ \A n \in 1..m : f[n] = G[<<n, f[n - 1]>>]
                             /\ \A n \in 0..m : f[n] \in V[n]
           M == {m \in Nat : m <= N => Upto(m)}
<1>1. 0 \in M
  <2> DEFINE f == [i \in 0..0 |-> d]
  <2>1. f[0] = d /\ 1..0 = {} /\ \A n \in 0..0 : n = 0
    OBVIOUS
  <2> HIDE DEF f
  <2>2. Upto(0)
    BY <2>1
  <2> QED BY <2>2
<1>2. ASSUME NEW m \in Nat, m \in M PROVE m + 1 \in M
  <2> SUFFICES ASSUME m + 1 <= N PROVE Upto(m + 1)
    OBVIOUS
  <2>1. Upto(m)
    <3> HIDE DEF Upto
    <3> QED BY <1>2
  <2> PICK f : /\ f[0] = d /\ \A n \in 1..m : f[n] = G[<<n, f[n - 1]>>]
               /\ \A n \in 0..m : f[n] \in V[n]
    BY <2>1
  <2> DEFINE g == [n \in 0..m + 1 |-> IF n = m + 1 THEN G[<<m + 1, f[m]>>] ELSE f[n]]
  <2>2. g[m + 1] = G[<<m + 1, f[m]>>] /\ \A n \in 0..m : g[n] = f[n]
    OBVIOUS
  <2> HIDE DEF g
  <2>3. m \in 0..m /\ m + 1 \in 1..N /\ m + 1 - 1 = m /\ 0 \in 0..m
    OBVIOUS
  <2>4. g[0] = d
    BY <2>2, <2>3
  <2>5. \A n \in 1..m + 1 : g[n] = G[<<n, g[n - 1]>>]
    <3> TAKE n \in 1..m + 1
    <3>1. CASE n = m + 1
      BY <2>2, <2>3, <3>1
    <3>2. CASE n # m + 1
      <4>1. n \in 1..m /\ n \in 0..m /\ n - 1 \in 0..m
        BY <3>2
      <4> QED BY <2>2, <4>1
    <3> QED BY <3>1, <3>2
  <2>6. \A n \in 0..m + 1 : g[n] \in V[n]
    <3> TAKE n \in 0..m + 1
    <3>1. CASE n = m + 1
      BY <2>2, <2>3, <3>1
    <3>2. CASE n # m + 1
      <4>1. n \in 0..m
        BY <3>2
      <4> QED BY <2>2, <4>1
    <3> QED BY <3>1, <3>2
  <2> QED BY <2>4, <2>5, <2>6
<1> HIDE DEF Upto
<1>3. Nat \subseteq M
  <2> HIDE DEF M
  <2> QED BY <1>1, <1>2, NatInd
<1>4. Upto(N)
  BY <1>3
<1> QED BY <1>4 DEF Upto, Iterated

-----------------------------------------------------------------------------
(* A conflict: what two documents have in common.                          *)

\* The numbers of lines that two documents share at their start are those up
\* to one of them.
LEMMA CommonIs ==
  ASSUME NEW X, NEW s \in Seq(X), NEW t \in Seq(X)
  PROVE  /\ CommonLines(s, t) \in Nat
         /\ CommonLines(s, t) <= Len(s) /\ CommonLines(s, t) <= Len(t)
         /\ \A i \in 1..CommonLines(s, t) : s[i] = t[i]
<1> DEFINE C == {n \in DOMAIN s \cap DOMAIN t : SubSeq(s, 1, n) = SubSeq(t, 1, n)}
           T == {k \in Nat : k # 0 /\ k \notin C}
<1>1. Len(s) \in Nat /\ Len(t) \in Nat /\ DOMAIN s = 1..Len(s) /\ DOMAIN t = 1..Len(t)
  OBVIOUS
<1>2. Len(s) + 1 \in T
  BY <1>1
<1>3. PICK x \in T : \A y \in T : x <= y
  <2>1. T \in SUBSET Nat
    OBVIOUS
  <2> HIDE DEF T
  <2> QED BY <1>2, <2>1, Minimum
<1>4. ASSUME NEW n \in C PROVE n \in Nat /\ n # 0 /\ \A i \in 1..n : i \in C /\ s[i] = t[i]
  <2>1. n \in 1..Len(s) /\ n \in 1..Len(t) /\ SubSeq(s, 1, n) = SubSeq(t, 1, n)
    BY <1>1, <1>4
  <2>2. \A i \in 1..n : SubSeq(s, 1, n)[i] = s[i] /\ SubSeq(t, 1, n)[i] = t[i]
    BY <2>1, <1>1
  <2>3. \A i \in 1..n : s[i] = t[i]
    BY <2>1, <2>2
  <2>4. ASSUME NEW i \in 1..n PROVE SubSeq(s, 1, i) = SubSeq(t, 1, i)
    <3>1. /\ SubSeq(s, 1, i) = [k \in 1..i |-> s[k]]
          /\ SubSeq(t, 1, i) = [k \in 1..i |-> t[k]]
      BY <2>1
    <3>2. \A k \in 1..i : s[k] = t[k]
      BY <2>1, <2>3
    <3> QED BY <3>1, <3>2
  <2>5. \A i \in 1..n : i \in DOMAIN s \cap DOMAIN t
    BY <1>1, <2>1
  <2>6. \A i \in 1..n : i \in C
    BY <2>4, <2>5
  <2>7. n \in Nat /\ n # 0
    BY <1>1, <2>1
  <2> HIDE DEF C
  <2> QED BY <2>3, <2>6, <2>7
<1>5. C = 1..(x - 1)
  <2>1. x \in Nat /\ x # 0 /\ x \notin C /\ \A y \in Nat : y < x => y = 0 \/ y \in C
    BY <1>3
  <2>2. \A n \in C : n \in Nat /\ n # 0 /\ n < x
    BY <1>4, <2>1
  <2> HIDE DEF C, T
  <2>3. \A n \in C : n \in 1..(x - 1)
    BY <2>1, <2>2
  <2>4. \A n \in 1..(x - 1) : n \in Nat /\ n < x /\ n # 0
    BY <2>1
  <2>5. \A n \in 1..(x - 1) : n \in C
    BY <2>1, <2>4
  <2> QED BY <2>3, <2>5
<1>6. CommonLines(s, t) = x - 1
  <2>1. Cardinality(1..(x - 1)) = x - 1
    BY <1>3, FS_Interval
  <2> QED BY <1>5, <2>1 DEF CommonLines
<1>7. \A i \in 1..(x - 1) : i \in Nat /\ i # 0 /\ i <= Len(s) /\ i <= Len(t) /\ s[i] = t[i]
  <2> SUFFICES ASSUME NEW i \in 1..(x - 1)
               PROVE  i \in Nat /\ i # 0 /\ i <= Len(s) /\ i <= Len(t) /\ s[i] = t[i]
    OBVIOUS
  <2>1. i \in C
    BY <1>5
  <2>2. i \in Nat /\ i # 0 /\ \A k \in 1..i : k \in C /\ s[k] = t[k]
    BY <1>4, <2>1
  <2>3. i \in DOMAIN s \cap DOMAIN t
    BY <2>1
  <2> HIDE DEF C
  <2>4. i \in 1..i
    BY <2>2
  <2> QED BY <1>1, <2>2, <2>3, <2>4
<1>8. x \in Nat /\ x # 0
  BY <1>3
<1> HIDE DEF T, C
<1>9. x - 1 <= Len(s) /\ x - 1 <= Len(t)
  BY <1>1, <1>7, <1>8
<1> QED BY <1>6, <1>7, <1>8, <1>9

\* A function on 1..n is a sequence.
LEMMA IsSequence ==
  ASSUME NEW X, NEW n \in Nat, NEW q \in [1..n -> X]
  PROVE  q \in Seq(X) /\ DOMAIN q = 1..n /\ Len(q) = n
  OBVIOUS

\* Where the lines of three parts are.
InThree(b, m, a) ==
  /\ Len(b \o m \o a) = Len(b) + Len(m) + Len(a)
  /\ \A i \in 1..Len(b) : (b \o m \o a)[i] = b[i]
  /\ \A i \in 1..Len(m) : (b \o m \o a)[Len(b) + i] = m[i]
  /\ \A i \in 1..Len(a) : (b \o m \o a)[Len(b) + Len(m) + i] = a[i]

\* The lines of a document in three parts.
LEMMA ThreeParts ==
  ASSUME NEW X, NEW b \in Seq(X), NEW m \in Seq(X), NEW a \in Seq(X)
  PROVE  b \o m \o a \in Seq(X) /\ InThree(b, m, a)
<1> DEFINE bm == b \o m
           w == bm \o a
<1>1. Len(b) \in Nat /\ Len(m) \in Nat /\ Len(a) \in Nat
  OBVIOUS
<1>2. /\ bm \in Seq(X) /\ Len(bm) = Len(b) + Len(m)
      /\ \A i \in 1..Len(b) + Len(m) : bm[i] = IF i <= Len(b) THEN b[i] ELSE m[i - Len(b)]
  BY ConcatProperties
<1> HIDE DEF bm
<1>3. /\ w \in Seq(X) /\ Len(w) = Len(bm) + Len(a)
      /\ \A i \in 1..Len(bm) + Len(a) : w[i] = IF i <= Len(bm) THEN bm[i] ELSE a[i - Len(bm)]
  <2>1. bm \in Seq(X)
    BY <1>2
  <2> QED BY <2>1, ConcatProperties
<1> HIDE DEF w
<1>4. \A i \in 1..Len(b) : w[i] = b[i]
  BY <1>1, <1>2, <1>3
<1>5. ASSUME NEW i \in 1..Len(m) PROVE w[Len(b) + i] = m[i]
  <2>1. Len(b) + i \in 1..Len(b) + Len(m) /\ Len(b) + i - Len(b) = i /\ ~(Len(b) + i <= Len(b))
    BY <1>1
  <2>2. Len(b) + i \in 1..Len(bm) + Len(a) /\ Len(b) + i <= Len(bm)
    BY <1>1, <1>2
  <2> QED BY <1>2, <1>3, <2>1, <2>2
<1>6. ASSUME NEW i \in 1..Len(a) PROVE w[Len(b) + Len(m) + i] = a[i]
  <2>1. /\ Len(bm) + i \in 1..Len(bm) + Len(a) /\ Len(bm) + i - Len(bm) = i
        /\ ~(Len(bm) + i <= Len(bm))
    BY <1>1, <1>2
  <2> QED BY <1>2, <1>3, <2>1
<1>7. Len(w) = Len(b) + Len(m) + Len(a)
  BY <1>2, <1>3
<1>8. w = b \o m \o a
  BY DEF w, bm
<1> QED BY <1>3, <1>4, <1>5, <1>6, <1>7, <1>8 DEF InThree

\* Two documents are what they share before and after what they differ in.
LEMMA HunkIs ==
  ASSUME NEW X, NEW s \in Seq(X), NEW t \in Seq(X)
  PROVE  LET h == Hunk(s, t) IN
         /\ h.before \in Seq(X) /\ h.ours \in Seq(X) /\ h.theirs \in Seq(X) /\ h.after \in Seq(X)
         /\ s = h.before \o h.ours \o h.after
         /\ t = h.before \o h.theirs \o h.after
<1> DEFINE h == Hunk(s, t)
           p == CommonLines(s, t)
           rs == SubSeq(s, p + 1, Len(s))
           rt == SubSeq(t, p + 1, Len(t))
           vs == Reverse(rs)
           vt == Reverse(rt)
           n == CommonLines(vs, vt)
<1>1. Len(s) \in Nat /\ Len(t) \in Nat /\ p \in Nat /\ p <= Len(s) /\ p <= Len(t)
      /\ \A i \in 1..p : s[i] = t[i]
  BY CommonIs
<1>2. /\ h.before = SubSeq(s, 1, p) /\ h.after = SubSeq(s, Len(s) - n + 1, Len(s))
      /\ h.ours = SubSeq(s, p + 1, Len(s) - n) /\ h.theirs = SubSeq(t, p + 1, Len(t) - n)
  BY DEF Hunk
<1> HIDE DEF p, h
<1>3. /\ rs \in Seq(X) /\ Len(rs) = Len(s) - p /\ \A i \in 1..(Len(s) - p) : rs[i] = s[p + i]
      /\ rt \in Seq(X) /\ Len(rt) = Len(t) - p /\ \A i \in 1..(Len(t) - p) : rt[i] = t[p + i]
  BY <1>1
<1>4. /\ vs \in Seq(X) /\ Len(vs) = Len(s) - p
      /\ \A i \in 1..(Len(s) - p) : vs[i] = s[Len(s) - i + 1]
  <2> HIDE DEF rs
  <2>1. vs = [i \in 1..(Len(s) - p) |-> rs[Len(s) - p - i + 1]]
    BY <1>3 DEF Reverse
  <2>2. \A i \in 1..(Len(s) - p) :
          Len(s) - p - i + 1 \in 1..(Len(s) - p) /\ p + (Len(s) - p - i + 1) = Len(s) - i + 1
    BY <1>1
  <2>3. \A i \in 1..(Len(s) - p) : rs[Len(s) - p - i + 1] = s[Len(s) - i + 1] /\ rs[Len(s) - p - i + 1] \in X
    BY <1>3, <2>2
  <2>4. Len(s) - p \in Nat
    BY <1>1
  <2> HIDE DEF vs
  <2>5. vs \in [1..(Len(s) - p) -> X]
    BY <2>1, <2>3
  <2>6. \A i \in 1..(Len(s) - p) : vs[i] = s[Len(s) - i + 1]
    BY <2>1, <2>3
  <2> QED BY <2>4, <2>5, <2>6
<1>5. /\ vt \in Seq(X) /\ Len(vt) = Len(t) - p
      /\ \A i \in 1..(Len(t) - p) : vt[i] = t[Len(t) - i + 1]
  <2> HIDE DEF rt
  <2>1. vt = [i \in 1..(Len(t) - p) |-> rt[Len(t) - p - i + 1]]
    BY <1>3 DEF Reverse
  <2>2. \A i \in 1..(Len(t) - p) :
          Len(t) - p - i + 1 \in 1..(Len(t) - p) /\ p + (Len(t) - p - i + 1) = Len(t) - i + 1
    BY <1>1
  <2>3. \A i \in 1..(Len(t) - p) : rt[Len(t) - p - i + 1] = t[Len(t) - i + 1] /\ rt[Len(t) - p - i + 1] \in X
    BY <1>3, <2>2
  <2>4. Len(t) - p \in Nat
    BY <1>1
  <2> HIDE DEF vt
  <2>5. vt \in [1..(Len(t) - p) -> X]
    BY <2>1, <2>3
  <2>6. \A i \in 1..(Len(t) - p) : vt[i] = t[Len(t) - i + 1]
    BY <2>1, <2>3
  <2> QED BY <2>4, <2>5, <2>6
<1> HIDE DEF rs, rt, vs, vt
<1>6. n \in Nat /\ n <= Len(s) - p /\ n <= Len(t) - p /\ \A i \in 1..n : vs[i] = vt[i]
  <2> HIDE DEF n
  <2>0. vs \in Seq(X) /\ vt \in Seq(X)
    BY <1>4, <1>5
  <2>1. n \in Nat /\ n <= Len(vs) /\ n <= Len(vt) /\ \A i \in 1..n : vs[i] = vt[i]
    BY <2>0, CommonIs DEF n
  <2> QED BY <1>4, <1>5, <2>1
<1> HIDE DEF n
<1>7. \A i \in 1..n : s[Len(s) - n + i] = t[Len(t) - n + i]
  <2> TAKE i \in 1..n
  <2>1. n - i + 1 \in 1..n /\ n - i + 1 \in 1..(Len(s) - p) /\ n - i + 1 \in 1..(Len(t) - p)
    BY <1>1, <1>6
  <2>2. /\ Len(s) - (n - i + 1) + 1 = Len(s) - n + i
        /\ Len(t) - (n - i + 1) + 1 = Len(t) - n + i
    BY <1>1, <1>6
  <2> QED BY <1>4, <1>5, <1>6, <2>1, <2>2
<1>8. /\ h.before \in Seq(X) /\ Len(h.before) = p
      /\ \A i \in 1..p : h.before[i] = s[i] /\ h.before[i] = t[i]
  <2>1. SubSeq(s, 1, p) = [i \in 1..p |-> s[i]] /\ \A i \in 1..p : s[i] \in X
    BY <1>1
  <2> QED BY <1>1, <1>2, <2>1
<1>9. /\ h.after \in Seq(X) /\ Len(h.after) = n
      /\ \A i \in 1..n : h.after[i] = s[Len(s) - n + i] /\ h.after[i] = t[Len(t) - n + i]
  <2>1. SubSeq(s, Len(s) - n + 1, Len(s)) = [i \in 1..n |-> s[Len(s) - n + i]]
    BY <1>1, <1>6
  <2>2. \A i \in 1..n : s[Len(s) - n + i] \in X
    BY <1>1, <1>6
  <2>3. h.after \in [1..n -> X]
    BY <1>2, <2>1, <2>2
  <2>4. h.after \in Seq(X) /\ Len(h.after) = n
    BY <1>6, <2>3, IsSequence
  <2>5. \A i \in 1..n : h.after[i] = s[Len(s) - n + i]
    BY <1>2, <2>1
  <2> QED BY <1>7, <2>4, <2>5
<1>10. ASSUME NEW u \in Seq(X), p <= Len(u), n <= Len(u) - p
       PROVE  LET m == SubSeq(u, p + 1, Len(u) - n) IN
              m \in Seq(X) /\ Len(m) = Len(u) - n - p /\ \A i \in 1..(Len(u) - n - p) : m[i] = u[p + i]
  <2>1. SubSeq(u, p + 1, Len(u) - n) = [i \in 1..(Len(u) - n - p) |-> u[p + i]]
    BY <1>1, <1>6, <1>10
  <2>2. \A i \in 1..(Len(u) - n - p) : u[p + i] \in X
    BY <1>1, <1>6, <1>10
  <2>3. Len(u) - n - p \in Nat
    BY <1>1, <1>6, <1>10
  <2> DEFINE m == SubSeq(u, p + 1, Len(u) - n)
             k == Len(u) - n - p
  <2>4. m \in [1..k -> X] /\ \A i \in 1..k : m[i] = u[p + i]
    BY <2>1, <2>2
  <2> HIDE DEF m, k
  <2>5. m \in Seq(X) /\ Len(m) = k
    BY <2>3, <2>4, IsSequence DEF k
  <2> QED BY <2>4, <2>5 DEF m, k
<1>11. ASSUME NEW u \in Seq(X), p <= Len(u), n <= Len(u) - p, NEW b \in Seq(X), NEW m \in Seq(X),
              NEW a \in Seq(X), Len(b) = p, Len(m) = Len(u) - n - p, Len(a) = n,
              \A i \in 1..p : b[i] = u[i], \A i \in 1..(Len(u) - n - p) : m[i] = u[p + i],
              \A i \in 1..n : a[i] = u[Len(u) - n + i]
       PROVE  u = b \o m \o a
  <2>1. Len(u) \in Nat
    OBVIOUS
  <2> DEFINE w == b \o m \o a
  <2>2. /\ w \in Seq(X) /\ Len(w) = Len(b) + Len(m) + Len(a)
        /\ \A i \in 1..Len(b) : w[i] = b[i]
        /\ \A i \in 1..Len(m) : w[Len(b) + i] = m[i]
        /\ \A i \in 1..Len(a) : w[Len(b) + Len(m) + i] = a[i]
    <3>1. w \in Seq(X) /\ InThree(b, m, a)
      BY ThreeParts
    <3> QED BY <3>1 DEF InThree
  <2> HIDE DEF w
  <2>3. /\ Len(w) = Len(u) /\ Len(b) + Len(m) = Len(u) - n
        /\ \A i \in 1..p : w[i] = u[i]
        /\ \A i \in 1..(Len(u) - n - p) : w[p + i] = u[p + i]
        /\ \A i \in 1..n : w[Len(u) - n + i] = u[Len(u) - n + i]
    <3>1. Len(b) = p /\ Len(m) = Len(u) - n - p /\ Len(a) = n
      BY <1>11
    <3>2. Len(b) + Len(m) = Len(u) - n /\ Len(b) + Len(m) + Len(a) = Len(u)
      BY <3>1, <1>1, <1>6, <2>1
    <3>3. \A i \in 1..p : w[i] = u[i]
      BY <1>11, <2>2, <3>1
    <3>4. \A i \in 1..(Len(u) - n - p) : w[p + i] = u[p + i]
      BY <1>11, <2>2, <3>1
    <3>5. \A i \in 1..n : w[Len(u) - n + i] = u[Len(u) - n + i]
      BY <1>11, <2>2, <3>1, <3>2
    <3> QED BY <2>2, <3>2, <3>3, <3>4, <3>5
  <2>4. ASSUME NEW i \in 1..Len(u) PROVE w[i] = u[i]
    <3>1. CASE i <= p
      <4>1. i \in 1..p
        BY <3>1, <1>1
      <4> QED BY <4>1, <2>3
    <3>2. CASE p < i /\ i <= Len(u) - n
      <4>1. i - p \in 1..(Len(u) - n - p) /\ p + (i - p) = i
        BY <3>2, <1>1, <1>6, <2>1
      <4> QED BY <4>1, <2>3
    <3>3. CASE i > Len(u) - n
      <4>1. i - (Len(u) - n) \in 1..n /\ Len(u) - n + (i - (Len(u) - n)) = i
        BY <3>3, <1>1, <1>6, <2>1
      <4> QED BY <4>1, <2>3
    <3> QED BY <3>1, <3>2, <3>3, <2>1, <1>1, <1>6
  <2> HIDE DEF h
  <2>5. w = [i \in 1..Len(u) |-> w[i]] /\ u = [i \in 1..Len(u) |-> u[i]]
    BY <2>2, <2>3
  <2>6. w = u
    BY <2>4, <2>5
  <2> QED BY <2>6 DEF w
<1>12. h.ours \in Seq(X) /\ h.theirs \in Seq(X)
  BY <1>1, <1>2, <1>6, <1>10
<1>13. s = h.before \o h.ours \o h.after
  <2>1. p <= Len(s) /\ n <= Len(s) - p
    BY <1>1, <1>6
  <2>2. Len(h.ours) = Len(s) - n - p /\ \A i \in 1..(Len(s) - n - p) : h.ours[i] = s[p + i]
    BY <1>2, <1>10, <2>1
  <2> HIDE DEF h
  <2>3. \A b, m, a \in Seq(X) :
          /\ Len(b) = p /\ Len(m) = Len(s) - n - p /\ Len(a) = n
          /\ \A i \in 1..p : b[i] = s[i]
          /\ \A i \in 1..(Len(s) - n - p) : m[i] = s[p + i]
          /\ \A i \in 1..n : a[i] = s[Len(s) - n + i]
          => s = b \o m \o a
    BY <1>11, <2>1
  <2>4. /\ \A i \in 1..p : h.before[i] = s[i]
        /\ \A i \in 1..n : h.after[i] = s[Len(s) - n + i]
    BY <1>8, <1>9
  <2>5. Len(h.before) = p /\ Len(h.after) = n /\ h.before \in Seq(X) /\ h.after \in Seq(X)
    BY <1>8, <1>9
  <2> QED BY <1>12, <2>2, <2>3, <2>4, <2>5
<1>14. t = h.before \o h.theirs \o h.after
  <2>1. p <= Len(t) /\ n <= Len(t) - p
    BY <1>1, <1>6
  <2>2. Len(h.theirs) = Len(t) - n - p /\ \A i \in 1..(Len(t) - n - p) : h.theirs[i] = t[p + i]
    BY <1>2, <1>10, <2>1
  <2> HIDE DEF h
  <2>3. \A b, m, a \in Seq(X) :
          /\ Len(b) = p /\ Len(m) = Len(t) - n - p /\ Len(a) = n
          /\ \A i \in 1..p : b[i] = t[i]
          /\ \A i \in 1..(Len(t) - n - p) : m[i] = t[p + i]
          /\ \A i \in 1..n : a[i] = t[Len(t) - n + i]
          => t = b \o m \o a
    BY <1>11, <2>1
  <2>4. /\ \A i \in 1..p : h.before[i] = t[i]
        /\ \A i \in 1..n : h.after[i] = t[Len(t) - n + i]
    BY <1>8, <1>9
  <2>5. Len(h.before) = p /\ Len(h.after) = n /\ h.before \in Seq(X) /\ h.after \in Seq(X)
    BY <1>8, <1>9
  <2> QED BY <1>12, <2>2, <2>3, <2>4, <2>5
<1> QED BY <1>8, <1>9, <1>12, <1>13, <1>14 DEF h

-----------------------------------------------------------------------------
(* Stripping, from any state and piece by piece.                           *)

\* A run of StripLine over the lines s, from the state v to the state w.
StripsTo(v, s, w) ==
  \E F : /\ F[0] = v /\ F[Len(s)] = w
         /\ \A n \in 1..Len(s) : F[n] = StripLine(F[n - 1], s[n])

\* A state of stripping.
Stripped(o, inside, conflict) == [out |-> o, inSection |-> inside, inConflict |-> conflict]

\* Stripping is such a run from the start.
LEMMA StripIs ==
  ASSUME NEW X, NEW doc \in Seq(X), NEW w, StripsTo(StripStart, doc, w)
  PROVE  StripSectionConflicts(doc) = w.out
<1> DEFINE N == Len(doc)
           Body(f) == [n \in 0..N |-> IF n = 0 THEN StripStart ELSE StripLine(f[n - 1], doc[n])]
           after == CHOOSE f : f = Body(f)
<1>1. StripSectionConflicts(doc) = after[N].out
  BY DEF StripSectionConflicts
<1>2. N \in Nat
  OBVIOUS
<1> HIDE DEF N
<1>3. PICK F : F[0] = StripStart /\ F[N] = w /\ \A n \in 1..N : F[n] = StripLine(F[n - 1], doc[n])
  BY DEF StripsTo, N
<1> DEFINE f == [n \in 0..N |-> F[n]]
<1>4. \A n \in 1..N : n \in 0..N /\ n - 1 \in 0..N /\ n # 0
  BY <1>2
<1>5. \A n \in 0..N : n # 0 => n \in 1..N
  BY <1>2
<1>6. f = Body(f)
  <2>1. ASSUME NEW n \in 0..N PROVE F[n] = IF n = 0 THEN StripStart ELSE StripLine(f[n - 1], doc[n])
    <3>1. CASE n = 0
      BY <3>1, <1>3
    <3>2. CASE n # 0
      <4>1. n \in 1..N /\ f[n - 1] = F[n - 1]
        BY <3>2, <1>4, <1>5
      <4> QED BY <3>2, <4>1, <1>3
    <3> QED BY <3>1, <3>2
  <2> QED BY <2>1
<1>7. after = Body(after)
  <2> HIDE DEF f, Body
  <2> QED BY <1>6
<1> HIDE DEF after
<1>8. after[0] = StripStart /\ \A n \in 1..N : after[n] = StripLine(after[n - 1], doc[n])
  <2>1. \A n \in 0..N : after[n] = IF n = 0 THEN StripStart ELSE StripLine(after[n - 1], doc[n])
    BY <1>7
  <2>2. 0 \in 0..N
    BY <1>2
  <2> HIDE DEF Body
  <2> QED BY <1>4, <2>1, <2>2
<1> DEFINE S == {n \in Nat : n <= N => after[n] = F[n]}
<1>9. Nat \subseteq S
  <2>1. 0 \in S
    BY <1>3, <1>8
  <2>2. ASSUME NEW n \in Nat, n \in S PROVE n + 1 \in S
    <3> SUFFICES ASSUME n + 1 <= N PROVE after[n + 1] = F[n + 1]
      OBVIOUS
    <3>1. n + 1 \in 1..N /\ n + 1 - 1 = n /\ n <= N
      BY <1>2
    <3> QED BY <1>3, <1>8, <2>2, <3>1
  <2> HIDE DEF S
  <2> QED BY <2>1, <2>2, NatInd
<1> QED BY <1>1, <1>2, <1>3, <1>9

\* Runs follow one another.
LEMMA StripsConcat ==
  ASSUME NEW X, NEW s \in Seq(X), NEW t \in Seq(X), NEW u, NEW v, NEW w,
         StripsTo(u, s, v), StripsTo(v, t, w)
  PROVE  StripsTo(u, s \o t, w)
<1> DEFINE m == Len(s)
           k == Len(t)
           st == s \o t
<1> PICK F : F[0] = u /\ F[m] = v /\ \A n \in 1..m : F[n] = StripLine(F[n - 1], s[n])
  BY DEF StripsTo
<1> PICK G : G[0] = v /\ G[k] = w /\ \A n \in 1..k : G[n] = StripLine(G[n - 1], t[n])
  BY DEF StripsTo
<1>1. m \in Nat /\ k \in Nat
  OBVIOUS
<1>2. /\ Len(st) = m + k
      /\ \A n \in 1..m : st[n] = s[n]
      /\ \A n \in 1..k : st[m + n] = t[n]
  OBVIOUS
<1> HIDE DEF m, k, st
<1> DEFINE H == [n \in 0..m + k |-> IF n <= m THEN F[n] ELSE G[n - m]]
<1>3. /\ \A n \in 0..m : H[n] = F[n]
      /\ \A n \in 0..k : H[m + n] = G[n]
  <2>1. \A n \in 0..m : H[n] = F[n]
    BY <1>1
  <2>2. ASSUME NEW n \in 0..k PROVE H[m + n] = G[n]
    <3>1. CASE n = 0
      BY <3>1, <1>1
    <3>2. CASE n # 0
      <4> DEFINE i == m + n
      <4>1. i \in 0..m + k /\ ~(i <= m) /\ i - m = n
        BY <3>2, <1>1
      <4> HIDE DEF i
      <4>2. H[i] = G[i - m]
        BY <4>1
      <4> QED BY <4>1, <4>2 DEF i
    <3> QED BY <3>1, <3>2
  <2> QED BY <2>1, <2>2
<1> HIDE DEF H
<1>4. ASSUME NEW n \in 1..m + k PROVE H[n] = StripLine(H[n - 1], st[n])
  <2>1. CASE n <= m
    <3>1. n \in 1..m /\ n \in 0..m /\ n - 1 \in 0..m
      BY <2>1, <1>1
    <3> QED BY <3>1, <1>2, <1>3
  <2>2. CASE n > m
    <3> DEFINE i == n - m
    <3>1. i \in 1..k /\ i \in 0..k /\ i - 1 \in 0..k /\ m + i = n /\ m + (i - 1) = n - 1
      BY <2>2, <1>1
    <3> HIDE DEF i
    <3>2. st[n] = t[i] /\ H[n] = G[i] /\ H[n - 1] = G[i - 1]
      BY <3>1, <1>2, <1>3
    <3> QED BY <3>1, <3>2
  <2> QED BY <2>1, <2>2, <1>1
<1>5. H[0] = u /\ H[m + k] = w
  <2>1. 0 \in 0..m /\ k \in 0..k
    BY <1>1
  <2> QED BY <1>3, <2>1
<1>6. StripsTo(u, st, w)
  BY <1>2, <1>4, <1>5 DEF StripsTo
<1> QED BY <1>6 DEF st

\* A run over one line.
LEMMA StripsOne ==
  ASSUME NEW v, NEW l
  PROVE  StripsTo(v, <<l>>, StripLine(v, l))
<1> DEFINE F == [n \in 0..1 |-> IF n = 0 THEN v ELSE StripLine(v, l)]
           s == <<l>>
<1>1. Len(s) = 1 /\ s[1] = l /\ \A n \in 1..1 : n = 1
  OBVIOUS
<1>2. F[0] = v /\ F[1] = StripLine(v, l) /\ 1 - 1 = 0
  OBVIOUS
<1> HIDE DEF F, s
<1>3. StripsTo(v, s, StripLine(v, l))
  BY <1>1, <1>2 DEF StripsTo
<1> QED BY <1>3 DEF s

\* A document up to a line is the document before it and the line.
LEMMA OneMore ==
  ASSUME NEW X, NEW s \in Seq(X), NEW n \in 1..Len(s)
  PROVE  /\ SubSeq(s, 1, n - 1) \in Seq(X) /\ s[n] \in X
         /\ SubSeq(s, 1, n) = SubSeq(s, 1, n - 1) \o <<s[n]>>
         /\ SubSeq(s, 1, n) = Append(SubSeq(s, 1, n - 1), s[n])
OBVIOUS

-----------------------------------------------------------------------------
(* Sections.                                                               *)

\* Where no conflict opens in a section, stripping keeps every line.
LEMMA StripsNothing ==
  ASSUME NEW X, NEW s \in Seq(X), NEW o \in Seq(X), NEW D, Follows(D, s),
         \A n \in 1..Len(s) : s[n] = "open" => ~D[n]
  PROVE  StripsTo(Stripped(o, D[0], FALSE), s, Stripped(o \o s, D[Len(s)], FALSE))
<1> DEFINE N == Len(s)
           F == [n \in 0..N |-> Stripped(o \o SubSeq(s, 1, n), D[n], FALSE)]
<1>1. N \in Nat /\ SubSeq(s, 1, N) = s /\ o \o SubSeq(s, 1, 0) = o
  OBVIOUS
<1>2. F[0] = Stripped(o, D[0], FALSE) /\ F[N] = Stripped(o \o s, D[N], FALSE)
  <2>1. 0 \in 0..N /\ N \in 0..N
    BY <1>1
  <2>2. /\ F[0] = Stripped(o \o SubSeq(s, 1, 0), D[0], FALSE)
        /\ F[N] = Stripped(o \o SubSeq(s, 1, N), D[N], FALSE)
    BY <2>1
  <2> HIDE DEF F
  <2> QED BY <1>1, <2>2
<1>3. ASSUME NEW n \in 1..N PROVE F[n] = StripLine(F[n - 1], s[n])
  <2>1. n - 1 \in 0..N /\ n \in 0..N
    BY <1>1
  <2> DEFINE p == o \o SubSeq(s, 1, n - 1)
             v == Stripped(p, D[n - 1], FALSE)
             inside == D[n - 1] \/ s[n] = "start"
  <2>2. o \o SubSeq(s, 1, n) = Append(p, s[n])
    <3>1. /\ SubSeq(s, 1, n - 1) \in Seq(X) /\ s[n] \in X
          /\ SubSeq(s, 1, n) = Append(SubSeq(s, 1, n - 1), s[n])
      BY OneMore
    <3> HIDE DEF N
    <3> QED BY <3>1
  <2>3. F[n] = Stripped(Append(p, s[n]), D[n], FALSE) /\ F[n - 1] = v
    BY <2>1, <2>2
  <2>4. ~(inside /\ s[n] = "open")
    BY DEF Follows, SectionMarkers
  <2>5. StripLine(v, s[n]) =
          [out |-> Append(p, s[n]), inSection |-> inside /\ s[n] # "end", inConflict |-> FALSE]
    <3> HIDE DEF p
    <3> QED BY <2>4 DEF StripLine, Stripped
  <2>6. (inside /\ s[n] # "end") = D[n]
    <3>1. D[n] \in BOOLEAN /\ D[n - 1] \in BOOLEAN
      BY <2>1 DEF Follows
    <3> QED BY <3>1 DEF Follows, SectionMarkers
  <2> HIDE DEF F, v, p, inside
  <2> QED BY <2>3, <2>5, <2>6 DEF Stripped
<1> HIDE DEF F
<1> QED BY <1>2, <1>3 DEF StripsTo, N

\* A line that is no marker.
Plain(l) == l \notin SectionMarkers \cup ConflictLines

\* In a conflict in a section, lines of text are kept, and "base" and "sep" are not.
LEMMA StripsInside ==
  ASSUME NEW X, NEW s \in Seq(X), NEW o \in Seq(X),
         \A n \in 1..Len(s) : Plain(s[n]) \/ s[n] \in {"base", "sep"}
  PROVE  \E z \in Seq({x \in X : Plain(x)}) :
            StripsTo(Stripped(o, TRUE, TRUE), s, Stripped(o \o z, TRUE, TRUE))
<1> DEFINE N == Len(s)
           P == {x \in X : Plain(x)}
           v == Stripped(o, TRUE, TRUE)
           Good(n) == \E z \in Seq(P) : StripsTo(v, SubSeq(s, 1, n), Stripped(o \o z, TRUE, TRUE))
           S == {n \in Nat : n <= N => Good(n)}
<1>1. N \in Nat /\ SubSeq(s, 1, N) = s
  OBVIOUS
<1>2. 0 \in S
  <2> DEFINE F == [n \in 0..0 |-> v]
             e == SubSeq(s, 1, 0)
  <2>1. Len(e) = 0 /\ F[0] = v /\ 1..0 = {}
    OBVIOUS
  <2>2. o \o <<>> = o /\ <<>> \in Seq(P)
    OBVIOUS
  <2> HIDE DEF F, e, v
  <2>3. StripsTo(v, e, v)
    BY <2>1 DEF StripsTo
  <2> QED BY <2>2, <2>3 DEF v, e
<1>3. ASSUME NEW n \in Nat, n \in S PROVE n + 1 \in S
  <2> SUFFICES ASSUME n + 1 <= N PROVE Good(n + 1)
    <3> HIDE DEF Good
    <3> QED OBVIOUS
  <2>0. Good(n)
    <3> HIDE DEF Good
    <3> QED BY <1>1, <1>3
  <2> PICK z \in Seq(P) : StripsTo(v, SubSeq(s, 1, n), Stripped(o \o z, TRUE, TRUE))
    BY <2>0
  <2> DEFINE l == s[n + 1]
             w == Stripped(o \o z, TRUE, TRUE)
             x == StripLine(w, l)
  <2>1. n + 1 \in 1..N /\ n + 1 - 1 = n
    BY <1>1
  <2>2. /\ SubSeq(s, 1, n) \in Seq(X) /\ l \in X
        /\ SubSeq(s, 1, n + 1) = SubSeq(s, 1, n) \o <<l>>
    BY <2>1, OneMore
  <2>3. StripsTo(v, SubSeq(s, 1, n + 1), x)
    <3> HIDE DEF v, w, l
    <3>1. StripsTo(w, <<l>>, x) /\ <<l>> \in Seq(X)
      BY <2>2, StripsOne
    <3> HIDE DEF x
    <3> QED BY <2>2, <3>1, StripsConcat DEF w
  <2>4. CASE l \in {"base", "sep"}
    <3>1. x = w
      <4> DEFINE oz == o \o z
      <4> HIDE DEF l, oz
      <4> QED BY <2>4 DEF StripLine, Stripped
    <3> QED BY <2>3, <3>1
  <2>5. CASE Plain(l)
    <3>1. x = Stripped(Append(o \o z, l), TRUE, TRUE)
      <4> DEFINE oz == o \o z
      <4> HIDE DEF l, oz
      <4> QED BY <2>5 DEF StripLine, Stripped, Plain, SectionMarkers, ConflictLines
    <3>2. Append(z, l) \in Seq(P) /\ l \in P
      BY <2>2, <2>5
    <3>3. Append(o \o z, l) = o \o Append(z, l)
      <4>1. z \in Seq(X) /\ l \in X
        BY <2>2
      <4> HIDE DEF l, P
      <4>2. /\ Append(o \o z, l) = (o \o z) \o <<l>> /\ Append(z, l) = z \o <<l>>
            /\ <<l>> \in Seq(X)
        BY <4>1
      <4> QED BY <4>1, <4>2, ConcatAssociative
    <3> QED BY <2>3, <3>1, <3>2, <3>3
  <2>6. Plain(l) \/ l \in {"base", "sep"}
    BY <2>1
  <2> QED BY <2>4, <2>5, <2>6
<1>4. Good(N)
  <2>1. Nat \subseteq S
    <3> HIDE DEF S
    <3> QED BY <1>2, <1>3, NatInd
  <2> HIDE DEF Good
  <2> QED BY <1>1, <2>1
<1> QED BY <1>1, <1>4

-----------------------------------------------------------------------------
(* What fix makes of a document whose sections are closed, one after another. *)

\* The states of FindMarkerPairs.
MarkerState == [pairs : SUBSET (Nat \X Nat), from : Nat, depth : Nat]

\* Marker pairs after n lines: of each section that is closed its first and last
\* line, and of an open one the first.
Paired(D, u, n, v) ==
  /\ v.depth = 0 /\ v.from \in 0..n
  /\ v.from = 0 <=> ~D[n]
  /\ v.from # 0 => u[v.from] = "start" /\ \A k \in v.from..n : D[k]
  /\ \A p \in v.pairs : /\ p[1] \in 1..n /\ p[2] \in 1..n /\ p[1] < p[2]
                        /\ u[p[1]] = "start" /\ u[p[2]] = "end"
                        /\ \A k \in p[1]..(p[2] - 1) : D[k]
  /\ \A k \in 1..n : D[k] => \/ v.from # 0 /\ v.from <= k
                             \/ \E p \in v.pairs : p[1] <= k /\ k < p[2]

\* Before the first line no marker was paired.
LEMMA PairsStart ==
  ASSUME NEW u, NEW D, ~D[0]
  PROVE  Paired(D, u, 0, [pairs |-> {}, from |-> 0, depth |-> 0])
BY DEF Paired

\* A line keeps the marker pairs true to the sections.
LEMMA PairsStep ==
  ASSUME NEW X, NEW u \in Seq(X), NEW D, Follows(D, u), NEW n \in 1..Len(u),
         NEW v \in MarkerState, Paired(D, u, n - 1, v)
  PROVE  /\ Paired(D, u, n, MarkerStep(u, v, n))
         /\ MarkerStep(u, v, n) \in MarkerState
<1> DEFINE w == MarkerStep(u, v, n)
<1>1. n \in Nat /\ n # 0 /\ n - 1 \in Nat /\ 0..n = 0..(n - 1) \cup {n} /\ 1..n = 1..(n - 1) \cup {n}
  OBVIOUS
<1>2. /\ u[n] = "start" => ~D[n - 1] /\ D[n]
      /\ u[n] = "end" => D[n - 1] /\ ~D[n]
      /\ u[n] \notin {"start", "end"} => D[n] = D[n - 1]
  BY DEF Follows, SectionMarkers
<1>b. D[n - 1] \in BOOLEAN /\ D[n] \in BOOLEAN
  BY <1>1 DEF Follows
<1>3. /\ v.depth = 0 /\ v.from \in Nat /\ v.from <= n - 1 /\ (v.from = 0 <=> ~D[n - 1])
      /\ v.pairs \in SUBSET (Nat \X Nat)
      /\ v = [pairs |-> v.pairs, from |-> v.from, depth |-> v.depth]
  BY DEF Paired, MarkerState
<1>4. CASE u[n] = "start"
  <2>1. w = [pairs |-> v.pairs, from |-> n, depth |-> 0]
    BY <1>2, <1>3, <1>4 DEF MarkerStep
  <2>2. v.from = 0 /\ D[n]
    BY <1>2, <1>3, <1>4
  <2>3. w \in MarkerState
    BY <1>1, <1>3, <2>1 DEF MarkerState
  <2>4. \A k \in n..n : D[k]
    BY <2>2
  <2>5. \A k \in 1..n : D[k] => n <= k \/ \E p \in v.pairs : p[1] <= k /\ k < p[2]
    <3> SUFFICES ASSUME NEW k \in 1..n, D[k], ~(n <= k) PROVE \E p \in v.pairs : p[1] <= k /\ k < p[2]
      OBVIOUS
    <3>1. k \in 1..(n - 1)
      BY <1>1
    <3> QED BY <2>2, <3>1 DEF Paired
  <2>6. \A p \in v.pairs : /\ p[1] \in 1..n /\ p[2] \in 1..n /\ p[1] < p[2]
                           /\ u[p[1]] = "start" /\ u[p[2]] = "end"
                           /\ \A k \in p[1]..(p[2] - 1) : D[k]
    BY <1>1 DEF Paired
  <2> HIDE DEF w
  <2>7. Paired(D, u, n, w)
    <3>1. w.pairs = v.pairs /\ w.from = n /\ w.depth = 0
      BY <2>1
    <3> QED BY <1>1, <1>4, <2>2, <2>4, <2>5, <2>6, <3>1 DEF Paired
  <2> QED BY <2>3, <2>7 DEF w
<1>5. CASE u[n] = "end"
  <2>1. v.from # 0 /\ ~D[n]
    BY <1>2, <1>3, <1>5
  <2>2. w = [pairs |-> v.pairs \cup {<<v.from, n>>}, from |-> 0, depth |-> 0]
    <3>1. ~(v.depth > 0) /\ v.depth = 0
      BY <1>3
    <3>2. w = [v EXCEPT !.pairs = @ \cup {<<v.from, n>>}, !.from = 0]
      BY <1>5, <2>1, <3>1 DEF MarkerStep
    <3> QED BY <1>3, <3>1, <3>2
  <2>3. w \in MarkerState
    BY <1>1, <1>3, <2>2 DEF MarkerState
  <2>4. u[v.from] = "start" /\ \A k \in v.from..(n - 1) : D[k]
    BY <2>1 DEF Paired
  <2> HIDE DEF w
  <2>5. ASSUME NEW p \in w.pairs
        PROVE  /\ p[1] \in 1..n /\ p[2] \in 1..n /\ p[1] < p[2]
               /\ u[p[1]] = "start" /\ u[p[2]] = "end"
               /\ \A k \in p[1]..(p[2] - 1) : D[k]
    <3>1. CASE p \in v.pairs
      BY <1>1, <3>1 DEF Paired
    <3>2. CASE p = <<v.from, n>>
      <4>1. p[1] = v.from /\ p[2] = n /\ v.from \in 1..n /\ v.from < n /\ n \in 1..n
        BY <1>1, <1>3, <2>1, <3>2
      <4> QED BY <1>5, <2>4, <4>1
    <3> QED BY <2>2, <3>1, <3>2
  <2>6. \A k \in 1..n : D[k] => \E p \in w.pairs : p[1] <= k /\ k < p[2]
    <3> SUFFICES ASSUME NEW k \in 1..n, D[k] PROVE \E p \in w.pairs : p[1] <= k /\ k < p[2]
      OBVIOUS
    <3>1. k \in 1..(n - 1)
      BY <1>1, <2>1
    <3>2. CASE \E p \in v.pairs : p[1] <= k /\ k < p[2]
      BY <2>2, <3>2
    <3>3. CASE v.from <= k
      <4> DEFINE p == <<v.from, n>>
      <4>1. p[1] = v.from /\ p[2] = n /\ p \in w.pairs
        BY <2>2
      <4>2. k < n
        BY <3>1, <1>1
      <4> HIDE DEF p
      <4> QED BY <3>3, <4>1, <4>2
    <3> QED BY <3>1, <3>2, <3>3 DEF Paired
  <2>7. w.from = 0 /\ w.depth = 0
    BY <2>2
  <2>8. Paired(D, u, n, w)
    BY <1>1, <2>1, <2>5, <2>6, <2>7 DEF Paired
  <2> QED BY <2>3, <2>8 DEF w
<1>6. CASE u[n] \notin {"start", "end"}
  <2>1. w = v
    BY <1>6 DEF MarkerStep
  <2>2. D[n] = D[n - 1]
    BY <1>2, <1>6
  <2>3. v.from # 0 => u[v.from] = "start" /\ \A k \in v.from..n : D[k]
    <3> SUFFICES ASSUME v.from # 0 PROVE u[v.from] = "start" /\ \A k \in v.from..n : D[k]
      OBVIOUS
    <3>1. u[v.from] = "start" /\ \A k \in v.from..(n - 1) : D[k]
      BY DEF Paired
    <3>2. D[n]
      BY <1>3, <2>2
    <3>3. \A k \in v.from..n : k \in v.from..(n - 1) \/ k = n
      BY <1>1, <1>3
    <3> QED BY <3>1, <3>2, <3>3
  <2>4. \A k \in 1..n : D[k] => \/ v.from # 0 /\ v.from <= k
                                \/ \E p \in v.pairs : p[1] <= k /\ k < p[2]
    <3> SUFFICES ASSUME NEW k \in 1..n, D[k]
                 PROVE  \/ v.from # 0 /\ v.from <= k
                        \/ \E p \in v.pairs : p[1] <= k /\ k < p[2]
      OBVIOUS
    <3>1. CASE k = n
      BY <1>1, <1>3, <2>2, <3>1
    <3>2. CASE k # n
      <4>1. k \in 1..(n - 1)
        BY <1>1, <3>2
      <4> QED BY <4>1 DEF Paired
    <3> QED BY <3>1, <3>2
  <2>5. \A p \in v.pairs : /\ p[1] \in 1..n /\ p[2] \in 1..n /\ p[1] < p[2]
                           /\ u[p[1]] = "start" /\ u[p[2]] = "end"
                           /\ \A k \in p[1]..(p[2] - 1) : D[k]
    BY <1>1 DEF Paired
  <2>6. v.from \in 0..n
    BY <1>1, <1>3
  <2>7. Paired(D, u, n, v)
    BY <1>3, <2>2, <2>3, <2>4, <2>5, <2>6 DEF Paired
  <2> QED BY <2>1, <2>7
<1> QED BY <1>4, <1>5, <1>6

\* A line is in a section that is regenerated if one is open before and after
\* it, and starts one if it is open after it only.
LEMMA PairsAre ==
  ASSUME NEW X, NEW u \in Seq(X), NEW D, Sections(D, u), NEW i \in 1..Len(u)
  PROVE  /\ (\E p \in FindMarkerPairs(u) : p[1] < i /\ i < p[2]) <=> D[i - 1] /\ D[i]
         /\ (\E p \in FindMarkerPairs(u) : p[1] = i) <=> ~D[i - 1] /\ D[i]
<1> DEFINE N == Len(u)
           none == [pairs |-> {}, from |-> 0, depth |-> 0]
           Step(v, n) == MarkerStep(u, v, n)
           V == MarkerState
           Good == [n \in 0..N |-> {v \in V : Paired(D, u, n, v)}]
           Body(f) == [n \in 0..N |-> IF n = 0 THEN none ELSE Step(f[n - 1], n)]
           after == CHOOSE f : f = Body(f)
<1>1. FindMarkerPairs(u) = after[N].pairs
  BY DEF FindMarkerPairs
<1>2. N \in Nat /\ Follows(D, u) /\ ~D[0] /\ ~D[N]
  BY DEF Sections
<1>3. none \in Good[0]
  <2>1. none \in V /\ 0 \in 0..N
    BY <1>2 DEF MarkerState
  <2> QED BY <1>2, <2>1, PairsStart
<1>4. \A n \in 1..N : \A v \in Good[n - 1] : Step(v, n) \in Good[n]
  <2> SUFFICES ASSUME NEW n \in 1..N, NEW v \in Good[n - 1] PROVE Step(v, n) \in Good[n]
    OBVIOUS
  <2>1. n - 1 \in 0..N /\ n \in 0..N
    BY <1>2
  <2>2. v \in MarkerState /\ Paired(D, u, n - 1, v)
    BY <2>1
  <2>3. Paired(D, u, n, MarkerStep(u, v, n)) /\ MarkerStep(u, v, n) \in MarkerState
    BY <1>2, <2>2, PairsStep
  <2> QED BY <2>1, <2>3
<1>5. \A v \in Good[N] : v \in V /\ Paired(D, u, N, v)
  <2>1. N \in 0..N
    BY <1>2
  <2> QED BY <2>1
<1> HIDE DEF Good, V, none, N, Step
<1>6. after[N] \in Good[N]
  <2> DEFINE G == [x \in (1..N) \X V |-> Step(x[2], x[1])]
  <2>1. \A n \in 1..N : \A v \in Good[n - 1] : v \in V /\ G[<<n, v>>] = Step(v, n)
    <3>1. \A n \in 1..N : \A v \in Good[n - 1] : v \in V
      <4>1. \A n \in 1..N : n - 1 \in 0..N
        BY <1>2
      <4> QED BY <4>1 DEF Good
    <3>2. \A n \in 1..N : \A v \in V : G[<<n, v>>] = Step(v, n)
      OBVIOUS
    <3> HIDE DEF G
    <3> QED BY <3>1, <3>2
  <2> HIDE DEF G
  <2>2. Iterated(Good, N, none, G)
    <3>1. \A n \in 1..N : \A v \in Good[n - 1] : G[<<n, v>>] \in Good[n]
      BY <1>4, <2>1
    <3> QED BY <1>2, <1>3, <3>1, Iteration
  <2> PICK f : /\ f[0] = none /\ \A n \in 1..N : f[n] = G[<<n, f[n - 1]>>]
               /\ \A n \in 0..N : f[n] \in Good[n]
    BY <2>2 DEF Iterated
  <2>3. \A n \in 1..N : f[n] = Step(f[n - 1], n)
    <3>1. \A n \in 1..N : n - 1 \in 0..N
      BY <1>2
    <3> QED BY <2>1, <3>1
  <2> DEFINE h == [n \in 0..N |-> f[n]]
  <2>4. \A n \in 0..N : n # 0 => n \in 1..N /\ n - 1 \in 0..N
    BY <1>2
  <2>5. h = Body(h)
    <3>1. \A n \in 0..N : f[n] = IF n = 0 THEN none ELSE Step(h[n - 1], n)
      BY <2>3, <2>4
    <3> QED BY <3>1
  <2>6. after = Body(after)
    <3> HIDE DEF h, Body
    <3> QED BY <2>5
  <2> HIDE DEF after
  <2>7. \A n \in 0..N : after[n] = IF n = 0 THEN none ELSE Step(after[n - 1], n)
    BY <2>6
  <2> DEFINE T == {n \in Nat : n <= N => after[n] = f[n]}
  <2>8. 0 \in T
    <3>1. 0 \in 0..N
      BY <1>2
    <3> QED BY <2>7, <3>1
  <2>9. ASSUME NEW n \in Nat, n \in T PROVE n + 1 \in T
    <3> SUFFICES ASSUME n + 1 <= N PROVE after[n + 1] = f[n + 1]
      OBVIOUS
    <3>1. n + 1 \in 1..N /\ n + 1 \in 0..N /\ n + 1 # 0 /\ n + 1 - 1 = n /\ n <= N
      BY <1>2
    <3>2. after[n] = f[n]
      BY <2>9, <3>1
    <3>3. after[n + 1] = Step(after[n + 1 - 1], n + 1)
      BY <2>7, <3>1
    <3>4. f[n + 1] = Step(f[n], n + 1)
      BY <2>3, <3>1
    <3> QED BY <3>1, <3>2, <3>3, <3>4
  <2>10. after[N] = f[N]
    <3>1. Nat \subseteq T
      <4> HIDE DEF T
      <4> QED BY <2>8, <2>9, NatInd
    <3> QED BY <1>2, <3>1
  <2> QED BY <1>2, <2>10
<1> DEFINE v == after[N]
<1>7. v \in MarkerState /\ Paired(D, u, N, v)
  BY <1>5, <1>6 DEF V
<1> HIDE DEF after
<1>8. /\ \A p \in v.pairs : /\ p[1] \in 1..N /\ p[2] \in 1..N /\ p[1] < p[2]
                            /\ u[p[1]] = "start" /\ u[p[2]] = "end"
                            /\ \A k \in p[1]..(p[2] - 1) : D[k]
      /\ \A k \in 1..N : D[k] => \E p \in v.pairs : p[1] <= k /\ k < p[2]
  BY <1>2, <1>7 DEF Paired
<1> HIDE DEF v
<1>i. i \in 1..N /\ i \in Nat /\ i - 1 \in Nat
  BY <1>2 DEF N
<1>9. /\ u[i] = "start" => ~D[i - 1] /\ D[i]
      /\ u[i] = "end" => D[i - 1] /\ ~D[i]
  BY <1>2, <1>i DEF Follows, SectionMarkers
<1>10. ASSUME NEW p \in v.pairs, p[1] < i, i < p[2] PROVE D[i - 1] /\ D[i]
  <2>1. p[1] \in Nat /\ p[2] \in Nat /\ \A k \in p[1]..(p[2] - 1) : D[k]
    BY <1>2, <1>8
  <2>2. i - 1 \in p[1]..(p[2] - 1) /\ i \in p[1]..(p[2] - 1)
    BY <1>10, <1>i, <2>1
  <2> QED BY <2>1, <2>2
<1>11. ASSUME D[i - 1], D[i] PROVE \E p \in v.pairs : p[1] < i /\ i < p[2]
  <2> PICK p \in v.pairs : p[1] <= i /\ i < p[2]
    BY <1>8, <1>11, <1>i
  <2>1. p[1] # i
    BY <1>8, <1>9, <1>11
  <2>2. p[1] \in Nat
    BY <1>2, <1>8
  <2> QED BY <1>i, <2>1, <2>2
<1>12. ASSUME NEW p \in v.pairs, p[1] = i PROVE ~D[i - 1] /\ D[i]
  BY <1>8, <1>9, <1>12
<1>13. ASSUME ~D[i - 1], D[i] PROVE \E p \in v.pairs : p[1] = i
  <2> PICK p \in v.pairs : p[1] <= i /\ i < p[2]
    BY <1>8, <1>13, <1>i
  <2>1. p[1] \in Nat /\ p[2] \in Nat /\ \A k \in p[1]..(p[2] - 1) : D[k]
    BY <1>2, <1>8
  <2>2. ~(p[1] < i)
    <3> SUFFICES ASSUME p[1] < i PROVE FALSE
      OBVIOUS
    <3>1. i - 1 \in p[1]..(p[2] - 1)
      BY <1>i, <2>1
    <3> QED BY <1>13, <2>1, <3>1
  <2> QED BY <1>i, <2>1, <2>2
<1> QED BY <1>1, <1>10, <1>11, <1>12, <1>13 DEF v

\* What fix makes of one line, with a section open before it or after it.
Fixed(before, after, out, l) ==
  IF before /\ after THEN out
  ELSE IF ~before /\ after THEN out \o <<l, "new">>
  ELSE Append(out, l)

\* The document that fix has made after each line.
Regenerates(R, D, u) ==
  R[0] = <<>> /\ \A n \in 1..Len(u) : R[n] = Fixed(D[n - 1], D[n], R[n - 1], u[n])

\* Regenerate makes the lines one by one from where the sections are.
LEMMA RegenerateIs ==
  ASSUME NEW X, NEW u \in Seq(X), NEW D, Sections(D, u), NEW R, Regenerates(R, D, u)
  PROVE  Regenerate(u) = R[Len(u)]
<1> DEFINE N == Len(u)
           pairs == FindMarkerPairs(u)
           Step(out, n) == Keep(pairs, u, out, n)
           Body(f) == [n \in 0..N |-> IF n = 0 THEN <<>> ELSE Step(f[n - 1], n)]
           after == CHOOSE f : f = Body(f)
<1>1. Regenerate(u) = after[N]
  BY DEF Regenerate
<1>2. N \in Nat
  OBVIOUS
<1>3. \A n \in 1..N : \A out : Step(out, n) = Fixed(D[n - 1], D[n], out, u[n])
  <2> TAKE n \in 1..N
  <2>1. /\ (\E p \in pairs : p[1] < n /\ n < p[2]) <=> D[n - 1] /\ D[n]
        /\ (\E p \in pairs : p[1] = n) <=> ~D[n - 1] /\ D[n]
    BY PairsAre
  <2> HIDE DEF pairs
  <2> QED BY <2>1 DEF Keep, Fixed
<1>4. R[0] = <<>> /\ \A n \in 1..N : R[n] = Fixed(D[n - 1], D[n], R[n - 1], u[n])
  BY DEF Regenerates
<1> HIDE DEF N, Step
<1>5. \A n \in 1..N : R[n] = Step(R[n - 1], n)
  BY <1>3, <1>4
<1>6. \A n \in 0..N : n # 0 => n \in 1..N /\ n - 1 \in 0..N
  BY <1>2
<1> DEFINE f == [n \in 0..N |-> R[n]]
<1>7. f = Body(f)
  <2>1. \A n \in 0..N : R[n] = IF n = 0 THEN <<>> ELSE Step(f[n - 1], n)
    BY <1>4, <1>5, <1>6
  <2> QED BY <2>1
<1>8. after = Body(after)
  <2> HIDE DEF f, Body
  <2> QED BY <1>7
<1> HIDE DEF after
<1>9. \A n \in 0..N : after[n] = IF n = 0 THEN <<>> ELSE Step(after[n - 1], n)
  BY <1>8
<1> DEFINE T == {n \in Nat : n <= N => after[n] = R[n]}
<1>10. 0 \in T
  <2>1. 0 \in 0..N
    BY <1>2
  <2> QED BY <1>4, <1>9, <2>1
<1>11. ASSUME NEW n \in Nat, n \in T PROVE n + 1 \in T
  <2> SUFFICES ASSUME n + 1 <= N PROVE after[n + 1] = R[n + 1]
    OBVIOUS
  <2>1. n + 1 \in 1..N /\ n + 1 \in 0..N /\ n + 1 # 0 /\ n + 1 - 1 = n /\ n <= N
    BY <1>2
  <2>2. after[n] = R[n]
    BY <1>11, <2>1
  <2>3. after[n + 1] = Step(after[n + 1 - 1], n + 1)
    BY <1>9, <2>1
  <2>4. R[n + 1] = Step(R[n], n + 1)
    BY <1>5, <2>1
  <2> QED BY <2>1, <2>2, <2>3, <2>4
<1>12. after[N] = R[N]
  <2>1. Nat \subseteq T
    <3> HIDE DEF T
    <3> QED BY <1>10, <1>11, NatInd
  <2> QED BY <1>2, <2>1
<1> QED BY <1>1, <1>12 DEF N

\* The lines that fix makes are those of the document and the generated ones.
LEMMA FixesExists ==
  ASSUME NEW X, NEW u \in Seq(X), NEW D
  PROVE  \E R : Regenerates(R, D, u) /\ \A n \in 0..Len(u) : R[n] \in Seq(X \cup {"new"})
<1> DEFINE N == Len(u)
           W == Seq(X \cup {"new"})
           V == [n \in 0..N |-> W]
           G == [x \in (1..N) \X W |-> Fixed(D[x[1] - 1], D[x[1]], x[2], u[x[1]])]
<1>1. N \in Nat /\ <<>> \in W
  OBVIOUS
<1>2. \A n \in 1..N : \A v \in W : Fixed(D[n - 1], D[n], v, u[n]) \in W
  <2> TAKE n \in 1..N
  <2> TAKE v \in W
  <2>1. u[n] \in X
    OBVIOUS
  <2> HIDE DEF N
  <2>2. v \o <<u[n], "new">> \in W /\ Append(v, u[n]) \in W
    BY <2>1
  <2> QED BY <2>2 DEF Fixed
<1> HIDE DEF N, W
<1>3. \A n \in 1..N : \A v \in W : G[<<n, v>>] = Fixed(D[n - 1], D[n], v, u[n])
  OBVIOUS
<1>4. (\A n \in 0..N : V[n] = W) /\ 0 \in 0..N /\ \A n \in 1..N : n \in 0..N /\ n - 1 \in 0..N
  BY <1>1
<1> HIDE DEF G, V
<1>5. <<>> \in V[0] /\ \A n \in 1..N : \A v \in V[n - 1] : G[<<n, v>>] \in V[n]
  BY <1>1, <1>2, <1>3, <1>4
<1> PICK R : /\ R[0] = <<>> /\ \A n \in 1..N : R[n] = G[<<n, R[n - 1]>>]
             /\ \A n \in 0..N : R[n] \in V[n]
  <2>1. Iterated(V, N, <<>>, G)
    BY <1>1, <1>5, Iteration
  <2> QED BY <2>1 DEF Iterated
<1>6. \A n \in 0..N : R[n] \in W
  BY <1>4
<1>7. \A n \in 1..N : R[n] = Fixed(D[n - 1], D[n], R[n - 1], u[n])
  BY <1>3, <1>4, <1>6
<1> QED BY <1>6, <1>7 DEF Regenerates, N, W

\* A document that has no conflict marker has none when it is fixed.
LEMMA FixAddsNoMarker ==
  ASSUME NEW X, NEW u \in Seq(X), NEW D, Sections(D, u), \A x \in X : x \notin {"open", "close"}
  PROVE  ~HasConflictMarkers(Regenerate(u))
<1> PICK R : Regenerates(R, D, u) /\ \A n \in 0..Len(u) : R[n] \in Seq(X \cup {"new"})
  BY FixesExists
<1>1. Regenerate(u) = R[Len(u)]
  BY RegenerateIs
<1>2. Len(u) \in 0..Len(u)
  OBVIOUS
<1>3. Regenerate(u) \in Seq(X \cup {"new"})
  BY <1>1, <1>2
<1> QED BY <1>3 DEF HasConflictMarkers

-----------------------------------------------------------------------------
(* Lines without markers in one place of a document, for others.           *)

\* After b of the steps of F, x that change nothing are replaced by y such steps.
Spliced(F, b, x, y, a) ==
  [n \in 0..b + y + a |-> IF n <= b THEN F[n] ELSE IF n <= b + y THEN F[b] ELSE F[n - y + x]]

\* Steps b + 1 to b + x change nothing.
Steady(F, b, x) == \A i \in 1..x : F[b + i] = F[b + (i - 1)]

\* S is F with y steps in the place of x.
IsSplice(S, F, b, x, y, a) ==
  /\ \A n \in 0..b : S[n] = F[n]
  /\ \A i \in 0..y : S[b + i] = F[b]
  /\ \A i \in 0..a : S[b + y + i] = F[b + x + i]

\* Steps that change nothing leave the first value.
LEMMA SteadyIs ==
  ASSUME NEW F, NEW b \in Nat, NEW x \in Nat, Steady(F, b, x), NEW i \in 0..x
  PROVE  F[b + i] = F[b]
<1> DEFINE M == {k \in Nat : k <= x => F[b + k] = F[b]}
<1>1. 0 \in M
  OBVIOUS
<1>2. ASSUME NEW k \in Nat, k \in M PROVE k + 1 \in M
  <2> SUFFICES ASSUME k + 1 <= x PROVE F[b + (k + 1)] = F[b]
    OBVIOUS
  <2>1. F[b + k] = F[b]
    BY <1>2
  <2> DEFINE j == k + 1
  <2>2. j \in 1..x /\ j - 1 = k
    OBVIOUS
  <2> HIDE DEF j
  <2>3. F[b + j] = F[b + (j - 1)]
    BY <2>2 DEF Steady
  <2>4. F[b + j] = F[b]
    BY <2>1, <2>2, <2>3
  <2> QED BY <2>4 DEF j
<1>3. Nat \subseteq M
  <2> HIDE DEF M
  <2> QED BY <1>1, <1>2, NatInd
<1> QED BY <1>3

\* What the replaced steps are, by their place.
LEMMA SplicedIs ==
  ASSUME NEW F, NEW b \in Nat, NEW x \in Nat, NEW y \in Nat, NEW a \in Nat, Steady(F, b, x)
  PROVE  IsSplice(Spliced(F, b, x, y, a), F, b, x, y, a)
<1> DEFINE S == Spliced(F, b, x, y, a)
<1>1. F[b + x] = F[b]
  <2>1. x \in 0..x
    OBVIOUS
  <2> QED BY <2>1, SteadyIs
<1>2. ASSUME NEW n \in 0..b + y + a
      PROVE  /\ n <= b => S[n] = F[n]
             /\ n > b /\ n <= b + y => S[n] = F[b]
             /\ n > b /\ n > b + y => S[n] = F[n - y + x]
  BY <1>2 DEF Spliced
<1> HIDE DEF S
<1>3. \A n \in 0..b : S[n] = F[n]
  BY <1>2
<1>4. ASSUME NEW i \in 0..y PROVE S[b + i] = F[b]
  <2>1. CASE i = 0
    BY <1>3, <2>1
  <2>2. CASE i # 0
    <3>1. b + i \in 0..b + y + a /\ b + i > b /\ b + i <= b + y
      BY <2>2
    <3> QED BY <1>2, <3>1
  <2> QED BY <2>1, <2>2
<1>5. ASSUME NEW i \in 0..a PROVE S[b + y + i] = F[b + x + i]
  <2>1. CASE i = 0
    <3>1. y \in 0..y /\ b + y + i = b + y /\ b + x + i = b + x
      BY <2>1
    <3> QED BY <1>1, <1>4, <3>1
  <2>2. CASE i # 0
    <3>1. /\ b + y + i \in 0..b + y + a /\ b + y + i > b /\ b + y + i > b + y
          /\ b + y + i - y + x = b + x + i
      BY <2>2
    <3> QED BY <1>2, <3>1
  <2> QED BY <2>1, <2>2
<1> QED BY <1>3, <1>4, <1>5 DEF S, IsSplice

\* Lines without the markers of a section.
NoMarkers(s) == \A i \in 1..Len(s) : s[i] \notin SectionMarkers

\* The steps of a document in three parts.
LEMMA InParts ==
  ASSUME NEW b \in Nat, NEW y \in Nat, NEW a \in Nat, NEW n \in 1..b + y + a
  PROVE  \/ n \in 1..b /\ n \in 0..b /\ n - 1 \in 0..b
         \/ \E i \in 1..y : n = b + i /\ n - 1 = b + (i - 1) /\ i \in 0..y /\ i - 1 \in 0..y
         \/ \E i \in 1..a : n = b + y + i /\ n - 1 = b + y + (i - 1) /\ i \in 0..a /\ i - 1 \in 0..a
<1>1. CASE n <= b
  BY <1>1
<1>2. CASE n > b /\ n <= b + y
  <2> DEFINE i == n - b
  <2>1. i \in 1..y /\ n = b + i /\ n - 1 = b + (i - 1) /\ i \in 0..y /\ i - 1 \in 0..y
    BY <1>2
  <2> HIDE DEF i
  <2> QED BY <2>1
<1>3. CASE n > b + y
  <2> DEFINE i == n - (b + y)
  <2>1. i \in 1..a /\ n = b + y + i /\ n - 1 = b + y + (i - 1) /\ i \in 0..a /\ i - 1 \in 0..a
    BY <1>3
  <2> HIDE DEF i
  <2> QED BY <2>1
<1> QED BY <1>1, <1>2, <1>3

\* Where lines without markers replace others, the sections around them stay.
LEMMA Transported ==
  ASSUME NEW L, NEW B \in Seq(L), NEW X \in Seq(L), NEW Y \in Seq(L), NEW A \in Seq(L),
         NoMarkers(X), NoMarkers(Y), NEW D, Sections(D, B \o X \o A)
  PROVE  LET E == Spliced(D, Len(B), Len(X), Len(Y), Len(A)) IN
         /\ Sections(E, B \o Y \o A)
         /\ IsSplice(E, D, Len(B), Len(X), Len(Y), Len(A))
         /\ Steady(D, Len(B), Len(X))
<1> DEFINE b == Len(B)
           x == Len(X)
           y == Len(Y)
           a == Len(A)
           s == B \o X \o A
           t == B \o Y \o A
           E == Spliced(D, b, x, y, a)
<1>1. b \in Nat /\ x \in Nat /\ y \in Nat /\ a \in Nat
  OBVIOUS
<1>2. /\ Len(s) = b + x + a
      /\ \A i \in 1..b : s[i] = B[i]
      /\ \A i \in 1..x : s[b + i] = X[i]
      /\ \A i \in 1..a : s[b + x + i] = A[i]
  <2>1. B \o X \o A \in Seq(L) /\ InThree(B, X, A)
    BY ThreeParts
  <2> QED BY <2>1 DEF InThree
<1>3. /\ Len(t) = b + y + a
      /\ \A i \in 1..b : t[i] = B[i]
      /\ \A i \in 1..y : t[b + i] = Y[i]
      /\ \A i \in 1..a : t[b + y + i] = A[i]
  <2>1. B \o Y \o A \in Seq(L) /\ InThree(B, Y, A)
    BY ThreeParts
  <2> QED BY <2>1 DEF InThree
<1>4. /\ D \in [0..b + x + a -> BOOLEAN] /\ ~D[0] /\ ~D[b + x + a]
      /\ \A n \in 1..b + x + a :
            /\ s[n] = "start" => ~D[n - 1] /\ D[n]
            /\ s[n] = "end" => D[n - 1] /\ ~D[n]
            /\ s[n] \notin SectionMarkers => D[n] = D[n - 1]
  BY <1>2 DEF Sections, Follows
<1>5. (\A i \in 1..x : X[i] \notin SectionMarkers) /\ \A i \in 1..y : Y[i] \notin SectionMarkers
  BY DEF NoMarkers
<1> HIDE DEF b, x, y, a, s, t
<1>6. Steady(D, b, x)
  <2> SUFFICES ASSUME NEW i \in 1..x PROVE D[b + i] = D[b + (i - 1)]
    BY DEF Steady
  <2> DEFINE j == b + i
  <2>1. j \in 1..b + x + a /\ j - 1 = b + (i - 1)
    BY <1>1
  <2>2. s[j] \notin SectionMarkers
    BY <1>2, <1>5
  <2> HIDE DEF j
  <2>3. D[j] = D[j - 1]
    BY <1>4, <2>1, <2>2
  <2> QED BY <2>1, <2>3 DEF j
<1>s. IsSplice(E, D, b, x, y, a)
  BY <1>1, <1>6, SplicedIs
<1>7. /\ \A n \in 0..b : E[n] = D[n]
      /\ \A i \in 0..y : E[b + i] = D[b]
      /\ \A i \in 0..a : E[b + y + i] = D[b + x + i]
  BY <1>s DEF IsSplice
<1>8. E \in [0..b + y + a -> BOOLEAN]
  <2>1. ASSUME NEW n \in 0..b + y + a
        PROVE  (IF n <= b THEN D[n] ELSE IF n <= b + y THEN D[b] ELSE D[n - y + x]) \in BOOLEAN
    <3>1. /\ n <= b => n \in 0..b + x + a
          /\ b \in 0..b + x + a
          /\ ~(n <= b + y) => n - y + x \in 0..b + x + a
      BY <1>1
    <3> QED BY <1>4, <3>1
  <2> QED BY <2>1 DEF Spliced
<1> HIDE DEF E
<1>9. ASSUME NEW n \in 1..b + y + a
      PROVE  /\ t[n] = "start" => ~E[n - 1] /\ E[n]
             /\ t[n] = "end" => E[n - 1] /\ ~E[n]
             /\ t[n] \notin SectionMarkers => E[n] = E[n - 1]
  <2>1. CASE n \in 1..b /\ n \in 0..b /\ n - 1 \in 0..b
    <3>1. n \in 1..b + x + a
      BY <1>1, <2>1
    <3>2. t[n] = s[n] /\ E[n] = D[n] /\ E[n - 1] = D[n - 1]
      BY <1>2, <1>3, <1>7, <2>1
    <3> QED BY <1>4, <3>1, <3>2
  <2>2. ASSUME NEW i \in 1..y, n = b + i /\ n - 1 = b + (i - 1) /\ i \in 0..y /\ i - 1 \in 0..y
        PROVE  t[n] \notin SectionMarkers /\ E[n] = E[n - 1]
    BY <1>3, <1>5, <1>7, <2>2
  <2>3. ASSUME NEW i \in 1..a,
               n = b + y + i /\ n - 1 = b + y + (i - 1) /\ i \in 0..a /\ i - 1 \in 0..a
        PROVE  /\ t[n] = "start" => ~E[n - 1] /\ E[n]
               /\ t[n] = "end" => E[n - 1] /\ ~E[n]
               /\ t[n] \notin SectionMarkers => E[n] = E[n - 1]
    <3> DEFINE j == b + x + i
    <3>1. j \in 1..b + x + a /\ j - 1 = b + x + (i - 1)
      BY <1>1
    <3>2. t[n] = s[j] /\ E[n] = D[j] /\ E[n - 1] = D[b + x + (i - 1)]
      BY <1>2, <1>3, <1>7, <2>3
    <3> HIDE DEF j
    <3>3. E[n - 1] = D[j - 1]
      BY <3>1, <3>2
    <3> QED BY <1>4, <3>1, <3>2, <3>3
  <2> QED BY <1>1, <2>1, <2>2, <2>3, InParts DEF SectionMarkers
<1>10. ~E[0] /\ ~E[b + y + a]
  <2>1. 0 \in 0..b /\ a \in 0..a
    BY <1>1
  <2> QED BY <1>4, <1>7, <2>1
<1>11. Sections(E, t)
  BY <1>3, <1>8, <1>9, <1>10 DEF Sections, Follows
<1> QED BY <1>6, <1>s, <1>11 DEF b, x, y, a, s, t, E

\* Fix makes the same of two documents that differ in the lines of one section.
LEMMA SameFix ==
  ASSUME NEW L, NEW B \in Seq(L), NEW X \in Seq(L), NEW Y \in Seq(L), NEW A \in Seq(L),
         NoMarkers(X), NoMarkers(Y), NEW D, Sections(D, B \o X \o A), D[Len(B)]
  PROVE  Regenerate(B \o X \o A) = Regenerate(B \o Y \o A)
<1> DEFINE b == Len(B)
           x == Len(X)
           y == Len(Y)
           a == Len(A)
           s == B \o X \o A
           t == B \o Y \o A
           E == Spliced(D, b, x, y, a)
<1>1. b \in Nat /\ x \in Nat /\ y \in Nat /\ a \in Nat
  OBVIOUS
<1>2. /\ s \in Seq(L) /\ Len(s) = b + x + a
      /\ \A i \in 1..b : s[i] = B[i]
      /\ \A i \in 1..x : s[b + i] = X[i]
      /\ \A i \in 1..a : s[b + x + i] = A[i]
  <2>1. B \o X \o A \in Seq(L) /\ InThree(B, X, A)
    BY ThreeParts
  <2> QED BY <2>1 DEF InThree
<1>3. /\ t \in Seq(L) /\ Len(t) = b + y + a
      /\ \A i \in 1..b : t[i] = B[i]
      /\ \A i \in 1..y : t[b + i] = Y[i]
      /\ \A i \in 1..a : t[b + y + i] = A[i]
  <2>1. B \o Y \o A \in Seq(L) /\ InThree(B, Y, A)
    BY ThreeParts
  <2> QED BY <2>1 DEF InThree
<1>s. Sections(E, t) /\ IsSplice(E, D, b, x, y, a) /\ Steady(D, b, x)
  BY Transported
<1>4. /\ \A n \in 0..b : E[n] = D[n]
      /\ \A i \in 0..y : E[b + i] = D[b]
      /\ \A i \in 0..a : E[b + y + i] = D[b + x + i]
  BY <1>s DEF IsSplice
<1> PICK R : Regenerates(R, D, s)
  BY <1>2, FixesExists
<1>5. Regenerate(s) = R[b + x + a]
  <2>1. s \in Seq(L) /\ Sections(D, s) /\ Len(s) = b + x + a
    BY <1>2
  <2> HIDE DEF s
  <2>2. Regenerate(s) = R[Len(s)]
    BY <2>1, RegenerateIs
  <2> QED BY <2>1, <2>2
<1>6. R[0] = <<>> /\ \A n \in 1..b + x + a : R[n] = Fixed(D[n - 1], D[n], R[n - 1], s[n])
  BY <1>2 DEF Regenerates
<1>d. D[b] /\ D \in [0..b + x + a -> BOOLEAN]
  BY <1>2 DEF Sections, Follows
<1> HIDE DEF b, x, y, a, s, t, E
<1>7. \A i \in 0..x : D[b + i]
  BY <1>1, <1>d, <1>s, SteadyIs
<1>8. Steady(R, b, x)
  <2> SUFFICES ASSUME NEW i \in 1..x PROVE R[b + i] = R[b + (i - 1)]
    BY DEF Steady
  <2> DEFINE j == b + i
  <2>1. j \in 1..b + x + a /\ j - 1 = b + (i - 1) /\ i \in 0..x /\ i - 1 \in 0..x
    BY <1>1
  <2>2. D[j] /\ D[b + (i - 1)]
    BY <1>7, <2>1
  <2> HIDE DEF j
  <2>3. R[j] = R[j - 1]
    BY <1>6, <2>1, <2>2 DEF Fixed
  <2> QED BY <2>1, <2>3 DEF j
<1> DEFINE Q == Spliced(R, b, x, y, a)
<1>9. /\ \A n \in 0..b : Q[n] = R[n]
      /\ \A i \in 0..y : Q[b + i] = R[b]
      /\ \A i \in 0..a : Q[b + y + i] = R[b + x + i]
  <2>1. IsSplice(Q, R, b, x, y, a)
    BY <1>1, <1>8, SplicedIs
  <2> HIDE DEF Q
  <2> QED BY <2>1 DEF IsSplice
<1> HIDE DEF Q
<1>10. ASSUME NEW n \in 1..b + y + a PROVE Q[n] = Fixed(E[n - 1], E[n], Q[n - 1], t[n])
  <2>1. CASE n \in 1..b /\ n \in 0..b /\ n - 1 \in 0..b
    <3>1. n \in 1..b + x + a
      BY <1>1, <2>1
    <3>2. /\ t[n] = s[n] /\ E[n] = D[n] /\ E[n - 1] = D[n - 1]
          /\ Q[n] = R[n] /\ Q[n - 1] = R[n - 1]
      BY <1>2, <1>3, <1>4, <1>9, <2>1
    <3> QED BY <1>6, <3>1, <3>2
  <2>2. ASSUME NEW i \in 1..y, n = b + i /\ n - 1 = b + (i - 1) /\ i \in 0..y /\ i - 1 \in 0..y
        PROVE  Q[n] = Fixed(E[n - 1], E[n], Q[n - 1], t[n])
    <3>1. E[n] /\ E[n - 1]
      BY <1>4, <1>d, <2>2
    <3>2. Q[n] = Q[n - 1]
      BY <1>9, <2>2
    <3> QED BY <3>1, <3>2 DEF Fixed
  <2>3. ASSUME NEW i \in 1..a,
               n = b + y + i /\ n - 1 = b + y + (i - 1) /\ i \in 0..a /\ i - 1 \in 0..a
        PROVE  Q[n] = Fixed(E[n - 1], E[n], Q[n - 1], t[n])
    <3> DEFINE j == b + x + i
    <3>1. j \in 1..b + x + a /\ j - 1 = b + x + (i - 1)
      BY <1>1
    <3>2. /\ t[n] = s[j] /\ E[n] = D[j] /\ E[n - 1] = D[b + x + (i - 1)]
          /\ Q[n] = R[j] /\ Q[n - 1] = R[b + x + (i - 1)]
      BY <1>2, <1>3, <1>4, <1>9, <2>3
    <3> HIDE DEF j
    <3>3. E[n - 1] = D[j - 1] /\ Q[n - 1] = R[j - 1]
      BY <3>1, <3>2
    <3> QED BY <1>6, <3>1, <3>2, <3>3
  <2> QED BY <1>1, <2>1, <2>2, <2>3, InParts
<1>11. Regenerates(Q, E, t)
  <2>1. 0 \in 0..b
    BY <1>1
  <2> QED BY <1>3, <1>6, <1>9, <1>10, <2>1 DEF Regenerates
<1>12. Regenerate(t) = Q[b + y + a]
  <2>1. t \in Seq(L) /\ Len(t) = b + y + a
    BY <1>3
  <2> QED BY <1>s, <1>11, <2>1, RegenerateIs
<1>13. Q[b + y + a] = R[b + x + a]
  <2>1. a \in 0..a
    BY <1>1
  <2> QED BY <1>9, <2>1
<1> QED BY <1>5, <1>12, <1>13 DEF s, t

-----------------------------------------------------------------------------
(* Conflicts                                                               *)

\* What a function says from k on.
Part(D, k, n) == [i \in 0..n |-> D[k + i]]

\* The part of a document in which the sections are those of the whole.
LEMMA PartFollows ==
  ASSUME NEW L, NEW B \in Seq(L), NEW X \in Seq(L), NEW A \in Seq(L), NEW D, Follows(D, B \o X \o A)
  PROVE  /\ Follows(Part(D, 0, Len(B)), B)
         /\ Follows(Part(D, Len(B) + Len(X), Len(A)), A)
<1> DEFINE b == Len(B)
           x == Len(X)
           a == Len(A)
           s == B \o X \o A
           F == Part(D, 0, b)
           G == Part(D, b + x, a)
<1>1. b \in Nat /\ x \in Nat /\ a \in Nat
  OBVIOUS
<1>2. /\ Len(s) = b + x + a
      /\ \A i \in 1..b : s[i] = B[i]
      /\ \A i \in 1..a : s[b + x + i] = A[i]
  <2>1. B \o X \o A \in Seq(L) /\ InThree(B, X, A)
    BY ThreeParts
  <2> QED BY <2>1 DEF InThree
<1>3. /\ D \in [0..b + x + a -> BOOLEAN]
      /\ \A n \in 1..b + x + a :
            /\ s[n] = "start" => ~D[n - 1] /\ D[n]
            /\ s[n] = "end" => D[n - 1] /\ ~D[n]
            /\ s[n] \notin SectionMarkers => D[n] = D[n - 1]
  BY <1>2 DEF Follows
<1> HIDE DEF b, x, a, s
<1>4. /\ F \in [0..b -> BOOLEAN] /\ \A n \in 0..b : F[n] = D[n]
  <2>1. \A n \in 0..b : n \in 0..b + x + a /\ 0 + n = n
    BY <1>1
  <2> QED BY <1>3, <2>1 DEF Part
<1>5. /\ G \in [0..a -> BOOLEAN] /\ \A n \in 0..a : G[n] = D[b + x + n]
  <2>1. \A n \in 0..a : b + x + n \in 0..b + x + a
    BY <1>1
  <2> QED BY <1>3, <2>1 DEF Part
<1> HIDE DEF F, G
<1>6. ASSUME NEW n \in 1..b
      PROVE  /\ B[n] = "start" => ~F[n - 1] /\ F[n]
             /\ B[n] = "end" => F[n - 1] /\ ~F[n]
             /\ B[n] \notin SectionMarkers => F[n] = F[n - 1]
  <2>1. n \in 1..b + x + a /\ n \in 0..b /\ n - 1 \in 0..b
    BY <1>1
  <2> QED BY <1>2, <1>3, <1>4, <2>1
<1>7. ASSUME NEW n \in 1..a
      PROVE  /\ A[n] = "start" => ~G[n - 1] /\ G[n]
             /\ A[n] = "end" => G[n - 1] /\ ~G[n]
             /\ A[n] \notin SectionMarkers => G[n] = G[n - 1]
  <2> DEFINE j == b + x + n
  <2>1. /\ j \in 1..b + x + a /\ j - 1 = b + x + (n - 1) /\ n \in 0..a /\ n - 1 \in 0..a
    BY <1>1
  <2>2. s[j] = A[n] /\ G[n] = D[j] /\ G[n - 1] = D[b + x + (n - 1)]
    BY <1>2, <1>5, <2>1
  <2> HIDE DEF j
  <2>3. G[n - 1] = D[j - 1]
    BY <2>1, <2>2
  <2> QED BY <1>3, <2>1, <2>2, <2>3
<1> QED BY <1>4, <1>5, <1>6, <1>7 DEF Follows, b, x, a, F, G

\* A line that is fixed outside of sections stays.
LEMMA MarkerStays ==
  ASSUME NEW X, NEW u \in Seq(X), NEW D, Sections(D, u),
         NEW n \in 1..Len(u), u[n] = "open", ~D[n]
  PROVE  HasConflictMarkers(Regenerate(u))
<1> PICK R : Regenerates(R, D, u) /\ \A k \in 0..Len(u) : R[k] \in Seq(X \cup {"new"})
  BY FixesExists
<1> DEFINE N == Len(u)
           W == Seq(X \cup {"new"})
           Has(out) == \E i \in 1..Len(out) : out[i] = "open"
           M == {k \in Nat : n <= k /\ k <= N => Has(R[k])}
<1>1. N \in Nat /\ n \in Nat /\ n # 0 /\ n <= N /\ n - 1 \in 0..N
  OBVIOUS
<1>2. \A k \in 0..N : R[k] \in W
  OBVIOUS
<1>3. \A k \in 1..N : R[k] = Fixed(D[k - 1], D[k], R[k - 1], u[k]) /\ u[k] \in X
  BY DEF Regenerates
<1>4. ~D[n - 1]
  <2>1. D[n] = D[n - 1]
    BY DEF Sections, Follows, SectionMarkers
  <2> QED BY <2>1
<1> HIDE DEF N
<1>5. ASSUME NEW v \in W, NEW l \in X
      PROVE  /\ Has(Append(v, "open")) /\ (Has(v) => Has(Append(v, l)))
             /\ (Has(v) => Has(v \o <<l, "new">>))
  <2>1. Has(Append(v, "open"))
    <3>1. Append(v, "open")[Len(v) + 1] = "open" /\ Len(v) + 1 \in 1..Len(Append(v, "open"))
      OBVIOUS
    <3> QED BY <3>1
  <2>2. ASSUME NEW i \in 1..Len(v), v[i] = "open" PROVE Has(Append(v, l)) /\ Has(v \o <<l, "new">>)
    <3>1. Append(v, l)[i] = "open" /\ i \in 1..Len(Append(v, l))
      BY <2>2
    <3>2. (v \o <<l, "new">>)[i] = "open" /\ i \in 1..Len(v \o <<l, "new">>)
      BY <2>2
    <3> QED BY <3>1, <3>2
  <2> QED BY <2>1, <2>2
<1> HIDE DEF W, Has
<1>6. 0 \in M
  BY <1>1
<1>7. ASSUME NEW k \in Nat, k \in M PROVE k + 1 \in M
  <2> SUFFICES ASSUME n <= k + 1, k + 1 <= N PROVE Has(R[k + 1])
    OBVIOUS
  <2> DEFINE m == k + 1
  <2>1. m \in 1..N /\ m - 1 = k /\ k \in 0..N /\ n <= m
    BY <1>1
  <2> HIDE DEF m
  <2>2. R[m] = Fixed(D[k], D[m], R[k], u[m]) /\ R[k] \in W /\ u[m] \in X
    BY <1>2, <1>3, <2>1
  <2>3. CASE n = m
    <3>1. R[m] = Append(R[k], "open")
      BY <1>4, <2>1, <2>2, <2>3 DEF Fixed
    <3> QED BY <1>5, <2>2, <3>1 DEF m
  <2>4. CASE n # m
    <3>1. n <= k /\ k <= N
      BY <1>1, <2>1, <2>4
    <3>2. Has(R[k])
      BY <1>7, <3>1
    <3>3. R[m] \in {R[k], R[k] \o <<u[m], "new">>, Append(R[k], u[m])}
      BY <2>2 DEF Fixed
    <3> QED BY <1>5, <2>2, <3>2, <3>3 DEF m
  <2> QED BY <2>3, <2>4
<1>8. Has(R[N])
  <2>1. Nat \subseteq M
    <3> HIDE DEF M
    <3> QED BY <1>6, <1>7, NatInd
  <2> QED BY <1>1, <2>1
<1>9. Regenerate(u) = R[N] /\ R[N] \in W
  <2>1. Regenerate(u) = R[N]
    BY RegenerateIs DEF N
  <2>2. N \in 0..N
    BY <1>1
  <2> QED BY <1>2, <2>1, <2>2
<1>10. DOMAIN R[N] = 1..Len(R[N])
  BY <1>9 DEF W
<1> QED BY <1>8, <1>9, <1>10 DEF HasConflictMarkers, Has

\* The lines of a document, a merge of two and a fixed one.
Lines == SectionMarkers \cup ConflictLines \cup Text \cup {"new"}

\* A conflict in a section is stripped of its markers: what is left in their
\* place is text.
StripsToText(B, C, A) ==
  \E z \in Seq(Lines) :
     /\ NoMarkers(z)
     /\ StripSectionConflicts(B \o <<"open">> \o C \o <<"close">> \o A) = B \o z \o A

\* A conflict in a section loses its markers: the section is open before and
\* after it.
LEMMA StripsConflict ==
  ASSUME NEW B \in Seq(Lines), NEW X \in Seq(Lines), NEW C \in Seq(Lines), NEW A \in Seq(Lines),
         NEW D, Sections(D, B \o X \o A), D[Len(B)], NoMarkers(X),
         \A i \in 1..Len(B) : B[i] # "open", \A i \in 1..Len(A) : A[i] # "open",
         \A i \in 1..Len(C) : Plain(C[i]) \/ C[i] \in {"base", "sep"}
  PROVE  StripsToText(B, C, A)
<1> DEFINE b == Len(B)
           x == Len(X)
           a == Len(A)
           F == Part(D, 0, b)
           G == Part(D, b + x, a)
           o == <<"open">>
           c == <<"close">>
<1>1. b \in Nat /\ x \in Nat /\ a \in Nat /\ o \in Seq(Lines) /\ c \in Seq(Lines) /\ <<>> \in Seq(Lines)
  BY DEF Lines, ConflictLines
<1>2. Follows(F, B) /\ Follows(G, A)
  <2>1. Follows(D, B \o X \o A)
    BY DEF Sections
  <2> QED BY <2>1, PartFollows
<1>3. ~D[0] /\ F[0] = D[0] /\ F[b] = D[b]
  <2>1. 0 \in 0..b /\ b \in 0..b
    BY <1>1
  <2> HIDE DEF b
  <2>2. \A n \in 0..b : Part(D, 0, b)[n] = D[0 + n] /\ 0 + n = n
    BY <1>1 DEF Part
  <2>3. F[0] = D[0] /\ F[b] = D[b]
    BY <2>1, <2>2
  <2> QED BY <2>3 DEF Sections
<1>4. G[0]
  <2>1. Steady(D, b, x)
    BY Transported
  <2> HIDE DEF b, x, a
  <2>2. x \in 0..x /\ 0 \in 0..a
    BY <1>1
  <2>3. D[b + x] = D[b]
    BY <1>1, <2>1, <2>2, SteadyIs
  <2>4. G[0] = D[b + x + 0] /\ b + x + 0 = b + x
    BY <1>1, <2>2 DEF Part
  <2> QED BY <2>3, <2>4 DEF b
<1> DEFINE v == G[a]
<1> HIDE DEF F, G, o, c
<1>5. StripsTo(StripStart, B, Stripped(B, TRUE, FALSE))
  <2>1. StripsTo(Stripped(<<>>, F[0], FALSE), B, Stripped(<<>> \o B, F[b], FALSE))
    BY <1>1, <1>2, StripsNothing
  <2>2. <<>> \o B = B /\ F[0] = FALSE /\ F[b] = TRUE
    <3>1. F \in [0..b -> BOOLEAN] /\ 0 \in 0..b /\ b \in 0..b
      BY <1>1, <1>2 DEF Follows
    <3> QED BY <1>3, <3>1
  <2>3. Stripped(<<>>, FALSE, FALSE) = StripStart
    BY DEF Stripped, StripStart
  <2> QED BY <2>1, <2>2, <2>3
<1>6. StripsTo(Stripped(B, TRUE, FALSE), o, Stripped(B, TRUE, TRUE))
  <2>1. StripLine(Stripped(B, TRUE, FALSE), "open") = Stripped(B, TRUE, TRUE)
    BY DEF StripLine, Stripped
  <2> QED BY <2>1, StripsOne DEF o
<1>7. PICK z \in Seq({l \in Lines : Plain(l)}) :
        StripsTo(Stripped(B, TRUE, TRUE), C, Stripped(B \o z, TRUE, TRUE))
  BY StripsInside
<1>z. z \in Seq(Lines) /\ NoMarkers(z) /\ B \o z \in Seq(Lines)
  <2>1. z \in Seq(Lines) /\ \A i \in 1..Len(z) : Plain(z[i])
    OBVIOUS
  <2> QED BY <2>1 DEF NoMarkers, Plain
<1>8. StripsTo(Stripped(B \o z, TRUE, TRUE), c, Stripped(B \o z, TRUE, FALSE))
  <2> DEFINE Bz == B \o z
  <2> HIDE DEF Bz
  <2>1. StripLine(Stripped(Bz, TRUE, TRUE), "close") = Stripped(Bz, TRUE, FALSE)
    BY DEF StripLine, Stripped
  <2> QED BY <2>1, StripsOne DEF c, Bz
<1>9. StripsTo(Stripped(B \o z, TRUE, FALSE), A, Stripped(B \o z \o A, v, FALSE))
  <2> DEFINE Bz == B \o z
  <2>1. Bz \in Seq(Lines)
    BY <1>z
  <2> HIDE DEF Bz
  <2>2. StripsTo(Stripped(Bz, G[0], FALSE), A, Stripped(Bz \o A, G[a], FALSE))
    BY <1>1, <1>2, <2>1, StripsNothing
  <2>3. G[0] = TRUE
    <3>1. G \in [0..a -> BOOLEAN] /\ 0 \in 0..a
      BY <1>1, <1>2 DEF Follows
    <3> QED BY <1>4, <3>1
  <2> QED BY <2>2, <2>3 DEF Bz
<1> DEFINE Bo == B \o o
           BoC == Bo \o C
           BoCc == BoC \o c
           Bz == B \o z
           w1 == Stripped(B, TRUE, FALSE)
           w2 == Stripped(B, TRUE, TRUE)
           w3 == Stripped(Bz, TRUE, TRUE)
           w4 == Stripped(Bz, TRUE, FALSE)
           w5 == Stripped(Bz \o A, v, FALSE)
<1>10. /\ StripsTo(StripStart, B, w1) /\ StripsTo(w1, o, w2) /\ StripsTo(w2, C, w3)
       /\ StripsTo(w3, c, w4) /\ StripsTo(w4, A, w5) /\ w5.out = Bz \o A
  <2>1. w5.out = Bz \o A
    BY DEF Stripped
  <2> QED BY <1>5, <1>6, <1>7, <1>8, <1>9, <2>1
<1> HIDE DEF w1, w2, w3, w4, w5
<1>11. Bo \in Seq(Lines) /\ BoC \in Seq(Lines) /\ BoCc \in Seq(Lines) /\ BoCc \o A \in Seq(Lines)
  BY <1>1, ConcatProperties
<1>12. StripsTo(StripStart, Bo, w2)
  BY <1>1, <1>10, StripsConcat
<1> HIDE DEF Bo
<1>13. StripsTo(StripStart, BoC, w3)
  BY <1>10, <1>11, <1>12, StripsConcat
<1> HIDE DEF BoC
<1>14. StripsTo(StripStart, BoCc, w4)
  BY <1>1, <1>10, <1>11, <1>13, StripsConcat
<1> HIDE DEF BoCc
<1>15. StripsTo(StripStart, BoCc \o A, w5)
  BY <1>10, <1>11, <1>14, StripsConcat
<1>16. StripSectionConflicts(BoCc \o A) = Bz \o A
  BY <1>10, <1>11, <1>15, StripIs
<1> QED BY <1>16, <1>z DEF BoCc, BoC, Bo, Bz, o, c, StripsToText

-----------------------------------------------------------------------------
(* The merges that git gives the driver                                    *)

\* The lines of a side.
LEMMA SideIs ==
  ASSUME NEW u, IsSide(u)
  PROVE  u \in Seq(Lines) /\ u \in Seq(Lines \ {"open", "close"})
<1>1. u \in Seq(SectionMarkers \cup ConflictLines \cup Text)
  BY DEF IsSide, Document
<1>2. u \in Seq(Lines)
  BY <1>1 DEF Lines
<1>3. \A i \in 1..Len(u) : u[i] \in Lines \ {"open", "close"}
  BY <1>2 DEF IsSide
<1>4. u \in Seq(Lines \ {"open", "close"})
  <2> DEFINE T == Lines \ {"open", "close"}
             n == Len(u)
  <2>1. n \in Nat /\ DOMAIN u = 1..n /\ u = [i \in 1..n |-> u[i]]
    BY <1>2
  <2>2. \A i \in 1..n : u[i] \in T
    BY <1>3
  <2> HIDE DEF T, n
  <2>3. u \in [1..n -> T]
    BY <2>1, <2>2
  <2>4. u \in Seq(T)
    BY <2>1, <2>3, IsSequence
  <2> QED BY <2>4 DEF T
<1> QED BY <1>2, <1>4

\* The lines of a base.
LEMMA BaseIs ==
  ASSUME NEW base, IsBase(base)
  PROVE  /\ base \in Seq(Lines)
         /\ \A i \in 1..Len(base) : Plain(base[i]) \/ base[i] \in {"base", "sep"}
<1>1. base \in Seq(SectionMarkers \cup ConflictLines \cup Text)
  BY DEF IsBase, Document
<1>2. base \in Seq(Lines)
  BY <1>1 DEF Lines
<1> QED BY <1>2 DEF IsBase, Plain, SectionMarkers, ConflictLines

\* A line of a side that is no marker says whether its place is in a section.
LEMMA PlaceOfLine ==
  ASSUME NEW B \in Seq(Lines), NEW X \in Seq(Lines), NEW A \in Seq(Lines), X # <<>>,
         NEW D, Sections(D, B \o X \o A), Placed(D, B \o X \o A)
  PROVE  /\ (\A i \in 1..Len(X) : X[i] \in Old) => D[Len(B)]
         /\ (\A i \in 1..Len(X) : X[i] \in Prosaic) => ~D[Len(B)]
<1> DEFINE b == Len(B)
           s == B \o X \o A
           n == b + 1
<1>1. b \in Nat /\ Len(X) \in Nat /\ Len(X) # 0 /\ Len(A) \in Nat
  BY EmptySeq
<1>2. n \in 1..Len(s) /\ n - 1 = b /\ s[n] = X[1] /\ 1 \in 1..Len(X)
  <2>1. Len(s) = b + Len(X) + Len(A) /\ \A i \in 1..Len(X) : s[b + i] = X[i]
    <3>1. B \o X \o A \in Seq(Lines) /\ InThree(B, X, A)
      BY ThreeParts
    <3> QED BY <3>1 DEF InThree
  <2>2. 1 \in 1..Len(X)
    BY <1>1
  <2> HIDE DEF b, s
  <2>3. s[b + 1] = X[1]
    BY <2>1, <2>2
  <2> QED BY <1>1, <2>1, <2>2, <2>3
<1> HIDE DEF b, s, n
<1>3. s[n] \notin SectionMarkers => D[n] = D[n - 1]
  BY <1>2 DEF Sections, Follows, s
<1>4. (s[n] \in Old => D[n]) /\ (s[n] \in Prosaic => ~D[n])
  BY <1>2 DEF Placed, s
<1>5. X[1] \in Old \cup Prosaic => D[n] = D[b]
  BY <1>2, <1>3 DEF Old, Prosaic, SectionMarkers
<1>6. (X[1] \in Old => D[b]) /\ (X[1] \in Prosaic => ~D[b])
  BY <1>2, <1>4, <1>5
<1> QED BY <1>2, <1>6 DEF b

\* Two sides that differ in lines of one kind: their sections, and whether the
\* lines are in one.
LEMMA PlaceOfHunk ==
  ASSUME NEW B \in Seq(Lines), NEW X \in Seq(Lines), NEW Y \in Seq(Lines), NEW A \in Seq(Lines),
         NoMarkers(X), NoMarkers(Y), B \o X \o A # B \o Y \o A,
         IsSide(B \o X \o A), IsSide(B \o Y \o A)
  PROVE  \E D : /\ Sections(D, B \o X \o A)
                /\ (\A i \in 1..Len(X) : X[i] \in Old) /\ (\A i \in 1..Len(Y) : Y[i] \in Old)
                      => D[Len(B)]
                /\ (\A i \in 1..Len(X) : X[i] \in Prosaic) /\ (\A i \in 1..Len(Y) : Y[i] \in Prosaic)
                      => ~D[Len(B)]
<1> DEFINE s == B \o X \o A
           t == B \o Y \o A
<1>1. CASE X # <<>>
  <2>1. PICK D : Sections(D, s) /\ Placed(D, s)
    BY DEF IsSide
  <2> QED BY <1>1, <2>1, PlaceOfLine
<1>2. CASE X = <<>>
  <2>1. Y # <<>>
    BY <1>2
  <2>2. PICK D : Sections(D, t) /\ Placed(D, t)
    BY DEF IsSide
  <2> DEFINE E == Spliced(D, Len(B), Len(Y), Len(X), Len(A))
  <2>3. Sections(E, s) /\ IsSplice(E, D, Len(B), Len(Y), Len(X), Len(A))
    BY <2>2, Transported
  <2> HIDE DEF E
  <2>4. E[Len(B)] = D[Len(B)]
    <3>1. Len(B) \in 0..Len(B)
      OBVIOUS
    <3> QED BY <2>3, <3>1 DEF IsSplice
  <2> QED BY <2>1, <2>2, <2>3, <2>4, PlaceOfLine
<1> QED BY <1>1, <1>2

\* A conflict is the text before it, the opening marker, both sides, the
\* closing marker and the text after it.
ConflictIs(B, X, b, Y, A) ==
  LET C == X \o b \o <<"sep">> \o Y
      m == B \o <<"open">> \o X \o b \o <<"sep">> \o Y \o <<"close">> \o A
  IN /\ C \in Seq(Lines)
     /\ m = B \o <<"open">> \o C \o <<"close">> \o A
     /\ m = B \o (<<"open">> \o C \o <<"close">>) \o A

\* The parts put together in either order are the conflict.
LEMMA ConflictParts ==
  ASSUME NEW B \in Seq(Lines), NEW X \in Seq(Lines), NEW b \in Seq(Lines), NEW Y \in Seq(Lines),
         NEW A \in Seq(Lines)
  PROVE  ConflictIs(B, X, b, Y, A)
<1> DEFINE S == Seq(Lines)
           o == <<"open">>
           e == <<"sep">>
           c == <<"close">>
<1>1. o \in S /\ e \in S /\ c \in S
  BY DEF Lines, ConflictLines
<1> HIDE DEF o, e, c, ConflictIs
<1> DEFINE P == B \o o
           Xb == X \o b
           Xbe == Xb \o e
           C == Xbe \o Y
           oC == o \o C
<1>2. P \in S /\ Xb \in S /\ Xbe \in S /\ C \in S /\ oC \in S
  <2>1. P \in S /\ Xb \in S
    BY <1>1
  <2>2. Xbe \in S
    BY <1>1, <2>1
  <2>3. C \in S
    BY <2>2
  <2> HIDE DEF C
  <2>4. oC \in S
    BY <1>1, <2>3
  <2> QED BY <2>1, <2>2, <2>3, <2>4
<1>3. P \o Xb = P \o X \o b
  <2> HIDE DEF P
  <2> QED BY <1>2
<1>4. P \o Xbe = P \o Xb \o e
  <2> HIDE DEF P, Xb, C, oC
  <2> QED BY <1>1, <1>2
<1>5. P \o C = P \o Xbe \o Y
  <2> HIDE DEF P, Xbe
  <2> QED BY <1>2
<1>6. P \o C = B \o oC
  <2> HIDE DEF C
  <2> QED BY <1>1, <1>2
<1>7. B \o oC \o c = B \o (oC \o c)
  <2> HIDE DEF oC
  <2> QED BY <1>1, <1>2
<1>8. P \o C = P \o X \o b \o e \o Y
  BY <1>3, <1>4, <1>5
<1> QED BY <1>2, <1>6, <1>7, <1>8 DEF o, e, c, ConflictIs

\* No conflict opens in the text around the lines that two sides differ in.
LEMMA NoneAround ==
  ASSUME NEW B \in Seq(Lines), NEW X \in Seq(Lines), NEW A \in Seq(Lines), IsSide(B \o X \o A)
  PROVE  (\A i \in 1..Len(B) : B[i] # "open") /\ (\A i \in 1..Len(A) : A[i] # "open")
<1> DEFINE s == B \o X \o A
<1>1. /\ Len(s) = Len(B) + Len(X) + Len(A)
      /\ \A i \in 1..Len(B) : s[i] = B[i]
      /\ \A i \in 1..Len(A) : s[Len(B) + Len(X) + i] = A[i]
  <2>1. B \o X \o A \in Seq(Lines) /\ InThree(B, X, A)
    BY ThreeParts
  <2> QED BY <2>1 DEF InThree
<1>2. \A i \in 1..Len(s) : s[i] # "open"
  BY DEF IsSide
<1> HIDE DEF s
<1>3. \A i \in 1..Len(B) : i \in 1..Len(s)
  BY <1>1
<1>4. \A i \in 1..Len(A) : Len(B) + Len(X) + i \in 1..Len(s)
  BY <1>1
<1> QED BY <1>1, <1>2, <1>3, <1>4

\* A conflict about nothing but the lines of one section: without its markers
\* it is fixed to what either side is fixed to.
SectionFixed(B, X, b, Y, A) ==
  LET m == B \o <<"open">> \o X \o b \o <<"sep">> \o Y \o <<"close">> \o A
      r == Regenerate(StripSectionConflicts(m))
  IN r = Regenerate(B \o X \o A) /\ r = Regenerate(B \o Y \o A) /\ ~HasConflictMarkers(r)

\* What is stripped of such a conflict leaves lines in an open section.
LEMMA SectionConflictFixed ==
  ASSUME NEW B \in Seq(Lines), NEW X \in Seq(Lines), NEW Y \in Seq(Lines), NEW A \in Seq(Lines),
         IsSide(B \o X \o A), IsSide(B \o Y \o A), B \o X \o A # B \o Y \o A,
         \A i \in 1..Len(X) : X[i] \in Old, \A i \in 1..Len(Y) : Y[i] \in Old,
         NEW b, IsBase(b)
  PROVE  SectionFixed(B, X, b, Y, A)
<1> DEFINE C == X \o b \o <<"sep">> \o Y
           m == B \o <<"open">> \o X \o b \o <<"sep">> \o Y \o <<"close">> \o A
           s == B \o X \o A
<1>1. NoMarkers(X) /\ NoMarkers(Y)
  BY DEF NoMarkers, Old, SectionMarkers
<1>2. PICK D : Sections(D, s) /\ D[Len(B)]
  BY <1>1, PlaceOfHunk
<1>b. b \in Seq(Lines)
  BY BaseIs
<1>3. \A i \in 1..Len(b) : Plain(b[i]) \/ b[i] \in {"base", "sep"}
  BY BaseIs
<1>4. C \in Seq(Lines) /\ m = B \o <<"open">> \o C \o <<"close">> \o A
  <2>1. ConflictIs(B, X, b, Y, A)
    BY <1>b, ConflictParts
  <2> QED BY <2>1 DEF ConflictIs
<1>5. \A i \in 1..Len(C) : Plain(C[i]) \/ C[i] \in {"base", "sep"}
  <2> DEFINE Good(l) == Plain(l) \/ l \in {"base", "sep"}
             e == <<"sep">>
             Xb == X \o b
  <2>1. \A i \in 1..Len(X) : Good(X[i])
    BY DEF Plain, Old, SectionMarkers, ConflictLines
  <2>2. \A i \in 1..Len(Y) : Good(Y[i])
    BY DEF Plain, Old, SectionMarkers, ConflictLines
  <2>3. e \in Seq(Lines) /\ \A i \in 1..Len(e) : Good(e[i])
    BY DEF Lines, ConflictLines
  <2>4. \A i \in 1..Len(b) : Good(b[i])
    BY <1>3
  <2> DEFINE T == {l \in Lines : Good(l)}
  <2>5. \A u \in Seq(Lines) : (\A i \in 1..Len(u) : Good(u[i])) => u \in Seq(T)
    <3> SUFFICES ASSUME NEW u \in Seq(Lines), \A i \in 1..Len(u) : Good(u[i]) PROVE u \in Seq(T)
      OBVIOUS
    <3> DEFINE n == Len(u)
    <3>1. n \in Nat /\ u = [i \in 1..n |-> u[i]] /\ \A i \in 1..n : u[i] \in T
      OBVIOUS
    <3> HIDE DEF n, T, Good
    <3>2. u \in [1..n -> T]
      BY <3>1
    <3> QED BY <3>1, <3>2, IsSequence
  <2>6. X \in Seq(T) /\ Y \in Seq(T) /\ e \in Seq(T) /\ b \in Seq(T)
    BY <1>b, <2>1, <2>2, <2>3, <2>4, <2>5
  <2> HIDE DEF T, Good, e
  <2>7. C = X \o b \o e \o Y
    BY DEF e
  <2> HIDE DEF C
  <2>8. C \in Seq(T)
    BY <2>6, <2>7
  <2>9. \A i \in 1..Len(C) : C[i] \in T
    BY <2>8
  <2> QED BY <2>9 DEF T, Good
<1>6. (\A i \in 1..Len(B) : B[i] # "open") /\ (\A i \in 1..Len(A) : A[i] # "open")
  BY NoneAround
<1> HIDE DEF C
<1>s. StripsToText(B, C, A)
  BY <1>1, <1>2, <1>4, <1>5, <1>6, StripsConflict
<1>7. PICK z \in Seq(Lines) : NoMarkers(z) /\ StripSectionConflicts(m) = B \o z \o A
  <2> HIDE DEF m
  <2> QED BY <1>4, <1>s DEF StripsToText
<1>8. Regenerate(s) = Regenerate(B \o z \o A)
  BY <1>1, <1>2, <1>7, SameFix
<1>9. Regenerate(s) = Regenerate(B \o Y \o A)
  BY <1>1, <1>2, SameFix
<1>10. ~HasConflictMarkers(Regenerate(s))
  <2>1. s \in Seq(Lines \ {"open", "close"})
    BY SideIs
  <2> DEFINE T == Lines \ {"open", "close"}
  <2>2. s \in Seq(T) /\ \A x \in T : x \notin {"open", "close"}
    BY <2>1
  <2> HIDE DEF T, s
  <2> QED BY <1>2, <2>2, FixAddsNoMarker
<1> HIDE DEF s
<1> QED BY <1>7, <1>8, <1>9, <1>10 DEF s, m, SectionFixed

\* A conflict about prose: the driver strips nothing, and fix leaves its
\* markers.
ProseFixed(B, X, b, Y, A) ==
  LET m == B \o <<"open">> \o X \o b \o <<"sep">> \o Y \o <<"close">> \o A
  IN StripSectionConflicts(m) = m /\ HasConflictMarkers(Regenerate(m))

\* The opening marker of such a conflict is outside of the sections.
LEMMA ProseConflictFixed ==
  ASSUME NEW B \in Seq(Lines), NEW X \in Seq(Lines), NEW Y \in Seq(Lines), NEW A \in Seq(Lines),
         IsSide(B \o X \o A), IsSide(B \o Y \o A), B \o X \o A # B \o Y \o A,
         \A i \in 1..Len(X) : X[i] \in Prosaic, \A i \in 1..Len(Y) : Y[i] \in Prosaic,
         NEW b, IsBase(b)
  PROVE  ProseFixed(B, X, b, Y, A)
<1> DEFINE C == X \o b \o <<"sep">> \o Y
           K == <<"open">> \o C \o <<"close">>
           m == B \o <<"open">> \o X \o b \o <<"sep">> \o Y \o <<"close">> \o A
           s == B \o X \o A
           T == Lines \ SectionMarkers
<1>1. NoMarkers(X) /\ NoMarkers(Y)
  BY DEF NoMarkers, Prosaic, SectionMarkers
<1>2. PICK D : Sections(D, s) /\ ~D[Len(B)]
  BY <1>1, PlaceOfHunk
<1>b. b \in Seq(Lines)
  BY BaseIs
<1>3. \A i \in 1..Len(b) : b[i] \notin SectionMarkers
  BY BaseIs DEF Plain, SectionMarkers
<1>4. C \in Seq(Lines) /\ m = B \o K \o A
  <2>1. ConflictIs(B, X, b, Y, A)
    BY <1>b, ConflictParts
  <2> QED BY <2>1 DEF ConflictIs
<1>5. K \in Seq(Lines) /\ NoMarkers(K) /\ K[1] = "open" /\ 1 \in 1..Len(K)
  <2> DEFINE o == <<"open">>
             e == <<"sep">>
             c == <<"close">>
  <2>1. \A u \in Seq(Lines) : NoMarkers(u) => u \in Seq(T)
    <3> SUFFICES ASSUME NEW u \in Seq(Lines), NoMarkers(u) PROVE u \in Seq(T)
      OBVIOUS
    <3> DEFINE n == Len(u)
    <3>1. n \in Nat /\ u = [i \in 1..n |-> u[i]] /\ \A i \in 1..n : u[i] \in T
      BY DEF NoMarkers
    <3> HIDE DEF n, T
    <3>2. u \in [1..n -> T]
      BY <3>1
    <3> QED BY <3>1, <3>2, IsSequence
  <2>2. X \in Seq(T) /\ Y \in Seq(T) /\ b \in Seq(T)
    BY <1>1, <1>b, <1>3, <2>1 DEF NoMarkers
  <2>3. o \in Seq(T) /\ e \in Seq(T) /\ c \in Seq(T) /\ Len(o) = 1 /\ o[1] = "open"
    BY DEF Lines, ConflictLines, SectionMarkers
  <2>4. K = o \o (X \o b \o e \o Y) \o c
    OBVIOUS
  <2>5. \A x \in T : x \in Lines /\ x \notin SectionMarkers
    OBVIOUS
  <2> HIDE DEF T, o, e, c, K
  <2>6. X \o b \o e \o Y \in Seq(T)
    BY <2>2, <2>3
  <2> DEFINE C1 == X \o b \o e \o Y
  <2> HIDE DEF C1
  <2>7. C1 \in Seq(T) /\ K = o \o C1 \o c
    BY <2>4, <2>6 DEF C1
  <2>8. /\ K \in Seq(T) /\ Len(K) = Len(o) + Len(C1) + Len(c)
        /\ \A i \in 1..Len(o) : K[i] = o[i]
    <3>1. InThree(o, C1, c)
      BY <2>3, <2>7, ThreeParts
    <3>2. o \o C1 \o c \in Seq(T)
      BY <2>3, <2>7
    <3> QED BY <2>7, <3>1, <3>2 DEF InThree
  <2>9. 1 \in 1..Len(K) /\ K[1] = "open"
    BY <2>3, <2>7, <2>8
  <2>10. \A i \in 1..Len(K) : K[i] \in T
    BY <2>8
  <2>11. K \in Seq(Lines)
    BY <2>5, <2>8
  <2> QED BY <2>5, <2>9, <2>10, <2>11 DEF NoMarkers
<1> DEFINE k == Len(K)
           n == Len(B)
           a == Len(A)
           E == Spliced(D, n, Len(X), k, a)
<1>6. Sections(E, B \o K \o A) /\ IsSplice(E, D, n, Len(X), k, a)
  BY <1>1, <1>2, <1>5, Transported
<1> HIDE DEF K, m
<1>7. k \in Nat /\ n \in Nat /\ a \in Nat /\ m \in Seq(Lines)
  <2>1. B \o K \o A \in Seq(Lines)
    BY <1>5, ThreeParts
  <2> QED BY <1>4, <1>5, <2>1
<1>8. /\ Len(m) = n + k + a
      /\ \A i \in 1..n : m[i] = B[i]
      /\ \A i \in 1..k : m[n + i] = K[i]
      /\ \A i \in 1..a : m[n + k + i] = A[i]
  <2>1. InThree(B, K, A)
    BY <1>5, ThreeParts
  <2> QED BY <1>4, <2>1 DEF InThree, k, n, a
<1>9. (\A i \in 1..n : B[i] # "open") /\ (\A i \in 1..a : A[i] # "open")
  BY NoneAround
<1> HIDE DEF k, n, a, E, s
<1>10. \A i \in 0..k : E[n + i] = D[n]
  BY <1>6 DEF IsSplice
<1>11. ~D[n]
  BY <1>2 DEF n
<1>12. ASSUME NEW j \in 1..Len(m), m[j] = "open" PROVE ~E[j]
  <2>1. \/ j \in 1..n
        \/ \E i \in 1..k : j = n + i /\ i \in 0..k
        \/ \E i \in 1..a : j = n + k + i
    BY <1>7, <1>8, InParts
  <2> QED BY <1>8, <1>9, <1>10, <1>11, <1>12, <2>1
<1>13. Sections(E, m)
  BY <1>4, <1>6
<1>14. StripSectionConflicts(m) = m
  <2>1. Follows(E, m) /\ ~E[0] /\ E[0] = FALSE
    <3>1. Follows(E, m) /\ ~E[0]
      BY <1>13 DEF Sections
    <3>2. E \in [0..Len(m) -> BOOLEAN] /\ 0 \in 0..Len(m)
      BY <1>7, <3>1 DEF Follows
    <3> QED BY <3>1, <3>2
  <2> DEFINE w == Stripped(<<>> \o m, E[Len(m)], FALSE)
  <2>2. StripsTo(Stripped(<<>>, E[0], FALSE), m, w)
    <3>1. <<>> \in Seq(Lines)
      OBVIOUS
    <3> QED BY <1>7, <1>12, <2>1, <3>1, StripsNothing
  <2>3. Stripped(<<>>, E[0], FALSE) = StripStart
    BY <2>1 DEF Stripped, StripStart
  <2>4. w.out = m
    <3>1. w.out = <<>> \o m
      BY DEF Stripped
    <3> HIDE DEF w
    <3> QED BY <1>7, <3>1
  <2> HIDE DEF w
  <2> QED BY <1>7, <2>2, <2>3, <2>4, StripIs
<1>15. HasConflictMarkers(Regenerate(m))
  <2> DEFINE j == n + 1
  <2>1. j \in 1..Len(m) /\ m[j] = "open"
    <3>1. 1 \in 1..k /\ K[1] = "open"
      BY <1>5 DEF k
    <3>2. m[n + 1] = K[1]
      BY <1>8, <3>1
    <3> QED BY <1>7, <1>8, <3>1, <3>2
  <2> HIDE DEF j
  <2>2. ~E[j]
    BY <1>12, <2>1
  <2> QED BY <1>7, <1>13, <2>1, <2>2, MarkerStays
<1> QED BY <1>14, <1>15 DEF m, ProseFixed

-----------------------------------------------------------------------------
(* The work tree and the exit code                                         *)

\* The backup is the file git had, and a run that came to its end has put it
\* back before it wrote the result.
Inv ==
    /\ pc \in {"merge", "strip", "backup", "place"} => path = job.path
    /\ pc \in {"place", "fix", "read", "restore"} => backup = job.path
    /\ pc \in {"write", "conclude"} => path = job.path
    /\ pc = "conclude" => ours = fixed
    /\ exit # NoExit => pc = "done"
    /\ exit \in {0, 1} => path = job.path /\ ours = fixed
    /\ exit = 0 => ~HasConflictMarkers(fixed)

\* The driver starts with the file as git had it.
LEMMA InitInv == Init => Inv
BY DEF Init, Inv, NoExit

\* Every step, failing ones and a kill too, keeps the backup or the file.
LEMMA StepInv == Inv /\ [Next]_vars => Inv'
<1> SUFFICES ASSUME Inv, [Next]_vars PROVE Inv'
  OBVIOUS
<1> USE DEF Inv, NoExit, Quit, Fault
<1>1. CASE MergeFile
  BY <1>1 DEF MergeFile
<1>2. CASE StripConflicts
  BY <1>2 DEF StripConflicts
<1>3. CASE Backup
  BY <1>3 DEF Backup
<1>4. CASE PlaceCleaned
  BY <1>4 DEF PlaceCleaned
<1>5. CASE FixInPlace
  BY <1>5 DEF FixInPlace
<1>6. CASE ReadFixed
  BY <1>6 DEF ReadFixed
<1>7. CASE Restore
  BY <1>7 DEF Restore
<1>8. CASE WriteOurs
  BY <1>8 DEF WriteOurs
<1>9. CASE Conclude
  BY <1>9 DEF Conclude
<1>10. CASE Kill
  BY <1>10 DEF Kill
<1>11. CASE UNCHANGED vars
  BY <1>11 DEF vars
<1> QED
  BY <1>1, <1>2, <1>3, <1>4, <1>5, <1>6, <1>7, <1>8, <1>9, <1>10, <1>11
     DEF Next

\* The invariant holds in every state.
LEMMA Invariance == Spec => []Inv
BY InitInv, StepInv, PTL DEF Spec

\* A merge that the driver reports as done, with or without conflicts left,
\* leaves the working tree as git had it and gives git the fixed text.
THEOREM WorkTreeIsRestored == Spec => []WorkTreeRestored
<1>1. Inv => WorkTreeRestored
  BY DEF Inv, WorkTreeRestored
<1> QED BY <1>1, Invariance, PTL

\* The driver never reports success and leaves conflict markers in the result.
THEOREM SuccessIsClean == Spec => []NoMarkersOnSuccess
<1>1. Inv => NoMarkersOnSuccess
  BY DEF Inv, NoMarkersOnSuccess, HasConflictMarkers
<1> QED BY <1>1, Invariance, PTL

-----------------------------------------------------------------------------
(* What becomes of a conflict                                              *)

\* A conflict of two sides that differ in nothing but some lines.
ConflictOf(j, lines) ==
  /\ j.merged \notin {j.ours, j.theirs}
  /\ \A i \in DOMAIN Hunk(j.ours, j.theirs).ours : Hunk(j.ours, j.theirs).ours[i] \in lines
  /\ \A i \in DOMAIN Hunk(j.ours, j.theirs).theirs : Hunk(j.ours, j.theirs).theirs[i] \in lines

\* What a run without failures makes of a merge.
Result(j) == Regenerate(StripSectionConflicts(j.merged))

\* The conflict in the terms of the sequences that the lemmas are about.
Shape(j, B, X, Y, A, b) ==
  /\ B \in Seq(Lines) /\ X \in Seq(Lines) /\ Y \in Seq(Lines) /\ A \in Seq(Lines)
  /\ j.ours = B \o X \o A /\ j.theirs = B \o Y \o A
  /\ IsSide(B \o X \o A) /\ IsSide(B \o Y \o A) /\ B \o X \o A # B \o Y \o A
  /\ IsBase(b)
  /\ j.merged = B \o <<"open">> \o X \o b \o <<"sep">> \o Y \o <<"close">> \o A

\* A conflict of git's is the text around it, both sides and the markers.
LEMMA ConflictShape ==
  ASSUME NEW j, IsMerge(j), NEW lines, ConflictOf(j, lines)
  PROVE  \E B, X, Y, A, b : /\ Shape(j, B, X, Y, A, b)
                            /\ \A i \in 1..Len(X) : X[i] \in lines
                            /\ \A i \in 1..Len(Y) : Y[i] \in lines
<1> DEFINE s == j.ours
           t == j.theirs
           h == Hunk(s, t)
<1>1. IsSide(s) /\ IsSide(t)
  BY DEF IsMerge
<1>2. PICK b : s # t /\ IsBase(b) /\ j.merged = Conflict(s, t, b)
  BY DEF IsMerge, ConflictOf
<1>3. s \in Seq(Lines) /\ t \in Seq(Lines)
  BY <1>1, SideIs
<1>4. /\ h.before \in Seq(Lines) /\ h.ours \in Seq(Lines)
      /\ h.theirs \in Seq(Lines) /\ h.after \in Seq(Lines)
      /\ s = h.before \o h.ours \o h.after
      /\ t = h.before \o h.theirs \o h.after
  BY <1>3, HunkIs
<1>5. j.merged = h.before \o <<"open">> \o h.ours \o b \o <<"sep">> \o h.theirs
                    \o <<"close">> \o h.after
  BY <1>2 DEF Conflict
<1>6. /\ \A i \in DOMAIN h.ours : h.ours[i] \in lines
      /\ \A i \in DOMAIN h.theirs : h.theirs[i] \in lines
  BY DEF ConflictOf
<1> DEFINE B == h.before
           X == h.ours
           Y == h.theirs
           A == h.after
<1> HIDE DEF h
<1>7. Shape(j, B, X, Y, A, b)
  <2> HIDE DEF B, X, Y, A
  <2>1. /\ B \in Seq(Lines) /\ X \in Seq(Lines) /\ Y \in Seq(Lines) /\ A \in Seq(Lines)
        /\ s = B \o X \o A /\ t = B \o Y \o A
        /\ j.merged = B \o <<"open">> \o X \o b \o <<"sep">> \o Y \o <<"close">> \o A
    BY <1>4, <1>5 DEF B, X, Y, A
  <2>2. IsSide(B \o X \o A) /\ IsSide(B \o Y \o A) /\ B \o X \o A # B \o Y \o A
    BY <1>1, <1>2, <2>1
  <2> QED BY <1>2, <2>1, <2>2 DEF Shape
<1>8. (\A i \in 1..Len(X) : X[i] \in lines) /\ (\A i \in 1..Len(Y) : Y[i] \in lines)
  BY <1>4, <1>6
<1> HIDE DEF B, X, Y, A
<1> QED BY <1>7, <1>8

\* A conflict in a section has the result that either side has.
LEMMA SectionConflictResult ==
  ASSUME NEW j, IsMerge(j), ConflictOf(j, Old)
  PROVE  /\ Result(j) = Regenerate(j.ours) /\ Result(j) = Regenerate(j.theirs)
         /\ ~HasConflictMarkers(Result(j))
<1>1. PICK B, X, Y, A, b : /\ Shape(j, B, X, Y, A, b)
                           /\ \A i \in 1..Len(X) : X[i] \in Old
                           /\ \A i \in 1..Len(Y) : Y[i] \in Old
  BY ConflictShape
<1>2. SectionFixed(B, X, b, Y, A)
  BY <1>1, SectionConflictFixed DEF Shape
<1> QED BY <1>1, <1>2 DEF Shape, Result, SectionFixed

\* A conflict in prose keeps its markers.
LEMMA ProseConflictResult ==
  ASSUME NEW j, IsMerge(j), ConflictOf(j, Prosaic)
  PROVE  Result(j) = Regenerate(j.merged) /\ HasConflictMarkers(Result(j))
<1>1. PICK B, X, Y, A, b : /\ Shape(j, B, X, Y, A, b)
                           /\ \A i \in 1..Len(X) : X[i] \in Prosaic
                           /\ \A i \in 1..Len(Y) : Y[i] \in Prosaic
  BY ConflictShape
<1>2. ProseFixed(B, X, b, Y, A)
  BY <1>1, ProseConflictFixed DEF Shape
<1> QED BY <1>1, <1>2 DEF Shape, Result, ProseFixed

\* The merge goes through its steps: what is stripped is git's merge, what is
\* fixed is the stripped merge, and what is read and written is the fixed one.
Flow ==
  /\ job \in Jobs
  /\ pc = "strip" => ours = job.merged
  /\ pc \in {"backup", "place"} => cleaned = StripSectionConflicts(job.merged)
  /\ pc = "fix" => path = StripSectionConflicts(job.merged)
  /\ exit # NoExit => pc = "done"
  /\ pc = "conclude" => ours = fixed
  /\ job.fix = "regenerates" =>
        /\ pc = "read" /\ fixErr # "error" => path = Result(job)
        /\ pc = "restore" /\ fixErr # "error" => fixed = Result(job)
        /\ pc \in {"write", "conclude"} => fixed = Result(job)
        /\ exit \in {0, 1} => /\ ours = Result(job)
                              /\ exit = IF HasConflictMarkers(Result(job)) THEN 1 ELSE 0

\* Nothing is stripped or fixed at the start.
LEMMA InitFlow == Init => Flow
BY DEF Init, Flow, NoExit

\* Every step hands on the result of the one before.
LEMMA StepFlow == Flow /\ [Next]_vars => Flow'
<1> SUFFICES ASSUME Flow, [Next]_vars PROVE Flow'
  OBVIOUS
<1> USE DEF Flow, NoExit, Quit, Fault
<1>1. CASE MergeFile
  BY <1>1 DEF MergeFile
<1>2. CASE StripConflicts
  BY <1>2 DEF StripConflicts
<1>3. CASE Backup
  BY <1>3 DEF Backup
<1>4. CASE PlaceCleaned
  BY <1>4 DEF PlaceCleaned
<1>5. CASE FixInPlace
  BY <1>5 DEF FixInPlace, Result
<1>6. CASE ReadFixed
  BY <1>6 DEF ReadFixed
<1>7. CASE Restore
  BY <1>7 DEF Restore
<1>8. CASE WriteOurs
  BY <1>8 DEF WriteOurs
<1>9. CASE Conclude
  BY <1>9 DEF Conclude
<1>10. CASE Kill
  BY <1>10 DEF Kill
<1>11. CASE UNCHANGED vars
  BY <1>11 DEF vars
<1> QED
  BY <1>1, <1>2, <1>3, <1>4, <1>5, <1>6, <1>7, <1>8, <1>9, <1>10, <1>11
     DEF Next

\* The steps are in order in every state.
LEMMA FlowInvariance == Spec => []Flow
BY InitFlow, StepFlow, PTL DEF Spec

\* A conflict about nothing but the lines of one generated section is resolved
\* without the user, whatever the rest of the file and wherever the section,
\* and the result is what fix makes of either side.
THEOREM SectionConflictsAreResolved == Spec => []SectionConflictIsResolved
<1>1. Flow => SectionConflictIsResolved
  <2> SUFFICES ASSUME Flow, exit \in {0, 1}, job.fix = "regenerates", ConflictOf(job, Old)
               PROVE  exit = 0 /\ ours = Regenerate(job.ours) /\ ours = Regenerate(job.theirs)
    BY DEF SectionConflictIsResolved, ConflictOf, Old
  <2>1. IsMerge(job)
    BY GitMerges DEF Flow
  <2>2. /\ Result(job) = Regenerate(job.ours) /\ Result(job) = Regenerate(job.theirs)
        /\ ~HasConflictMarkers(Result(job))
    BY <2>1, SectionConflictResult
  <2> QED BY <2>2 DEF Flow
<1> QED BY <1>1, FlowInvariance, PTL

\* A conflict about prose is never resolved for the user: the driver reports
\* it and leaves git's markers, with the lines of both sides between them.
THEOREM ProseConflictsAreKept == Spec => []ProseConflictIsKept
<1>1. Flow => ProseConflictIsKept
  <2> SUFFICES ASSUME Flow, exit \in {0, 1}, job.fix = "regenerates", ConflictOf(job, Prosaic)
               PROVE  exit = 1 /\ ours = Regenerate(job.merged)
    BY DEF ProseConflictIsKept, ConflictOf, Prosaic
  <2>1. IsMerge(job)
    BY GitMerges DEF Flow
  <2>2. Result(job) = Regenerate(job.merged) /\ HasConflictMarkers(Result(job))
    BY <2>1, ProseConflictResult
  <2> QED BY <2>2 DEF Flow
<1> QED BY <1>1, FlowInvariance, PTL
=============================================================================
