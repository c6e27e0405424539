--------------------------- MODULE GitHooks_proofs ----------------------------
(***************************************************************************)
(* The managed block of .gitattributes, for every file, every list of      *)
(* patterns and any number of linters: what a fix or an installation       *)
(* writes keeps the user's lines in their order, and what a fix writes is  *)
(* read back as the patterns of the configuration.                         *)
(*                                                                         *)
(* Both are facts about recursive functions on sequences (Keep, Patterns), *)
(* so they are proved by induction: over the numbers, as a set that holds  *)
(* 0 and with a number its successor, and over sequences by their length.  *)
(***************************************************************************)
EXTENDS GitHooks, FiniteSetTheorems, SequenceTheorems, WellFoundedInduction, TLAPS

-----------------------------------------------------------------------------
(* Induction *)

\* A set of numbers that is not empty has a least element.
LEMMA Minimum ==
  ASSUME NEW T \in SUBSET Nat, NEW n \in T
  PROVE  \E x \in T : \A y \in T : x <= y
<1> DEFINE S == 0..n
           U == {0..k : k \in {i \in T : i <= n}}
           R == StrictSubsetOrdering(S)
<1>1. IsFiniteSet(S)
  BY FS_Interval
<1>2. IsWellFoundedOn(R, SUBSET S)
  BY <1>1, FS_StrictSubsetOrderingWellFounded, FS_FiniteSubsetsOfFinite
<1>3. U \subseteq SUBSET S /\ U # {}
  OBVIOUS
<1>4. \E x \in U : \A y \in U : ~(<<y,x>> \in R)
  <2> HIDE DEF S, U, R
  <2> QED BY <1>2, <1>3, WFMin
<1> PICK k \in T : k <= n /\ \A y \in U : ~(<<y,0..k>> \in R)
  BY <1>4
<1>5. ASSUME NEW y \in T, y < k PROVE FALSE
  <2>1. 0..y \in U /\ 0..y \in SUBSET S /\ 0..k \in SUBSET S /\ 0..y \subseteq 0..k
    BY <1>5
  <2>2. k \notin 0..y /\ k \in 0..k
    BY <1>5
  <2>3. <<0..y, 0..k>> \notin R
    BY <2>1
  <2> HIDE DEF S, U
  <2>4. \A a, b \in SUBSET S : a \subseteq b /\ a # b => <<a, b>> \in R
    BY DEF StrictSubsetOrdering
  <2> QED BY <2>1, <2>2, <2>3, <2>4
<1> QED BY <1>5

\* A set, not an operator, holds of every number.
LEMMA NatInd ==
  ASSUME NEW S, 0 \in S, \A n \in Nat : n \in S => n+1 \in S
  PROVE  Nat \subseteq S
<1> DEFINE T == Nat \ S
<1>1. SUFFICES ASSUME NEW n \in T PROVE FALSE
  OBVIOUS
<1> PICK x \in T : \A y \in T : x <= y
  <2>1. T \in SUBSET Nat OBVIOUS
  <2> HIDE DEF T
  <2> QED BY <2>1, Minimum
<1>2. x # 0 /\ x - 1 \in Nat /\ x - 1 \notin T
  OBVIOUS
<1> QED BY <1>2
\* A set holds every sequence when appending an element keeps to it.
LEMMA SeqInd ==
  ASSUME NEW T, NEW S, <<>> \in S,
         \A s \in Seq(T), x \in T : s \in S => Append(s, x) \in S
  PROVE  Seq(T) \subseteq S
<1> DEFINE N == {n \in Nat : \A s \in Seq(T) : Len(s) = n => s \in S}
<1>1. 0 \in N
  <2>1. \A s \in Seq(T) : Len(s) = 0 => s = <<>>
    OBVIOUS
  <2> QED BY <2>1
<1>2. ASSUME NEW n \in Nat, n \in N PROVE n + 1 \in N
  <2> SUFFICES ASSUME NEW t \in Seq(T), Len(t) = n + 1 PROVE t \in S
    OBVIOUS
  <2>1. t # <<>>
    OBVIOUS
  <2> PICK s \in Seq(T), x \in T : t = Append(s, x)
    BY <2>1, SequenceEmptyOrAppend
  <2>2. Len(s) = n
    BY AppendProperties, LenProperties
  <2> QED BY <1>2, <2>2
<1> HIDE DEF N
<1>3. Nat \subseteq N
  BY <1>1, <1>2, NatInd
<1> QED BY <1>3 DEF N

\* The value of f at i that Keep's recursion asks for.
Keeps(s, S, f, n) ==
  f = [i \in 0..n |-> IF i = 0 THEN <<>>
                      ELSE IF s[i] \in S THEN Append(f[i - 1], s[i]) ELSE f[i - 1]]

\* A function of that form exists on every interval: the recursion is well founded.
LEMMA KeepsExists ==
  ASSUME NEW s, NEW S, NEW n \in Nat
  PROVE  \E f : Keeps(s, S, f, n)
<1> DEFINE N == {m \in Nat : \E f : Keeps(s, S, f, m)}
<1>1. 0 \in N
  <2>1. Keeps(s, S, [i \in 0..0 |-> <<>>], 0)
    BY DEF Keeps
  <2> QED BY <2>1
<1>2. ASSUME NEW m \in Nat, m \in N PROVE m + 1 \in N
  <2> PICK f : Keeps(s, S, f, m)
    BY <1>2
  <2> DEFINE v == IF s[m + 1] \in S THEN Append(f[m], s[m + 1]) ELSE f[m]
             g == [i \in 0..m + 1 |-> IF i = m + 1 THEN v ELSE f[i]]
  <2>1. \A i \in 0..m + 1 :
          g[i] = IF i = 0 THEN <<>>
                 ELSE IF s[i] \in S THEN Append(g[i - 1], s[i]) ELSE g[i - 1]
    <3>1. \A i \in 0..m : f[i] = IF i = 0 THEN <<>>
                 ELSE IF s[i] \in S THEN Append(f[i - 1], s[i]) ELSE f[i - 1]
      BY DEF Keeps
    <3>2. /\ \A i \in 0..m : g[i] = f[i]
          /\ g[m + 1] = v /\ (m + 1) - 1 = m /\ m + 1 # 0
      OBVIOUS
    <3> HIDE DEF g
    <3> QED BY <3>1, <3>2
  <2>2. g = [i \in 0..m + 1 |-> g[i]]
    OBVIOUS
  <2> HIDE DEF g
  <2>3. Keeps(s, S, g, m + 1)
    BY <2>1, <2>2 DEF Keeps
  <2> QED BY <2>3
<1> HIDE DEF N
<1>3. Nat \subseteq N
  BY <1>1, <1>2, NatInd
<1> QED BY <1>3 DEF N

\* On a common prefix two such functions agree.
LEMMA KeepsAgree ==
  ASSUME NEW s, NEW t, NEW S, NEW n \in Nat, NEW m \in Nat, n <= m,
         NEW f, Keeps(s, S, f, n), NEW g, Keeps(t, S, g, m),
         \A i \in 1..n : s[i] = t[i]
  PROVE  \A i \in 0..n : f[i] = g[i]
<1> DEFINE N == {i \in Nat : i \in 0..n => f[i] = g[i]}
<1>1. 0 \in N
  BY DEF Keeps
<1>2. ASSUME NEW i \in Nat, i \in N PROVE i + 1 \in N
  <2> SUFFICES ASSUME i + 1 \in 0..n PROVE f[i + 1] = g[i + 1]
    OBVIOUS
  <2>1. /\ f[i + 1] = IF s[i + 1] \in S THEN Append(f[i], s[i + 1]) ELSE f[i]
        /\ g[i + 1] = IF t[i + 1] \in S THEN Append(g[i], t[i + 1]) ELSE g[i]
    <3>1. (i + 1) - 1 = i /\ i + 1 # 0 /\ i + 1 \in 0..m
      OBVIOUS
    <3> QED BY <3>1 DEF Keeps
  <2> QED BY <1>2, <2>1
<1> HIDE DEF N
<1>3. Nat \subseteq N
  BY <1>1, <1>2, NatInd
<1> QED BY <1>3 DEF N

\* Keep takes its value from one of them.
LEMMA KeepIs ==
  ASSUME NEW s, Len(s) \in Nat, NEW S
  PROVE  \E f : Keeps(s, S, f, Len(s)) /\ Keep(s, S) = f[Len(s)]
<1> DEFINE F == CHOOSE f : f = [i \in 0..Len(s) |->
                  IF i = 0 THEN <<>>
                  ELSE IF s[i] \in S THEN Append(f[i - 1], s[i]) ELSE f[i - 1]]
<1>1. Keep(s, S) = F[Len(s)]
  BY DEF Keep
<1>2. \E f : f = [i \in 0..Len(s) |->
                  IF i = 0 THEN <<>>
                  ELSE IF s[i] \in S THEN Append(f[i - 1], s[i]) ELSE f[i - 1]]
  <2>1. \E f : Keeps(s, S, f, Len(s))
    BY KeepsExists
  <2> QED BY <2>1 DEF Keeps
<1>3. F = [i \in 0..Len(s) |->
             IF i = 0 THEN <<>>
             ELSE IF s[i] \in S THEN Append(F[i - 1], s[i]) ELSE F[i - 1]]
  BY <1>2
<1> HIDE DEF F
<1>4. Keeps(s, S, F, Len(s))
  BY <1>3 DEF Keeps
<1> QED BY <1>1, <1>4

\* Nothing is kept of nothing.
LEMMA KeepNone == ASSUME NEW S PROVE Keep(<<>>, S) = <<>>
<1> PICK f : Keeps(<<>>, S, f, 0) /\ Keep(<<>>, S) = f[0]
  BY KeepIs
<1> QED BY DEF Keeps

\* Keep one element at a time.
LEMMA KeepAppend ==
  ASSUME NEW T, NEW s \in Seq(T), NEW x \in T, NEW S
  PROVE  Keep(Append(s, x), S) = IF x \in S THEN Append(Keep(s, S), x) ELSE Keep(s, S)
<1> DEFINE t == Append(s, x)
           n == Len(s)
<1>1. /\ n \in Nat /\ Len(t) = n + 1 /\ t[n + 1] = x
      /\ \A i \in 1..n : t[i] = s[i]
  OBVIOUS
<1> HIDE DEF t, n
<1> PICK f : Keeps(s, S, f, n) /\ Keep(s, S) = f[n]
  BY <1>1, KeepIs DEF n
<1> PICK g : Keeps(t, S, g, n + 1) /\ Keep(t, S) = g[n + 1]
  BY <1>1, KeepIs
<1>2. f[n] = g[n]
  <2>1. \A i \in 0..n : f[i] = g[i]
    BY <1>1, KeepsAgree
  <2> QED BY <1>1, <2>1
<1>3. g[n + 1] = IF x \in S THEN Append(g[n], x) ELSE g[n]
  <2>1. (n + 1) - 1 = n /\ n + 1 # 0 /\ n + 1 \in 0..n + 1
    BY <1>1
  <2> QED BY <1>1, <2>1 DEF Keeps
<1> QED BY <1>2, <1>3 DEF t

\* What is kept is a sequence of elements of both sets ...
LEMMA KeepIsSeq ==
  ASSUME NEW T, NEW S
  PROVE  \A s \in Seq(T) : Keep(s, S) \in Seq(T \cap S)
<1> DEFINE N == {s \in Seq(T) : Keep(s, S) \in Seq(T \cap S)}
<1>1. <<>> \in N
  <2>1. <<>> \in Seq(T) /\ <<>> \in Seq(T \cap S)
    OBVIOUS
  <2> QED BY <2>1, KeepNone
<1>2. ASSUME NEW s \in Seq(T), NEW x \in T, s \in N PROVE Append(s, x) \in N
  <2>1. Append(s, x) \in Seq(T)
    OBVIOUS
  <2>2. Keep(s, S) \in Seq(T \cap S)
    BY <1>2
  <2>3. x \in S => Append(Keep(s, S), x) \in Seq(T \cap S)
    BY <2>2
  <2>4. Keep(Append(s, x), S) = IF x \in S THEN Append(Keep(s, S), x) ELSE Keep(s, S)
    BY KeepAppend
  <2>5. Keep(Append(s, x), S) \in Seq(T \cap S)
    BY <2>2, <2>3, <2>4
  <2> QED BY <2>1, <2>5
<1> HIDE DEF N
<1>3. Seq(T) \subseteq N
  BY <1>1, <1>2, SeqInd
<1> QED BY <1>3 DEF N

\* ... so of the first.
LEMMA KeepOfSeq ==
  ASSUME NEW T, NEW S, NEW s \in Seq(T)
  PROVE  Keep(s, S) \in Seq(T)
<1>1. Keep(s, S) \in Seq(T \cap S) /\ T \cap S \subseteq T
  BY KeepIsSeq
<1> QED BY <1>1, SeqMonotonic

\* Keep distributes over concatenation ...
LEMMA KeepConcat ==
  ASSUME NEW T, NEW s \in Seq(T), NEW S
  PROVE  \A t \in Seq(T) : Keep(s \o t, S) = Keep(s, S) \o Keep(t, S)
<1> DEFINE N == {t \in Seq(T) : Keep(s \o t, S) = Keep(s, S) \o Keep(t, S)}
<1>1. \A t \in Seq(T) : Keep(t, S) \in Seq(T)
  BY KeepOfSeq
<1>2. <<>> \in N
  BY <1>1, KeepNone, ConcatEmptySeq
<1>3. ASSUME NEW t \in Seq(T), NEW x \in T, t \in N PROVE Append(t, x) \in N
  <2>1. s \o Append(t, x) = Append(s \o t, x) /\ s \o t \in Seq(T) /\ Append(t, x) \in Seq(T)
    OBVIOUS
  <2>2. Keep(s, S) \o Append(Keep(t, S), x) = Append(Keep(s, S) \o Keep(t, S), x)
    BY <1>1
  <2>3. Keep(s \o t, S) = Keep(s, S) \o Keep(t, S)
    BY <1>3
  <2>4. Keep(Append(t, x), S) = IF x \in S THEN Append(Keep(t, S), x) ELSE Keep(t, S)
    BY KeepAppend
  <2>5. Keep(Append(s \o t, x), S) = IF x \in S THEN Append(Keep(s \o t, S), x) ELSE Keep(s \o t, S)
    BY <2>1, KeepAppend
  <2>6. Keep(s \o Append(t, x), S) = Keep(s, S) \o Keep(Append(t, x), S)
    BY <2>1, <2>2, <2>3, <2>4, <2>5
  <2> QED BY <2>1, <2>6
<1> HIDE DEF N
<1>4. Seq(T) \subseteq N
  BY <1>2, <1>3, SeqInd
<1> QED BY <1>4 DEF N

\* ... and keeping more first changes nothing.
LEMMA KeepTwice ==
  ASSUME NEW T, NEW A, NEW B, B \subseteq A
  PROVE  \A s \in Seq(T) : Keep(Keep(s, A), B) = Keep(s, B)
<1> DEFINE N == {s \in Seq(T) : Keep(Keep(s, A), B) = Keep(s, B)}
<1>1. <<>> \in N
  BY KeepNone
<1>2. ASSUME NEW s \in Seq(T), NEW x \in T, s \in N PROVE Append(s, x) \in N
  <2>1. Append(s, x) \in Seq(T) /\ Keep(s, A) \in Seq(T)
    BY KeepOfSeq
  <2>2. Keep(Append(s, x), A) = IF x \in A THEN Append(Keep(s, A), x) ELSE Keep(s, A)
    BY KeepAppend
  <2>3. Keep(Append(s, x), B) = IF x \in B THEN Append(Keep(s, B), x) ELSE Keep(s, B)
    BY KeepAppend
  <2>4. Keep(Append(Keep(s, A), x), B)
          = IF x \in B THEN Append(Keep(Keep(s, A), B), x) ELSE Keep(Keep(s, A), B)
    BY <2>1, KeepAppend
  <2> QED BY <1>2, <2>1, <2>2, <2>3, <2>4
<1> HIDE DEF N
<1>3. Seq(T) \subseteq N
  BY <1>1, <1>2, SeqInd
<1> QED BY <1>3 DEF N

-----------------------------------------------------------------------------
(* The managed block *)

AnyLine == Lines(Kinds)
Globs == [include : Seq(Texts), exclude : Seq(Texts)]

\* The least number of a set is the one that no other is below.
LEMMA MinIs ==
  ASSUME NEW S \in SUBSET Nat, NEW m \in S, \A i \in S : m <= i
  PROVE  Min(S) = m
<1>1. \A x \in S : (\A y \in S : x =< y) => x = m
  OBVIOUS
<1> QED BY <1>1 DEF Min

\* FindBegin is the place of the first line that begins a block ...
LEMMA FirstBegin ==
  ASSUME NEW file, Len(file) \in Nat, NEW p \in 1..Len(file), file[p] = Begin,
         \A i \in 1..p - 1 : file[i] # Begin
  PROVE  FindBegin(file) = p
<1> DEFINE I == {i \in 1..Len(file) : file[i] = Begin}
<1>1. I \in SUBSET Nat /\ p \in I /\ \A i \in I : p <= i
  OBVIOUS
<1>2. Min(I) = p
  <2> HIDE DEF I
  <2> QED BY <1>1, MinIs
<1> QED BY <1>1, <1>2 DEF FindBegin, SelectInSeq

\* ... or 0 when there is none.
LEMMA NoBegin ==
  ASSUME NEW file, Len(file) \in Nat
  PROVE  \/ FindBegin(file) = 0 /\ \A i \in 1..Len(file) : file[i] # Begin
         \/ /\ FindBegin(file) \in 1..Len(file)
            /\ \A i \in 1..FindBegin(file) - 1 : file[i] # Begin
<1> DEFINE I == {i \in 1..Len(file) : file[i] = Begin}
<1>1. CASE I = {}
  BY <1>1 DEF FindBegin, SelectInSeq
<1>2. CASE I # {}
  <2>1. PICK p \in I : \A i \in I : p <= i
    <3>1. I \in SUBSET Nat /\ \E n : n \in I
      BY <1>2
    <3> HIDE DEF I
    <3> QED BY <3>1, Minimum
  <2>2. p \in 1..Len(file) /\ file[p] = Begin /\ \A i \in 1..p - 1 : file[i] # Begin
    BY <2>1
  <2>3. FindBegin(file) = p
    BY <2>2, FirstBegin
  <2> QED BY <2>2, <2>3
<1> QED BY <1>1, <1>2

\* FindAfter is behind the first end after it.
LEMMA FirstEnd ==
  ASSUME NEW file, Len(file) \in Nat, NEW q \in 1..Len(file), file[q] = End,
         FindBegin(file) \in 1..q,
         \A i \in FindBegin(file)..q - 1 : file[i] # End
  PROVE  FindAfter(file) = q + 1
<1> DEFINE I == {i \in FindBegin(file)..Len(file) : file[i] = End}
<1>1. I \in SUBSET Nat /\ q \in I /\ \A i \in I : q <= i
  OBVIOUS
<1>2. Min(I) = q
  <2> HIDE DEF I
  <2> QED BY <1>1, MinIs
<1> QED BY <1>1, <1>2 DEF FindAfter, SelectInSubSeq

\* FindAfter is behind the block, and in the file or at its end.
LEMMA AfterIsBehind ==
  ASSUME NEW file, Len(file) \in Nat, HasBlock(file)
  PROVE  FindBegin(file) \in 1..Len(file) /\ FindAfter(file) \in FindBegin(file) + 1..Len(file) + 1
<1> DEFINE b == FindBegin(file)
           I == {i \in b..Len(file) : file[i] = End}
<1>1. b \in 1..Len(file)
  BY NoBegin DEF HasBlock
<1> HIDE DEF b
<1>2. CASE I = {}
  BY <1>1, <1>2 DEF FindAfter, SelectInSubSeq, b
<1>3. CASE I # {}
  <2>1. PICK q \in I : \A i \in I : q <= i
    <3>1. I \in SUBSET Nat /\ \E n : n \in I
      BY <1>1, <1>3
    <3> HIDE DEF I
    <3> QED BY <3>1, Minimum
  <2>2. q \in b..Len(file) /\ file[q] = End /\ \A i \in b..q - 1 : file[i] # End
    BY <1>1, <2>1
  <2>3. FindAfter(file) = q + 1
    BY <1>1, <2>2, FirstEnd DEF b
  <2> QED BY <1>1, <2>2, <2>3 DEF b
<1> QED BY <1>2, <1>3, <1>1 DEF b

\* An attribute is a line, and never the end of the block.
LEMMA AttributeIs ==
  /\ Begin \in AnyLine /\ End \in AnyLine /\ Begin # End
  /\ \A p \in Texts : /\ Attribute("set", p) \in AnyLine /\ Attribute("unset", p) \in AnyLine
                       /\ Attribute("set", p) # End /\ Attribute("unset", p) # End
<1>1. \A k \in Kinds, p \in Texts : Line(k, p) \in AnyLine
  BY DEF AnyLine, Lines, Line
<1>2. Begin \in AnyLine /\ End \in AnyLine /\ Begin # End
  <2>1. Begin.kind = "begin" /\ End.kind = "end"
    BY DEF Begin, End, Line
  <2>2. "begin" \in Kinds /\ "end" \in Kinds
    BY DEF Kinds
  <2>3. Begin \in AnyLine /\ End \in AnyLine
    <3>1. "" \in Texts
      BY GitHooksTypes
    <3> QED BY <1>1, <2>2, <3>1 DEF Begin, End
  <2> QED BY <2>1, <2>3
<1>3. ASSUME NEW p \in Texts, NEW k \in {"set", "unset"}
      PROVE  Attribute(k, p) \in AnyLine /\ Attribute(k, p) # End
  <2>1. PICK j \in {"set", "unset", "comment"} : Attribute(k, p) = Line(j, p)
    BY DEF Attribute
  <2>2. Line(j, p).kind = j /\ End.kind = "end" /\ j \in Kinds
    BY DEF Line, End, Kinds
  <2> QED BY <1>1, <2>1, <2>2
<1> QED BY <1>2, <1>3

\* The attributes of a list are as many lines.
LEMMA AttributesAre ==
  ASSUME NEW s \in Seq(Texts), NEW k, \A p \in Texts : Attribute(k, p) \in AnyLine
  PROVE  LET u == [i \in DOMAIN s |-> Attribute(k, s[i])]
         IN  u \in Seq(AnyLine) /\ Len(u) = Len(s) /\ \A i \in 1..Len(s) : u[i] = Attribute(k, s[i])
<1> DEFINE n == Len(s)
           u == [i \in DOMAIN s |-> Attribute(k, s[i])]
<1>1. n \in Nat /\ DOMAIN s = 1..n /\ \A i \in 1..n : s[i] \in Texts
  OBVIOUS
<1> HIDE DEF n
<1>2. DOMAIN u = 1..n /\ \A i \in 1..n : u[i] = Attribute(k, s[i])
  BY <1>1
<1>3. u \in [1..n -> AnyLine]
  BY <1>1
<1> HIDE DEF u
<1>4. u \in Seq(AnyLine)
  BY <1>1, <1>3, SeqDef
<1>5. Len(u) \in Nat /\ DOMAIN u = 1..Len(u)
  BY <1>4, LenProperties
<1>6. Len(u) = n
  BY <1>1, <1>2, <1>5
<1> QED BY <1>2, <1>4, <1>6 DEF u, n

\* The rendered block, line by line.
LEMMA Rendered ==
  ASSUME NEW g \in Globs
  PROVE  LET R == RenderManagedBlock(g)
             m == Len(g.include)
             n == Len(g.exclude)
         IN  /\ R \in Seq(AnyLine) /\ m \in Nat /\ n \in Nat /\ Len(R) = m + n + 2
             /\ R[1] = Begin /\ R[m + n + 2] = End
             /\ \A i \in 1..m : R[1 + i] = Attribute("set", g.include[i])
             /\ \A i \in 1..n : R[1 + m + i] = Attribute("unset", g.exclude[i])
             /\ \A i \in 1..m + n + 1 : R[i] # End
<1> DEFINE u == [i \in DOMAIN g.include |-> Attribute("set", g.include[i])]
           v == [i \in DOMAIN g.exclude |-> Attribute("unset", g.exclude[i])]
           m == Len(g.include)
           n == Len(g.exclude)
<1>1. /\ g.include \in Seq(Texts) /\ g.exclude \in Seq(Texts)
      /\ m \in Nat /\ n \in Nat
      /\ \A i \in 1..m : g.include[i] \in Texts
      /\ \A i \in 1..n : g.exclude[i] \in Texts
  BY DEF Globs
<1>2. /\ Begin \in AnyLine /\ End \in AnyLine /\ Begin # End
      /\ \A p \in Texts : /\ Attribute("set", p) \in AnyLine /\ Attribute("unset", p) \in AnyLine
                           /\ Attribute("set", p) # End /\ Attribute("unset", p) # End
  BY AttributeIs
<1>3. u \in Seq(AnyLine) /\ Len(u) = m /\ \A i \in 1..m : u[i] = Attribute("set", g.include[i])
  BY <1>1, <1>2, AttributesAre
<1>4. v \in Seq(AnyLine) /\ Len(v) = n /\ \A i \in 1..n : v[i] = Attribute("unset", g.exclude[i])
  BY <1>1, <1>2, AttributesAre
<1> HIDE DEF m, n, u, v
<1>5. \A i \in 1..m : u[i] = Attribute("set", g.include[i]) /\ u[i] # End
  BY <1>1, <1>2, <1>3
<1>6. \A i \in 1..n : v[i] = Attribute("unset", g.exclude[i]) /\ v[i] # End
  BY <1>1, <1>2, <1>4
<1>7. RenderManagedBlock(g) = <<Begin>> \o u \o v \o <<End>>
  BY DEF RenderManagedBlock, u, v
<1> DEFINE r1 == <<Begin>> \o u
           r2 == r1 \o v
           r3 == r2 \o <<End>>
<1>8. /\ r1 \in Seq(AnyLine) /\ Len(r1) = m + 1 /\ r1[1] = Begin
      /\ \A i \in 1..m : r1[1 + i] = u[i]
  BY <1>1, <1>2, <1>3
<1> HIDE DEF r1
<1>9. /\ r2 \in Seq(AnyLine) /\ Len(r2) = m + n + 1
      /\ \A i \in 1..m + 1 : r2[i] = r1[i]
      /\ \A i \in 1..n : r2[1 + m + i] = v[i]
  <2>1. /\ r2 \in Seq(AnyLine) /\ Len(r2) = Len(r1) + Len(v)
        /\ \A i \in 1..Len(r1) + Len(v) : r2[i] = IF i <= Len(r1) THEN r1[i] ELSE v[i - Len(r1)]
    BY <1>4, <1>8, ConcatProperties
  <2> HIDE DEF r2
  <2>2. ASSUME NEW i \in 1..n PROVE r2[1 + m + i] = v[i]
    <3>1. /\ 1 + m + i \in 1..(m + 1) + n /\ ~(1 + m + i <= m + 1)
          /\ (1 + m + i) - (m + 1) = i
      BY <1>1
    <3> QED BY <1>4, <1>8, <2>1, <3>1
  <2>3. Len(r2) = m + n + 1
    BY <1>1, <1>4, <1>8, <2>1
  <2>4. ASSUME NEW i \in 1..m + 1 PROVE r2[i] = r1[i]
    <3>1. i \in 1..(m + 1) + n /\ i <= m + 1
      BY <1>1
    <3> QED BY <1>4, <1>8, <2>1, <3>1
  <2> QED BY <2>1, <2>2, <2>3, <2>4
<1> HIDE DEF r2
<1>10. /\ r3 \in Seq(AnyLine) /\ Len(r3) = m + n + 2 /\ r3[m + n + 2] = End
       /\ \A i \in 1..m + n + 1 : r3[i] = r2[i]
  <2>1. <<End>> \in Seq(AnyLine) /\ Len(<<End>>) = 1 /\ <<End>>[1] = End
    BY <1>2
  <2>2. /\ r3 \in Seq(AnyLine) /\ Len(r3) = Len(r2) + 1
        /\ \A i \in 1..Len(r2) + 1 : r3[i] = IF i <= Len(r2) THEN r2[i] ELSE <<End>>[i - Len(r2)]
    BY <1>9, <2>1, ConcatProperties
  <2>3. (m + n + 2) - (m + n + 1) = 1 /\ ~(m + n + 2 <= m + n + 1)
    BY <1>1
  <2> HIDE DEF r3
  <2> QED BY <1>1, <1>9, <2>1, <2>2, <2>3
<1>11. RenderManagedBlock(g) = r3
  BY <1>7 DEF r1, r2
<1> HIDE DEF r3
<1>12. r3[1] = Begin
  BY <1>1, <1>8, <1>9, <1>10
<1>13. \A i \in 1..m : r3[1 + i] = Attribute("set", g.include[i]) /\ r3[1 + i] # End
  <2>1. ASSUME NEW i \in 1..m PROVE r3[1 + i] = u[i]
    <3>1. 1 + i \in 1..m + n + 1 /\ 1 + i \in 1..m + 1
      BY <1>1
    <3>2. r3[1 + i] = r1[1 + i]
      BY <1>9, <1>10, <3>1
    <3> QED BY <1>8, <3>2
  <2> QED BY <1>5, <2>1
<1>14. \A i \in 1..n : r3[1 + m + i] = Attribute("unset", g.exclude[i]) /\ r3[1 + m + i] # End
  <2>1. ASSUME NEW i \in 1..n PROVE r3[1 + m + i] = v[i]
    <3>1. 1 + m + i \in 1..m + n + 1
      BY <1>1
    <3> QED BY <1>9, <1>10, <3>1
  <2> QED BY <1>6, <2>1
<1>15. ASSUME NEW i \in 1..m + n + 1 PROVE r3[i] # End
  <2>1. CASE i = 1
    BY <2>1, <1>2, <1>12
  <2>2. CASE i \in 2..m + 1
    <3>1. i - 1 \in 1..m /\ 1 + (i - 1) = i
      BY <1>1, <2>2
    <3> QED BY <3>1, <1>13
  <2>3. CASE i \in m + 2..m + n + 1
    <3>1. i - m - 1 \in 1..n /\ 1 + m + (i - m - 1) = i
      BY <1>1, <2>3
    <3> QED BY <3>1, <1>14
  <2> QED BY <1>1, <2>1, <2>2, <2>3
<1> QED BY <1>1, <1>10, <1>11, <1>12, <1>13, <1>14, <1>15 DEF m, n

\* Where the block is in what WriteGitattributes leaves, between lines without a marker
\* of its beginning and lines of any kind.
LEMMA BlockIsFound ==
  ASSUME NEW b \in Seq(AnyLine), NEW a \in Seq(AnyLine), NEW g \in Globs,
         \A i \in 1..Len(b) : b[i] # Begin
  PROVE  LET R == RenderManagedBlock(g)
             file == b \o R \o a
         IN  /\ file \in Seq(AnyLine)
             /\ FindBegin(file) = Len(b) + 1
             /\ FindAfter(file) = Len(b) + Len(R) + 1
             /\ Before(file) = b /\ After(file) = a
             /\ \A i \in 1..Len(R) : file[Len(b) + i] = R[i]
<1> DEFINE R == RenderManagedBlock(g)
           r == Len(R)
           n == Len(b)
           k == Len(a)
           h == b \o R
           file == h \o a
<1>1. /\ R \in Seq(AnyLine) /\ r \in Nat /\ r >= 2 /\ R[1] = Begin /\ R[r] = End
      /\ \A i \in 1..r - 1 : R[i] # End
  <2> DEFINE m == Len(g.include)
             l == Len(g.exclude)
  <2>1. /\ R \in Seq(AnyLine) /\ m \in Nat /\ l \in Nat /\ r = m + l + 2
        /\ R[1] = Begin /\ R[m + l + 2] = End
        /\ \A i \in 1..m + l + 1 : R[i] # End
    BY Rendered
  <2> HIDE DEF m, l, R, r
  <2>2. r \in Nat /\ r >= 2 /\ r - 1 = m + l + 1
    BY <2>1
  <2> QED BY <2>1, <2>2
<1>2. n \in Nat /\ k \in Nat /\ Begin # End
  BY AttributeIs
<1> HIDE DEF R, r, n, k
<1>3. /\ h \in Seq(AnyLine) /\ Len(h) = n + r
      /\ \A i \in 1..n + r : h[i] = IF i <= n THEN b[i] ELSE R[i - n]
  BY <1>1, ConcatProperties DEF n, r
<1> HIDE DEF h
<1>4. /\ file \in Seq(AnyLine) /\ Len(file) = n + r + k
      /\ \A i \in 1..n + r + k : file[i] = IF i <= n + r THEN h[i] ELSE a[i - (n + r)]
  BY <1>3, ConcatProperties DEF k
<1> HIDE DEF file
<1>5. ASSUME NEW i \in 1..n PROVE file[i] = b[i]
  <2>1. i \in 1..n + r /\ i \in 1..n + r + k /\ i <= n /\ i <= n + r
    BY <1>1, <1>2
  <2> QED BY <1>3, <1>4, <2>1
<1>6. ASSUME NEW i \in 1..r PROVE file[n + i] = R[i]
  <2>1. n + i \in 1..n + r /\ n + i \in 1..n + r + k /\ ~(n + i <= n) /\ n + i <= n + r /\ (n + i) - n = i
    BY <1>1, <1>2
  <2> QED BY <1>3, <1>4, <2>1
<1>7. ASSUME NEW i \in 1..k PROVE file[n + r + i] = a[i]
  <2>1. n + r + i \in 1..n + r + k /\ ~(n + r + i <= n + r) /\ (n + r + i) - (n + r) = i
    BY <1>1, <1>2
  <2> QED BY <1>4, <2>1
<1>8. FindBegin(file) = n + 1
  <2>1. n + 1 \in 1..Len(file) /\ 1 \in 1..r
    BY <1>1, <1>2, <1>4
  <2>2. file[n + 1] = Begin
    BY <1>1, <1>6, <2>1
  <2>3. \A i \in 1..(n + 1) - 1 : file[i] # Begin
    BY <1>2, <1>5 DEF n
  <2>4. Len(file) \in Nat
    BY <1>4, LenProperties
  <2> QED BY <2>1, <2>2, <2>3, <2>4, FirstBegin
<1>9. FindAfter(file) = n + r + 1
  <2>1. n + r \in 1..Len(file) /\ n + 1 \in 1..n + r /\ r \in 1..r
    BY <1>1, <1>2, <1>4
  <2>2. file[n + r] = End
    BY <1>1, <1>6, <2>1
  <2>3. ASSUME NEW i \in n + 1..(n + r) - 1 PROVE file[i] # End
    <3>1. i - n \in 1..r - 1 /\ i - n \in 1..r /\ n + (i - n) = i
      BY <1>1, <1>2
    <3> QED BY <1>1, <1>6, <3>1
  <2>4. Len(file) \in Nat
    BY <1>4, LenProperties
  <2>5. FindBegin(file) \in 1..n + r /\ \A i \in FindBegin(file)..(n + r) - 1 : file[i] # End
    BY <1>8, <2>1, <2>3
  <2>6. FindAfter(file) = (n + r) + 1
    BY <2>1, <2>2, <2>4, <2>5, FirstEnd
  <2> QED BY <2>6
<1>10. Before(file) = b
  <2>1. /\ (n + 1) - 1 = n /\ \A i \in 1..n : file[i] \in AnyLine
        /\ IF 1 <= n THEN n - 1 + 1 = n ELSE n = 0
    BY <1>2, <1>5 DEF n
  <2>2. /\ SubSeq(file, 1, n) \in Seq(AnyLine)
        /\ Len(SubSeq(file, 1, n)) = IF 1 <= n THEN n - 1 + 1 ELSE 0
        /\ \A i \in 1..n - 1 + 1 : SubSeq(file, 1, n)[i] = file[1 + i - 1]
    BY <1>2, <2>1, SubSeqProperties
  <2>3. Len(SubSeq(file, 1, n)) = n /\ \A i \in 1..n : SubSeq(file, 1, n)[i] = b[i]
    BY <1>2, <1>5, <2>1, <2>2
  <2>4. SubSeq(file, 1, n) = b
    BY <2>2, <2>3, SeqEqual DEF n
  <2> QED BY <1>8, <2>1, <2>4 DEF Before
<1>11. After(file) = a
  <2> DEFINE p == n + r + 1
             q == n + r + k
             t == SubSeq(file, p, q)
  <2>1. ASSUME NEW i \in p..q PROVE file[i] \in AnyLine
    <3>1. i - (n + r) \in 1..k /\ n + r + (i - (n + r)) = i
      BY <1>1, <1>2
    <3> QED BY <1>7, <3>1 DEF k
  <2>2. /\ p \in Int /\ q \in Int /\ q - p + 1 = k /\ (IF p <= q THEN q - p + 1 ELSE 0) = k
        /\ \A i \in 1..k : p + i - 1 = n + r + i
    BY <1>1, <1>2
  <2> HIDE DEF p, q
  <2>3. /\ t \in Seq(AnyLine) /\ Len(t) = IF p <= q THEN q - p + 1 ELSE 0
        /\ \A i \in 1..q - p + 1 : t[i] = file[p + i - 1]
    BY <2>1, <2>2, SubSeqProperties
  <2>4. Len(t) = k /\ \A i \in 1..k : t[i] = a[i]
    <3> HIDE DEF t
    <3> QED BY <1>7, <2>2, <2>3
  <2>5. t = a
    <3> HIDE DEF t
    <3> QED BY <2>3, <2>4, SeqEqual DEF k
  <2> QED BY <1>4, <1>9, <2>5 DEF After, p, q
<1>12. file = b \o R \o a
  BY DEF file, h
<1> QED BY <1>4, <1>6, <1>8, <1>9, <1>10, <1>11, <1>12 DEF n, r, R

\* Stripping leaves lines, and begins no block.
LEMMA StripIsSeq ==
  ASSUME NEW s \in Seq(AnyLine)
  PROVE  /\ StripStale(s) \in Seq(AnyLine)
         /\ (\A i \in 1..Len(s) : s[i] # Begin) =>
              \A i \in 1..Len(StripStale(s)) : StripStale(s)[i] # Begin
<1> DEFINE S == Lines(Kinds \ {"set"})
           T == AnyLine \ {Begin}
<1>1. StripStale(s) \in Seq(AnyLine)
  BY KeepOfSeq DEF StripStale
<1>2. ASSUME \A i \in 1..Len(s) : s[i] # Begin, NEW i \in 1..Len(StripStale(s))
      PROVE  StripStale(s)[i] # Begin
  <2>1. s \in Seq(T)
    <3>1. Len(s) \in Nat /\ s \in [1..Len(s) -> AnyLine]
      BY LenProperties
    <3>2. s \in [1..Len(s) -> T]
      BY <1>2, <3>1
    <3> QED BY <3>1, <3>2, SeqDef
  <2> HIDE DEF T
  <2>2. StripStale(s) \in Seq(T)
    BY <2>1, KeepOfSeq DEF StripStale
  <2>3. StripStale(s)[i] \in T
    BY <1>2, <2>2, ElementOfSeq
  <2> QED BY <2>3 DEF T
<1> QED BY <1>1, <1>2

-----------------------------------------------------------------------------
(* What is written is read back *)

\* The value of f at i that the recursion of Patterns asks for.
Founds(kind, file, from, f, n) ==
  f = [i \in 0..n |-> IF i < from THEN <<>>
                      ELSE IF file[i].kind = kind THEN Append(f[i - 1], file[i].pattern) ELSE f[i - 1]]

\* A function of that form exists, and Patterns takes its value from it.
LEMMA FoundsExists ==
  ASSUME NEW kind, NEW file, NEW from \in Nat \ {0}, NEW n \in Nat
  PROVE  \E f : Founds(kind, file, from, f, n)
<1> DEFINE N == {m \in Nat : \E f : Founds(kind, file, from, f, m)}
<1>1. 0 \in N
  <2>1. Founds(kind, file, from, [i \in 0..0 |-> <<>>], 0)
    BY DEF Founds
  <2> QED BY <2>1
<1>2. ASSUME NEW m \in Nat, m \in N PROVE m + 1 \in N
  <2> PICK f : Founds(kind, file, from, f, m)
    BY <1>2
  <2> DEFINE v == IF m + 1 < from THEN <<>>
                  ELSE IF file[m + 1].kind = kind THEN Append(f[m], file[m + 1].pattern) ELSE f[m]
             g == [i \in 0..m + 1 |-> IF i = m + 1 THEN v ELSE f[i]]
  <2>1. \A i \in 0..m + 1 :
          g[i] = IF i < from THEN <<>>
                 ELSE IF file[i].kind = kind THEN Append(g[i - 1], file[i].pattern) ELSE g[i - 1]
    <3>1. \A i \in 0..m : f[i] = IF i < from THEN <<>>
                 ELSE IF file[i].kind = kind THEN Append(f[i - 1], file[i].pattern) ELSE f[i - 1]
      BY DEF Founds
    <3>2. /\ \A i \in 0..m : g[i] = f[i]
          /\ g[m + 1] = v /\ (m + 1) - 1 = m /\ m + 1 # 0
      OBVIOUS
    <3> HIDE DEF g
    <3> QED BY <3>1, <3>2
  <2>2. g = [i \in 0..m + 1 |-> g[i]]
    OBVIOUS
  <2> HIDE DEF g
  <2>3. Founds(kind, file, from, g, m + 1)
    BY <2>1, <2>2 DEF Founds
  <2> QED BY <2>3
<1> HIDE DEF N
<1>3. Nat \subseteq N
  BY <1>1, <1>2, NatInd
<1> QED BY <1>3 DEF N

LEMMA PatternsIs ==
  ASSUME NEW kind, NEW file, FindBegin(file) \in Nat \ {0}, FindAfter(file) - 1 \in Nat
  PROVE  \E f : /\ Founds(kind, file, FindBegin(file), f, FindAfter(file) - 1)
                /\ Patterns(kind, file) = f[FindAfter(file) - 1]
<1> DEFINE from == FindBegin(file)
           to == FindAfter(file) - 1
           F == CHOOSE f : f = [i \in 0..to |->
                  IF i < from THEN <<>>
                  ELSE IF file[i].kind = kind THEN Append(f[i - 1], file[i].pattern) ELSE f[i - 1]]
<1>1. Patterns(kind, file) = F[to]
  BY DEF Patterns
<1>2. \E f : f = [i \in 0..to |->
                  IF i < from THEN <<>>
                  ELSE IF file[i].kind = kind THEN Append(f[i - 1], file[i].pattern) ELSE f[i - 1]]
  <2>1. \E f : Founds(kind, file, from, f, to)
    BY FoundsExists
  <2> QED BY <2>1 DEF Founds
<1>3. F = [i \in 0..to |->
             IF i < from THEN <<>>
             ELSE IF file[i].kind = kind THEN Append(F[i - 1], file[i].pattern) ELSE F[i - 1]]
  BY <1>2
<1> HIDE DEF F
<1>4. Founds(kind, file, from, F, to)
  BY <1>3 DEF Founds
<1> QED BY <1>1, <1>4

\* Lines of other kinds add nothing ...
Skipped(kind, file, from, f, n, p, q) ==
  /\ from \in Nat \ {0} /\ n \in Nat /\ Founds(kind, file, from, f, n)
  /\ p \in Nat /\ q \in Nat /\ p <= q /\ q <= n
  /\ from <= p + 1 \/ f[p] = <<>>
  /\ \A j \in p + 1..q : file[j].kind # kind

LEMMA Skips ==
  ASSUME NEW kind, NEW file, NEW from, NEW f, NEW n, NEW p, NEW q, Skipped(kind, file, from, f, n, p, q)
  PROVE  f[q] = f[p]
<1> USE DEF Skipped
<1> DEFINE N == {j \in Nat : p + j <= q => f[p + j] = f[p]}
<1>1. 0 \in N
  OBVIOUS
<1>2. ASSUME NEW j \in Nat, j \in N PROVE j + 1 \in N
  <2> SUFFICES ASSUME p + (j + 1) <= q PROVE f[p + (j + 1)] = f[p]
    OBVIOUS
  <2>1. /\ p + (j + 1) \in 0..n /\ (p + (j + 1)) - 1 = p + j /\ p + (j + 1) \in p + 1..q
        /\ p + (j + 1) < from => ~(from <= p + 1)
    OBVIOUS
  <2>2. f[p + (j + 1)] = IF p + (j + 1) < from THEN <<>> ELSE f[p + j]
    BY <2>1 DEF Founds
  <2> QED BY <1>2, <2>1, <2>2
<1> HIDE DEF N
<1>3. Nat \subseteq N
  BY <1>1, <1>2, NatInd
<1>4. q - p \in Nat /\ p + (q - p) = q
  OBVIOUS
<1>5. f[p + (q - p)] = f[p]
  BY <1>3, <1>4 DEF N
<1> QED BY <1>4, <1>5

\* ... and lines of the kind add their patterns, in order.
Added(kind, file, from, f, n, p, w, q) ==
  /\ from \in Nat \ {0} /\ n \in Nat /\ Founds(kind, file, from, f, n)
  /\ p \in Nat /\ w \in Seq(Texts) /\ q \in Nat /\ q = p + Len(w) /\ q <= n
  /\ from <= p + 1 /\ f[p] = <<>>
  /\ \A j \in 1..Len(w) : file[p + j].kind = kind /\ file[p + j].pattern = w[j]

LEMMA Runs ==
  ASSUME NEW kind, NEW file, NEW from, NEW f, NEW n, NEW p, NEW w, NEW q, Added(kind, file, from, f, n, p, w, q)
  PROVE  f[q] = w
<1> USE DEF Added
<1> DEFINE k == Len(w)
           N == {j \in Nat : j <= k => f[p + j] = SubSeq(w, 1, j)}
<1>0. k \in Nat
  OBVIOUS
<1>1. 0 \in N
  <2>1. p + 0 = p /\ SubSeq(w, 1, 0) = <<>>
    BY SubSeqEmpty
  <2> QED BY <2>1
<1>2. ASSUME NEW j \in Nat, j \in N PROVE j + 1 \in N
  <2> SUFFICES ASSUME j + 1 <= k PROVE f[p + (j + 1)] = SubSeq(w, 1, j + 1)
    OBVIOUS
  <2> HIDE DEF k
  <2>1. /\ p + (j + 1) \in 0..n /\ (p + (j + 1)) - 1 = p + j /\ j + 1 \in 1..k
        /\ ~(p + (j + 1) < from) /\ j <= k /\ (j + 1) - 1 = j
    BY <1>0 DEF k
  <2>2. f[p + (j + 1)] = Append(f[p + j], w[j + 1])
    BY <2>1 DEF Founds, k
  <2>3. f[p + j] = SubSeq(w, 1, j)
    BY <1>2, <2>1
  <2>4. Append(SubSeq(w, 1, j), w[j + 1]) = SubSeq(w, 1, j + 1)
    <3>1. /\ SubSeq(w, 1, j) \in Seq(Texts) /\ w[j + 1] \in Texts
          /\ 1 \in 1..Len(w) /\ j + 1 \in 1..Len(w)
      BY <1>0, <2>1 DEF k
    <3>2. Append(SubSeq(w, 1, j), w[j + 1]) = SubSeq(w, 1, j) \o <<w[j + 1]>>
      BY <3>1, AppendIsConcat
    <3>3. SubSeq(w, 1, j + 1) = SubSeq(w, 1, (j + 1) - 1) \o <<w[j + 1]>>
      BY <3>1, SubSeqRecursiveSecond
    <3> QED BY <2>1, <3>2, <3>3
  <2> QED BY <2>2, <2>3, <2>4
<1> HIDE DEF N
<1>3. Nat \subseteq N
  BY <1>1, <1>2, NatInd
<1>4. f[p + k] = SubSeq(w, 1, k)
  BY <1>0, <1>3 DEF N
<1>5. f[p + k] = w
  BY <1>4, SubSeqFull
<1> QED BY <1>5

\* The block that is written for patterns that are no comments says these patterns.
LEMMA ReadsBack ==
  ASSUME NEW b \in Seq(AnyLine), NEW a \in Seq(AnyLine), NEW g \in Globs,
         \A i \in 1..Len(b) : b[i] # Begin,
         g.include \in Seq(Texts \ Hashed), g.exclude \in Seq(Texts \ Hashed)
  PROVE  InSync(b \o RenderManagedBlock(g) \o a, g)
<1> DEFINE R == RenderManagedBlock(g)
           file == b \o R \o a
           n == Len(b)
           m == Len(g.include)
           l == Len(g.exclude)
           from == FindBegin(file)
           to == n + m + l + 2
<1>1. /\ g.include \in Seq(Texts) /\ g.exclude \in Seq(Texts) /\ n \in Nat /\ m \in Nat /\ l \in Nat
      /\ \A i \in 1..m : g.include[i] \in Texts \ Hashed
      /\ \A i \in 1..l : g.exclude[i] \in Texts \ Hashed
  BY DEF Globs
<1>2. /\ Len(R) = m + l + 2 /\ R[1] = Begin /\ R[m + l + 2] = End
      /\ \A i \in 1..m : R[1 + i] = Attribute("set", g.include[i])
      /\ \A i \in 1..l : R[1 + m + i] = Attribute("unset", g.exclude[i])
  BY Rendered
<1>3. /\ FindBegin(file) = n + 1 /\ FindAfter(file) = n + Len(R) + 1
      /\ \A i \in 1..Len(R) : file[n + i] = R[i]
  BY BlockIsFound
<1> HIDE DEF R, file, n, m, l
<1>4. from = n + 1 /\ from \in Nat \ {0} /\ FindAfter(file) - 1 = to /\ to \in Nat
  BY <1>1, <1>2, <1>3
<1>5. /\ file[n + 1].kind = "begin" /\ file[n + (m + l + 2)].kind = "end"
      /\ \A i \in 1..m : file[n + (1 + i)].kind = "set" /\ file[n + (1 + i)].pattern = g.include[i]
      /\ \A i \in 1..l : file[n + (1 + m + i)].kind = "unset" /\ file[n + (1 + m + i)].pattern = g.exclude[i]
  <2>1. Begin.kind = "begin" /\ End.kind = "end"
    BY DEF Begin, End, Line
  <2>2. \A k, p : p \notin Hashed => Attribute(k, p).kind = k /\ Attribute(k, p).pattern = p
    BY DEF Attribute, Line
  <2>3. /\ 1 \in 1..m + l + 2 /\ m + l + 2 \in 1..m + l + 2
        /\ \A i \in 1..m : 1 + i \in 1..m + l + 2
        /\ \A i \in 1..l : 1 + m + i \in 1..m + l + 2
    BY <1>1
  <2>4. file[n + 1] = Begin /\ file[n + (m + l + 2)] = End
    BY <1>2, <1>3, <2>3
  <2>5. \A i \in 1..m : file[n + (1 + i)] = Attribute("set", g.include[i])
    BY <1>2, <1>3, <2>3
  <2>6. \A i \in 1..l : file[n + (1 + m + i)] = Attribute("unset", g.exclude[i])
    BY <1>2, <1>3, <2>3
  <2>7. \A i \in 1..m : /\ file[n + (1 + i)].kind = "set"
                        /\ file[n + (1 + i)].pattern = g.include[i]
    BY <1>1, <2>2, <2>5
  <2>8. ASSUME NEW i \in 1..l
        PROVE  /\ file[n + (1 + m + i)].kind = "unset"
               /\ file[n + (1 + m + i)].pattern = g.exclude[i]
    <3>1. g.exclude[i] \notin Hashed
      BY <1>1
    <3>2. Attribute("unset", g.exclude[i]).kind = "unset" /\ Attribute("unset", g.exclude[i]).pattern = g.exclude[i]
      BY <2>2, <3>1
    <3>3. file[n + (1 + m + i)] = Attribute("unset", g.exclude[i])
      BY <2>6
    <3> QED BY <3>2, <3>3
  <2> QED BY <2>1, <2>4, <2>7, <2>8
<1> DEFINE p == n + 1
           q == p + m
           s == q + l
<1>6. /\ p \in Nat /\ q \in Nat /\ s \in Nat /\ to \in Nat
      /\ n <= p /\ n <= q /\ p <= q /\ q <= s /\ s <= to /\ q <= to /\ p <= to
      /\ s + 1 = to /\ from <= p /\ from <= p + 1 /\ from <= q + 1 /\ from <= s + 1 /\ n < from
  BY <1>1, <1>4
<1>7. /\ file[p].kind = "begin" /\ file[to].kind = "end"
      /\ \A j \in 1..m : file[p + j].kind = "set" /\ file[p + j].pattern = g.include[j]
      /\ \A j \in 1..l : file[q + j].kind = "unset" /\ file[q + j].pattern = g.exclude[j]
  <2>1. /\ \A j \in 1..m : n + (1 + j) = p + j
        /\ \A j \in 1..l : n + (1 + m + j) = q + j
        /\ n + (m + l + 2) = to
    BY <1>1
  <2> HIDE DEF q, to
  <2> QED BY <1>5, <2>1
<1>8. /\ \A j \in n + 1..p : j = p
      /\ \A j \in p + 1..q : file[j].kind = "set"
      /\ \A j \in q + 1..s : file[j].kind = "unset"
      /\ \A j \in s + 1..to : j = to
  <2>1. ASSUME NEW j \in p + 1..q PROVE file[j].kind = "set"
    <3>1. j - p \in 1..m /\ p + (j - p) = j
      BY <1>1
    <3> HIDE DEF p, q
    <3> QED BY <1>7, <3>1
  <2>2. ASSUME NEW j \in q + 1..s PROVE file[j].kind = "unset"
    <3>1. j - q \in 1..l /\ q + (j - q) = j
      BY <1>1
    <3> HIDE DEF p, q, s
    <3> QED BY <1>7, <3>1
  <2>3. (\A j \in n + 1..p : j = p) /\ (\A j \in s + 1..to : j = to)
    BY <1>1
  <2> QED BY <2>1, <2>2, <2>3
<1> HIDE DEF p, q, s, from, to
<1>9. Patterns("set", file) = g.include
  <2>1. PICK f : Founds("set", file, from, f, to) /\ Patterns("set", file) = f[to]
    BY <1>4, PatternsIs DEF from
  <2>2. f[n] = <<>>
    BY <1>1, <1>6, <2>1 DEF Founds, from
  <2>3. f[p] = <<>>
    <3>1. \A j \in n + 1..p : file[j].kind # "set"
      BY <1>7, <1>8
    <3>2. f[p] = f[n]
      <4>1. Skipped("set", file, from, f, to, n, p)
        BY <1>1, <1>4, <1>6, <2>1, <2>2, <3>1 DEF Skipped
      <4> QED BY <4>1, Skips
    <3> QED BY <2>2, <3>2
  <2>4. f[q] = g.include
    <3>1. Added("set", file, from, f, to, p, g.include, q)
      BY <1>1, <1>4, <1>6, <1>7, <2>1, <2>3 DEF Added, m, q
    <3> QED BY <3>1, Runs
  <2>5. f[s] = f[q]
    <3>1. \A j \in q + 1..s : file[j].kind # "set"
      BY <1>8
    <3>2. Skipped("set", file, from, f, to, q, s)
      BY <1>4, <1>6, <2>1, <3>1 DEF Skipped
    <3> QED BY <3>2, Skips
  <2>6. f[to] = f[s]
    <3>1. \A j \in s + 1..to : file[j].kind # "set"
      BY <1>7, <1>8
    <3>2. Skipped("set", file, from, f, to, s, to)
      BY <1>4, <1>6, <2>1, <3>1 DEF Skipped
    <3> QED BY <3>2, Skips
  <2> QED BY <2>1, <2>4, <2>5, <2>6
<1>10. Patterns("unset", file) = g.exclude
  <2>1. PICK f : Founds("unset", file, from, f, to) /\ Patterns("unset", file) = f[to]
    BY <1>4, PatternsIs DEF from
  <2>2. f[n] = <<>>
    BY <1>1, <1>6, <2>1 DEF Founds, from
  <2>3. f[p] = <<>>
    <3>1. \A j \in n + 1..p : file[j].kind # "unset"
      BY <1>7, <1>8
    <3>2. f[p] = f[n]
      <4>1. Skipped("unset", file, from, f, to, n, p)
        BY <1>1, <1>4, <1>6, <2>1, <2>2, <3>1 DEF Skipped
      <4> QED BY <4>1, Skips
    <3> QED BY <2>2, <3>2
  <2>4. f[q] = f[p]
    <3>1. \A j \in p + 1..q : file[j].kind # "unset"
      BY <1>8
    <3>2. Skipped("unset", file, from, f, to, p, q)
      BY <1>4, <1>6, <2>1, <3>1 DEF Skipped
    <3> QED BY <3>2, Skips
  <2>5. f[s] = g.exclude
    <3>1. Added("unset", file, from, f, to, q, g.exclude, s)
      BY <1>1, <1>4, <1>6, <1>7, <2>1, <2>3, <2>4 DEF Added, l, s
    <3> QED BY <3>1, Runs
  <2>6. f[to] = f[s]
    <3>1. \A j \in s + 1..to : file[j].kind # "unset"
      BY <1>7, <1>8
    <3>2. Skipped("unset", file, from, f, to, s, to)
      BY <1>4, <1>6, <2>1, <3>1 DEF Skipped
    <3> QED BY <3>2, Skips
  <2> QED BY <2>1, <2>5, <2>6
<1>11. ExtractGlobs(file) = g
  BY <1>9, <1>10 DEF ExtractGlobs, Globs
<1>12. HasBlock(file)
  BY <1>4 DEF HasBlock, from
<1> QED BY <1>11, <1>12 DEF InSync, GlobsEqual, file, R

-----------------------------------------------------------------------------
(* The user's lines *)

\* What is written for a file: its lines around the place of the block, without the stale ones,
\* with the block between them.  No line in front of that place begins a block.
LEMMA Surrounded ==
  ASSUME NEW file \in Seq(AnyLine), NEW g \in Globs
  PROVE  \E b, a \in Seq(AnyLine) :
            /\ \A i \in 1..Len(b) : b[i] # Begin
            /\ WithBlock(file, g) = StripStale(b) \o RenderManagedBlock(g) \o StripStale(a)
            /\ Others(file) = Keep(b \o a, Lines({"other"}))
<1> DEFINE O == Lines({"other"})
<1>1. CASE HasBlock(file)
  <2>1. Len(file) \in Nat /\ FindBegin(file) \in 1..Len(file) /\ FindAfter(file) \in 2..Len(file) + 1
    <3>1. Len(file) \in Nat
      BY LenProperties
    <3> QED BY <1>1, <3>1, AfterIsBehind
  <2>2. Before(file) \in Seq(AnyLine) /\ \A i \in 1..Len(Before(file)) : Before(file)[i] # Begin
    <3> DEFINE n == FindBegin(file) - 1
    <3>1. n \in 0..Len(file) - 1 /\ \A i \in 1..n : file[i] \in AnyLine /\ file[i] # Begin
      BY <2>1, <1>1, NoBegin DEF HasBlock
    <3>2. Before(file) = SubSeq(file, 1, n)
      BY DEF Before
    <3> HIDE DEF n
    <3>3. n \in Int /\ n - 1 + 1 = n /\ (IF 1 <= n THEN n - 1 + 1 ELSE 0) = n /\ \A i \in 1..n : 1 + i - 1 = i
      BY <2>1, <3>1
    <3>4. /\ SubSeq(file, 1, n) \in Seq(AnyLine) /\ Len(SubSeq(file, 1, n)) = n
          /\ \A i \in 1..n : SubSeq(file, 1, n)[i] = file[i]
      BY <3>1, <3>3, SubSeqProperties
    <3> QED BY <3>1, <3>2, <3>4
  <2>3. After(file) \in Seq(AnyLine)
    <3>1. \A i \in FindAfter(file)..Len(file) : file[i] \in AnyLine
      BY <2>1
    <3>2. FindAfter(file) \in Int /\ Len(file) \in Int
      BY <2>1
    <3> QED BY <3>1, <3>2, SubSeqProperties DEF After
  <2>4. WithBlock(file, g) = StripStale(Before(file)) \o RenderManagedBlock(g) \o StripStale(After(file))
    BY <1>1 DEF WithBlock
  <2>5. Others(file) = Keep(Before(file) \o After(file), O)
    BY <1>1 DEF Others
  <2> QED BY <2>2, <2>3, <2>4, <2>5
<1>2. CASE ~HasBlock(file)
  <2>1. \A i \in 1..Len(file) : file[i] # Begin
    BY <1>2, NoBegin, LenProperties DEF HasBlock
  <2>2. <<>> \in Seq(AnyLine) /\ StripStale(<<>>) = <<>> /\ file \o <<>> = file
    BY KeepNone, ConcatEmptySeq DEF StripStale
  <2>3. WithBlock(file, g) = StripStale(file) \o RenderManagedBlock(g) \o StripStale(<<>>)
    <3>1. RenderManagedBlock(g) \in Seq(AnyLine) /\ StripStale(file) \in Seq(AnyLine)
      BY Rendered, StripIsSeq
    <3>2. StripStale(file) \o RenderManagedBlock(g) \in Seq(AnyLine)
      BY <3>1, ConcatProperties
    <3>3. WithBlock(file, g) = StripStale(file) \o RenderManagedBlock(g)
      BY <1>2 DEF WithBlock
    <3> QED BY <2>2, <3>2, <3>3, ConcatEmptySeq
  <2>4. Others(file) = Keep(file, O)
    BY <1>2 DEF Others
  <2> QED BY <2>1, <2>2, <2>3, <2>4
<1> QED BY <1>1, <1>2

\* Whatever is written, the lines that are the user's own are those of the file it was made from.
LEMMA OthersAreKept ==
  ASSUME NEW file \in Seq(AnyLine), NEW g \in Globs
  PROVE  /\ WithBlock(file, g) \in Seq(AnyLine)
         /\ Others(WithBlock(file, g)) = Others(file)
<1> DEFINE O == Lines({"other"})
           S == Lines(Kinds \ {"set"})
           w == WithBlock(file, g)
<1>1. \A s \in Seq(AnyLine) : Keep(s, S) \in Seq(AnyLine) /\ Keep(Keep(s, S), O) = Keep(s, O)
  <2>1. O \subseteq S
    BY DEF Lines, Kinds
  <2> HIDE DEF O, S
  <2> QED BY <2>1, KeepOfSeq, KeepTwice
<1>2. ASSUME NEW b \in Seq(AnyLine), NEW a \in Seq(AnyLine), \A i \in 1..Len(b) : b[i] # Begin,
             w = StripStale(b) \o RenderManagedBlock(g) \o StripStale(a)
      PROVE  w \in Seq(AnyLine) /\ Others(w) = Keep(b \o a, O)
  <2> DEFINE u == StripStale(b)
             v == StripStale(a)
  <2>1. u \in Seq(AnyLine) /\ v \in Seq(AnyLine) /\ \A i \in 1..Len(u) : u[i] # Begin
    BY <1>2, StripIsSeq
  <2>2. Keep(u, O) = Keep(b, O) /\ Keep(v, O) = Keep(a, O)
    BY <1>1 DEF StripStale
  <2>3. w = u \o RenderManagedBlock(g) \o v
    BY <1>2
  <2> HIDE DEF u, v, O, S, w
  <2>4. w \in Seq(AnyLine) /\ FindBegin(w) = Len(u) + 1 /\ Before(w) = u /\ After(w) = v
    BY <2>1, <2>3, BlockIsFound
  <2>5. HasBlock(w)
    <3>1. Len(u) \in Nat
      BY <2>1, LenProperties
    <3> QED BY <2>4, <3>1 DEF HasBlock
  <2>6. Others(w) = Keep(u \o v, O)
    BY <2>4, <2>5 DEF Others, O
  <2>7. Keep(u \o v, O) = Keep(b \o a, O)
    <3>1. ASSUME NEW x \in Seq(AnyLine), NEW y \in Seq(AnyLine)
          PROVE  Keep(x \o y, O) = Keep(x, O) \o Keep(y, O)
      <4> DEFINE J(T, u1, S1) == \A t \in Seq(T) : Keep(u1 \o t, S1) = Keep(u1, S1) \o Keep(t, S1)
      <4>0. \A T, S1 : \A u1 \in Seq(T) : J(T, u1, S1)
        BY KeepConcat
      <4> HIDE DEF J
      <4>1. J(AnyLine, x, O)
        BY <4>0
      <4> QED BY <4>1 DEF J
    <3>2. Keep(u \o v, O) = Keep(u, O) \o Keep(v, O)
      BY <2>1, <3>1
    <3>3. Keep(b \o a, O) = Keep(b, O) \o Keep(a, O)
      BY <3>1
    <3> QED BY <2>2, <3>2, <3>3
  <2> QED BY <2>4, <2>6, <2>7
<1> PICK b \in Seq(AnyLine), a \in Seq(AnyLine) :
            /\ \A i \in 1..Len(b) : b[i] # Begin
            /\ w = StripStale(b) \o RenderManagedBlock(g) \o StripStale(a)
            /\ Others(file) = Keep(b \o a, O)
  BY Surrounded
<1> QED BY <1>2

-----------------------------------------------------------------------------
(* The invariant: a file is a sequence of lines, and so is whatever was     *)
(* read from it; the patterns to write are sequences of patterns.           *)

\* The types of what is read and written: a file is a sequence of lines.
Worker == [pc : {"lookup", "probe", "inspect", "store", "decide", "read", "rename", "stage", "drop"},
           hasDriver : BOOLEAN, hook : HookStates,
           parts : (SUBSET {"attributes", "hook"}) \cup {Uncached}, globs : Globs, read : Seq(AnyLine)]
Install == [pc : {"idle", "globs", "rename", "hook", "write"}, globs : Globs, read : Seq(AnyLine)]

Typed ==
  /\ ignore \in Ignores /\ attrs \in Seq(AnyLine) /\ driver \in BOOLEAN
  /\ cache \in (SUBSET {"attributes", "hook"}) \cup {Uncached}
  /\ worker \in [Workers -> Worker]
  /\ install \in Install

\* The patterns of a configuration are sequences of patterns.
LEMMA ConfigGlobs ==
  ASSUME NEW list \in Ignores
  PROVE  GlobsFromConfig(list) \in Globs
<1>1. Keep(list, Texts \ Unrepresentable) \in Seq(Texts)
  BY KeepOfSeq, GitHooksTypes
<1>2. Includes \in Seq(Texts)
  BY GitHooksTypes, SeqMonotonic
<1> QED BY <1>1, <1>2 DEF GlobsFromConfig, DefaultGlobs, Globs

\* Idle actors are typed.
LEMMA Idle == IdleWorker \in Worker /\ IdleInstall \in Install /\ DefaultGlobs \in Globs
<1>1. Includes \in Seq(Texts) /\ <<>> \in Seq(Texts) /\ <<>> \in Seq(AnyLine)
  BY GitHooksTypes, SeqMonotonic, EmptySeq
<1>2. DefaultGlobs \in Globs
  BY <1>1 DEF DefaultGlobs, Globs
<1>3. "absent" \in HookStates
  BY DEF HookStates
<1> QED BY <1>1, <1>2, <1>3 DEF IdleWorker, IdleInstall, Worker, Install

\* The invariant holds at the beginning ...
LEMMA InitTyped == Init => Typed
<1> SUFFICES ASSUME Init PROVE Typed
  OBVIOUS
<1>1. attrs \in Seq(AnyLine)
  BY GitHooksTypes DEF Init, AnyLine
<1>2. cache \in (SUBSET {"attributes", "hook"}) \cup {Uncached}
  BY DEF Init
<1>3. worker \in [Workers -> Worker]
  BY Idle DEF Init
<1>4. ignore \in Ignores /\ driver \in BOOLEAN /\ install \in Install
  BY Idle DEF Init
<1> QED BY <1>1, <1>2, <1>3, <1>4 DEF Typed

\* What is written is a sequence of lines.
LEMMA WrittenIsTyped ==
  ASSUME NEW file \in Seq(AnyLine), NEW g \in Globs
  PROVE  WithBlock(file, g) \in Seq(AnyLine)
BY OthersAreKept

\* The end of a check leaves every worker typed.
LEMMA ConcludesTyped ==
  ASSUME Typed, NEW w \in Workers, NEW parts, Concludes(w, parts)
  PROVE  worker' \in [Workers -> Worker]
<1>1. [IdleWorker EXCEPT !.pc = "decide"] \in Worker
  BY Idle DEF Worker
<1> QED BY <1>1, Idle DEF Typed, Concludes

\* ... is kept by the steps of a check, of a fix and of an installation ...
LEMMA CheckTyped == ASSUME Typed, NEW w \in Workers, CheckStep(w) PROVE Typed'
<1>0. worker[w] \in Worker
  BY DEF Typed
<1>1. CASE Lookup(w)
  <2>1. UNCHANGED <<ignore, attrs, driver, cache, install>>
    BY <1>1 DEF Lookup, repo, memory
  <2>2. worker' \in [Workers -> Worker]
    <3>1. [worker[w] EXCEPT !.pc = "probe"] \in Worker
      BY <1>0 DEF Worker
    <3>2. CASE cache = Uncached
      BY <1>1, <3>1, <3>2 DEF Lookup, Goto, Typed
    <3>3. CASE cache # Uncached
      BY <1>1, <3>3, ConcludesTyped DEF Lookup
    <3> QED BY <3>2, <3>3
  <2> QED BY <2>1, <2>2 DEF Typed
<1>2. CASE Probe(w)
  <2>1. UNCHANGED <<ignore, attrs, driver, cache, install>>
    BY <1>2 DEF Probe, repo, memory
  <2>2. worker' \in [Workers -> Worker]
    <3>1. \A pc \in {"store", "inspect"} : [worker[w] EXCEPT !.pc = pc, !.hasDriver = driver] \in Worker
      BY <1>0 DEF Worker, Typed
    <3>2. PICK pc \in {"store", "inspect"} :
            worker' = [worker EXCEPT ![w] = [worker[w] EXCEPT !.pc = pc, !.hasDriver = driver]]
      BY <1>2 DEF Probe, Typed
    <3> QED BY <3>1, <3>2 DEF Typed
  <2> QED BY <2>1, <2>2 DEF Typed
<1>3. CASE Inspect(w)
  <2>1. UNCHANGED <<ignore, attrs, driver, cache, install>>
    BY <1>3 DEF Inspect, repo, memory
  <2>2. worker' \in [Workers -> Worker]
    <3> DEFINE d == Drift(worker[w].hasDriver)
    <3>1. d \in SUBSET {"attributes", "hook"}
      BY DEF Drift
    <3>2. worker' = [worker EXCEPT ![w] = [worker[w] EXCEPT !.pc = "store", !.hasDriver = FALSE, !.parts = d]]
      BY <1>3 DEF Inspect, Typed
    <3> HIDE DEF d
    <3>3. [worker[w] EXCEPT !.pc = "store", !.hasDriver = FALSE, !.parts = d] \in Worker
      BY <1>0, <3>1 DEF Worker
    <3> QED BY <3>2, <3>3 DEF Typed
  <2> QED BY <2>1, <2>2 DEF Typed
<1>4. CASE Store(w)
  <2>1. UNCHANGED <<ignore, attrs, driver, install>> /\ cache' = worker[w].parts /\ Concludes(w, cache')
    BY <1>4 DEF Store, repo
  <2>2. cache' \in (SUBSET {"attributes", "hook"}) \cup {Uncached}
    BY <1>0, <2>1 DEF Worker
  <2> QED BY <2>1, <2>2, ConcludesTyped DEF Typed
<1> QED BY <1>1, <1>2, <1>3, <1>4 DEF CheckStep

LEMMA FixTyped == ASSUME Typed, FixStep PROVE Typed'
<1>0. /\ worker[Fixer] \in Worker /\ Fixer \in Workers
      /\ worker[Fixer].read \in Seq(AnyLine) /\ worker[Fixer].globs \in Globs
  <2>1. Fixer \in Workers /\ worker[Fixer] \in Worker
    BY DEF Typed, Workers
  <2> QED BY <2>1 DEF Worker
<1>g. \A pc \in {"drop", "stage"} : [IdleWorker EXCEPT !.pc = pc] \in Worker
  BY Idle DEF Worker
<1>1. CASE Decide
  <2> DEFINE g == GlobsFromConfig(ignore)
  <2>1. g \in Globs
    BY ConfigGlobs DEF Typed
  <2>2. PICK pc \in {"drop", "read", "stage"} :
          worker' = [worker EXCEPT ![Fixer] = [worker[Fixer] EXCEPT !.globs = g, !.pc = pc]]
    BY <1>0, <1>1 DEF Decide, Typed
  <2> HIDE DEF g
  <2>3. [worker[Fixer] EXCEPT !.globs = g, !.pc = pc] \in Worker
    BY <1>0, <2>1 DEF Worker
  <2>4. worker' \in [Workers -> Worker]
    BY <2>2, <2>3 DEF Typed
  <2> QED BY <1>1, <2>4 DEF Decide, Typed, repo, memory
<1>2. CASE ReadAttributes
  <2>1. [worker[Fixer] EXCEPT !.pc = "rename", !.read = attrs] \in Worker
    BY <1>0 DEF Typed, Worker
  <2>2. \/ worker' = [worker EXCEPT ![Fixer] = [worker[Fixer] EXCEPT !.pc = "rename", !.read = attrs]]
        \/ worker' = [worker EXCEPT ![Fixer] = [IdleWorker EXCEPT !.pc = "drop"]]
    BY <1>2 DEF ReadAttributes, Gives, Typed
  <2>3. worker' \in [Workers -> Worker]
    BY <1>g, <2>1, <2>2 DEF Typed
  <2> QED BY <1>2, <2>3 DEF ReadAttributes, Typed, repo, memory
<1>3. CASE RenameAttributes
  <2>1. attrs' \in Seq(AnyLine)
    BY <1>0, <1>3, WrittenIsTyped DEF RenameAttributes, Typed
  <2>2. worker' \in [Workers -> Worker]
    BY <1>g, <1>3 DEF RenameAttributes, Gives, Typed
  <2> QED BY <1>3, <2>1, <2>2 DEF RenameAttributes, Typed, memory
<1>4. CASE Stage
  <2>1. worker' \in [Workers -> Worker]
    BY <1>g, <1>4 DEF Stage, Gives, Typed
  <2> QED BY <1>4, <2>1 DEF Stage, Typed
<1>5. CASE DropCache
  <2>1. worker' \in [Workers -> Worker]
    BY Idle, <1>5 DEF DropCache, Typed
  <2> QED BY <1>5, <2>1 DEF DropCache, Typed, repo
<1> QED BY <1>1, <1>2, <1>3, <1>4, <1>5 DEF FixStep

LEMMA InstallTyped == ASSUME Typed, InstallStep PROVE Typed'
<1>0. install \in Install /\ install.read \in Seq(AnyLine) /\ install.globs \in Globs
  BY DEF Typed, Install
<1>1. UNCHANGED <<ignore, cache, worker>> /\ driver' \in BOOLEAN
  BY DEF InstallStep, RegisterDriver, ResolveGlobs, InstallAttributes, InstallHookOnly, TruncateHook,
         WriteHook, UninstallHook, KillInstall, repo, memory, Typed
<1>2. \A pc \in {"globs", "hook", "write"} : [install EXCEPT !.pc = pc] \in Install
  BY <1>0 DEF Install
<1>3. IdleInstall \in Install /\ [IdleInstall EXCEPT !.pc = "hook"] \in Install
  BY Idle DEF Install
<1>4. CASE ResolveGlobs
  <2>1. ASSUME NEW scope \in Scopes
        PROVE  /\ GlobsFromConfig(ignore) \in Globs
               /\ [GlobsFromConfig(ignore) EXCEPT !.include = scope] \in Globs
    <3>1. GlobsFromConfig(ignore) \in Globs /\ scope \in Seq(Texts)
      BY ConfigGlobs, GitHooksTypes DEF Typed
    <3> QED BY <3>1 DEF Globs
  <2>2. ASSUME NEW g \in Globs
        PROVE  [pc |-> "rename", read |-> attrs, globs |-> g] \in Install
    BY DEF Typed, Install
  <2>3. install' \in Install
    BY <1>3, <1>4, <2>1, <2>2 DEF ResolveGlobs, Ends
  <2> QED BY <1>1, <1>4, <2>3 DEF ResolveGlobs, Typed, repo
<1>5. CASE InstallAttributes
  <2>1. attrs' \in Seq(AnyLine)
    BY <1>0, <1>5, WrittenIsTyped DEF InstallAttributes, Typed
  <2>2. install' \in Install
    BY <1>3, <1>5 DEF InstallAttributes, Ends
  <2> QED BY <1>1, <2>1, <2>2 DEF Typed
<1>6. CASE RegisterDriver \/ InstallHookOnly \/ TruncateHook \/ WriteHook \/ UninstallHook \/ KillInstall
  <2>1. attrs' = attrs
    BY <1>6 DEF RegisterDriver, InstallHookOnly, TruncateHook, WriteHook, UninstallHook, KillInstall, repo
  <2>2. install' \in Install
    BY <1>0, <1>2, <1>3, <1>6 DEF RegisterDriver, InstallHookOnly, TruncateHook, WriteHook, UninstallHook,
                                  KillInstall, Installs, Ends
  <2> QED BY <1>1, <2>1, <2>2 DEF Typed
<1> QED BY <1>4, <1>5, <1>6 DEF InstallStep

\* ... and by every step.
LEMMA NextTyped == Typed /\ [Next]_vars => Typed'
<1> SUFFICES ASSUME Typed, [Next]_vars PROVE Typed'
  OBVIOUS
<1>1. CASE Restart
  BY <1>1, Idle DEF Restart, Typed, repo
<1>2. CASE UserEdits
  BY <1>2, GitHooksTypes DEF UserEdits, Typed, memory, AnyLine
<1>3. CASE UNCHANGED vars
  BY <1>3 DEF vars, repo, memory, Typed
<1> QED BY <1>1, <1>2, <1>3, CheckTyped, FixTyped, InstallTyped DEF Next

LEMMA Invariance == Spec => []Typed
BY InitTyped, NextTyped, PTL DEF Spec

\* Who changes the file, and what that step leaves of the actors.
LEMMA OnlyWritersWrite ==
  ASSUME Next, attrs' # attrs
  PROVE  \/ RenameAttributes
         \/ InstallAttributes /\ UNCHANGED worker
         \/ UserEdits /\ UNCHANGED <<worker, install>>
<1>1. CASE \E w \in Workers : CheckStep(w)
  BY <1>1 DEF CheckStep, Lookup, Probe, Inspect, Store, repo
<1>2. CASE FixStep
  <2>1. \/ RenameAttributes
        \/ UNCHANGED attrs
    BY <1>2 DEF FixStep, Decide, ReadAttributes, Stage, DropCache, repo
  <2> QED BY <2>1
<1>3. CASE InstallStep
  <2>1. InstallAttributes
    BY <1>3 DEF InstallStep, RegisterDriver, ResolveGlobs, InstallHookOnly, TruncateHook,
                WriteHook, UninstallHook, KillInstall, repo
  <2> QED BY <2>1 DEF InstallAttributes
<1>4. CASE Restart
  BY <1>4 DEF Restart, repo
<1>5. CASE UserEdits
  BY <1>5 DEF UserEdits
<1> QED BY <1>1, <1>2, <1>3, <1>4, <1>5 DEF Next

\* No fix and no installation loses a line of the user's, or moves one, in a file that nobody
\* wrote since it was read: for any attributes, any list of patterns and any block in any state.
THEOREM UsersKeepTheirLines == Spec => UserLinesKept
<1> DEFINE Kept == /\ attrs' # attrs
                   /\ \/ At(Fixer, "rename") /\ worker'[Fixer].pc = "stage" /\ worker[Fixer].read = attrs
                      \/ InstallAt("rename") /\ install'.pc = "hook" /\ install.read = attrs
                   => Others(attrs') = Others(attrs)
<1>1. ASSUME Typed, [Next]_vars PROVE [Kept]_vars
  <2>1. ASSUME NEW g \in Globs PROVE Others(WithBlock(attrs, g)) = Others(attrs)
    BY <1>1, OthersAreKept DEF Typed
  <2>2. worker[Fixer].globs \in Globs /\ install.globs \in Globs
    <3>1. worker[Fixer] \in Worker /\ install \in Install
      BY <1>1 DEF Typed, Workers
    <3> QED BY <3>1 DEF Worker, Install
  <2>3. ASSUME Next, attrs' # attrs, At(Fixer, "rename"), worker'[Fixer].pc = "stage",
               worker[Fixer].read = attrs
        PROVE  attrs' = WithBlock(attrs, worker[Fixer].globs)
    <3>1. worker[Fixer].pc = "rename" /\ worker'[Fixer].pc = "stage"
      BY <2>3 DEF At
    <3>2. RenameAttributes
      BY <2>3, <3>1, OnlyWritersWrite
    <3> QED BY <2>3, <3>2 DEF RenameAttributes
  <2>4. ASSUME Next, attrs' # attrs, InstallAt("rename"), install'.pc = "hook", install.read = attrs
        PROVE  attrs' = WithBlock(attrs, install.globs)
    <3>1. InstallAttributes
      BY <2>4, OnlyWritersWrite DEF InstallAt, RenameAttributes
    <3> QED BY <2>4, <3>1 DEF InstallAttributes
  <2> QED BY <1>1, <2>1, <2>2, <2>3, <2>4
<1> QED BY <1>1, Invariance, PTL DEF Spec, UserLinesKept

\* What a fix is about to write, it writes before it stages.
LEMMA OnlyRenameStages ==
  ASSUME Typed, Next, At(Fixer, "rename"), worker'[Fixer].pc = "stage"
  PROVE  attrs' = WithBlock(worker[Fixer].read, worker[Fixer].globs)
<1>0. /\ worker[Fixer].pc = "rename" /\ worker'[Fixer].pc = "stage"
      /\ worker \in [Workers -> Worker] /\ Fixer \in Workers
      /\ IdleWorker.pc = "lookup"
  BY DEF At, Typed, Workers, IdleWorker
<1>1. ASSUME NEW w \in Workers, CheckStep(w) PROVE FALSE
  <2>1. w # Fixer
    BY <1>0, <1>1 DEF CheckStep, Lookup, Probe, Inspect, Store, At
  <2>2. worker'[Fixer] = worker[Fixer]
    BY <1>0, <1>1, <2>1 DEF CheckStep, Lookup, Probe, Inspect, Store, Goto, Concludes
  <2> QED BY <1>0, <2>2
<1>2. CASE FixStep
  <2>1. RenameAttributes
    BY <1>0, <1>2 DEF FixStep, Decide, ReadAttributes, Stage, DropCache, At
  <2>2. ~Gives(Fixer, "drop")
    <3>1. ASSUME worker' = [worker EXCEPT ![Fixer] = [IdleWorker EXCEPT !.pc = "drop"]] PROVE FALSE
      <4>1. worker'[Fixer].pc = "drop"
        BY <1>0, <3>1 DEF IdleWorker
      <4> QED BY <1>0, <4>1
    <3> QED BY <3>1 DEF Gives
  <2> QED BY <2>1, <2>2 DEF RenameAttributes
<1>3. CASE InstallStep
  <2>1. worker' = worker
    BY <1>3 DEF InstallStep, RegisterDriver, ResolveGlobs, InstallAttributes, InstallHookOnly, TruncateHook,
                WriteHook, UninstallHook, KillInstall
  <2> QED BY <1>0, <2>1
<1>4. CASE Restart
  BY <1>0, <1>4 DEF Restart
<1>5. CASE UserEdits
  BY <1>0, <1>5 DEF UserEdits
<1> QED BY <1>1, <1>2, <1>3, <1>4, <1>5 DEF Next

\* Of a list without comments only such patterns get to the block.
LEMMA NothingIsHashed ==
  ASSUME NEW list \in Ignores, {list[i] : i \in DOMAIN list} \cap Hashed = {}
  PROVE  /\ GlobsFromConfig(list).include \in Seq(Texts \ Hashed)
         /\ GlobsFromConfig(list).exclude \in Seq(Texts \ Hashed)
<1>1. list \in Seq(Texts) /\ Includes \in Seq(Texts \ Hashed)
  BY GitHooksTypes
<1>2. Len(list) \in Nat /\ list \in [1..Len(list) -> Texts] /\ DOMAIN list = 1..Len(list)
  BY <1>1, LenProperties
<1>3. list \in [1..Len(list) -> Texts \ Hashed]
  BY <1>2
<1>4. list \in Seq(Texts \ Hashed)
  BY <1>2, <1>3, SeqDef
<1>5. Keep(list, Texts \ Unrepresentable) \in Seq(Texts \ Hashed)
  BY <1>4, KeepOfSeq
<1> QED BY <1>1, <1>5 DEF GlobsFromConfig, DefaultGlobs

\* Whatever is in the file, what a fix leaves there says the patterns of the configuration: for
\* any attributes, any number of blocks and any list of patterns none of which is a comment.
THEOREM FixesEndTheDrift == Spec => FixEndsDrift
<1> DEFINE Ended == /\ At(Fixer, "rename") /\ worker'[Fixer].pc = "stage"
                    /\ worker[Fixer].globs = GlobsFromConfig(ignore)
                    /\ {ignore[i] : i \in DOMAIN ignore} \cap Hashed = {}
                    => InSync(attrs', GlobsFromConfig(ignore))
<1>1. ASSUME Typed, [Next]_vars PROVE [Ended]_vars
  <2> SUFFICES ASSUME Next, At(Fixer, "rename"), worker'[Fixer].pc = "stage",
                      worker[Fixer].globs = GlobsFromConfig(ignore),
                      {ignore[i] : i \in DOMAIN ignore} \cap Hashed = {}
               PROVE  InSync(attrs', GlobsFromConfig(ignore))
    BY <1>1
  <2> DEFINE g == GlobsFromConfig(ignore)
             file == worker[Fixer].read
  <2>1. attrs' = WithBlock(file, g)
    BY <1>1, OnlyRenameStages
  <2>2. g \in Globs /\ file \in Seq(AnyLine)
    <3>1. worker[Fixer] \in Worker
      BY <1>1 DEF Typed, Workers
    <3> QED BY <1>1, <3>1, ConfigGlobs DEF Typed, Worker
  <2>3. g.include \in Seq(Texts \ Hashed) /\ g.exclude \in Seq(Texts \ Hashed)
    BY <1>1, NothingIsHashed DEF Typed
  <2> HIDE DEF g, file
  <2>4. PICK b \in Seq(AnyLine), a \in Seq(AnyLine) :
            /\ \A i \in 1..Len(b) : b[i] # Begin
            /\ WithBlock(file, g) = StripStale(b) \o RenderManagedBlock(g) \o StripStale(a)
    BY <2>2, Surrounded
  <2> DEFINE u == StripStale(b)
             v == StripStale(a)
  <2>5. u \in Seq(AnyLine) /\ v \in Seq(AnyLine) /\ \A i \in 1..Len(u) : u[i] # Begin
    BY <2>4, StripIsSeq
  <2>6. WithBlock(file, g) = u \o RenderManagedBlock(g) \o v
    BY <2>4
  <2> HIDE DEF u, v
  <2>7. InSync(u \o RenderManagedBlock(g) \o v, g)
    BY <2>2, <2>3, <2>5, ReadsBack
  <2> QED BY <2>1, <2>6, <2>7 DEF g
<1> QED BY <1>1, Invariance, PTL DEF Spec, FixEndsDrift
=============================================================================
