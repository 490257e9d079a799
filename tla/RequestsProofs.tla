--------------------------- MODULE RequestsProofs ---------------------------
(***************************************************************************)
(* Requests, memos, challenges and payment URIs of any length: a memo is   *)
(* the memo of one request, a challenge comes back as it was sent, a URI   *)
(* says through every rewriting what was put in it, and the accepted       *)
(* amounts are those within the supply.                                    *)
(***************************************************************************)
EXTENDS Requests, FiniteSetTheorems, SequenceTheorems, WellFoundedInduction, TLAPS

-----------------------------------------------------------------------------
(* Induction and recursion.                                                *)

\* A set of numbers that is not empty has a least one.
LEMMA LeastNumber ==
  ASSUME NEW B \in SUBSET Nat, B # {}
  PROVE  \E m \in B : \A k \in B : m <= k
<1> DEFINE R == StrictSubsetOrdering(Nat)
           U == FiniteSubsetsOf(Nat)
           F == {0..m : m \in B}
<1>1. IsWellFoundedOn(R, U)
  BY FS_StrictSubsetOrderingWellFounded
<1>2. F \subseteq U /\ F # {}
  <2>1. ASSUME NEW m \in B PROVE IsFiniteSet(0..m) /\ 0..m \subseteq Nat
    <3>1. 0 \in Int /\ m \in Int
      OBVIOUS
    <3> QED
      BY <3>1, FS_Interval
  <2> QED
    BY <2>1 DEF FiniteSubsetsOf
<1>3. PICK X \in F : \A Y \in F : ~(<<Y, X>> \in R)
  <2> HIDE DEF R, U, F
  <2> QED
    BY <1>1, <1>2, WFMin
<1>4. PICK m \in B : X = 0..m
  OBVIOUS
<1>5. ASSUME NEW k \in B, ~(m <= k) PROVE FALSE
  <2>1. 0..k \in F /\ 0..k \subseteq X /\ m \in X /\ m \notin 0..k
    BY <1>4, <1>5
  <2>2. 0..k # X /\ 0..k \in SUBSET Nat /\ X \in SUBSET Nat
    BY <1>4, <2>1
  <2>3. <<0..k, X>> \in R
    BY <2>1, <2>2, Zenon DEF StrictSubsetOrdering
  <2> HIDE DEF R, F
  <2> QED
    BY <1>3, <2>1, <2>3
<1> QED
  BY <1>5

\* f starts with a and follows the steps g up to n.
Iterates(f, a, g, n) == f[0] = a /\ \A i \in 1..n : f[i] = g[i][f[i - 1]]

\* f and h start alike and take the same step where they agree.
Together(f, h, n) == f[0] = h[0] /\ \A i \in 1..n : f[i - 1] = h[i - 1] => f[i] = h[i]

\* A function that is given by its first value and by its steps exists.
LEMMA IterationExists ==
  ASSUME NEW S, NEW a \in S, NEW n \in Nat, NEW g \in [1..n -> [S -> S]]
  PROVE  \E f \in [0..n -> S] : Iterates(f, a, g, n)
<1> USE DEF Iterates
<1> DEFINE Upto(m) == \E f \in [0..m -> S] : f[0] = a /\ \A i \in 1..m : f[i] = g[i][f[i - 1]]
           bad == {m \in 0..n : ~Upto(m)}
<1>1. SUFFICES ASSUME bad # {} PROVE FALSE
  <2> HIDE DEF Upto
  <2>1. bad = {} => Upto(n)
    OBVIOUS
  <2>2. bad = {}
    BY <2>1
  <2> QED
    BY <2>1, <2>2 DEF Upto
<1>2. PICK m \in bad : \A k \in bad : m <= k
  <2>1. bad \in SUBSET Nat
    OBVIOUS
  <2> HIDE DEF bad
  <2> QED
    BY <1>1, <2>1, LeastNumber
<1>3. m # 0
  <2>1. Upto(0)
    <3> DEFINE f == [i \in 0..0 |-> a]
    <3>1. f \in [0..0 -> S] /\ f[0] = a /\ \A i \in 1..0 : f[i] = g[i][f[i - 1]]
      OBVIOUS
    <3> QED
      BY <3>1
  <2> QED
    BY <2>1
<1>4. Upto(m - 1)
  <2>1. m - 1 \in 0..n /\ ~(m <= m - 1)
    BY <1>3
  <2> QED
    BY <1>2, <2>1
<1>5. PICK f \in [0..(m - 1) -> S] :
         f[0] = a /\ \A i \in 1..(m - 1) : f[i] = g[i][f[i - 1]]
  BY <1>4
<1> DEFINE h == [i \in 0..m |-> IF i = m THEN g[m][f[m - 1]] ELSE f[i]]
<1>6. m \in 1..n /\ m - 1 \in 0..(m - 1) /\ g[m] \in [S -> S] /\ f[m - 1] \in S
  BY <1>3
<1>7. h \in [0..m -> S]
  <2>1. \A i \in 0..m : (IF i = m THEN g[m][f[m - 1]] ELSE f[i]) \in S
    BY <1>6
  <2> QED
    BY <2>1
<1>8. h[0] = a
  BY <1>3, <1>5
<1>9. ASSUME NEW i \in 1..m PROVE h[i] = g[i][h[i - 1]]
  <2>1. CASE i = m
    BY <1>6, <2>1
  <2>2. CASE i # m
    <3>1. i \in 1..(m - 1) /\ i - 1 \in 0..m /\ i - 1 # m
      BY <2>2
    <3> QED
      BY <1>5, <2>2, <3>1
  <2> QED
    BY <2>1, <2>2
<1>10. Upto(m)
  <2> HIDE DEF h
  <2> QED
    BY <1>7, <1>8, <1>9
<1> QED
  BY <1>10

\* Two such functions agree as far as both go.
LEMMA IterationUnique ==
  ASSUME NEW n \in Nat, NEW f, NEW h, Together(f, h, n)
  PROVE  \A i \in 0..n : f[i] = h[i]
<1> USE DEF Together
<1> DEFINE bad == {m \in 0..n : f[m] # h[m]}
<1>1. SUFFICES ASSUME bad # {} PROVE FALSE
  OBVIOUS
<1>2. PICK m \in bad : \A k \in bad : m <= k
  <2>1. bad \in SUBSET Nat
    OBVIOUS
  <2> HIDE DEF bad
  <2> QED
    BY <1>1, <2>1, LeastNumber
<1>3. m \in 1..n /\ m - 1 \in 0..n /\ ~(m <= m - 1)
  OBVIOUS
<1>4. f[m - 1] = h[m - 1]
  BY <1>2, <1>3
<1> QED
  BY <1>3, <1>4

------------------------------------------------------------------------

\* A set that has the empty sequence, and with a sequence its extensions, has
\* all sequences.
LEMMA SeqInduction ==
  ASSUME NEW S, NEW P, << >> \in P, \A s \in Seq(S), e \in S : s \in P => Append(s, e) \in P
  PROVE  Seq(S) \subseteq P
<1> DEFINE bad == {n \in Nat : \E s \in Seq(S) : Len(s) = n /\ s \notin P}
<1>1. SUFFICES ASSUME bad # {} PROVE FALSE
  <2> SUFFICES ASSUME NEW s \in Seq(S), s \notin P PROVE bad # {}
    OBVIOUS
  <2> QED
    BY LenProperties
<1>2. PICK n \in bad : \A k \in bad : n <= k
  <2>1. bad \in SUBSET Nat
    OBVIOUS
  <2> HIDE DEF bad
  <2> QED
    BY <1>1, <2>1, LeastNumber
<1>3. PICK s \in Seq(S) : Len(s) = n /\ s \notin P
  OBVIOUS
<1>4. PICK t \in Seq(S), e \in S : s = Append(t, e)
  BY <1>3, SequenceEmptyOrAppend
<1>5. Len(t) \in Nat /\ Len(s) = Len(t) + 1 /\ t \notin P
  BY <1>3, <1>4, AppendProperties, LenProperties
<1>6. Len(t) \in bad
  BY <1>5
<1> HIDE DEF bad
<1> QED
  BY <1>2, <1>3, <1>5, <1>6

\* Nonempty sequences of texts over A, and how one symbol changes them.
Pieces(A) == Seq(Seq(A)) \ {<< >>}

Cutting(parts, s, d) ==
  IF s = d THEN Append(parts, << >>)
  ELSE [parts EXCEPT ![Len(parts)] = Append(@, s)]

LEMMA CuttingType ==
  ASSUME NEW A, NEW parts \in Pieces(A), NEW s \in A, NEW d
  PROVE  Cutting(parts, s, d) \in Pieces(A)
<1>1. parts \in Seq(Seq(A)) /\ Len(parts) \in 1..Len(parts)
  BY EmptySeq DEF Pieces
<1>2. CASE s = d
  <2>1. << >> \in Seq(A)
    BY EmptySeq
  <2> QED
    BY <1>1, <1>2, <2>1, AppendProperties, SMTT(20) DEF Cutting, Pieces
<1>3. CASE s # d
  <2>1. Append(parts[Len(parts)], s) \in Seq(A)
    BY <1>1, AppendProperties, ElementOfSeq
  <2> DEFINE new == [parts EXCEPT ![Len(parts)] = Append(parts[Len(parts)], s)]
  <2>2. new \in Seq(Seq(A)) /\ Len(new) = Len(parts)
    BY <1>1, <2>1, ExceptSeq
  <2>3. new # << >>
    BY <1>1, <2>2, EmptySeq
  <2> QED
    BY <1>3, <2>2, <2>3 DEF Cutting, Pieces
<1> QED
  BY <1>2, <1>3

\* Split goes through the text symbol by symbol.
LEMMA SplitSteps ==
  ASSUME NEW A, NEW t \in Seq(A), NEW d
  PROVE  \E f \in [0..Len(t) -> Pieces(A)] :
           /\ f[0] = << << >> >>
           /\ \A i \in 1..Len(t) : f[i] = Cutting(f[i - 1], t[i], d)
           /\ Split(t, d) = f[Len(t)]
<1> DEFINE S == Pieces(A)
           a == << << >> >>
           n == Len(t)
           G(f) == [i \in 0..n |-> IF i = 0 THEN a ELSE Cutting(f[i - 1], t[i], d)]
           g == [i \in 1..n |-> [x \in S |-> Cutting(x, t[i], d)]]
           upTo == CHOOSE f : f = G(f)
<1>1. n \in Nat /\ \A i \in 1..n : t[i] \in A
  OBVIOUS
<1>2. a \in S
  BY EmptySeq DEF Pieces
<1>3. g \in [1..n -> [S -> S]]
  <2> HIDE DEF S
  <2> QED
    BY <1>1, CuttingType DEF S
<1>4. PICK f \in [0..n -> S] : Iterates(f, a, g, n)
  <2> HIDE DEF g, n, S, a
  <2> QED
    BY <1>1, <1>2, <1>3, IterationExists
<1>5. f[0] = a /\ \A i \in 1..n : f[i] = Cutting(f[i - 1], t[i], d)
  <2>1. ASSUME NEW i \in 1..n PROVE f[i] = Cutting(f[i - 1], t[i], d)
    <3>1. i - 1 \in 0..n
      BY <1>1
    <3>2. f[i - 1] \in S
      BY <3>1
    <3> HIDE DEF S, n
    <3> QED
      BY <1>4, <3>2 DEF Iterates
  <2>2. f[0] = a
    BY <1>4 DEF Iterates
  <2> QED
    BY <2>1, <2>2
<1>6. f = G(f)
  <2> HIDE DEF a, n, S
  <2>1. \A i \in 0..n : f[i] = IF i = 0 THEN a ELSE Cutting(f[i - 1], t[i], d)
    BY <1>1, <1>5
  <2> QED
    BY <2>1
<1>7. upTo = G(upTo)
  <2> HIDE DEF G
  <2> QED
    BY <1>6
<1>8. upTo[0] = a /\ \A i \in 1..n : upTo[i] = Cutting(upTo[i - 1], t[i], d)
  <2> HIDE DEF upTo, a
  <2> QED
    BY <1>1, <1>7
<1>9. \A i \in 0..n : f[i] = upTo[i]
  <2>1. Together(f, upTo, n)
    <3> HIDE DEF upTo, a, n
    <3> QED
      BY <1>5, <1>8 DEF Together
  <2> HIDE DEF upTo, n
  <2> QED
    BY <1>1, <2>1, IterationUnique
<1>10. Split(t, d) = upTo[n]
  BY DEF Split, Cutting
<1>11. Split(t, d) = f[n]
  <2> HIDE DEF upTo
  <2> QED
    BY <1>1, <1>9, <1>10
<1> QED
  BY <1>5, <1>11

\* A split text grows with the text.
LEMMA SplitAppend ==
  ASSUME NEW A, NEW t \in Seq(A), NEW s \in A, NEW d
  PROVE  /\ Split(t, d) \in Pieces(A)
         /\ Split(<< >>, d) = << << >> >>
         /\ Split(Append(t, s), d) = Cutting(Split(t, d), s, d)
<1> DEFINE n == Len(t)
           u == Append(t, s)
<1>1. n \in Nat /\ u \in Seq(A) /\ Len(u) = n + 1 /\ u[n + 1] = s /\ \A i \in 1..n : u[i] = t[i]
  BY AppendProperties, LenProperties
<1>2. PICK f \in [0..n -> Pieces(A)] :
         /\ f[0] = << << >> >>
         /\ \A i \in 1..n : f[i] = Cutting(f[i - 1], t[i], d)
         /\ Split(t, d) = f[n]
  BY SplitSteps, ZenonT(40)
<1>3. PICK h \in [0..Len(u) -> Pieces(A)] :
         /\ h[0] = << << >> >>
         /\ \A i \in 1..Len(u) : h[i] = Cutting(h[i - 1], u[i], d)
         /\ Split(u, d) = h[Len(u)]
  BY <1>1, SplitSteps
<1>4. \A i \in 1..n : h[i] = Cutting(h[i - 1], t[i], d)
  <2> HIDE DEF u
  <2> QED
    BY <1>1, <1>3
<1>5. \A i \in 0..n : f[i] = h[i]
  <2>1. Together(f, h, n)
    BY <1>2, <1>3, <1>4 DEF Together
  <2> HIDE DEF n
  <2> QED
    BY <1>1, <2>1, IterationUnique
<1>6. Split(u, d) = Cutting(Split(t, d), s, d)
  <2>1. Split(u, d) = Cutting(h[n + 1 - 1], u[n + 1], d) /\ n \in 0..n /\ n + 1 - 1 = n
    <3> HIDE DEF u, n
    <3> QED
      BY <1>1, <1>3
  <2>2. h[n] = Split(t, d)
    BY <1>2, <1>5, <2>1
  <2> HIDE DEF u, n
  <2> QED
    BY <1>1, <2>1, <2>2
<1>7. Split(t, d) \in Pieces(A)
  <2> HIDE DEF n
  <2> QED
    BY <1>1, <1>2
<1>8. Split(<< >>, d) = << << >> >>
  <2> DEFINE e == << >>
  <2>1. e \in Seq(A) /\ Len(e) = 0
    BY EmptySeq
  <2>2. PICK k \in [0..Len(e) -> Pieces(A)] :
          /\ k[0] = << << >> >>
          /\ \A i \in 1..Len(e) : k[i] = Cutting(k[i - 1], e[i], d)
          /\ Split(e, d) = k[Len(e)]
    <3> HIDE DEF e
    <3> QED
      BY <2>1, SplitSteps
  <2> QED
    BY <2>1, <2>2
<1> QED
  BY <1>6, <1>7, <1>8

\* Flattening goes through the texts one by one.
LEMMA FlattenSteps ==
  ASSUME NEW A, NEW ss \in Pieces(A)
  PROVE  \E f \in [0..Len(ss) -> Seq(A)] :
           /\ f[0] = << >>
           /\ \A i \in 1..Len(ss) : f[i] = f[i - 1] \o ss[i]
           /\ FlattenSeq(ss) = f[Len(ss)]
<1> DEFINE S == Seq(A)
           n == Len(ss)
           C(x, i) == x \o ss[i]
           G(f) == [i \in 1..n |-> IF i = 1 THEN ss[i] ELSE C(f[i - 1], i)]
           g == [i \in 1..n |-> [x \in S |-> C(x, i)]]
           flatten == CHOOSE f : f = G(f)
<1>1. ss \in Seq(S) /\ n \in Nat \ {0} /\ \A i \in 1..n : ss[i] \in S
  BY EmptySeq, ElementOfSeq DEF Pieces
<1>2. << >> \in S
  BY EmptySeq
<1>3. g \in [1..n -> [S -> S]]
  BY <1>1, ConcatProperties
<1>4. PICK f \in [0..n -> S] : Iterates(f, << >>, g, n)
  <2> HIDE DEF g, n, S
  <2> QED
    BY <1>1, <1>2, <1>3, IterationExists
<1>5. f[0] = << >> /\ \A i \in 1..n : f[i] = C(f[i - 1], i)
  <2>1. ASSUME NEW i \in 1..n PROVE f[i] = C(f[i - 1], i)
    <3>1. i - 1 \in 0..n
      BY <1>1
    <3>2. f[i - 1] \in S
      BY <3>1
    <3> HIDE DEF S, n, C
    <3> QED
      BY <1>4, <3>2 DEF Iterates
  <2>2. f[0] = << >>
    BY <1>4 DEF Iterates
  <2> QED
    BY <2>1, <2>2
<1>6. f[1] = ss[1]
  <2>1. f[1] = C(f[0], 1)
    <3>1. 1 \in 1..n /\ 1 - 1 = 0
      BY <1>1
    <3> HIDE DEF n, C
    <3> QED
      BY <1>5, <3>1
  <2> QED
    BY <1>1, <1>5, <2>1, ConcatEmptySeq
<1> DEFINE e == [i \in 1..n |-> f[i]]
<1>7. e = G(e)
  <2> HIDE DEF n, S, C
  <2>1. \A i \in 1..n : f[i] = IF i = 1 THEN ss[i] ELSE C(f[i - 1], i)
    BY <1>5, <1>6
  <2>2. \A i \in 1..n : i # 1 => i - 1 \in 1..n
    BY <1>1
  <2> QED
    BY <2>1, <2>2
<1>8. flatten = G(flatten)
  <2> HIDE DEF G
  <2> QED
    BY <1>7
<1>9. flatten[1] = ss[1] /\ \A i \in 2..n : flatten[i] = C(flatten[i - 1], i)
  <2> HIDE DEF flatten, C, n
  <2> QED
    BY <1>1, <1>8
<1> DEFINE h == [i \in 0..n |-> IF i = 0 THEN << >> ELSE flatten[i]]
<1>10. \A i \in 0..n : f[i] = h[i]
  <2>1. ASSUME NEW i \in 1..n, f[i - 1] = h[i - 1] PROVE f[i] = h[i]
    <3>1. CASE i = 1
      <4> HIDE DEF flatten, C
      <4> QED
        BY <1>6, <1>9, <3>1
    <3>2. CASE i # 1
      <4>1. i \in 2..n /\ i - 1 \in 1..n /\ i - 1 # 0
        BY <1>1, <3>2
      <4> HIDE DEF flatten, C
      <4> QED
        BY <1>5, <1>9, <2>1, <4>1
    <3> QED
      BY <3>1, <3>2
  <2>2. Together(f, h, n)
    <3>1. f[0] = h[0]
      BY <1>1, <1>5
    <3> HIDE DEF h, n
    <3> QED
      BY <2>1, <3>1 DEF Together
  <2> HIDE DEF h, n
  <2> QED
    BY <1>1, <2>2, IterationUnique
<1>11. FlattenSeq(ss) = flatten[n]
  BY <1>1 DEF FlattenSeq
<1>12. FlattenSeq(ss) = f[n]
  <2> HIDE DEF flatten
  <2> QED
    BY <1>1, <1>10, <1>11
<1> QED
  BY <1>5, <1>12

\* A flattened sequence grows with the sequence.
LEMMA FlattenAppend ==
  ASSUME NEW A, NEW ss \in Pieces(A), NEW s \in Seq(A)
  PROVE  /\ FlattenSeq(ss) \in Seq(A)
         /\ FlattenSeq(<<s>>) = s
         /\ FlattenSeq(Append(ss, s)) = FlattenSeq(ss) \o s
<1> DEFINE n == Len(ss)
           u == Append(ss, s)
<1>1. /\ n \in Nat /\ u \in Pieces(A) /\ Len(u) = n + 1 /\ u[n + 1] = s
      /\ \A i \in 1..n : u[i] = ss[i]
  <2>1. ss \in Seq(Seq(A))
    BY DEF Pieces
  <2> QED
    BY <2>1, AppendProperties, LenProperties DEF Pieces
<1>2. PICK f \in [0..n -> Seq(A)] :
         /\ f[0] = << >>
         /\ \A i \in 1..n : f[i] = f[i - 1] \o ss[i]
         /\ FlattenSeq(ss) = f[n]
  BY FlattenSteps
<1>3. PICK h \in [0..Len(u) -> Seq(A)] :
         /\ h[0] = << >>
         /\ \A i \in 1..Len(u) : h[i] = h[i - 1] \o u[i]
         /\ FlattenSeq(u) = h[Len(u)]
  <2> HIDE DEF u
  <2> QED
    BY <1>1, FlattenSteps
<1>4. \A i \in 1..n : h[i] = h[i - 1] \o ss[i]
  <2>1. 1..n \subseteq 1..Len(u)
    <3> HIDE DEF u, n
    <3> QED
      BY <1>1
  <2> HIDE DEF u, n
  <2> QED
    BY <1>1, <1>3, <2>1, Zenon
<1>5. \A i \in 0..n : f[i] = h[i]
  <2>1. Together(f, h, n)
    BY <1>2, <1>3, <1>4 DEF Together
  <2> HIDE DEF n
  <2> QED
    BY <1>1, <2>1, IterationUnique
<1>6. FlattenSeq(u) = FlattenSeq(ss) \o s
  <2>1. Len(u) \in 1..Len(u) /\ n \in 0..n /\ Len(u) - 1 = n /\ u[Len(u)] = s
    <3> HIDE DEF u, n
    <3> QED
      BY <1>1
  <2>2. h[n] = FlattenSeq(ss)
    BY <1>2, <1>5, <2>1
  <2> HIDE DEF u, n
  <2> QED
    BY <1>3, <2>1, <2>2, Zenon
<1>7. FlattenSeq(ss) \in Seq(A)
  <2> HIDE DEF n
  <2> QED
    BY <1>1, <1>2
<1>8. FlattenSeq(<<s>>) = s
  <2>1. <<s>> \in Pieces(A) /\ Len(<<s>>) = 1 /\ <<s>>[1] = s
    BY DEF Pieces
  <2> DEFINE e == <<s>>
  <2>2. PICK k \in [0..Len(e) -> Seq(A)] :
          /\ k[0] = << >>
          /\ \A i \in 1..Len(e) : k[i] = k[i - 1] \o e[i]
          /\ FlattenSeq(e) = k[Len(e)]
    <3> HIDE DEF e
    <3> QED
      BY <2>1, FlattenSteps DEF e
  <2>3. 1 \in 1..Len(e) /\ 1 - 1 = 0
    BY <2>1
  <2>4. FlattenSeq(e) = << >> \o s
    <3> HIDE DEF e
    <3> QED
      BY <2>1, <2>2, <2>3, Zenon DEF e
  <2> QED
    BY <2>4, ConcatEmptySeq
<1> QED
  BY <1>6, <1>7, <1>8

-----------------------------------------------------------------------------
(* Split and Joined are inverse.                                           *)

\* The parts, each but the first led by the delimiter.
Led(q, d) == [i \in DOMAIN q |-> IF i = 1 THEN q[i] ELSE <<d>> \o q[i]]

LEMMA LedAppend ==
  ASSUME NEW A, NEW d \in A, NEW p \in Pieces(A), NEW x \in Seq(A)
  PROVE  /\ Led(p, d) \in Pieces(A)
         /\ Led(Append(p, x), d) = Append(Led(p, d), <<d>> \o x)
<1> USE DEF Led
<1>2. <<d>> \in Seq(A)
  OBVIOUS
<1>3. \A y \in Seq(A) : <<d>> \o y \in Seq(A)
  BY <1>2, ConcatProperties
<1>4. ASSUME NEW q \in Pieces(A) PROVE Led(q, d) \in Pieces(A)
  <2>1. q \in Seq(Seq(A)) /\ Len(q) \in Nat \ {0} /\ DOMAIN q = 1..Len(q)
    BY EmptySeq, LenProperties DEF Pieces
  <2>2. \A i \in 1..Len(q) : (IF i = 1 THEN q[i] ELSE <<d>> \o q[i]) \in Seq(A)
    BY <1>3, <2>1, ElementOfSeq
  <2>3. Led(q, d) \in [1..Len(q) -> Seq(A)]
    BY <2>1, <2>2
  <2>4. Led(q, d) \in Seq(Seq(A)) /\ DOMAIN Led(q, d) = 1..Len(q)
    <3>1. [1..Len(q) -> Seq(A)] \subseteq Seq(Seq(A))
      <4>1. Seq(Seq(A)) = UNION {[1..n -> Seq(A)] : n \in Nat}
        BY SeqDef, Zenon
      <4> QED
        BY <2>1, <4>1, Zenon
    <3> HIDE DEF Led
    <3> QED
      BY <2>3, <3>1
  <2>5. Led(q, d) # << >>
    <3> HIDE DEF Led
    <3> QED
      BY <2>1, <2>4
  <2> QED
    BY <2>4, <2>5 DEF Pieces
<1>5. Led(Append(p, x), d) = Append(Led(p, d), <<d>> \o x)
  <2> DEFINE n == Len(p)
             u == Append(p, x)
             y == <<d>> \o x
  <2>1. /\ p \in Seq(Seq(A)) /\ n \in Nat \ {0} /\ DOMAIN p = 1..n
        /\ u \in Pieces(A) /\ DOMAIN u = 1..(n + 1) /\ u[n + 1] = x
        /\ \A i \in 1..n : u[i] = p[i]
    <3>1. p \in Seq(Seq(A)) /\ n \in Nat \ {0} /\ DOMAIN p = 1..n
      BY EmptySeq, LenProperties DEF Pieces
    <3> QED
      BY <3>1, AppendProperties, LenProperties DEF Pieces
  <2>2. Led(p, d) \in Seq(Seq(A)) /\ Len(Led(p, d)) = n
    <3>1. Led(p, d) \in Seq(Seq(A)) /\ DOMAIN Led(p, d) = 1..n
      BY <1>4, <2>1 DEF Pieces
    <3> HIDE DEF Led
    <3> QED
      BY <2>1, <3>1
  <2>3. y \in Seq(A)
    BY <1>3
  <2>4. /\ Append(Led(p, d), y) \in Seq(Seq(A)) /\ Len(Append(Led(p, d), y)) = n + 1
        /\ \A i \in 1..n : Append(Led(p, d), y)[i] = Led(p, d)[i]
        /\ Append(Led(p, d), y)[n + 1] = y
    <3> HIDE DEF Led, y, n
    <3> QED
      BY <2>2, <2>3, AppendProperties
  <2>5. Led(u, d) \in Seq(Seq(A)) /\ Len(Led(u, d)) = n + 1
    <3>1. Led(u, d) \in Seq(Seq(A)) /\ DOMAIN Led(u, d) = 1..(n + 1)
      <4> HIDE DEF u, n
      <4> QED
        BY <1>4, <2>1 DEF Pieces
    <3> HIDE DEF Led, u, n
    <3> QED
      BY <2>1, <3>1
  <2>6. ASSUME NEW i \in 1..(n + 1) PROVE Led(u, d)[i] = Append(Led(p, d), y)[i]
    <3>1. Led(u, d)[i] = IF i = 1 THEN u[i] ELSE <<d>> \o u[i]
      <4> HIDE DEF u, n
      <4> QED
        BY <2>1
    <3>2. CASE i = n + 1
      <4>1. i # 1
        BY <2>1, <3>2
      <4> HIDE DEF u, n, Led
      <4> QED
        BY <2>1, <2>4, <3>1, <3>2, <4>1 DEF y
    <3>3. CASE i # n + 1
      <4>1. i \in 1..n
        BY <2>1, <3>3
      <4>2. Led(p, d)[i] = IF i = 1 THEN p[i] ELSE <<d>> \o p[i]
        <5> HIDE DEF n
        <5> QED
          BY <2>1, <4>1
      <4> HIDE DEF u, n, Led, y
      <4> QED
        BY <2>1, <2>4, <3>1, <4>1, <4>2
    <3> QED
      BY <3>2, <3>3
  <2> HIDE DEF Led, u, n, y
  <2>7. Led(u, d) = Append(Led(p, d), y)
    BY <2>1, <2>4, <2>5, <2>6, SeqEqual
  <2> QED
    BY <2>7 DEF u, y
<1> QED
  BY <1>4, <1>5

\* Between two parts is one delimiter.
LEMMA JoinedAppend ==
  ASSUME NEW A, NEW d \in A, NEW p \in Pieces(A), NEW x \in Seq(A)
  PROVE  /\ Joined(p, d) \in Seq(A)
         /\ Joined(<<x>>, d) = x
<1>1. Joined(p, d) = FlattenSeq(Led(p, d)) /\ Joined(<<x>>, d) = FlattenSeq(Led(<<x>>, d))
  BY DEF Joined, Led
<1>2. Led(<<x>>, d) = <<x>>
  BY DEF Led
<1>3. Led(p, d) \in Pieces(A)
  BY LedAppend
<1> QED
  BY <1>1, <1>2, <1>3, FlattenAppend

LEMMA JoinedLonger ==
  ASSUME NEW A, NEW d \in A, NEW p \in Pieces(A), NEW x \in Seq(A)
  PROVE  Joined(Append(p, x), d) = Joined(p, d) \o (<<d>> \o x)
<1>1. \A q : Joined(q, d) = FlattenSeq(Led(q, d))
  BY DEF Joined, Led
<1>2. <<d>> \o x \in Seq(A)
  <2>1. <<d>> \in Seq(A)
    OBVIOUS
  <2> QED
    BY <2>1, ConcatProperties
<1>3. Led(p, d) \in Pieces(A) /\ Led(Append(p, x), d) = Append(Led(p, d), <<d>> \o x)
  BY LedAppend, Zenon
<1> DEFINE y == <<d>> \o x
<1>4. FlattenSeq(Append(Led(p, d), y)) = FlattenSeq(Led(p, d)) \o y
  <2>1. y \in Seq(A)
    BY <1>2
  <2> HIDE DEF y
  <2> QED
    BY <1>3, <2>1, FlattenAppend
<1> QED
  BY <1>1, <1>3, <1>4, Zenon

\* A symbol more in the last part, or a delimiter and an empty part, is a
\* symbol more in the joined text.
LEMMA JoinedCutting ==
  ASSUME NEW A, NEW d \in A, NEW s \in A, NEW p \in Pieces(A)
  PROVE  Joined(Cutting(p, s, d), d) = Append(Joined(p, d), s)
<1>1. Joined(p, d) \in Seq(A) /\ << >> \in Seq(A) /\ p \in Seq(Seq(A))
  BY JoinedAppend, EmptySeq DEF Pieces
<1>2. CASE s = d
  <2>1. Cutting(p, s, d) = Append(p, << >>)
    BY <1>2 DEF Cutting
  <2>2. <<d>> \o << >> = <<d>>
    BY ConcatEmptySeq
  <2>3. Joined(Append(p, << >>), d) = Joined(p, d) \o (<<d>> \o << >>)
    BY <1>1, JoinedLonger, Zenon
  <2>4. Append(Joined(p, d), d) = Joined(p, d) \o <<d>>
    BY <1>1, AppendIsConcat
  <2> QED
    BY <1>2, <2>1, <2>2, <2>3, <2>4, Zenon
<1>3. CASE s # d
  <2>1. PICK q \in Seq(Seq(A)), l \in Seq(A) : p = Append(q, l)
    BY <1>1, SequenceEmptyOrAppend DEF Pieces
  <2>2. Append(l, s) \in Seq(A)
    BY AppendProperties
  <2>3. Cutting(p, s, d) = Append(q, Append(l, s))
    <3> DEFINE m == Append(l, s)
               n == Len(q)
               e == [p EXCEPT ![Len(p)] = Append(p[Len(p)], s)]
    <3>1. n \in Nat /\ Len(p) = n + 1 /\ p[n + 1] = l /\ \A i \in 1..n : p[i] = q[i]
      BY <2>1, AppendProperties, LenProperties
    <3>2. e = [p EXCEPT ![n + 1] = m] /\ Cutting(p, s, d) = e
      BY <1>3, <3>1 DEF Cutting
    <3>3. m \in Seq(A)
      BY <2>2
    <3>4. /\ Append(q, m) \in Seq(Seq(A)) /\ Len(Append(q, m)) = n + 1
          /\ \A i \in 1..n : Append(q, m)[i] = q[i]
          /\ Append(q, m)[n + 1] = m
      <4> HIDE DEF m
      <4> QED
        BY <3>3, AppendProperties
    <3> HIDE DEF e, m, n
    <3>5. /\ e \in Seq(Seq(A)) /\ Len(e) = n + 1
          /\ \A i \in 1..(n + 1) : e[i] = IF i = n + 1 THEN m ELSE p[i]
      <4>1. n + 1 \in 1..Len(p)
        BY <3>1
      <4> QED
        BY <1>1, <3>1, <3>2, <3>3, <4>1, ExceptSeq
    <3>6. \A i \in 1..(n + 1) : e[i] = Append(q, m)[i]
      BY <3>1, <3>4, <3>5
    <3> QED
      BY <3>2, <3>4, <3>5, <3>6, SeqEqual, ZenonT(40) DEF m
  <2>4. CASE q = << >>
    <3>1. p = <<l>> /\ Cutting(p, s, d) = <<Append(l, s)>>
      BY <2>1, <2>3, <2>4
    <3>2. \A y \in Seq(A) : Joined(<<y>>, d) = y
      BY JoinedAppend, Zenon
    <3> QED
      BY <2>2, <3>1, <3>2, Zenon
  <2>5. CASE q # << >>
    <3>1. q \in Pieces(A)
      BY <2>5 DEF Pieces
    <3>2. Joined(q, d) \in Seq(A) /\ <<d>> \o l \in Seq(A) /\ <<s>> \in Seq(A) /\ <<d>> \in Seq(A)
      <4>1. <<s>> \in Seq(A) /\ <<d>> \in Seq(A)
        OBVIOUS
      <4>2. Joined(q, d) \in Seq(A)
        BY <2>1, <3>1, JoinedAppend, Zenon
      <4> QED
        BY <4>1, <4>2, ConcatProperties, Zenon
    <3>3. Joined(p, d) = Joined(q, d) \o (<<d>> \o l)
      BY <2>1, <3>1, JoinedLonger, Zenon
    <3>4. Joined(Cutting(p, s, d), d) = Joined(q, d) \o (<<d>> \o Append(l, s))
      BY <2>2, <2>3, <3>1, JoinedLonger, Zenon
    <3>5. <<d>> \o Append(l, s) = (<<d>> \o l) \o <<s>>
      BY <3>2, AppendIsConcat, ConcatAssociative
    <3>6. Joined(q, d) \o ((<<d>> \o l) \o <<s>>) = Joined(p, d) \o <<s>>
      BY <3>2, <3>3, ConcatAssociative
    <3> QED
      BY <1>1, <3>4, <3>5, <3>6, AppendIsConcat
  <2> QED
    BY <2>4, <2>5
<1> QED
  BY <1>2, <1>3

\* The parts of a text joined are the text, and no part has the delimiter.
LEMMA JoinedSplit ==
  ASSUME NEW A, NEW d \in A, NEW t \in Seq(A)
  PROVE  Split(t, d) \in Pieces(A \ {d}) /\ Joined(Split(t, d), d) = t
<1> DEFINE P == {u \in Seq(A) : Split(u, d) \in Pieces(A \ {d}) /\ Joined(Split(u, d), d) = u}
<1>1. << >> \in P
  <2>1. << >> \in Seq(A) /\ << >> \in Seq(A \ {d}) /\ << << >> >> \in Pieces(A \ {d})
    BY EmptySeq DEF Pieces
  <2>2. Split(<< >>, d) = << << >> >>
    BY <2>1, SplitAppend
  <2>3. Joined(<< << >> >>, d) = << >>
    <3>1. << << >> >> \in Pieces(A)
      BY <2>1 DEF Pieces
    <3> QED
      BY <2>1, <3>1, JoinedAppend, Zenon
  <2> QED
    BY <2>1, <2>2, <2>3
<1>2. ASSUME NEW u \in Seq(A), NEW s \in A, u \in P PROVE Append(u, s) \in P
  <2>1. Append(u, s) \in Seq(A) /\ Split(u, d) \in Pieces(A)
    BY AppendProperties, SplitAppend
  <2>2. Split(Append(u, s), d) = Cutting(Split(u, d), s, d)
    BY SplitAppend
  <2>3. Cutting(Split(u, d), s, d) \in Pieces(A \ {d})
    <3>1. Split(u, d) \in Pieces(A \ {d})
      BY <1>2
    <3>2. CASE s # d
      <4> DEFINE B == A \ {d}
      <4>1. s \in B /\ Split(u, d) \in Pieces(B)
        BY <3>1, <3>2
      <4> HIDE DEF B
      <4>2. Cutting(Split(u, d), s, d) \in Pieces(B)
        BY <4>1, CuttingType
      <4> QED
        BY <4>2 DEF B
    <3>3. CASE s = d
      <4> DEFINE T == Seq(A \ {d})
                 p == Split(u, d)
                 e == << >>
      <4>1. p \in Seq(T) /\ e \in T
        BY <3>1, EmptySeq DEF Pieces
      <4>2. Append(p, e) \in Seq(T) /\ Append(p, e) # << >>
        <5> HIDE DEF p, T, e
        <5> QED
          BY <4>1, AppendProperties
      <4>3. Cutting(p, s, d) = Append(p, e)
        BY <3>3, Zenon DEF Cutting
      <4> QED
        BY <4>2, <4>3, Zenon DEF Pieces
    <3> QED
      BY <3>2, <3>3
  <2>4. Joined(Cutting(Split(u, d), s, d), d) = Append(u, s)
    BY <1>2, <2>1, JoinedCutting, Zenon
  <2> QED
    BY <2>1, <2>2, <2>3, <2>4
<1>3. Seq(A) \subseteq P
  <2> HIDE DEF P
  <2> QED
    BY <1>1, <1>2, SeqInduction
<1> QED
  BY <1>3

\* Parts without the delimiter are parts.
LEMMA PiecesLarger ==
  ASSUME NEW A, NEW B \in SUBSET A
  PROVE  Pieces(B) \subseteq Pieces(A)
<1>1. Seq(B) \subseteq Seq(A)
  BY SeqMonotonic
<1>2. Seq(Seq(B)) \subseteq Seq(Seq(A))
  BY <1>1, SeqMonotonic
<1> QED
  BY <1>2 DEF Pieces

\* Parts of more than one empty text have a last symbol or a last delimiter.
LEMMA Uncutting ==
  ASSUME NEW A, NEW d \in A, NEW p \in Pieces(A \ {d}), p # << << >> >>
  PROVE  \E q \in Pieces(A \ {d}), s \in A : p = Cutting(q, s, d)
<1> DEFINE B == A \ {d}
<1>1. PICK q \in Seq(Seq(B)), l \in Seq(B) : p = Append(q, l)
  <2>1. p \in Seq(Seq(B)) /\ p # << >>
    BY DEF Pieces
  <2> QED
    BY <2>1, SequenceEmptyOrAppend
<1>2. CASE l = << >>
  <2>1. Append(<< >>, << >>) = << << >> >>
    OBVIOUS
  <2>2. q # << >>
    BY <1>1, <1>2, <2>1, Zenon
  <2> QED
    BY <1>1, <1>2, <2>2 DEF Cutting, Pieces
<1>3. CASE l # << >>
  <2>1. PICK k \in Seq(B), s \in B : l = Append(k, s)
    BY <1>3, SequenceEmptyOrAppend
  <2> DEFINE r == Append(q, k)
             n == Len(q)
             e == [r EXCEPT ![Len(r)] = Append(r[Len(r)], s)]
  <2>2. /\ r \in Seq(Seq(B)) /\ r # << >> /\ n \in Nat /\ Len(r) = n + 1 /\ r[n + 1] = k
        /\ \A i \in 1..n : r[i] = q[i]
    BY AppendProperties, LenProperties
  <2>3. /\ p \in Seq(Seq(B)) /\ Len(p) = n + 1 /\ p[n + 1] = l /\ \A i \in 1..n : p[i] = q[i]
    BY <1>1, AppendProperties, LenProperties
  <2>4. e = [r EXCEPT ![n + 1] = l]
    <3> HIDE DEF r, n
    <3> QED
      BY <2>1, <2>2
  <2> HIDE DEF e, r, n
  <2>5. /\ e \in Seq(Seq(B)) /\ Len(e) = n + 1
        /\ \A i \in 1..(n + 1) : e[i] = IF i = n + 1 THEN l ELSE r[i]
    <3>1. n + 1 \in 1..Len(r)
      BY <2>2
    <3> QED
      BY <1>1, <2>2, <2>4, <3>1, ExceptSeq
  <2>6. ASSUME NEW i \in 1..(n + 1) PROVE e[i] = p[i]
    <3>1. CASE i = n + 1
      <4>1. p[i] = l /\ e[i] = l
        BY <2>3, <2>5, <3>1, Zenon
      <4> QED
        BY <4>1
    <3>2. CASE i # n + 1
      <4>1. i \in 1..n
        BY <2>2, <3>2
      <4>2. e[i] = r[i] /\ r[i] = q[i] /\ p[i] = q[i]
        BY <2>2, <2>3, <2>5, <3>2, <4>1, Zenon
      <4> QED
        BY <4>2
    <3> QED
      BY <3>1, <3>2
  <2>7. p = e
    BY <2>3, <2>5, <2>6, SeqEqual
  <2>8. s # d
    BY <2>1
  <2>9. p = Cutting(r, s, d)
    BY <2>7, <2>8, Zenon DEF Cutting, e
  <2>10. r \in Pieces(B)
    BY <2>2 DEF Pieces
  <2> QED
    BY <2>9, <2>10
<1> QED
  BY <1>2, <1>3

\* Joined parts without the delimiter are split as they were.
LEMMA SplitJoined ==
  ASSUME NEW A, NEW d \in A, NEW p \in Pieces(A \ {d})
  PROVE  Joined(p, d) \in Seq(A) /\ Split(Joined(p, d), d) = p
<1> DEFINE B == A \ {d}
           P == {t \in Seq(A) : \A q \in Pieces(B) : Joined(q, d) = t => q = Split(t, d)}
<1>1. Pieces(B) \subseteq Pieces(A)
  BY PiecesLarger
<1>2. \A q \in Pieces(B) : Joined(q, d) \in Seq(A)
  <2>1. << >> \in Seq(A)
    BY EmptySeq
  <2> QED
    BY <1>1, <2>1, JoinedAppend
<1>3. ASSUME NEW q \in Pieces(B), q # << << >> >>
      PROVE  \E r \in Pieces(B), s \in A :
               q = Cutting(r, s, d) /\ Joined(q, d) = Append(Joined(r, d), s)
  <2>1. PICK r \in Pieces(B), s \in A : q = Cutting(r, s, d)
    BY <1>3, Uncutting
  <2>2. r \in Pieces(A)
    BY <1>1
  <2>3. Joined(Cutting(r, s, d), d) = Append(Joined(r, d), s)
    BY <2>2, JoinedCutting, Zenon
  <2> QED
    BY <2>1, <2>3, Zenon
<1>4. << >> \in P
  <2>1. << >> \in Seq(A)
    BY EmptySeq
  <2>2. Split(<< >>, d) = << << >> >>
    BY <2>1, SplitAppend
  <2>3. ASSUME NEW q \in Pieces(B), Joined(q, d) = << >> PROVE q = << << >> >>
    <3>1. \A r \in Pieces(B), s \in A : Append(Joined(r, d), s) # << >>
      <4> SUFFICES ASSUME NEW r \in Pieces(B), NEW s \in A PROVE Append(Joined(r, d), s) # << >>
        OBVIOUS
      <4>1. Joined(r, d) \in Seq(A)
        BY <1>2
      <4> QED
        BY <4>1, AppendProperties
    <3> QED
      BY <1>3, <2>3, <3>1, Zenon
  <2> QED
    BY <2>1, <2>2, <2>3
<1>5. ASSUME NEW t \in Seq(A), NEW s \in A, t \in P PROVE Append(t, s) \in P
  <2>1. Append(t, s) \in Seq(A) /\ Append(t, s) # << >>
    BY AppendProperties
  <2>2. ASSUME NEW q \in Pieces(B), Joined(q, d) = Append(t, s)
        PROVE  q = Split(Append(t, s), d)
    <3>1. q # << << >> >>
      <4>1. << >> \in Seq(A) /\ << << >> >> \in Pieces(A)
        BY EmptySeq DEF Pieces
      <4>2. Joined(<< << >> >>, d) = << >>
        BY <4>1, JoinedAppend, Zenon
      <4> QED
        BY <2>1, <2>2, <4>2
    <3>2. PICK r \in Pieces(B), e \in A :
            q = Cutting(r, e, d) /\ Joined(q, d) = Append(Joined(r, d), e)
      BY <1>3, <3>1
    <3>3. Joined(r, d) = t /\ e = s
      <4>1. Joined(r, d) \in Seq(A) /\ Append(Joined(r, d), e) = Append(t, s)
        BY <1>2, <2>2, <3>2, Zenon
      <4> DEFINE j == Joined(r, d)
      <4>2. j \in Seq(A) /\ Append(j, e) = Append(t, s)
        BY <4>1
      <4> HIDE DEF j
      <4>3. j = t /\ e = s
        BY <4>2, AppendInjective
      <4> QED
        BY <4>3 DEF j
    <3>4. r = Split(t, d)
      BY <1>5, <3>3
    <3>5. Split(Append(t, s), d) = Cutting(Split(t, d), s, d)
      BY SplitAppend
    <3> QED
      BY <3>2, <3>3, <3>4, <3>5
  <2> QED
    BY <2>1, <2>2
<1>6. Seq(A) \subseteq P
  <2> HIDE DEF P
  <2> QED
    BY <1>4, <1>5, SeqInduction
<1> QED
  BY <1>2, <1>6

-----------------------------------------------------------------------------
(* Memos and challenges.                                                   *)

\* What is trimmed of a text is at its end.
LEMMA TrimEndIs ==
  ASSUME NEW A, NEW t \in Seq(A), NEW d
  PROVE  /\ TrimEnd(t, d) \in Seq(A)
         /\ t = << >> \/ t[Len(t)] # d => TrimEnd(t, d) = t
<1> DEFINE S == {i \in DOMAIN t : \A j \in i..Len(t) : t[j] = d}
           n == Len(t)
           c == Cardinality(S)
<1>1. n \in Nat /\ DOMAIN t = 1..n /\ \A i \in 1..n : t[i] \in A
  BY LenProperties
<1>2. c \in Nat
  <2>1. IsFiniteSet(1..n)
    BY <1>1, FS_Interval
  <2>2. S \subseteq 1..n
    BY <1>1
  <2> QED
    BY <2>1, <2>2, FS_Subset, FS_CardinalityType
<1>3. TrimEnd(t, d) = SubSeq(t, 1, n - c)
  BY DEF TrimEnd
<1>4. TrimEnd(t, d) \in Seq(A)
  <2> HIDE DEF c, n
  <2>1. 1 \in Int /\ n - c \in Int /\ \A i \in 1..(n - c) : t[i] \in A
    BY <1>1, <1>2
  <2> QED
    BY <1>3, <2>1, SubSeqProperties
<1>5. ASSUME t = << >> \/ t[n] # d PROVE TrimEnd(t, d) = t
  <2>1. S = {}
    BY <1>1, <1>5
  <2>2. c = 0
    BY <2>1, FS_EmptySet, Zenon
  <2>3. n - c = n
    <3> HIDE DEF c, n
    <3> QED
      BY <1>1, <2>2
  <2> QED
    BY <1>3, <2>3, SubSeqFull
<1> QED
  BY <1>4, <1>5

\* The words of which memos are made are no delimiters.
LEMMA Words ==
  /\ Word \subseteq Plain \ Delimiter /\ Lower \subseteq Word
  /\ {"ZNS", "claim", "update", "release", "otp", "forever", "none", "y"} \subseteq Word
  /\ Unified \subseteq Word /\ SixDigits \subseteq Word
  /\ ":" \in Plain \ Word /\ "NUL" \notin Word
BY RequestsAssumption DEF RequestsAssumption, Word, Plain, Delimiter

\* A memo has the parts of its kind, and a code more.
LEMMA PartsAre ==
  ASSUME NEW r \in Request
  PROVE  /\ r.kind \in {"claim", "update", "release", "otp"}
         /\ r.kind = "claim" /\ r.code = None =>
              Parts(r) = << <<"ZNS">>, <<"claim">>, TermField(r.term), r.name, r.ua >>
         /\ r.kind = "claim" /\ r.code # None =>
              Parts(r) = << <<"ZNS">>, <<"claim">>, r.code, TermField(r.term), r.name, r.ua >>
         /\ r.kind = "update" =>
              Parts(r) = << <<"ZNS">>, <<"update">>, TermField(r.term), r.name, r.ua >>
         /\ r.kind = "release" =>
              Parts(r) = << <<"ZNS">>, <<"release">>, r.name, r.ua >>
         /\ r.kind = "otp" =>
              Parts(r) = << <<"ZNS">>, <<"otp">>, r.code, r.name, <<r.action>>, r.ua >>
<1>1. r.kind \in {"claim", "update", "release", "otp"}
  BY DEF Request
<1> QED
  BY <1>1 DEF Parts

\* The field of a term is a word or two, and of one term.
LEMMA TermFieldIs ==
  ASSUME NEW term, IsTerm(term) \/ term = None
  PROVE  /\ TermField(term) \in Seq(Word)
         /\ \A other : (IsTerm(other) \/ other = None) /\ TermField(other) = TermField(term)
              => other = term
<1> DEFINE Good(x) == x = Forever \/ x = None \/ x \in 1..MaxYears
<1>1. ASSUME NEW x, Good(x)
      PROVE  TermField(x) = IF x = Forever THEN <<"forever">>
                            ELSE IF x = None THEN <<"none">> ELSE <<ToString(x), "y">>
  BY DEF TermField
<1>2. \A i, j \in 1..MaxYears : ToString(i) \in Word /\ (i # j => ToString(i) # ToString(j))
  BY NumeralAssumption DEF NumeralAssumption
<1>3. Good(term)
  BY DEF IsTerm
<1>4. TermField(term) \in Seq(Word)
  <2>1. \A v, w \in Word : <<v>> \in Seq(Word) /\ <<v, w>> \in Seq(Word)
    OBVIOUS
  <2> QED
    BY <1>1, <1>2, <1>3, <2>1, Words
<1>5. ASSUME NEW other, Good(other), TermField(other) = TermField(term) PROVE other = term
  <2> DEFINE num(x) == ToString(x)
             field(x) == IF x = Forever THEN <<"forever">>
                         ELSE IF x = None THEN <<"none">> ELSE <<num(x), "y">>
  <2>1. field(other) = field(term)
    BY <1>1, <1>3, <1>5, Zenon
  <2>2. \A i, j \in 1..MaxYears : num(i) = num(j) => i = j
    BY <1>2
  <2> HIDE DEF num
  <2> QED
    BY <1>3, <1>5, <2>1, <2>2
<1> QED
  BY <1>4, <1>5 DEF IsTerm

\* Everything between the colons of a memo is made of words.
LEMMA PartsAreWords ==
  ASSUME NEW r \in Request, Buildable(r)
  PROVE  /\ Parts(r) \in Pieces(Word)
         /\ r.name \in Seq(Word) /\ r.ua \in Seq(Word) /\ r.ua # << >>
<1>1. \A w \in Word : <<w>> \in Seq(Word) /\ <<w>> # << >>
  OBVIOUS
<1>2. r.name \in Seq(Word)
  <2>1. r.name \in Seq(Plain) /\ ToSet(r.name) \subseteq Lower
    BY DEF Buildable, check, IsName, Request, Text
  <2>2. r.name \in [1..Len(r.name) -> Word] /\ Len(r.name) \in Nat
    <3>1. DOMAIN r.name = 1..Len(r.name) /\ r.name \in [1..Len(r.name) -> Plain]
          /\ Len(r.name) \in Nat
      BY <2>1, LenProperties
    <3>2. \A i \in 1..Len(r.name) : r.name[i] \in Word
      BY <2>1, <3>1, Words DEF ToSet
    <3> QED
      BY <3>1, <3>2
  <2> DEFINE n == Len(r.name)
  <2>3. [1..n -> Word] \subseteq Seq(Word)
    <3>1. Seq(Word) = UNION {[1..m -> Word] : m \in Nat}
      BY SeqDef, Zenon
    <3> QED
      BY <2>2, <3>1, Zenon
  <2> QED
    BY <2>2, <2>3
<1>3. r.ua \in Seq(Word) /\ r.ua # << >>
  BY <1>1, Words DEF Buildable, check, IsUnified
<1>4. \A code : IsCode(code) => code \in Seq(Word)
  BY <1>1, Words DEF IsCode
<1>5. r.kind \in {"claim", "update"} => TermField(r.term) \in Seq(Word)
  BY TermFieldIs DEF Buildable
<1>6. r.kind = "otp" => <<r.action>> \in Seq(Word)
  BY <1>1, Words DEF Request
<1>7. \A k \in {"ZNS", "claim", "update", "release", "otp"} : <<k>> \in Seq(Word)
  BY <1>1, Words
<1>8. ASSUME NEW a \in Seq(Word), NEW b \in Seq(Word), NEW c \in Seq(Word), NEW d \in Seq(Word),
             NEW e \in Seq(Word), NEW f \in Seq(Word)
      PROVE  /\ <<a, b, c, d>> \in Pieces(Word) /\ <<a, b, c, d, e>> \in Pieces(Word)
             /\ <<a, b, c, d, e, f>> \in Pieces(Word)
  BY DEF Pieces
<1>9. Parts(r) \in Pieces(Word)
  <2>1. CASE r.kind = "claim" /\ r.code = None
    <3>1. TermField(r.term) \in Seq(Word) /\ <<"ZNS">> \in Seq(Word) /\ <<"claim">> \in Seq(Word)
      BY <1>5, <1>7, <2>1
    <3>2. << <<"ZNS">>, <<"claim">>, TermField(r.term), r.name, r.ua >> \in Pieces(Word)
      BY <1>2, <1>3, <1>8, <3>1, Zenon
    <3> QED
      BY <2>1, <3>2, PartsAre, Zenon
  <2>2. CASE r.kind = "claim" /\ r.code # None
    <3>1. r.code \in Seq(Word)
      BY <1>4, <2>2 DEF Buildable
    <3>2. TermField(r.term) \in Seq(Word) /\ <<"ZNS">> \in Seq(Word) /\ <<"claim">> \in Seq(Word)
      BY <1>5, <1>7, <2>2
    <3>3. << <<"ZNS">>, <<"claim">>, r.code, TermField(r.term), r.name, r.ua >> \in Pieces(Word)
      BY <1>2, <1>3, <1>8, <3>1, <3>2, Zenon
    <3> QED
      BY <2>2, <3>3, PartsAre, Zenon
  <2>3. CASE r.kind = "update"
    <3>1. TermField(r.term) \in Seq(Word) /\ <<"ZNS">> \in Seq(Word) /\ <<"update">> \in Seq(Word)
      BY <1>5, <1>7, <2>3
    <3>2. << <<"ZNS">>, <<"update">>, TermField(r.term), r.name, r.ua >> \in Pieces(Word)
      BY <1>2, <1>3, <1>8, <3>1, Zenon
    <3> QED
      BY <2>3, <3>2, PartsAre, Zenon
  <2>4. CASE r.kind = "release"
    <3>1. <<"ZNS">> \in Seq(Word) /\ <<"release">> \in Seq(Word)
      BY <1>7
    <3>2. << <<"ZNS">>, <<"release">>, r.name, r.ua >> \in Pieces(Word)
      BY <1>2, <1>3, <1>8, <3>1, Zenon
    <3> QED
      BY <2>4, <3>2, PartsAre, Zenon
  <2>5. CASE r.kind = "otp"
    <3>1. r.code \in Seq(Word)
      BY <1>4, <2>5 DEF Buildable
    <3>2. <<r.action>> \in Seq(Word) /\ <<"ZNS">> \in Seq(Word) /\ <<"otp">> \in Seq(Word)
      BY <1>6, <1>7, <2>5
    <3>3. << <<"ZNS">>, <<"otp">>, r.code, r.name, <<r.action>>, r.ua >> \in Pieces(Word)
      BY <1>2, <1>3, <1>8, <3>1, <3>2, Zenon
    <3> QED
      BY <2>5, <3>3, PartsAre, Zenon
  <2> QED
    BY <2>1, <2>2, <2>3, <2>4, <2>5, PartsAre
<1> QED
  BY <1>2, <1>3, <1>9

\* Requests with the same fields are one.
LEMMA RequestIsItsFields ==
  ASSUME NEW r \in Request, NEW q \in Request,
         r.kind = q.kind, r.name = q.name, r.ua = q.ua, r.term = q.term, r.code = q.code,
         r.action = q.action
  PROVE  r = q
<1> DEFINE K == {"claim", "update", "release", "otp"}
           T == Nat \cup {Forever, None}
           C == Text \cup {None}
           A == {None, "update", "release"}
           R == [kind : K, name : Text, ua : Text, term : T, code : C, action : A]
<1>1. ASSUME NEW p \in Request PROVE p \in R
  <2> HIDE DEF Text
  <2> QED
    BY DEF Request
<1>2. r \in R /\ q \in R
  BY <1>1
<1> HIDE DEF K, T, C, A
<1> QED
  BY <1>2

\* The fields that a kind does not use are empty.
LEMMA UnusedFields ==
  ASSUME NEW r \in Request
  PROVE  /\ r.kind \in {"claim", "update", "release"} => r.action = None
         /\ r.kind \in {"update", "release"} => r.code = None
         /\ r.kind \in {"release", "otp"} => r.term = None
BY DEF Request

\* The parts are those of one request.
LEMMA PartsOfOne ==
  ASSUME NEW r \in Request, NEW q \in Request, Buildable(r), Buildable(q), Parts(r) = Parts(q)
  PROVE  r = q
<1>1. /\ r.kind \in {"claim", "update", "release", "otp"}
      /\ q.kind \in {"claim", "update", "release", "otp"}
  BY PartsAre
<1>2. ASSUME NEW p \in Request PROVE Parts(p)[2] = <<p.kind>>
  BY PartsAre
<1>3. r.kind = q.kind
  <2>1. <<r.kind>> = <<q.kind>>
    BY <1>2, Zenon
  <2> QED
    BY <2>1
<1>4. CASE r.kind = "claim"
  <2>1. /\ r.code = None => Parts(r) = << <<"ZNS">>, <<"claim">>, TermField(r.term), r.name, r.ua >>
        /\ r.code # None => Parts(r) = << <<"ZNS">>, <<"claim">>, r.code, TermField(r.term), r.name, r.ua >>
        /\ q.code = None => Parts(q) = << <<"ZNS">>, <<"claim">>, TermField(q.term), q.name, q.ua >>
        /\ q.code # None => Parts(q) = << <<"ZNS">>, <<"claim">>, q.code, TermField(q.term), q.name, q.ua >>
    BY <1>3, <1>4, PartsAre
  <2>2. r.code = None <=> q.code = None
    BY <2>1
  <2>3. r.code = q.code /\ TermField(r.term) = TermField(q.term) /\ r.name = q.name /\ r.ua = q.ua
    BY <2>1, <2>2
  <2>4. r.term = q.term
    BY <1>3, <1>4, <2>3, TermFieldIs DEF Buildable
  <2>5. r.action = q.action
    BY <1>3, <1>4, UnusedFields
  <2> QED
    BY <1>3, <2>3, <2>4, <2>5, RequestIsItsFields
<1>5. CASE r.kind = "update"
  <2>1. TermField(r.term) = TermField(q.term) /\ r.name = q.name /\ r.ua = q.ua
    BY <1>3, <1>5, PartsAre
  <2>2. r.term = q.term
    BY <1>3, <1>5, <2>1, TermFieldIs DEF Buildable
  <2> QED
    BY <1>3, <1>5, <2>1, <2>2, UnusedFields, RequestIsItsFields
<1>6. CASE r.kind = "release"
  <2>1. r.name = q.name /\ r.ua = q.ua
    BY <1>3, <1>6, PartsAre
  <2> QED
    BY <1>3, <1>6, <2>1, UnusedFields, RequestIsItsFields
<1>7. CASE r.kind = "otp"
  <2>1. r.code = q.code /\ r.name = q.name /\ r.ua = q.ua /\ r.action = q.action
    BY <1>3, <1>7, PartsAre
  <2> QED
    BY <1>3, <1>7, <2>1, UnusedFields, RequestIsItsFields
<1> QED
  BY <1>1, <1>4, <1>5, <1>6, <1>7

\* A memo is a text of words and colons, and its parts are between the colons.
LEMMA MemoIs ==
  ASSUME NEW r \in Request, Buildable(r)
  PROVE  /\ Memo(r) \in Seq(Word \cup {":"}) /\ Memo(r) \in Seq(Plain)
         /\ Split(Memo(r), ":") = Parts(r)
         /\ TrimEnd(Memo(r), "NUL") = Memo(r)
         /\ Memo(r) # << >>
<1> DEFINE A == Word \cup {":"}
<1>1. Parts(r) \in Pieces(A \ {":"}) /\ ":" \in A
  <2>1. A \ {":"} = Word
    BY Words
  <2> QED
    BY <2>1, PartsAreWords
<1>2. Memo(r) \in Seq(A) /\ Split(Memo(r), ":") = Parts(r)
  <2> HIDE DEF A
  <2> QED
    BY <1>1, SplitJoined DEF Memo
<1>3. A \subseteq Plain /\ "NUL" \notin A
  BY Words
<1>4. Memo(r) \in Seq(Plain)
  <2> HIDE DEF A
  <2> QED
    BY <1>2, <1>3, SeqMonotonic
<1>5. TrimEnd(Memo(r), "NUL") = Memo(r)
  <2>1. Memo(r) # << >> => Memo(r)[Len(Memo(r))] \in A
    <3> HIDE DEF A
    <3> QED
      BY <1>2, EmptySeq, ElementOfSeq
  <2> HIDE DEF A
  <2> QED
    BY <1>2, <1>3, <2>1, TrimEndIs
<1>6. Memo(r) # << >>
  <2>1. Split(<< >>, ":") = << << >> >>
    BY SplitAppend, EmptySeq
  <2>2. Parts(r)[1] = <<"ZNS">>
    BY PartsAre
  <2>3. << >> # <<"ZNS">> /\ << << >> >>[1] = << >>
    OBVIOUS
  <2> QED
    BY <1>2, <2>1, <2>2, <2>3, Zenon
<1> QED
  BY <1>2, <1>4, <1>5, <1>6

\* Only a challenge is read as a challenge, and as the one it is.
LEMMA MemoReads ==
  ASSUME NEW r \in Request, Buildable(r)
  PROVE  parse_otp_memo(Memo(r)) = IF r.kind = "otp" THEN r ELSE None
<1> DEFINE part == Parts(r)
<1>1. Split(TrimEnd(Memo(r), "NUL"), ":") = part
  BY MemoIs, Zenon
<1>2. parse_otp_memo(Memo(r)) =
        IF /\ HasOtpParts(part) /\ IsCode(part[3]) /\ check(part[4], part[6])
           /\ part[5] \in {<<"update">>, <<"release">>}
        THEN [kind |-> "otp", code |-> part[3], name |-> part[4], action |-> part[5][1],
              ua |-> part[6], term |-> None]
        ELSE None
  <2> HIDE DEF part
  <2> QED
    BY <1>1 DEF parse_otp_memo
<1>3. CASE r.kind = "otp"
  <2>1. part = << <<"ZNS">>, <<"otp">>, r.code, r.name, <<r.action>>, r.ua >>
    BY <1>3, PartsAre
  <2>2. /\ Len(part) = 6 /\ part[1] = <<"ZNS">> /\ part[2] = <<"otp">> /\ part[3] = r.code
        /\ part[4] = r.name /\ part[5] = <<r.action>> /\ part[5][1] = r.action /\ part[6] = r.ua
    BY <2>1
  <2>3. IsCode(r.code) /\ check(r.name, r.ua)
    BY <1>3 DEF Buildable
  <2>4. r.action \in {"update", "release"} /\ r.term = None
    BY <1>3 DEF Request
  <2> DEFINE q == [kind |-> "otp", code |-> r.code, name |-> r.name, action |-> r.action,
                   ua |-> r.ua, term |-> None]
  <2>5. parse_otp_memo(Memo(r)) = q
    <3>1. part[5] \in {<<"update">>, <<"release">>}
      BY <2>2, <2>4
    <3> HIDE DEF part
    <3> QED
      BY <1>2, <2>2, <2>3, <3>1 DEF HasOtpParts
  <2>6. q \in Request
    <3>1. r.code \in Text /\ r.name \in Text /\ r.ua \in Text
      <4> HIDE DEF Text
      <4> QED
        BY <1>3 DEF Request
    <3> HIDE DEF Text
    <3> QED
      BY <2>4, <3>1 DEF Request
  <2>7. q = r
    BY <1>3, <2>4, <2>6, RequestIsItsFields
  <2> QED
    BY <1>3, <2>5, <2>7
<1>4. CASE r.kind # "otp"
  <2>1. part[2] = <<r.kind>>
    BY PartsAre
  <2>2. part[2] # <<"otp">>
    BY <1>4, <2>1
  <2> HIDE DEF part
  <2> QED
    BY <1>2, <1>4, <2>2 DEF HasOtpParts
<1> QED
  BY <1>3, <1>4

\* What is read in a challenge and built again is the challenge.
LEMMA ChallengeReads ==
  ASSUME NEW t \in Text, parse_otp_memo(t) # None
  PROVE  Memo(parse_otp_memo(t)) = TrimEnd(t, "NUL")
<1> DEFINE u == TrimEnd(t, "NUL")
           part == Split(u, ":")
           q == [kind |-> "otp", code |-> part[3], name |-> part[4], action |-> part[5][1],
                 ua |-> part[6], term |-> None]
<1>1. u \in Seq(Plain)
  BY TrimEndIs DEF Text
<1>2. Joined(part, ":") = u /\ part \in Seq(Seq(Plain \ {":"}))
  <2>1. ":" \in Plain
    BY Words
  <2> HIDE DEF u
  <2> QED
    BY <1>1, <2>1, JoinedSplit DEF Pieces
<1>3. /\ HasOtpParts(part) /\ part[5] \in {<<"update">>, <<"release">>}
      /\ parse_otp_memo(t) = q
  BY Zenon DEF parse_otp_memo
<1>4. Parts(q) = << <<"ZNS">>, <<"otp">>, part[3], part[4], <<part[5][1]>>, part[6] >>
  <2> HIDE DEF part
  <2> QED
    BY DEF Parts
<1>5. <<part[5][1]>> = part[5]
  <2> HIDE DEF part
  <2> QED
    BY <1>3
<1>6. part = << part[1], part[2], part[3], part[4], part[5], part[6] >>
  <2>1. Len(part) = 6
    BY <1>3 DEF HasOtpParts
  <2> HIDE DEF part
  <2> QED
    BY <1>2, <2>1
<1>7. Parts(q) = part
  <2> HIDE DEF part
  <2> QED
    BY <1>3, <1>4, <1>5, <1>6, Zenon DEF HasOtpParts
<1> HIDE DEF part, q
<1> QED
  BY <1>2, <1>3, <1>7 DEF Memo

-----------------------------------------------------------------------------
(* Where a text is split.                                                  *)

\* The order in which three texts are put together does not matter.
LEMMA Assoc ==
  ASSUME NEW A, NEW a \in Seq(A), NEW b \in Seq(A), NEW c \in Seq(A)
  PROVE  (a \o b) \o c = a \o (b \o c)
BY ConcatAssociative

LEMMA AppendLater ==
  ASSUME NEW A, NEW a \in Seq(A), NEW b \in Seq(A), NEW s \in A
  PROVE  a \o Append(b, s) = Append(a \o b, s)
<1>1. <<s>> \in Seq(A)
  OBVIOUS
<1>2. (a \o b) \o <<s>> = a \o (b \o <<s>>)
  BY <1>1, Assoc
<1>3. a \o b \in Seq(A)
  BY ConcatProperties
<1>4. Append(a \o b, s) = (a \o b) \o <<s>> /\ Append(b, s) = b \o <<s>>
  BY <1>3, AppendIsConcat
<1> QED
  BY <1>2, <1>4

\* The same, said of an operator that the provers do not take apart.
Then(a, b) == a \o b

LEMMA ThenAssoc ==
  ASSUME NEW A, NEW a \in Seq(A), NEW b \in Seq(A), NEW c \in Seq(A)
  PROVE  Then(Then(a, b), c) = Then(a, Then(b, c))
BY Assoc DEF Then

\* Two texts with a delimiter between them.
Around(a, d, b) == (a \o <<d>>) \o b

\* A first part is followed by a delimiter.
LEMMA JoinedFirst ==
  ASSUME NEW A, NEW d \in A, NEW a \in Seq(A), NEW p \in Pieces(A)
  PROVE  Joined(<<a>> \o p, d) = (a \o <<d>>) \o Joined(p, d)
<1> DEFINE T == Seq(A)
           G == {q \in Seq(T) : q # << >> =>
                   /\ <<a>> \o q \in Pieces(A)
                   /\ Joined(<<a>> \o q, d) = (a \o <<d>>) \o Joined(q, d)}
<1>1. <<d>> \in T /\ a \o <<d>> \in T /\ <<a>> \in Seq(T)
  <2>1. <<d>> \in T /\ <<a>> \in Seq(T)
    OBVIOUS
  <2> QED
    BY <2>1, ConcatProperties
<1>2. << >> \in G
  BY EmptySeq
<1>3. ASSUME NEW q \in Seq(T), NEW x \in T, q \in G PROVE Append(q, x) \in G
  <2>1. Append(q, x) \in Seq(T) /\ <<a>> \o Append(q, x) = Append(<<a>> \o q, x)
    <3>1. Append(q, x) \in Seq(T) /\ <<x>> \in Seq(T) /\ Append(q, x) = q \o <<x>>
      <4>1. <<x>> \in Seq(T)
        OBVIOUS
      <4> HIDE DEF T
      <4> QED
        BY <4>1, AppendProperties, AppendIsConcat
    <3>2. <<a>> \o q \in Seq(T)
      BY <1>1, ConcatProperties
    <3>3. Append(<<a>> \o q, x) = (<<a>> \o q) \o <<x>>
      BY <3>2, AppendIsConcat
    <3>4. (<<a>> \o q) \o <<x>> = <<a>> \o (q \o <<x>>)
      BY <1>1, <3>1, ConcatAssociative
    <3> QED
      BY <3>1, <3>3, <3>4, Zenon
  <2>2. CASE q = << >>
    <3>1. <<a>> \in Pieces(A) /\ <<a>> \o q = <<a>> /\ Append(q, x) = <<x>>
      <4>1. <<a>> \o << >> = <<a>>
        BY <1>1, ConcatEmptySeq
      <4> QED
        BY <1>1, <2>2, <4>1 DEF Pieces
    <3>2. Append(<<a>>, x) \in Pieces(A)
      <4>1. Append(<<a>>, x) \in Seq(T) /\ Append(<<a>>, x) # << >>
        <5> HIDE DEF T
        <5> QED
          BY <1>1, AppendProperties
      <4> QED
        BY <4>1 DEF Pieces
    <3>3. Joined(Append(<<a>>, x), d) = Joined(<<a>>, d) \o (<<d>> \o x)
      BY <3>1, JoinedLonger
    <3>4. Joined(<<a>>, d) = a /\ Joined(<<x>>, d) = x
      BY <3>1, JoinedAppend
    <3>5. (a \o <<d>>) \o x = a \o (<<d>> \o x)
      BY <1>1, ConcatAssociative
    <3> QED
      BY <2>1, <3>1, <3>2, <3>3, <3>4, <3>5, Zenon
  <2>3. CASE q # << >>
    <3>1. /\ q \in Pieces(A) /\ <<a>> \o q \in Pieces(A)
          /\ Joined(<<a>> \o q, d) = (a \o <<d>>) \o Joined(q, d)
      <4> HIDE DEF T
      <4> QED
        BY <1>3, <2>3 DEF Pieces, T
    <3>2. Joined(Append(q, x), d) = Joined(q, d) \o (<<d>> \o x)
      BY <3>1, JoinedLonger, ZenonT(40)
    <3>3. Joined(Append(<<a>> \o q, x), d) = Joined(<<a>> \o q, d) \o (<<d>> \o x)
      <4> DEFINE r == <<a>> \o q
      <4>1. r \in Pieces(A)
        BY <3>1
      <4> HIDE DEF r
      <4>2. Joined(Append(r, x), d) = Joined(r, d) \o (<<d>> \o x)
        BY <4>1, JoinedLonger
      <4> QED
        BY <4>2 DEF r
    <3>4. Joined(q, d) \in T /\ <<d>> \o x \in T
      BY <1>1, <3>1, JoinedAppend, ConcatProperties, Zenon
    <3>5. ((a \o <<d>>) \o Joined(q, d)) \o (<<d>> \o x) =
          (a \o <<d>>) \o (Joined(q, d) \o (<<d>> \o x))
      <4> DEFINE v == a \o <<d>>
                 j == Joined(q, d)
                 w == <<d>> \o x
      <4>1. v \in T
        BY <1>1
      <4>2. j \in T
        BY <3>4
      <4>3. w \in T
        BY <3>4
      <4> HIDE DEF v, j, w
      <4>4. (v \o j) \o w = v \o (j \o w)
        BY <4>1, <4>2, <4>3, Assoc, SMTT(20)
      <4> QED
        BY <4>4 DEF v, j, w
    <3>6. Append(<<a>> \o q, x) \in Pieces(A)
      <4> DEFINE r == <<a>> \o q
      <4>1. r \in Seq(T)
        BY <3>1 DEF Pieces
      <4>2. Append(r, x) \in Seq(T) /\ Append(r, x) # << >>
        <5> HIDE DEF T, r
        <5> QED
          BY <4>1, AppendProperties
      <4> QED
        BY <4>2 DEF Pieces
    <3> QED
      BY <2>1, <3>1, <3>2, <3>3, <3>5, <3>6, Zenon
  <2> QED
    BY <2>2, <2>3
<1>4. Seq(T) \subseteq G
  <2> HIDE DEF G, T
  <2> QED
    BY <1>2, <1>3, SeqInduction
<1> QED
  BY <1>4 DEF Pieces

\* A text that begins with a part and a delimiter.
LEMMA SplitFirst ==
  ASSUME NEW A, NEW d \in A, NEW a \in Seq(A \ {d}), NEW b \in Seq(A)
  PROVE  /\ Split(Around(a, d, b), d) = <<a>> \o Split(b, d)
         /\ SplitOnce(Around(a, d, b), d) = <<a, b>>
<1> USE DEF Around
<1> DEFINE B == A \ {d}
           p == Split(b, d)
           t == (a \o <<d>>) \o b
<1>1. p \in Pieces(B) /\ Joined(p, d) = b /\ p \in Pieces(A)
  BY JoinedSplit, PiecesLarger, Zenon
<1>2. a \in Seq(A) /\ Seq(B) \subseteq Seq(A) /\ <<d>> \in Seq(A)
  <2>1. <<d>> \in Seq(A)
    OBVIOUS
  <2> QED
    BY <2>1, SeqMonotonic
<1>3. <<a>> \o p \in Pieces(B) /\ (<<a>> \o p)[1] = a
  <2>1. <<a>> \in Seq(Seq(B)) /\ p \in Seq(Seq(B)) /\ Len(<<a>>) = 1
    BY <1>1 DEF Pieces
  <2> DEFINE v == <<a>>
             T == Seq(B)
  <2>2. v \in Seq(T) /\ p \in Seq(T) /\ Len(v) = 1 /\ Len(p) \in Nat
    BY <2>1, LenProperties
  <2> HIDE DEF v, T, p
  <2>3. v \o p \in Seq(T) /\ Len(v \o p) = 1 + Len(p) /\ (v \o p)[1] = v[1]
    <3>1. /\ v \o p \in Seq(T) /\ Len(v \o p) = Len(v) + Len(p)
          /\ \A i \in 1..Len(v) + Len(p) : (v \o p)[i] = IF i <= Len(v) THEN v[i] ELSE p[i - Len(v)]
      BY <2>2, ConcatProperties
    <3>2. 1 \in 1..Len(v) + Len(p) /\ 1 <= Len(v)
      BY <2>2
    <3>3. (v \o p)[1] = v[1]
      BY <3>1, <3>2, Zenon
    <3> QED
      BY <2>2, <3>1, <3>3
  <2>4. v \o p # << >>
    BY <2>2, <2>3
  <2> QED
    BY <2>3, <2>4 DEF Pieces, v, T
<1>4. Joined(<<a>> \o p, d) = t
  <2> HIDE DEF p
  <2> QED
    BY <1>1, <1>2, JoinedFirst, Zenon
<1>5. Split(t, d) = <<a>> \o p
  <2> DEFINE r == <<a>> \o p
  <2>1. r \in Pieces(B) /\ Joined(r, d) = t
    BY <1>3, <1>4
  <2> HIDE DEF r
  <2>2. Split(Joined(r, d), d) = r
    BY <2>1, SplitJoined
  <2> QED
    BY <2>1, <2>2 DEF r
<1>6. SplitOnce(t, d) = <<a, SubSeq(t, Len(a) + 2, Len(t))>>
  <2>1. Split(t, d)[1] = a
    BY <1>3, <1>5
  <2> HIDE DEF t
  <2> QED
    BY <2>1 DEF SplitOnce
<1>7. SubSeq(t, Len(a) + 2, Len(t)) = b
  <2> DEFINE s == a \o <<d>>
             n == Len(b)
  <2>1. s \in Seq(A) /\ Len(s) = Len(a) + 1 /\ Len(a) \in Nat /\ n \in Nat
    BY <1>2, ConcatProperties, LenProperties
  <2> HIDE DEF s
  <2>2. Len(s \o b) = Len(a) + 1 + n
    BY <2>1, ConcatProperties, ZenonT(40)
  <2>3. CASE b = << >>
    <3>1. n = 0
      BY <2>3
    <3>2. Len(a) + 2 \in Int /\ Len(s \o b) \in Int /\ Len(s \o b) < Len(a) + 2
      BY <2>1, <2>2, <3>1
    <3>3. SubSeq(s \o b, Len(a) + 2, Len(s \o b)) = << >>
      <4> DEFINE u == s \o b
      <4>1. Len(a) + 2 \in Int /\ Len(u) \in Int /\ Len(u) < Len(a) + 2
        BY <3>2
      <4> HIDE DEF u
      <4>2. SubSeq(u, Len(a) + 2, Len(u)) = << >>
        BY <4>1, SubSeqEmpty
      <4> QED
        BY <4>2 DEF u
    <3> QED
      BY <2>3, <3>3 DEF s
  <2>4. CASE b # << >>
    <3>1. n \in Nat \ {0}
      BY <2>4, EmptySeq
    <3>2. Len(a) + 2 \in Len(s) + 1 .. Len(s) + n /\ Len(s) + n \in Len(s) + 1 .. Len(s) + n
      <4> HIDE DEF n
      <4> QED
        BY <2>1, <3>1
    <3>3. SubSeq(s \o b, Len(a) + 2, Len(s) + n) = SubSeq(b, Len(a) + 2 - Len(s), Len(s) + n - Len(s))
      BY <2>1, <3>2, SubSeqOfConcat2
    <3>4. Len(a) + 2 - Len(s) = 1 /\ Len(s) + n - Len(s) = n /\ Len(s \o b) = Len(s) + n
      <4> HIDE DEF n
      <4> QED
        BY <2>1, <2>2
    <3>5. SubSeq(b, 1, n) = b
      BY SubSeqFull
    <3> QED
      BY <3>3, <3>4, <3>5, Zenon DEF s
  <2> QED
    BY <2>3, <2>4
<1> QED
  BY <1>5, <1>6, <1>7

\* A text without a delimiter.
LEMMA SplitNone ==
  ASSUME NEW A, NEW d \in A, NEW t \in Seq(A \ {d})
  PROVE  Split(t, d) = <<t>> /\ SplitOnce(t, d) = <<t, << >> >>
<1>1. <<t>> \in Pieces(A \ {d})
  BY DEF Pieces
<1>2. t \in Seq(A) /\ <<t>> \in Pieces(A)
  BY <1>1, PiecesLarger, SeqMonotonic
<1>3. Joined(<<t>>, d) = t
  BY <1>2, JoinedAppend
<1>4. Split(t, d) = <<t>>
  BY <1>1, <1>3, SplitJoined, Zenon
<1>5. SubSeq(t, Len(t) + 2, Len(t)) = << >>
  <2>1. Len(t) + 2 \in Int /\ Len(t) \in Int /\ Len(t) < Len(t) + 2
    OBVIOUS
  <2> QED
    BY <2>1, SubSeqEmpty
<1> QED
  BY <1>4, <1>5 DEF SplitOnce

\* A text has no delimiter, or a first one.
LEMMA FirstDelimiter ==
  ASSUME NEW A, NEW d \in A, NEW t \in Seq(A), ~(t \in Seq(A \ {d}))
  PROVE  \E a \in Seq(A \ {d}), b \in Seq(A) : t = Around(a, d, b)
<1> USE DEF Around
<1> DEFINE B == A \ {d}
           G == {u \in Seq(A) : u \in Seq(B) \/ \E a \in Seq(B), b \in Seq(A) : u = (a \o <<d>>) \o b}
<1>1. << >> \in G
  BY EmptySeq
<1>2. ASSUME NEW u \in Seq(A), NEW s \in A, u \in G PROVE Append(u, s) \in G
  <2>1. Append(u, s) \in Seq(A)
    BY AppendProperties
  <2>2. CASE u \in Seq(B) /\ s \in B
    <3>1. Append(u, s) \in Seq(B)
      <4> HIDE DEF B
      <4> QED
        BY <2>2, AppendProperties
    <3> QED
      BY <2>1, <3>1
  <2>3. CASE u \in Seq(B) /\ s \notin B
    <3>1. s = d /\ << >> \in Seq(A)
      BY <2>3, EmptySeq
    <3>2. u \o <<d>> \in Seq(A) /\ Append(u, s) = u \o <<d>>
      BY <2>1, <3>1, AppendIsConcat
    <3>3. Append(u, s) = (u \o <<d>>) \o << >>
      BY <3>2, ConcatEmptySeq
    <3> QED
      BY <2>1, <2>3, <3>1, <3>3, Zenon
  <2>4. CASE \E a \in Seq(B), b \in Seq(A) : u = (a \o <<d>>) \o b
    <3>1. PICK a \in Seq(B), b \in Seq(A) : u = (a \o <<d>>) \o b
      BY <2>4
    <3>2. a \in Seq(A) /\ <<d>> \in Seq(A) /\ <<s>> \in Seq(A)
      <4>1. <<d>> \in Seq(A) /\ <<s>> \in Seq(A)
        OBVIOUS
      <4> QED
        BY <4>1, SeqMonotonic
    <3>3. a \o <<d>> \in Seq(A)
      BY <3>2, ConcatProperties
    <3>4. Append(u, s) = (a \o <<d>>) \o (b \o <<s>>) /\ b \o <<s>> \in Seq(A)
      <4>1. Append(u, s) = u \o <<s>>
        BY AppendIsConcat
      <4>2. Then(Then(a \o <<d>>, b), <<s>>) = Then(a \o <<d>>, Then(b, <<s>>))
        <5> DEFINE v == a \o <<d>>
                   w == <<s>>
        <5>1. v \in Seq(A) /\ w \in Seq(A) /\ b \in Seq(A)
          BY <3>2, <3>3
        <5> HIDE DEF v, w
        <5>2. Then(Then(v, b), w) = Then(v, Then(b, w))
          BY <5>1, ThenAssoc
        <5> QED
          BY <5>2 DEF v, w
      <4>3. b \o <<s>> \in Seq(A)
        BY <3>2, ConcatProperties
      <4> QED
        BY <3>1, <4>1, <4>2, <4>3, Zenon DEF Then
    <3> QED
      BY <2>1, <3>4, Zenon
  <2> QED
    BY <1>2, <2>2, <2>3, <2>4
<1>3. Seq(A) \subseteq G
  <2> HIDE DEF G
  <2> QED
    BY <1>1, <1>2, SeqInduction
<1> QED
  BY <1>3

\* A text that ends with a delimiter and a part.
LEMMA SplitLast ==
  ASSUME NEW A, NEW d \in A, NEW t \in Seq(A), NEW b \in Seq(A \ {d})
  PROVE  Split(Around(t, d, b), d) = Append(Split(t, d), b)
<1> USE DEF Around
<1> DEFINE B == A \ {d}
           p == Split(t, d)
           r == Append(p, b)
<1>1. p \in Pieces(B) /\ Joined(p, d) = t /\ p \in Pieces(A)
  BY JoinedSplit, PiecesLarger, Zenon
<1>2. b \in Seq(A) /\ <<d>> \in Seq(A)
  <2>1. <<d>> \in Seq(A)
    OBVIOUS
  <2> QED
    BY <2>1, SeqMonotonic
<1>3. r \in Pieces(B)
  <2>1. p \in Seq(Seq(B)) /\ b \in Seq(B)
    BY <1>1 DEF Pieces
  <2> DEFINE T == Seq(B)
  <2>2. Append(p, b) \in Seq(T) /\ Append(p, b) # << >>
    <3> HIDE DEF T, p
    <3> QED
      BY <2>1, AppendProperties DEF T
  <2> QED
    BY <2>2 DEF Pieces
<1>4. Joined(r, d) = t \o (<<d>> \o b)
  <2> HIDE DEF p
  <2> QED
    BY <1>1, <1>2, JoinedLonger, Zenon
<1>5. t \o (<<d>> \o b) = (t \o <<d>>) \o b
  BY <1>2, ConcatAssociative
<1>6. Split(Joined(r, d), d) = r
  <2> HIDE DEF r
  <2> QED
    BY <1>3, SplitJoined
<1> QED
  BY <1>4, <1>5, <1>6, Zenon

-----------------------------------------------------------------------------
(* Digits and numbers.                                                     *)

Digits == ToSet(Digit)

LEMMA DigitIs ==
  /\ Digits \subseteq Plain \ Delimiter /\ "0" \in Digits /\ Value("0") = 0
  /\ Len(Digit) \in Nat
  /\ \A d \in Digits : Value(d) \in Nat /\ Value(d) < Len(Digit)
  /\ \A d, e \in Digits : Value(d) = Value(e) => d = e
  /\ MaxWhole \in Seq(Digits) /\ Len(MaxWhole) \in Nat /\ Len(MaxWhole) > 0 /\ MaxWhole[1] # "0"
<1>1. /\ Digit \in Seq(Lower) /\ Len(Digit) > 0 /\ Digit[1] = "0"
      /\ \A i, j \in DOMAIN Digit : i # j => Digit[i] # Digit[j]
      /\ MaxWhole \in Seq(Digits) /\ Len(MaxWhole) > 0 /\ MaxWhole[1] # "0"
  BY NumeralAssumption DEF NumeralAssumption, Digits
<1>2. /\ DOMAIN Digit = 1..Len(Digit) /\ Len(Digit) \in Nat /\ Len(MaxWhole) \in Nat
      /\ \A i \in DOMAIN Digit : Digit[i] \in Lower
  BY <1>1, LenProperties
<1>3. Digits = {Digit[i] : i \in DOMAIN Digit}
  BY DEF Digits, ToSet
<1>4. Digits \subseteq Plain \ Delimiter
  BY <1>2, <1>3, Words
<1>5. ASSUME NEW d \in Digits
      PROVE  \E i \in 1..Len(Digit) : Digit[i] = d /\ Value(d) = i - 1
  <2>1. PICK k \in DOMAIN Digit : Digit[k] = d
    BY <1>3
  <2> DEFINE v == CHOOSE i \in DOMAIN Digit : Digit[i] = d
  <2>2. v \in DOMAIN Digit /\ Digit[v] = d
    BY <2>1
  <2>3. Value(d) = v - 1
    BY DEF Value
  <2> QED
    BY <1>2, <2>2, <2>3
<1>6. \A d \in Digits : Value(d) \in Nat /\ Value(d) < Len(Digit)
  BY <1>2, <1>5
<1>7. ASSUME NEW d \in Digits, NEW e \in Digits, Value(d) = Value(e) PROVE d = e
  <2>1. PICK i \in 1..Len(Digit) : Digit[i] = d /\ Value(d) = i - 1
    BY <1>5
  <2>2. PICK j \in 1..Len(Digit) : Digit[j] = e /\ Value(e) = j - 1
    BY <1>5
  <2>3. i - 1 = j - 1
    BY <1>7, <2>1, <2>2, Zenon
  <2>4. i = j
    BY <2>1, <2>2, <2>3
  <2> QED
    BY <2>1, <2>2, <2>4
<1>8. "0" \in Digits /\ Value("0") = 0
  <2>1. 1 \in DOMAIN Digit /\ "0" \in Digits
    BY <1>1, <1>2, <1>3
  <2>2. PICK i \in 1..Len(Digit) : Digit[i] = "0" /\ Value("0") = i - 1
    BY <1>5, <2>1
  <2>3. i = 1
    BY <1>1, <1>2, <2>1, <2>2
  <2> QED
    BY <2>1, <2>2, <2>3
<1> QED
  BY <1>1, <1>2, <1>4, <1>6, <1>7, <1>8

\* A number that is less is less by one, times the base.
LEMMA TimesLess ==
  ASSUME NEW b \in Nat, NEW x \in Nat, NEW y \in Nat, x < y
  PROVE  b * x + b <= b * y
<1>1. PICK k \in Nat : y = x + 1 + k
  <2>1. y - x - 1 \in Nat /\ y = x + 1 + (y - x - 1)
    OBVIOUS
  <2> QED
    BY <2>1
<1>2. b * y = b * x + b + b * k
  BY <1>1
<1>3. b * k \in Nat /\ b * x \in Nat
  OBVIOUS
<1> QED
  BY <1>2, <1>3

\* The number of a text grows with the text.
LEMMA NumberAppend ==
  ASSUME NEW t \in Seq(Digits), NEW s \in Digits
  PROVE  /\ Number(t) \in Nat /\ Number(<< >>) = 0
         /\ Number(Append(t, s)) = Len(Digit) * Number(t) + Value(s)
<1> DEFINE b == Len(Digit)
           Shift(x, d) == b * x + Value(d)
<1>1. b \in Nat /\ \A x \in Nat, d \in Digits : Shift(x, d) \in Nat
  BY DigitIs, SMTT(30)
<1>2. ASSUME NEW u \in Seq(Digits)
      PROVE  \E f \in [0..Len(u) -> Nat] :
               /\ f[0] = 0
               /\ \A i \in 1..Len(u) : f[i] = Shift(f[i - 1], u[i])
               /\ Number(u) = f[Len(u)]
  <2> DEFINE n == Len(u)
             G(f) == [i \in 0..n |-> IF i = 0 THEN 0 ELSE Shift(f[i - 1], u[i])]
             g == [i \in 1..n |-> [x \in Nat |-> Shift(x, u[i])]]
             upTo == CHOOSE f : f = G(f)
  <2>1. n \in Nat /\ \A i \in 1..n : u[i] \in Digits
    OBVIOUS
  <2>2. g \in [1..n -> [Nat -> Nat]]
    <3> HIDE DEF Shift
    <3> QED
      BY <1>1, <2>1
  <2>3. PICK f \in [0..n -> Nat] : Iterates(f, 0, g, n)
    <3>1. 0 \in Nat
      OBVIOUS
    <3> HIDE DEF g, n
    <3> QED
      BY <2>1, <2>2, <3>1, IterationExists
  <2>4. f[0] = 0 /\ \A i \in 1..n : f[i] = Shift(f[i - 1], u[i])
    <3>1. ASSUME NEW i \in 1..n PROVE f[i] = Shift(f[i - 1], u[i])
      <4>1. i - 1 \in 0..n
        BY <2>1
      <4>2. f[i - 1] \in Nat
        BY <4>1
      <4> HIDE DEF n, Shift
      <4> QED
        BY <2>3, <4>2 DEF Iterates
    <3>2. f[0] = 0
      BY <2>3 DEF Iterates
    <3> QED
      BY <3>1, <3>2
  <2>5. f = G(f)
    <3> HIDE DEF n, Shift
    <3>1. \A i \in 0..n : f[i] = IF i = 0 THEN 0 ELSE Shift(f[i - 1], u[i])
      BY <2>1, <2>4
    <3> QED
      BY <3>1
  <2>6. upTo = G(upTo)
    <3> HIDE DEF G
    <3> QED
      BY <2>5
  <2>7. upTo[0] = 0 /\ \A i \in 1..n : upTo[i] = Shift(upTo[i - 1], u[i])
    <3> HIDE DEF upTo, Shift
    <3> QED
      BY <2>1, <2>6
  <2>8. \A i \in 0..n : f[i] = upTo[i]
    <3>1. Together(f, upTo, n)
      <4> HIDE DEF upTo, n, Shift
      <4> QED
        BY <2>4, <2>7 DEF Together
    <3> HIDE DEF upTo, n
    <3> QED
      BY <2>1, <3>1, IterationUnique
  <2>9. Number(u) = upTo[n]
    BY DEF Number
  <2> HIDE DEF upTo, n, Shift
  <2>10. Number(u) = f[n]
    BY <2>1, <2>8, <2>9
  <2> QED
    BY <2>4, <2>10 DEF n
<1> DEFINE n == Len(t)
           u == Append(t, s)
<1>3. n \in Nat /\ u \in Seq(Digits) /\ Len(u) = n + 1 /\ u[n + 1] = s /\ \A i \in 1..n : u[i] = t[i]
  BY AppendProperties, LenProperties
<1> HIDE DEF Shift
<1>4. PICK f \in [0..n -> Nat] :
         f[0] = 0 /\ (\A i \in 1..n : f[i] = Shift(f[i - 1], t[i])) /\ Number(t) = f[n]
  BY <1>2
<1>5. PICK h \in [0..Len(u) -> Nat] :
         f[0] = h[0] /\ (\A i \in 1..Len(u) : h[i] = Shift(h[i - 1], u[i])) /\ Number(u) = h[Len(u)]
  <2> HIDE DEF u
  <2> QED
    BY <1>2, <1>3, <1>4
<1>6. \A i \in 0..n : f[i] = h[i]
  <2>1. \A i \in 1..n : h[i] = Shift(h[i - 1], t[i])
    <3> HIDE DEF u
    <3> QED
      BY <1>3, <1>5
  <2>2. Together(f, h, n)
    BY <1>4, <1>5, <2>1 DEF Together
  <2>3. n \in Nat
    BY <1>3
  <2> HIDE DEF n, u
  <2> QED
    BY <2>2, <2>3, IterationUnique
<1>7. Number(u) = Shift(Number(t), s)
  <2>1. Number(u) = Shift(h[n + 1 - 1], u[n + 1]) /\ n \in 0..n /\ n + 1 - 1 = n
    <3> HIDE DEF u, n
    <3> QED
      BY <1>3, <1>5
  <2>2. h[n] = Number(t)
    BY <1>4, <1>6, <2>1
  <2> HIDE DEF u, n
  <2> QED
    BY <1>3, <2>1, <2>2
<1>8. Number(t) \in Nat
  <2> HIDE DEF n
  <2> QED
    BY <1>3, <1>4
<1>9. Number(<< >>) = 0
  <2> DEFINE e == << >>
  <2>1. e \in Seq(Digits) /\ Len(e) = 0
    BY EmptySeq
  <2>2. PICK k \in [0..Len(e) -> Nat] : k[0] = 0 /\ Number(e) = k[Len(e)]
    <3> HIDE DEF e
    <3> QED
      BY <1>2, <2>1
  <2> QED
    BY <2>1, <2>2
<1> QED
  BY <1>7, <1>8, <1>9 DEF Shift

\* The first place at which texts of one length differ decides their order.
Below(s, t) ==
  \E i \in 1..Len(s) : (\A j \in 1..(i - 1) : s[j] = t[j]) /\ Value(s[i]) < Value(t[i])

LEMMA LessIs ==
  ASSUME NEW A, NEW s \in Seq(A), NEW t \in Seq(A), Len(s) = Len(t)
  PROVE  Less(s, t) <=> Below(s, t)
<1>1. Len(s) \in Nat /\ DOMAIN s = 1..Len(s) /\ DOMAIN t = 1..Len(s)
  BY LenProperties
<1>2. ASSUME NEW i \in 1..Len(s)
      PROVE  SubSeq(s, 1, i - 1) = SubSeq(t, 1, i - 1) <=> \A j \in 1..(i - 1) : s[j] = t[j]
  <2> DEFINE a == SubSeq(s, 1, i - 1)
             b == SubSeq(t, 1, i - 1)
             n == i - 1
  <2>1. n \in Nat /\ n <= Len(s)
    BY <1>1
  <2>2. /\ a \in Seq(A) /\ Len(a) = n /\ \A j \in 1..n : a[j] = s[j]
        /\ b \in Seq(A) /\ Len(b) = n /\ \A j \in 1..n : b[j] = t[j]
    <3>1. \A u \in Seq(A) : Len(u) = Len(s) =>
            /\ SubSeq(u, 1, n) \in Seq(A) /\ Len(SubSeq(u, 1, n)) = n
            /\ \A j \in 1..n : SubSeq(u, 1, n)[j] = u[j]
      <4> SUFFICES ASSUME NEW u \in Seq(A), Len(u) = Len(s)
                   PROVE  /\ SubSeq(u, 1, n) \in Seq(A) /\ Len(SubSeq(u, 1, n)) = n
                          /\ \A j \in 1..n : SubSeq(u, 1, n)[j] = u[j]
        OBVIOUS
      <4>1. \A j \in 1..n : u[j] \in A
        BY <2>1
      <4> HIDE DEF n
      <4>2. 1 \in Int /\ n \in Int /\ 1 <= n + 1
        BY <2>1
      <4> QED
        BY <2>1, <4>1, <4>2, SubSeqProperties
    <3> QED
      BY <3>1
  <2> HIDE DEF a, b, n
  <2>3. a = b <=> \A j \in 1..n : s[j] = t[j]
    <3>1. ASSUME \A j \in 1..n : s[j] = t[j] PROVE a = b
      <4>1. \A j \in 1..Len(a) : a[j] = b[j]
        BY <2>2, <3>1
      <4> QED
        BY <2>2, <4>1, SeqEqual
    <3> QED
      BY <2>2, <3>1
  <2> QED
    BY <2>3 DEF a, b, n
<1> QED
  BY <1>1, <1>2, Zenon DEF Less, Below

\* Texts of digits of one length are equal, or one is below the other.
LEMMA Ordered ==
  ASSUME NEW s \in Seq(Digits), NEW t \in Seq(Digits), Len(s) = Len(t)
  PROVE  s = t \/ Below(s, t) \/ Below(t, s)
<1> DEFINE differ == {i \in 1..Len(s) : s[i] # t[i]}
<1>1. Len(s) \in Nat /\ \A i \in 1..Len(s) : s[i] \in Digits /\ t[i] \in Digits
  BY LenProperties, ElementOfSeq
<1>2. CASE differ = {}
  <2>1. \A i \in 1..Len(s) : s[i] = t[i]
    BY <1>2
  <2> QED
    BY <2>1, SeqEqual
<1>3. CASE differ # {}
  <2>1. PICK m \in differ : \A i \in differ : m <= i
    <3>1. differ \in SUBSET Nat
      BY <1>1
    <3> HIDE DEF differ
    <3> QED
      BY <1>3, <3>1, LeastNumber
  <2>2. m \in 1..Len(s) /\ s[m] # t[m]
    BY <2>1
  <2>3. \A i \in 1..(m - 1) : s[i] = t[i]
    <3> SUFFICES ASSUME NEW i \in 1..(m - 1), s[i] # t[i] PROVE FALSE
      OBVIOUS
    <3>1. i \in 1..Len(s) /\ ~(m <= i)
      BY <1>1, <2>2
    <3>2. i \in differ
      BY <3>1
    <3> QED
      BY <2>1, <3>1, <3>2
  <2>4. Value(s[m]) \in Nat /\ Value(t[m]) \in Nat /\ Value(s[m]) # Value(t[m])
    BY <1>1, <2>2, DigitIs
  <2>5. Value(s[m]) < Value(t[m]) \/ Value(t[m]) < Value(s[m])
    BY <2>4
  <2> QED
    BY <2>2, <2>3, <2>5 DEF Below
<1> QED
  BY <1>2, <1>3

\* What is below is the lesser number.
LEMMA BelowNumber ==
  ASSUME NEW s \in Seq(Digits), NEW t \in Seq(Digits), Len(s) = Len(t), Below(s, t)
  PROVE  Number(s) < Number(t)
<1> DEFINE P == {u \in Seq(Digits) : \A v \in Seq(Digits) :
                   Len(u) = Len(v) /\ Below(u, v) => Number(u) < Number(v)}
<1>1. << >> \in P
  <2>1. << >> \in Seq(Digits)
    BY EmptySeq
  <2>2. \A v : ~ Below(<< >>, v)
    BY DEF Below
  <2> QED
    BY <2>1, <2>2
<1>2. ASSUME NEW u \in Seq(Digits), NEW x \in Digits, u \in P PROVE Append(u, x) \in P
  <2> DEFINE n == Len(u)
  <2>1. /\ Append(u, x) \in Seq(Digits) /\ n \in Nat /\ Len(Append(u, x)) = n + 1
        /\ Append(u, x)[n + 1] = x /\ \A i \in 1..n : Append(u, x)[i] = u[i]
    BY AppendProperties, LenProperties
  <2>2. SUFFICES ASSUME NEW w \in Seq(Digits), Len(w) = n + 1, Below(Append(u, x), w)
                 PROVE  Number(Append(u, x)) < Number(w)
    <3> HIDE DEF n
    <3> QED
      BY <2>1
  <2>3. PICK v \in Seq(Digits), y \in Digits : w = Append(v, y)
    <3>1. w # << >>
      BY <2>1, <2>2, EmptySeq
    <3> QED
      BY <3>1, SequenceEmptyOrAppend
  <2>4. Len(v) = n /\ w[n + 1] = y /\ \A i \in 1..n : w[i] = v[i]
    <3>1. Len(v) \in Nat /\ Len(w) = Len(v) + 1 /\ w[Len(v) + 1] = y /\ \A i \in 1..Len(v) : w[i] = v[i]
      BY <2>3, AppendProperties, LenProperties
    <3>2. Len(v) = n
      <4> HIDE DEF n
      <4> QED
        BY <2>1, <2>2, <3>1
    <3> QED
      BY <3>1, <3>2
  <2>5. PICK i \in 1..(n + 1) : /\ \A j \in 1..(i - 1) : Append(u, x)[j] = w[j]
                                /\ Value(Append(u, x)[i]) < Value(w[i])
    BY <2>1, <2>2, Zenon DEF Below
  <2> DEFINE b == Len(Digit)
  <2>6. /\ Number(u) \in Nat /\ Number(v) \in Nat /\ b \in Nat
        /\ Number(Append(u, x)) = b * Number(u) + Value(x)
        /\ Number(w) = b * Number(v) + Value(y)
        /\ Value(x) \in Nat /\ Value(x) < b /\ Value(y) \in Nat
    BY <2>3, NumberAppend, DigitIs
  <2>7. CASE i \in 1..n
    <3>1. \A j \in 1..(i - 1) : j \in 1..n
      BY <2>1, <2>7
    <3>2. Below(u, v)
      <4>1. (\A j \in 1..(i - 1) : u[j] = v[j]) /\ Value(u[i]) < Value(v[i])
        BY <2>1, <2>4, <2>5, <2>7, <3>1
      <4> QED
        BY <2>7, <4>1 DEF Below
    <3>3. Number(u) < Number(v)
      BY <1>2, <2>4, <3>2
    <3> DEFINE p == Number(u)
               q == Number(v)
    <3>4. b * p + b <= b * q /\ b * p \in Nat /\ b * q \in Nat
      <4>1. p \in Nat /\ q \in Nat /\ p < q /\ b \in Nat
        BY <2>6, <3>3
      <4> HIDE DEF p, q, b
      <4> QED
        BY <4>1, TimesLess
    <3> DEFINE c == b * p
               e == b * q
    <3>5. /\ c \in Nat /\ e \in Nat /\ b \in Nat /\ c + b <= e
          /\ Number(Append(u, x)) = c + Value(x) /\ Number(w) = e + Value(y)
      BY <2>6, <3>4
    <3> HIDE DEF b, c, e
    <3> QED
      BY <2>6, <3>5, SMTT(20)
  <2>8. CASE i = n + 1
    <3>1. \A j \in 1..n : u[j] = v[j]
      BY <2>1, <2>4, <2>5, <2>8
    <3>2. u = v
      BY <2>4, <3>1, SeqEqual
    <3>3. Value(x) < Value(y)
      BY <2>1, <2>4, <2>5, <2>8
    <3>4. b * Number(u) \in Nat
      BY <2>6
    <3> HIDE DEF b
    <3> QED
      BY <2>6, <3>2, <3>3, <3>4
  <2> QED
    <3>1. i \in 1..n \/ i = n + 1
      <4> HIDE DEF n
      <4> QED
        BY <2>1
    <3> QED
      BY <2>7, <2>8, <3>1
<1>3. Seq(Digits) \subseteq P
  <2> HIDE DEF P
  <2> QED
    BY <1>1, <1>2, SeqInduction
<1> QED
  BY <1>3

\* Zeros in front do not count.
Zeros(n) == [i \in 1..n |-> "0"]

LEMMA ZerosAre ==
  ASSUME NEW n \in Nat
  PROVE  Zeros(n) \in Seq(Digits) /\ Len(Zeros(n)) = n /\ \A i \in 1..n : Zeros(n)[i] = "0"
<1>1. Zeros(n) \in [1..n -> Digits]
  BY DigitIs DEF Zeros
<1>2. [1..n -> Digits] \subseteq Seq(Digits)
  <2>1. Seq(Digits) = UNION {[1..m -> Digits] : m \in Nat}
    BY SeqDef, Zenon
  <2> QED
    BY <2>1, Zenon
<1>3. Zeros(n) \in Seq(Digits) /\ DOMAIN Zeros(n) = 1..n
  BY <1>1, <1>2
<1>4. Len(Zeros(n)) = n
  <2> DEFINE z == Zeros(n)
  <2>1. z \in Seq(Digits) /\ DOMAIN z = 1..n
    BY <1>3
  <2> HIDE DEF z
  <2>2. Len(z) = n
    BY <2>1
  <2> QED
    BY <2>2 DEF z
<1> QED
  BY <1>3, <1>4 DEF Zeros

LEMMA ZerosFirst ==
  ASSUME NEW t \in Seq(Digits), NEW n \in Nat
  PROVE  Zeros(n) \o t \in Seq(Digits) /\ Number(Zeros(n) \o t) = Number(t)
<1> DEFINE Z == {u \in Seq({"0"}) : u \in Seq(Digits) /\ Number(u) = 0}
<1>1. Number(<< >>) = 0 /\ << >> \in Seq(Digits) /\ "0" \in Digits /\ Value("0") = 0 /\ Len(Digit) \in Nat
  BY NumberAppend, EmptySeq, DigitIs
<1>2. Seq({"0"}) \subseteq Z
  <2>1. << >> \in Z
    BY <1>1, EmptySeq
  <2>2. ASSUME NEW u \in Seq({"0"}), NEW x \in {"0"}, u \in Z PROVE Append(u, x) \in Z
    <3>1. u \in Seq(Digits) /\ Number(u) = 0 /\ x = "0"
      BY <2>2
    <3>2. Append(u, x) \in Seq(Digits) /\ Append(u, x) \in Seq({"0"})
      BY <1>1, <3>1, AppendProperties
    <3>3. Number(Append(u, x)) = Len(Digit) * 0 + 0
      BY <1>1, <3>1, NumberAppend, Zenon
    <3> QED
      BY <1>1, <3>2, <3>3
  <2> HIDE DEF Z
  <2> QED
    BY <2>1, <2>2, SeqInduction
<1>3. Zeros(n) \in Seq({"0"})
  <2>1. Seq({"0"}) = UNION {[1..m -> {"0"}] : m \in Nat}
    BY SeqDef, Zenon
  <2>2. Zeros(n) \in [1..n -> {"0"}]
    BY DEF Zeros
  <2> QED
    BY <2>1, <2>2, Zenon
<1>4. Zeros(n) \in Seq(Digits) /\ Number(Zeros(n)) = 0
  BY <1>2, <1>3
<1> DEFINE z == Zeros(n)
           P == {u \in Seq(Digits) : z \o u \in Seq(Digits) /\ Number(z \o u) = Number(u)}
<1>5. z \in Seq(Digits)
  BY <1>4
<1> HIDE DEF z
<1>6. << >> \in P
  <2>1. z \o << >> = z
    BY <1>5, ConcatEmptySeq
  <2> QED
    BY <1>1, <1>4, <1>5, <2>1 DEF z
<1>7. ASSUME NEW u \in Seq(Digits), NEW x \in Digits, u \in P PROVE Append(u, x) \in P
  <2>1. z \o Append(u, x) = Append(z \o u, x)
    BY <1>5, AppendLater
  <2>2. z \o u \in Seq(Digits) /\ Number(z \o u) = Number(u)
    BY <1>7
  <2>3. Append(u, x) \in Seq(Digits) /\ Append(z \o u, x) \in Seq(Digits)
    BY <2>2, AppendProperties
  <2>4. Number(Append(z \o u, x)) = Len(Digit) * Number(z \o u) + Value(x)
    BY <2>2, NumberAppend, Zenon
  <2>5. Number(Append(u, x)) = Len(Digit) * Number(u) + Value(x)
    BY NumberAppend, Zenon
  <2>6. Number(z \o Append(u, x)) = Number(Append(u, x))
    BY <2>1, <2>2, <2>4, <2>5, Zenon
  <2> QED
    BY <2>1, <2>3, <2>6, Zenon
<1>8. Seq(Digits) \subseteq P
  <2> HIDE DEF P
  <2> QED
    BY <1>6, <1>7, SeqInduction
<1> QED
  BY <1>8 DEF z

\* What is trimmed of a text is in front of it.
TrimsStart(A, t, d, k) ==
  /\ TrimStart(t, d) = SubSeq(t, 1 + k, Len(t))
  /\ TrimStart(t, d) \in Seq(A) /\ Len(TrimStart(t, d)) = Len(t) - k
  /\ \A i \in 1..k : t[i] = d
  /\ \A i \in 1..(Len(t) - k) : TrimStart(t, d)[i] = t[i + k]
  /\ k < Len(t) => t[k + 1] # d

LEMMA TrimStartIs ==
  ASSUME NEW A, NEW t \in Seq(A), NEW d
  PROVE  \E k \in 0..Len(t) : TrimsStart(A, t, d, k)
<1> USE DEF TrimsStart
<1> DEFINE n == Len(t)
           other == {i \in 1..n : t[i] # d}
           S == {i \in DOMAIN t : \A j \in 1..i : t[j] = d}
<1>1. n \in Nat /\ DOMAIN t = 1..n /\ \A i \in 1..n : t[i] \in A
  BY LenProperties
<1>2. \E k \in 0..n : S = 1..k /\ (\A i \in 1..k : t[i] = d) /\ (k < n => t[k + 1] # d)
  <2>1. CASE other = {}
    <3>1. \A i \in 1..n : t[i] = d
      BY <2>1
    <3>2. S = 1..n
      <4> HIDE DEF n
      <4>1. \A i \in 1..n : \A j \in 1..i : j \in 1..n
        BY <1>1
      <4> QED
        BY <1>1, <3>1, <4>1
    <3>3. n \in 0..n /\ ~(n < n)
      BY <1>1
    <3> HIDE DEF S, n
    <3> QED
      BY <3>1, <3>2, <3>3
  <2>2. CASE other # {}
    <3>1. PICK m \in other : \A i \in other : m <= i
      <4>1. other \in SUBSET Nat
        BY <1>1
      <4> HIDE DEF other
      <4> QED
        BY <2>2, <4>1, LeastNumber
    <3>2. m \in 1..n /\ t[m] # d
      BY <3>1
    <3> DEFINE k == m - 1
    <3>3. k \in 0..n /\ k + 1 = m
      BY <1>1, <3>2
    <3>4. \A i \in 1..k : t[i] = d
      <4> SUFFICES ASSUME NEW i \in 1..k, t[i] # d PROVE FALSE
        OBVIOUS
      <4>1. i \in 1..n /\ ~(m <= i)
        BY <1>1, <3>2
      <4>2. i \in other
        BY <4>1
      <4> QED
        BY <3>1, <4>1, <4>2
    <3>5. S = 1..k
      <4>1. ASSUME NEW i \in S PROVE i \in 1..k
        <5>1. i \in 1..n /\ \A j \in 1..i : t[j] = d
          BY <1>1
        <5>2. m \notin 1..i
          BY <3>2, <5>1
        <5> QED
          BY <1>1, <3>2, <5>1, <5>2
      <4>2. ASSUME NEW i \in 1..k PROVE i \in S
        <5>1. i \in 1..n /\ \A j \in 1..i : j \in 1..k
          BY <1>1, <3>2
        <5> HIDE DEF k
        <5> QED
          BY <1>1, <3>4, <5>1
      <4> HIDE DEF S, k
      <4> QED
        BY <4>1, <4>2
    <3> HIDE DEF S, k
    <3> QED
      BY <3>2, <3>3, <3>4, <3>5
  <2> QED
    BY <2>1, <2>2
<1>3. PICK k \in 0..n : S = 1..k /\ (\A i \in 1..k : t[i] = d) /\ (k < n => t[k + 1] # d)
  BY <1>2
<1>4. Cardinality(S) = k
  <2>1. 1 \in Int /\ k \in Int /\ (1 > k => k = 0) /\ k - 1 + 1 = k
    BY <1>1
  <2>2. Cardinality(1..k) = IF 1 > k THEN 0 ELSE k - 1 + 1
    BY <2>1, FS_Interval
  <2> QED
    BY <1>3, <2>1, <2>2
<1>5. TrimStart(t, d) = SubSeq(t, 1 + k, n)
  BY <1>4 DEF TrimStart
<1> DEFINE u == SubSeq(t, 1 + k, n)
<1>6. u \in Seq(A) /\ Len(u) = n - k /\ \A i \in 1..(n - k) : u[i] = t[i + k]
  <2> HIDE DEF n
  <2>1. 1 + k \in Int /\ n \in Int /\ 1 + k <= n + 1 /\ n - (1 + k) + 1 = n - k
    BY <1>1
  <2>2. \A i \in (1 + k)..n : t[i] \in A
    BY <1>1
  <2>3. /\ u \in Seq(A) /\ Len(u) = n - (1 + k) + 1
        /\ \A i \in 1..(n - (1 + k) + 1) : u[i] = t[1 + k + i - 1]
    BY <2>1, <2>2, SubSeqProperties
  <2>4. \A i \in 1..(n - k) : 1 + k + i - 1 = i + k
    BY <1>1
  <2> QED
    BY <2>1, <2>3, <2>4
<1> HIDE DEF u, S
<1> QED
  BY <1>3, <1>5, <1>6 DEF u

-----------------------------------------------------------------------------
(* Amounts and the supply.                                                 *)

LEMMA ConcatIs ==
  ASSUME NEW A, NEW a \in Seq(A), NEW b \in Seq(A)
  PROVE  /\ a \o b \in Seq(A) /\ Len(a \o b) = Len(a) + Len(b)
         /\ Len(a) \in Nat /\ Len(b) \in Nat
         /\ \A i \in 1..Len(a) : (a \o b)[i] = a[i]
         /\ \A i \in (Len(a) + 1)..(Len(a) + Len(b)) : (a \o b)[i] = b[i - Len(a)]
<1>1. Len(a) \in Nat /\ Len(b) \in Nat
  BY LenProperties
<1>2. /\ a \o b \in Seq(A) /\ Len(a \o b) = Len(a) + Len(b)
      /\ \A i \in 1..Len(a) + Len(b) : (a \o b)[i] = IF i <= Len(a) THEN a[i] ELSE b[i - Len(a)]
  BY ConcatProperties
<1> DEFINE c == a \o b
           m == Len(a)
           n == Len(b)
<1>3. c \in Seq(A) /\ Len(c) = m + n /\ \A i \in 1..m + n : c[i] = IF i <= m THEN a[i] ELSE b[i - m]
  BY <1>2
<1>4. m \in Nat /\ n \in Nat
  BY <1>1
<1> HIDE DEF c, m, n
<1>5. /\ \A i \in 1..m : c[i] = a[i]
      /\ \A i \in (m + 1)..(m + n) : c[i] = b[i - m]
  BY <1>3, <1>4
<1> QED
  BY <1>3, <1>4, <1>5 DEF c, m, n

\* A whole part without leading zeros and as many decimals as there are: the
\* number is within the supply as the digits say.
LEMMA WholeCompare ==
  ASSUME NEW w \in Seq(Digits), w = << >> \/ w[1] # "0",
         NEW g \in Seq(Digits), Len(g) = Decimals
  PROVE  Number(w \o g) <= Number(MaxWhole \o Zeros(Decimals)) <=>
           \/ Len(w) < Len(MaxWhole)
           \/ /\ Len(w) = Len(MaxWhole)
              /\ Less(w, MaxWhole) \/ (w = MaxWhole /\ \A i \in 1..Len(g) : g[i] = "0")
<1> DEFINE M == MaxWhole
           z == Zeros(Decimals)
           X == M \o z
           W == w \o g
           d == Decimals
           m == Len(M)
           l == Len(w)
<1>1. d \in Nat
  BY RequestsAssumption DEF RequestsAssumption
<1>2. z \in Seq(Digits) /\ Len(z) = d /\ \A i \in 1..d : z[i] = "0"
  BY <1>1, ZerosAre
<1>3. M \in Seq(Digits) /\ m \in Nat /\ m > 0 /\ M[1] # "0" /\ M[1] \in Digits
  <2>1. M \in Seq(Digits) /\ m \in Nat /\ m > 0 /\ M[1] # "0"
    BY DigitIs
  <2> QED
    BY <2>1, ElementOfSeq
<1>4. l \in Nat /\ (l > 0 => w[1] # "0" /\ w[1] \in Digits)
  BY LenProperties, ElementOfSeq
<1>5. /\ \A e \in Digits : Value(e) \in Nat /\ (e # "0" => 0 < Value(e))
      /\ "0" \in Digits /\ Value("0") = 0
  BY DigitIs
<1>6. \A u \in Seq(Digits) : Number(u) \in Nat
  BY DigitIs, NumberAppend
<1> HIDE DEF z, d, M
<1>7. /\ X \in Seq(Digits) /\ Len(X) = m + d
      /\ \A i \in 1..m : X[i] = M[i]
      /\ \A i \in (m + 1)..(m + d) : X[i] = "0"
  <2>1. /\ X \in Seq(Digits) /\ Len(X) = Len(M) + Len(z) /\ (\A i \in 1..Len(M) : X[i] = M[i])
        /\ \A i \in (Len(M) + 1)..(Len(M) + Len(z)) : X[i] = z[i - Len(M)]
    <3>1. M \in Seq(Digits) /\ z \in Seq(Digits)
      BY <1>2, <1>3
    <3> QED
      BY <3>1, ConcatIs, ZenonT(40)
  <2>2. \A i \in (m + 1)..(m + d) : i - m \in 1..d
    BY <1>1, <1>3
  <2> QED
    BY <1>2, <2>1, <2>2
<1>8. /\ W \in Seq(Digits) /\ Len(W) = l + d
      /\ \A i \in 1..l : W[i] = w[i]
      /\ \A i \in (l + 1)..(l + d) : W[i] = g[i - l]
  BY ConcatIs DEF d
<1> HIDE DEF X, W, m, l
<1>9. ASSUME NEW s \in Seq(Digits), NEW t \in Seq(Digits), NEW k \in Nat,
             k > 0, Len(t) = k + Len(s), t[1] # "0"
      PROVE  Number(s) < Number(t)
  <2> DEFINE y == Zeros(k)
             v == y \o s
  <2>1. y \in Seq(Digits) /\ Len(y) = k /\ \A i \in 1..k : y[i] = "0"
    BY ZerosAre
  <2>2. v \in Seq(Digits) /\ Number(v) = Number(s)
    BY ZerosFirst
  <2> HIDE DEF y
  <2>3. Len(v) = k + Len(s) /\ Len(s) \in Nat /\ \A i \in 1..k : v[i] = y[i]
    <3>1. Len(v) = Len(y) + Len(s) /\ Len(s) \in Nat /\ \A i \in 1..Len(y) : v[i] = y[i]
      <4>1. y \in Seq(Digits)
        BY <2>1
      <4> QED
        BY <4>1, ConcatIs, ZenonT(40)
    <3> QED
      BY <2>1, <3>1, Zenon
  <2> HIDE DEF v
  <2>4. 1 \in 1..Len(v) /\ v[1] = "0" /\ t[1] \in Digits
    <3>1. 1 \in 1..Len(t)
      BY <1>9, <2>3
    <3> QED
      BY <1>9, <2>1, <2>3, <3>1, ElementOfSeq
  <2>5. Value(v[1]) < Value(t[1])
    BY <1>5, <1>9, <2>4
  <2>6. Below(v, t)
    <3>1. \A j \in 1..(1 - 1) : v[j] = t[j]
      OBVIOUS
    <3> QED
      BY <2>4, <2>5, <3>1 DEF Below
  <2>7. Number(v) < Number(t)
    BY <1>9, <2>2, <2>3, <2>6, BelowNumber
  <2> QED
    BY <2>2, <2>7
<1>10. CASE l < m
  <2>1. m - l \in Nat /\ m - l > 0 /\ Len(X) = (m - l) + Len(W) /\ X[1] # "0"
    BY <1>1, <1>3, <1>4, <1>7, <1>8, <1>10
  <2>2. Number(W) < Number(X)
    BY <1>7, <1>8, <1>9, <2>1
  <2>3. Number(W) <= Number(X)
    BY <1>6, <1>7, <1>8, <2>2
  <2> QED
    BY <1>10, <2>3 DEF X, W, l, m, M, z
<1>11. CASE m < l
  <2>1. l - m \in Nat /\ l - m > 0 /\ Len(W) = (l - m) + Len(X) /\ W[1] # "0"
    BY <1>1, <1>3, <1>4, <1>7, <1>8, <1>11
  <2>2. Number(X) < Number(W)
    BY <1>7, <1>8, <1>9, <2>1
  <2>3. ~(Number(W) <= Number(X)) /\ ~(l < m) /\ l # m
    BY <1>3, <1>4, <1>6, <1>7, <1>8, <1>11, <2>2
  <2> QED
    BY <2>3, Zenon DEF X, W, l, m, M, z
<1>12. CASE l = m
  <2>1. Len(w) = Len(M) /\ w \in Seq(Digits) /\ Len(W) = Len(X)
    BY <1>7, <1>8, <1>12 DEF l, m
  <2>2. Less(w, M) <=> Below(w, M)
    BY <1>3, <2>1, LessIs
  <2>3. ~(l < m)
    BY <1>3, <1>12
  <2>4. CASE Below(w, M)
    <3>1. PICK i \in 1..l : (\A j \in 1..(i - 1) : w[j] = M[j]) /\ Value(w[i]) < Value(M[i])
      BY <2>4 DEF Below, l
    <3>2. i \in 1..Len(W) /\ \A j \in 1..(i - 1) : j \in 1..l
      BY <1>1, <1>3, <1>8, <1>12
    <3>3. (\A j \in 1..(i - 1) : W[j] = X[j]) /\ Value(W[i]) < Value(X[i])
      BY <1>7, <1>8, <1>12, <3>1, <3>2
    <3>4. Number(W) < Number(X)
      BY <1>7, <1>8, <2>1, <3>2, <3>3, BelowNumber DEF Below
    <3>5. Number(W) <= Number(X)
      BY <1>6, <1>7, <1>8, <3>4
    <3> QED
      BY <1>12, <2>2, <2>4, <3>5, Zenon DEF X, W, l, m, M, z
  <2>5. CASE Below(M, w)
    <3>1. PICK i \in 1..l : (\A j \in 1..(i - 1) : M[j] = w[j]) /\ Value(M[i]) < Value(w[i])
      BY <1>12, <2>5 DEF Below, l, m
    <3>2. i \in 1..Len(X) /\ \A j \in 1..(i - 1) : j \in 1..l
      BY <1>1, <1>3, <1>7, <1>12
    <3>3. (\A j \in 1..(i - 1) : X[j] = W[j]) /\ Value(X[i]) < Value(W[i])
      BY <1>7, <1>8, <1>12, <3>1, <3>2
    <3>4. Number(X) < Number(W)
      BY <1>7, <1>8, <2>1, <3>2, <3>3, BelowNumber DEF Below
    <3>5. Number(M) < Number(w)
      BY <1>3, <2>1, <2>5, BelowNumber
    <3>6. ~ Below(w, M) /\ w # M
      <4>1. Below(w, M) => Number(w) < Number(M)
        BY <1>3, <2>1, BelowNumber
      <4>2. Number(w) \in Nat /\ Number(M) \in Nat
        BY <1>3, <1>6
      <4> QED
        BY <3>5, <4>1, <4>2
    <3>7. ~(Number(W) <= Number(X))
      BY <1>6, <1>7, <1>8, <3>4
    <3> QED
      BY <2>2, <2>3, <3>6, <3>7, Zenon DEF X, W, l, m, M, z
  <2>6. CASE w = M /\ \A i \in 1..d : g[i] = "0"
    <3>1. \A i \in 1..Len(W) : W[i] = X[i]
      <4> SUFFICES ASSUME NEW i \in 1..Len(W) PROVE W[i] = X[i]
        OBVIOUS
      <4>1. CASE i \in 1..l
        BY <1>7, <1>8, <1>12, <2>6, <4>1
      <4>2. CASE i \notin 1..l
        <5>1. i \in (l + 1)..(l + d) /\ i - l \in 1..d
          BY <1>1, <1>4, <1>8, <4>2
        <5> QED
          BY <1>7, <1>8, <1>12, <2>6, <5>1
      <4> QED
        BY <4>1, <4>2
    <3>2. W = X
      BY <1>7, <1>8, <2>1, <3>1, SeqEqual
    <3>3. Number(W) <= Number(X)
      BY <1>6, <1>7, <3>2
    <3>4. \A i \in 1..Len(g) : g[i] = "0"
      BY <2>6 DEF d
    <3> QED
      BY <1>12, <2>6, <3>3, <3>4, Zenon DEF X, W, l, m, M, z
  <2>7. CASE w = M /\ ~ \A i \in 1..d : g[i] = "0"
    <3>1. PICK k \in 1..d : g[k] # "0"
      BY <2>7
    <3>2. W # X
      <4>1. l + k \in (l + 1)..(l + d) /\ (l + k) - l = k
        BY <1>1, <1>4
      <4>2. W[l + k] = g[k]
        BY <1>8, <4>1
      <4>3. X[l + k] = "0"
        BY <1>7, <1>12, <4>1
      <4> QED
        BY <3>1, <4>2, <4>3
    <3>3. ~ Below(W, X)
      <4> SUFFICES ASSUME NEW i \in 1..Len(W), Value(W[i]) < Value(X[i]) PROVE FALSE
        BY DEF Below
      <4>1. W[i] \in Digits /\ X[i] \in Digits
        BY <1>7, <1>8, <2>1, ElementOfSeq
      <4>2. CASE i \in 1..l
        <5>1. W[i] = X[i]
          BY <1>7, <1>8, <1>12, <2>7, <4>2
        <5> QED
          BY <1>5, <4>1, <5>1
      <4>3. CASE i \notin 1..l
        <5>1. i \in (l + 1)..(l + d)
          BY <1>1, <1>4, <1>8, <4>3
        <5>2. X[i] = "0"
          BY <1>7, <1>12, <5>1
        <5> QED
          BY <1>5, <4>1, <5>2
      <4> QED
        BY <4>2, <4>3
    <3>4. Below(X, W)
      BY <1>7, <1>8, <2>1, <3>2, <3>3, Ordered
    <3>5. Number(X) < Number(W)
      BY <1>7, <1>8, <2>1, <3>4, BelowNumber
    <3>6. ~(Number(W) <= Number(X))
      BY <1>6, <1>7, <1>8, <3>5
    <3>7. ~ Below(w, M)
      <4>1. Below(w, M) => Number(w) < Number(M)
        BY <1>3, <2>1, BelowNumber
      <4>2. Number(w) \in Nat /\ w = M
        BY <1>6, <2>7
      <4> QED
        BY <4>1, <4>2
    <3>8. ~ \A i \in 1..Len(g) : g[i] = "0"
      BY <2>7 DEF d
    <3> QED
      BY <2>2, <2>3, <3>6, <3>7, <3>8, Zenon DEF X, W, l, m, M, z
  <2>8. w = M \/ Below(w, M) \/ Below(M, w)
    BY <1>3, <2>1, Ordered
  <2> QED
    BY <2>4, <2>5, <2>6, <2>7, <2>8
<1>13. l < m \/ m < l \/ l = m
  BY <1>3, <1>4
<1> QED
  BY <1>10, <1>11, <1>12, <1>13

\* Leading zeros are trimmed and do not count.
LEMMA TrimWhole ==
  ASSUME NEW t \in Seq(Digits), NEW g \in Seq(Digits)
  PROVE  /\ TrimStart(t, "0") \in Seq(Digits)
         /\ TrimStart(t, "0") = << >> \/ TrimStart(t, "0")[1] # "0"
         /\ Number(t \o g) = Number(TrimStart(t, "0") \o g)
<1> DEFINE w == TrimStart(t, "0")
           n == Len(t)
<1>1. n \in Nat
  BY LenProperties
<1>2. PICK k \in 0..n :
         /\ w \in Seq(Digits) /\ Len(w) = n - k
         /\ \A i \in 1..k : t[i] = "0"
         /\ \A i \in 1..(n - k) : w[i] = t[i + k]
         /\ k < n => t[k + 1] # "0"
  <2>1. PICK k \in 0..n : TrimsStart(Digits, t, "0", k)
    BY TrimStartIs, Zenon
  <2> QED
    BY <2>1, Zenon DEF TrimsStart
<1> HIDE DEF w, n
<1>3. w = << >> \/ w[1] # "0"
  <2>1. CASE k < n
    <3>1. 1 \in 1..(n - k) /\ 1 + k = k + 1
      BY <1>1, <2>1
    <3> QED
      BY <1>2, <2>1, <3>1
  <2>2. CASE ~(k < n)
    <3>1. Len(w) = 0
      BY <1>1, <1>2, <2>2
    <3> QED
      BY <1>2, <3>1, EmptySeq
  <2> QED
    BY <2>1, <2>2
<1> DEFINE z == Zeros(k)
<1>4. k \in Nat /\ z \in Seq(Digits) /\ Len(z) = k /\ \A i \in 1..k : z[i] = "0"
  <2>1. k \in Nat
    BY <1>1
  <2> QED
    BY <2>1, ZerosAre
<1> DEFINE v == z \o w
<1>5. /\ v \in Seq(Digits) /\ Len(v) = k + Len(w)
      /\ \A i \in 1..k : v[i] = z[i]
      /\ \A i \in (k + 1)..(k + Len(w)) : v[i] = w[i - k]
  <2>1. /\ v \in Seq(Digits) /\ Len(v) = Len(z) + Len(w)
        /\ \A i \in 1..Len(z) : v[i] = z[i]
        /\ \A i \in (Len(z) + 1)..(Len(z) + Len(w)) : v[i] = w[i - Len(z)]
    <3>1. z \in Seq(Digits) /\ w \in Seq(Digits)
      BY <1>2, <1>4
    <3> HIDE DEF z
    <3> QED
      BY <3>1, ConcatIs, Zenon
  <2> HIDE DEF v, z
  <2> QED
    BY <1>4, <2>1
<1> HIDE DEF v
<1>6. v = t
  <2>1. Len(v) = Len(t) /\ Len(t) = n
    BY <1>1, <1>2, <1>4, <1>5 DEF n
  <2>2. ASSUME NEW i \in 1..n PROVE v[i] = t[i]
    <3>1. CASE i \in 1..k
      BY <1>2, <1>4, <1>5, <3>1
    <3>2. CASE i \notin 1..k
      <4>1. i \in (k + 1)..(k + Len(w)) /\ i - k \in 1..(n - k) /\ (i - k) + k = i
        BY <1>1, <1>2, <1>4, <3>2
      <4> QED
        BY <1>2, <1>5, <4>1
    <3> QED
      BY <3>1, <3>2
  <2> QED
    BY <1>5, <2>1, <2>2, SeqEqual
<1>7. Number(t \o g) = Number(w \o g)
  <2>1. Then(Then(z, w), g) = Then(z, Then(w, g))
    <3> HIDE DEF z
    <3> QED
      BY <1>2, <1>4, ThenAssoc
  <2>2. t \o g = z \o (w \o g)
    BY <1>6, <2>1, Zenon DEF Then, v
  <2>3. w \o g \in Seq(Digits)
    BY <1>2, ConcatIs
  <2>4. Number(z \o (w \o g)) = Number(w \o g)
    BY <1>4, <2>3, ZerosFirst, Zenon
  <2> QED
    BY <2>2, <2>4
<1> QED
  BY <1>2, <1>3, <1>7 DEF w

\* The digits before and after the point, filled up with zeros.
Filled(a, b) == Number((a \o b) \o Zeros(Decimals - Len(b)))

LEMMA PairIs ==
  ASSUME NEW x, NEW y
  PROVE  <<x>> \o <<y>> = <<x, y>>
<1> DEFINE S == {x, y}
           v == <<x>>
           w == <<y>>
           c == <<x, y>>
<1>1. v \in Seq(S) /\ w \in Seq(S) /\ Len(v) = 1 /\ Len(w) = 1 /\ v[1] = x /\ w[1] = y
  OBVIOUS
<1>2. c \in Seq(S) /\ Len(c) = 2 /\ c[1] = x /\ c[2] = y
  OBVIOUS
<1> HIDE DEF S, v, w, c
<1>3. v \o w = c
  <2>1. /\ v \o w \in Seq(S) /\ Len(v \o w) = Len(v) + Len(w)
        /\ \A i \in 1..Len(v) : (v \o w)[i] = v[i]
        /\ \A i \in (Len(v) + 1)..(Len(v) + Len(w)) : (v \o w)[i] = w[i - Len(v)]
    <3>1. v \in Seq(S) /\ w \in Seq(S)
      BY <1>1
    <3> QED
      BY <3>1, ConcatIs, Zenon
  <2> DEFINE u == v \o w
  <2>2. /\ u \in Seq(S) /\ Len(u) = Len(v) + Len(w)
        /\ \A i \in 1..Len(v) : u[i] = v[i]
        /\ \A i \in (Len(v) + 1)..(Len(v) + Len(w)) : u[i] = w[i - Len(v)]
    BY <2>1
  <2> HIDE DEF u
  <2>3. u[1] = x /\ u[2] = y /\ Len(u) = 2
    <3>1. 1 \in 1..Len(v) /\ 2 \in (Len(v) + 1)..(Len(v) + Len(w)) /\ 2 - Len(v) = 1
      BY <1>1
    <3> QED
      BY <1>1, <2>2, <3>1
  <2>4. \A i \in 1..2 : u[i] = c[i]
    BY <1>2, <2>3
  <2>5. u = c
    BY <1>2, <2>2, <2>3, <2>4, SeqEqual
  <2> QED
    BY <2>5 DEF u
<1> QED
  BY <1>3 DEF v, w, c

LEMMA OnlyOne ==
  ASSUME NEW T, NEW q \in Seq(T), Len(q) = 1
  PROVE  q = <<q[1]>> /\ q[1] \in T
<1>1. q[1] \in T
  BY ElementOfSeq
<1> DEFINE v == <<q[1]>>
<1>2. v \in Seq(T) /\ Len(v) = 1 /\ v[1] = q[1]
  BY <1>1
<1> HIDE DEF v
<1>3. q = v
  <2>1. \A i \in 1..1 : q[i] = v[i]
    BY <1>2
  <2> QED
    BY <1>2, <2>1, SeqEqual
<1> QED
  BY <1>1, <1>3 DEF v

LEMMA FilledCompare ==
  ASSUME NEW a \in Seq(Digits), NEW b \in Seq(Digits), Len(b) <= Decimals
  PROVE  Filled(a, b) <= Filled(MaxWhole, << >>) <=> AtMostMax(TrimStart(a, "0"), b)
<1> DEFINE z == Zeros(Decimals - Len(b))
           g == b \o z
           w == TrimStart(a, "0")
           k == Decimals - Len(b)
<1>1. Decimals \in Nat /\ Len(b) \in Nat
  BY LenProperties, RequestsAssumption DEF RequestsAssumption
<1>2. z \in Seq(Digits) /\ Len(z) = k /\ (\A i \in 1..k : z[i] = "0") /\ k \in Nat
  <2>1. k \in Nat
    BY <1>1
  <2> QED
    BY <2>1, ZerosAre
<1>3. /\ g \in Seq(Digits) /\ Len(g) = Decimals
      /\ \A i \in 1..Len(b) : g[i] = b[i]
      /\ \A i \in (Len(b) + 1)..Decimals : g[i] = "0"
  <2>1. z \in Seq(Digits)
    BY <1>2
  <2> HIDE DEF z
  <2>2. /\ g \in Seq(Digits) /\ Len(g) = Len(b) + Len(z)
        /\ \A i \in 1..Len(b) : g[i] = b[i]
        /\ \A i \in (Len(b) + 1)..(Len(b) + Len(z)) : g[i] = z[i - Len(b)]
    BY <2>1, ConcatIs, Zenon
  <2>3. Len(b) + Len(z) = Decimals
    BY <1>1, <1>2
  <2>4. \A i \in (Len(b) + 1)..Decimals : i - Len(b) \in 1..k
    BY <1>1
  <2> HIDE DEF g, k
  <2> QED
    BY <1>2, <2>2, <2>3, <2>4
<1>4. Filled(a, b) = Number(a \o g)
  <2>1. Then(Then(a, b), z) = Then(a, Then(b, z))
    <3>1. z \in Seq(Digits)
      BY <1>2
    <3> HIDE DEF z
    <3> QED
      BY <3>1, ThenAssoc
  <2> QED
    BY <2>1, Zenon DEF Filled, Then
<1>5. Filled(MaxWhole, << >>) = Number(MaxWhole \o Zeros(Decimals))
  <2>1. MaxWhole \o << >> = MaxWhole
    BY DigitIs, ConcatEmptySeq
  <2>2. Decimals - Len(<< >>) = Decimals
    BY <1>1
  <2> QED
    BY <2>1, <2>2, Zenon DEF Filled
<1> HIDE DEF g, w
<1>6. w \in Seq(Digits) /\ (w = << >> \/ w[1] # "0") /\ Number(a \o g) = Number(w \o g)
  <2>1. g \in Seq(Digits)
    BY <1>3
  <2> QED
    BY <2>1, TrimWhole, Zenon DEF w
<1>7. Number(w \o g) <= Number(MaxWhole \o Zeros(Decimals)) <=>
        \/ Len(w) < Len(MaxWhole)
        \/ /\ Len(w) = Len(MaxWhole)
           /\ Less(w, MaxWhole) \/ (w = MaxWhole /\ \A i \in 1..Len(g) : g[i] = "0")
  <2>1. w \in Seq(Digits) /\ (w = << >> \/ w[1] # "0") /\ g \in Seq(Digits) /\ Len(g) = Decimals
    BY <1>3, <1>6
  <2> QED
    BY <2>1, WholeCompare, Zenon
<1>8. (\A i \in 1..Len(g) : g[i] = "0") <=> ToSet(b) \subseteq {"0"}
  <2>1. ToSet(b) \subseteq {"0"} <=> \A i \in 1..Len(b) : b[i] = "0"
    <3>1. DOMAIN b = 1..Len(b)
      BY LenProperties
    <3> QED
      BY <3>1 DEF ToSet
  <2>2. \A i \in 1..Len(b) : i \in 1..Decimals
    BY <1>1
  <2>3. \A i \in 1..Decimals : i \in 1..Len(b) \/ i \in (Len(b) + 1)..Decimals
    BY <1>1
  <2> QED
    BY <1>3, <2>1, <2>2, <2>3
<1> QED
  BY <1>4, <1>5, <1>6, <1>7, <1>8, Zenon DEF AtMostMax, w

\* A number is a text of digits.
LEMMA NumberIs ==
  ASSUME NEW t \in Text
  PROVE  IsNumber(t) <=> t # << >> /\ t \in Seq(Digits)
<1>1. t \in Seq(Plain) /\ Len(t) \in Nat /\ DOMAIN t = 1..Len(t)
  BY LenProperties DEF Text
<1>2. ToSet(t) \subseteq Digits <=> \A i \in 1..Len(t) : t[i] \in Digits
  BY <1>1 DEF ToSet
<1> DEFINE n == Len(t)
<1>3. ASSUME \A i \in 1..n : t[i] \in Digits PROVE t \in Seq(Digits)
  <2>1. t \in [1..n -> Digits]
    <3>1. t \in [1..n -> Plain]
      BY <1>1
    <3> HIDE DEF n
    <3> QED
      BY <1>3, <3>1
  <2>2. Seq(Digits) = UNION {[1..m -> Digits] : m \in Nat}
    BY SeqDef, Zenon
  <2> QED
    BY <1>1, <2>1, <2>2, Zenon
<1>4. t \in Seq(Digits) => \A i \in 1..n : t[i] \in Digits
  BY ElementOfSeq
<1> QED
  BY <1>2, <1>3, <1>4 DEF IsNumber, Digits

\* The amounts that the code accepts are the decimal numbers, of at most so
\* many places, that are within the supply.
LEMMA ValidAmountIs ==
  ASSUME NEW t \in Text
  PROVE  valid_amount(t) <=> IsWithinSupply(t)
<1> DEFINE A == Plain
           d == "."
<1>1. d \in A /\ A \ {d} \in SUBSET A /\ Digits \subseteq A \ {d} /\ t \in Seq(A)
  BY DigitIs DEF Plain, Delimiter, Text
<1>2. Decimals \in Nat
  BY RequestsAssumption DEF RequestsAssumption
<1>3. \A u : Units(u) = Filled(SplitOnce(u, d)[1], SplitOnce(u, d)[2])
  BY Zenon DEF Units, Filled, Zeros
<1>4. \A u \in Seq(Digits) : u \in Seq(A \ {d}) /\ Split(u, d) = <<u>> /\ SplitOnce(u, d) = <<u, << >> >>
  <2> SUFFICES ASSUME NEW u \in Seq(Digits)
               PROVE  u \in Seq(A \ {d}) /\ Split(u, d) = <<u>> /\ SplitOnce(u, d) = <<u, << >> >>
    OBVIOUS
  <2> DEFINE B == A \ {d}
  <2>1. u \in Seq(B)
    <3>1. Digits \subseteq B
      BY <1>1
    <3> HIDE DEF B
    <3> QED
      BY <3>1, SeqMonotonic
  <2> QED
    BY <1>1, <2>1, SplitNone, Zenon
<1>5. Units(MaxWhole) = Filled(MaxWhole, << >>)
  <2>1. MaxWhole \in Seq(Digits)
    BY DigitIs
  <2> QED
    BY <1>3, <1>4, <2>1
<1>6. << >> \in Seq(Digits) /\ Len(<< >>) = 0 /\ 0 <= Decimals
  BY <1>2, EmptySeq
<1>7. CASE t \in Seq(A \ {d})
  <2>1. Split(t, d) = <<t>> /\ SplitOnce(t, d) = <<t, << >> >>
    BY <1>1, <1>7, SplitNone, Zenon
  <2>2. ~(d \in ToSet(t))
    BY <1>7 DEF ToSet
  <2>3. valid_amount(t) <=> IsNumber(t) /\ AtMostMax(TrimStart(t, "0"), << >>)
    BY <2>1, <2>2 DEF valid_amount
  <2>4. IsWithinSupply(t) <=> IsNumber(t) /\ Filled(t, << >>) <= Filled(MaxWhole, << >>)
    <3>1. ToSet(<<t>>) = {t} /\ Len(<<t>>) = 1
      BY DEF ToSet
    <3>2. Units(t) = Filled(t, << >>)
      BY <1>3, <2>1
    <3>3. SplitOnce(t, d)[2] = << >>
      BY <2>1
    <3>4. Len(<<t>>) <= 2
      BY <3>1
    <3> QED
      BY <1>5, <1>6, <2>1, <3>1, <3>2, <3>3, <3>4, Zenon DEF IsWithinSupply
  <2>5. ASSUME IsNumber(t)
        PROVE  Filled(t, << >>) <= Filled(MaxWhole, << >>) <=> AtMostMax(TrimStart(t, "0"), << >>)
    <3>1. t \in Seq(Digits)
      BY <2>5, NumberIs
    <3>2. Len(<< >>) <= Decimals
      BY <1>6
    <3> QED
      BY <1>6, <3>1, <3>2, FilledCompare, Zenon
  <2> QED
    BY <2>3, <2>4, <2>5
<1>8. CASE \E a \in Seq(A \ {d}), b \in Seq(A) : t = Around(a, d, b)
  <2>1. PICK a \in Seq(A \ {d}), b \in Seq(A) : t = Around(a, d, b)
    BY <1>8
  <2>2. Split(t, d) = <<a>> \o Split(b, d) /\ SplitOnce(t, d) = <<a, b>>
    <3>1. /\ Split(Around(a, d, b), d) = <<a>> \o Split(b, d)
          /\ SplitOnce(Around(a, d, b), d) = <<a, b>>
      <4>1. d \in A /\ a \in Seq(A \ {d}) /\ b \in Seq(A)
        BY <1>1
      <4> HIDE DEF A, d
      <4> QED
        BY <4>1, SplitFirst, Zenon
    <3> QED
      BY <2>1, <3>1, Zenon
  <2>3. d \in ToSet(t)
    <3>1. a \in Seq(A) /\ <<d>> \in Seq(A) /\ a \o <<d>> \in Seq(A)
      <4>1. <<d>> \in Seq(A)
        BY <1>1
      <4>2. a \in Seq(A)
        BY SeqMonotonic
      <4> QED
        BY <4>1, <4>2, ConcatProperties
    <3> DEFINE v == a \o <<d>>
               n == Len(a) + 1
    <3>2. v \in Seq(A) /\ Len(v) = n /\ v[n] = d /\ n \in Nat /\ n > 0
      BY <3>1, ConcatProperties, LenProperties
    <3> HIDE DEF v, n
    <3>3. /\ v \o b \in Seq(A) /\ Len(v \o b) = Len(v) + Len(b) /\ Len(b) \in Nat
          /\ \A i \in 1..Len(v) : (v \o b)[i] = v[i]
      BY <3>2, ConcatIs
    <3>4. n \in DOMAIN (v \o b) /\ (v \o b)[n] = d
      <4>1. DOMAIN (v \o b) = 1..(n + Len(b))
        BY <3>2, <3>3, LenProperties
      <4> QED
        BY <3>2, <3>3, <4>1
    <3>5. n \in DOMAIN t /\ t[n] = d
      BY <2>1, <3>4, Zenon DEF v, Around
    <3> QED
      BY <3>5 DEF ToSet
  <2>4. valid_amount(t) <=> /\ IsNumber(a) /\ IsNumber(b) /\ Len(b) <= Decimals
                            /\ AtMostMax(TrimStart(a, "0"), b)
    BY <2>2, <2>3 DEF valid_amount
  <2>5. a \in Text /\ b \in Text /\ Units(t) = Filled(a, b) /\ SplitOnce(t, d)[2] = b
    <3>1. a \in Seq(A)
      BY SeqMonotonic
    <3> QED
      BY <1>3, <2>2, <3>1 DEF Text
  <2> DEFINE q == Split(b, d)
  <2>6. /\ q \in Pieces(A) /\ Joined(q, d) = b
        /\ Len(q) \in Nat /\ Len(q) > 0
        /\ <<a>> \o q \in Seq(Seq(A)) /\ Len(<<a>> \o q) = 1 + Len(q) /\ (<<a>> \o q)[1] = a
        /\ (<<a>> \o q)[2] = q[1]
    <3>1. q \in Pieces(A) /\ Joined(q, d) = b
      BY <1>1, JoinedSplit, PiecesLarger, Zenon
    <3> DEFINE T == Seq(A)
               v == <<a>>
    <3>2. q \in Seq(T) /\ Len(q) \in Nat /\ Len(q) > 0
      BY <3>1, EmptySeq, LenProperties DEF Pieces
    <3>3. v \in Seq(T) /\ Len(v) = 1 /\ v[1] = a
      BY <2>5 DEF Text
    <3> HIDE DEF v, T, q
    <3>4. v \o q \in Seq(T) /\ Len(v \o q) = 1 + Len(q) /\ (v \o q)[1] = a /\ (v \o q)[2] = q[1]
      <4>1. /\ v \o q \in Seq(T) /\ Len(v \o q) = Len(v) + Len(q)
            /\ \A i \in 1..Len(v) : (v \o q)[i] = v[i]
            /\ \A i \in (Len(v) + 1)..(Len(v) + Len(q)) : (v \o q)[i] = q[i - Len(v)]
        <5>1. v \in Seq(T) /\ q \in Seq(T)
          BY <3>2, <3>3
        <5> QED
          BY <5>1, ConcatIs, Zenon
      <4>2. 1 \in 1..Len(v) /\ 2 \in (Len(v) + 1)..(Len(v) + Len(q)) /\ 2 - Len(v) = 1
        BY <3>2, <3>3
      <4>3. (v \o q)[2] = q[1]
        BY <4>1, <4>2
      <4>4. (v \o q)[1] = a
        BY <3>3, <4>1, <4>2
      <4> QED
        BY <3>3, <4>1, <4>3, <4>4
    <3> QED
      BY <3>1, <3>2, <3>4 DEF v, T
  <2>7. ASSUME IsNumber(a), IsNumber(b), Len(b) <= Decimals
        PROVE  /\ \A p \in ToSet(Split(t, d)) : IsNumber(p)
               /\ Len(Split(t, d)) <= 2
               /\ Units(t) <= Units(MaxWhole) <=> AtMostMax(TrimStart(a, "0"), b)
    <3>1. a \in Seq(Digits) /\ b \in Seq(Digits)
      BY <2>5, <2>7, NumberIs
    <3>2. q = <<b>>
      BY <1>4, <3>1
    <3>3. <<a>> \o <<b>> = <<a, b>>
      BY PairIs, Zenon
    <3>4. Split(t, d) = <<a, b>>
      BY <2>2, <3>2, <3>3, Zenon
    <3>5. ToSet(<<a, b>>) = {a, b} /\ Len(<<a, b>>) <= 2
      BY DEF ToSet
    <3>6. Filled(a, b) <= Filled(MaxWhole, << >>) <=> AtMostMax(TrimStart(a, "0"), b)
      BY <2>7, <3>1, FilledCompare, Zenon
    <3>7. Units(t) <= Units(MaxWhole) <=> AtMostMax(TrimStart(a, "0"), b)
      BY <1>5, <2>5, <3>6, Zenon
    <3>8. \A p \in {a, b} : IsNumber(p)
      BY <2>7
    <3> QED
      BY <3>4, <3>5, <3>7, <3>8, Zenon
  <2>8. ASSUME IsWithinSupply(t) PROVE IsNumber(a) /\ IsNumber(b) /\ Len(b) <= Decimals
    <3> DEFINE r == <<a>> \o q
    <3>1. Split(t, d) = r /\ Len(r) = 1 + Len(q) /\ r[1] = a /\ r[2] = q[1] /\ r \in Seq(Seq(A))
      BY <2>2, <2>6, Zenon
    <3>2. (\A p \in ToSet(r) : IsNumber(p)) /\ Len(r) <= 2 /\ Len(b) <= Decimals
      BY <2>5, <2>8, <3>1 DEF IsWithinSupply
    <3> HIDE DEF r, q
    <3>3. Len(q) = 1
      <4>1. Len(q) \in Nat /\ Len(q) > 0 /\ Len(r) = 1 + Len(q) /\ Len(r) <= 2
        BY <2>6, <3>1, <3>2
      <4> DEFINE n == Len(q)
      <4>2. n \in Nat /\ n > 0 /\ 1 + n <= 2
        BY <4>1
      <4> HIDE DEF n
      <4>3. n = 1
        BY <4>2
      <4> QED
        BY <4>3 DEF n
    <3>4. a \in ToSet(r) /\ q[1] \in ToSet(r)
      <4>1. DOMAIN r = 1..2
        BY <3>1, <3>3, LenProperties
      <4> QED
        BY <3>1, <4>1 DEF ToSet
    <3>5. q = <<q[1]>> /\ q[1] \in Seq(A)
      <4> DEFINE T == Seq(A)
      <4>1. q \in Seq(T)
        BY <2>6 DEF Pieces
      <4> HIDE DEF T
      <4>2. q = <<q[1]>> /\ q[1] \in T
        BY <3>3, <4>1, OnlyOne
      <4> QED
        BY <4>2 DEF T
    <3>6. q[1] = b
      <4> DEFINE x == q[1]
      <4>1. x \in Seq(A) /\ q = <<x>>
        BY <3>5
      <4> HIDE DEF x
      <4>2. Joined(<<x>>, d) = x
        <5>1. <<x>> \in Pieces(A)
          BY <4>1 DEF Pieces
        <5> QED
          BY <1>1, <4>1, <5>1, JoinedAppend, Zenon
      <4> QED
        BY <2>6, <4>1, <4>2 DEF x
    <3> QED
      BY <3>2, <3>4, <3>6
  <2>9. ASSUME IsNumber(a), IsNumber(b), Len(b) <= Decimals
        PROVE  IsWithinSupply(t) <=> AtMostMax(TrimStart(a, "0"), b)
    BY <2>5, <2>7, <2>9, Zenon DEF IsWithinSupply
  <2> QED
    BY <2>4, <2>8, <2>9
<1>9. ASSUME ~(t \in Seq(A \ {d}))
      PROVE  \E a \in Seq(A \ {d}), b \in Seq(A) : t = Around(a, d, b)
  <2>1. d \in A
    BY <1>1
  <2>2. t \in Seq(A)
    BY <1>1
  <2>3. ~(t \in Seq(A \ {d}))
    BY <1>9
  <2> HIDE DEF A, d
  <2> QED
    BY <2>1, <2>2, <2>3, FirstDelimiter
<1> QED
  BY <1>7, <1>8, <1>9, Zenon

-----------------------------------------------------------------------------
(* What is on the wire.                                                    *)

Symbols == Plain \cup Base64
Wire    == Symbols \cup {Escaped(s) : s \in Symbols}

\* What decode_component makes of a symbol.
Decoded(s) ==
  IF s = "+" THEN " "
  ELSE IF \E x \in Symbols : s = Escaped(x) THEN CHOOSE x \in Symbols : s = Escaped(x) ELSE s

LEMMA DecodedIs ==
  /\ \A s \in Wire : Decoded(s) \in Symbols
  /\ Decoded("+") = " "
  /\ \A s \in Symbols : s # "+" => Decoded(s) = s
  /\ \A s \in Symbols : Decoded(Escaped(s)) = s
<1>1. "+" \in Plain /\ " " \in Plain /\ Plain \subseteq Symbols
  BY DEF Plain, Delimiter, Symbols
<1>2. \A s \in Symbols : Escaped(s) \notin Symbols
  BY MarkAssumption DEF MarkAssumption, Symbols
<1>3. \A s, t \in Symbols : s # t => Escaped(s) # Escaped(t)
  BY MarkAssumption DEF MarkAssumption, Symbols
<1>4. Decoded("+") = " "
  BY DEF Decoded
<1>5. ASSUME NEW s \in Symbols, s # "+" PROVE Decoded(s) = s
  <2>1. ~ \E x \in Symbols : s = Escaped(x)
    BY <1>2
  <2> QED
    BY <1>5, <2>1, Zenon DEF Decoded
<1>6. ASSUME NEW s \in Symbols PROVE Decoded(Escaped(s)) = s
  <2>1. Escaped(s) # "+"
    BY <1>1, <1>2
  <2> DEFINE c == CHOOSE x \in Symbols : Escaped(s) = Escaped(x)
  <2>2. c \in Symbols /\ Escaped(s) = Escaped(c)
    OBVIOUS
  <2>3. c = s
    BY <1>3, <2>2
  <2>4. Decoded(Escaped(s)) = c
    BY <2>1, Zenon DEF Decoded
  <2> QED
    BY <2>3, <2>4
<1>7. ASSUME NEW s \in Wire PROVE Decoded(s) \in Symbols
  <2>1. CASE s = "+"
    BY <1>1, <1>4, <2>1
  <2>2. CASE s \in Symbols /\ s # "+"
    BY <1>5, <2>2
  <2>3. CASE s \notin Symbols
    <3>1. PICK x \in Symbols : s = Escaped(x)
      BY <2>3 DEF Wire
    <3> QED
      BY <1>6, <3>1
  <2> QED
    BY <2>1, <2>2, <2>3
<1> QED
  BY <1>4, <1>5, <1>6, <1>7

\* Symbols of Delimiter are no words, no base64 and no escapes.
LEMMA WireIs ==
  /\ Word \subseteq Symbols \ Delimiter /\ Base64 \subseteq Symbols \ Delimiter
  /\ Plain \subseteq Symbols /\ Symbols \subseteq Wire /\ Delimiter \subseteq Symbols
  /\ \A s \in Symbols : Escaped(s) \in Wire /\ Escaped(s) \notin Delimiter
  /\ \A s \in Wire : s \notin Scheme
<1>1. Plain \cap Base64 = {} /\ \A s \in Symbols : Escaped(s) \notin Symbols \cup Scheme /\ s \notin Scheme
  BY MarkAssumption DEF MarkAssumption, Symbols
<1>2. Word \subseteq Plain \ Delimiter /\ Delimiter \subseteq Plain
  BY Words DEF Plain
<1> QED
  BY <1>1, <1>2 DEF Symbols, Wire

\* A function on 1..n is a sequence.
LEMMA FunctionIsText ==
  ASSUME NEW A, NEW n \in Nat, NEW f \in [1..n -> A]
  PROVE  f \in Seq(A) /\ Len(f) = n
<1>1. Seq(A) = UNION {[1..m -> A] : m \in Nat}
  BY SeqDef, Zenon
<1>2. f \in Seq(A) /\ DOMAIN f = 1..n
  BY <1>1
<1> QED
  BY <1>2

LEMMA DecodeIs ==
  ASSUME NEW t \in Seq(Wire)
  PROVE  /\ decode_component(t) \in Seq(Symbols) /\ Len(decode_component(t)) = Len(t)
         /\ \A i \in 1..Len(t) : decode_component(t)[i] = Decoded(t[i])
<1> DEFINE n == Len(t)
           f == [i \in 1..n |-> Decoded(t[i])]
<1>1. n \in Nat /\ DOMAIN t = 1..n /\ \A i \in 1..n : t[i] \in Wire
  BY LenProperties, ElementOfSeq
<1>2. decode_component(t) = f
  BY <1>1, Zenon DEF decode_component, Decoded, Symbols
<1>3. f \in [1..n -> Symbols] /\ \A i \in 1..n : f[i] = Decoded(t[i])
  BY <1>1, DecodedIs
<1> HIDE DEF f, n
<1>4. f \in Seq(Symbols) /\ Len(f) = n
  BY <1>1, <1>3, FunctionIsText
<1> QED
  BY <1>2, <1>3, <1>4 DEF n

\* Without a plus and an escape there is nothing to decode.
LEMMA DecodeFixed ==
  ASSUME NEW t \in Seq(Symbols \ {"+"})
  PROVE  decode_component(t) = t
<1>1. t \in Seq(Wire)
  <2>1. Symbols \ {"+"} \subseteq Wire
    BY WireIs
  <2> QED
    BY <2>1, SeqMonotonic
<1>2. /\ decode_component(t) \in Seq(Symbols) /\ Len(decode_component(t)) = Len(t)
      /\ \A i \in 1..Len(t) : decode_component(t)[i] = Decoded(t[i])
  BY <1>1, DecodeIs
<1>3. \A i \in 1..Len(t) : t[i] \in Symbols /\ t[i] # "+"
  BY ElementOfSeq
<1> DEFINE c == decode_component(t)
<1>4. c \in Seq(Symbols) /\ Len(c) = Len(t) /\ \A i \in 1..Len(t) : c[i] = t[i]
  BY <1>2, <1>3, DecodedIs
<1> HIDE DEF c
<1>5. c = t
  BY <1>1, <1>4, SeqEqual
<1> QED
  BY <1>5 DEF c

-----------------------------------------------------------------------------
(* Spaces around a value.                                                  *)

\* What is trimmed of the end of a text is behind it.
TrimsEnd(A, t, d, m) ==
  /\ TrimEnd(t, d) = SubSeq(t, 1, m)
  /\ TrimEnd(t, d) \in Seq(A) /\ Len(TrimEnd(t, d)) = m
  /\ \A i \in 1..m : TrimEnd(t, d)[i] = t[i]
  /\ \A i \in (m + 1)..Len(t) : t[i] = d
  /\ m > 0 => t[m] # d

LEMMA TrimEndAt ==
  ASSUME NEW A, NEW t \in Seq(A), NEW d
  PROVE  \E m \in 0..Len(t) : TrimsEnd(A, t, d, m)
<1> USE DEF TrimsEnd
<1> DEFINE n == Len(t)
           other == {k \in Nat : k < n /\ t[n - k] # d}
           S == {i \in DOMAIN t : \A j \in i..n : t[j] = d}
<1>1. n \in Nat /\ DOMAIN t = 1..n /\ \A i \in 1..n : t[i] \in A
  BY LenProperties
<1>2. \E m \in 0..n : S = (m + 1)..n /\ (\A i \in (m + 1)..n : t[i] = d) /\ (m > 0 => t[m] # d)
  <2>1. CASE other = {}
    <3>1. \A i \in 1..n : t[i] = d
      <4> SUFFICES ASSUME NEW i \in 1..n, t[i] # d PROVE FALSE
        OBVIOUS
      <4>1. n - i \in Nat /\ n - i < n /\ n - (n - i) = i
        BY <1>1
      <4>2. n - i \in other
        BY <4>1
      <4> QED
        BY <2>1, <4>2
    <3>2. S = 1..n
      <4> HIDE DEF n
      <4>1. \A i \in 1..n : \A j \in i..n : j \in 1..n
        BY <1>1
      <4> QED
        BY <1>1, <3>1, <4>1
    <3>3. 0 \in 0..n /\ ~(0 > 0) /\ 0 + 1 = 1
      BY <1>1
    <3> HIDE DEF S, n
    <3> QED
      BY <3>1, <3>2, <3>3
  <2>2. CASE other # {}
    <3>1. PICK k \in other : \A i \in other : k <= i
      <4>1. other \in SUBSET Nat
        OBVIOUS
      <4> HIDE DEF other
      <4> QED
        BY <2>2, <4>1, LeastNumber
    <3> DEFINE m == n - k
    <3>2. m \in 1..n /\ t[m] # d /\ k \in Nat
      BY <1>1, <3>1
    <3>3. \A i \in (m + 1)..n : t[i] = d
      <4> SUFFICES ASSUME NEW i \in (m + 1)..n, t[i] # d PROVE FALSE
        OBVIOUS
      <4>1. n - i \in Nat /\ n - i < n /\ n - (n - i) = i /\ ~(k <= n - i)
        BY <1>1, <3>2
      <4>2. n - i \in other
        BY <4>1
      <4> QED
        BY <3>1, <4>1, <4>2
    <3> HIDE DEF m, other
    <3>4. S = (m + 1)..n
      <4>1. ASSUME NEW i \in S PROVE i \in (m + 1)..n
        <5>1. i \in 1..n /\ \A j \in i..n : t[j] = d
          BY <1>1
        <5>2. m \notin i..n
          BY <3>2, <5>1
        <5> QED
          BY <1>1, <3>2, <5>1, <5>2
      <4>2. ASSUME NEW i \in (m + 1)..n PROVE i \in S
        <5>1. i \in 1..n /\ \A j \in i..n : j \in (m + 1)..n
          BY <1>1, <3>2
        <5> QED
          BY <1>1, <3>3, <5>1
      <4> HIDE DEF S
      <4> QED
        BY <4>1, <4>2
    <3>5. m \in 0..n
      BY <1>1, <3>2
    <3> HIDE DEF S
    <3> QED
      BY <3>2, <3>3, <3>4, <3>5
  <2> QED
    BY <2>1, <2>2
<1>3. PICK m \in 0..n : S = (m + 1)..n /\ (\A i \in (m + 1)..n : t[i] = d) /\ (m > 0 => t[m] # d)
  BY <1>2
<1>4. n - Cardinality(S) = m
  <2>1. m + 1 \in Int /\ n \in Int /\ (m + 1 > n => n - 0 = m) /\ n - (n - (m + 1) + 1) = m
    <3> HIDE DEF n
    <3>1. n \in Nat /\ m \in 0..n
      BY <1>1
    <3> QED
      BY <3>1
  <2>2. Cardinality((m + 1)..n) = IF m + 1 > n THEN 0 ELSE n - (m + 1) + 1
    BY <2>1, FS_Interval
  <2> HIDE DEF n
  <2> QED
    BY <1>3, <2>1, <2>2
<1>5. TrimEnd(t, d) = SubSeq(t, 1, m)
  <2>1. TrimEnd(t, d) = SubSeq(t, 1, n - Cardinality(S))
    BY DEF TrimEnd
  <2> QED
    BY <1>4, <2>1, Zenon
<1> DEFINE u == SubSeq(t, 1, m)
<1>6. u \in Seq(A) /\ Len(u) = m /\ \A i \in 1..m : u[i] = t[i]
  <2> HIDE DEF n
  <2>1. 1 \in Int /\ m \in Int /\ m - 1 + 1 = m /\ (~(1 <= m) => m = 0)
    BY <1>1
  <2>2. \A i \in 1..m : t[i] \in A
    BY <1>1
  <2>3. /\ u \in Seq(A) /\ Len(u) = IF 1 <= m THEN m - 1 + 1 ELSE 0
        /\ \A i \in 1..(m - 1 + 1) : u[i] = t[1 + i - 1]
    BY <2>1, <2>2, SubSeqProperties
  <2>4. \A i \in 1..m : 1 + i - 1 = i
    BY <1>1
  <2> QED
    BY <2>1, <2>3, <2>4
<1> HIDE DEF u, S
<1> QED
  BY <1>3, <1>5, <1>6 DEF u

LEMMA TrimEndSpace ==
  ASSUME NEW A, NEW t \in Seq(A), NEW d \in A
  PROVE  TrimEnd(Append(t, d), d) = TrimEnd(t, d)
<1> DEFINE n == Len(t)
           u == Append(t, d)
           a == TrimEnd(t, d)
           b == TrimEnd(u, d)
<1>1. n \in Nat /\ u \in Seq(A) /\ Len(u) = n + 1 /\ u[n + 1] = d /\ \A i \in 1..n : u[i] = t[i]
  BY AppendProperties, LenProperties
<1>2. PICK m \in 0..n :
         /\ a \in Seq(A) /\ Len(a) = m
         /\ \A i \in 1..m : a[i] = t[i]
         /\ \A i \in (m + 1)..n : t[i] = d
         /\ m > 0 => t[m] # d
  <2>1. PICK m \in 0..n : TrimsEnd(A, t, d, m)
    BY TrimEndAt, Zenon
  <2> QED
    BY <2>1, Zenon DEF TrimsEnd
<1>3. PICK k \in 0..(n + 1) :
         /\ b \in Seq(A) /\ Len(b) = k
         /\ \A i \in 1..k : b[i] = u[i]
         /\ \A i \in (k + 1)..(n + 1) : u[i] = d
         /\ k > 0 => u[k] # d
  <2>1. u \in Seq(A)
    BY <1>1
  <2> HIDE DEF u
  <2>2. PICK k \in 0..Len(u) : TrimsEnd(A, u, d, k)
    BY <2>1, TrimEndAt, Zenon
  <2>3. Len(u) = n + 1
    BY <1>1
  <2> QED
    BY <2>2, <2>3, Zenon DEF TrimsEnd
<1> HIDE DEF n, u, a, b
<1>4. k \in 0..n
  BY <1>1, <1>3
<1>5. k = m
  <2>1. ~(k < m)
    <3> SUFFICES ASSUME k < m PROVE FALSE
      OBVIOUS
    <3>1. m \in (k + 1)..(n + 1) /\ m \in 1..n /\ m > 0
      BY <1>1, <1>4
    <3> QED
      BY <1>1, <1>2, <1>3, <3>1
  <2>2. ~(m < k)
    <3> SUFFICES ASSUME m < k PROVE FALSE
      OBVIOUS
    <3>1. k \in (m + 1)..n /\ k \in 1..n /\ k > 0
      BY <1>1, <1>4
    <3> QED
      BY <1>1, <1>2, <1>3, <3>1
  <2> QED
    BY <1>1, <1>4, <2>1, <2>2
<1>6. \A i \in 1..m : a[i] = b[i]
  <2>1. \A i \in 1..m : i \in 1..n
    BY <1>1
  <2> QED
    BY <1>1, <1>2, <1>3, <1>5, <2>1
<1>7. a = b
  BY <1>2, <1>3, <1>5, <1>6, SeqEqual
<1> QED
  BY <1>7 DEF a, b, u

LEMMA TrimBoth ==
  ASSUME NEW A, NEW t \in Seq(A), NEW d \in A
  PROVE  TrimEnd(TrimStart(Append(t, d), d), d) = TrimEnd(TrimStart(t, d), d)
<1> DEFINE n == Len(t)
           u == Append(t, d)
           a == TrimStart(t, d)
           b == TrimStart(u, d)
<1>1. n \in Nat /\ u \in Seq(A) /\ Len(u) = n + 1 /\ u[n + 1] = d /\ \A i \in 1..n : u[i] = t[i]
  BY AppendProperties, LenProperties
<1>2. PICK k \in 0..n :
         /\ a \in Seq(A) /\ Len(a) = n - k
         /\ \A i \in 1..k : t[i] = d
         /\ \A i \in 1..(n - k) : a[i] = t[i + k]
         /\ k < n => t[k + 1] # d
  <2>1. PICK k \in 0..n : TrimsStart(A, t, d, k)
    BY TrimStartIs, Zenon
  <2> QED
    BY <2>1, Zenon DEF TrimsStart
<1>3. PICK l \in 0..Len(u) :
         /\ b \in Seq(A) /\ Len(b) = Len(u) - l
         /\ \A i \in 1..l : u[i] = d
         /\ \A i \in 1..(Len(u) - l) : b[i] = u[i + l]
         /\ l < Len(u) => u[l + 1] # d
  <2>1. u \in Seq(A)
    BY <1>1
  <2> HIDE DEF u
  <2>2. PICK l \in 0..Len(u) : TrimsStart(A, u, d, l)
    BY <2>1, TrimStartIs, Zenon
  <2> QED
    BY <2>2, Zenon DEF TrimsStart
<1>4. d \in A
  OBVIOUS
<1> HIDE DEF n, u, a, b
<1>5. CASE k < n
  <2>1. l = k
    <3>1. ~(l < k)
      <4> SUFFICES ASSUME l < k PROVE FALSE
        OBVIOUS
      <4>1. l + 1 \in 1..k /\ l + 1 \in 1..n /\ l < n + 1
        BY <1>1, <1>5
      <4> QED
        BY <1>1, <1>2, <1>3, <4>1
    <3>2. ~(k < l)
      <4> SUFFICES ASSUME k < l PROVE FALSE
        OBVIOUS
      <4>1. k + 1 \in 1..l /\ k + 1 \in 1..n
        BY <1>1, <1>5
      <4> QED
        BY <1>1, <1>2, <1>3, <1>5, <4>1
    <3> QED
      BY <1>1, <3>1, <3>2
  <2> DEFINE c == Append(a, d)
             r == n - k
  <2>2. r \in Nat /\ Len(a) = r /\ Len(b) = r + 1
    BY <1>1, <1>2, <1>3, <2>1
  <2>3. c \in Seq(A) /\ Len(c) = r + 1 /\ c[r + 1] = d /\ \A i \in 1..r : c[i] = a[i]
    <3> HIDE DEF r
    <3> QED
      BY <1>2, <1>4, <2>2, AppendProperties
  <2> HIDE DEF c
  <2>4. ASSUME NEW i \in 1..(r + 1) PROVE b[i] = c[i]
    <3>1. b[i] = u[i + k]
      BY <1>1, <1>3, <2>1
    <3>2. CASE i = r + 1
      <4>1. i + k = n + 1
        BY <1>1, <3>2
      <4> QED
        BY <1>1, <2>3, <3>1, <3>2, <4>1
    <3>3. CASE i # r + 1
      <4>1. i \in 1..r /\ i + k \in 1..n
        BY <1>1, <3>3
      <4> QED
        BY <1>1, <1>2, <2>3, <3>1, <4>1
    <3> QED
      BY <3>2, <3>3
  <2>5. b = c
    <3> HIDE DEF r
    <3> QED
      BY <1>3, <2>2, <2>3, <2>4, SeqEqual
  <2>6. TrimEnd(c, d) = TrimEnd(a, d)
    <3>1. TrimEnd(Append(a, d), d) = TrimEnd(a, d)
      BY <1>2, <1>4, TrimEndSpace
    <3> QED
      BY <3>1 DEF c
  <2> QED
    BY <2>5, <2>6, Zenon DEF u, a, b
<1>6. CASE ~(k < n)
  <2>1. k = n
    BY <1>1, <1>6
  <2>2. l = n + 1
    <3> SUFFICES ASSUME l < n + 1 PROVE FALSE
      BY <1>1
    <3>1. l + 1 \in 1..n \/ l + 1 = n + 1
      BY <1>1
    <3>2. u[l + 1] = d
      BY <1>1, <1>2, <2>1, <3>1
    <3>3. l < Len(u)
      BY <1>1
    <3> QED
      BY <1>3, <3>2, <3>3
  <2>3. Len(a) = 0 /\ Len(b) = 0
    BY <1>1, <1>2, <1>3, <2>1, <2>2
  <2>4. a = b
    BY <1>2, <1>3, <2>3, EmptySeq
  <2> QED
    BY <2>4, Zenon DEF u, a, b
<1> QED
  BY <1>5, <1>6

\* A text without spaces stays as it is.
LEMMA TrimNothing ==
  ASSUME NEW A, NEW t \in Seq(A), NEW d, d \notin A
  PROVE  TrimEnd(TrimStart(t, d), d) = t
<1> DEFINE n == Len(t)
<1>1. n \in Nat /\ \A i \in 1..n : t[i] \in A
  BY LenProperties, ElementOfSeq
<1>2. d \notin A
  OBVIOUS
<1>3. PICK k \in 0..n :
         TrimStart(t, d) = SubSeq(t, 1 + k, n) /\ \A i \in 1..k : t[i] = d
  <2>1. PICK k \in 0..n : TrimsStart(A, t, d, k)
    BY TrimStartIs, Zenon
  <2> QED
    BY <2>1, Zenon DEF TrimsStart
<1> HIDE DEF n
<1>4. k = 0
  <2> SUFFICES ASSUME k # 0 PROVE FALSE
    OBVIOUS
  <2>1. 1 \in 1..k /\ 1 \in 1..n
    BY <1>1
  <2> QED
    BY <1>1, <1>2, <1>3, <2>1
<1>5. TrimStart(t, d) = t
  <2>1. 1 + k = 1
    BY <1>4
  <2>2. SubSeq(t, 1, Len(t)) = t
    BY SubSeqFull
  <2> QED
    BY <1>3, <2>1, <2>2, Zenon DEF n
<1>6. TrimEnd(t, d) = t
  <2>1. t = << >> \/ t[n] # d
    <3>1. CASE n = 0
      BY <3>1, EmptySeq DEF n
    <3>2. CASE n # 0
      <4>1. n \in 1..n
        BY <1>1, <3>2
      <4> QED
        BY <1>1, <1>2, <4>1
    <3> QED
      BY <3>1, <3>2
  <2> QED
    BY <2>1, TrimEndIs DEF n
<1> QED
  BY <1>5, <1>6, Zenon

\* A space behind a value does not count.
LEMMA TrimSpace ==
  ASSUME NEW A, NEW t \in Seq(A), " " \in A
  PROVE  Trim(Append(t, " ")) = Trim(t)
BY TrimBoth, Zenon DEF Trim

LEMMA TrimFixed ==
  ASSUME NEW A, NEW t \in Seq(A), " " \notin A
  PROVE  Trim(t) = t
BY TrimNothing, Zenon DEF Trim

-----------------------------------------------------------------------------
(* The fields of a query.                                                  *)

\* The key and the value of a parameter, and the places of a key.
Key(p) == decode_component(SplitOnce(p, "=")[1])
Val(p) == decode_component(SplitOnce(p, "=")[2])

Places(params, key) == {i \in DOMAIN params : Key(params[i]) = <<key>>}

\* What a wallet reads under a key.
Reads(q, key) == FirstField(QueryFields(q), key)

\* A parameter is a text of the wire, and so are its key and its value.
LEMMA SplitOnceIs ==
  ASSUME NEW A, NEW d \in A, NEW t \in Seq(A)
  PROVE  /\ SplitOnce(t, d)[1] \in Seq(A) /\ SplitOnce(t, d)[2] \in Seq(A)
         /\ SplitOnce(<< >>, d) = << << >>, << >> >>
<1>1. << >> \in Seq(A \ {d}) /\ << >> \in Seq(A)
  BY EmptySeq
<1>2. SplitOnce(<< >>, d) = << << >>, << >> >>
  BY <1>1, SplitNone, Zenon
<1>3. CASE t \in Seq(A \ {d})
  <2>1. SplitOnce(t, d) = <<t, << >> >>
    BY <1>3, SplitNone, Zenon
  <2>2. SplitOnce(t, d)[1] = t /\ SplitOnce(t, d)[2] = << >>
    BY <2>1
  <2> QED
    BY <1>1, <1>2, <2>2, Zenon
<1>4. CASE ~(t \in Seq(A \ {d}))
  <2>1. PICK a \in Seq(A \ {d}), b \in Seq(A) : t = Around(a, d, b)
    BY <1>4, FirstDelimiter
  <2>2. SplitOnce(Around(a, d, b), d) = <<a, b>>
    BY <2>1, SplitFirst, Zenon
  <2>3. SplitOnce(t, d)[1] = a /\ SplitOnce(t, d)[2] = b
    BY <2>1, <2>2
  <2>4. a \in Seq(A)
    BY <2>1, SeqMonotonic
  <2> QED
    BY <1>2, <2>3, <2>4, Zenon
<1> QED
  BY <1>3, <1>4

LEMMA DelimitersOfQueries ==
  /\ "&" \in Wire /\ "=" \in Wire /\ "?" \in Wire /\ "+" \in Wire
  /\ Wire \ {"&"} \in SUBSET Wire
<1>1. {"&", "=", "?", "+"} \subseteq Delimiter
  BY Zenon DEF Delimiter
<1> QED
  BY <1>1, WireIs

LEMMA NoKey == Key(<< >>) = << >>
<1>1. << >> \in Seq(Wire) /\ << >> \in Seq(Symbols \ {"+"})
  BY EmptySeq
<1>2. SplitOnce(<< >>, "=") = << << >>, << >> >>
  BY <1>1, DelimitersOfQueries, SplitOnceIs, Zenon
<1>3. SplitOnce(<< >>, "=")[1] = << >>
  BY <1>2
<1>4. decode_component(<< >>) = << >>
  BY <1>1, DecodeFixed, Zenon
<1> QED
  BY <1>3, <1>4, Zenon DEF Key

LEMMA ParamsAre ==
  ASSUME NEW q \in Seq(Wire)
  PROVE  /\ Split(q, "&") \in Pieces(Wire \ {"&"}) /\ Split(q, "&") \in Pieces(Wire)
         /\ Split(q, "&") \in Seq(Seq(Wire)) /\ Split(q, "&") # << >>
<1>1. Split(q, "&") \in Pieces(Wire \ {"&"})
  BY DelimitersOfQueries, JoinedSplit, Zenon
<1>2. Split(q, "&") \in Pieces(Wire)
  BY <1>1, DelimitersOfQueries, PiecesLarger, Zenon
<1> QED
  BY <1>1, <1>2 DEF Pieces

\* The first place of a key is what is read.
LEMMA ReadsAre ==
  ASSUME NEW q \in Seq(Wire), NEW key
  PROVE  /\ Places(Split(q, "&"), key) = {} => Reads(q, key) = << >>
         /\ \A m \in Places(Split(q, "&"), key) :
              (\A i \in Places(Split(q, "&"), key) : m <= i) =>
                Reads(q, key) = Trim(Val(Split(q, "&")[m]))
<1> DEFINE ps == Split(q, "&")
           some == {j \in DOMAIN ps : ps[j] # << >>}
           fields == [i \in some |-> <<Key(ps[i]), Val(ps[i])>>]
           found == {i \in DOMAIN fields : fields[i][1] = <<key>>}
           P == Places(ps, key)
<1>1. QueryFields(q) = fields
  BY Zenon DEF QueryFields, Key, Val
<1>2. ps \in Seq(Seq(Wire)) /\ DOMAIN ps = 1..Len(ps) /\ Len(ps) \in Nat
  <2>1. ps \in Seq(Seq(Wire))
    BY ParamsAre, Zenon
  <2> HIDE DEF ps
  <2> QED
    BY <2>1, LenProperties
<1> HIDE DEF ps
<1>3. found = P
  <2>1. << >> # <<key>>
    OBVIOUS
  <2>2. \A i \in P : i \in some
    BY <2>1, NoKey, Zenon DEF Places
  <2>3. DOMAIN fields = some /\ \A i \in some : fields[i][1] = Key(ps[i])
    OBVIOUS
  <2>4. found = {i \in some : Key(ps[i]) = <<key>>}
    <3> HIDE DEF fields, some
    <3> QED
      BY <2>3
  <2>5. P = {i \in DOMAIN ps : Key(ps[i]) = <<key>>}
    BY DEF Places
  <2> HIDE DEF P, found, fields
  <2> QED
    BY <2>2, <2>4, <2>5
<1>4. Reads(q, key) = IF found = {} THEN << >> ELSE Trim(fields[Min(found)][2])
  <2> HIDE DEF fields
  <2> QED
    BY <1>1, Zenon DEF Reads, FirstField
<1>5. CASE P = {}
  <2> HIDE DEF fields, found, P
  <2>1. Reads(q, key) = << >> /\ ~ \E m \in P : TRUE
    BY <1>3, <1>4, <1>5
  <2> QED
    BY <2>1, Zenon DEF P, ps
<1>6. ASSUME NEW m \in P, \A i \in P : m <= i PROVE Reads(q, key) = Trim(Val(ps[m]))
  <2>1. P \subseteq Nat
    <3>1. P \subseteq DOMAIN ps
      BY DEF Places
    <3> HIDE DEF P
    <3> QED
      BY <1>2, <3>1
  <2> HIDE DEF P
  <2>2. Min(P) = m
    <3> DEFINE c == CHOOSE x \in P : \A y \in P : x <= y
    <3>1. Min(P) = c
      BY DEF Min
    <3>2. c \in P /\ \A y \in P : c <= y
      BY <1>6
    <3> HIDE DEF c
    <3>3. c <= m /\ m <= c /\ c \in Nat /\ m \in Nat
      BY <1>6, <2>1, <3>2
    <3> QED
      BY <3>1, <3>3
  <2>3. m \in some
    <3>1. m \in found
      BY <1>3, <1>6
    <3> QED
      BY <3>1
  <2>4. fields[m][2] = Val(ps[m])
    BY <2>3
  <2> HIDE DEF fields, found
  <2>5. found # {}
    BY <1>3, <1>6
  <2>6. Min(found) = m
    BY <1>3, <2>2
  <2> QED
    BY <1>4, <2>4, <2>5, <2>6, Zenon
<1> QED
  BY <1>5, <1>6, Zenon DEF P, ps

\* The places of a key, if there are any, have a first one.
LEMMA FirstPlace ==
  ASSUME NEW q \in Seq(Wire), NEW key, Places(Split(q, "&"), key) # {}
  PROVE  \E m \in Places(Split(q, "&"), key) : \A i \in Places(Split(q, "&"), key) : m <= i
<1> DEFINE P == Places(Split(q, "&"), key)
<1>1. P \in SUBSET Nat
  <2>1. Split(q, "&") \in Seq(Seq(Wire))
    BY ParamsAre, Zenon
  <2>2. DOMAIN Split(q, "&") \subseteq Nat
    BY <2>1, LenProperties
  <2> QED
    BY <2>2, Zenon DEF Places
<1> HIDE DEF P
<1> QED
  BY <1>1, LeastNumber DEF P

\* A query that has the parameters of another at the same distance reads
\* alike, when what it has before them has not the key, and what it has behind
\* them comes too late.
LEMMA ReadShift ==
  ASSUME NEW q \in Seq(Wire), NEW r \in Seq(Wire), NEW k \in Nat, NEW key,
         NEW ps, ps = Split(q, "&"), NEW rs, rs = Split(r, "&"),
         \A i \in DOMAIN ps : /\ i + k \in DOMAIN rs /\ Key(rs[i + k]) = Key(ps[i])
                              /\ Trim(Val(rs[i + k])) = Trim(Val(ps[i])),
         \A j \in DOMAIN rs : Key(rs[j]) = <<key>> =>
            \/ \E i \in DOMAIN ps : j = i + k
            \/ Places(ps, key) # {} /\ j > Len(ps) + k
  PROVE  Reads(r, key) = Reads(q, key)
<1> DEFINE P == Places(ps, key)
           R == Places(rs, key)
<1>1. /\ DOMAIN ps = 1..Len(ps) /\ Len(ps) \in Nat /\ DOMAIN rs = 1..Len(rs) /\ Len(rs) \in Nat
  <2>1. ps \in Seq(Seq(Wire)) /\ rs \in Seq(Seq(Wire))
    BY ParamsAre, Zenon
  <2> QED
    BY <2>1, LenProperties
<1>2. P = {i \in DOMAIN ps : Key(ps[i]) = <<key>>} /\ R = {i \in DOMAIN rs : Key(rs[i]) = <<key>>}
  BY DEF Places
<1>3. /\ P = {} => Reads(q, key) = << >>
      /\ R = {} => Reads(r, key) = << >>
      /\ \A m \in P : (\A i \in P : m <= i) => Reads(q, key) = Trim(Val(ps[m]))
      /\ \A m \in R : (\A i \in R : m <= i) => Reads(r, key) = Trim(Val(rs[m]))
  BY ReadsAre, Zenon
<1>4. P # {} => \E m \in P : \A i \in P : m <= i
  <2> SUFFICES ASSUME P # {} PROVE \E m \in P : \A i \in P : m <= i
    OBVIOUS
  <2>1. Places(Split(q, "&"), key) # {}
    BY Zenon
  <2>2. \E m \in Places(Split(q, "&"), key) : \A i \in Places(Split(q, "&"), key) : m <= i
    BY <2>1, FirstPlace, Zenon
  <2> QED
    BY <2>2, Zenon
<1>5. CASE P = {}
  <2>1. R = {}
    <3> SUFFICES ASSUME NEW j \in R PROVE FALSE
      OBVIOUS
    <3>1. j \in DOMAIN rs /\ Key(rs[j]) = <<key>>
      BY <1>2
    <3>2. PICK i \in DOMAIN ps : j = i + k
      BY <1>5, <3>1
    <3>3. Key(ps[i]) = <<key>>
      BY <3>1, <3>2
    <3>4. i \in P
      BY <1>2, <3>3, Zenon
    <3> QED
      BY <1>5, <3>4
  <2> QED
    BY <1>3, <1>5, <2>1, Zenon
<1>6. CASE P # {}
  <2>1. PICK m \in P : \A i \in P : m <= i
    BY <1>4, <1>6, Zenon
  <2>2. m \in DOMAIN ps /\ Key(ps[m]) = <<key>>
    BY <1>2, <2>1, Zenon
  <2>3. m + k \in DOMAIN rs /\ Key(rs[m + k]) = <<key>> /\ Trim(Val(rs[m + k])) = Trim(Val(ps[m]))
    BY <2>2
  <2>4. m + k \in R
    BY <1>2, <2>3, Zenon
  <2>5. ASSUME NEW j \in R PROVE m + k <= j
    <3>1. j \in DOMAIN rs /\ Key(rs[j]) = <<key>>
      BY <1>2
    <3>2. CASE \E i \in DOMAIN ps : j = i + k
      <4>1. PICK i \in DOMAIN ps : j = i + k
        BY <3>2
      <4>2. i \in P
        <5>1. Key(ps[i]) = <<key>>
          BY <3>1, <4>1
        <5> QED
          BY <1>2, <5>1, Zenon
      <4>3. m <= i /\ m \in Nat /\ i \in Nat
        <5>1. m <= i
          BY <2>1, <4>2
        <5> HIDE DEF P
        <5> QED
          BY <1>1, <2>2, <4>1, <5>1
      <4> QED
        BY <4>1, <4>3
    <3>3. CASE j > Len(ps) + k
      BY <1>1, <2>2, <3>1, <3>3
    <3> QED
      BY <3>1, <3>2, <3>3
  <2>6. Reads(q, key) = Trim(Val(ps[m]))
    BY <1>3, <2>1, Zenon
  <2>7. Reads(r, key) = Trim(Val(rs[m + k]))
    BY <1>3, <2>4, <2>5, Zenon
  <2> QED
    BY <2>3, <2>6, <2>7, Zenon
<1> QED
  BY <1>5, <1>6

\* One sequence before another.
LEMMA OneBefore ==
  ASSUME NEW T, NEW p \in T, NEW ps \in Seq(T)
  PROVE  /\ <<p>> \o ps \in Seq(T) /\ Len(<<p>> \o ps) = 1 + Len(ps) /\ Len(ps) \in Nat
         /\ (<<p>> \o ps)[1] = p
         /\ \A i \in 1..Len(ps) : (<<p>> \o ps)[i + 1] = ps[i]
<1> DEFINE v == <<p>>
<1>1. v \in Seq(T) /\ Len(v) = 1 /\ v[1] = p
  OBVIOUS
<1> HIDE DEF v
<1>2. /\ v \o ps \in Seq(T) /\ Len(v \o ps) = Len(v) + Len(ps) /\ Len(ps) \in Nat
      /\ \A i \in 1..Len(v) : (v \o ps)[i] = v[i]
      /\ \A i \in (Len(v) + 1)..(Len(v) + Len(ps)) : (v \o ps)[i] = ps[i - Len(v)]
  <2>1. v \in Seq(T)
    BY <1>1
  <2> QED
    BY <2>1, ConcatIs, Zenon
<1> DEFINE w == v \o ps
           n == Len(ps)
<1>3. /\ w \in Seq(T) /\ Len(w) = 1 + n /\ n \in Nat
      /\ \A i \in 1..1 : w[i] = v[i]
      /\ \A i \in 2..(1 + n) : w[i] = ps[i - 1]
  <2>1. 1 + 1 = 2
    OBVIOUS
  <2> QED
    BY <1>1, <1>2, <2>1, Zenon
<1> HIDE DEF w, n
<1>4. \A i \in 1..n : w[i + 1] = ps[i]
  <2>1. \A i \in 1..n : i + 1 \in 2..(1 + n) /\ (i + 1) - 1 = i
    BY <1>3
  <2> QED
    BY <1>3, <2>1
<1>5. w[1] = p
  BY <1>1, <1>3
<1> QED
  BY <1>3, <1>4, <1>5 DEF w, n, v

\* What is put before a query is read first, and under its own key only.
LEMMA ReadNext ==
  ASSUME NEW p \in Seq(Wire \ {"&"}), NEW q \in Seq(Wire), NEW key
  PROVE  /\ Around(p, "&", q) \in Seq(Wire)
         /\ Key(p) = <<key>> => Reads(Around(p, "&", q), key) = Trim(Val(p))
         /\ Key(p) # <<key>> => Reads(Around(p, "&", q), key) = Reads(q, key)
<1> DEFINE r == Around(p, "&", q)
           ps == Split(q, "&")
           rs == Split(r, "&")
           T == Seq(Wire)
<1>1. r \in Seq(Wire)
  <2>1. p \in Seq(Wire) /\ <<"&">> \in Seq(Wire)
    <3>1. <<"&">> \in Seq(Wire)
      BY DelimitersOfQueries
    <3> QED
      BY <3>1, DelimitersOfQueries, SeqMonotonic
  <2>2. p \o <<"&">> \in Seq(Wire)
    BY <2>1, ConcatIs, Zenon
  <2> QED
    BY <2>2, ConcatIs, Zenon DEF Around
<1>2. p \in T /\ ps \in Seq(T) /\ rs \in Seq(T)
  <2>1. p \in T
    BY DelimitersOfQueries, SeqMonotonic
  <2> QED
    BY <1>1, <2>1, ParamsAre, Zenon
<1>3. rs = <<p>> \o ps
  BY DelimitersOfQueries, SplitFirst, Zenon
<1> HIDE DEF r, ps, rs, T
<1>4. /\ Len(rs) = 1 + Len(ps) /\ Len(ps) \in Nat /\ rs[1] = p
      /\ \A i \in 1..Len(ps) : rs[i + 1] = ps[i]
  <2>1. p \in T /\ ps \in Seq(T)
    BY <1>2
  <2>2. /\ Len(<<p>> \o ps) = 1 + Len(ps) /\ Len(ps) \in Nat /\ (<<p>> \o ps)[1] = p
        /\ \A i \in 1..Len(ps) : (<<p>> \o ps)[i + 1] = ps[i]
    BY <2>1, OneBefore
  <2> QED
    BY <1>3, <2>2, Zenon
<1>5. DOMAIN rs = 1..(1 + Len(ps)) /\ DOMAIN ps = 1..Len(ps)
  BY <1>2, <1>4, LenProperties
<1>6. ASSUME Key(p) = <<key>> PROVE Reads(r, key) = Trim(Val(p))
  <2>1. 1 \in DOMAIN rs /\ \A i \in DOMAIN rs : 1 <= i
    BY <1>4, <1>5
  <2>2. 1 \in Places(rs, key) /\ \A i \in Places(rs, key) : 1 <= i
    BY <1>4, <1>6, <2>1, Zenon DEF Places
  <2>3. Reads(r, key) = Trim(Val(rs[1]))
    BY <1>1, <2>2, ReadsAre, Zenon DEF rs
  <2> QED
    BY <1>4, <2>3, Zenon
<1>7. ASSUME Key(p) # <<key>> PROVE Reads(r, key) = Reads(q, key)
  <2>1. \A i \in DOMAIN ps : /\ i + 1 \in DOMAIN rs /\ Key(rs[i + 1]) = Key(ps[i])
                             /\ Trim(Val(rs[i + 1])) = Trim(Val(ps[i]))
    <3>1. \A i \in DOMAIN ps : i + 1 \in DOMAIN rs
      BY <1>4, <1>5
    <3> QED
      BY <1>4, <1>5, <3>1, Zenon
  <2>2. \A j \in DOMAIN rs : Key(rs[j]) = <<key>> =>
          \/ \E i \in DOMAIN ps : j = i + 1
          \/ Places(ps, key) # {} /\ j > Len(ps) + 1
    <3> SUFFICES ASSUME NEW j \in DOMAIN rs, Key(rs[j]) = <<key>>
                 PROVE  \E i \in DOMAIN ps : j = i + 1
      OBVIOUS
    <3>1. j # 1
      BY <1>4, <1>7
    <3>2. j - 1 \in DOMAIN ps /\ j = (j - 1) + 1
      BY <1>4, <1>5, <3>1
    <3> QED
      BY <3>2
  <2>3. 1 \in Nat
    OBVIOUS
  <2> QED
    BY <1>1, <2>1, <2>2, <2>3, ReadShift DEF ps, rs
<1> QED
  BY <1>1, <1>6, <1>7 DEF r

\* What is put behind a query is read last.
LEMMA ReadLast ==
  ASSUME NEW p \in Seq(Wire \ {"&"}), NEW q \in Seq(Wire), NEW key,
         Reads(q, key) # << >> \/ Key(p) # <<key>>
  PROVE  /\ Around(q, "&", p) \in Seq(Wire)
         /\ Reads(Around(q, "&", p), key) = Reads(q, key)
<1> DEFINE r == Around(q, "&", p)
           ps == Split(q, "&")
           rs == Split(r, "&")
           T == Seq(Wire)
<1>1. p \in T
  BY DelimitersOfQueries, SeqMonotonic
<1>2. r \in Seq(Wire)
  <2>1. <<"&">> \in Seq(Wire)
    BY DelimitersOfQueries
  <2>2. q \o <<"&">> \in Seq(Wire)
    BY <2>1, ConcatIs, Zenon
  <2> QED
    BY <1>1, <2>2, ConcatIs, Zenon DEF Around
<1>3. ps \in Seq(T) /\ rs \in Seq(T)
  BY <1>2, ParamsAre, Zenon
<1>4. rs = Append(ps, p)
  BY DelimitersOfQueries, SplitLast, Zenon
<1> HIDE DEF r, ps, rs, T
<1>5. /\ Len(ps) \in Nat /\ DOMAIN ps = 1..Len(ps) /\ DOMAIN rs = 1..(Len(ps) + 1)
      /\ rs[Len(ps) + 1] = p /\ \A i \in 1..Len(ps) : rs[i] = ps[i]
  BY <1>1, <1>3, <1>4, AppendProperties, LenProperties
<1>6. \A i \in DOMAIN ps : /\ i + 0 \in DOMAIN rs /\ Key(rs[i + 0]) = Key(ps[i])
                           /\ Trim(Val(rs[i + 0])) = Trim(Val(ps[i]))
  <2>1. \A i \in DOMAIN ps : i + 0 = i /\ i \in DOMAIN rs
    BY <1>5
  <2> QED
    BY <1>5, <2>1, Zenon
<1>7. \A j \in DOMAIN rs : Key(rs[j]) = <<key>> =>
         \/ \E i \in DOMAIN ps : j = i + 0
         \/ Places(ps, key) # {} /\ j > Len(ps) + 0
  <2> SUFFICES ASSUME NEW j \in DOMAIN rs, Key(rs[j]) = <<key>>
               PROVE  \/ \E i \in DOMAIN ps : j = i + 0
                      \/ Places(ps, key) # {} /\ j > Len(ps) + 0
    OBVIOUS
  <2>1. CASE j \in DOMAIN ps
    <3>1. j = j + 0
      BY <1>5, <2>1
    <3> QED
      BY <2>1, <3>1
  <2>2. CASE j \notin DOMAIN ps
    <3>1. j = Len(ps) + 1
      BY <1>5, <2>2
    <3>2. Key(p) = <<key>>
      BY <1>5, <3>1
    <3>3. Places(ps, key) # {}
      BY <3>2, ReadsAre, Zenon DEF ps
    <3>4. j > Len(ps) + 0
      BY <1>5, <3>1
    <3> QED
      BY <3>3, <3>4
  <2> QED
    BY <2>1, <2>2
<1>8. Reads(r, key) = Reads(q, key)
  <2>1. 0 \in Nat
    OBVIOUS
  <2> QED
    BY <1>2, <1>6, <1>7, <2>1, ReadShift DEF ps, rs
<1> QED
  BY <1>2, <1>8 DEF r

\* Queries with the same keys and values read alike.
LEMMA ReadAlike ==
  ASSUME NEW q \in Seq(Wire), NEW r \in Seq(Wire), NEW key,
         Len(Split(q, "&")) = Len(Split(r, "&")),
         \A i \in 1..Len(Split(q, "&")) :
           /\ Key(Split(r, "&")[i]) = Key(Split(q, "&")[i])
           /\ Trim(Val(Split(r, "&")[i])) = Trim(Val(Split(q, "&")[i]))
  PROVE  Reads(r, key) = Reads(q, key)
<1> DEFINE ps == Split(q, "&")
           rs == Split(r, "&")
           T == Seq(Wire)
<1>1. ps \in Seq(T) /\ rs \in Seq(T)
  BY ParamsAre, Zenon
<1>2. /\ Len(ps) = Len(rs)
      /\ \A i \in 1..Len(ps) : Key(rs[i]) = Key(ps[i]) /\ Trim(Val(rs[i])) = Trim(Val(ps[i]))
  OBVIOUS
<1> HIDE DEF ps, rs, T
<1>3. Len(ps) \in Nat /\ DOMAIN ps = 1..Len(ps) /\ DOMAIN rs = 1..Len(ps)
  BY <1>1, <1>2, LenProperties
<1>4. \A i \in DOMAIN ps : /\ i + 0 \in DOMAIN rs /\ Key(rs[i + 0]) = Key(ps[i])
                           /\ Trim(Val(rs[i + 0])) = Trim(Val(ps[i]))
  <2>1. \A i \in DOMAIN ps : i + 0 = i /\ i \in DOMAIN rs
    BY <1>3
  <2> QED
    BY <1>2, <1>3, <2>1, Zenon
<1>5. \A j \in DOMAIN rs : Key(rs[j]) = <<key>> =>
         \/ \E i \in DOMAIN ps : j = i + 0
         \/ Places(ps, key) # {} /\ j > Len(ps) + 0
  <2>1. \A j \in DOMAIN rs : j \in DOMAIN ps /\ j = j + 0
    BY <1>3
  <2> QED
    BY <2>1, Zenon
<1>6. 0 \in Nat
  OBVIOUS
<1> QED
  BY <1>4, <1>5, <1>6, ReadShift DEF ps, rs

-----------------------------------------------------------------------------
(* Texts that decode alike.                                                *)

\* Two symbols decode alike, and are the same delimiter or none.
Alike(s, r) == Decoded(s) = Decoded(r) /\ \A d \in Delimiter : s = d <=> r = d

Same(t, u) ==
  /\ t \in Seq(Wire) /\ u \in Seq(Wire) /\ Len(t) = Len(u)
  /\ \A i \in 1..Len(t) : Alike(t[i], u[i])

SameParts(p, q) ==
  /\ p \in Pieces(Wire) /\ q \in Pieces(Wire) /\ Len(p) = Len(q)
  /\ \A i \in 1..Len(p) : Same(p[i], q[i])

LEMMA SameAppend ==
  ASSUME NEW t, NEW u, Same(t, u), NEW s \in Wire, NEW r \in Wire, Alike(s, r)
  PROVE  Same(Append(t, s), Append(u, r))
<1>1. /\ t \in Seq(Wire) /\ u \in Seq(Wire) /\ Len(t) = Len(u) /\ Len(t) \in Nat
      /\ \A i \in 1..Len(t) : Alike(t[i], u[i])
  BY LenProperties DEF Same
<1> DEFINE n == Len(t)
           v == Append(t, s)
           w == Append(u, r)
<1>2. /\ v \in Seq(Wire) /\ Len(v) = n + 1 /\ v[n + 1] = s /\ \A i \in 1..n : v[i] = t[i]
  BY <1>1, AppendProperties
<1>3. /\ w \in Seq(Wire) /\ Len(w) = n + 1 /\ w[n + 1] = r /\ \A i \in 1..n : w[i] = u[i]
  BY <1>1, AppendProperties
<1> HIDE DEF n, v, w
<1>4. \A i \in 1..(n + 1) : i \in 1..n \/ i = n + 1
  BY <1>1 DEF n
<1>5. \A i \in 1..(n + 1) : Alike(v[i], w[i])
  BY <1>1, <1>2, <1>3, <1>4, Zenon DEF n
<1>6. Same(v, w)
  BY <1>2, <1>3, <1>5, Zenon DEF Same
<1> QED
  BY <1>6 DEF v, w

LEMMA SameCutting ==
  ASSUME NEW p, NEW q, SameParts(p, q), NEW s \in Wire, NEW r \in Wire, Alike(s, r),
         NEW d \in Delimiter
  PROVE  SameParts(Cutting(p, s, d), Cutting(q, r, d))
<1> DEFINE n == Len(p)
           v == Cutting(p, s, d)
           w == Cutting(q, r, d)
           T == Seq(Wire)
<1>1. /\ p \in Seq(T) /\ q \in Seq(T) /\ Len(q) = n /\ n \in Nat /\ n # 0
      /\ p \in Pieces(Wire) /\ q \in Pieces(Wire)
      /\ \A i \in 1..n : Same(p[i], q[i])
  BY LenProperties, EmptySeq DEF SameParts, Pieces
<1>2. v \in Pieces(Wire) /\ w \in Pieces(Wire)
  BY <1>1, CuttingType, Zenon
<1>3. s = d <=> r = d
  BY DEF Alike
<1>4. CASE s = d
  <2> DEFINE e == << >>
  <2>1. v = Append(p, e) /\ w = Append(q, e)
    BY <1>3, <1>4, Zenon DEF Cutting
  <2>2. e \in T
    BY EmptySeq
  <2>3. Same(e, e)
    <3>1. Len(e) = 0 /\ 1..0 = {}
      OBVIOUS
    <3> QED
      BY <2>2, <3>1 DEF Same
  <2> HIDE DEF n, v, w, T, e
  <2>4. /\ Len(v) = n + 1 /\ v[n + 1] = e /\ \A i \in 1..n : v[i] = p[i]
        /\ Len(w) = n + 1 /\ w[n + 1] = e /\ \A i \in 1..n : w[i] = q[i]
    BY <1>1, <2>1, <2>2, AppendProperties DEF n
  <2>5. \A i \in 1..(n + 1) : i \in 1..n \/ i = n + 1
    BY <1>1
  <2>6. \A i \in 1..(n + 1) : Same(v[i], w[i])
    BY <1>1, <2>3, <2>4, <2>5, Zenon
  <2>7. SameParts(v, w)
    BY <1>2, <2>4, <2>6, Zenon DEF SameParts
  <2> QED
    BY <2>7 DEF v, w
<1>5. CASE s # d
  <2> DEFINE a == Append(p[n], s)
             b == Append(q[n], r)
  <2>1. v = [p EXCEPT ![n] = a] /\ w = [q EXCEPT ![n] = b]
    BY <1>1, <1>3, <1>5, Zenon DEF Cutting
  <2>2. Same(a, b)
    <3>1. n \in 1..n
      BY <1>1
    <3>2. Same(p[n], q[n])
      BY <1>1, <3>1, Zenon
    <3> QED
      BY <3>2, SameAppend
  <2> HIDE DEF n, v, w, T, a, b
  <2>3. DOMAIN p = 1..n /\ DOMAIN q = 1..n /\ v \in Seq(T) /\ w \in Seq(T)
    BY <1>1, <1>2, LenProperties DEF n, Pieces, T
  <2>4. DOMAIN v = 1..n /\ DOMAIN w = 1..n
    BY <2>1, <2>3
  <2>5. Len(v) = n /\ Len(w) = n
    BY <1>1, <2>3, <2>4
  <2>6. \A i \in 1..n : /\ v[i] = IF i = n THEN a ELSE p[i]
                        /\ w[i] = IF i = n THEN b ELSE q[i]
    BY <2>1, <2>3
  <2>7. \A i \in 1..n : Same(v[i], w[i])
    BY <1>1, <2>2, <2>6
  <2>8. SameParts(v, w)
    BY <1>2, <2>5, <2>7, Zenon DEF SameParts
  <2> QED
    BY <2>8 DEF v, w
<1> QED
  BY <1>4, <1>5

LEMMA SameSplit ==
  ASSUME NEW t, NEW u, Same(t, u), NEW d \in Delimiter
  PROVE  SameParts(Split(t, d), Split(u, d))
<1> DEFINE n == Len(t)
<1>1. /\ t \in Seq(Wire) /\ u \in Seq(Wire) /\ Len(u) = n /\ n \in Nat
      /\ \A i \in 1..n : Alike(t[i], u[i]) /\ t[i] \in Wire /\ u[i] \in Wire
  BY LenProperties, ElementOfSeq DEF Same
<1>2. PICK f \in [0..n -> Pieces(Wire)] :
        /\ f[0] = << << >> >>
        /\ \A i \in 1..n : f[i] = Cutting(f[i - 1], t[i], d)
        /\ Split(t, d) = f[n]
  <2>1. t \in Seq(Wire)
    BY <1>1
  <2> QED
    BY <2>1, SplitSteps, ZenonT(40)
<1>3. PICK g \in [0..n -> Pieces(Wire)] :
        /\ g[0] = << << >> >>
        /\ \A i \in 1..n : g[i] = Cutting(g[i - 1], u[i], d)
        /\ Split(u, d) = g[n]
  <2>1. \E g \in [0..Len(u) -> Pieces(Wire)] :
          /\ g[0] = << << >> >>
          /\ \A i \in 1..Len(u) : g[i] = Cutting(g[i - 1], u[i], d)
          /\ Split(u, d) = g[Len(u)]
    <3>1. u \in Seq(Wire)
      BY <1>1
    <3> QED
      BY <3>1, SplitSteps, ZenonT(40)
  <2> QED
    BY <1>1, <2>1
<1> HIDE DEF n
<1> DEFINE bad == {i \in 0..n : ~SameParts(f[i], g[i])}
<1>4. SameParts(f[0], g[0])
  <2> DEFINE e == << >>
             x == <<e>>
  <2>1. 0 \in 0..n
    BY <1>1
  <2>2. x \in Pieces(Wire)
    BY <1>2, <2>1
  <2>3. Same(e, e)
    <3>1. Len(e) = 0 /\ 1..0 = {} /\ e \in Seq(Wire)
      BY EmptySeq
    <3> QED
      BY <3>1 DEF Same
  <2>4. Len(x) = 1 /\ \A i \in 1..1 : x[i] = e
    OBVIOUS
  <2> HIDE DEF x, e
  <2>5. SameParts(x, x)
    BY <2>2, <2>3, <2>4 DEF SameParts
  <2> QED
    BY <1>2, <1>3, <2>5, Zenon DEF x, e
<1>5. bad = {}
  <2> SUFFICES ASSUME bad # {} PROVE FALSE
    OBVIOUS
  <2>1. PICK m \in bad : \A k \in bad : m <= k
    <3>1. bad \in SUBSET Nat
      BY <1>1
    <3> HIDE DEF bad
    <3> QED
      BY <3>1, LeastNumber
  <2>2. m # 0
    BY <1>4
  <2>3. m \in 1..n /\ m - 1 \in 0..n /\ m - 1 \notin bad
    BY <1>1, <2>1, <2>2
  <2>4. SameParts(f[m - 1], g[m - 1])
    BY <2>3
  <2>5. t[m] \in Wire /\ u[m] \in Wire /\ Alike(t[m], u[m])
    BY <1>1, <2>3
  <2>6. SameParts(Cutting(f[m - 1], t[m], d), Cutting(g[m - 1], u[m], d))
    BY <2>4, <2>5, SameCutting, Zenon
  <2>7. SameParts(f[m], g[m])
    BY <1>2, <1>3, <2>3, <2>6, Zenon
  <2> QED
    BY <2>1, <2>7
<1>6. SameParts(f[n], g[n])
  <2>1. n \in 0..n
    BY <1>1
  <2> QED
    BY <1>5, <2>1
<1> QED
  BY <1>2, <1>3, <1>6, Zenon

\* Texts that decode alike are split alike.
LEMMA SameSplitOnce ==
  ASSUME NEW t, NEW u, Same(t, u), NEW d \in Delimiter
  PROVE  /\ Same(SplitOnce(t, d)[1], SplitOnce(u, d)[1])
         /\ Same(SplitOnce(t, d)[2], SplitOnce(u, d)[2])
<1> DEFINE p == Split(t, d)
           q == Split(u, d)
           n == Len(t)
           k == Len(p[1])
           a == SubSeq(t, k + 2, n)
           b == SubSeq(u, k + 2, n)
<1>1. /\ t \in Seq(Wire) /\ u \in Seq(Wire) /\ Len(u) = n /\ n \in Nat
      /\ \A i \in 1..n : Alike(t[i], u[i]) /\ t[i] \in Wire /\ u[i] \in Wire
  BY LenProperties, ElementOfSeq DEF Same
<1>2. SameParts(p, q)
  BY SameSplit
<1>3. Same(p[1], q[1])
  <2> HIDE DEF p, q
  <2>1. Len(p) \in Nat /\ Len(p) # 0 /\ \A i \in 1..Len(p) : Same(p[i], q[i])
    BY <1>2, LenProperties, EmptySeq DEF SameParts, Pieces
  <2>2. 1 \in 1..Len(p)
    BY <2>1
  <2> QED
    BY <2>1, <2>2, Zenon
<1>4. k \in Nat /\ Len(q[1]) = k
  <2> HIDE DEF p, q
  <2> QED
    BY <1>3, LenProperties DEF Same
<1>5. /\ SplitOnce(t, d)[1] = p[1] /\ SplitOnce(u, d)[1] = q[1]
      /\ SplitOnce(t, d)[2] = a /\ SplitOnce(u, d)[2] = b
  <2>1. SplitOnce(t, d) = <<p[1], a>>
    BY Zenon DEF SplitOnce
  <2>2. SplitOnce(u, d) = <<q[1], b>>
    <3>1. SplitOnce(u, d) = <<q[1], SubSeq(u, Len(q[1]) + 2, Len(u))>>
      BY Zenon DEF SplitOnce
    <3> HIDE DEF q, k, n
    <3> QED
      BY <1>1, <1>4, <3>1
  <2> HIDE DEF p, q, a, b
  <2> QED
    BY <2>1, <2>2
<1> HIDE DEF n, k, p, q
<1>6. Same(a, b)
  <2> DEFINE l == IF k + 2 <= n THEN n - (k + 2) + 1 ELSE 0
  <2>1. k + 2 \in Int /\ n \in Int /\ \A i \in (k + 2)..n : t[i] \in Wire /\ u[i] \in Wire
    BY <1>1, <1>4
  <2>2. /\ a \in Seq(Wire) /\ Len(a) = l
        /\ \A i \in 1..(n - (k + 2) + 1) : a[i] = t[(k + 2) + i - 1]
    BY <2>1, SubSeqProperties
  <2>3. /\ b \in Seq(Wire) /\ Len(b) = l
        /\ \A i \in 1..(n - (k + 2) + 1) : b[i] = u[(k + 2) + i - 1]
    BY <2>1, SubSeqProperties
  <2>4. \A i \in 1..l : i \in 1..(n - (k + 2) + 1) /\ (k + 2) + i - 1 \in 1..n
    BY <1>1, <1>4
  <2> HIDE DEF a, b, l
  <2>5. \A i \in 1..l : Alike(a[i], b[i])
    BY <1>1, <2>2, <2>3, <2>4, Zenon
  <2> QED
    BY <2>2, <2>3, <2>5, Zenon DEF Same
<1> QED
  BY <1>3, <1>5, <1>6, Zenon

LEMMA SameDecoded ==
  ASSUME NEW t, NEW u, Same(t, u)
  PROVE  decode_component(t) = decode_component(u)
<1> DEFINE v == decode_component(t)
           w == decode_component(u)
<1>1. /\ t \in Seq(Wire) /\ u \in Seq(Wire) /\ Len(t) = Len(u)
      /\ \A i \in 1..Len(t) : Decoded(t[i]) = Decoded(u[i])
  BY DEF Same, Alike
<1>2. v \in Seq(Symbols) /\ Len(v) = Len(t) /\ \A i \in 1..Len(t) : v[i] = Decoded(t[i])
  <2>1. t \in Seq(Wire)
    BY <1>1
  <2> QED
    BY <2>1, DecodeIs
<1>3. w \in Seq(Symbols) /\ Len(w) = Len(u) /\ \A i \in 1..Len(u) : w[i] = Decoded(u[i])
  <2>1. u \in Seq(Wire)
    BY <1>1
  <2> QED
    BY <2>1, DecodeIs
<1> HIDE DEF v, w
<1>4. v = w
  BY <1>1, <1>2, <1>3, SeqEqual
<1> QED
  BY <1>4 DEF v, w

\* The last parameter of a query has a value.
LastPart(q)    == Split(q, "&")[Len(Split(q, "&"))]
EndsInValue(q) == ~(LastPart(q) \in Seq(Wire \ {"="}))

\* Queries that decode alike say the same.
LEMMA SameReads ==
  ASSUME NEW q, NEW r, Same(q, r)
  PROVE  /\ \A key : Reads(r, key) = Reads(q, key)
         /\ EndsInValue(q) => EndsInValue(r)
<1> DEFINE ps == Split(q, "&")
           rs == Split(r, "&")
<1>1. "&" \in Delimiter /\ "=" \in Delimiter
  BY Zenon DEF Delimiter
<1>2. q \in Seq(Wire) /\ r \in Seq(Wire)
  BY DEF Same
<1>3. SameParts(ps, rs)
  BY <1>1, SameSplit
<1>4. Len(ps) = Len(rs) /\ \A i \in 1..Len(ps) : Same(ps[i], rs[i])
  BY <1>3, Zenon DEF SameParts
<1>5. Len(ps) \in 1..Len(ps)
  <2>1. ps \in Seq(Seq(Wire)) /\ ps # << >>
    BY <1>3, Zenon DEF SameParts, Pieces
  <2> HIDE DEF ps
  <2> QED
    BY <2>1, LenProperties, EmptySeq
<1>6. \A i \in 1..Len(ps) : Key(rs[i]) = Key(ps[i]) /\ Val(rs[i]) = Val(ps[i])
  <2> HIDE DEF ps, rs
  <2> SUFFICES ASSUME NEW i \in 1..Len(ps)
               PROVE  Key(rs[i]) = Key(ps[i]) /\ Val(rs[i]) = Val(ps[i])
    OBVIOUS
  <2>1. Same(ps[i], rs[i])
    BY <1>4
  <2>2. /\ Same(SplitOnce(ps[i], "=")[1], SplitOnce(rs[i], "=")[1])
        /\ Same(SplitOnce(ps[i], "=")[2], SplitOnce(rs[i], "=")[2])
    BY <1>1, <2>1, SameSplitOnce, Zenon
  <2>3. Key(ps[i]) = Key(rs[i])
    BY <2>2, SameDecoded, Zenon DEF Key
  <2>4. Val(ps[i]) = Val(rs[i])
    BY <2>2, SameDecoded, Zenon DEF Val
  <2> QED
    BY <2>3, <2>4
<1>7. ASSUME NEW key PROVE Reads(r, key) = Reads(q, key)
  <2>1. /\ Len(Split(q, "&")) = Len(Split(r, "&"))
        /\ \A i \in 1..Len(Split(q, "&")) :
             /\ Key(Split(r, "&")[i]) = Key(Split(q, "&")[i])
             /\ Trim(Val(Split(r, "&")[i])) = Trim(Val(Split(q, "&")[i]))
    BY <1>4, <1>6, Zenon
  <2> QED
    BY <1>2, <2>1, ReadAlike
<1>8. ASSUME EndsInValue(q) PROVE EndsInValue(r)
  <2> DEFINE a == LastPart(q)
             b == LastPart(r)
  <2>1. Same(a, b)
    <3>1. Same(ps[Len(ps)], rs[Len(ps)])
      BY <1>4, <1>5, Zenon
    <3> QED
      BY <1>4, <3>1, Zenon DEF LastPart
  <2>2. ~(a \in Seq(Wire \ {"="}))
    BY <1>8 DEF EndsInValue
  <2> HIDE DEF a, b
  <2> SUFFICES ASSUME b \in Seq(Wire \ {"="}) PROVE FALSE
    BY Zenon DEF EndsInValue, b
  <2>3. /\ Len(a) \in Nat /\ Len(b) = Len(a) /\ DOMAIN a = 1..Len(a)
        /\ \A i \in 1..Len(a) : a[i] \in Wire /\ Alike(a[i], b[i])
        /\ a \in Seq(Wire)
    BY <2>1, LenProperties, ElementOfSeq DEF Same
  <2>4. \A i \in 1..Len(a) : b[i] # "="
    <3>1. \A i \in 1..Len(b) : b[i] \in Wire \ {"="}
      BY ElementOfSeq
    <3> QED
      BY <2>3, <3>1
  <2>5. \A i \in 1..Len(a) : a[i] \in Wire \ {"="}
    BY <1>1, <2>3, <2>4 DEF Alike
  <2>6. a \in Seq(Wire \ {"="})
    <3> DEFINE B == Wire \ {"="}
               n == Len(a)
    <3>1. n \in Nat /\ a \in [1..n -> B]
      BY <2>3, <2>5
    <3> HIDE DEF B, n
    <3> QED
      BY <3>1, FunctionIsText DEF B
  <2> QED
    BY <2>2, <2>6
<1> QED
  BY <1>7, <1>8

\* An escape decodes to what it stands for.
LEMMA EscapeIsSame ==
  ASSUME NEW q \in Seq(Wire), NEW i \in DOMAIN q, q[i] \in Symbols \ Delimiter
  PROVE  Same(q, [q EXCEPT ![i] = Escaped(q[i])])
<1> DEFINE x == Escaped(q[i])
           r == [q EXCEPT ![i] = x]
<1>1. x \in Wire /\ x \notin Delimiter
  BY WireIs, Zenon
<1>2. Alike(q[i], x)
  <2>1. "+" \in Delimiter
    BY Zenon DEF Delimiter
  <2>2. Decoded(q[i]) = q[i] /\ Decoded(x) = q[i]
    BY <2>1, DecodedIs, Zenon
  <2>3. \A d \in Delimiter : q[i] = d <=> x = d
    BY <1>1, Zenon
  <2> QED
    BY <2>2, <2>3, Zenon DEF Alike
<1> HIDE DEF x
<1>3. r \in Seq(Wire) /\ Len(r) = Len(q) /\ \A j \in 1..Len(q) : r[j] = IF j = i THEN x ELSE q[j]
  BY <1>1, ExceptSeq, LenProperties
<1> HIDE DEF r
<1>4. \A j \in 1..Len(q) : Alike(q[j], r[j])
  <2> SUFFICES ASSUME NEW j \in 1..Len(q) PROVE Alike(q[j], r[j])
    OBVIOUS
  <2>1. Alike(q[j], q[j])
    BY Zenon DEF Alike
  <2>2. CASE j = i
    BY <1>2, <1>3, <2>2
  <2>3. CASE j # i
    BY <1>3, <2>1, <2>3
  <2> QED
    BY <2>2, <2>3
<1>5. Same(q, r)
  BY <1>3, <1>4, Zenon DEF Same
<1> QED
  BY <1>5, Zenon DEF r, x

\* What has a delimiter in it is not without it.
LEMMA AroundHas ==
  ASSUME NEW A, NEW a \in Seq(A), NEW d \in A, NEW b \in Seq(A)
  PROVE  Around(a, d, b) \in Seq(A) /\ ~(Around(a, d, b) \in Seq(A \ {d}))
<1> DEFINE v == <<d>>
           c == a \o v
           w == c \o b
           k == Len(a)
<1>1. v \in Seq(A) /\ Len(v) = 1 /\ v[1] = d
  OBVIOUS
<1> HIDE DEF v
<1>2. /\ c \in Seq(A) /\ Len(c) = k + 1 /\ k \in Nat /\ Len(b) \in Nat
      /\ \A i \in (k + 1)..(k + 1) : c[i] = v[i - k]
  <2>1. v \in Seq(A)
    BY <1>1
  <2>2. /\ c \in Seq(A) /\ Len(c) = k + Len(v) /\ k \in Nat /\ Len(b) \in Nat
        /\ \A i \in (k + 1)..(k + Len(v)) : c[i] = v[i - k]
    BY <2>1, ConcatIs
  <2> HIDE DEF c, k
  <2> QED
    BY <1>1, <2>2
<1>3. c[k + 1] = d
  <2> HIDE DEF c, k
  <2>1. k + 1 \in (k + 1)..(k + 1) /\ (k + 1) - k = 1
    BY <1>2
  <2> QED
    BY <1>1, <1>2, <2>1, Zenon
<1> HIDE DEF c, k
<1>4. w \in Seq(A) /\ Len(w) = k + 1 + Len(b) /\ \A i \in 1..(k + 1) : w[i] = c[i]
  <2>1. c \in Seq(A)
    BY <1>2
  <2>2. w \in Seq(A) /\ Len(w) = Len(c) + Len(b) /\ \A i \in 1..Len(c) : w[i] = c[i]
    BY <2>1, ConcatIs
  <2> HIDE DEF w
  <2> QED
    BY <1>2, <2>2
<1> HIDE DEF w
<1>5. k + 1 \in 1..Len(w) /\ k + 1 \in 1..(k + 1)
  BY <1>2, <1>4
<1>6. w[k + 1] = d
  BY <1>3, <1>4, <1>5
<1>7. ~(w \in Seq(A \ {d}))
  <2> SUFFICES ASSUME w \in Seq(A \ {d}) PROVE FALSE
    OBVIOUS
  <2>1. w[k + 1] \in A \ {d}
    BY <1>5, ElementOfSeq
  <2> QED
    BY <1>6, <2>1
<1> QED
  BY <1>4, <1>7 DEF w, c, v, Around

LEMMA DecodeLonger ==
  ASSUME NEW t \in Seq(Wire), NEW s \in Wire
  PROVE  decode_component(Append(t, s)) = Append(decode_component(t), Decoded(s))
<1> DEFINE n == Len(t)
           u == Append(t, s)
           a == decode_component(t)
           b == decode_component(u)
           c == Append(a, Decoded(s))
<1>1. n \in Nat /\ u \in Seq(Wire) /\ Len(u) = n + 1 /\ u[n + 1] = s /\ \A i \in 1..n : u[i] = t[i]
  BY AppendProperties, LenProperties
<1>2. a \in Seq(Symbols) /\ Len(a) = n /\ \A i \in 1..n : a[i] = Decoded(t[i])
  BY DecodeIs
<1>3. b \in Seq(Symbols) /\ Len(b) = n + 1 /\ \A i \in 1..(n + 1) : b[i] = Decoded(u[i])
  <2>1. u \in Seq(Wire)
    BY <1>1
  <2> HIDE DEF u
  <2>2. b \in Seq(Symbols) /\ Len(b) = Len(u) /\ \A i \in 1..Len(u) : b[i] = Decoded(u[i])
    BY <2>1, DecodeIs
  <2>3. Len(u) = n + 1
    BY <1>1
  <2> QED
    BY <2>2, <2>3, Zenon
<1>4. Decoded(s) \in Symbols
  BY DecodedIs
<1> HIDE DEF n, u, a, b
<1>5. /\ c \in Seq(Symbols) /\ Len(c) = n + 1 /\ c[n + 1] = Decoded(s)
      /\ \A i \in 1..n : c[i] = a[i]
  BY <1>2, <1>4, AppendProperties
<1> HIDE DEF c
<1>6. \A i \in 1..(n + 1) : i \in 1..n \/ i = n + 1
  BY <1>1
<1>7. \A i \in 1..(n + 1) : b[i] = c[i]
  <2> SUFFICES ASSUME NEW i \in 1..(n + 1) PROVE b[i] = c[i]
    OBVIOUS
  <2>1. CASE i = n + 1
    BY <1>1, <1>3, <1>5, <2>1
  <2>2. CASE i \in 1..n
    BY <1>1, <1>2, <1>3, <1>5, <2>2
  <2> QED
    BY <1>6, <2>1, <2>2
<1>8. b = c
  BY <1>3, <1>5, <1>7, SeqEqual
<1> QED
  BY <1>8 DEF b, c, u, a

\* A plus behind a query is a space behind its last value.
LEMMA PlusReads ==
  ASSUME NEW q \in Seq(Wire), EndsInValue(q)
  PROVE  /\ Append(q, "+") \in Seq(Wire)
         /\ \A key : Reads(Append(q, "+"), key) = Reads(q, key)
         /\ EndsInValue(Append(q, "+"))
<1> DEFINE r == Append(q, "+")
           ps == Split(q, "&")
           rs == Split(r, "&")
           n == Len(ps)
           T == Seq(Wire)
           e == "="
           x == "+"
<1>1. e \in Wire /\ x \in Wire /\ x # "&" /\ r \in Seq(Wire)
  <2>1. x \in Wire /\ e \in Wire /\ x # "&"
    BY DelimitersOfQueries
  <2> QED
    BY <2>1, AppendProperties
<1>2. ps \in Seq(T) /\ ps # << >> /\ rs \in Seq(T)
  BY <1>1, ParamsAre, Zenon
<1>3. n \in Nat /\ n # 0 /\ n \in 1..n /\ DOMAIN ps = 1..n /\ ps[n] \in T
  <2> HIDE DEF ps
  <2> QED
    BY <1>2, LenProperties, EmptySeq, ElementOfSeq
<1>4. rs = [ps EXCEPT ![n] = Append(ps[n], x)]
  <2>1. rs = Cutting(ps, x, "&")
    <3>1. Split(Append(q, x), "&") = Cutting(Split(q, "&"), x, "&")
      <4> HIDE DEF x
      <4>1. x \in Wire
        BY <1>1
      <4> QED
        BY <4>1, SplitAppend
    <3> QED
      BY <3>1
  <2> HIDE DEF rs, ps, x
  <2> QED
    BY <1>1, <2>1, Zenon DEF Cutting
<1>5. PICK a \in Seq(Wire \ {e}), b \in Seq(Wire) : ps[n] = Around(a, e, b)
  <2>1. ~(ps[n] \in Seq(Wire \ {e}))
    BY Zenon DEF EndsInValue, LastPart
  <2> DEFINE p == ps[n]
  <2>2. p \in Seq(Wire) /\ ~(p \in Seq(Wire \ {e})) /\ e \in Wire
    BY <1>1, <1>3, <2>1
  <2> HIDE DEF p, e
  <2>3. \E a \in Seq(Wire \ {e}), b \in Seq(Wire) : p = Around(a, e, b)
    BY <2>2, FirstDelimiter
  <2> QED
    BY <2>3 DEF p
<1> HIDE DEF ps, n
<1>6. /\ a \in Seq(Wire) /\ Append(b, x) \in Seq(Wire)
      /\ Append(ps[n], x) = Around(a, e, Append(b, x))
  <2>1. a \in Seq(Wire)
    BY SeqMonotonic
  <2>2. a \o <<e>> \in Seq(Wire)
    <3>1. <<e>> \in Seq(Wire)
      BY <1>1
    <3> HIDE DEF e
    <3> QED
      BY <2>1, <3>1, ConcatIs, Zenon
  <2>3. Append(b, x) \in Seq(Wire)
    BY <1>1, AppendProperties
  <2>4. (a \o <<e>>) \o Append(b, x) = Append((a \o <<e>>) \o b, x)
    <3> DEFINE v == a \o <<e>>
    <3>1. v \in Seq(Wire) /\ x \in Wire
      BY <1>1, <2>2
    <3> HIDE DEF v, x
    <3>2. v \o Append(b, x) = Append(v \o b, x)
      BY <3>1, AppendLater
    <3> QED
      BY <3>2 DEF v
  <2> HIDE DEF e, x
  <2> QED
    BY <1>5, <2>1, <2>3, <2>4, Zenon DEF Around
<1> DEFINE p == ps[n]
           y == Append(ps[n], x)
<1>7. Key(y) = Key(p) /\ Trim(Val(y)) = Trim(Val(p))
  <2>1. SplitOnce(p, e) = <<a, b>> /\ SplitOnce(y, e) = <<a, Append(b, x)>>
    <3> HIDE DEF e, x
    <3>1. SplitOnce(Around(a, e, b), e) = <<a, b>>
      BY <1>1, SplitFirst, Zenon
    <3>2. SplitOnce(Around(a, e, Append(b, x)), e) = <<a, Append(b, x)>>
      BY <1>1, <1>6, SplitFirst, Zenon
    <3> QED
      BY <1>5, <1>6, <3>1, <3>2, Zenon
  <2>2. /\ SplitOnce(p, e)[1] = a /\ SplitOnce(y, e)[1] = a
        /\ SplitOnce(p, e)[2] = b /\ SplitOnce(y, e)[2] = Append(b, x)
    <3> HIDE DEF p, y, e, x
    <3> QED
      BY <2>1
  <2>3. Key(p) = decode_component(a) /\ Key(y) = decode_component(a)
    BY <2>2, Zenon DEF Key
  <2>4. Val(p) = decode_component(b) /\ Val(y) = decode_component(Append(b, x))
    BY <2>2, Zenon DEF Val
  <2>5. decode_component(Append(b, x)) = Append(decode_component(b), " ")
    BY <1>1, DecodeLonger, DecodedIs, Zenon
  <2>6. Trim(Append(decode_component(b), " ")) = Trim(decode_component(b))
    <3>1. decode_component(b) \in Seq(Symbols)
      BY DecodeIs, Zenon
    <3>2. " " \in Symbols
      <4>1. " " \in Delimiter
        BY Zenon DEF Delimiter
      <4> QED
        BY <4>1, WireIs, Zenon
    <3> QED
      BY <3>1, <3>2, TrimSpace, Zenon
  <2> QED
    BY <2>3, <2>4, <2>5, <2>6, Zenon
<1> HIDE DEF y, p, T, rs
<1>8. DOMAIN rs = 1..n /\ Len(rs) = n /\ \A i \in 1..n : rs[i] = IF i = n THEN y ELSE ps[i]
  <2>1. DOMAIN rs = 1..n /\ \A i \in 1..n : rs[i] = IF i = n THEN y ELSE ps[i]
    BY <1>3, <1>4 DEF y
  <2>2. Len(rs) = n
    BY <1>2, <1>3, <2>1, LenProperties
  <2> QED
    BY <2>1, <2>2
<1>9. \A i \in 1..n : Key(rs[i]) = Key(ps[i]) /\ Trim(Val(rs[i])) = Trim(Val(ps[i]))
  <2> SUFFICES ASSUME NEW i \in 1..n
               PROVE  Key(rs[i]) = Key(ps[i]) /\ Trim(Val(rs[i])) = Trim(Val(ps[i]))
    OBVIOUS
  <2>1. CASE i = n
    <3>1. rs[i] = y /\ ps[i] = p
      BY <1>8, <2>1 DEF p
    <3> QED
      BY <1>7, <3>1, Zenon
  <2>2. CASE i # n
    <3>1. rs[i] = ps[i]
      BY <1>8, <2>2
    <3> QED
      BY <3>1, Zenon
  <2> QED
    BY <2>1, <2>2
<1>10. ASSUME NEW key PROVE Reads(r, key) = Reads(q, key)
  <2>1. /\ Len(Split(q, "&")) = Len(Split(r, "&"))
        /\ \A i \in 1..Len(Split(q, "&")) :
             /\ Key(Split(r, "&")[i]) = Key(Split(q, "&")[i])
             /\ Trim(Val(Split(r, "&")[i])) = Trim(Val(Split(q, "&")[i]))
    BY <1>8, <1>9, Zenon DEF ps, rs, n
  <2> HIDE DEF r
  <2> QED
    BY <1>1, <2>1, ReadAlike
<1>11. EndsInValue(r)
  <2>1. LastPart(r) = y
    <3>1. rs[n] = y
      BY <1>3, <1>8
    <3> QED
      BY <1>8, <3>1, Zenon DEF LastPart, rs
  <2>2. ~(Around(a, e, Append(b, x)) \in Seq(Wire \ {e}))
    <3> HIDE DEF e, x
    <3> QED
      BY <1>1, <1>6, AroundHas, Zenon
  <2> QED
    BY <1>6, <2>1, <2>2, Zenon DEF EndsInValue, y
<1> QED
  BY <1>1, <1>10, <1>11 DEF r

-----------------------------------------------------------------------------
(* What the rewritings put into a query.                                   *)

\* A key and a value make a parameter.
LEMMA ParamReads ==
  ASSUME NEW k \in Word, NEW v \in Seq(Wire \ {"&"})
  PROVE  /\ Param(k, v) \in Seq(Wire \ {"&"}) /\ Param(k, v) \in Seq(Wire)
         /\ Key(Param(k, v)) = <<k>> /\ Val(Param(k, v)) = decode_component(v)
         /\ ~(Param(k, v) \in Seq(Wire \ {"="}))
<1> DEFINE e == "="
           B == Wire \ {"&"}
           a == <<k>>
<1>1. k \in Symbols \ {"+"} /\ k \in Wire \ {e} /\ k \in B /\ e \in B /\ e \in Wire
  <2>1. {"+", "=", "&"} \subseteq Delimiter /\ "=" # "&"
    BY Zenon DEF Delimiter
  <2> QED
    BY <2>1, WireIs
<1>2. Param(k, v) = Around(a, e, v)
  <2>1. <<k>> \o <<"=">> = <<k, "=">>
    BY PairIs
  <2> QED
    BY <2>1, Zenon DEF Param, Around
<1>3. a \in Seq(Symbols \ {"+"}) /\ a \in Seq(Wire \ {e}) /\ a \in Seq(B) /\ a \in Seq(Wire)
  <2> HIDE DEF e, B
  <2> QED
    BY <1>1
<1>4. v \in Seq(Wire)
  BY DelimitersOfQueries, SeqMonotonic
<1> HIDE DEF e, a
<1>5. Around(a, e, v) \in Seq(B)
  <2>1. e \in B /\ a \in Seq(B) /\ v \in Seq(B)
    BY <1>1, <1>3
  <2> HIDE DEF B
  <2> QED
    BY <2>1, AroundHas
<1>6. Around(a, e, v) \in Seq(Wire) /\ ~(Around(a, e, v) \in Seq(Wire \ {e}))
  BY <1>1, <1>3, <1>4, AroundHas, Zenon
<1>7. SplitOnce(Around(a, e, v), e) = <<a, v>>
  BY <1>1, <1>3, <1>4, SplitFirst, ZenonT(40)
<1>8. SplitOnce(Param(k, v), e)[1] = a /\ SplitOnce(Param(k, v), e)[2] = v
  BY <1>2, <1>7
<1>9. decode_component(a) = a
  BY <1>3, DecodeFixed, Zenon
<1>10. Key(Param(k, v)) = a /\ Val(Param(k, v)) = decode_component(v)
  BY <1>8, <1>9, Zenon DEF Key, Val, e
<1> QED
  BY <1>2, <1>5, <1>6, <1>10, Zenon DEF e, a

\* A query of one parameter.
LEMMA ReadAlone ==
  ASSUME NEW q \in Seq(Wire \ {"&"}), NEW key
  PROVE  /\ Key(q) = <<key>> => Reads(q, key) = Trim(Val(q))
         /\ Key(q) # <<key>> => Reads(q, key) = << >>
         /\ LastPart(q) = q
<1> DEFINE ps == Split(q, "&")
<1>1. q \in Seq(Wire)
  BY DelimitersOfQueries, SeqMonotonic
<1>2. ps = <<q>>
  BY DelimitersOfQueries, SplitNone, Zenon
<1>3. DOMAIN ps = {1} /\ ps[1] = q /\ Len(ps) = 1
  <2> HIDE DEF ps
  <2> QED
    BY <1>2
<1> HIDE DEF ps
<1>4. ASSUME Key(q) = <<key>> PROVE Reads(q, key) = Trim(Val(q))
  <2>1. 1 \in Places(ps, key) /\ \A i \in Places(ps, key) : i = 1
    BY <1>3, <1>4, Zenon DEF Places
  <2>2. \A i \in Places(ps, key) : 1 <= i
    BY <2>1
  <2>3. Reads(q, key) = Trim(Val(ps[1]))
    BY <1>1, <2>1, <2>2, ReadsAre, Zenon DEF ps
  <2> QED
    BY <1>3, <2>3, Zenon
<1>5. ASSUME Key(q) # <<key>> PROVE Reads(q, key) = << >>
  <2>1. Places(ps, key) = {}
    BY <1>3, <1>5 DEF Places
  <2> QED
    BY <1>1, <2>1, ReadsAre, Zenon DEF ps
<1>6. LastPart(q) = q
  BY <1>3, Zenon DEF LastPart, ps
<1> QED
  BY <1>4, <1>5, <1>6

LEMMA LastOfBefore ==
  ASSUME NEW p \in Seq(Wire \ {"&"}), NEW q \in Seq(Wire), EndsInValue(q)
  PROVE  EndsInValue(Around(p, "&", q))
<1> DEFINE r == Around(p, "&", q)
           ps == Split(q, "&")
           rs == Split(r, "&")
           T == Seq(Wire)
<1>1. p \in T /\ ps \in Seq(T) /\ ps # << >>
  <2>1. p \in T
    BY DelimitersOfQueries, SeqMonotonic
  <2> QED
    BY <2>1, ParamsAre, Zenon
<1>2. rs = <<p>> \o ps
  BY DelimitersOfQueries, SplitFirst, Zenon
<1> HIDE DEF r, ps, rs, T
<1>3. /\ Len(rs) = 1 + Len(ps) /\ Len(ps) \in Nat
      /\ \A i \in 1..Len(ps) : rs[i + 1] = ps[i]
  <2>1. p \in T /\ ps \in Seq(T)
    BY <1>1
  <2>2. /\ Len(<<p>> \o ps) = 1 + Len(ps) /\ Len(ps) \in Nat
        /\ \A i \in 1..Len(ps) : (<<p>> \o ps)[i + 1] = ps[i]
    BY <2>1, OneBefore
  <2> QED
    BY <1>2, <2>2, Zenon
<1>4. Len(ps) # 0
  BY <1>1, EmptySeq
<1>5. Len(ps) \in 1..Len(ps) /\ Len(rs) = Len(ps) + 1
  BY <1>3, <1>4
<1>6. rs[Len(rs)] = ps[Len(ps)]
  BY <1>3, <1>5, Zenon
<1> QED
  BY <1>6, Zenon DEF EndsInValue, LastPart, ps, rs, r

LEMMA LastOfBehind ==
  ASSUME NEW p \in Seq(Wire \ {"&"}), NEW q \in Seq(Wire), ~(p \in Seq(Wire \ {"="}))
  PROVE  EndsInValue(Around(q, "&", p))
<1> DEFINE r == Around(q, "&", p)
           ps == Split(q, "&")
           rs == Split(r, "&")
           T == Seq(Wire)
<1>1. p \in T /\ ps \in Seq(T)
  <2>1. p \in T
    BY DelimitersOfQueries, SeqMonotonic
  <2> QED
    BY <2>1, ParamsAre, Zenon
<1>2. rs = Append(ps, p)
  BY DelimitersOfQueries, SplitLast, ZenonT(40)
<1> HIDE DEF r, ps, rs, T
<1>3. rs[Len(rs)] = p
  <2>1. Len(rs) = Len(ps) + 1 /\ rs[Len(ps) + 1] = p
    BY <1>1, <1>2, AppendProperties
  <2> QED
    BY <2>1
<1> QED
  BY <1>3, Zenon DEF EndsInValue, LastPart, rs, r

-----------------------------------------------------------------------------
(* The payment in a URI.                                                   *)

Amount(to) == IF to.amount = None THEN << >> ELSE to.amount

\* The path and the query say the payment.
Pays(path, q, to, memo) ==
  /\ path \in Seq(Word) /\ q \in Seq(Wire) /\ EndsInValue(q)
  /\ IF path = << >> THEN Reads(q, "address") = to.address ELSE path = to.address
  /\ Reads(q, "amount") = Amount(to)
  /\ Reads(q, "memo") = to_base64_url(memo)

\* A query that reads as another pays as much.
LEMMA PaysAlike ==
  ASSUME NEW path, NEW q, NEW r \in Seq(Wire), NEW to, NEW memo, Pays(path, q, to, memo),
         EndsInValue(r),
         path = << >> => Reads(r, "address") = Reads(q, "address"),
         Reads(r, "amount") = Reads(q, "amount"), Reads(r, "memo") = Reads(q, "memo")
  PROVE  Pays(path, r, to, memo)
<1>1. /\ path \in Seq(Word)
      /\ path = << >> => Reads(q, "address") = to.address
      /\ path # << >> => path = to.address
      /\ Reads(q, "amount") = Amount(to) /\ Reads(q, "memo") = to_base64_url(memo)
  BY Zenon DEF Pays
<1>2. Reads(r, "amount") = Amount(to) /\ Reads(r, "memo") = to_base64_url(memo)
  BY <1>1, Zenon
<1>3. IF path = << >> THEN Reads(r, "address") = to.address ELSE path = to.address
  BY <1>1, Zenon
<1> QED
  BY <1>1, <1>2, <1>3, Zenon DEF Pays

\* The words of the parameters.
LEMMA KeysAre ==
  /\ {"amount", "memo", "address", "label", "0"} \subseteq Word
  /\ \A key \in {"amount", "memo", "address"} :
       key # "label" /\ (\A other \in {"amount", "memo", "address"} : key = other \/ <<key>> # <<other>>)
  /\ \A key \in {"amount", "memo", "address"} : <<key>> # <<"label">> /\ <<key>> # << >>
<1>1. "0" \in Word
  BY NumeralAssumption, ElementOfSeq DEF NumeralAssumption, Word
<1>2. {"amount", "memo", "address", "label"} \subseteq Word
  BY RequestsAssumption DEF RequestsAssumption
<1> QED
  BY <1>1, <1>2

\* However the query is written, it says the same payment.
LEMMA RequeriedPays ==
  ASSUME NEW path, NEW q, NEW to, NEW memo, Pays(path, q, to, memo),
         to.address # << >>, NEW r \in Requeried(q)
  PROVE  Pays(path, r, to, memo)
<1>1. q \in Seq(Wire) /\ EndsInValue(q)
  BY Zenon DEF Pays
<1> DEFINE Keys == {"amount", "memo", "address"}
<1>2. CASE \E i \in DOMAIN q : q[i] \in Symbols \ Delimiter /\ r = [q EXCEPT ![i] = Escaped(q[i])]
  <2>1. PICK i \in DOMAIN q : q[i] \in Symbols \ Delimiter /\ r = [q EXCEPT ![i] = Escaped(q[i])]
    BY <1>2
  <2>2. Same(q, r)
    BY <1>1, <2>1, EscapeIsSame, Zenon
  <2>3. r \in Seq(Wire) /\ EndsInValue(r) /\ \A key : Reads(r, key) = Reads(q, key)
    BY <1>1, <2>2, SameReads, Zenon DEF Same
  <2>4. /\ Reads(r, "amount") = Reads(q, "amount") /\ Reads(r, "memo") = Reads(q, "memo")
        /\ Reads(r, "address") = Reads(q, "address")
    BY <2>3, Zenon
  <2> QED
    BY <2>3, <2>4, PaysAlike, Zenon
<1>3. CASE r = Append(q, "+")
  <2>1. r \in Seq(Wire) /\ EndsInValue(r) /\ \A key : Reads(r, key) = Reads(q, key)
    BY <1>1, <1>3, PlusReads, Zenon
  <2>2. /\ Reads(r, "amount") = Reads(q, "amount") /\ Reads(r, "memo") = Reads(q, "memo")
        /\ Reads(r, "address") = Reads(q, "address")
    BY <2>1, Zenon
  <2> QED
    BY <2>1, <2>2, PaysAlike, Zenon
<1>4. ASSUME NEW p \in Seq(Wire \ {"&"}), Key(p) \in {<< >>, <<"label">>}, r = Around(p, "&", q)
      PROVE  Pays(path, r, to, memo)
  <2>1. r \in Seq(Wire) /\ EndsInValue(r)
    BY <1>1, <1>4, ReadNext, LastOfBefore, Zenon
  <2>2. ASSUME NEW key \in Keys PROVE Reads(r, key) = Reads(q, key)
    <3>1. Key(p) # <<key>>
      BY <1>4, KeysAre
    <3> QED
      BY <1>1, <1>4, <3>1, ReadNext, Zenon
  <2>3. /\ Reads(r, "amount") = Reads(q, "amount") /\ Reads(r, "memo") = Reads(q, "memo")
        /\ Reads(r, "address") = Reads(q, "address")
    BY <2>2, Zenon
  <2> QED
    BY <2>1, <2>3, PaysAlike, Zenon
<1>5. CASE r = <<"&">> \o q
  <2>1. << >> \in Seq(Wire \ {"&"})
    BY EmptySeq
  <2>2. r = Around(<< >>, "&", q)
    <3>1. << >> \o <<"&">> = <<"&">>
      BY ConcatEmptySeq, DelimitersOfQueries
    <3> QED
      BY <1>5, <3>1, Zenon DEF Around
  <2>3. Key(<< >>) \in {<< >>, <<"label">>}
    BY NoKey
  <2> QED
    BY <1>4, <2>1, <2>2, <2>3, Zenon
<1>6. CASE r = Param("label", <<Escaped("&"), "amount", Escaped("="), "0">>) \o <<"&">> \o q
  <2> DEFINE v == <<Escaped("&"), "amount", Escaped("="), "0">>
             p == Param("label", v)
  <2>1. v \in Seq(Wire \ {"&"})
    <3>1. Escaped("&") \in Wire \ {"&"} /\ Escaped("=") \in Wire \ {"&"}
      <4>1. "&" \in Delimiter /\ "=" \in Delimiter
        BY Zenon DEF Delimiter
      <4> QED
        BY <4>1, WireIs
    <3>2. "amount" \in Wire \ {"&"} /\ "0" \in Wire \ {"&"}
      <4>1. "&" \in Delimiter /\ "amount" \in Word /\ "0" \in Word
        BY KeysAre, Zenon DEF Delimiter
      <4> QED
        BY <4>1, WireIs
    <3> DEFINE B == Wire \ {"&"}
               s == Escaped("&")
               u == Escaped("=")
    <3>3. s \in B /\ u \in B /\ "amount" \in B /\ "0" \in B
      BY <3>1, <3>2
    <3> HIDE DEF B, s, u
    <3>4. <<s, "amount", u, "0">> \in Seq(B)
      BY <3>3
    <3> QED
      BY <3>4 DEF B, s, u
  <2> HIDE DEF v
  <2>2. p \in Seq(Wire \ {"&"}) /\ Key(p) = <<"label">>
    <3>1. "label" \in Word
      BY KeysAre
    <3> QED
      BY <2>1, <3>1, ParamReads, Zenon
  <2>3. r = Around(p, "&", q)
    BY <1>6, Zenon DEF Around, v
  <2>4. Key(p) \in {<< >>, <<"label">>}
    BY <2>2
  <2> HIDE DEF p
  <2> QED
    BY <1>4, <2>2, <2>3, <2>4, Zenon
<1>7. CASE \E key \in Keys : /\ key = "address" \/ Reads(q, key) # << >>
                             /\ r = q \o <<"&">> \o Param(key, <<"0">>)
  <2>1. PICK key \in Keys : /\ key = "address" \/ Reads(q, key) # << >>
                            /\ r = q \o <<"&">> \o Param(key, <<"0">>)
    BY <1>7
  <2> DEFINE v == <<"0">>
             p == Param(key, v)
  <2>2. key \in Word /\ v \in Seq(Wire \ {"&"})
    <3>1. key \in Word /\ "0" \in Word
      BY KeysAre
    <3>2. "0" \in Wire \ {"&"}
      <4>1. "&" \in Delimiter
        BY Zenon DEF Delimiter
      <4> QED
        BY <3>1, <4>1, WireIs
    <3> QED
      BY <3>1, <3>2
  <2> HIDE DEF v
  <2>3. p \in Seq(Wire \ {"&"}) /\ Key(p) = <<key>> /\ ~(p \in Seq(Wire \ {"="}))
    BY <2>2, ParamReads, Zenon
  <2>4. r = Around(q, "&", p)
    BY <2>1, Zenon DEF Around, v
  <2> HIDE DEF p
  <2>5. r \in Seq(Wire)
    <3>1. Key(p) # <<"label">>
      BY <2>3, KeysAre
    <3>2. Around(q, "&", p) \in Seq(Wire)
      BY <1>1, <2>3, <3>1, ReadLast
    <3> QED
      BY <2>4, <3>2, Zenon
  <2>6. EndsInValue(r)
    BY <1>1, <2>3, <2>4, LastOfBehind, Zenon
  <2>7. ASSUME NEW other \in Keys, other # "address" \/ path = << >>
        PROVE  Reads(r, other) = Reads(q, other)
    <3>1. Reads(q, other) # << >> \/ Key(p) # <<other>>
      <4>1. CASE other # key
        BY <2>3, <4>1, KeysAre
      <4>2. CASE other = key /\ other # "address"
        BY <2>1, <4>2
      <4>3. CASE other = "address" /\ path = << >>
        <5>1. Reads(q, "address") = to.address
          BY <4>3, Zenon DEF Pays
        <5> QED
          BY <4>3, <5>1
      <4> QED
        BY <2>7, <4>1, <4>2, <4>3
    <3> QED
      BY <1>1, <2>3, <2>4, <3>1, ReadLast, Zenon
  <2>8. /\ Reads(r, "amount") = Reads(q, "amount") /\ Reads(r, "memo") = Reads(q, "memo")
        /\ path = << >> => Reads(r, "address") = Reads(q, "address")
    <3>1. "amount" \in Keys /\ "memo" \in Keys /\ "address" \in Keys
          /\ "amount" # "address" /\ "memo" # "address"
      OBVIOUS
    <3> QED
      BY <2>7, <3>1, Zenon
  <2> QED
    BY <2>5, <2>6, <2>8, PaysAlike, Zenon
<1> QED
  BY <1>2, <1>3, <1>5, <1>6, <1>7, Zenon DEF Requeried, Reads, Symbols

-----------------------------------------------------------------------------
(* URIs.                                                                   *)

SchemeOf(u) == IF u # << >> /\ u[1] \in Scheme THEN <<u[1]>> ELSE << >>

Schemes == {<< >>, <<"zcash:">>, <<"ZCASH:">>}

LEMMA UriIs ==
  ASSUME NEW scheme \in Schemes, NEW path \in Seq(Word), NEW q \in Seq(Wire)
  PROVE  /\ SchemeOf(Uri(scheme, path, q)) = scheme
         /\ SplitOnce(WithoutScheme(Uri(scheme, path, q)), "?") = <<path, q>>
<1> DEFINE d == "?"
           w == Around(path, d, q)
           t == scheme \o w
           A == Wire \cup Scheme
<1>1. d \in Wire /\ path \in Seq(Wire \ {d}) /\ path \in Seq(Wire)
  <2>1. d \in Delimiter
    BY Zenon DEF Delimiter
  <2>2. Word \subseteq Wire \ {d} /\ Word \subseteq Wire /\ d \in Wire
    BY <2>1, WireIs
  <2> HIDE DEF d
  <2> QED
    BY <2>2, SeqMonotonic
<1>2. Uri(scheme, path, q) = t
  BY Zenon DEF Uri, Around
<1> HIDE DEF d
<1>3. SplitOnce(w, d) = <<path, q>>
  BY <1>1, SplitFirst, Zenon
<1>4. w \in Seq(Wire) /\ ~(w \in Seq(Wire \ {d}))
  BY <1>1, AroundHas, Zenon
<1> HIDE DEF w
<1>5. w # << >> /\ w[1] \in Wire /\ w \in Seq(A)
  <2>1. w # << >>
    BY <1>4, EmptySeq
  <2>2. Len(w) \in Nat /\ Len(w) # 0
    BY <1>4, <2>1, LenProperties, EmptySeq
  <2>3. 1 \in 1..Len(w)
    BY <2>2
  <2>4. Wire \subseteq A
    OBVIOUS
  <2> QED
    BY <1>4, <2>1, <2>3, <2>4, ElementOfSeq, SeqMonotonic
<1>6. \A s \in Wire : s \notin Scheme
  BY WireIs, Zenon
<1>7. CASE scheme = << >>
  <2>1. t = w
    BY <1>4, <1>7, ConcatEmptySeq
  <2> HIDE DEF t
  <2>2. t # << >> /\ ~(t[1] \in Scheme)
    BY <1>5, <1>6, <2>1, Zenon
  <2>3. WithoutScheme(t) = w
    BY <2>1, <2>2, Zenon DEF WithoutScheme
  <2> QED
    BY <1>2, <1>3, <1>7, <2>2, <2>3, Zenon DEF d, SchemeOf
<1>8. CASE scheme # << >>
  <2>1. PICK x \in Scheme : scheme = <<x>>
    BY <1>8 DEF Schemes, Scheme
  <2>2. /\ t \in Seq(A) /\ Len(t) = 1 + Len(w) /\ Len(w) \in Nat /\ t[1] = x
        /\ \A i \in 1..Len(w) : t[i + 1] = w[i]
    <3>1. x \in A /\ w \in Seq(A)
      BY <1>5
    <3> HIDE DEF A
    <3>2. /\ <<x>> \o w \in Seq(A) /\ Len(<<x>> \o w) = 1 + Len(w) /\ Len(w) \in Nat
          /\ (<<x>> \o w)[1] = x
          /\ \A i \in 1..Len(w) : (<<x>> \o w)[i + 1] = w[i]
      BY <3>1, OneBefore
    <3> QED
      BY <2>1, <3>2, Zenon
  <2> HIDE DEF t, A
  <2>3. t # << >>
    BY <2>2, EmptySeq
  <2>4. Tail(t) = w
    <3> DEFINE u == Tail(t)
    <3>1. u \in Seq(A) /\ Len(u) = Len(t) - 1 /\ \A i \in 1..Len(u) : u[i] = t[i + 1]
      BY <2>2, <2>3, HeadTailProperties
    <3> HIDE DEF u
    <3>2. Len(u) = Len(w)
      BY <2>2, <3>1
    <3>3. u = w
      BY <1>5, <2>2, <3>1, <3>2, SeqEqual
    <3> QED
      BY <3>3 DEF u
  <2>5. WithoutScheme(t) = w
    BY <2>2, <2>3, <2>4, Zenon DEF WithoutScheme
  <2> QED
    BY <1>2, <1>3, <2>1, <2>2, <2>3, <2>5, Zenon DEF d, SchemeOf
<1> QED
  BY <1>7, <1>8

\* A URI that pays is one that is read so.
Carries(u, to, memo) ==
  \E scheme \in Schemes, path \in Seq(Word), q \in Seq(Wire) :
    u = Uri(scheme, path, q) /\ Pays(path, q, to, memo)

\* Every form of a URI carries what it carries.
LEMMA RewrittenCarries ==
  ASSUME NEW u, NEW to, NEW memo, Carries(u, to, memo), to.address # << >>,
         NEW v \in Rewritten(u)
  PROVE  Carries(v, to, memo)
<1>1. PICK scheme \in Schemes, path \in Seq(Word), q \in Seq(Wire) :
        u = Uri(scheme, path, q) /\ Pays(path, q, to, memo)
  BY DEF Carries
<1> DEFINE S == SchemeOf(u)
           split == SplitOnce(WithoutScheme(u), "?")
<1>2. S = scheme /\ split = <<path, q>>
  BY <1>1, UriIs, Zenon
<1>3. split[1] = path /\ split[2] = q
  <2> HIDE DEF split
  <2> QED
    BY <1>2
<1>4. \/ v \in {Uri(other, path, q) : other \in {<<"ZCASH:">>, << >>}}
      \/ v \in {Uri(scheme, path, other) : other \in Requeried(q)}
      \/ path # << >> /\ v = Uri(scheme, << >>, Param("address", path) \o <<"&">> \o q)
  <2>1. v \in {Uri(other, split[1], split[2]) : other \in {<<"ZCASH:">>, << >>}} \cup
              {Uri(S, split[1], other) : other \in Requeried(split[2])} \cup
              (IF split[1] = << >> THEN {}
               ELSE {Uri(S, << >>, Param("address", split[1]) \o <<"&">> \o split[2])})
    BY Zenon DEF Rewritten, SchemeOf
  <2> HIDE DEF S, split
  <2>2. v \in {Uri(other, path, q) : other \in {<<"ZCASH:">>, << >>}} \cup
              {Uri(scheme, path, other) : other \in Requeried(q)} \cup
              (IF path = << >> THEN {}
               ELSE {Uri(scheme, << >>, Param("address", path) \o <<"&">> \o q)})
    BY <1>2, <1>3, <2>1, Zenon
  <2> QED
    BY <2>2, Zenon
<1>5. CASE v \in {Uri(other, path, q) : other \in {<<"ZCASH:">>, << >>}}
  <2>1. PICK other \in {<<"ZCASH:">>, << >>} : v = Uri(other, path, q)
    BY <1>5
  <2>2. other \in Schemes
    BY DEF Schemes
  <2> QED
    BY <1>1, <2>1, <2>2, Zenon DEF Carries
<1>6. CASE v \in {Uri(scheme, path, other) : other \in Requeried(q)}
  <2>1. PICK other \in Requeried(q) : v = Uri(scheme, path, other)
    BY <1>6
  <2>2. Pays(path, other, to, memo)
    BY <1>1, RequeriedPays, Zenon
  <2>3. other \in Seq(Wire)
    BY <2>2, Zenon DEF Pays
  <2> QED
    BY <1>1, <2>1, <2>2, <2>3, Zenon DEF Carries
<1>7. CASE path # << >> /\ v = Uri(scheme, << >>, Param("address", path) \o <<"&">> \o q)
  <2> DEFINE p == Param("address", path)
             r == Around(p, "&", q)
  <2>1. path \in Seq(Wire \ {"&"}) /\ decode_component(path) = path /\ Trim(path) = path
    <3>1. {"&", "+", " "} \subseteq Delimiter
      BY Zenon DEF Delimiter
    <3>2. Word \subseteq Wire \ {"&"} /\ Word \subseteq Symbols \ {"+"} /\ " " \notin Word
      BY <3>1, WireIs
    <3>3. path \in Seq(Wire \ {"&"}) /\ path \in Seq(Symbols \ {"+"})
      BY <3>2, SeqMonotonic
    <3> QED
      BY <3>2, <3>3, DecodeFixed, TrimFixed, Zenon
  <2>2. /\ p \in Seq(Wire \ {"&"}) /\ Key(p) = <<"address">> /\ Trim(Val(p)) = path
    <3>1. "address" \in Word
      BY KeysAre
    <3>2. p \in Seq(Wire \ {"&"}) /\ Key(p) = <<"address">> /\ Val(p) = decode_component(path)
      BY <2>1, <3>1, ParamReads, Zenon
    <3> QED
      BY <2>1, <3>2, Zenon
  <2>3. q \in Seq(Wire) /\ EndsInValue(q) /\ path = to.address
        /\ Reads(q, "amount") = Amount(to) /\ Reads(q, "memo") = to_base64_url(memo)
    BY <1>1, <1>7, Zenon DEF Pays
  <2> HIDE DEF p
  <2>4. r \in Seq(Wire) /\ EndsInValue(r)
    BY <2>2, <2>3, ReadNext, LastOfBefore, Zenon
  <2>5. Reads(r, "address") = to.address
    BY <2>2, <2>3, ReadNext, Zenon
  <2>6. Key(p) # <<"amount">> /\ Key(p) # <<"memo">>
    BY <2>2, KeysAre
  <2>7. Reads(r, "amount") = Amount(to) /\ Reads(r, "memo") = to_base64_url(memo)
    BY <2>2, <2>3, <2>6, ReadNext, Zenon
  <2>8. << >> \in Seq(Word)
    BY EmptySeq
  <2>9. v = Uri(scheme, << >>, r)
    BY <1>7, Zenon DEF Around, p
  <2> HIDE DEF r
  <2>10. Pays(<< >>, r, to, memo)
    BY <2>4, <2>5, <2>7, <2>8, Zenon DEF Pays
  <2> QED
    BY <2>4, <2>8, <2>9, <2>10, Zenon DEF Carries
<1> QED
  BY <1>4, <1>5, <1>6, <1>7

\* An amount is digits and points.
LEMMA AmountIsText ==
  ASSUME NEW t \in Text, valid_amount(t)
  PROVE  t \in Seq(Digits \cup {"."})
<1> DEFINE d == "."
           A == Digits \cup {d}
           p == Split(t, d)
<1>1. d \in Plain /\ t \in Seq(Plain)
  BY DEF Plain, Delimiter, Text
<1>2. p \in Pieces(Plain \ {d}) /\ p \in Pieces(Plain) /\ Joined(p, d) = t
  <2> HIDE DEF d
  <2> QED
    BY <1>1, JoinedSplit, PiecesLarger, Zenon
<1>3. \A x \in ToSet(p) : IsNumber(x)
  BY ValidAmountIs, Zenon DEF IsWithinSupply
<1> HIDE DEF p
<1>4. p \in Seq(Seq(Plain)) /\ p # << >>
  BY <1>2 DEF Pieces
<1> DEFINE n == Len(p)
<1>5. n \in Nat /\ DOMAIN p = 1..n /\ \A i \in 1..n : p[i] \in Text /\ p[i] \in ToSet(p)
  <2>1. DOMAIN p = 1..n /\ n \in Nat
    BY <1>4, LenProperties
  <2>2. \A i \in 1..n : p[i] \in Seq(Plain)
    <3> DEFINE T == Seq(Plain)
    <3>1. p \in Seq(T)
      BY <1>4
    <3> HIDE DEF T
    <3>2. \A i \in 1..Len(p) : p[i] \in T
      BY <3>1, ElementOfSeq
    <3> QED
      BY <3>2 DEF T
  <2>3. \A i \in 1..n : p[i] \in ToSet(p)
    <3> HIDE DEF n
    <3> QED
      BY <2>1, Zenon DEF ToSet
  <2> QED
    BY <2>1, <2>2, <2>3, Zenon DEF Text
<1>6. \A i \in 1..n : p[i] \in Seq(A)
  <2>1. \A i \in 1..n : p[i] \in Seq(Digits)
    BY <1>3, <1>5, NumberIs, Zenon
  <2>2. Digits \subseteq A
    OBVIOUS
  <2> HIDE DEF A
  <2>3. Seq(Digits) \subseteq Seq(A)
    BY <2>2, SeqMonotonic
  <2> QED
    BY <2>1, <2>3
<1>7. p \in Pieces(A)
  <2> DEFINE T == Seq(A)
  <2>1. p \in [1..n -> T] /\ n \in Nat
    <3>1. p = [i \in 1..n |-> p[i]]
      <4> DEFINE S == Seq(Plain)
      <4>1. p \in Seq(S)
        BY <1>4
      <4> HIDE DEF S
      <4> QED
        BY <4>1
    <3> HIDE DEF T, n
    <3> QED
      BY <1>5, <1>6, <3>1 DEF T
  <2> HIDE DEF T, n
  <2>2. p \in Seq(T)
    BY <2>1, FunctionIsText
  <2> QED
    BY <1>4, <2>2 DEF Pieces, T
<1>8. Joined(p, d) \in Seq(A)
  <2>1. d \in A /\ << >> \in Seq(A)
    BY EmptySeq
  <2> HIDE DEF A, d
  <2> QED
    BY <1>7, <2>1, JoinedAppend, Zenon
<1> QED
  BY <1>2, <1>8, Zenon

\* What is encoded and decoded is the memo.
LEMMA Base64Is ==
  ASSUME NEW t \in Seq(Plain)
  PROVE  to_base64_url(t) \in Seq(Base64) /\ decode_base64_url(to_base64_url(t)) = t
<1> DEFINE n == Len(t)
           v == to_base64_url(t)
           w == [i \in 1..n |-> CHOOSE s \in Plain : v[i] = Encoded(s)]
<1>1. n \in Nat /\ DOMAIN t = 1..n /\ \A i \in 1..n : t[i] \in Plain
  BY LenProperties, ElementOfSeq
<1>2. v = [i \in 1..n |-> Encoded(t[i])]
  BY <1>1, Zenon DEF to_base64_url
<1>3. v \in [1..n -> Base64] /\ \A i \in 1..n : v[i] = Encoded(t[i])
  <2> HIDE DEF n, v
  <2> QED
    BY <1>1, <1>2 DEF Base64
<1> HIDE DEF v
<1>4. v \in Seq(Base64) /\ Len(v) = n
  <2> HIDE DEF n
  <2> QED
    BY <1>1, <1>3, FunctionIsText
<1>5. DOMAIN v = 1..n /\ ToSet(v) \subseteq Base64
  <2> HIDE DEF n
  <2> QED
    BY <1>3 DEF ToSet
<1>6. decode_base64_url(v) = w
  <2> HIDE DEF n
  <2> QED
    BY <1>5, Zenon DEF decode_base64_url
<1>7. \A i \in 1..n : w[i] = t[i]
  <2> SUFFICES ASSUME NEW i \in 1..n PROVE w[i] = t[i]
    OBVIOUS
  <2> DEFINE c == CHOOSE s \in Plain : v[i] = Encoded(s)
  <2>1. t[i] \in Plain /\ v[i] = Encoded(t[i])
    BY <1>1, <1>3
  <2>2. c \in Plain /\ v[i] = Encoded(c)
    BY <2>1, Zenon
  <2>3. w[i] = c
    OBVIOUS
  <2> HIDE DEF c, w
  <2>4. c = t[i]
    BY <2>1, <2>2, MarkAssumption, Zenon DEF MarkAssumption
  <2> QED
    BY <2>3, <2>4
<1>8. w \in Seq(Plain) /\ Len(w) = n
  <2>1. w \in [1..n -> Plain]
    <3>1. DOMAIN w = 1..n /\ w = [i \in 1..n |-> w[i]]
      OBVIOUS
    <3> HIDE DEF w
    <3> QED
      BY <1>1, <1>7, <3>1
  <2> HIDE DEF w, n
  <2> QED
    BY <1>1, <2>1, FunctionIsText
<1> HIDE DEF w
<1>9. w = t
  BY <1>7, <1>8, SeqEqual
<1> QED
  BY <1>4, <1>6, <1>9 DEF v

\* Values without spaces, escapes and delimiters of queries stay as they are.
LEMMA ValueIs ==
  /\ \A v \in Seq(Base64) : v \in Seq(Wire \ {"&"}) /\ Trim(decode_component(v)) = v
  /\ \A v \in Seq(Digits \cup {"."}) : v \in Seq(Wire \ {"&"}) /\ Trim(decode_component(v)) = v
<1>1. ASSUME NEW A, A \subseteq Symbols \ {"+", " ", "&"}, NEW v \in Seq(A)
      PROVE  v \in Seq(Wire \ {"&"}) /\ Trim(decode_component(v)) = v
  <2>1. A \subseteq Wire \ {"&"} /\ A \subseteq Symbols \ {"+"} /\ " " \notin A
    BY <1>1, WireIs
  <2>2. v \in Seq(Wire \ {"&"}) /\ v \in Seq(Symbols \ {"+"})
    BY <2>1, SeqMonotonic
  <2>3. decode_component(v) = v
    BY <2>2, DecodeFixed, Zenon
  <2>4. Trim(v) = v
    BY <2>1, TrimFixed, Zenon
  <2> QED
    BY <2>2, <2>3, <2>4, Zenon
<1>2. {"+", " ", "&", "."} \subseteq Delimiter /\ "." \notin {"+", " ", "&"}
  BY Zenon DEF Delimiter
<1>3. Base64 \subseteq Symbols \ {"+", " ", "&"}
  BY <1>2, WireIs, Zenon
<1>4. Digits \cup {"."} \subseteq Symbols \ {"+", " ", "&"}
  <2>1. Digits \subseteq Word
    BY NumeralAssumption, RangeOfSeq DEF NumeralAssumption, Digits, ToSet, Word
  <2>2. Digits \subseteq Symbols \ Delimiter /\ Delimiter \subseteq Symbols
    BY <2>1, WireIs, Zenon
  <2> QED
    BY <1>2, <2>2, Zenon
<1> QED
  BY <1>1, <1>3, <1>4, Zenon

\* The link says the payment it is built of.
LEMMA BuiltCarries ==
  ASSUME NEW to \in Target, NEW memo \in Seq(Plain), Linkable(to, memo)
  PROVE  /\ Carries(build_zip321_uri(to, memo), to, memo)
         /\ to.address \in Seq(Word) /\ to.address # << >>
<1> DEFINE v == to_base64_url(memo)
           m == Param("memo", v)
           path == to.address
           scheme == <<"zcash:">>
           T == Seq(Wire)
<1>1. path \in Seq(Word) /\ path # << >>
  <2>1. path \in Seq(Plain) /\ path # << >> /\ ToSet(path) \subseteq Word
    <3>1. path \in Text
      <4> HIDE DEF Text
      <4> QED
        BY DEF Target
    <3> QED
      BY <3>1 DEF Linkable, Text
  <2> DEFINE n == Len(path)
  <2>2. n \in Nat /\ DOMAIN path = 1..n /\ \A i \in 1..n : path[i] \in Word
    <3>1. n \in Nat /\ DOMAIN path = 1..n
      BY <2>1, LenProperties
    <3>2. \A i \in DOMAIN path : path[i] \in ToSet(path)
      BY Zenon DEF ToSet
    <3> QED
      BY <2>1, <3>1, <3>2, Zenon
  <2>3. path \in [1..n -> Word]
    <3>1. path = [i \in 1..n |-> path[i]]
      BY <2>1, <2>2
    <3> HIDE DEF path, n
    <3> QED
      BY <2>2, <3>1
  <2> HIDE DEF n, path
  <2> QED
    BY <2>1, <2>2, <2>3, FunctionIsText
<1>2. v \in Seq(Wire \ {"&"}) /\ Trim(decode_component(v)) = v
  BY Base64Is, ValueIs, Zenon
<1> HIDE DEF v
<1>3. /\ m \in Seq(Wire \ {"&"}) /\ m \in T /\ Key(m) = <<"memo">> /\ Trim(Val(m)) = v
      /\ ~(m \in Seq(Wire \ {"="}))
  <2>1. "memo" \in Word
    BY KeysAre
  <2>2. /\ m \in Seq(Wire \ {"&"}) /\ m \in Seq(Wire)
        /\ Key(m) = <<"memo">> /\ Val(m) = decode_component(v)
        /\ ~(m \in Seq(Wire \ {"="}))
    BY <1>2, <2>1, ParamReads, Zenon
  <2> QED
    BY <1>2, <2>2, Zenon
<1> HIDE DEF m
<1>4. Key(m) # <<"amount">>
  BY <1>3, KeysAre
<1>5. EndsInValue(m) /\ Reads(m, "memo") = v /\ Reads(m, "amount") = << >>
  <2>1. LastPart(m) = m /\ Reads(m, "memo") = v /\ Reads(m, "amount") = << >>
    BY <1>3, <1>4, ReadAlone, Zenon
  <2> QED
    BY <1>3, <2>1, Zenon DEF EndsInValue
<1>6. scheme \in Schemes
  BY Zenon DEF Schemes
<1>7. ASSUME NEW q \in Seq(Wire), EndsInValue(q), Reads(q, "memo") = v, Reads(q, "amount") = Amount(to),
             build_zip321_uri(to, memo) = Uri(scheme, path, q)
      PROVE  Carries(build_zip321_uri(to, memo), to, memo)
  <2>1. Pays(path, q, to, memo)
    BY <1>1, <1>7, Zenon DEF Pays, v
  <2> HIDE DEF path, scheme
  <2> QED
    BY <1>1, <1>6, <1>7, <2>1, Zenon DEF Carries
<1>8. CASE to.amount = None
  <2>1. build_zip321_uri(to, memo) = Uri(scheme, path, Joined(Append(<< >>, m), "&"))
    BY <1>8, Zenon DEF build_zip321_uri, m, v
  <2>2. Append(<< >>, m) = <<m>>
    OBVIOUS
  <2>3. Joined(<<m>>, "&") = m
    <3>1. <<m>> \in Pieces(Wire)
      BY <1>3 DEF Pieces
    <3> QED
      BY <1>3, <3>1, DelimitersOfQueries, JoinedAppend, Zenon
  <2>4. build_zip321_uri(to, memo) = Uri(scheme, path, m)
    BY <2>1, <2>2, <2>3, Zenon
  <2>5. Reads(m, "amount") = Amount(to)
    BY <1>5, <1>8, Zenon DEF Amount
  <2>6. Carries(build_zip321_uri(to, memo), to, memo)
    BY <1>3, <1>5, <1>7, <2>4, <2>5, Zenon
  <2> QED
    BY <1>1, <2>6, Zenon
<1>9. CASE to.amount # None
  <2> DEFINE b == to.amount
             a == Param("amount", b)
             q == Around(a, "&", m)
  <2>1. b \in Seq(Wire \ {"&"}) /\ Trim(decode_component(b)) = b
    <3>1. b \in Text /\ valid_amount(b)
      <4>1. b \in Text
        <5> HIDE DEF Text
        <5> QED
          BY <1>9 DEF Target
      <4> QED
        BY <1>9, <4>1 DEF Linkable
    <3>2. b \in Seq(Digits \cup {"."})
      BY <3>1, AmountIsText, Zenon
    <3> QED
      BY <3>2, ValueIs, Zenon
  <2> HIDE DEF b
  <2>2. a \in Seq(Wire \ {"&"}) /\ a \in T /\ Key(a) = <<"amount">> /\ Trim(Val(a)) = b
    <3>1. "amount" \in Word
      BY KeysAre
    <3>2. /\ a \in Seq(Wire \ {"&"}) /\ a \in Seq(Wire)
          /\ Key(a) = <<"amount">> /\ Val(a) = decode_component(b)
      BY <2>1, <3>1, ParamReads, Zenon
    <3> QED
      BY <2>1, <3>2, Zenon
  <2> HIDE DEF a
  <2>3. build_zip321_uri(to, memo) = Uri(scheme, path, Joined(Append(<<a>>, m), "&"))
    BY <1>9, Zenon DEF build_zip321_uri, a, b, m, v
  <2>4. Joined(Append(<<a>>, m), "&") = q
    <3>1. <<a>> \in Pieces(Wire) /\ "&" \in Wire
      BY <2>2, DelimitersOfQueries DEF Pieces
    <3>2. Joined(Append(<<a>>, m), "&") = Joined(<<a>>, "&") \o (<<"&">> \o m)
      <4>1. m \in Seq(Wire)
        BY <1>3
      <4> QED
        BY <3>1, <4>1, JoinedLonger, Zenon
    <3>3. Joined(<<a>>, "&") = a
      BY <2>2, <3>1, JoinedAppend, Zenon
    <3>4. a \o (<<"&">> \o m) = (a \o <<"&">>) \o m
      <4> DEFINE d == <<"&">>
      <4>1. d \in Seq(Wire) /\ a \in Seq(Wire) /\ m \in Seq(Wire)
        BY <1>3, <2>2, <3>1
      <4> HIDE DEF d
      <4> QED
        BY <4>1, Assoc
    <3> QED
      BY <3>2, <3>3, <3>4, Zenon DEF Around
  <2>5. q \in Seq(Wire) /\ Reads(q, "amount") = b
    BY <1>3, <2>2, ReadNext, Zenon
  <2>6. Reads(q, "memo") = v
    <3>1. Key(a) # <<"memo">>
      BY <2>2, KeysAre
    <3> QED
      BY <1>3, <1>5, <2>2, <3>1, ReadNext, ZenonT(40)
  <2>7. EndsInValue(q)
    BY <1>3, <1>5, <2>2, LastOfBefore, Zenon
  <2>8. Reads(q, "amount") = Amount(to)
    BY <1>9, <2>5, Zenon DEF Amount, b
  <2> HIDE DEF q
  <2>9. build_zip321_uri(to, memo) = Uri(scheme, path, q)
    BY <2>3, <2>4, Zenon
  <2> QED
    BY <1>1, <1>7, <2>5, <2>6, <2>7, <2>8, <2>9, Zenon
<1>10. Carries(build_zip321_uri(to, memo), to, memo)
  BY <1>8, <1>9, Zenon
<1> QED
  BY <1>1, <1>10, Zenon

\* What the paying wallet reads in a URI is the payment it carries.
LEMMA ParsedPays ==
  ASSUME NEW u, NEW to, NEW memo \in Seq(Plain), Carries(u, to, memo), to.address # << >>
  PROVE  parse_zip321_uri(u) = [address |-> to.address, amount |-> Amount(to), memo_decoded |-> memo]
<1>1. PICK scheme \in Schemes, path \in Seq(Word), q \in Seq(Wire) :
        u = Uri(scheme, path, q) /\ Pays(path, q, to, memo)
  BY DEF Carries
<1> DEFINE split == SplitOnce(WithoutScheme(u), "?")
           fields == QueryFields(split[2])
           address == IF Trim(split[1]) = << >> THEN FirstField(fields, "address") ELSE Trim(split[1])
<1>2. split = <<path, q>>
  BY <1>1, UriIs, Zenon
<1>3. split[1] = path /\ split[2] = q
  <2> HIDE DEF split
  <2> QED
    BY <1>2
<1>4. Trim(path) = path
  <2>1. " " \notin Word
    <3>1. " " \in Delimiter
      BY Zenon DEF Delimiter
    <3> QED
      BY <3>1, WireIs, Zenon
  <2> QED
    BY <2>1, TrimFixed, Zenon
<1>5. parse_zip321_uri(u) =
        [address |-> address, amount |-> FirstField(fields, "amount"),
         memo_decoded |-> decode_base64_url(FirstField(fields, "memo"))]
  BY Zenon DEF parse_zip321_uri
<1> HIDE DEF split
<1>6. FirstField(fields, "amount") = Amount(to)
  BY <1>1, <1>3, Zenon DEF Pays, Reads
<1>7. decode_base64_url(FirstField(fields, "memo")) = memo
  <2>1. FirstField(fields, "memo") = to_base64_url(memo)
    BY <1>1, <1>3, Zenon DEF Pays, Reads
  <2> HIDE DEF fields
  <2> QED
    BY <2>1, Base64Is, Zenon
<1>8. address = to.address
  <2>1. /\ path = << >> => Reads(q, "address") = to.address
        /\ path # << >> => path = to.address
    BY <1>1, Zenon DEF Pays
  <2>2. address = IF path = << >> THEN Reads(q, "address") ELSE path
    BY <1>3, <1>4, Zenon DEF Reads
  <2> HIDE DEF address
  <2> QED
    BY <2>1, <2>2, Zenon
<1> HIDE DEF address, fields
<1> QED
  BY <1>5, <1>6, <1>7, <1>8, Zenon

-----------------------------------------------------------------------------
(* The two wallets.                                                        *)

\* What the wallets hold at each stage.
Filed ==
  /\ stage \in {"form", "memo", "uri", "opened", "answered", "refused"}
  /\ stage = "form" => target = None
  /\ stage \in {"memo", "uri", "opened"} =>
       request \in Request /\ target \in Target /\ Buildable(request) /\ text = Memo(request)
  /\ stage \in {"uri", "opened"} => Linkable(target, text)
  /\ stage = "answered" => text \in Text /\ request = parse_otp_memo(text) /\ request # None
  /\ stage = "refused" => \/ target = None \/ ~Buildable(request)
                          \/ target \in Target /\ ~Linkable(target, text)

LEMMA FormIs ==
  /\ \A f \in Form : f[1] \in Request /\ f[2] \in Target
  /\ Challenge \subseteq Text
BY RequestsAssumption DEF RequestsAssumption

LEMMA FiledInit == Init => Filed
BY DEF Init, Filed

LEMMA FiledNext == Filed /\ [Next]_vars => Filed'
<1> SUFFICES ASSUME Filed, [Next]_vars PROVE Filed'
  OBVIOUS
<1>1. ASSUME NEW f \in Form, WriteMemo(f) PROVE Filed'
  <2>1. f[1] \in Request /\ f[2] \in Target
    BY FormIs
  <2>2. request' = f[1] /\ target' = f[2]
    BY <1>1 DEF WriteMemo
  <2>3. CASE Buildable(f[1])
    <3>1. stage' = "memo" /\ text' = Memo(f[1])
      BY <1>1, <2>3 DEF WriteMemo
    <3> QED
      BY <2>1, <2>2, <2>3, <3>1 DEF Filed
  <2>4. CASE ~Buildable(f[1])
    <3>1. stage' = "refused"
      BY <1>1, <2>4 DEF WriteMemo
    <3> QED
      BY <2>2, <2>4, <3>1 DEF Filed
  <2> QED
    BY <2>3, <2>4
<1>2. CASE Link
  <2>1. /\ stage = "memo" /\ UNCHANGED <<request, target, text>>
        /\ request \in Request /\ target \in Target /\ Buildable(request) /\ text = Memo(request)
    BY <1>2 DEF Link, Filed
  <2>2. CASE Linkable(target, text)
    <3>1. stage' = "uri"
      BY <1>2, <2>2 DEF Link
    <3> QED
      BY <2>1, <2>2, <3>1 DEF Filed
  <2>3. CASE ~Linkable(target, text)
    <3>1. stage' = "refused"
      BY <1>2, <2>3 DEF Link
    <3> QED
      BY <2>1, <2>3, <3>1 DEF Filed
  <2> QED
    BY <2>2, <2>3
<1>3. CASE Carry
  BY <1>3 DEF Carry, Filed
<1>4. CASE Open
  BY <1>4 DEF Open, Filed
<1>5. CASE Close
  BY <1>5 DEF Close, Filed
<1>6. ASSUME NEW t \in Challenge, Answer(t) PROVE Filed'
  <2>1. t \in Text /\ target = None
    BY <1>6, FormIs DEF Answer, Filed
  <2>2. text' = t /\ request' = parse_otp_memo(t) /\ target' = None
    BY <1>6, <2>1 DEF Answer
  <2>3. CASE request' = None
    <3>1. stage' = "refused"
      BY <1>6, <2>3 DEF Answer
    <3> QED
      BY <2>2, <3>1 DEF Filed
  <2>4. CASE request' # None
    <3>1. stage' = "answered"
      BY <1>6, <2>4 DEF Answer
    <3> QED
      BY <2>1, <2>2, <2>4, <3>1 DEF Filed
  <2> QED
    BY <2>3, <2>4
<1>7. CASE UNCHANGED vars
  BY <1>7 DEF vars, Filed
<1> QED
  BY <1>1, <1>2, <1>3, <1>4, <1>5, <1>6, <1>7 DEF Next

LEMMA AlwaysFiled == Spec => []Filed
<1>1. Init => Filed
  BY FiledInit
<1>2. Filed /\ [Next]_vars => Filed'
  BY FiledNext
<1> QED
  BY <1>1, <1>2, PTL DEF Spec

\* A memo is read in one way, whatever the names, the codes and the addresses:
\* the builders and the parser of memo.rs.
THEOREM MemosAreReadInOneWay == Spec => []OneReading
<1>1. Filed => OneReading
  <2> SUFFICES ASSUME Filed, stage = "memo"
               PROVE  /\ \A f \in Form : Buildable(f[1]) /\ Memo(f[1]) = text => f[1] = request
                      /\ parse_otp_memo(text) = IF request.kind = "otp" THEN request ELSE None
    BY DEF OneReading
  <2>1. request \in Request /\ Buildable(request) /\ text = Memo(request)
    BY DEF Filed
  <2>2. ASSUME NEW f \in Form, Buildable(f[1]), Memo(f[1]) = text PROVE f[1] = request
    <3>1. f[1] \in Request
      BY FormIs
    <3>2. Split(Memo(f[1]), ":") = Parts(f[1]) /\ Split(Memo(request), ":") = Parts(request)
      BY <2>1, <2>2, <3>1, MemoIs, Zenon
    <3>3. Parts(f[1]) = Parts(request)
      BY <2>1, <2>2, <3>2, Zenon
    <3> QED
      BY <2>1, <2>2, <3>1, <3>3, PartsOfOne, Zenon
  <2>3. parse_otp_memo(text) = IF request.kind = "otp" THEN request ELSE None
    BY <2>1, MemoReads
  <2> QED
    BY <2>2, <2>3
<1> QED
  BY <1>1, AlwaysFiled, PTL

\* A challenge that is read and built again comes back as it was sent
\* (parse_otp_memo and build_otp_memo, memo.rs).
THEOREM ChallengesAreEchoed == Spec => []EchoIsChallenge
<1>1. Filed => EchoIsChallenge
  BY ChallengeReads DEF Filed, EchoIsChallenge
<1> QED
  BY <1>1, AlwaysFiled, PTL

\* valid_amount (zip321.rs) compares digits, and accepts what it should.
THEOREM AcceptedAmountsAreWithinSupply == Spec => []AmountsAreWithinSupply
<1>1. Filed => AmountsAreWithinSupply
  <2> SUFFICES ASSUME Filed PROVE AmountsAreWithinSupply
    OBVIOUS
  <2>1. ASSUME NEW x \in Target, x.amount # None PROVE valid_amount(x.amount) <=> IsWithinSupply(x.amount)
    <3>1. x.amount \in Text
      <4> HIDE DEF Text
      <4> QED
        BY <2>1 DEF Target
    <3> QED
      BY <3>1, ValidAmountIs
  <2>2. ASSUME stage = "uri", target.amount # None PROVE IsWithinSupply(target.amount)
    <3>1. target \in Target /\ valid_amount(target.amount)
      BY <2>2 DEF Filed, Linkable
    <3> QED
      BY <2>1, <2>2, <3>1
  <2>3. ASSUME stage = "refused", target # None, Buildable(request), IsUnified(target.address),
               target.amount # None, Len(text) <= MaxMemo
        PROVE  ~IsWithinSupply(target.amount)
    <3>1. target \in Target /\ ~Linkable(target, text)
      BY <2>3 DEF Filed
    <3>2. PICK w \in Unified : target.address = <<w>>
      BY <2>3 DEF IsUnified
    <3>3. /\ target.address # << >> /\ ToSet(target.address) \subseteq Word
          /\ Head(target.address) \notin Transparent
      <4>1. w \in Word /\ w \notin Transparent
        BY RequestsAssumption DEF RequestsAssumption
      <4>2. ToSet(<<w>>) = {w} /\ Head(<<w>>) = w /\ <<w>> # << >>
        BY DEF ToSet
      <4> QED
        BY <3>2, <4>1, <4>2
    <3>4. ~valid_amount(target.amount)
      BY <2>3, <3>1, <3>3 DEF Linkable
    <3> QED
      BY <2>1, <2>3, <3>1, <3>4
  <2> QED
    BY <2>2, <2>3 DEF AmountsAreWithinSupply
<1> QED
  BY <1>1, AlwaysFiled, PTL

\* What the URI on its way carries, and what the paying wallet has read.
Carried ==
  /\ stage = "uri" => Carries(uri, target, text)
  /\ stage = "opened" => payment = [address |-> target.address, amount |-> Amount(target),
                                    memo_decoded |-> text]

\* The memo and the address that are linked.
LEMMA Linked ==
  /\ Filed /\ stage = "memo" => target \in Target /\ text \in Seq(Plain)
  /\ Filed /\ stage = "uri" => text \in Seq(Plain) /\ target.address # << >>
<1> SUFFICES ASSUME Filed, stage \in {"memo", "uri"}
             PROVE  /\ target \in Target /\ text \in Seq(Plain)
                    /\ stage = "uri" => target.address # << >>
  OBVIOUS
<1>1. /\ target \in Target /\ request \in Request /\ Buildable(request)
      /\ text = Memo(request) /\ (stage = "uri" => Linkable(target, text))
  BY DEF Filed
<1>2. text \in Seq(Plain)
  BY <1>1, MemoIs, Zenon
<1> QED
  BY <1>1, <1>2 DEF Linkable

LEMMA CarriedInit == Init => Carried
BY DEF Init, Carried

LEMMA CarriedNext == Filed /\ Carried /\ [Next]_vars => Carried'
<1> SUFFICES ASSUME Filed, Carried, [Next]_vars PROVE Carried'
  OBVIOUS
<1>1. ASSUME NEW f \in Form, WriteMemo(f) PROVE Carried'
  <2>1. stage' = "memo" \/ stage' = "refused"
    BY <1>1, Zenon DEF WriteMemo
  <2> QED
    BY <2>1 DEF Carried
<1>2. CASE Link
  <2>1. stage = "memo" /\ UNCHANGED <<target, text>>
    BY <1>2 DEF Link
  <2>2. CASE Linkable(target, text)
    <3>1. stage' = "uri" /\ uri' = build_zip321_uri(target, text)
      BY <1>2, <2>2 DEF Link
    <3>2. target \in Target /\ text \in Seq(Plain)
      BY <2>1, <2>2, Linked
    <3>3. Carries(build_zip321_uri(target, text), target, text)
      BY <2>2, <3>2, BuiltCarries, Zenon
    <3>4. Carries(uri', target', text')
      BY <2>1, <3>1, <3>3, Zenon
    <3> QED
      BY <3>1, <3>4 DEF Carried
  <2>3. CASE ~Linkable(target, text)
    <3>1. stage' = "refused"
      BY <1>2, <2>3 DEF Link
    <3> QED
      BY <3>1 DEF Carried
  <2> QED
    BY <2>2, <2>3
<1>3. CASE Carry
  <2>1. stage = "uri" /\ uri' \in Rewritten(uri) /\ UNCHANGED <<stage, target, text>>
    BY <1>3, Zenon DEF Carry
  <2>2. Carries(uri, target, text) /\ target.address # << >>
    <3>1. Carries(uri, target, text)
      BY <2>1, Zenon DEF Carried
    <3>2. target.address # << >>
      BY <2>1, Linked, Zenon
    <3> QED
      BY <3>1, <3>2
  <2>3. Carries(uri', target, text)
    BY <2>1, <2>2, RewrittenCarries, Zenon
  <2>4. Carries(uri', target', text')
    BY <2>1, <2>3, Zenon
  <2> QED
    BY <2>1, <2>4 DEF Carried
<1>4. CASE Open
  <2>1. stage = "uri" /\ stage' = "opened" /\ payment' = parse_zip321_uri(uri)
        /\ UNCHANGED <<target, text>>
    BY <1>4 DEF Open
  <2>2. Carries(uri, target, text) /\ target.address # << >> /\ text \in Seq(Plain)
    <3>1. Carries(uri, target, text)
      BY <2>1, Zenon DEF Carried
    <3>2. target.address # << >> /\ text \in Seq(Plain)
      BY <2>1, Linked, Zenon
    <3> QED
      BY <3>1, <3>2
  <2>3. parse_zip321_uri(uri) = [address |-> target.address, amount |-> Amount(target),
                                 memo_decoded |-> text]
    BY <2>2, ParsedPays, Zenon
  <2>4. payment' = [address |-> target'.address, amount |-> Amount(target'),
                    memo_decoded |-> text']
    BY <2>1, <2>3, Zenon
  <2> QED
    BY <2>1, <2>4 DEF Carried
<1>5. CASE Close
  BY <1>5 DEF Close, Carried
<1>6. ASSUME NEW t \in Challenge, Answer(t) PROVE Carried'
  <2>1. stage' = "refused" \/ stage' = "answered"
    BY <1>6, Zenon DEF Answer
  <2> QED
    BY <2>1 DEF Carried
<1>7. CASE UNCHANGED vars
  <2>1. UNCHANGED <<stage, target, text, uri, payment>>
    BY <1>7 DEF vars
  <2>2. Carries(uri', target', text') = Carries(uri, target, text)
    BY <2>1, Zenon
  <2>3. Amount(target') = Amount(target)
    BY <2>1, Zenon
  <2> QED
    BY <2>1, <2>2, <2>3 DEF Carried
<1> QED
  BY <1>1, <1>2, <1>3, <1>4, <1>5, <1>6, <1>7 DEF Next

\* However often the URI is rewritten on its way, in any form of Rewritten, the
\* paying wallet reads the address, the amount and the memo that were put in
\* it: build_zip321_uri and parse_zip321_uri (zip321.rs).
THEOREM PaymentsArrive == Spec => []PaymentArrives
<1>1. Carried => PaymentArrives
  BY DEF Carried, PaymentArrives, Amount
<1>2. Init => Carried
  BY CarriedInit
<1>3. Filed /\ Carried /\ [Next]_vars => Carried'
  BY CarriedNext
<1> QED
  BY <1>1, <1>2, <1>3, AlwaysFiled, PTL DEF Spec

=============================================================================
