---------------------------- MODULE LedgerProofs ----------------------------
(***************************************************************************)
(* The indexer implements the name ledger, for every value of the          *)
(* constants: what is committed is the law's ledger of the checkpoint's    *)
(* branch, and a commit grows that branch or cuts it at its end.           *)
(***************************************************************************)
EXTENDS ResolverProofs, ResolverRefinement

-----------------------------------------------------------------------------
(* Recursion over a bounded index.                                         *)

\* A set of numbers that is not empty has a least one.
LEMMA LeastNumber ==
  ASSUME NEW B \in SUBSET Nat, B # {}
  PROVE  \E m \in B : \A k \in B : m <= k
<1> DEFINE F == {0..m : m \in B}
<1>1. F # {} /\ \A X \in F : IsFiniteSet(X)
  <2>1. ASSUME NEW m \in B PROVE IsFiniteSet(0..m)
    <3>1. 0 \in Int /\ m \in Int
      OBVIOUS
    <3> QED
      BY <3>1, FS_Interval
  <2> QED
    BY <2>1
<1>2. PICK X \in F : \A Y \in F : Y \subseteq X => Y = X
  <2> HIDE DEF F
  <2> QED
    BY <1>1, SmallestSet
<1>3. PICK m \in B : X = 0..m
  OBVIOUS
<1>4. ASSUME NEW k \in B, ~(m <= k) PROVE FALSE
  <2>1. 0..k \in F /\ 0..k \subseteq X /\ m \in X /\ m \notin 0..k
    BY <1>3, <1>4
  <2> QED
    BY <1>2, <2>1
<1> QED
  BY <1>4

\* f starts with a and follows the steps g up to n.
Iterates(f, a, g, n) == f[0] = a /\ \A i \in 1..n : f[i] = g[i][f[i - 1]]

\* f and h start alike and take the same step where they agree.
Together(f, h, n) == f[0] = h[0] /\ \A i \in 1..n : f[i - 1] = h[i - 1] => f[i] = h[i]

\* A function that is given by its first value and by its steps exists.
LEMMA IterationExists ==
  ASSUME NEW S, NEW a \in S, NEW n \in Nat, NEW g \in [1..n -> [S -> S]]
  PROVE  \E f \in [0..n -> S] : Iterates(f, a, g, n)
<1> USE DEF Iterates
<1> DEFINE Upto(m) == \E f \in [0..m -> S] : f[0] = a /\ \A i \in 1..m : f[i] = g[i][f[i - 1]]
           bad == {m \in 0..n : ~Upto(m)}
<1>1. SUFFICES ASSUME bad # {} PROVE FALSE
  <2> HIDE DEF Upto
  <2>1. bad = {} => Upto(n)
    OBVIOUS
  <2>2. bad = {}
    BY <2>1
  <2> QED
    BY <2>1, <2>2 DEF Upto
<1>2. PICK m \in bad : \A k \in bad : m <= k
  <2>1. bad \in SUBSET Nat
    OBVIOUS
  <2> HIDE DEF bad
  <2> QED
    BY <1>1, <2>1, LeastNumber
<1>3. m # 0
  <2>1. Upto(0)
    <3> DEFINE f == [i \in 0..0 |-> a]
    <3>1. f \in [0..0 -> S] /\ f[0] = a /\ \A i \in 1..0 : f[i] = g[i][f[i - 1]]
      OBVIOUS
    <3> QED
      BY <3>1
  <2> QED
    BY <2>1
<1>4. Upto(m - 1)
  <2>1. m - 1 \in 0..n /\ ~(m <= m - 1)
    BY <1>3
  <2> QED
    BY <1>2, <2>1
<1>5. PICK f \in [0..(m - 1) -> S] :
         f[0] = a /\ \A i \in 1..(m - 1) : f[i] = g[i][f[i - 1]]
  BY <1>4
<1> DEFINE h == [i \in 0..m |-> IF i = m THEN g[m][f[m - 1]] ELSE f[i]]
<1>6. m \in 1..n /\ m - 1 \in 0..(m - 1) /\ g[m] \in [S -> S] /\ f[m - 1] \in S
  BY <1>3
<1>7. h \in [0..m -> S]
  <2>1. \A i \in 0..m : (IF i = m THEN g[m][f[m - 1]] ELSE f[i]) \in S
    BY <1>6
  <2> QED
    BY <2>1
<1>8. h[0] = a
  BY <1>3, <1>5
<1>9. ASSUME NEW i \in 1..m PROVE h[i] = g[i][h[i - 1]]
  <2>1. CASE i = m
    BY <1>6, <2>1
  <2>2. CASE i # m
    <3>1. i \in 1..(m - 1) /\ i - 1 \in 0..m /\ i - 1 # m
      BY <2>2
    <3> QED
      BY <1>5, <2>2, <3>1
  <2> QED
    BY <2>1, <2>2
<1>10. Upto(m)
  <2> HIDE DEF h
  <2> QED
    BY <1>7, <1>8, <1>9
<1> QED
  BY <1>10

\* Two such functions agree as far as both go.
LEMMA IterationUnique ==
  ASSUME NEW n \in Nat, NEW f, NEW h, Together(f, h, n)
  PROVE  \A i \in 0..n : f[i] = h[i]
<1> USE DEF Together
<1> DEFINE bad == {m \in 0..n : f[m] # h[m]}
<1>1. SUFFICES ASSUME bad # {} PROVE FALSE
  OBVIOUS
<1>2. PICK m \in bad : \A k \in bad : m <= k
  <2>1. bad \in SUBSET Nat
    OBVIOUS
  <2> HIDE DEF bad
  <2> QED
    BY <1>1, <2>1, LeastNumber
<1>3. m \in 1..n /\ m - 1 \in 0..n /\ ~(m <= m - 1)
  OBVIOUS
<1>4. f[m - 1] = h[m - 1]
  BY <1>2, <1>3
<1> QED
  BY <1>3, <1>4

-----------------------------------------------------------------------------
(* The ledger of a branch, one transaction at a time.                      *)

\* The ledger and the indexer speak of the same notes, gates and sizes.
LEMMA LedgerNames ==
  /\ Ledger!Note = Note /\ Ledger!Gate = Gate
  /\ \A S : Ledger!Cardinality(S) = Cardinality(S)
<1>1. Ledger!Note = Note /\ Ledger!Gate = Gate
  BY DEF Ledger!Note, Note, Ledger!Gate, Gate, Ledger!Action, Action
<1>2. ASSUME NEW S PROVE Ledger!Cardinality(S) = Cardinality(S)
  BY DEF Ledger!Cardinality, Cardinality
<1> QED
  BY <1>1, <1>2

\* A transaction takes a ledger to a ledger.
LEMMA StepType ==
  ASSUME NEW L \in Ledger!LedgerState, NEW tx \in Tx
  PROVE  Ledger!Step(L, tx) \in Ledger!LedgerState
<1>1. /\ tx.relaxed \in SUBSET Note /\ tx.zero \in SUBSET Nf
      /\ L.tips \in SUBSET Note /\ L.pool \in SUBSET Nf /\ L.open \in BOOLEAN
  BY RegistryAssumption, LedgerNames DEF RegistryAssumption, Ledger!LedgerState
<1>2. ASSUME NEW t \in SUBSET Note, NEW p \in SUBSET Nf, NEW o \in BOOLEAN
      PROVE  [tips |-> t, pool |-> p, open |-> o] \in Ledger!LedgerState
  BY LedgerNames, Zenon DEF Ledger!LedgerState
<1> QED
  <2> DEFINE next == Ledger!Step(L, tx)
  <2>1. next = [tips |-> next.tips, pool |-> next.pool, open |-> next.open]
    BY DEF Ledger!Step
  <2>2. next.tips \in SUBSET Note
    BY <1>1 DEF Ledger!Step
  <2>3. next.pool \in SUBSET Nf
    BY <1>1 DEF Ledger!Step
  <2>4. next.open \in BOOLEAN
    BY Zenon DEF Ledger!Step
  <2> HIDE DEF next
  <2>5. [tips |-> next.tips, pool |-> next.pool, open |-> next.open] \in Ledger!LedgerState
    BY <2>2, <2>3, <2>4, <1>2
  <2>6. next \in Ledger!LedgerState
    BY <2>1, <2>5
  <2> QED
    BY <2>6 DEF next

\* Within a block the ledger starts from the one before and follows the
\* transactions.
LEMMA WithinSteps ==
  ASSUME NEW L \in Ledger!LedgerState, NEW block \in Seq(Tx)
  PROVE  LET w == Ledger!Within(L, block)
         IN  /\ w \in [0..Len(block) -> Ledger!LedgerState]
             /\ w[0] = L
             /\ \A i \in 1..Len(block) : w[i] = Ledger!Step(w[i - 1], block[i])
<1> DEFINE S == Ledger!LedgerState
           n == Len(block)
           w == Ledger!Within(L, block)
           G(f) == [i \in 0..n |-> IF i = 0 THEN L ELSE Ledger!Step(f[i - 1], block[i])]
           g == [i \in 1..n |-> [x \in S |-> Ledger!Step(x, block[i])]]
<1>1. n \in Nat /\ \A i \in 1..n : block[i] \in Tx
  OBVIOUS
<1>2. g \in [1..n -> [S -> S]]
  BY <1>1, StepType
<1>3. PICK f \in [0..n -> S] : Iterates(f, L, g, n)
  <2>1. L \in S /\ n \in Nat /\ g \in [1..n -> [S -> S]]
    BY <1>1, <1>2
  <2> HIDE DEF g, n, S
  <2> QED
    BY <2>1, IterationExists
<1>4. \A i \in 1..n : f[i] = Ledger!Step(f[i - 1], block[i])
  <2>1. ASSUME NEW i \in 1..n PROVE f[i] = Ledger!Step(f[i - 1], block[i])
    <3>1. i - 1 \in 0..n
      BY <1>1
    <3>2. f[i - 1] \in S
      BY <3>1
    <3> QED
      BY <1>3, <3>2 DEF Iterates
  <2> QED
    BY <2>1
<1>5. f = G(f)
  <2>1. \A i \in 0..n : f[i] = IF i = 0 THEN L ELSE Ledger!Step(f[i - 1], block[i])
    BY <1>1, <1>3, <1>4 DEF Iterates
  <2> QED
    BY <2>1
<1>6. w = CHOOSE h : h = G(h)
  BY DEF Ledger!Within
<1>7. w = G(w)
  <2> HIDE DEF G, w
  <2> QED
    BY <1>5, <1>6
<1>8. w[0] = L /\ \A i \in 1..n : w[i] = Ledger!Step(w[i - 1], block[i])
  <2> HIDE DEF w
  <2> QED
    BY <1>1, <1>7
<1>9. \A i \in 0..n : f[i] = w[i]
  <2>1. Together(f, w, n)
    BY <1>3, <1>4, <1>8 DEF Together, Iterates
  <2> HIDE DEF w, n
  <2> QED
    BY <1>1, <2>1, IterationUnique
<1>10. w = [i \in 0..n |-> w[i]]
  <2> HIDE DEF w
  <2> QED
    BY <1>7
<1>11. w \in [0..n -> S]
  <2> HIDE DEF w, S
  <2> QED
    BY <1>9, <1>10
<1> QED
  BY <1>8, <1>11

\* A new ledger is a ledger.
LEMMA NewLedgerType == Ledger!NewLedger \in Ledger!LedgerState
<1>1. {} \in SUBSET Note /\ {} \in SUBSET Nf /\ TRUE \in BOOLEAN
  OBVIOUS
<1> QED
  BY <1>1, LedgerNames, Zenon DEF Ledger!NewLedger, Ledger!LedgerState

\* The blocks of a branch are sequences of transactions.
LEMMA BlockIsSeq ==
  ASSUME NEW b \in Branch, NEW h \in 1..Len(b)
  PROVE  b[h] \in Seq(Tx) /\ Len(b[h]) \in Nat /\ DOMAIN b[h] = 1..Len(b[h])
<1>1. b[h] \in Seq(Tx)
  BY ResolverAssumption DEF ResolverAssumption, Branch
<1> QED
  BY <1>1

\* The ledgers after each block of a branch.
LEMMA UpToSteps ==
  ASSUME NEW b \in Branch
  PROVE  \E f \in [0..Len(b) -> Ledger!LedgerState] :
           /\ f[0] = Ledger!NewLedger
           /\ \A h \in 1..Len(b) : f[h] = Ledger!Within(f[h - 1], b[h])[Len(b[h])]
           /\ Ledger!LedgerOf(b) = f[Len(b)]
<1> DEFINE S == Ledger!LedgerState
           new == Ledger!NewLedger
           n == Len(b)
           After(x, h) == Ledger!Within(x, b[h])[Len(b[h])]
           G(f) == [h \in 0..n |-> IF h = 0 THEN new ELSE After(f[h - 1], h)]
           g == [h \in 1..n |-> [x \in S |-> After(x, h)]]
           upTo == CHOOSE f : f = G(f)
<1>1. n \in Nat /\ new \in S
  BY NewLedgerType DEF Branch
<1>2. ASSUME NEW h \in 1..n, NEW x \in S PROVE After(x, h) \in S
  <2>1. b[h] \in Seq(Tx) /\ Len(b[h]) \in 0..Len(b[h])
    BY BlockIsSeq
  <2>2. Ledger!Within(x, b[h]) \in [0..Len(b[h]) -> S]
    BY <2>1, WithinSteps
  <2> HIDE DEF S
  <2> QED
    BY <2>1, <2>2
<1>3. g \in [1..n -> [S -> S]]
  <2> HIDE DEF S, n, After
  <2> QED
    BY <1>2
<1>4. PICK f \in [0..n -> S] : Iterates(f, new, g, n)
  <2> HIDE DEF g, n, S, new
  <2> QED
    BY <1>1, <1>3, IterationExists
<1>5. f[0] = new /\ \A h \in 1..n : f[h] = After(f[h - 1], h)
  <2>1. ASSUME NEW h \in 1..n PROVE f[h] = After(f[h - 1], h)
    <3>1. h - 1 \in 0..n
      BY <1>1
    <3>2. f[h - 1] \in S
      BY <3>1
    <3> HIDE DEF S, After, n
    <3> QED
      BY <1>4, <3>2 DEF Iterates
  <2>2. f[0] = new
    BY <1>4 DEF Iterates
  <2> QED
    BY <2>1, <2>2
<1>6. f = G(f)
  <2> HIDE DEF new, After, n, S
  <2>1. \A h \in 0..n : f[h] = IF h = 0 THEN new ELSE After(f[h - 1], h)
    BY <1>1, <1>5
  <2> QED
    BY <2>1
<1>7. upTo = G(upTo)
  <2> HIDE DEF G
  <2> QED
    BY <1>6
<1>8. upTo[0] = new /\ \A h \in 1..n : upTo[h] = After(upTo[h - 1], h)
  <2> HIDE DEF upTo, new, After, n
  <2> QED
    BY <1>1, <1>7
<1>9. \A h \in 0..n : f[h] = upTo[h]
  <2>1. Together(f, upTo, n)
    <3> HIDE DEF upTo, new, After, n
    <3> QED
      BY <1>5, <1>8 DEF Together
  <2> HIDE DEF upTo, n
  <2> QED
    BY <1>1, <2>1, IterationUnique
<1>10. Ledger!LedgerOf(b) = upTo[n]
  BY DEF Ledger!LedgerOf
<1>11. Ledger!LedgerOf(b) = f[n]
  <2> HIDE DEF upTo, n
  <2> QED
    BY <1>1, <1>9, <1>10
<1> QED
  BY <1>5, <1>11

\* The ledger of a branch is that of the branch without its last block,
\* followed by the transactions of that block.
LEMMA LedgerGrows ==
  ASSUME NEW b \in Branch
  PROVE  /\ Ledger!LedgerOf(b) \in Ledger!LedgerState
         /\ Len(b) = 0 => Ledger!LedgerOf(b) = Ledger!NewLedger
         /\ \A h \in 1..Len(b) :
              Ledger!LedgerOf(SubSeq(b, 1, h)) =
                Ledger!Within(Ledger!LedgerOf(SubSeq(b, 1, h - 1)), b[h])[Len(b[h])]
<1> DEFINE S == Ledger!LedgerState
<1>1. Len(b) \in Nat
  BY DEF Branch
<1>2. PICK f \in [0..Len(b) -> S] :
        /\ f[0] = Ledger!NewLedger
        /\ \A h \in 1..Len(b) : f[h] = Ledger!Within(f[h - 1], b[h])[Len(b[h])]
        /\ Ledger!LedgerOf(b) = f[Len(b)]
  BY UpToSteps
<1>3. ASSUME NEW k \in 0..Len(b)
      PROVE  Ledger!LedgerOf(SubSeq(b, 1, k)) = f[k]
  <2> DEFINE c == SubSeq(b, 1, k)
  <2>1. c \in Branch /\ Len(c) = k /\ k \in Nat /\ \A h \in 1..k : c[h] = b[h]
    <3>1. c \in Branch /\ Len(c) = k
      BY CutIsBranch
    <3> QED
      BY <1>1, <3>1 DEF Branch
  <2> HIDE DEF c
  <2>2. PICK e \in [0..k -> S] :
          /\ e[0] = Ledger!NewLedger
          /\ \A h \in 1..k : e[h] = Ledger!Within(e[h - 1], c[h])[Len(c[h])]
          /\ Ledger!LedgerOf(c) = e[k]
    BY <2>1, UpToSteps
  <2>3. Together(e, f, k)
    <3>1. e[0] = f[0]
      BY <1>2, <2>2
    <3>2. ASSUME NEW h \in 1..k, e[h - 1] = f[h - 1] PROVE e[h] = f[h]
      <4>1. h \in 1..Len(b) /\ c[h] = b[h]
        BY <1>1, <2>1
      <4>2. e[h] = Ledger!Within(e[h - 1], c[h])[Len(c[h])]
        BY <2>2
      <4>3. f[h] = Ledger!Within(f[h - 1], b[h])[Len(b[h])]
        BY <1>2, <4>1
      <4> QED
        BY <3>2, <4>1, <4>2, <4>3
    <3> QED
      BY <3>1, <3>2 DEF Together
  <2>4. e[k] = f[k]
    BY <2>1, <2>3, IterationUnique
  <2> QED
    BY <2>2, <2>4 DEF c
<1>4. ASSUME NEW h \in 1..Len(b)
      PROVE  Ledger!LedgerOf(SubSeq(b, 1, h)) =
                Ledger!Within(Ledger!LedgerOf(SubSeq(b, 1, h - 1)), b[h])[Len(b[h])]
  <2>1. h \in 0..Len(b) /\ h - 1 \in 0..Len(b)
    BY <1>1
  <2> QED
    BY <1>2, <1>3, <2>1
<1> QED
  BY <1>1, <1>2, <1>4

\* Blocks without transactions change nothing.
LEMMA EmptyBlocks ==
  ASSUME NEW b \in Branch, NEW k \in 0..Len(b), NEW m \in k..Len(b),
         \A h \in (k + 1)..m : Len(b[h]) = 0
  PROVE  Ledger!LedgerOf(SubSeq(b, 1, m)) = Ledger!LedgerOf(SubSeq(b, 1, k))
<1> DEFINE bad == {j \in k..m : Ledger!LedgerOf(SubSeq(b, 1, j)) #
                                Ledger!LedgerOf(SubSeq(b, 1, k))}
<1>1. Len(b) \in Nat /\ k \in Nat /\ m \in Nat
  BY DEF Branch
<1>2. SUFFICES ASSUME bad # {} PROVE FALSE
  BY <1>1
<1>3. PICK j \in bad : \A i \in bad : j <= i
  <2>1. bad \in SUBSET Nat
    BY <1>1
  <2> HIDE DEF bad
  <2> QED
    BY <1>2, <2>1, LeastNumber
<1>4. j \in (k + 1)..m /\ j - 1 \in k..m /\ ~(j <= j - 1)
  BY <1>1
<1>5. Ledger!LedgerOf(SubSeq(b, 1, j - 1)) = Ledger!LedgerOf(SubSeq(b, 1, k))
  BY <1>3, <1>4
<1>6. j \in 1..Len(b) /\ Len(b[j]) = 0 /\ b[j] \in Seq(Tx)
  BY <1>1, <1>4, BlockIsSeq
<1> DEFINE L == Ledger!LedgerOf(SubSeq(b, 1, j - 1))
<1>7. L \in Ledger!LedgerState
  <2>1. SubSeq(b, 1, j - 1) \in Branch
    BY <1>1, <1>4, CutIsBranch
  <2> QED
    BY <2>1, LedgerGrows
<1>8. Ledger!LedgerOf(SubSeq(b, 1, j)) = Ledger!Within(L, b[j])[0]
  BY <1>6, LedgerGrows
<1>9. Ledger!Within(L, b[j])[0] = L
  <2> HIDE DEF L
  <2> QED
    BY <1>6, <1>7, WithinSteps
<1> QED
  BY <1>5, <1>8, <1>9

-----------------------------------------------------------------------------
(* The ledger at a position of a branch.                                   *)

\* The ledger after the transaction at a position.
LedgerAt(b, p) ==
  Ledger!Within(Ledger!LedgerOf(SubSeq(b, 1, p[1] - 1)), b[p[1]])[p[2]]

\* The ledger after the transactions at the positions J.
LedgerAsOf(b, J) == IF J = {} THEN Ledger!NewLedger ELSE LedgerAt(b, Latest(J))

\* J has every position of the branch that is before one of its members.
Initial(J, b) ==
  J \in SUBSET Mined(b) /\ \A q \in Mined(b), r \in J : Before(q, r) => q \in J

\* A branch has finitely many positions.
LEMMA MinedIsFinite ==
  ASSUME NEW b \in Branch
  PROVE  IsFiniteSet(Mined(b))
<1> DEFINE At(h) == {<<h, i>> : i \in DOMAIN b[h]}
           F == {At(h) : h \in DOMAIN b}
<1>1. Len(b) \in Nat /\ DOMAIN b = 1..Len(b)
  BY DEF Branch
<1>2. ASSUME NEW h \in DOMAIN b PROVE IsFiniteSet(At(h))
  <2> DEFINE g == [i \in DOMAIN b[h] |-> <<h, i>>]
  <2>1. DOMAIN b[h] = 1..Len(b[h]) /\ Len(b[h]) \in Nat
    BY <1>1, BlockIsSeq
  <2>2. IsFiniteSet(DOMAIN b[h])
    BY <2>1, FS_Interval
  <2>3. g \in [DOMAIN b[h] -> At(h)] /\ \A t \in At(h) : \E i \in DOMAIN b[h] : g[i] = t
    OBVIOUS
  <2> HIDE DEF g, At
  <2> QED
    BY <2>2, <2>3, FiniteImage
<1>3. IsFiniteSet(F)
  <2> DEFINE g == [h \in DOMAIN b |-> At(h)]
  <2>1. IsFiniteSet(DOMAIN b)
    BY <1>1, FS_Interval
  <2>2. g \in [DOMAIN b -> F] /\ \A t \in F : \E h \in DOMAIN b : g[h] = t
    OBVIOUS
  <2> HIDE DEF g, F
  <2> QED
    BY <2>1, <2>2, FiniteImage
<1>4. \A S \in F : IsFiniteSet(S)
  <2> HIDE DEF At
  <2> QED
    BY <1>2
<1>5. IsFiniteSet(UNION F)
  <2> HIDE DEF F
  <2> QED
    BY <1>3, <1>4, FS_UNION
<1> QED
  BY <1>5 DEF Mined

\* The last of some positions of a branch.
LEMMA LatestMined ==
  ASSUME NEW b \in Branch, NEW J \in SUBSET Mined(b), J # {}
  PROVE  /\ Latest(J) \in J /\ \A q \in J : ~Before(Latest(J), q)
         /\ \A p \in J : (\A q \in J : q = p \/ Before(q, p)) => Latest(J) = p
<1>1. Mined(b) \in SUBSET Position /\ J \in SUBSET Position
  BY MinedPositions
<1>2. IsFiniteSet(J)
  BY MinedIsFinite, FS_Subset
<1>3. Latest(J) \in J /\ \A q \in J : ~Before(Latest(J), q)
  BY <1>1, <1>2, LatestExists
<1> QED
  BY <1>1, <1>3

\* The positions of a branch in terms of its blocks.
LEMMA MinedIs ==
  ASSUME NEW b \in Branch
  PROVE  /\ \A h \in 1..Len(b) : \A i \in 1..Len(b[h]) : <<h, i>> \in Mined(b)
         /\ \A p \in Mined(b) : /\ p = <<p[1], p[2]>> /\ p[1] \in 1..Len(b)
                                /\ p[2] \in 1..Len(b[p[1]])
                                /\ TxAt(p, b) = b[p[1]][p[2]]
<1>1. Len(b) \in Nat /\ DOMAIN b = 1..Len(b)
  BY DEF Branch
<1>2. \A h \in 1..Len(b) : DOMAIN b[h] = 1..Len(b[h])
  BY BlockIsSeq
<1>3. \A h \in 1..Len(b) : \A i \in 1..Len(b[h]) : <<h, i>> \in Mined(b)
  BY <1>1, <1>2 DEF Mined
<1>4. ASSUME NEW p \in Mined(b)
      PROVE  /\ p = <<p[1], p[2]>> /\ p[1] \in 1..Len(b) /\ p[2] \in 1..Len(b[p[1]])
             /\ TxAt(p, b) = b[p[1]][p[2]]
  <2>1. PICK h \in DOMAIN b : p \in {<<h, i>> : i \in DOMAIN b[h]}
    BY DEF Mined
  <2>2. PICK i \in DOMAIN b[h] : p = <<h, i>>
    BY <2>1
  <2> QED
    BY <1>1, <1>2, <2>2 DEF TxAt
<1> QED
  BY <1>3, <1>4

\* The ledger of the first k blocks is the ledger at their last position.
LEMMA LedgerUpTo ==
  ASSUME NEW b \in Branch, NEW k \in 0..Len(b)
  PROVE  Ledger!LedgerOf(SubSeq(b, 1, k)) = LedgerAsOf(b, {q \in Mined(b) : q[1] <= k})
<1> DEFINE J == {q \in Mined(b) : q[1] <= k}
<1>1. Len(b) \in Nat /\ k \in Nat
  BY DEF Branch
<1>2. \A h \in 1..Len(b) : Len(b[h]) \in Nat
  BY BlockIsSeq
<1>3. CASE J = {}
  <2>1. ASSUME NEW h \in (0 + 1)..k PROVE Len(b[h]) = 0
    <3>1. h \in 1..Len(b) /\ Len(b[h]) \in Nat
      BY <1>1, <1>2
    <3>2. CASE Len(b[h]) # 0
      <4>1. 1 \in 1..Len(b[h])
        BY <3>1, <3>2
      <4>2. <<h, 1>> \in Mined(b)
        BY <3>1, <4>1, MinedIs
      <4>3. <<h, 1>> \in J
        BY <1>1, <4>2
      <4> QED
        BY <1>3, <4>3
    <3> QED
      BY <3>2
  <2>2. 0 \in 0..Len(b) /\ k \in 0..Len(b)
    BY <1>1
  <2>3. Ledger!LedgerOf(SubSeq(b, 1, k)) = Ledger!LedgerOf(SubSeq(b, 1, 0))
    BY <2>1, <2>2, EmptyBlocks
  <2>4. SubSeq(b, 1, 0) \in Branch /\ Len(SubSeq(b, 1, 0)) = 0
    BY <2>2, CutIsBranch
  <2>5. Ledger!LedgerOf(SubSeq(b, 1, 0)) = Ledger!NewLedger
    BY <2>4, LedgerGrows
  <2> QED
    BY <1>3, <2>3, <2>5 DEF LedgerAsOf
<1>4. CASE J # {}
  <2>1. PICK p \in J : p = Latest(J) /\ \A q \in J : ~Before(p, q)
    <3>1. J \in SUBSET Mined(b)
      OBVIOUS
    <3> HIDE DEF J
    <3> QED
      BY <1>4, <3>1, LatestMined
  <2>2. /\ p = <<p[1], p[2]>> /\ p[1] \in 1..Len(b) /\ p[1] \in 1..k
        /\ p[2] \in 1..Len(b[p[1]]) /\ Len(b[p[1]]) \in Nat
    BY <1>1, <1>2, MinedIs
  <2>3. p[2] = Len(b[p[1]])
    <3> DEFINE q == <<p[1], Len(b[p[1]])>>
    <3>1. q \in Mined(b)
      <4>1. Len(b[p[1]]) \in 1..Len(b[p[1]])
        BY <2>2
      <4> QED
        BY <2>2, <4>1, MinedIs
    <3>2. q \in J
      BY <1>1, <2>2, <3>1
    <3>3. ~Before(p, q)
      BY <2>1, <3>2
    <3> QED
      BY <2>2, <3>3 DEF Before
  <2>4. ASSUME NEW h \in (p[1] + 1)..k PROVE Len(b[h]) = 0
    <3>1. h \in 1..Len(b) /\ Len(b[h]) \in Nat /\ p[1] < h
      BY <1>1, <1>2, <2>2
    <3>2. CASE Len(b[h]) # 0
      <4>1. 1 \in 1..Len(b[h])
        BY <3>1, <3>2
      <4>2. <<h, 1>> \in Mined(b)
        BY <3>1, <4>1, MinedIs
      <4>3. <<h, 1>> \in J /\ Before(p, <<h, 1>>)
        BY <1>1, <3>1, <4>2 DEF Before
      <4> QED
        BY <2>1, <4>3
    <3> QED
      BY <3>2
  <2>5. Ledger!LedgerOf(SubSeq(b, 1, k)) = Ledger!LedgerOf(SubSeq(b, 1, p[1]))
    <3>1. p[1] \in 0..Len(b) /\ k \in p[1]..Len(b)
      BY <1>1, <2>2
    <3> QED
      BY <2>4, <3>1, EmptyBlocks
  <2>6. Ledger!LedgerOf(SubSeq(b, 1, p[1])) = LedgerAt(b, p)
    BY <2>2, <2>3, LedgerGrows DEF LedgerAt
  <2> QED
    BY <1>4, <2>1, <2>5, <2>6 DEF LedgerAsOf
<1> QED
  BY <1>3, <1>4

\* The ledger after one more transaction of a branch.
LEMMA LedgerNext ==
  ASSUME NEW b \in Branch, NEW at \in Mined(b), NEW D,
         D = {q \in Mined(b) : Before(q, at)}
  PROVE  /\ LedgerAsOf(b, D) \in Ledger!LedgerState
         /\ LedgerAsOf(b, D \cup {at}) = Ledger!Step(LedgerAsOf(b, D), TxAt(at, b))
<1> DEFINE h == at[1]
           i == at[2]
           before == Ledger!LedgerOf(SubSeq(b, 1, h - 1))
           w == Ledger!Within(before, b[h])
<1>1. /\ at = <<h, i>> /\ h \in 1..Len(b) /\ i \in 1..Len(b[h]) /\ TxAt(at, b) = b[h][i]
      /\ Len(b) \in Nat /\ b[h] \in Seq(Tx) /\ Len(b[h]) \in Nat
      /\ Mined(b) \in SUBSET Position
  BY MinedIs, BlockIsSeq, MinedPositions DEF Branch
<1>2. before \in Ledger!LedgerState
  <2>1. h - 1 \in 0..Len(b)
    BY <1>1
  <2>2. SubSeq(b, 1, h - 1) \in Branch
    BY <2>1, CutIsBranch
  <2> QED
    BY <2>2, LedgerGrows
<1>3. /\ w \in [0..Len(b[h]) -> Ledger!LedgerState]
      /\ w[0] = before
      /\ w[i] = Ledger!Step(w[i - 1], b[h][i])
  <2> HIDE DEF before
  <2> QED
    BY <1>1, <1>2, WithinSteps
<1>4. LedgerAsOf(b, D \cup {at}) = w[i]
  <2>1. Latest(D \cup {at}) = at
    BY LatestMined
  <2> QED
    BY <2>1 DEF LedgerAsOf, LedgerAt
<1>5. LedgerAsOf(b, D) = w[i - 1]
  <2>1. CASE i = 1
    <3>1. D = {q \in Mined(b) : q[1] <= h - 1}
      <4>1. ASSUME NEW q \in Mined(b) PROVE Before(q, at) <=> q[1] <= h - 1
        <5>1. q[1] \in Nat /\ q[2] \in 1..Len(b[q[1]]) /\ q[1] \in 1..Len(b)
          BY <1>1, MinedIs
        <5>2. Len(b[q[1]]) \in Nat
          BY <5>1, BlockIsSeq
        <5> QED
          BY <1>1, <2>1, <5>1, <5>2 DEF Before
      <4> QED
        BY <4>1
    <3>2. h - 1 \in 0..Len(b)
      BY <1>1
    <3>3. LedgerAsOf(b, D) = before
      BY <3>1, <3>2, LedgerUpTo
    <3> HIDE DEF w, before
    <3> QED
      BY <1>3, <2>1, <3>3
  <2>2. CASE i # 1
    <3> DEFINE p == <<h, i - 1>>
    <3>1. p \in Mined(b)
      <4>1. i - 1 \in 1..Len(b[h])
        BY <1>1, <2>2
      <4> QED
        BY <1>1, <4>1, MinedIs
    <3>2. p \in D
      BY <1>1, <3>1 DEF Before
    <3>3. ASSUME NEW q \in D PROVE q = p \/ Before(q, p)
      <4>1. q = <<q[1], q[2]>> /\ q[1] \in Nat /\ q[2] \in Nat /\ Before(q, at)
        BY <1>1, MinedIs DEF Position
      <4> QED
        BY <1>1, <2>2, <4>1 DEF Before
    <3>4. Latest(D) = p
      <4> HIDE DEF p
      <4> QED
        BY <3>2, <3>3, LatestMined
    <3> QED
      BY <3>2, <3>4 DEF LedgerAsOf, LedgerAt
  <2> QED
    BY <2>1, <2>2
<1>6. i - 1 \in 0..Len(b[h])
  BY <1>1
<1> HIDE DEF w
<1> QED
  BY <1>1, <1>3, <1>4, <1>5, <1>6

\* A cut branch has the same ledgers as far as it goes.
LEMMA CutLedger ==
  ASSUME NEW b \in Branch, NEW k \in 0..Len(b), NEW J \in SUBSET Mined(SubSeq(b, 1, k))
  PROVE  LedgerAsOf(SubSeq(b, 1, k), J) = LedgerAsOf(b, J)
<1> DEFINE c == SubSeq(b, 1, k)
<1>1. c \in Branch /\ Len(c) = k /\ k \in Nat /\ Len(b) \in Nat
  BY CutIsBranch DEF Branch
<1>2. CASE J = {}
  BY <1>2 DEF LedgerAsOf
<1>3. CASE J # {}
  <2> DEFINE p == Latest(J)
  <2>1. p \in J /\ p \in Mined(c)
    BY <1>1, <1>3, LatestMined
  <2>2. p[1] \in 1..k
    BY <1>1, <2>1, MinedIs
  <2> HIDE DEF p
  <2>3. c[p[1]] = b[p[1]]
    BY <1>1, <2>2 DEF Branch
  <2>4. SubSeq(c, 1, p[1] - 1) = SubSeq(b, 1, p[1] - 1)
    <3>1. p[1] - 1 \in 0..k
      BY <2>2
    <3> QED
      BY <1>1, <3>1 DEF Branch
  <2>5. LedgerAt(c, p) = LedgerAt(b, p)
    BY <2>3, <2>4 DEF LedgerAt
  <2> QED
    BY <1>3, <2>5 DEF LedgerAsOf, p
<1> QED
  BY <1>2, <1>3

-----------------------------------------------------------------------------
(* What the tables say of some positions.                                  *)

\* The records of the positions J.
Past(t, J) == [events   |-> {e \in t.events : e.at \in J},
               implicit |-> {i \in t.implicit : i.at \in J},
               facts    |-> AsOf(t.facts, J)]

\* The ledger the tables showed when they covered the positions J.
Seen(t, J) == [tips |-> {r.note : r \in ImpliedTips(Past(t, J))},
               pool |-> Standing(Past(t, J).facts).live,
               open |-> Past(t, J).facts = {}]

\* The ledger the tables show.
Shown(t) == [tips |-> {r.note : r \in t.names},
             pool |-> Standing(t.facts).live,
             open |-> t.facts = {}]

\* At every point of the branch that the tables have passed they show, or
\* showed, the ledger of the branch so far.
Faithful(t, b, D) ==
  \A J \in SUBSET D : Initial(J, b) => Seen(t, J) = LedgerAsOf(b, J)

\* What sound tables say of all they cover is what they show.
LEMMA SeenIsShown ==
  ASSUME NEW b \in Branch, NEW t, Good(t, b), NEW D \in SUBSET Mined(b), Sound(t, b, D)
  PROVE  Seen(t, D) = Shown(t)
<1>1. /\ t.facts \in SUBSET Fact /\ D \in SUBSET Position
      /\ \A f \in t.facts : f.at \in D /\ f.spent \in D \cup {NotSpent}
      /\ \A e \in t.events : e.at \in D
      /\ \A i \in t.implicit : i.at \in D
      /\ t.names = ImpliedTips(t)
  BY MinedPositions DEF Sound, FactsSound, WellFormed, HistorySound, Placed
<1>2. AsOf(t.facts, D) = t.facts
  <2>1. PositionsOf(t.facts) \subseteq D
    BY <1>1 DEF PositionsOf
  <2> QED
    BY <1>1, <2>1, AsOfAll
<1>3. /\ Past(t, D).events = t.events /\ Past(t, D).implicit = t.implicit
      /\ Past(t, D).facts = t.facts
  BY <1>1, <1>2 DEF Past
<1>4. ImpliedTips(Past(t, D)) = t.names
  BY <1>1, <1>3 DEF ImpliedTips
<1> QED
  BY <1>3, <1>4 DEF Seen, Shown

\* Tables that agree on the records of J say the same of J.
LEMMA SamePast ==
  ASSUME NEW t, NEW u, NEW J,
         {e \in u.events : e.at \in J} = {e \in t.events : e.at \in J},
         {i \in u.implicit : i.at \in J} = {i \in t.implicit : i.at \in J},
         AsOf(u.facts, J) = AsOf(t.facts, J)
  PROVE  Seen(u, J) = Seen(t, J)
<1>1. Past(u, J) = Past(t, J)
  BY DEF Past
<1> QED
  BY <1>1 DEF Seen

\* Faithful tables show the ledger of what they cover.
LEMMA ShownIsLedger ==
  ASSUME NEW b \in Branch, NEW t, Good(t, b), NEW D, Initial(D, b), Sound(t, b, D),
         Faithful(t, b, D)
  PROVE  Shown(t) = LedgerAsOf(b, D)
<1>1. Seen(t, D) = LedgerAsOf(b, D)
  BY DEF Faithful
<1>2. D \in SUBSET Mined(b)
  BY DEF Initial
<1> QED
  BY <1>1, <1>2, SeenIsShown

\* The tables u cover one position more than the tables t: the records they
\* add are of that position, and the ledger they show is one step further.
Grows(t, u, b, D, at) ==
  /\ Good(t, b) /\ Initial(D, b) /\ Sound(t, b, D) /\ Faithful(t, b, D)
  /\ at \in Mined(b) /\ at \notin D /\ \A p \in D : Before(p, at)
  /\ Good(u, b) /\ Initial(D \cup {at}, b) /\ Sound(u, b, D \cup {at})
  /\ t.events \subseteq u.events /\ t.implicit \subseteq u.implicit
  /\ \A e \in u.events \ t.events : e.at = at
  /\ \A i \in u.implicit \ t.implicit : i.at = at
  /\ AsOf(u.facts, D) = t.facts
  /\ Shown(u) = Ledger!Step(Shown(t), TxAt(at, b))

\* New records after D leave what was said of D, and of less, as it was.
LEMMA FaithfulGrows ==
  ASSUME NEW b \in Branch, NEW t, NEW u, NEW D, NEW at, Grows(t, u, b, D, at)
  PROVE  Faithful(u, b, D \cup {at})
<1> USE DEF Grows
<1>1. D \in SUBSET Mined(b) /\ Mined(b) \in SUBSET Position /\ u.facts \in SUBSET Fact
  BY MinedPositions DEF Initial, Good, Tables
<1>2. ASSUME NEW J \in SUBSET D PROVE Seen(u, J) = Seen(t, J)
  <2>1. AsOf(u.facts, J) = AsOf(t.facts, J)
    <3>1. AsOf(AsOf(u.facts, D), J) = AsOf(u.facts, J)
      BY <1>1, AsOfTwice
    <3> QED
      BY <3>1
  <2>2. at \notin J
    OBVIOUS
  <2>3. {e \in u.events : e.at \in J} = {e \in t.events : e.at \in J}
    BY <2>2
  <2>4. {i \in u.implicit : i.at \in J} = {i \in t.implicit : i.at \in J}
    BY <2>2
  <2> QED
    BY <2>1, <2>3, <2>4, SamePast
<1>3. Seen(u, D \cup {at}) = LedgerAsOf(b, D \cup {at})
  <2>1. D = {q \in Mined(b) : Before(q, at)}
    <3>1. ASSUME NEW q \in Mined(b), Before(q, at) PROVE q \in D
      BY <1>1, <3>1, BeforeIrreflexive DEF Initial
    <3> QED
      BY <1>1, <3>1
  <2>2. LedgerAsOf(b, D \cup {at}) = Ledger!Step(LedgerAsOf(b, D), TxAt(at, b))
    BY <2>1, LedgerNext
  <2>3. Shown(t) = LedgerAsOf(b, D)
    BY ShownIsLedger
  <2>4. D \cup {at} \in SUBSET Mined(b)
    BY <1>1
  <2>5. Seen(u, D \cup {at}) = Shown(u)
    BY <2>4, SeenIsShown
  <2> QED
    BY <2>2, <2>3, <2>5
<1>4. ASSUME NEW J \in SUBSET (D \cup {at}), Initial(J, b)
      PROVE  Seen(u, J) = LedgerAsOf(b, J)
  <2>1. CASE at \in J
    <3>1. J = D \cup {at}
      BY <1>1, <1>4, <2>1 DEF Initial
    <3> QED
      BY <1>3, <3>1
  <2>2. CASE at \notin J
    <3>1. J \in SUBSET D
      BY <2>2
    <3> QED
      BY <1>2, <1>4, <3>1 DEF Faithful
  <2> QED
    BY <2>1, <2>2
<1> QED
  BY <1>4 DEF Faithful

\* On a longer branch the tables stay faithful for what they cover.
LEMMA FaithfulMoves ==
  ASSUME NEW c \in Branch, NEW k \in 0..Len(c), NEW t,
         Faithful(t, SubSeq(c, 1, k), Mined(SubSeq(c, 1, k)))
  PROVE  /\ Initial(Mined(SubSeq(c, 1, k)), c)
         /\ Faithful(t, c, Mined(SubSeq(c, 1, k)))
<1> DEFINE b == SubSeq(c, 1, k)
<1>1. /\ b \in Branch /\ Mined(b) = {p \in Mined(c) : p[1] <= k}
      /\ Mined(c) \in SUBSET Position /\ k \in Nat /\ Len(c) \in Nat
  BY CutIsBranch, CutMined, MinedPositions DEF Branch
<1>2. Initial(Mined(b), c)
  BY <1>1 DEF Initial, Before, Position
<1>3. ASSUME NEW J \in SUBSET Mined(b), Initial(J, c)
      PROVE  Seen(t, J) = LedgerAsOf(c, J)
  <2>1. Initial(J, b)
    BY <1>1, <1>3 DEF Initial
  <2>2. Seen(t, J) = LedgerAsOf(b, J)
    BY <2>1 DEF Faithful
  <2>3. LedgerAsOf(b, J) = LedgerAsOf(c, J)
    BY CutLedger
  <2> QED
    BY <2>2, <2>3
<1> QED
  BY <1>2, <1>3 DEF Faithful

\* A rewind goes back to what the tables showed at the cut.
LEMMA FaithfulCut ==
  ASSUME NEW b \in Branch, NEW t, Good(t, b), Sound(t, b, Mined(b)),
         Faithful(t, b, Mined(b)), NEW k \in 0..Len(b)
  PROVE  Faithful(Rewound(t, k), SubSeq(b, 1, k), Mined(SubSeq(b, 1, k)))
<1> DEFINE c == SubSeq(b, 1, k)
           C == Mined(c)
           u == Rewound(t, k)
<1>1. /\ c \in Branch /\ C = {p \in Mined(b) : p[1] <= k}
      /\ Mined(b) \in SUBSET Position /\ C \in SUBSET Position /\ t.facts \in SUBSET Fact
  BY CutIsBranch, CutMined, MinedPositions DEF Good, Tables
<1>2. u.facts = AsOf(t.facts, C)
  <2>1. FactsSound(t.facts, b, Mined(b))
    BY DEF Sound
  <2>2. u.facts = AsOf(t.facts, {p \in Mined(b) : p[1] <= k})
    BY <2>1, RewoundIsAsOf
  <2> HIDE DEF C, u
  <2> QED
    BY <1>1, <2>2
<1>3. /\ u.events = {e \in t.events : e.at[1] <= k}
      /\ u.implicit = {i \in t.implicit : i.at[1] <= k}
  BY DEF Rewound
<1> HIDE DEF u, C, c
<1>4. ASSUME NEW J \in SUBSET C PROVE Seen(u, J) = Seen(t, J)
  <2>1. AsOf(u.facts, J) = AsOf(t.facts, J)
    BY <1>1, <1>2, AsOfTwice
  <2>2. \A p \in J : p[1] <= k
    BY <1>1
  <2>3. {e \in u.events : e.at \in J} = {e \in t.events : e.at \in J}
    BY <1>3, <2>2
  <2>4. {i \in u.implicit : i.at \in J} = {i \in t.implicit : i.at \in J}
    BY <1>3, <2>2
  <2> QED
    BY <2>1, <2>3, <2>4, SamePast
<1>5. ASSUME NEW J \in SUBSET C, Initial(J, c)
      PROVE  Seen(u, J) = LedgerAsOf(c, J)
  <2>1. Initial(J, b)
    <3>1. ASSUME NEW q \in Mined(b), NEW r \in J, Before(q, r) PROVE q \in C
      BY <1>1, <3>1 DEF Before, Position
    <3> QED
      BY <1>1, <1>5, <3>1 DEF Initial, C
  <2>2. J \in SUBSET Mined(b)
    BY <1>1
  <2>3. Seen(t, J) = LedgerAsOf(b, J)
    BY <2>1, <2>2 DEF Faithful
  <2>4. LedgerAsOf(c, J) = LedgerAsOf(b, J)
    BY CutLedger DEF C, c
  <2> QED
    BY <1>4, <2>3, <2>4
<1> QED
  BY <1>5 DEF Faithful, u, C, c

-----------------------------------------------------------------------------
(* One transaction: the verdict and the law.                               *)

\* The parts of Ledger!Step: the tips and the anchors a transaction spends,
\* whether it is the ceremony, the claims and the moves it is granted.
Ended(L, tx) == {x \in L.tips : x.nf \in tx.spends}

Used(L, tx) == L.pool \cap tx.spends

Keygen(L, tx) ==
  L.open /\ Candidates(tx) = {} /\ Cardinality(tx.zero) = PoolSize

GrantsClaim(L, tx, n) ==
  /\ Candidates(tx) = {n} /\ n.nf # NoNf /\ n.action = "claim" /\ n.prev = ZeroRcm
  /\ Cardinality(Used(L, tx)) = 1 /\ Ended(L, tx) = {}
  /\ Cardinality(tx.zero) = 1 /\ ~tx.extra
  /\ \A x \in L.tips : x.name # n.name

GrantsMove(L, tx, n) ==
  /\ Candidates(tx) = {n} /\ n.nf # NoNf /\ n.action # "claim"
  /\ Used(L, tx) = {}
  /\ \E x \in Ended(L, tx) : Ended(L, tx) = {x} /\ x.name = n.name /\ x.rcm = n.prev

Claims(L, tx) == {n \in Candidates(tx) : GrantsClaim(L, tx, n)}

Moves(L, tx) == {n \in Candidates(tx) : GrantsMove(L, tx, n)}

\* The abstract step in terms of what it grants and ends.
LEMMA StepIs ==
  ASSUME NEW L, NEW tx
  PROVE  Ledger!Step(L, tx) =
           [tips |-> (L.tips \ Ended(L, tx)) \cup
                     {n \in Claims(L, tx) \cup Moves(L, tx) : n.action # "release"},
            pool |-> ((IF Keygen(L, tx) THEN L.pool \cup tx.zero ELSE L.pool) \ tx.spends)
                     \cup (IF Claims(L, tx) # {} THEN tx.zero ELSE {}),
            open |-> L.open /\ ~Keygen(L, tx)]
<1>1. Candidates(tx) = {n \in tx.relaxed : n.gates = Ledger!Gate}
  BY LedgerNames DEF Candidates
<1> QED
  BY <1>1, LedgerNames DEF Ledger!Step, Ended, Used, Keygen, Claims, Moves, GrantsClaim,
                           GrantsMove

\* A transaction with a single name note, in terms of its candidates.
LEMMA SingleNote ==
  ASSUME NEW tx \in Tx
  PROVE  /\ HasSingleNameNote(tx) => Candidates(tx) = {TheNote(tx)}
         /\ \A n : Candidates(tx) = {n} => HasSingleNameNote(tx) /\ TheNote(tx) = n
         /\ Candidates(tx) = {} <=> Cardinality(Candidates(tx)) = 0
<1>1. IsFiniteSet(Candidates(tx))
  BY RegistryAssumption, FS_Subset DEF RegistryAssumption, Candidates
<1>2. ASSUME NEW n, Candidates(tx) = {n}
      PROVE  HasSingleNameNote(tx) /\ TheNote(tx) = n
  BY <1>2, FS_Singleton DEF HasSingleNameNote, TheNote
<1>3. ASSUME HasSingleNameNote(tx) PROVE Candidates(tx) = {TheNote(tx)}
  <2>1. PICK n : Candidates(tx) = {n}
    BY <1>1, <1>3, FS_Singleton DEF HasSingleNameNote
  <2> QED
    BY <1>2, <2>1
<1>4. Candidates(tx) = {} <=> Cardinality(Candidates(tx)) = 0
  BY <1>1, FS_EmptySet
<1> QED
  BY <1>2, <1>3, <1>4

\* The law grants a claim where apply_transaction admits one, and a move
\* where it admits a transition.
LEMMA GrantsAreVerdicts ==
  ASSUME NEW b, NEW D, Underway(b, D, work, live, lineage, batch), NEW s \in batch
  PROVE  /\ Claims(Shown(work), s.tx) =
              IF Backed(s) /\ Valid(s) THEN {TheNote(s.tx)} ELSE {}
         /\ Moves(Shown(work), s.tx) =
              IF Consumes(s) /\ Valid(s) THEN {TheNote(s.tx)} ELSE {}
<1> DEFINE L == Shown(work)
           tx == s.tx
           n == TheNote(tx)
<1>1. /\ TipsDistinct(work) /\ live = LiveNameNullifiers(work) /\ tx \in Tx
      /\ lineage = Standing(work.facts) /\ lineage \in Lineage
  BY BatchContext, StandingType
<1>2. /\ L.tips = {r.note : r \in work.names} /\ L.pool = lineage.live
      /\ Used(L, tx) = lineage.live \cap tx.spends
  BY <1>1 DEF Shown, Used
<1>3. /\ \A x \in Ended(L, tx) : \E r \in work.names : r.note = x /\ r.note.nf \in tx.spends
      /\ \A r \in work.names : r.note.nf \in tx.spends => r.note \in Ended(L, tx)
  BY <1>2 DEF Ended
<1>4. CASE ~HasSingleNameNote(tx)
  <2>1. Claims(L, tx) = {} /\ Moves(L, tx) = {}
    BY <1>1, <1>4, SingleNote DEF Claims, Moves, GrantsClaim, GrantsMove
  <2>2. ~Backed(s) /\ ~Consumes(s)
    BY <1>4 DEF Backed, ClaimBacked, IsClaim, Consumes, PredecessorSpent, IsTransition
  <2> QED
    BY <2>1, <2>2
<1>5. CASE HasSingleNameNote(tx)
  <2>1. Candidates(tx) = {n}
    BY <1>1, <1>5, SingleNote
  <2>2. /\ Claims(L, tx) = IF GrantsClaim(L, tx, n) THEN {n} ELSE {}
        /\ Moves(L, tx) = IF GrantsMove(L, tx, n) THEN {n} ELSE {}
    BY <2>1 DEF Claims, Moves
  <2>3. GrantsClaim(L, tx, n) <=> Backed(s) /\ Valid(s)
    <3>1. tx.spends \cap live = {} <=> Ended(L, tx) = {}
      BY <1>1, <1>3 DEF LiveNameNullifiers
    <3>2. (\A x \in L.tips : x.name # n.name) <=> ReadTip(work, n.name) = {}
      BY <1>2 DEF ReadTip
    <3>3. Backed(s) <=> /\ n.action = "claim" /\ Cardinality(Used(L, tx)) = 1
                        /\ Ended(L, tx) = {} /\ Cardinality(tx.zero) = 1 /\ ~tx.extra
      BY <1>2, <1>5, <3>1 DEF Backed, ClaimBacked, IsClaim, LiveRetirements,
                              ClaimSuccessorOutput
    <3>4. n.action = "claim" =>
            (Valid(s) <=> ReadTip(work, n.name) = {} /\ n.prev = ZeroRcm /\ n.nf # NoNf)
      BY DEF Valid, ValidSuccessor, CheckChainRule
    <3> QED
      BY <2>1, <3>2, <3>3, <3>4 DEF GrantsClaim
  <2>4. GrantsMove(L, tx, n) <=> Consumes(s) /\ Valid(s)
    <3>1. ASSUME GrantsMove(L, tx, n) PROVE Consumes(s) /\ Valid(s)
      <4>1. PICK x \in Ended(L, tx) : Ended(L, tx) = {x} /\ x.name = n.name /\ x.rcm = n.prev
        BY <3>1 DEF GrantsMove
      <4>2. PICK r \in work.names : r.note = x /\ r.note.nf \in tx.spends
        BY <1>3
      <4>3. r \in ReadTip(work, n.name) /\ n.prev = r.note.rcm
        BY <4>1, <4>2 DEF ReadTip
      <4>4. tx.spends \cap live \subseteq {r.note.nf}
        BY <1>1, <1>3, <4>1, <4>2 DEF LiveNameNullifiers
      <4>5. ~TouchesLiveAnchor(lineage, tx.spends) /\ n.action # "claim" /\ n.nf # NoNf
        BY <1>2, <3>1 DEF GrantsMove, TouchesLiveAnchor
      <4> QED
        BY <1>5, <4>2, <4>3, <4>4, <4>5
           DEF Consumes, PredecessorSpent, IsTransition, Valid, ValidSuccessor,
               CheckChainRule
    <3>2. ASSUME Consumes(s), Valid(s) PROVE GrantsMove(L, tx, n)
      <4>1. PICK r \in ReadTip(work, n.name) :
               r.note.nf \in tx.spends /\ tx.spends \cap live \subseteq {r.note.nf}
        BY <3>2 DEF Consumes, PredecessorSpent
      <4>2. r \in work.names /\ r.note.name = n.name
        BY DEF ReadTip
      <4>3. n.action # "claim" /\ Used(L, tx) = {}
        BY <1>2, <3>2 DEF Consumes, PredecessorSpent, IsTransition, TouchesLiveAnchor
      <4>4. Ended(L, tx) = {r.note}
        <5>1. ASSUME NEW x \in Ended(L, tx) PROVE x = r.note
          <6>1. PICK q \in work.names : q.note = x /\ q.note.nf \in tx.spends
            BY <1>3
          <6>2. q.note.nf \in live
            BY <1>1 DEF LiveNameNullifiers
          <6>3. q.note.nf = r.note.nf
            BY <4>1, <6>1, <6>2
          <6> QED
            BY <1>1, <4>2, <6>1, <6>3 DEF TipsDistinct
        <5> QED
          BY <1>3, <4>1, <4>2, <5>1
      <4>5. n.nf # NoNf /\ n.prev = r.note.rcm
        <5>1. PICK q \in ReadTip(work, n.name) : n.prev = q.note.rcm
          BY <3>2, <4>3 DEF Valid, ValidSuccessor, CheckChainRule
        <5>2. q = r
          BY <1>1, <4>2 DEF TipsDistinct, ReadTip
        <5> QED
          BY <3>2, <5>1, <5>2 DEF Valid, ValidSuccessor
      <4> QED
        BY <2>1, <4>2, <4>3, <4>4, <4>5 DEF GrantsMove
    <3> QED
      BY <3>1, <3>2
  <2> QED
    BY <2>2, <2>3, <2>4
<1> QED
  BY <1>4, <1>5

\* The pool after a transaction is the pool of the law, and it is open until
\* the ceremony.
LEMMA PoolStep ==
  ASSUME NEW tx \in Tx, NEW l \in Lineage, NEW h \in Nat \ {0}, NEW seated \in BOOLEAN,
         seated => ClaimSuccessorOutput(tx) /\ LiveRetirements(l, tx.spends) = 1,
         tx.zero \cap tx.spends = {},
         ~AdoptionClosed(l) => l = EmptyLineage
  PROVE  LET new    == StepTx(l, h, TxAnchorFacts(tx, seated))
             keygen == /\ ~AdoptionClosed(l) /\ Candidates(tx) = {}
                       /\ Cardinality(tx.zero) = PoolSize
         IN  /\ new.live = ((IF keygen THEN l.live \cup tx.zero ELSE l.live) \ tx.spends)
                           \cup (IF seated THEN tx.zero ELSE {})
             /\ AdoptionClosed(new) <=> AdoptionClosed(l) \/ keygen
<1> DEFINE A == TxAnchorFacts(tx, seated)
           new == StepTx(l, h, A)
           keygen == /\ ~AdoptionClosed(l) /\ Candidates(tx) = {}
                     /\ Cardinality(tx.zero) = PoolSize
           kept == KeptAdoptions(tx, seated)
<1>1. /\ A.adoptions = kept /\ A.retirements = tx.spends
      /\ A.nameNotes = Cardinality(Candidates(tx)) /\ A.claimSuccessor = seated
  BY DEF TxAnchorFacts
<1>2. tx.zero \subseteq Nf /\ (Candidates(tx) = {} <=> Cardinality(Candidates(tx)) = 0)
  BY SingleNote, KeptIs
<1>3. CASE seated
  <2>1. /\ kept = tx.zero /\ Cardinality(tx.zero) = 1 /\ Cardinality(Candidates(tx)) = 1
    BY <1>3, KeptIs
  <2>2. new = [live |-> (l.live \ tx.spends) \cup tx.zero, established |-> l.established]
    <3>1. A.claimSuccessor = TRUE /\ Cardinality(l.live \cap A.retirements) = 1
      BY <1>1, <1>3 DEF LiveRetirements
    <3>2. A.nameNotes # 0 /\ Cardinality(A.adoptions) = 1
      BY <1>1, <2>1
    <3> HIDE DEF A, kept
    <3> QED
      BY <1>1, <2>1, <3>1, <3>2, StepSeats
  <2>3. ~keygen
    BY <1>2, <2>1
  <2> HIDE DEF new, keygen
  <2>4. new.live = (l.live \ tx.spends) \cup tx.zero
    BY <2>2
  <2>5. AdoptionClosed(new) <=> AdoptionClosed(l)
    BY <2>2 DEF AdoptionClosed
  <2>6. new.live = ((IF keygen THEN l.live \cup tx.zero ELSE l.live) \ tx.spends)
                   \cup (IF seated THEN tx.zero ELSE {})
    BY <1>3, <2>3, <2>4
  <2> QED
    BY <2>3, <2>5, <2>6 DEF new, keygen
<1>4. CASE ~seated /\ keygen
  <2>1. kept = tx.zero
    BY <1>2, <1>4 DEF KeptAdoptions, KeepsAnchorNote, IsCeremonyFill, ClaimSuccessorOutput,
                      HasSingleNameNote
  <2>2. l = EmptyLineage /\ l.live = {}
    BY <1>4 DEF EmptyLineage
  <2>3. new = [live |-> tx.zero, established |-> h]
    <3>1. /\ A.claimSuccessor = FALSE /\ A.nameNotes = 0 /\ A.adoptions = tx.zero
          /\ Cardinality(A.adoptions) = PoolSize
      BY <1>1, <1>2, <1>4, <2>1
    <3> HIDE DEF A, kept
    <3> QED
      BY <1>1, <1>2, <2>2, <3>1, StepFounds
  <2> HIDE DEF new
  <2> QED
    BY <1>4, <2>2, <2>3 DEF AdoptionClosed, NoHeight, new
<1>5. CASE ~seated /\ ~keygen
  <2>1. AdoptionClosed(l) \/ ~IsCeremonyFill(Cardinality(A.adoptions), A.nameNotes)
    <3>1. CASE kept = {}
      BY <1>1, <3>1, FS_EmptySet, PoolSizeAssumption DEF IsCeremonyFill, PoolSizeAssumption
    <3>2. CASE kept # {}
      <4>1. Cardinality(tx.zero) = PoolSize /\ Cardinality(Candidates(tx)) = 0
        BY <1>5, <3>2, KeptIs
      <4> QED
        BY <1>2, <1>5, <4>1
    <3> QED
      BY <3>1, <3>2
  <2>2. new = [live |-> l.live \ tx.spends, established |-> l.established]
    <3>1. A.claimSuccessor = FALSE
      BY <1>1, <1>5
    <3> HIDE DEF A, kept
    <3> QED
      BY <1>1, <2>1, <3>1, StepRetires
  <2> HIDE DEF new
  <2> QED
    BY <1>5, <2>2 DEF AdoptionClosed, new
<1> QED
  BY <1>3, <1>4, <1>5

\* A verdict makes of the ledger shown what the law makes of it.
LEMMA ShownSteps ==
  ASSUME NEW b, NEW D, Underway(b, D, work, live, lineage, batch),
         NEW s \in batch, s.at \notin D, IsNext(s),
         NEW tables, NEW seated \in BOOLEAN, Verdict(b, D, s, tables, seated)
  PROVE  Shown(work') = Ledger!Step(Shown(work), s.tx)
<1> DEFINE L == Shown(work)
           tx == s.tx
           n == TheNote(tx)
           keygen == /\ ~AdoptionClosed(lineage) /\ Candidates(tx) = {}
                     /\ Cardinality(tx.zero) = PoolSize
<1>1. /\ b \in Branch /\ Lawful(b) /\ s.at \in Mined(b)
      /\ s.at \in Position /\ TxAt(s.at, b) = tx /\ tx \in Tx
      /\ lineage = Standing(work.facts) /\ WellFormed(work.facts)
  BY BatchContext
<1>2. /\ lineage \in Lineage
      /\ work.facts = {} => lineage = EmptyLineage
      /\ AdoptionClosed(lineage) <=> work.facts # {}
  <2>1. lineage = Standing(work.facts) /\ WellFormed(work.facts)
    BY <1>1
  <2> QED
    BY <2>1, StandingType DEF AdoptionClosed, EmptyLineage
<1>3. /\ Sound(work', b, D \cup {s.at}) /\ lineage' = Standing(work'.facts)
      /\ work'.names = tables.names
      /\ lineage' = StepTx(lineage, s.at[1], TxAnchorFacts(tx, seated))
  <2>1. /\ Sound(work', b, D \cup {s.at}) /\ lineage' = Standing(work'.facts)
        /\ work'.names = tables.names
    BY SettleSound
  <2>2. lineage' = StepTx(lineage, s.at[1], TxAnchorFacts(tx, seated))
    BY DEF Verdict, Settle
  <2> QED
    BY <2>1, <2>2
<1>4. /\ lineage' = Standing(work'.facts)
      /\ AdoptionClosed(lineage') <=> work'.facts # {}
  <2>1. lineage' = Standing(work'.facts) /\ WellFormed(work'.facts)
    BY <1>3 DEF Sound, FactsSound
  <2> QED
    BY <2>1, StandingType DEF AdoptionClosed, EmptyLineage
<1>5. seated = (Backed(s) /\ Valid(s))
  BY DEF Verdict
\* The pool.
<1>6. /\ lineage'.live = ((IF keygen THEN lineage.live \cup tx.zero ELSE lineage.live)
                          \ tx.spends) \cup (IF seated THEN tx.zero ELSE {})
      /\ AdoptionClosed(lineage') <=> AdoptionClosed(lineage) \/ keygen
  <2>1. s.at[1] \in Nat \ {0}
    BY <1>1 DEF Position
  <2>2. tx.zero \cap tx.spends = {}
    <3>1. ASSUME NEW nf \in tx.zero, nf \in tx.spends PROVE FALSE
      <4>1. nf \in CreatedNotes(TxAt(s.at, b)) /\ nf \in TxAt(s.at, b).spends
        BY <1>1, <3>1 DEF CreatedNotes
      <4> QED
        BY <1>1, <4>1, SpentAfterCreated, BeforeIrreflexive
    <3> QED
      BY <3>1
  <2>3. seated => ClaimSuccessorOutput(tx) /\ LiveRetirements(lineage, tx.spends) = 1
    BY <1>5 DEF Backed, ClaimBacked
  <2>4. ~AdoptionClosed(lineage) => lineage = EmptyLineage
    BY <1>2
  <2> QED
    BY <1>1, <1>2, <1>3, <2>1, <2>2, <2>3, <2>4, PoolStep
<1>7. /\ Claims(L, tx) = IF Backed(s) /\ Valid(s) THEN {n} ELSE {}
      /\ Moves(L, tx) = IF Consumes(s) /\ Valid(s) THEN {n} ELSE {}
  BY GrantsAreVerdicts
<1>8. /\ L.tips = {r.note : r \in work.names} /\ L.pool = lineage.live
      /\ L.open = (work.facts = {})
  BY <1>1 DEF Shown
<1>9. Keygen(L, tx) = keygen
  BY <1>2, <1>8, Zenon DEF Keygen
<1> HIDE DEF L, keygen
\* The tips.
<1>10. {r.note : r \in work'.names} =
         (L.tips \ Ended(L, tx)) \cup
         {m \in Claims(L, tx) \cup Moves(L, tx) : m.action # "release"}
  <2> DEFINE kept == {r \in work.names : r.note.nf \notin tx.spends}
             fresh == IF Admitted(s) /\ n.action # "release" THEN {Admission(s)} ELSE {}
  <2>1. work'.names = kept \cup fresh
    BY <1>3 DEF Verdict
  <2>2. {r.note : r \in kept} = L.tips \ Ended(L, tx)
    BY <1>8 DEF Ended
  <2>3. Admission(s).note = n
    BY DEF Admission, AdmissionRow
  <2>4. {r.note : r \in fresh} = IF Admitted(s) /\ n.action # "release" THEN {n} ELSE {}
    BY <2>3
  <2>5. {m \in Claims(L, tx) \cup Moves(L, tx) : m.action # "release"} =
          IF Admitted(s) /\ n.action # "release" THEN {n} ELSE {}
    BY <1>7 DEF Admitted
  <2>6. {r.note : r \in kept \cup fresh} = {r.note : r \in kept} \cup {r.note : r \in fresh}
    OBVIOUS
  <2> HIDE DEF kept, fresh
  <2> QED
    BY <2>1, <2>2, <2>4, <2>5, <2>6
<1>11. /\ Shown(work').pool =
            ((IF Keygen(L, tx) THEN L.pool \cup tx.zero ELSE L.pool) \ tx.spends)
            \cup (IF Claims(L, tx) # {} THEN tx.zero ELSE {})
  <2>1. Shown(work').pool = lineage'.live
    BY <1>4 DEF Shown
  <2>2. seated <=> Claims(L, tx) # {}
    BY <1>5, <1>7
  <2> QED
    BY <1>6, <1>8, <1>9, <2>1, <2>2
<1>12. Shown(work').open = (L.open /\ ~Keygen(L, tx))
  <2>1. Shown(work').open = (work'.facts = {})
    BY DEF Shown
  <2> QED
    BY <1>2, <1>4, <1>6, <1>8, <1>9, <2>1, Zenon
<1>13. Shown(work') = [tips |-> {r.note : r \in work'.names},
                       pool |-> Shown(work').pool, open |-> Shown(work').open]
  BY DEF Shown
<1> QED
  BY <1>10, <1>11, <1>12, <1>13, StepIs DEF L

-----------------------------------------------------------------------------
(* The log and the law.                                                    *)

\* The notes the law admits of a transaction.
Granted(L, tx) == Claims(L, tx) \cup Moves(L, tx)

Earlier(p, b) == {q \in Mined(b) : Before(q, p)}

\* What the law admits of the transaction at a position, from the ledger of
\* the branch before it.
GrantedAt(p, b) == Granted(LedgerAsOf(b, Earlier(p, b)), TxAt(p, b))

\* The events are of the transactions the law admits a note of.
Judged(t, b, D) == \A p \in D : (\E e \in t.events : e.at = p) <=> GrantedAt(p, b) # {}

\* A fact as it was stored.
Fresh(f) == [f EXCEPT !.spent = NotSpent]

FreshAt(facts, p) == {Fresh(f) : f \in Placing(facts, p)}

\* The facts of the transaction at a position, by the law's verdict on it.
AdoptedAt(p, b) ==
  Adoptions(TxAt(p, b), p, Claims(LedgerAsOf(b, Earlier(p, b)), TxAt(p, b)) # {})

\* The facts were stored under the law's verdicts.
Stocked(t, b, D) == \A p \in D : FreshAt(t.facts, p) = AdoptedAt(p, b)

\* A cut branch judges as the whole one does.
LEMMA CutJudges ==
  ASSUME NEW b \in Branch, NEW k \in 0..Len(b), NEW p \in Mined(SubSeq(b, 1, k))
  PROVE  /\ p \in Mined(b) /\ GrantedAt(p, SubSeq(b, 1, k)) = GrantedAt(p, b)
         /\ AdoptedAt(p, SubSeq(b, 1, k)) = AdoptedAt(p, b)
<1> DEFINE c == SubSeq(b, 1, k)
<1>1. /\ c \in Branch /\ Mined(c) = {q \in Mined(b) : q[1] <= k}
      /\ TxAt(p, c) = TxAt(p, b)
      /\ Mined(b) \in SUBSET Position /\ k \in Nat /\ Len(b) \in Nat
  BY CutIsBranch, CutMined, MinedPositions DEF Branch
<1>2. Earlier(p, c) = Earlier(p, b)
  BY <1>1 DEF Earlier, Before, Position
<1>3. Earlier(p, c) \in SUBSET Mined(c)
  BY DEF Earlier
<1>4. LedgerAsOf(c, Earlier(p, c)) = LedgerAsOf(b, Earlier(p, c))
  BY <1>3, CutLedger
<1> QED
  BY <1>1, <1>2, <1>4 DEF GrantedAt, AdoptedAt

\* One more position, with an event if the law admits a note.
LEMMA JudgedGrows ==
  ASSUME NEW b, NEW t, NEW u, NEW D, NEW at, Judged(t, b, D),
         \A e \in t.events : e.at \in D, at \notin D,
         NEW fresh, u.events = t.events \cup fresh, \A e \in fresh : e.at = at,
         fresh # {} <=> GrantedAt(at, b) # {}
  PROVE  Judged(u, b, D \cup {at})
<1>1. ASSUME NEW p \in D
      PROVE  (\E e \in u.events : e.at = p) <=> (\E e \in t.events : e.at = p)
  OBVIOUS
<1>2. (\E e \in u.events : e.at = at) <=> fresh # {}
  OBVIOUS
<1> QED
  BY <1>1, <1>2 DEF Judged

\* A longer branch.
LEMMA JudgedMoves ==
  ASSUME NEW c \in Branch, NEW k \in 0..Len(c), NEW t,
         Judged(t, SubSeq(c, 1, k), Mined(SubSeq(c, 1, k)))
  PROVE  Judged(t, c, Mined(SubSeq(c, 1, k)))
  BY CutJudges DEF Judged

\* A rewind.
LEMMA JudgedCut ==
  ASSUME NEW b \in Branch, NEW t, Judged(t, b, Mined(b)), NEW k \in 0..Len(b)
  PROVE  Judged(Rewound(t, k), SubSeq(b, 1, k), Mined(SubSeq(b, 1, k)))
<1> DEFINE c == SubSeq(b, 1, k)
           u == Rewound(t, k)
<1>1. Mined(c) = {p \in Mined(b) : p[1] <= k}
  BY CutMined
<1>2. u.events = {e \in t.events : e.at[1] <= k}
  BY DEF Rewound
<1>3. ASSUME NEW p \in Mined(c)
      PROVE  (\E e \in u.events : e.at = p) <=> (\E e \in t.events : e.at = p)
  BY <1>1, <1>2
<1> HIDE DEF u
<1> QED
  BY <1>3, CutJudges DEF Judged, u

\* Facts cut to D were stored as they were.
LEMMA CutIsFresh ==
  ASSUME NEW facts \in SUBSET Fact, NEW D, NEW p \in D
  PROVE  FreshAt(AsOf(facts, D), p) = FreshAt(facts, p)
<1>1. ASSUME NEW f \in facts
      PROVE  CutFact(f, D).at = f.at /\ Fresh(CutFact(f, D)) = Fresh(f)
  BY DEF CutFact, Fresh, Fact
<1>2. Placing(AsOf(facts, D), p) = {CutFact(f, D) : f \in Placing(facts, p)}
  BY <1>1 DEF Placing, AsOf
<1> QED
  BY <1>1, <1>2 DEF FreshAt, Placing

\* One more position, with the facts of its verdict.
LEMMA StockedGrows ==
  ASSUME NEW b, NEW t, NEW u, NEW D, NEW at, Stocked(t, b, D),
         u.facts \in SUBSET Fact, AsOf(u.facts, D) = t.facts,
         Placing(u.facts, at) = AdoptedAt(at, b)
  PROVE  Stocked(u, b, D \cup {at})
<1>1. ASSUME NEW p \in D PROVE FreshAt(u.facts, p) = AdoptedAt(p, b)
  BY CutIsFresh DEF Stocked
<1>2. \A f \in AdoptedAt(at, b) : Fresh(f) = f
  BY DEF AdoptedAt, Adoptions, Adopted, Fresh
<1>3. FreshAt(u.facts, at) = AdoptedAt(at, b)
  BY <1>2 DEF FreshAt
<1> QED
  BY <1>1, <1>3 DEF Stocked

\* A longer branch.
LEMMA StockedMoves ==
  ASSUME NEW c \in Branch, NEW k \in 0..Len(c), NEW t,
         Stocked(t, SubSeq(c, 1, k), Mined(SubSeq(c, 1, k)))
  PROVE  Stocked(t, c, Mined(SubSeq(c, 1, k)))
  BY CutJudges DEF Stocked

\* A rewind.
LEMMA StockedCut ==
  ASSUME NEW b \in Branch, NEW t, Good(t, b), Sound(t, b, Mined(b)),
         Stocked(t, b, Mined(b)), NEW k \in 0..Len(b)
  PROVE  Stocked(Rewound(t, k), SubSeq(b, 1, k), Mined(SubSeq(b, 1, k)))
<1> DEFINE c == SubSeq(b, 1, k)
           u == Rewound(t, k)
<1>1. Mined(c) = {p \in Mined(b) : p[1] <= k} /\ t.facts \in SUBSET Fact
  BY CutMined DEF Good, Tables
<1>2. u.facts = AsOf(t.facts, Mined(c))
  BY <1>1, RewoundIsAsOf DEF Sound
<1> HIDE DEF u
<1>3. ASSUME NEW p \in Mined(c) PROVE FreshAt(u.facts, p) = AdoptedAt(p, c)
  <2>1. FreshAt(u.facts, p) = FreshAt(t.facts, p)
    BY <1>1, <1>2, CutIsFresh
  <2> QED
    BY <2>1, CutJudges DEF Stocked
<1> QED
  BY <1>3 DEF Stocked, u

-----------------------------------------------------------------------------
(* The invariant.                                                          *)

\* What tables that cover the positions D of a branch owe to the law.
Exact(t, b, D) == Faithful(t, b, D) /\ Judged(t, b, D) /\ Stocked(t, b, D)

DatabaseExact(d) == Exact(d.tables, d.branch, Mined(d.branch))

LInv ==
  /\ SInv
  /\ DatabaseExact(db) /\ DatabaseExact(durable)
  /\ pc = "batch" => Exact(work, target, Covered)

\* An open batch covers a beginning of its branch.
LEMMA CoveredIsInitial ==
  ASSUME NEW b, NEW D, Underway(b, D, work, live, lineage, batch)
  PROVE  Initial(D, b)
<1>1. /\ b \in Branch /\ Mined(b) \in SUBSET Position
      /\ \A s \in batch, p \in D : s.at \notin D => Before(p, s.at)
      /\ D \in SUBSET Mined(b)
      /\ \A p \in Mined(b) : p \in D \/ \E s \in batch : s.at = p
  BY MinedPositions DEF Underway
<1>2. ASSUME NEW q \in Mined(b), NEW r \in D, Before(q, r)
      PROVE  q \in D
  <2>1. SUFFICES ASSUME q \notin D PROVE FALSE
    OBVIOUS
  <2>2. PICK s \in batch : s.at = q
    BY <1>1, <2>1
  <2>3. Before(r, q)
    BY <1>1, <2>1, <2>2
  <2> QED
    BY <1>1, <1>2, <2>3, BeforeAsymmetric
<1> QED
  BY <1>1, <1>2 DEF Initial

\* Applying a transaction keeps the open tables exact.
LEMMA ApplyExact ==
  ASSUME NEW b, NEW D, Underway(b, D, work, live, lineage, batch), Exact(work, b, D),
         NEW s \in batch, ApplyTransaction(s)
  PROVE  Exact(work', b, D \cup {s.at})
<1>1. /\ IsNext(s) /\ Faithful(work, b, D) /\ Judged(work, b, D) /\ Stocked(work, b, D)
  BY ApplyFrame DEF Exact
<1>2. CASE s.at \in D
  <2>1. work' = work /\ D \cup {s.at} = D
    BY <1>2, ReplayChangesNothing
  <2> QED
    BY <2>1
<1>3. CASE s.at \notin D
  <2>1. PICK tables : \E seated \in BOOLEAN : Verdict(b, D, s, tables, seated)
    BY <1>3, VerdictExists
  <2>2. PICK seated \in BOOLEAN : Verdict(b, D, s, tables, seated)
    BY <2>1
  <2>3. /\ Sound(work', b, D \cup {s.at}) /\ Underway(b, D \cup {s.at}, work', live', lineage', batch')
        /\ AsOf(work'.facts, D) = work.facts
        /\ work'.events = tables.events /\ work'.implicit = tables.implicit
    BY <1>1, <1>3, <2>2, SettleSound, ApplyKeeps
  <2>4. /\ b \in Branch /\ Good(work, b) /\ s.at \in Mined(b)
        /\ TxAt(s.at, b) = s.tx /\ Sound(work, b, D)
    BY BatchContext DEF Underway
  <2>5. Initial(D, b) /\ \A p \in D : Before(p, s.at)
    BY <1>3, CoveredIsInitial DEF Underway
  <2>7. Good(work', b)
    BY <2>3 DEF Underway
  <2>8. Initial(D \cup {s.at}, b)
    <3>1. ASSUME NEW q \in Mined(b), Before(q, s.at) PROVE q \in D
      <4>1. SUFFICES ASSUME q \notin D PROVE FALSE
        OBVIOUS
      <4>2. PICK x \in batch : x.at = q
        BY <4>1 DEF Underway
      <4>3. q \in Position /\ s.at \in Position
        BY <2>4, MinedPositions
      <4>4. x # s /\ Before(s.at, q)
        BY <1>1, <3>1, <4>2, <4>3, BeforeIrreflexive DEF IsNext
      <4> QED
        BY <3>1, <4>3, <4>4, BeforeAsymmetric
    <3> QED
      BY <2>4, <2>5, <3>1 DEF Initial
  <2>9. Shown(work') = Ledger!Step(Shown(work), TxAt(s.at, b))
    BY <1>1, <1>3, <2>2, <2>4, ShownSteps
  <2>10. /\ work.events \subseteq work'.events /\ work.implicit \subseteq work'.implicit
         /\ \A e \in work'.events \ work.events : e.at = s.at
         /\ \A i \in work'.implicit \ work.implicit : i.at = s.at
    BY <2>2, <2>3 DEF Verdict, Admission, AdmissionRow
  <2>11. Faithful(work', b, D \cup {s.at})
    <3>1. Grows(work, work', b, D, s.at)
      BY <1>1, <1>3, <2>3, <2>4, <2>5, <2>7, <2>8, <2>9, <2>10 DEF Grows
    <3> QED
      BY <2>4, <3>1, FaithfulGrows
  <2>12. LedgerAsOf(b, Earlier(s.at, b)) = Shown(work)
    <3>1. D = Earlier(s.at, b)
      BY <2>4, <2>5, <2>8, <1>3, BeforeIrreflexive, MinedPositions DEF Initial, Earlier
    <3>2. LedgerAsOf(b, D) = Shown(work)
      BY <1>1, <2>4, <2>5, ShownIsLedger
    <3> QED
      BY <3>1, <3>2
  <2>13. Judged(work', b, D \cup {s.at})
    <3> DEFINE fresh == IF Admitted(s) THEN {Admission(s)} ELSE {}
    <3>3. Granted(Shown(work), s.tx) = IF Admitted(s) THEN {TheNote(s.tx)} ELSE {}
      BY <1>1, GrantsAreVerdicts DEF Granted, Admitted
    <3>4. GrantedAt(s.at, b) = IF Admitted(s) THEN {TheNote(s.tx)} ELSE {}
      BY <2>4, <2>12, <3>3 DEF GrantedAt
    <3>5. /\ work'.events = work.events \cup fresh /\ \A e \in fresh : e.at = s.at
          /\ fresh # {} <=> GrantedAt(s.at, b) # {}
      <4>1. work'.events = work.events \cup fresh
        BY <2>2, <2>3 DEF Verdict
      <4>2. \A e \in fresh : e.at = s.at
        BY DEF Admission, AdmissionRow
      <4>3. fresh # {} <=> Admitted(s)
        OBVIOUS
      <4>4. GrantedAt(s.at, b) # {} <=> Admitted(s)
        BY <3>4
      <4> QED
        BY <4>1, <4>2, <4>3, <4>4
    <3>6. \A e \in work.events : e.at \in D
      BY <2>4 DEF Sound, HistorySound, Placed
    <3> HIDE DEF fresh
    <3> QED
      BY <1>1, <1>3, <3>5, <3>6, JudgedGrows
  <2>14. Stocked(work', b, D \cup {s.at})
    <3>1. seated <=> Claims(Shown(work), s.tx) # {}
      BY <1>1, <2>2, GrantsAreVerdicts DEF Verdict
    <3>2. AdoptedAt(s.at, b) = Adoptions(s.tx, s.at, seated)
      BY <2>4, <2>12, <3>1 DEF AdoptedAt
    <3>3. Placing(work'.facts, s.at) = AdoptedAt(s.at, b)
      BY <1>1, <1>3, <2>2, <3>2, SettleSound
    <3>4. work'.facts \in SUBSET Fact
      BY <2>7 DEF Good, Tables
    <3> QED
      BY <1>1, <2>3, <3>3, <3>4, StockedGrows
  <2> QED
    BY <1>1, <2>3, <2>11, <2>13, <2>14 DEF Exact
<1> QED
  BY <1>2, <1>3

\* A batch starts with what the checkpoint shows.
LEMMA BeginExact ==
  ASSUME LInv, BeginBatch
  PROVE  Exact(work', target', Covered')
<1> DEFINE k == Len(db.branch)
<1>1. /\ target \in Branch /\ k \in 0..Len(target) /\ db.branch = SubSeq(target, 1, k)
      /\ Covered' = Mined(db.branch)
  BY BeginCovers DEF LInv, SInv, IInv, TypeOK
<1>2. work' = db.tables /\ target' = target
  BY DEF BeginBatch
<1>3. Exact(db.tables, db.branch, Mined(db.branch))
  BY DEF LInv, DatabaseExact
<1> HIDE DEF k
<1>4. Exact(db.tables, target, Mined(SubSeq(target, 1, k)))
  BY <1>1, <1>3, FaithfulMoves, JudgedMoves, StockedMoves DEF Exact
<1> QED
  BY <1>1, <1>2, <1>4

\* The empty tables show the ledger of no block.
LEMMA EmptyIsExact == DatabaseExact(NewDatabase)
<1>1. Mined(<< >>) = {}
  BY DEF Mined
<1>2. /\ EmptyTables.events = {} /\ EmptyTables.implicit = {} /\ EmptyTables.facts = {}
  BY DEF EmptyTables
<1>3. Seen(EmptyTables, {}) = LedgerAsOf(<< >>, {})
  <2>1. Past(EmptyTables, {}).facts = {}
    BY <1>2 DEF Past, AsOf
  <2>2. Past(EmptyTables, {}).events = {} /\ Past(EmptyTables, {}).implicit = {}
    BY <1>2 DEF Past
  <2>3. ImpliedTips(Past(EmptyTables, {})) = {}
    BY <2>2 DEF ImpliedTips, RebuiltTip
  <2>4. Standing({}).live = {}
    <3>1. WellFormed({})
      BY <1>2, EmptyIsSound DEF Sound, FactsSound
    <3> QED
      BY <3>1, StandingType DEF EmptyLineage
  <2>5. LedgerAsOf(<< >>, {}) = [tips |-> {}, pool |-> {}, open |-> TRUE]
    BY DEF LedgerAsOf, Ledger!NewLedger
  <2> QED
    BY <2>1, <2>3, <2>4, <2>5 DEF Seen
<1>4. Faithful(EmptyTables, << >>, {})
  BY <1>3 DEF Faithful
<1> QED
  BY <1>1, <1>4 DEF DatabaseExact, NewDatabase, Exact, Judged, Stocked

\* The database starts so.
LEMMA InitExact == Init => LInv
  BY InitSound, EmptyIsExact DEF Init, LInv

\* A step that leaves the indexer idle.
LEMMA RestExact ==
  ASSUME SInv', pc' = "idle", DatabaseExact(db'), DatabaseExact(durable')
  PROVE  LInv'
  BY DEF LInv

\* A step that leaves the databases and the open tables as they are.
LEMMA OtherExact ==
  ASSUME LInv, SInv', UNCHANGED <<db, durable, work, target, batch>>,
         pc' = "batch" => pc = "batch"
  PROVE  LInv'
<1>1. Covered' = Covered
  BY DEF Covered
<1> QED
  BY <1>1 DEF LInv

\* Every step keeps every database exact.
LEMMA NextExact == LInv /\ [Next]_vars => LInv'
<1> SUFFICES ASSUME LInv, [Next]_vars PROVE LInv'
  OBVIOUS
<1>1. SInv /\ SInv' /\ DatabaseExact(db) /\ DatabaseExact(durable)
  BY NextSound DEF LInv
<1>2. ASSUME NEW b \in Block, Mine(b) PROVE LInv'
  BY <1>1, <1>2, OtherExact DEF Mine, local
<1>3. ASSUME NEW k \in 0..(Len(chain) - 1), Reorg(k) PROVE LInv'
  BY <1>1, <1>3, OtherExact DEF Reorg, local
<1>4. ASSUME NEW from \in 1..Len(chain), NEW to \in 1..Len(chain), Scan(from, to)
      PROVE  LInv'
  BY <1>1, <1>4 DEF Scan, LInv
<1>5. ASSUME NEW k \in 0..Len(chain), RewindTo(k) PROVE LInv'
  <2> DEFINE new == [tables |-> Rewound(db.tables, k), branch |-> SubSeq(db.branch, 1, k)]
  <2>1. /\ db.branch \in Branch /\ k \in 0..Len(db.branch) /\ Good(db.tables, db.branch)
        /\ Sound(db.tables, db.branch, Mined(db.branch))
    <3>1. db.branch \in Branch /\ Len(db.branch) \in Nat
      BY <1>1 DEF SInv, IInv, TypeOK, Database, Branch
    <3> QED
      BY <1>1, <1>5, <3>1 DEF SInv, IInv, DatabaseSound, RewindTo
  <2>2. Exact(Rewound(db.tables, k), SubSeq(db.branch, 1, k),
              Mined(SubSeq(db.branch, 1, k)))
    BY <1>1, <2>1, FaithfulCut, JudgedCut, StockedCut DEF DatabaseExact, Exact
  <2>3. DatabaseExact(new)
    BY <2>2 DEF DatabaseExact
  <2>4. db' = new /\ durable' \in {durable, new} /\ pc' = "idle"
    BY <1>5 DEF RewindTo, Persist
  <2> HIDE DEF new
  <2> QED
    BY <1>1, <2>3, <2>4, RestExact
<1>6. CASE TakeSnapshot
  BY <1>1, <1>6 DEF TakeSnapshot, LInv
<1>7. CASE BeginBatch
  <2>1. Exact(work', target', Covered')
    BY <1>7, BeginExact
  <2> QED
    BY <1>1, <1>7, <2>1 DEF BeginBatch, LInv
<1>8. ASSUME NEW s \in batch, ApplyTransaction(s) PROVE LInv'
  <2>1. Exact(work', target', Covered')
    <3>1. pc = "batch" /\ UNCHANGED <<db, durable, target>>
      BY <1>8, ApplyFrame
    <3>2. Underway(target, Covered, work, live, lineage, batch) /\ Exact(work, target, Covered)
      BY <3>1 DEF LInv, SInv, BatchSound
    <3>3. Exact(work', target, Covered \cup {s.at})
      BY <1>8, <3>2, ApplyExact
    <3>4. Covered' = Covered \cup {s.at}
      BY <1>8, ApplyCovers DEF LInv
    <3> QED
      BY <3>1, <3>3, <3>4
  <2>2. UNCHANGED <<db, durable>>
    BY <1>8, ApplyFrame
  <2> QED
    BY <1>1, <2>1, <2>2 DEF LInv
<1>9. CASE CommitBatch
  <2> DEFINE new == [tables |-> work, branch |-> target]
  <2>1. Covered = Mined(target)
    BY <1>9 DEF CommitBatch, Covered
  <2>2. DatabaseExact(new)
    BY <1>9, <2>1 DEF CommitBatch, LInv, DatabaseExact
  <2>3. db' = new /\ durable' \in {durable, new} /\ pc' = "idle"
    BY <1>9 DEF CommitBatch, Persist, Rest
  <2> HIDE DEF new
  <2> QED
    BY <1>1, <2>2, <2>3, RestExact
<1>10. CASE Abandon
  BY <1>1, <1>10, RestExact DEF Abandon, Rest
<1>11. CASE PowerLoss
  BY <1>1, <1>11, RestExact DEF PowerLoss, Rest
<1>12. CASE UNCHANGED vars
  BY <1>1, <1>12, OtherExact DEF vars, local
<1> QED
  BY <1>2, <1>3, <1>4, <1>5, <1>6, <1>7, <1>8, <1>9, <1>10, <1>11, <1>12
     DEF Next, Network, Indexer, Scanner

\* The invariant holds in every state.
LEMMA Exactness == Spec => []LInv
  BY InitExact, NextExact, PTL DEF Spec

-----------------------------------------------------------------------------
(* The branch determines the tables.                                       *)

\* What two databases of one branch have to agree.
Indexed(t, b) ==
  Good(t, b) /\ Sound(t, b, Mined(b)) /\ Judged(t, b, Mined(b)) /\ Stocked(t, b, Mined(b))

\* They have the same events: the law admits the same notes.
LEMMA SameEvents ==
  ASSUME NEW b \in Branch, NEW t, NEW u, Indexed(t, b), Indexed(u, b)
  PROVE  t.events \subseteq u.events
<1> SUFFICES ASSUME NEW e \in t.events PROVE e \in u.events
  OBVIOUS
<1>1. e.at \in Mined(b) /\ e \in Row
  BY RecordTypes DEF Indexed, Good, Tables
<1>2. PICK f \in u.events : f.at = e.at
  BY <1>1 DEF Indexed, Judged
<1>3. f \in Row
  BY DEF Indexed, Good, Tables
<1>4. e.note = f.note /\ e.txid = f.txid
  BY <1>2, RecordTypes DEF Indexed
<1> QED
  BY <1>1, <1>2, <1>3, <1>4 DEF Row

\* They have the same implicit releases: where the note of a binding is spent
\* its name has a record, and the same transactions have events.
LEMMA SameReleases ==
  ASSUME NEW b \in Branch, Lawful(b), NEW t, NEW u, Indexed(t, b), Indexed(u, b),
         t.events = u.events
  PROVE  t.implicit \subseteq u.implicit
<1> SUFFICES ASSUME NEW i \in t.implicit PROVE i \in u.implicit
  OBVIOUS
<1>1. /\ Placed(t, Mined(b)) /\ Chained(t) /\ Follows(t, b, Mined(b))
      /\ Placed(u, Mined(b)) /\ Chained(u) /\ Follows(u, b, Mined(b))
  BY DEF Indexed, Sound, HistorySound
<1>2. /\ i \in ImplicitRow /\ i.at \in Mined(b) /\ i.at \in Position
      /\ i.txid = TxAt(i.at, b).id /\ i.nf \in TxAt(i.at, b).spends
  BY <1>1 DEF Indexed, Good, Tables, TablesOnBranch, Placed, ImplicitRow
<1>3. PICK r \in LiveBefore(t, i.name, i.at) : r.note.nf = i.nf
  BY <1>1 DEF Chained, NotesOf
<1>4. /\ r \in t.events /\ r.note.name = i.name /\ r.note.action # "release"
      /\ Before(r.at, i.at) /\ r.at \in Position
  BY <1>1, <1>2, LiveIs, RecordTypes DEF Indexed
<1>5. PICK j \in u.implicit : j.name = i.name /\ j.at = i.at
  <2>1. i.at \in RecordsOf(u, i.name)
    BY <1>1, <1>2, <1>3, <1>4 DEF Follows
  <2>2. \A e \in u.events : e.at # i.at
    BY <1>1 DEF Placed
  <2> QED
    BY <2>1, <2>2 DEF RecordsOf
<1>6. j \in ImplicitRow /\ j.txid = i.txid
  BY <1>2, <1>5 DEF Indexed, Good, Tables, TablesOnBranch
<1>7. PICK x \in LiveBefore(u, j.name, j.at) : x.note.nf = j.nf
  BY <1>1 DEF Chained, NotesOf
<1>8. /\ x \in u.events /\ x.note.name = i.name /\ x.note.action # "release"
      /\ Before(x.at, i.at) /\ x.at \in Position
      /\ \A q \in RecordsOf(u, i.name) : Before(q, i.at) => ~Before(x.at, q)
  BY <1>1, <1>2, <1>5, <1>7, LiveIs, RecordTypes DEF Indexed
<1>9. /\ \A q \in RecordsOf(t, i.name) : Before(q, i.at) => ~Before(r.at, q)
  BY <1>1, <1>2, <1>3, <1>4, LiveIs DEF Indexed
<1>10. x.at = r.at
  <2>1. x.at \in RecordsOf(t, i.name) /\ r.at \in RecordsOf(u, i.name)
    BY <1>4, <1>8 DEF RecordsOf
  <2>2. ~Before(r.at, x.at) /\ ~Before(x.at, r.at)
    BY <1>4, <1>8, <1>9, <2>1
  <2> QED
    BY <1>4, <1>8, <2>2, BeforeTotal
<1>11. x.note = r.note
  BY <1>4, <1>8, <1>10, RecordTypes DEF Indexed
<1> QED
  BY <1>2, <1>3, <1>5, <1>6, <1>7, <1>11 DEF ImplicitRow

\* They have the same facts: those the same verdicts kept, spent where the
\* branch spends them.
LEMMA SameFacts ==
  ASSUME NEW b \in Branch, Lawful(b), NEW t, NEW u, Indexed(t, b), Indexed(u, b)
  PROVE  t.facts \subseteq u.facts
<1> SUFFICES ASSUME NEW f \in t.facts PROVE f \in u.facts
  OBVIOUS
<1>1. /\ t.facts \subseteq Fact /\ FactsSound(t.facts, b, Mined(b)) /\ TablesOnBranch(t, b)
      /\ u.facts \subseteq Fact /\ FactsSound(u.facts, b, Mined(b)) /\ TablesOnBranch(u, b)
  BY DEF Indexed, Good, Tables, Sound
<1>2. f \in Fact /\ f.at \in Mined(b) /\ f.spent \in Mined(b) \cup {NotSpent}
  BY <1>1 DEF FactsSound
<1>3. Fresh(f) \in FreshAt(u.facts, f.at)
  <2>1. Fresh(f) \in FreshAt(t.facts, f.at)
    BY DEF FreshAt, Placing
  <2> QED
    BY <1>2, <2>1 DEF Indexed, Stocked
<1>4. PICK g \in u.facts : Fresh(g) = Fresh(f)
  BY <1>3 DEF FreshAt, Placing
<1>5. g \in Fact /\ g.spent \in Mined(b) \cup {NotSpent}
  BY <1>1 DEF FactsSound
<1>6. /\ f.nf = g.nf /\ f.at = g.at /\ f.nameNotes = g.nameNotes
      /\ f.claimSuccessor = g.claimSuccessor
  BY <1>2, <1>4, <1>5 DEF Fresh, Fact
<1>7. f.spent = g.spent
  <2>1. /\ f.spent # NotSpent => f.nf \in TxAt(f.spent, b).spends
        /\ g.spent # NotSpent => g.nf \in TxAt(g.spent, b).spends
    BY <1>1 DEF TablesOnBranch
  <2>2. f.spent # NotSpent <=> g.spent # NotSpent
    BY <1>1, <1>2, <1>5, <1>6, <2>1 DEF FactsSound
  <2>3. CASE f.spent # NotSpent
    BY <1>2, <1>5, <1>6, <2>1, <2>2, <2>3, SpentOnce
  <2> QED
    BY <2>2, <2>3
<1> QED
  BY <1>2, <1>5, <1>6, <1>7 DEF Fact

\* Two databases of one branch have the same tables.
LEMMA SameTables ==
  ASSUME NEW b \in Branch, Lawful(b), NEW t, NEW u, Indexed(t, b), Indexed(u, b)
  PROVE  t = u
<1>1. t.events = u.events
  BY SameEvents
<1>2. t.implicit = u.implicit /\ t.facts = u.facts
  <2>1. t.implicit \subseteq u.implicit /\ u.implicit \subseteq t.implicit
    BY <1>1, SameReleases
  <2>2. t.facts \subseteq u.facts /\ u.facts \subseteq t.facts
    BY SameFacts
  <2> QED
    BY <2>1, <2>2
<1>3. t.names = ImpliedTips(t) /\ u.names = ImpliedTips(u)
  BY DEF Indexed, Sound, HistorySound
<1>4. t.names = u.names
  BY <1>1, <1>2, <1>3 DEF ImpliedTips
<1>5. t \in Tables /\ u \in Tables
  BY DEF Indexed, Good
<1> QED
  BY <1>1, <1>2, <1>4, <1>5 DEF Tables

\* The tables of a branch.
TablesOf(b) == CHOOSE t : Indexed(t, b)

\* They are the tables of the branch.
LEMMA IndexedIsTablesOf ==
  ASSUME NEW b \in Branch, Lawful(b), NEW t, Indexed(t, b)
  PROVE  t = TablesOf(b)
<1>1. Indexed(TablesOf(b), b)
  BY DEF TablesOf
<1> QED
  BY <1>1, SameTables

\* A rewind goes back to the tables of the shorter branch.
LEMMA RewoundIndexed ==
  ASSUME NEW b \in Branch, Lawful(b), NEW t, Indexed(t, b), NEW k \in 0..Len(b)
  PROVE  Indexed(Rewound(t, k), SubSeq(b, 1, k))
  BY RewoundGood, RewoundSound, JudgedCut, StockedCut DEF Indexed

-----------------------------------------------------------------------------
(* Theorems.                                                               *)

\* The index is a function of the chain: whatever reorganisations, rescans,
\* replays, crashes and power losses lie behind it, a database whose
\* checkpoint names a branch holds the same rows as every other database with
\* that checkpoint, and a rewind goes back to the rows of the shorter branch
\* (apply_batch and rewind).
TheTablesOfItsBranch(d) ==
  /\ d.tables = TablesOf(d.branch)
  /\ \A k \in 0..Len(d.branch) : Rewound(d.tables, k) = TablesOf(SubSeq(d.branch, 1, k))

\* The committed and the durable tables are those of their branches.
LEMMA LInvIndexes ==
  ASSUME LInv, NEW d \in {db, durable}
  PROVE  /\ d.branch \in Branch /\ Lawful(d.branch) /\ Indexed(d.tables, d.branch)
         /\ TheTablesOfItsBranch(d)
<1>1. /\ d.branch \in Branch /\ Lawful(d.branch) /\ Indexed(d.tables, d.branch)
  BY DEF LInv, SInv, IInv, TypeOK, Database, DatabaseSound, DatabaseExact, Exact, Indexed
<1>2. d.tables = TablesOf(d.branch)
  BY <1>1, IndexedIsTablesOf
<1>3. ASSUME NEW k \in 0..Len(d.branch)
      PROVE  Rewound(d.tables, k) = TablesOf(SubSeq(d.branch, 1, k))
  <2>1. SubSeq(d.branch, 1, k) \in Branch /\ Lawful(SubSeq(d.branch, 1, k))
    BY <1>1, CutIsBranch, CutLawful
  <2>2. Indexed(Rewound(d.tables, k), SubSeq(d.branch, 1, k))
    BY <1>1, RewoundIndexed
  <2> QED
    BY <2>1, <2>2, IndexedIsTablesOf
<1> QED
  BY <1>1, <1>2, <1>3 DEF TheTablesOfItsBranch

\* Two databases with one checkpoint hold the same rows, and a rewind returns to
\* the rows of the shorter branch (apply_batch, rewind).
THEOREM BranchDeterminesTables ==
  Spec => [](TheTablesOfItsBranch(db) /\ TheTablesOfItsBranch(durable))
<1>1. LInv => TheTablesOfItsBranch(db) /\ TheTablesOfItsBranch(durable)
  BY LInvIndexes
<1> QED
  BY <1>1, Exactness, PTL

\* What readers see, the names table and the fold of the anchor facts, is
\* the law's ledger of the checkpoint's branch.
Committed ==
  LET law == Ledger!LedgerOf(db.branch)
  IN  /\ {r.note : r \in db.tables.names} = law.tips
      /\ FoldLineage(db.tables.facts).live = law.pool

\* Sound and faithful tables show the law's ledger of the branch.
LEMMA LedgerIsShown ==
  ASSUME NEW b \in Branch, NEW t, Good(t, b), Sound(t, b, Mined(b)), Faithful(t, b, Mined(b))
  PROVE  Shown(t) = Ledger!LedgerOf(b)
<1>1. Len(b) \in Nat
  BY DEF Branch
<1>2. Initial(Mined(b), b)
  BY DEF Initial
<1>3. Shown(t) = LedgerAsOf(b, Mined(b))
  BY <1>2, ShownIsLedger
<1>4. LedgerAsOf(b, Mined(b)) = Ledger!LedgerOf(b)
  <2>1. Len(b) \in 0..Len(b) /\ SubSeq(b, 1, Len(b)) = b
    BY <1>1 DEF Branch
  <2>2. Ledger!LedgerOf(SubSeq(b, 1, Len(b))) =
          LedgerAsOf(b, {q \in Mined(b) : q[1] <= Len(b)})
    BY <2>1, LedgerUpTo
  <2>3. {q \in Mined(b) : q[1] <= Len(b)} = Mined(b)
    BY <1>1, MinedIs
  <2> QED
    BY <2>1, <2>2, <2>3
<1> QED
  BY <1>3, <1>4

\* So readers of them see that ledger.
LEMMA LedgerIsRead ==
  ASSUME NEW b \in Branch, NEW t, Good(t, b), Sound(t, b, Mined(b)), Faithful(t, b, Mined(b))
  PROVE  /\ {r.note : r \in t.names} = Ledger!LedgerOf(b).tips
         /\ FoldLineage(t.facts).live = Ledger!LedgerOf(b).pool
<1>1. Shown(t) = Ledger!LedgerOf(b)
  BY LedgerIsShown
<1>2. WellFormed(t.facts)
  BY DEF Sound, FactsSound
<1>3. FoldLineage(t.facts) = Standing(t.facts)
  BY <1>2, FoldIsStanding
<1>4. Shown(t).tips = {r.note : r \in t.names} /\ Shown(t).pool = FoldLineage(t.facts).live
  BY <1>3 DEF Shown
<1> QED
  BY <1>1, <1>4

\* The invariant contains what readers are promised.
LEMMA LInvCommits == LInv => Committed
<1> SUFFICES ASSUME LInv PROVE Committed
  OBVIOUS
<1>1. /\ db.branch \in Branch /\ Good(db.tables, db.branch)
      /\ Sound(db.tables, db.branch, Mined(db.branch))
      /\ Faithful(db.tables, db.branch, Mined(db.branch))
  BY DEF LInv, SInv, IInv, TypeOK, Database, DatabaseSound, DatabaseExact, Exact
<1> QED
  BY <1>1, LedgerIsRead DEF Committed

\* Whatever was reorganised away, replayed, rescanned or lost with the power,
\* what readers see is the law's ledger of the branch the checkpoint names:
\* every block of it applied once, in order, and no other (apply_batch, rewind).
THEOREM CommittedIsLedger == Spec => []Committed
  BY Exactness, LInvCommits, PTL

\* The same of the next state.
LEMMA LInvCommitsNext == LInv' => Committed'
  BY LInvCommits, PTL

\* The log of events has, at every position of the checkpoint's branch, the
\* note the law admits there from the ledger before it, and no other.
LogIsGranted ==
  \A p \in Mined(db.branch) :
    {e.note : e \in Placing(db.tables.events, p)} = GrantedAt(p, db.branch)

\* Where the law admits a note of a transaction the log has it.
LEMMA LInvGrants == LInv => LogIsGranted
<1> SUFFICES ASSUME LInv, NEW p \in Mined(db.branch)
             PROVE  {e.note : e \in Placing(db.tables.events, p)} = GrantedAt(p, db.branch)
  BY DEF LogIsGranted
<1> DEFINE b == db.branch
           tx == TxAt(p, b)
<1>1. b \in Branch /\ Indexed(db.tables, b) /\ tx \in Tx
  BY LInvIndexes, MinedPositions
<1>2. \A e \in db.tables.events : e.at = p => e.note = TheNote(tx)
  BY <1>1, RecordTypes DEF Indexed
<1>3. (\E e \in db.tables.events : e.at = p) <=> GrantedAt(p, b) # {}
  BY <1>1 DEF Indexed, Judged
<1>4. GrantedAt(p, b) \subseteq {TheNote(tx)}
  <2>1. ASSUME NEW L, NEW n \in Granted(L, tx) PROVE n = TheNote(tx)
    <3>1. Candidates(tx) = {n}
      BY <2>1 DEF Granted, Claims, Moves, GrantsClaim, GrantsMove
    <3> QED
      BY <1>1, <3>1, SingleNote
  <2> QED
    BY <2>1 DEF GrantedAt
<1> QED
  BY <1>2, <1>3, <1>4 DEF Placing

\* No admitted registration is missing from the log and none is there that
\* the law refuses, whatever was rewound and rescanned (apply_transaction,
\* record_admission, rewind).
THEOREM LogIsLawful == Spec => []LogIsGranted
  BY LInvGrants, Exactness, PTL

\* A step that commits grows the branch or cuts it, and readers see the
\* ledger of the result.
LEMMA StepRefines ==
  ASSUME Lossy = FALSE, LInv, LInv', [Next]_vars
  PROVE  [Ledger!Next]_(Ledger!vars)
<1>1. Committed /\ Committed'
  BY LInvCommits, LInvCommitsNext
<1>2. db.branch \in Branch /\ Len(db.branch) \in Nat
  BY DEF LInv, SInv, IInv, TypeOK, Database, Branch
<1>3. ASSUME db' = db PROVE [Ledger!Next]_(Ledger!vars)
  BY <1>3 DEF Ledger!vars
<1>4. ASSUME NEW k \in 0..Len(chain), RewindTo(k) PROVE Ledger!Next
  <2>1. k \in 0..(Len(db.branch) - 1) /\ db'.branch = SubSeq(db.branch, 1, k)
    BY <1>2, <1>4 DEF RewindTo, Persist
  <2>2. Ledger!Reads(SubSeq(db.branch, 1, k))
    BY <1>1, <2>1 DEF Ledger!Reads, Committed
  <2> QED
    BY <2>1, <2>2 DEF Ledger!Next, Ledger!Cut
<1>5. CASE CommitBatch
  <2>1. /\ db'.branch = target /\ target \in Branch /\ IsPrefix(db.branch, target)
    BY <1>5 DEF CommitBatch, Persist, LInv, SInv, IInv, TypeOK, BatchOnTarget
  <2>2. /\ Len(db.branch) \in 0..Len(target) /\ Len(target) \in Nat
        /\ SubSeq(target, 1, Len(db.branch)) = db.branch
    BY <1>2, <2>1, PrefixIsCut DEF Branch
  <2>3. CASE Len(target) > Len(db.branch)
    <3>1. db.branch' = target
      BY <2>1
    <3>2. Ledger!Grow
      BY <1>1, <2>1, <2>2, <2>3, <3>1 DEF Ledger!Grow, Ledger!Reads, Branch, Committed
    <3> QED
      BY <3>2 DEF Ledger!Next
  <2>4. CASE ~(Len(target) > Len(db.branch))
    <3>1. target = db.branch
      BY <2>1, <2>2, <2>4 DEF Branch
    <3> QED
      BY <1>1, <2>1, <3>1 DEF Committed, Ledger!vars
  <2> QED
    BY <2>3, <2>4
<1>6. ASSUME NEW s \in batch, ApplyTransaction(s) PROVE db' = db
  BY <1>6 DEF ApplyTransaction, AdmitClaim, DropClaim, AdmitTransition, EndPredecessor,
              FollowSpends, Settle
<1>7. CASE db' # db
  <2>1. CommitBatch \/ \E k \in 0..Len(chain) : RewindTo(k)
    BY <1>6, <1>7 DEF Next, Network, Indexer, Scanner, Mine, Reorg, Scan, TakeSnapshot,
                      BeginBatch, Abandon, PowerLoss, vars
  <2> QED
    BY <1>4, <1>5, <2>1
<1> QED
  BY <1>3, <1>7

\* While the log is durable, every commit takes the law's ledger of one
\* branch to the law's ledger of the same branch grown or cut at its end, and
\* no other step of scanner, indexer or network changes what readers see.
THEOREM ImplementsTheLedger ==
  ASSUME Lossy = FALSE
  PROVE  Spec => ImplementsLedger
<1>1. Init => Ledger!Init
  <2> SUFFICES ASSUME Init PROVE Ledger!Init
    OBVIOUS
  <2>1. db.branch = << >> /\ db.tables.names = {} /\ db.tables.facts = {}
    BY DEF Init, NewDatabase, EmptyTables
  <2>2. WellFormed({})
    BY EmptyIsSound DEF Sound, FactsSound, EmptyTables
  <2>3. FoldLineage({}).live = {}
    BY <2>2, FoldIsStanding, StandingType DEF EmptyLineage
  <2> QED
    BY <2>1, <2>3 DEF Ledger!Init
<1>2. LInv /\ LInv' /\ [Next]_vars => [Ledger!Next]_(Ledger!vars)
  BY StepRefines
<1> QED
  BY <1>1, <1>2, Exactness, PTL DEF Spec, ImplementsLedger, Ledger!Spec

-----------------------------------------------------------------------------
(* Authority is conserved.                                                 *)

\* A pool that the ceremony has not filled is empty, and none is above the
\* standing size.
Bounded(L) ==
  /\ IsFiniteSet(L.pool) /\ Cardinality(L.pool) <= PoolSize
  /\ L.open => L.pool = {}

\* M comes after L, and no ceremony between them added authority to L's.
Keeps(L, M) == ~L.open => ~M.open /\ Cardinality(M.pool) <= Cardinality(L.pool)

\* One transaction takes one anchor for the one it seats.
LEMMA StepKeeps ==
  ASSUME NEW L \in Ledger!LedgerState, NEW tx \in Tx, Bounded(L)
  PROVE  Bounded(Ledger!Step(L, tx)) /\ Keeps(L, Ledger!Step(L, tx))
<1> DEFINE M == Ledger!Step(L, tx)
           rest == L.pool \ tx.spends
           used == Used(L, tx)
<1>1. /\ tx.zero \in SUBSET Nf /\ IsFiniteSet(tx.zero) /\ L.open \in BOOLEAN
      /\ PoolSize \in Nat \ {0}
  BY RegistryAssumption, PoolSizeAssumption DEF RegistryAssumption, Ledger!LedgerState
<1>2. /\ M.pool = ((IF Keygen(L, tx) THEN L.pool \cup tx.zero ELSE L.pool) \ tx.spends)
                  \cup (IF Claims(L, tx) # {} THEN tx.zero ELSE {})
      /\ M.open = (L.open /\ ~Keygen(L, tx))
  BY StepIs
<1>3. /\ IsFiniteSet(L.pool) /\ Cardinality(L.pool) \in Nat /\ Cardinality(L.pool) <= PoolSize
      /\ IsFiniteSet(rest) /\ Cardinality(rest) \in Nat
      /\ Cardinality(rest) <= Cardinality(L.pool)
  BY FS_Subset, FS_CardinalityType DEF Bounded
<1>4. CASE Claims(L, tx) # {}
  <2>1. ~Keygen(L, tx) /\ Cardinality(used) = 1 /\ Cardinality(tx.zero) = 1
    BY <1>4 DEF Claims, GrantsClaim, Keygen
  <2>2. M.pool = rest \cup tx.zero /\ M.open = L.open
    BY <1>1, <1>2, <1>4, <2>1
  <2>3. IsFiniteSet(used) /\ used # {}
    <3>1. IsFiniteSet(used)
      BY <1>3, FS_Subset DEF Used
    <3>2. used # {}
      BY <2>1, FS_EmptySet
    <3> QED
      BY <3>1, <3>2
  <2>4. ~L.open
    BY <1>1, <2>3 DEF Used, Bounded
  <2>5. Cardinality(rest) = Cardinality(L.pool) - 1
    <3>1. rest = L.pool \ used
      BY DEF Used
    <3>2. L.pool \cap used = used
      BY DEF Used
    <3>3. Cardinality(L.pool \ used) = Cardinality(L.pool) - Cardinality(L.pool \cap used)
      BY <1>3, <2>3, FS_Difference
    <3> QED
      BY <1>3, <2>1, <3>1, <3>2, <3>3
  <2>6. /\ IsFiniteSet(rest \cup tx.zero)
        /\ Cardinality(rest \cup tx.zero) <= Cardinality(L.pool)
    <3>1. /\ IsFiniteSet(rest \cup tx.zero) /\ IsFiniteSet(rest \cap tx.zero)
          /\ Cardinality(rest \cup tx.zero) =
               Cardinality(rest) + Cardinality(tx.zero) - Cardinality(rest \cap tx.zero)
      BY <1>1, <1>3, FS_Union, FS_Subset
    <3>2. Cardinality(rest \cap tx.zero) \in Nat
      BY <3>1, FS_CardinalityType
    <3> QED
      BY <1>3, <2>1, <2>5, <3>1, <3>2
  <2>7. Cardinality(M.pool) \in Nat
    BY <2>2, <2>6, FS_CardinalityType
  <2> QED
    BY <1>1, <1>3, <2>2, <2>4, <2>6, <2>7 DEF Bounded, Keeps
<1>5. CASE Keygen(L, tx)
  <2>1. Claims(L, tx) = {} /\ L.open /\ L.pool = {} /\ Cardinality(tx.zero) = PoolSize
    BY <1>5 DEF Claims, GrantsClaim, Keygen, Bounded
  <2>2. M.pool \in SUBSET tx.zero /\ ~M.open
    BY <1>2, <1>5, <2>1
  <2>3. IsFiniteSet(M.pool) /\ Cardinality(M.pool) <= PoolSize
    BY <1>1, <2>1, <2>2, FS_Subset
  <2> QED
    BY <2>1, <2>2, <2>3 DEF Bounded, Keeps
<1>6. CASE Claims(L, tx) = {} /\ ~Keygen(L, tx)
  <2>1. M.pool = rest /\ M.open = L.open
    BY <1>1, <1>2, <1>6
  <2> QED
    BY <1>1, <1>3, <2>1 DEF Bounded, Keeps
<1> QED
  BY <1>4, <1>5, <1>6

\* So do the transactions of a block.
LEMMA BlockKeeps ==
  ASSUME NEW L \in Ledger!LedgerState, NEW block \in Seq(Tx), Bounded(L)
  PROVE  LET M == Ledger!Within(L, block)[Len(block)]
         IN  M \in Ledger!LedgerState /\ Bounded(M) /\ Keeps(L, M)
<1> DEFINE w == Ledger!Within(L, block)
           n == Len(block)
           S == Ledger!LedgerState
           bad == {i \in 0..n : ~(Bounded(w[i]) /\ Keeps(L, w[i]))}
<1>1. n \in Nat /\ \A i \in 1..n : block[i] \in Tx
  OBVIOUS
<1>2. w \in [0..n -> S] /\ w[0] = L /\ \A i \in 1..n : w[i] = Ledger!Step(w[i - 1], block[i])
  BY WithinSteps
<1>3. bad = {}
  <2> SUFFICES ASSUME bad # {} PROVE FALSE
    OBVIOUS
  <2>1. PICK i \in bad : \A j \in bad : i <= j
    <3>1. bad \in SUBSET Nat
      OBVIOUS
    <3> HIDE DEF bad
    <3> QED
      BY <3>1, LeastNumber
  <2>2. L.open \in BOOLEAN /\ Cardinality(L.pool) <= Cardinality(L.pool)
    <3>1. Cardinality(L.pool) \in Nat
      BY FS_CardinalityType DEF Bounded
    <3> QED
      BY <3>1 DEF Ledger!LedgerState
  <2>3. i # 0
    BY <1>2, <2>1, <2>2 DEF Keeps
  <2>4. i \in 1..n /\ i - 1 \in 0..n /\ ~(i <= i - 1)
    BY <1>1, <2>1, <2>3
  <2> HIDE DEF w
  <2>5. Bounded(w[i - 1]) /\ Keeps(L, w[i - 1])
    BY <2>1, <2>4
  <2>6. w[i - 1] \in S /\ w[i] = Ledger!Step(w[i - 1], block[i]) /\ block[i] \in Tx
    <3> HIDE DEF S
    <3> QED
      BY <1>1, <1>2, <2>4
  <2>7. Bounded(w[i]) /\ Keeps(w[i - 1], w[i])
    BY <2>5, <2>6, StepKeeps
  <2>8. /\ Cardinality(L.pool) \in Nat /\ Cardinality(w[i - 1].pool) \in Nat
        /\ Cardinality(w[i].pool) \in Nat
    BY <2>5, <2>7, FS_CardinalityType DEF Bounded
  <2>9. Keeps(L, w[i])
    BY <2>5, <2>7, <2>8 DEF Keeps
  <2> QED
    BY <2>1, <2>7, <2>9
<1>4. Bounded(w[n]) /\ Keeps(L, w[n])
  <2>1. n \in 0..n /\ n \notin bad
    BY <1>1, <1>3
  <2> HIDE DEF w
  <2> QED
    BY <2>1
<1>5. w[n] \in S
  <2> HIDE DEF w, S
  <2> QED
    BY <1>1, <1>2
<1> QED
  BY <1>4, <1>5

\* And the blocks of a branch, from any of them on.
LEMMA BranchKeepsFrom ==
  ASSUME NEW b \in Branch, NEW k \in 0..Len(b), Bounded(Ledger!LedgerOf(SubSeq(b, 1, k)))
  PROVE  \A m \in k..Len(b) :
           /\ Bounded(Ledger!LedgerOf(SubSeq(b, 1, m)))
           /\ Keeps(Ledger!LedgerOf(SubSeq(b, 1, k)), Ledger!LedgerOf(SubSeq(b, 1, m)))
<1> DEFINE At(m) == Ledger!LedgerOf(SubSeq(b, 1, m))
           bad == {m \in k..Len(b) : ~(Bounded(At(m)) /\ Keeps(At(k), At(m)))}
<1>1. Len(b) \in Nat /\ k \in Nat
  BY DEF Branch
<1>2. SUFFICES ASSUME bad # {} PROVE FALSE
  OBVIOUS
<1>3. PICK m \in bad : \A j \in bad : m <= j
  <2>1. bad \in SUBSET Nat
    BY <1>1
  <2> HIDE DEF bad
  <2> QED
    BY <1>2, <2>1, LeastNumber
<1>4. m # k
  <2>1. Cardinality(At(k).pool) \in Nat
    BY FS_CardinalityType DEF Bounded
  <2>2. Keeps(At(k), At(k))
    <3> HIDE DEF At
    <3> QED
      BY <2>1 DEF Keeps
  <2> QED
    BY <1>3, <2>2
<1>5. /\ m \in 1..Len(b) /\ m - 1 \in k..Len(b) /\ m - 1 \in 0..Len(b) /\ ~(m <= m - 1)
  BY <1>1, <1>3, <1>4
<1>6. Bounded(At(m - 1)) /\ Keeps(At(k), At(m - 1))
  <2> HIDE DEF At
  <2> QED
    BY <1>3, <1>5
<1>7. At(m - 1) \in Ledger!LedgerState /\ b[m] \in Seq(Tx)
  <2>1. SubSeq(b, 1, m - 1) \in Branch
    BY <1>5, CutIsBranch
  <2> QED
    BY <1>5, <2>1, LedgerGrows, BlockIsSeq
<1>8. At(m) = Ledger!Within(At(m - 1), b[m])[Len(b[m])]
  BY <1>5, LedgerGrows
<1>9. Bounded(At(m)) /\ Keeps(At(m - 1), At(m))
  <2> HIDE DEF At
  <2> QED
    BY <1>6, <1>7, <1>8, BlockKeeps
<1>10. Keeps(At(k), At(m))
  <2> HIDE DEF At
  <2>1. /\ Cardinality(At(k).pool) \in Nat /\ Cardinality(At(m - 1).pool) \in Nat
        /\ Cardinality(At(m).pool) \in Nat
    <3>1. Bounded(At(k))
      BY DEF At
    <3> QED
      BY <1>6, <1>9, <3>1, FS_CardinalityType DEF Bounded
  <2> QED
    BY <1>6, <1>9, <2>1 DEF Keeps
<1> QED
  <2> HIDE DEF At
  <2> QED
    BY <1>3, <1>9, <1>10

\* The ledger of a branch, and of what it grew from.
LEMMA BranchKeeps ==
  ASSUME NEW b \in Branch, NEW k \in 0..Len(b)
  PROVE  /\ Bounded(Ledger!LedgerOf(b))
         /\ Keeps(Ledger!LedgerOf(SubSeq(b, 1, k)), Ledger!LedgerOf(b))
<1>1. Len(b) \in Nat /\ k \in Nat /\ 0 \in 0..Len(b) /\ SubSeq(b, 1, Len(b)) = b
  BY DEF Branch
<1>2. Bounded(Ledger!LedgerOf(SubSeq(b, 1, 0)))
  <2>1. SubSeq(b, 1, 0) \in Branch /\ Len(SubSeq(b, 1, 0)) = 0
    BY <1>1, CutIsBranch
  <2>2. Ledger!LedgerOf(SubSeq(b, 1, 0)) = Ledger!NewLedger
    BY <2>1, LedgerGrows
  <2>3. IsFiniteSet({}) /\ Cardinality({}) = 0 /\ PoolSize \in Nat
    BY FS_EmptySet, PoolSizeAssumption
  <2> QED
    BY <2>2, <2>3 DEF Bounded, Ledger!NewLedger
<1>3. \A m \in 0..Len(b) : Bounded(Ledger!LedgerOf(SubSeq(b, 1, m)))
  BY <1>1, <1>2, BranchKeepsFrom
<1>4. Len(b) \in k..Len(b)
  BY <1>1
<1> QED
  BY <1>1, <1>3, <1>4, BranchKeepsFrom

\* The pool readers fold, the fold and the ledger agree on when it is closed.
LEMMA ClosedIsRead ==
  ASSUME NEW b \in Branch, NEW t, Good(t, b), Sound(t, b, Mined(b)), Faithful(t, b, Mined(b))
  PROVE  AdoptionClosed(FoldLineage(t.facts)) <=> ~Ledger!LedgerOf(b).open
<1>1. WellFormed(t.facts)
  BY DEF Sound, FactsSound
<1>2. Shown(t) = Ledger!LedgerOf(b)
  BY LedgerIsShown
<1>3. FoldLineage(t.facts) = Standing(t.facts)
  BY <1>1, FoldIsStanding
<1>4. t.facts = {} => ~AdoptionClosed(Standing(t.facts))
  BY <1>1, StandingType DEF EmptyLineage, AdoptionClosed
<1>5. t.facts # {} => AdoptionClosed(Standing(t.facts))
  BY <1>1, StandingType
<1>6. Shown(t).open = (t.facts = {})
  BY DEF Shown
<1>7. Ledger!LedgerOf(b).open <=> t.facts = {}
  BY <1>2, <1>6
<1> QED
  BY <1>3, <1>4, <1>5, <1>7

\* What the theorems below need of one state: the fold is the law's pool, and
\* it is closed when the law's is.
FoldIsLaw ==
  LET b    == db.branch
      law  == Ledger!LedgerOf(b)
      fold == FoldLineage(db.tables.facts)
  IN  b \in Branch /\ fold.live = law.pool /\ (AdoptionClosed(fold) <=> ~law.open)

LEMMA LInvFolds == LInv => FoldIsLaw
<1> SUFFICES ASSUME LInv PROVE FoldIsLaw
  OBVIOUS
<1>1. /\ db.branch \in Branch /\ Good(db.tables, db.branch)
      /\ Sound(db.tables, db.branch, Mined(db.branch))
      /\ Faithful(db.tables, db.branch, Mined(db.branch))
  BY DEF LInv, SInv, IInv, TypeOK, Database, DatabaseSound, DatabaseExact, Exact
<1> QED
  BY <1>1, LedgerIsRead, ClosedIsRead DEF FoldIsLaw

LEMMA LInvFoldsNext == LInv' => FoldIsLaw'
  BY LInvFolds, PTL

\* Never are more notes live than the ceremony made (adopt, step_tx).
THEOREM PoolIsBounded ==
  Spec => [](Cardinality(FoldLineage(db.tables.facts).live) <= PoolSize)
<1>1. LInv => Cardinality(FoldLineage(db.tables.facts).live) <= PoolSize
  <2> SUFFICES ASSUME LInv PROVE Cardinality(FoldLineage(db.tables.facts).live) <= PoolSize
    OBVIOUS
  <2>1. db.branch \in Branch /\ 0 \in 0..Len(db.branch)
    BY LInvFolds DEF FoldIsLaw, Branch
  <2> QED
    BY <2>1, LInvFolds, BranchKeeps DEF FoldIsLaw, Bounded
<1> QED
  BY <1>1, Exactness, PTL

\* After the ceremony no later block adds authority, whatever it holds.
THEOREM AuthorityOnlyShrinks == Spec => AuthorityNeverGrows
<1> DEFINE before == FoldLineage(db.tables.facts)
           Shrinks == AdoptionClosed(before) /\ IsPrefix(db.branch, db'.branch)
                      => Cardinality(FoldLineage(db'.tables.facts).live)
                           <= Cardinality(before.live)
<1>1. LInv /\ LInv' => Shrinks
  <2> SUFFICES ASSUME LInv, LInv', AdoptionClosed(before), IsPrefix(db.branch, db'.branch)
               PROVE  Cardinality(FoldLineage(db'.tables.facts).live)
                        <= Cardinality(before.live)
    OBVIOUS
  <2> DEFINE b == db.branch
             c == db'.branch
  <2>1. /\ b \in Branch /\ before.live = Ledger!LedgerOf(b).pool /\ ~Ledger!LedgerOf(b).open
        /\ c \in Branch /\ FoldLineage(db'.tables.facts).live = Ledger!LedgerOf(c).pool
    BY LInvFolds, LInvFoldsNext DEF FoldIsLaw
  <2>2. Len(b) \in 0..Len(c) /\ b = SubSeq(c, 1, Len(b))
    BY <2>1, PrefixIsCut
  <2>3. Keeps(Ledger!LedgerOf(b), Ledger!LedgerOf(c))
    BY <2>1, <2>2, BranchKeeps
  <2> QED
    BY <2>1, <2>3 DEF Keeps
<1> QED
  BY <1>1, Exactness, PTL DEF AuthorityNeverGrows

\* The facts before a position, as a reader of the log cuts them, are those
\* the branch had left there.
LEMMA LineageBeforeIs ==
  ASSUME NEW b \in Branch, NEW t, Good(t, b), Sound(t, b, Mined(b)),
         Faithful(t, b, Mined(b)), NEW p \in Mined(b)
  PROVE  LineageBefore(t, p).live = LedgerAsOf(b, Earlier(p, b)).pool
<1> DEFINE J == Earlier(p, b)
<1>1. /\ Mined(b) \in SUBSET Position /\ J \in SUBSET Mined(b) /\ p \in Position
      /\ WellFormed(t.facts) /\ t.facts \in SUBSET Fact
      /\ \A f \in t.facts : f.at \in Mined(b) /\ f.spent \in Mined(b) \cup {NotSpent}
  BY MinedPositions DEF Earlier, Sound, FactsSound, WellFormed
<1>2. ASSUME NEW f \in t.facts
      PROVE  /\ Before(f.at, p) <=> f.at \in J
             /\ CutFact(f, J) = IF Before(f.spent, p) THEN f ELSE [f EXCEPT !.spent = NotSpent]
  <2>1. /\ f \in Fact /\ f.at \in Mined(b) /\ f.spent \in Mined(b) \cup {NotSpent}
        /\ NotSpent \notin J
    BY <1>1, NothingBeforeNotSpent
  <2>2. f.spent \in J <=> f.spent \in Mined(b) /\ Before(f.spent, p)
    BY DEF Earlier
  <2>3. f = [f EXCEPT !.spent = f.spent]
    BY <2>1 DEF Fact
  <2>4. CASE f.spent = NotSpent
    <3>1. CutFact(f, J) = f /\ [f EXCEPT !.spent = NotSpent] = f
      BY <2>1, <2>3, <2>4 DEF CutFact
    <3> QED
      BY <2>1, <3>1 DEF Earlier
  <2>5. CASE f.spent \in Mined(b)
    BY <2>1, <2>2, <2>3, <2>5 DEF CutFact, Earlier
  <2> QED
    BY <2>1, <2>4, <2>5
<1>3. AsOf(t.facts, J) =
        {IF Before(f.spent, p) THEN f ELSE [f EXCEPT !.spent = NotSpent] :
           f \in {g \in t.facts : Before(g.at, p)}}
  <2>1. {g \in t.facts : Before(g.at, p)} = {g \in t.facts : g.at \in J}
    BY <1>2
  <2>2. ASSUME NEW f \in {g \in t.facts : g.at \in J}
        PROVE  CutFact(f, J) =
                 IF Before(f.spent, p) THEN f ELSE [f EXCEPT !.spent = NotSpent]
    BY <1>2
  <2> QED
    BY <2>1, <2>2 DEF AsOf
<1>4. Initial(J, b)
  <2>1. ASSUME NEW q \in Mined(b), NEW r \in J, Before(q, r) PROVE q \in J
    <3>1. q \in Position /\ r \in Position /\ Before(r, p)
      BY <1>1 DEF Earlier
    <3>2. Before(q, p)
      BY <1>1, <2>1, <3>1, BeforeTransitive
    <3> QED
      BY <3>2 DEF Earlier
  <2> QED
    BY <1>1, <2>1 DEF Initial
<1>5. LedgerAsOf(b, J).pool = Standing(AsOf(t.facts, J)).live
  BY <1>1, <1>4 DEF Faithful, Seen, Past
<1>6. WellFormed(AsOf(t.facts, J))
  <2>1. Closed(t.facts, J)
    <3>1. PositionsOf(t.facts) \subseteq Mined(b)
      BY <1>1 DEF PositionsOf
    <3> QED
      BY <1>1, <1>4, <3>1 DEF Closed, Initial
  <2> QED
    BY <1>1, <2>1, AsOfWellFormed
<1> QED
  BY <1>3, <1>5, <1>6, FoldIsStanding DEF LineageBefore

\* A position whose transaction the law grants a note has that event, and
\* facts for the successor of a claim only.
LEMMA SeatedIs ==
  ASSUME NEW b \in Branch, NEW t, Indexed(t, b), NEW p \in Mined(b)
  PROVE  LET L  == LedgerAsOf(b, Earlier(p, b))
             tx == TxAt(p, b)
         IN  /\ Claims(L, tx) # {} => /\ Cardinality(Used(L, tx)) = 1
                                      /\ Cardinality(Placing(t.facts, p)) = 1
             /\ Moves(L, tx) # {} => /\ Cardinality(Used(L, tx)) = 0
                                     /\ Cardinality(Placing(t.facts, p)) = 0
             /\ \A f \in Placing(t.facts, p) : f.claimSuccessor => Claims(L, tx) # {}
<1> DEFINE L == LedgerAsOf(b, Earlier(p, b))
           tx == TxAt(p, b)
           placed == Placing(t.facts, p)
           seated == Claims(L, tx) # {}
           kept == KeptAdoptions(tx, seated)
<1>1. tx \in Tx /\ seated \in BOOLEAN
  BY MinedPositions
<1>2. FreshAt(t.facts, p) = Adoptions(tx, p, seated)
  BY DEF Indexed, Stocked, AdoptedAt
<1>3. /\ t.facts \in SUBSET Fact
      /\ \A f, g \in t.facts : f.nf = g.nf => f = g
  BY DEF Indexed, Sound, FactsSound, WellFormed
<1>4. /\ \A f \in placed : f.nf \in kept /\ f.claimSuccessor = seated
      /\ \A nf \in kept : \E f \in placed : f.nf = nf
  <2>1. \A f \in Fact : /\ Fresh(f).nf = f.nf /\ Fresh(f).claimSuccessor = f.claimSuccessor
    BY DEF Fresh, Fact
  <2>2. ASSUME NEW f \in placed PROVE f.nf \in kept /\ f.claimSuccessor = seated
    <3>1. f \in Fact /\ Fresh(f) \in Adoptions(tx, p, seated)
      BY <1>2, <1>3 DEF FreshAt, Placing
    <3>2. PICK nf \in kept : Fresh(f) = Adopted(nf, tx, p, seated)
      BY <3>1 DEF Adoptions
    <3> QED
      BY <2>1, <3>1, <3>2 DEF Adopted
  <2>3. ASSUME NEW nf \in kept PROVE \E f \in placed : f.nf = nf
    <3>1. Adopted(nf, tx, p, seated) \in FreshAt(t.facts, p)
      BY <1>2 DEF Adoptions
    <3>2. PICK f \in placed : Adopted(nf, tx, p, seated) = Fresh(f)
      BY <3>1 DEF FreshAt
    <3>3. f \in Fact
      BY <1>3 DEF Placing
    <3> QED
      BY <2>1, <3>2, <3>3 DEF Adopted
  <2> QED
    BY <2>2, <2>3
<1>5. CASE seated
  <2>1. PICK n \in Candidates(tx) : GrantsClaim(L, tx, n)
    BY <1>5 DEF Claims
  <2>2. Candidates(tx) = {n} /\ n.action = "claim" /\ Cardinality(Used(L, tx)) = 1
        /\ Cardinality(tx.zero) = 1 /\ ~tx.extra
    BY <2>1 DEF GrantsClaim
  <2>3. ClaimSuccessorOutput(tx)
    BY <1>1, <2>2, SingleNote DEF ClaimSuccessorOutput
  <2>4. kept = tx.zero /\ IsFiniteSet(tx.zero)
    BY <1>1, <1>5, <2>3, KeptIs
  <2>5. PICK nf : tx.zero = {nf}
    BY <2>2, <2>4, FS_Singleton
  <2>6. PICK f \in placed : f.nf = nf
    BY <1>4, <2>4, <2>5
  <2>7. placed = {f}
    BY <1>3, <1>4, <2>4, <2>5, <2>6 DEF Placing
  <2>8. Cardinality(placed) = 1
    BY <2>7, FS_Singleton
  <2>9. Moves(L, tx) = {}
    BY <2>2 DEF Moves, GrantsMove
  <2> QED
    BY <1>5, <2>2, <2>8, <2>9
<1>6. CASE ~seated
  <2>1. \A f \in placed : ~f.claimSuccessor
    BY <1>4, <1>6
  <2>2. ASSUME Moves(L, tx) # {}
        PROVE  Cardinality(Used(L, tx)) = 0 /\ Cardinality(placed) = 0
    <3>1. PICK n \in Candidates(tx) : GrantsMove(L, tx, n)
      BY <2>2 DEF Moves
    <3>2. Candidates(tx) = {n} /\ Used(L, tx) = {}
      BY <3>1 DEF GrantsMove
    <3>3. Cardinality(Candidates(tx)) = 1
      BY <3>2, FS_Singleton
    <3>4. kept = {}
      <4>1. kept = KeptAdoptions(tx, FALSE)
        <5>1. seated = FALSE
          BY <1>6
        <5> HIDE DEF seated
        <5> QED
          BY <5>1
      <4>2. KeptAdoptions(tx, FALSE) # {} => Cardinality(Candidates(tx)) = 0
        BY <1>1, KeptIs
      <4>3. KeptAdoptions(tx, FALSE) = {}
        <5>1. Cardinality(Candidates(tx)) # 0
          BY <3>3
        <5> QED
          BY <4>2, <5>1, Zenon
      <4> HIDE DEF kept, tx
      <4> QED
        BY <4>1, <4>3
    <3>5. placed = {}
      BY <1>4, <3>4
    <3> QED
      BY <3>2, <3>5, FS_EmptySet
  <2> QED
    BY <1>6, <2>1, <2>2
<1> QED
  BY <1>5, <1>6

\* Every claim in the log is paid with one anchor and seats one; no other
\* event does either, and no successor is seated without its claim.
THEOREM NamesArePaidFor == Spec => []ClaimsAreBacked
<1>1. LInv => ClaimsAreBacked
  <2> SUFFICES ASSUME LInv PROVE ClaimsAreBacked
    OBVIOUS
  <2> DEFINE b == db.branch
             t == db.tables
             L(p) == LedgerAsOf(b, Earlier(p, b))
             Spent(p) == LineageBefore(t, p).live \cap TxAt(p, b).spends
  <2>1. /\ b \in Branch /\ Indexed(t, b) /\ Good(t, b) /\ Sound(t, b, Mined(b))
        /\ Faithful(t, b, Mined(b))
    BY LInvIndexes DEF LInv, DatabaseExact, Exact, Indexed
  <2>2. ASSUME NEW p \in Mined(b) PROVE Spent(p) = Used(L(p), TxAt(p, b))
    BY <2>1, LineageBeforeIs DEF Used
  <2>3. LogIsGranted
    BY LInvGrants
  <2>4. ASSUME NEW e \in t.events
        PROVE  LET price == IF e.note.action = "claim" THEN 1 ELSE 0
               IN  Cardinality(Spent(e.at)) = price /\ Cardinality(Placing(t.facts, e.at)) = price
    <3>1. e.at \in Mined(b)
      BY <2>1, RecordTypes
    <3>2. e.note \in GrantedAt(e.at, b)
      BY <2>3, <3>1 DEF LogIsGranted, Placing
    <3>3. CASE e.note \in Claims(L(e.at), TxAt(e.at, b))
      <4>1. e.note.action = "claim"
        BY <3>3 DEF Claims, GrantsClaim
      <4> QED
        BY <2>1, <2>2, <3>1, <3>3, <4>1, SeatedIs
    <3>4. CASE e.note \in Moves(L(e.at), TxAt(e.at, b))
      <4>1. e.note.action # "claim"
        BY <3>4 DEF Moves, GrantsMove
      <4> QED
        BY <2>1, <2>2, <3>1, <3>4, <4>1, SeatedIs
    <3> QED
      BY <3>2, <3>3, <3>4 DEF GrantedAt, Granted
  <2>5. ASSUME NEW f \in t.facts, f.claimSuccessor
        PROVE  \E e \in t.events : e.at = f.at /\ e.note.action = "claim"
    <3>1. f.at \in Mined(b) /\ f \in Placing(t.facts, f.at)
      BY <2>1 DEF Sound, FactsSound, Placing
    <3>2. PICK n : n \in Claims(L(f.at), TxAt(f.at, b))
      BY <2>1, <2>5, <3>1, SeatedIs
    <3>3. n \in GrantedAt(f.at, b) /\ n.action = "claim"
      BY <3>2 DEF GrantedAt, Granted, Claims, GrantsClaim
    <3>4. PICK e \in Placing(t.events, f.at) : e.note = n
      BY <2>3, <3>1, <3>3 DEF LogIsGranted
    <3> QED
      BY <3>3, <3>4 DEF Placing
  <2> QED
    BY <2>4, <2>5 DEF ClaimsAreBacked, Placing
<1> QED
  BY <1>1, Exactness, PTL
=============================================================================
