---------------------------- MODULE RescanProofs ----------------------------
(***************************************************************************)
(* Proofs about a checkpoint that does not decode, for every value of the  *)
(* constants: while the best chain keeps the blocks the tables hold, the   *)
(* rescan from the birthday changes no table until it has passed them, and *)
(* ends in the tables an index that never lost its checkpoint has.         *)
(*                                                                         *)
(* The tables are whole for a longer branch than the checkpoint's: for the *)
(* blocks of the best chain up to the highest that left a row.  Cutting    *)
(* tables and branch there changes no row, so they are whole for that      *)
(* branch whatever lay above it.  A batch of the rescan is judged on the   *)
(* longer one of this branch and its own, where all that the tables hold   *)
(* counts as covered; so its transactions are replays until the batch      *)
(* reaches beyond, and the lemmas about a batch apply as they are.         *)
(***************************************************************************)
EXTENDS Rescan, LedgerProofs

-----------------------------------------------------------------------------
(* The height of the tables.                                               *)

Top(t) ==
  IF Heights(t) = {} THEN 0 ELSE CHOOSE h \in Heights(t) : \A g \in Heights(t) : g <= h

\* Rows have heights of the branch.
LEMMA HeightsOfBranch ==
  ASSUME NEW b \in Branch, NEW t, Good(t, b)
  PROVE  Heights(t) \in SUBSET (1..Len(b))
<1>1. t \in Tables /\ TablesOnBranch(t, b)
  BY DEF Good
<1>2. ASSUME NEW p \in Position, OnBranch(p, b) PROVE p[1] \in 1..Len(b)
  BY <1>2, MinedPositions
<1>3. \A e \in t.events : e.at[1] \in 1..Len(b)
  BY <1>1, <1>2 DEF Tables, Row, TablesOnBranch
<1>4. \A i \in t.implicit : i.at[1] \in 1..Len(b)
  BY <1>1, <1>2 DEF Tables, ImplicitRow, TablesOnBranch
<1>5. \A f \in t.facts : f.at[1] \in 1..Len(b) /\ (f.spent # NotSpent => f.spent[1] \in 1..Len(b))
  BY <1>1, <1>2 DEF Tables, Fact, TablesOnBranch
<1> QED
  BY <1>3, <1>4, <1>5 DEF Heights

\* The top is the highest of them.
LEMMA TopIsHighest ==
  ASSUME NEW b \in Branch, NEW t, Good(t, b)
  PROVE  /\ Top(t) \in 0..Len(b)
         /\ \A h \in Heights(t) : h \in 1..Len(b) /\ h <= Top(t)
         /\ Heights(t) # {} => Top(t) \in Heights(t)
<1> DEFINE H == Heights(t)
           n == Len(b)
           Below == {n - h : h \in H}
<1>1. H \in SUBSET (1..n) /\ n \in Nat
  BY HeightsOfBranch DEF Branch
<1>2. CASE H = {}
  BY <1>1, <1>2 DEF Top
<1>3. CASE H # {}
  <2>1. Below \in SUBSET Nat /\ Below # {}
    BY <1>1, <1>3
  <2>2. PICK m \in Below : \A k \in Below : m <= k
    <3> HIDE DEF Below
    <3> QED
      BY <2>1, LeastNumber
  <2>3. PICK h \in H : m = n - h
    OBVIOUS
  <2>4. \A g \in H : g <= h
    <3>1. ASSUME NEW g \in H PROVE g <= h
      <4>1. n - h <= n - g
        BY <2>2, <2>3
      <4> QED
        BY <1>1, <4>1
    <3> QED
      BY <3>1
  <2>5. Top(t) \in H /\ \A g \in H : g <= Top(t)
    BY <1>3, <2>4 DEF Top
  <2> QED
    BY <1>1, <2>5
<1> QED
  BY <1>2, <1>3

\* A rewind to the top changes nothing.
LEMMA TopKeeps ==
  ASSUME NEW b \in Branch, NEW t, Good(t, b)
  PROVE  Rewound(t, Top(t)) = t
<1> DEFINE k == Top(t)
           events == {e \in t.events : e.at[1] <= k}
           implicit == {i \in t.implicit : i.at[1] <= k}
           affected == {e.note.name : e \in t.events \ events} \cup
                       {i.name : i \in t.implicit \ implicit}
           names == {r \in t.names : r.note.name \notin affected} \cup
                    UNION {RebuiltTip(events, implicit, n) : n \in affected}
           Undone(f) == IF f.spent[1] > k THEN [f EXCEPT !.spent = NotSpent] ELSE f
           facts == {Undone(f) : f \in {g \in t.facts : g.at[1] <= k}}
<1>1. t \in Tables /\ k \in Nat /\ \A h \in Heights(t) : h \in Nat /\ h <= k
  BY TopIsHighest DEF Good, Branch
<1>2. Rewound(t, k) = [events |-> events, implicit |-> implicit, names |-> names,
                       facts |-> facts]
  BY DEF Rewound
<1> HIDE DEF k
<1>3. events = t.events
  BY <1>1 DEF Heights
<1>4. implicit = t.implicit
  BY <1>1 DEF Heights
<1>5. names = t.names
  <2>1. affected = {}
    BY <1>3, <1>4
  <2> HIDE DEF affected
  <2> QED
    BY <2>1
<1>6. facts = t.facts
  <2>1. ASSUME NEW f \in t.facts PROVE f.at[1] <= k /\ Undone(f) = f
    <3>1. f.at[1] <= k
      BY <1>1 DEF Heights
    <3>2. f.spent # NotSpent => f.spent[1] \in Heights(t)
      BY DEF Heights
    <3>3. ~(f.spent[1] > k)
      BY <1>1, <3>2 DEF NotSpent
    <3> QED
      BY <3>1, <3>3
  <2>2. {g \in t.facts : g.at[1] <= k} = t.facts
    BY <2>1
  <2> HIDE DEF Undone
  <2> QED
    BY <2>1, <2>2
<1> HIDE DEF events, implicit, names, facts
<1> QED
  BY <1>1, <1>2, <1>3, <1>4, <1>5, <1>6 DEF Tables, k

-----------------------------------------------------------------------------
(* Whole tables.                                                           *)

\* What an index of a branch that lost no checkpoint has.
Whole(t, b) ==
  b \in Branch /\ Lawful(b) /\ Good(t, b) /\ Sound(t, b, Mined(b)) /\ Exact(t, b, Mined(b))

\* A cut is a prefix.
LEMMA CutIsPrefix ==
  ASSUME NEW b \in Branch, NEW k \in 0..Len(b)
  PROVE  /\ SubSeq(b, 1, k) \in Branch /\ Len(SubSeq(b, 1, k)) = k
         /\ IsPrefix(SubSeq(b, 1, k), b)
<1>1. Len(b) \in Nat /\ k \in Nat /\ SubSeq(b, 1, k) \in Branch /\ Len(SubSeq(b, 1, k)) = k
  BY CutIsBranch DEF Branch
<1>2. SubSeq(SubSeq(b, 1, k), 1, k) = SubSeq(b, 1, k)
  BY <1>1 DEF Branch
<1> QED
  BY <1>1, <1>2 DEF IsPrefix

\* Prefixes of one branch, the shorter of the longer.
LEMMA PrefixesNest ==
  ASSUME NEW b \in Branch, NEW c \in Branch, NEW d \in Branch,
         IsPrefix(b, d), IsPrefix(c, d), Len(b) <= Len(c)
  PROVE  IsPrefix(b, c)
<1>1. /\ Len(b) \in 0..Len(d) /\ b = SubSeq(d, 1, Len(b))
      /\ Len(c) \in 0..Len(d) /\ c = SubSeq(d, 1, Len(c))
      /\ Len(d) \in Nat
  BY PrefixIsCut DEF Branch
<1>2. SubSeq(SubSeq(d, 1, Len(c)), 1, Len(b)) = SubSeq(d, 1, Len(b))
  BY <1>1 DEF Branch
<1>3. SubSeq(b, 1, Len(b)) = b
  BY <1>1 DEF Branch
<1> QED
  BY <1>1, <1>2, <1>3 DEF IsPrefix

\* A prefix of a prefix.
LEMMA PrefixOfPrefix ==
  ASSUME NEW b \in Branch, NEW c \in Branch, NEW d \in Branch,
         IsPrefix(b, c), IsPrefix(c, d)
  PROVE  IsPrefix(b, d)
<1>1. /\ Len(b) \in 0..Len(c) /\ b = SubSeq(c, 1, Len(b))
      /\ Len(c) \in 0..Len(d) /\ c = SubSeq(d, 1, Len(c))
      /\ Len(d) \in Nat
  BY PrefixIsCut DEF Branch
<1>2. SubSeq(SubSeq(d, 1, Len(c)), 1, Len(b)) = SubSeq(d, 1, Len(b))
  BY <1>1 DEF Branch
<1>3. b = SubSeq(d, 1, Len(b)) /\ Len(b) \in 0..Len(d)
  BY <1>1, <1>2
<1> QED
  BY <1>3, CutIsPrefix

\* The empty tables are whole for no block.
LEMMA EmptyIsWhole == Whole(EmptyTables, << >>)
  BY EmptyIsGood, EmptyIsSound, EmptyIsExact DEF Whole, DatabaseExact, NewDatabase

\* A rewind leaves whole tables of the shorter branch.
LEMMA WholeCut ==
  ASSUME NEW t, NEW b, Whole(t, b), NEW k \in 0..Len(b)
  PROVE  Whole(Rewound(t, k), SubSeq(b, 1, k))
<1>1. /\ b \in Branch /\ Lawful(b) /\ Good(t, b) /\ Sound(t, b, Mined(b))
      /\ Faithful(t, b, Mined(b)) /\ Judged(t, b, Mined(b)) /\ Stocked(t, b, Mined(b))
  BY DEF Whole, Exact
<1>2. SubSeq(b, 1, k) \in Branch /\ Lawful(SubSeq(b, 1, k))
  BY <1>1, CutIsBranch, CutLawful
<1>3. /\ Good(Rewound(t, k), SubSeq(b, 1, k))
      /\ Sound(Rewound(t, k), SubSeq(b, 1, k), Mined(SubSeq(b, 1, k)))
  BY <1>1, RewoundGood, RewoundSound
<1>4. Exact(Rewound(t, k), SubSeq(b, 1, k), Mined(SubSeq(b, 1, k)))
  BY <1>1, FaithfulCut, JudgedCut, StockedCut DEF Exact
<1> QED
  BY <1>2, <1>3, <1>4 DEF Whole

\* On a longer branch whole tables cover their own.
LEMMA WholeCovers ==
  ASSUME NEW t, NEW b, Whole(t, b), NEW c \in Branch, IsPrefix(b, c)
  PROVE  /\ Mined(b) = {p \in Mined(c) : p[1] <= Len(b)}
         /\ Good(t, c) /\ Sound(t, c, Mined(b)) /\ Exact(t, c, Mined(b))
<1> DEFINE k == Len(b)
<1>1. /\ b \in Branch /\ Good(t, b) /\ Sound(t, b, Mined(b))
      /\ Exact(t, b, Mined(b)) /\ k \in 0..Len(c) /\ b = SubSeq(c, 1, k)
  BY PrefixIsCut DEF Whole
<1> HIDE DEF k
<1>2. /\ Mined(SubSeq(c, 1, k)) = {p \in Mined(c) : p[1] <= k}
      /\ \A p \in Mined(SubSeq(c, 1, k)) : TxAt(p, SubSeq(c, 1, k)) = TxAt(p, c)
  BY <1>1, CutMined
<1>3. Good(t, c)
  BY <1>1, GrowGood
<1>4. Sound(t, c, Mined(b))
  BY <1>1, <1>2, SoundMoves
<1>5. Exact(t, c, Mined(SubSeq(c, 1, k)))
  BY <1>1, FaithfulMoves, JudgedMoves, StockedMoves DEF Exact
<1> QED
  BY <1>1, <1>2, <1>3, <1>4, <1>5 DEF k

-----------------------------------------------------------------------------
(* The branch a database knows.                                            *)

\* Its checkpoint's, or that of its rows: then the best chain c has it.
Base(d, c) == IF Rescanned(d) THEN SubSeq(c, 1, Top(d.tables)) ELSE d.branch

Trusted(d, c) ==
  /\ Whole(d.tables, Base(d, c)) /\ IsPrefix(d.branch, Base(d, c))
  /\ Rescanned(d) => Top(d.tables) <= Len(c)

\* What this says of the branch.
LEMMA BaseIs ==
  ASSUME NEW c \in Branch, NEW d \in Database, Trusted(d, c)
  PROVE  /\ Base(d, c) \in Branch /\ d.branch \in Branch
         /\ Len(Base(d, c)) \in Nat /\ Len(d.branch) \in Nat
         /\ Len(d.branch) <= Len(Base(d, c))
         /\ Top(d.tables) \in 0..Len(Base(d, c))
         /\ Rescanned(d) => /\ Len(Base(d, c)) = Top(d.tables)
                            /\ Len(d.branch) < Top(d.tables)
                            /\ IsPrefix(Base(d, c), c)
         /\ ~Rescanned(d) => Base(d, c) = d.branch
<1> DEFINE b == Base(d, c)
           k == Top(d.tables)
<1>1. b \in Branch /\ Good(d.tables, b) /\ IsPrefix(d.branch, b) /\ d.branch \in Branch
  BY DEF Trusted, Whole, Database
<1>2. Len(b) \in Nat /\ Len(d.branch) \in Nat /\ Len(d.branch) <= Len(b) /\ Len(c) \in Nat
  BY <1>1 DEF Branch, IsPrefix
<1>3. k \in 0..Len(b) /\ \A h \in Heights(d.tables) : h \in 1..Len(b) /\ h <= k
  BY <1>1, TopIsHighest
<1>4. ASSUME Rescanned(d)
      PROVE  Len(b) = k /\ Len(d.branch) < k /\ IsPrefix(b, c)
  <2>1. b = SubSeq(c, 1, k) /\ k \in 0..Len(c)
    BY <1>2, <1>3, <1>4 DEF Base, Trusted
  <2>2. Len(b) = k /\ IsPrefix(b, c)
    <3> HIDE DEF b, k
    <3> QED
      BY <2>1, CutIsPrefix
  <2>3. PICK h \in Heights(d.tables) : h > Len(d.branch)
    BY <1>4 DEF Rescanned
  <2> QED
    BY <1>2, <1>3, <2>2, <2>3
<1> QED
  BY <1>1, <1>2, <1>3, <1>4 DEF Base

\* A database whose tables are whole for its checkpoint's branch is trusted.
LEMMA WholeIsTrusted ==
  ASSUME NEW c \in Branch, NEW d, Whole(d.tables, d.branch)
  PROVE  ~Rescanned(d) /\ Base(d, c) = d.branch /\ Trusted(d, c)
<1>1. d.branch \in Branch /\ Good(d.tables, d.branch) /\ Len(d.branch) \in Nat
  BY DEF Whole, Branch
<1>2. \A h \in Heights(d.tables) : h \in 1..Len(d.branch)
  BY <1>1, HeightsOfBranch
<1>3. ~Rescanned(d)
  BY <1>1, <1>2 DEF Rescanned
<1>4. IsPrefix(d.branch, d.branch)
  BY <1>1 DEF Branch, IsPrefix
<1> QED
  BY <1>3, <1>4 DEF Base, Trusted

\* A checkpoint further back on the branch the tables are whole for.
LEMMA BehindIsTrusted ==
  ASSUME NEW c \in Branch, NEW d \in Database, Whole(d.tables, SubSeq(c, 1, Top(d.tables))),
         Top(d.tables) \in 0..Len(c),
         IsPrefix(d.branch, SubSeq(c, 1, Top(d.tables)))
  PROVE  Base(d, c) = SubSeq(c, 1, Top(d.tables)) /\ Trusted(d, c)
<1> DEFINE k == Top(d.tables)
           b == SubSeq(c, 1, k)
<1>1. b \in Branch /\ Len(b) = k /\ k \in Nat /\ d.branch \in Branch /\ Len(d.branch) \in Nat
      /\ Good(d.tables, b)
  BY CutIsPrefix DEF Database, Branch, Whole
<1>2. CASE Rescanned(d)
  BY <1>2 DEF Base, Trusted
<1>3. CASE ~Rescanned(d)
  <2>1. k <= Len(d.branch)
    <3>1. Heights(d.tables) # {} => k \in Heights(d.tables)
      BY <1>1, TopIsHighest
    <3>2. Heights(d.tables) = {} => k = 0
      BY DEF Top
    <3> QED
      BY <1>1, <1>3, <3>1, <3>2 DEF Rescanned
  <2>2. Len(d.branch) \in 0..Len(b) /\ d.branch = SubSeq(b, 1, Len(d.branch))
    BY <1>1, PrefixIsCut
  <2>3. d.branch = b
    BY <1>1, <2>1, <2>2 DEF Branch
  <2> QED
    BY <1>3, <2>3 DEF Base, Trusted
<1> QED
  BY <1>2, <1>3

\* The database stays trusted while the chain keeps the blocks of its rows.
LEMMA TrustedStays ==
  ASSUME NEW b \in Branch, NEW c \in Branch, NEW d \in Database, Trusted(d, b),
         Rescanned(d) => \A h \in Heights(d.tables) : IsPrefix(SubSeq(b, 1, h), c)
  PROVE  Base(d, c) = Base(d, b) /\ Trusted(d, c)
<1> DEFINE k == Top(d.tables)
<1>1. CASE ~Rescanned(d)
  BY <1>1 DEF Base, Trusted
<1>2. CASE Rescanned(d)
  <2>1. /\ Base(d, b) = SubSeq(b, 1, k) /\ k \in 0..Len(b) /\ Good(d.tables, Base(d, b))
        /\ Base(d, b) \in Branch
    <3>1. k \in Nat /\ k <= Len(b) /\ Len(b) \in Nat
      BY <1>2, BaseIs DEF Trusted, Branch
    <3> QED
      BY <1>2, <3>1 DEF Base, Trusted, Whole
  <2>2. k \in Heights(d.tables)
    BY <1>2, <2>1, TopIsHighest DEF Rescanned
  <2>3. IsPrefix(SubSeq(b, 1, k), c) /\ Len(SubSeq(b, 1, k)) = k
    BY <1>2, <2>1, <2>2, CutIsPrefix
  <2>4. k \in 0..Len(c) /\ SubSeq(b, 1, k) = SubSeq(c, 1, k)
    BY <2>1, <2>3, PrefixIsCut
  <2> HIDE DEF k
  <2>5. k <= Len(c) /\ Base(d, c) = Base(d, b)
    BY <1>2, <2>1, <2>4 DEF Base, Branch, k
  <2> QED
    BY <1>2, <2>5 DEF Trusted, k
<1> QED
  BY <1>1, <1>2

\* The checkpoint is lost on the best chain: the rows are of its blocks up to
\* the highest that left one.
LEMMA LostIsTrusted ==
  ASSUME NEW c \in Branch, NEW d \in Database, Trusted(d, c), IsPrefix(d.branch, c)
  PROVE  Trusted([d EXCEPT !.branch = << >>], c)
<1> DEFINE b == Base(d, c)
           t == d.tables
           k == Top(t)
           new == [d EXCEPT !.branch = << >>]
<1>1. b \in Branch /\ k \in 0..Len(b) /\ IsPrefix(b, c) /\ Whole(t, b) /\ Good(t, b)
  BY BaseIs DEF Trusted, Whole
<1>2. new \in Database /\ new.tables = t /\ new.branch = << >>
  BY EmptyIsGood DEF Database
<1>3. Len(b) \in 0..Len(c) /\ b = SubSeq(c, 1, Len(b)) /\ Len(c) \in Nat
  BY <1>1, PrefixIsCut DEF Branch
<1> HIDE DEF b, k, t, new
<1>4. SubSeq(b, 1, k) = SubSeq(c, 1, k) /\ k \in 0..Len(c)
  <2>1. SubSeq(SubSeq(c, 1, Len(b)), 1, k) = SubSeq(c, 1, k)
    BY <1>1, <1>3 DEF Branch
  <2> QED
    BY <1>1, <1>3, <2>1
<1>5. Whole(t, SubSeq(c, 1, k))
  <2>1. Whole(Rewound(t, k), SubSeq(b, 1, k))
    BY <1>1, WholeCut
  <2>2. Rewound(t, k) = t
    BY <1>1, TopKeeps DEF k
  <2> QED
    BY <1>4, <2>1, <2>2
<1>6. IsPrefix(<< >>, SubSeq(c, 1, k))
  BY <1>4, CutIsBranch DEF Branch, IsPrefix
<1> QED
  BY <1>2, <1>4, <1>5, <1>6, BehindIsTrusted DEF k, new

-----------------------------------------------------------------------------
(* The invariant.                                                          *)

Known == Base(db, chain)

\* The branch the batch is judged on, and the positions of it that the open
\* tables cover.
Long == IF Len(target) < Len(Known) THEN Known ELSE target

Passed == {p \in Mined(Long) : p[1] <= Len(Known) \/ \A s \in batch : s.at # p}

\* The scanned transactions lie on that branch.
BatchOnLong ==
  /\ Len(target) > Len(db.branch)
  /\ Long \in Branch /\ Lawful(Long) /\ IsPrefix(Known, Long) /\ IsPrefix(target, Long)
  /\ \A s \in batch : OnBranch(s.at, Long) /\ TxAt(s.at, Long) = s.tx

\* They are all that the tables lack of it.
BatchReaches ==
  \A p \in Mined(Long) : p[1] > Len(Known) => \E s \in batch : s.at = p

\* A batch that ends below the top has changed nothing.
BatchExact ==
  /\ Underway(Long, Passed, work, live, lineage, batch)
  /\ Exact(work, Long, Passed)
  /\ Len(target) < Len(Known) => work = db.tables

RInv ==
  /\ TypeOK /\ Lawful(chain)
  /\ Trusted(db, chain)
  /\ fails < MaxFails => Trusted(durable, chain)
  /\ pc # "idle" => BatchOnLong
  /\ pc \in {"scanned", "folded"} => BatchReaches
  /\ pc \in {"idle", "scanned"} => lineage = EmptyLineage
  /\ pc = "folded" => lineage = Standing(db.tables.facts)
  /\ pc = "batch" => BatchExact

\* What it says of the committed database.
LEMMA KnownIs ==
  ASSUME RInv
  PROVE  /\ chain \in Branch /\ Lawful(chain) /\ Len(chain) \in Nat
         /\ db \in Database /\ durable \in Database
         /\ Trusted(db, chain) /\ Whole(db.tables, Known)
         /\ Known \in Branch /\ Len(Known) \in Nat
         /\ db.branch \in Branch /\ Len(db.branch) \in Nat
         /\ Len(db.branch) <= Len(Known) /\ IsPrefix(db.branch, Known)
         /\ target \in Branch /\ Len(target) \in Nat /\ batch \subseteq Scanned
<1>1. /\ chain \in Branch /\ db \in Database /\ durable \in Database /\ target \in Branch
      /\ batch \subseteq Scanned /\ Trusted(db, chain) /\ Lawful(chain)
  BY DEF RInv, TypeOK
<1>2. Len(chain) \in Nat /\ Len(target) \in Nat
  BY <1>1 DEF Branch
<1> QED
  BY <1>1, <1>2, BaseIs DEF Known, Trusted

\* The invariant holds initially.
LEMMA InitTrusted == Init => RInv
<1> SUFFICES ASSUME Init PROVE RInv
  OBVIOUS
<1>1. TypeOK
  BY InitInv DEF IInv
<1>2. << >> \in Branch /\ Lawful(<< >>) /\ Whole(EmptyTables, << >>)
  BY EmptyIsGood, EmptyIsSound, EmptyIsWhole
<1>3. Trusted(NewDatabase, << >>)
  BY <1>2, WholeIsTrusted DEF NewDatabase
<1> QED
  BY <1>1, <1>2, <1>3 DEF Init, Quiet, RInv

\* A step that leaves the indexer idle.
LEMMA RestTrusted ==
  ASSUME TypeOK', Lawful(chain'), Trusted(db', chain'),
         fails' < MaxFails => Trusted(durable', chain'),
         pc' = "idle", lineage' = EmptyLineage
  PROVE  RInv'
  BY DEF RInv

\* A step of the network leaves the indexer and its branch alone.
LEMMA NetworkTrusted ==
  ASSUME ReorgsMeanwhile = FALSE, RInv, NetworkMeanwhile
  PROVE  RInv'
<1>1. chain \in Branch /\ Len(chain) \in Nat /\ db \in Database /\ durable \in Database
  BY KnownIs
<1>2. UNCHANGED <<db, durable, pc, local, fails>>
  BY DEF NetworkMeanwhile, Network, Mine, Reorg
<1>3. chain' \in Branch /\ Lawful(chain')
  <2>1. ASSUME NEW b \in Block, Mine(b) PROVE chain' \in Branch /\ Lawful(chain')
    <3>1. /\ Append(chain, b) \in Branch /\ Consensus(Append(chain, b))
          /\ chain' = Append(chain, b)
      BY <1>1, <2>1 DEF Mine, Branch
    <3> QED
      BY <3>1, ConsensusIsLawful
  <2>2. ASSUME NEW k \in 0..(Len(chain) - 1), Reorg(k) PROVE chain' \in Branch /\ Lawful(chain')
    <3>1. k \in 0..Len(chain) /\ Lawful(chain) /\ chain' = SubSeq(chain, 1, k)
      BY <1>1, <2>2, KnownIs DEF Reorg
    <3> QED
      BY <1>1, <3>1, CutIsBranch, CutLawful
  <2> QED
    BY <2>1, <2>2 DEF NetworkMeanwhile, Network
<1>4. ASSUME NEW d \in {db} \cup {e \in {durable} : fails < MaxFails}
      PROVE  Base(d, chain') = Base(d, chain) /\ Trusted(d, chain')
  <2>1. Rescanned(d) => \A h \in Heights(d.tables) : IsPrefix(SubSeq(chain, 1, h), chain')
    BY <1>4 DEF NetworkMeanwhile
  <2>2. d \in Database /\ Trusted(d, chain)
    BY <1>1, <1>4 DEF RInv
  <2> QED
    BY <1>1, <1>3, <2>1, <2>2, TrustedStays
<1>5. TypeOK'
  BY <1>2, <1>3 DEF RInv, TypeOK, local
<1>6. Known' = Known /\ Trusted(db', chain')
  BY <1>2, <1>4 DEF Known
<1>7. fails' < MaxFails => Trusted(durable', chain')
  BY <1>2, <1>4
<1>8. Long' = Long /\ Passed' = Passed
  BY <1>2, <1>6 DEF Long, Passed, local
<1>9. BatchOnLong' = BatchOnLong /\ BatchReaches' = BatchReaches /\ BatchExact' = BatchExact
  BY <1>2, <1>6, <1>8 DEF BatchOnLong, BatchReaches, BatchExact, local
<1> QED
  BY <1>2, <1>3, <1>5, <1>6, <1>7, <1>9 DEF RInv, local

\* A scanned batch lies on the best chain, as the tables do, and reaches from
\* below their top to its own end.
LEMMA ScanTrusted ==
  ASSUME RInv, NEW from \in 1..Len(chain), NEW to \in 1..Len(chain), Scan(from, to)
  PROVE  RInv'
<1>1. /\ chain \in Branch /\ Lawful(chain) /\ Len(chain) \in Nat
      /\ Known \in Branch /\ Len(Known) \in Nat /\ Lawful(Known)
      /\ Len(db.branch) \in Nat /\ Len(db.branch) <= Len(Known)
  BY KnownIs DEF Whole
<1>2. /\ target' = SubSeq(chain, 1, to) /\ to > Len(db.branch) /\ to \in 0..Len(chain)
      /\ from <= Len(db.branch) + 1 /\ batch' = TxsOf(chain, from, to)
      /\ IsPrefix(db.branch, chain) /\ UNCHANGED <<chain, db>> /\ pc' = "scanned"
  BY <1>1 DEF Scan, OnBestChain
<1>3. Known' = Known /\ IsPrefix(Known, chain)
  BY <1>2, KnownIs, BaseIs DEF Known
<1>4. /\ target' \in Branch /\ Len(target') = to /\ IsPrefix(target', chain)
      /\ Lawful(target')
  BY <1>1, <1>2, CutIsPrefix, CutLawful
<1>5. /\ Long' \in Branch /\ Lawful(Long')
      /\ IsPrefix(Known', Long') /\ IsPrefix(target', Long')
  <2>1. Long' = IF to < Len(Known) THEN Known ELSE target'
    BY <1>3, <1>4 DEF Long
  <2>2. IsPrefix(Known, Known) /\ IsPrefix(target', target')
    BY <1>1, <1>4 DEF Branch, IsPrefix
  <2>3. CASE to < Len(Known)
    BY <1>1, <1>3, <1>4, <2>1, <2>2, <2>3, PrefixesNest
  <2>4. CASE ~(to < Len(Known))
    <3>1. Len(Known) <= Len(target')
      BY <1>1, <1>2, <1>4, <2>4
    <3>2. IsPrefix(Known, target')
      BY <1>1, <1>3, <1>4, <3>1, PrefixesNest
    <3>3. Long' = target'
      BY <2>1, <2>4
    <3> QED
      BY <1>3, <1>4, <2>2, <3>2, <3>3
  <2> QED
    BY <2>3, <2>4
<1>6. /\ batch' \subseteq Scanned
      /\ \A s \in batch' : OnBranch(s.at, target') /\ TxAt(s.at, target') = s.tx
  BY <1>1, <1>2, TxsOfBranch
<1>7. \A s \in batch' : OnBranch(s.at, Long') /\ TxAt(s.at, Long') = s.tx
  <2>1. ASSUME NEW s \in batch' PROVE OnBranch(s.at, Long') /\ TxAt(s.at, Long') = s.tx
    <3>1. s.at \in Position
      BY <1>6 DEF Scanned
    <3> QED
      BY <1>4, <1>5, <1>6, <3>1, PrefixKeeps
  <2> QED
    BY <2>1
<1>8. BatchOnLong'
  BY <1>2, <1>4, <1>5, <1>7 DEF BatchOnLong
<1>9. ASSUME NEW p \in Mined(Long'), p[1] > Len(Known)
      PROVE  \E s \in batch' : s.at = p
  <2>1. p \in Position /\ p[1] \in 1..Len(Long') /\ OnBranch(p, Long')
    BY <1>5, MinedPositions
  <2>2. Long' = target'
    BY <1>1, <1>3, <1>9, <2>1 DEF Long, Position
  <2>3. p \in Mined(chain) /\ p[1] <= to /\ p[1] \in Nat
    BY <1>1, <1>2, <2>1, <2>2, CutMined DEF Position
  <2>4. p = <<p[1], p[2]>>
    BY <2>1 DEF Position
  <2>5. p[1] \in from..to /\ p[2] \in DOMAIN chain[p[1]]
    BY <1>1, <1>2, <1>9, <2>3, MinedPositions DEF OnBranch
  <2>6. [at |-> <<p[1], p[2]>>, tx |-> chain[p[1]][p[2]]] \in TxsOf(chain, from, to)
    BY <2>5 DEF TxsOf
  <2> QED
    BY <1>2, <2>4, <2>6
<1>10. BatchReaches'
  BY <1>3, <1>9 DEF BatchReaches
<1>11. TypeOK'
  BY <1>4, <1>6 DEF Scan, RInv, TypeOK
<1> QED
  BY <1>8, <1>10, <1>11 DEF Scan, RInv

\* Only a checkpoint that leads its tables is rewound.
LEMMA RewindTrusted ==
  ASSUME RInv, NEW k \in 0..Len(chain), RewindTo(k)
  PROVE  RInv'
<1> DEFINE new == [tables |-> Rewound(db.tables, k), branch |-> SubSeq(db.branch, 1, k)]
<1>1. /\ chain \in Branch /\ Len(chain) \in Nat /\ Known \in Branch
      /\ db.branch \in Branch /\ Len(db.branch) \in Nat /\ IsPrefix(db.branch, Known)
      /\ Whole(db.tables, Known)
  BY KnownIs
<1>2. Known = db.branch
  <2>1. SUFFICES ASSUME Rescanned(db) PROVE FALSE
    BY DEF Known, Base
  <2>2. IsPrefix(Known, chain)
    BY <2>1, KnownIs, BaseIs DEF Known
  <2>3. IsPrefix(db.branch, chain)
    BY <1>1, <2>2, PrefixOfPrefix
  <2> QED
    BY <2>3 DEF RewindTo, OnBestChain
<1>3. k \in 0..Len(db.branch)
  BY <1>1 DEF RewindTo
<1>4. Whole(new.tables, new.branch)
  BY <1>1, <1>2, <1>3, WholeCut
<1>5. db' = new /\ durable' \in {durable, new} /\ UNCHANGED <<chain, pc, local, fails>>
  BY DEF RewindTo, Persist
<1>6. pc' = "idle" /\ lineage' = EmptyLineage
  BY <1>5 DEF RewindTo, local, RInv
<1> HIDE DEF new
<1>7. Trusted(new, chain) /\ new \in Database
  <2>1. Trusted(new, chain)
    BY <1>1, <1>4, WholeIsTrusted
  <2>2. new.tables \in Tables /\ new.branch \in Branch
    BY <1>4 DEF Whole, Good
  <2> QED
    BY <2>1, <2>2 DEF Database, new
<1>8. TypeOK'
  BY <1>5, <1>7 DEF RInv, TypeOK, local
<1> QED
  BY <1>5, <1>6, <1>7, <1>8, RestTrusted DEF RInv

\* The snapshot is the closed form of the committed facts.
LEMMA SnapshotTrusted ==
  ASSUME RInv, TakeSnapshot
  PROVE  RInv'
<1>1. lineage' = Standing(db.tables.facts)
  <2>1. WellFormed(db.tables.facts)
    BY KnownIs DEF Whole, Sound, FactsSound
  <2> QED
    BY <2>1, FoldIsStanding DEF TakeSnapshot
<1>2. Known' = Known /\ Long' = Long
  BY DEF TakeSnapshot, Known, Long
<1>3. BatchReaches' = BatchReaches /\ BatchOnLong' = BatchOnLong
  BY <1>2 DEF TakeSnapshot, BatchReaches, BatchOnLong
<1>4. TypeOK'
  BY DEF TakeSnapshot, RInv, TypeOK
<1> QED
  BY <1>1, <1>3, <1>4 DEF TakeSnapshot, RInv

\* The open database starts with what the tables hold.
LEMMA BeginTrusted ==
  ASSUME RInv, BeginBatch
  PROVE  RInv'
<1>1. /\ Whole(db.tables, Known) /\ Known \in Branch /\ Len(Known) \in Nat
      /\ batch \subseteq Scanned
  BY KnownIs
<1>2. BatchOnLong /\ BatchReaches /\ lineage = Standing(db.tables.facts)
  BY DEF RInv, BeginBatch
<1>3. /\ Mined(Known) = {p \in Mined(Long) : p[1] <= Len(Known)}
      /\ Good(db.tables, Long) /\ Sound(db.tables, Long, Mined(Known))
      /\ Exact(db.tables, Long, Mined(Known))
  BY <1>1, <1>2, WholeCovers DEF BatchOnLong
<1>4. \A p \in Mined(Long) : p[1] \in Nat
  BY <1>2, MinedPositions DEF BatchOnLong, Position
<1>5. Passed = Mined(Known)
  <2>1. ASSUME NEW p \in Mined(Long), ~(p[1] <= Len(Known))
        PROVE  \E s \in batch : s.at = p
    BY <1>1, <1>2, <1>4, <2>1 DEF BatchReaches
  <2> QED
    BY <1>3, <2>1 DEF Passed
<1>6. ASSUME NEW s \in batch, NEW p \in Passed, s.at \notin Passed PROVE Before(p, s.at)
  <2>1. s.at \in Mined(Long)
    BY <1>1, <1>2, MinedPositions DEF Scanned, BatchOnLong
  <2>2. ~(s.at[1] <= Len(Known)) /\ p[1] <= Len(Known) /\ s.at[1] \in Nat /\ p[1] \in Nat
    BY <1>3, <1>4, <1>5, <1>6, <2>1
  <2> QED
    BY <1>1, <2>2 DEF Before
<1>7. Underway(Long, Passed, db.tables, LiveNameNullifiers(db.tables), lineage, batch)
  <2>1. \A p \in Mined(Long) : p \in Passed \/ \E s \in batch : s.at = p
    BY DEF Passed
  <2> QED
    BY <1>1, <1>2, <1>3, <1>5, <1>6, <2>1 DEF Underway, BatchOnLong
<1>8. /\ work' = db.tables /\ live' = LiveNameNullifiers(db.tables)
      /\ lineage' = lineage /\ batch' = batch /\ target' = target /\ db' = db
      /\ Known' = Known /\ Long' = Long /\ Passed' = Passed
  BY DEF BeginBatch, Known, Long, Passed
<1>9. BatchExact'
  BY <1>3, <1>5, <1>7, <1>8 DEF BatchExact
<1>10. BatchOnLong'
  BY <1>2, <1>8 DEF BatchOnLong
<1>11. TypeOK'
  <2>1. db.tables \in Tables
    BY <1>3 DEF Good
  <2>2. LiveNameNullifiers(db.tables) \subseteq Nf
    BY <2>1 DEF LiveNameNullifiers, Tables, Row
  <2> QED
    BY <2>1, <2>2 DEF BeginBatch, RInv, TypeOK
<1> QED
  BY <1>9, <1>10, <1>11 DEF BeginBatch, RInv

\* A verdict adds one position to those the open tables cover, or changes
\* nothing.
LEMMA ApplyTrusted ==
  ASSUME RInv, NEW s \in batch, ApplyTransaction(s)
  PROVE  RInv'
<1>1. /\ pc = "batch" /\ IsNext(s) /\ batch' = batch \ {s}
      /\ UNCHANGED <<chain, db, durable, pc, target, fails>>
  BY ApplyFrame
<1>2. /\ Underway(Long, Passed, work, live, lineage, batch) /\ Exact(work, Long, Passed)
      /\ Len(target) < Len(Known) => work = db.tables
      /\ BatchOnLong
  BY <1>1 DEF RInv, BatchExact
<1>3. /\ Long \in Branch /\ s.at \in Mined(Long)
      /\ \A x \in batch : x.at = s.at => x = s
  BY <1>2, BatchContext
<1>4. Known' = Known /\ Long' = Long
  BY <1>1 DEF Known, Long
<1>5. Passed' = Passed \cup {s.at}
  <2>1. ASSUME NEW p \in Mined(Long)
        PROVE  (\A x \in batch \ {s} : x.at # p) <=> (\A x \in batch : x.at # p) \/ p = s.at
    BY <1>3
  <2> QED
    BY <1>1, <1>3, <1>4, <2>1 DEF Passed
<1>6. /\ Underway(Long, Passed \cup {s.at}, work', live', lineage', batch')
      /\ Exact(work', Long, Passed \cup {s.at})
  BY <1>2, ApplyKeeps, ApplyExact
<1>7. Len(target) < Len(Known) => work' = db.tables
  <2>1. SUFFICES ASSUME Len(target) < Len(Known) PROVE work' = db.tables
    OBVIOUS
  <2>2. s.at[1] \in 1..Len(Known) /\ Len(Known) \in Nat
    BY <1>3, <2>1, MinedPositions, KnownIs DEF Long
  <2>3. s.at \in Passed
    BY <1>3, <2>2 DEF Passed
  <2>4. work' = work
    BY <1>2, <2>3, ReplayChangesNothing
  <2> QED
    BY <1>2, <2>1, <2>4
<1>8. BatchExact'
  BY <1>1, <1>4, <1>5, <1>6, <1>7 DEF BatchExact
<1>9. BatchOnLong'
  BY <1>1, <1>2, <1>4 DEF BatchOnLong
<1>10. TypeOK'
  <2>1. work' \in Tables /\ live' = LiveNameNullifiers(work')
    BY <1>6 DEF Underway, Good
  <2>2. live' \subseteq Nf
    BY <2>1 DEF LiveNameNullifiers, Tables, Row
  <2> QED
    BY <1>1, <2>1, <2>2 DEF RInv, TypeOK
<1> QED
  BY <1>1, <1>8, <1>9, <1>10 DEF RInv

\* A commit below the top moves the checkpoint over the same tables, one at
\* or above it makes them those of its branch.
LEMMA CommitTrusted ==
  ASSUME RInv, CommitBatch
  PROVE  RInv'
<1> DEFINE new == [tables |-> work, branch |-> target]
           k == Top(db.tables)
<1>1. /\ chain \in Branch /\ db \in Database /\ target \in Branch /\ Len(target) \in Nat
      /\ Len(Known) \in Nat /\ Len(db.branch) \in Nat /\ Trusted(db, chain)
      /\ Whole(db.tables, Known) /\ Len(chain) \in Nat
  BY KnownIs
<1>2. BatchOnLong /\ BatchExact /\ batch = {}
  BY DEF CommitBatch, RInv
<1>3. Whole(work, Long)
  <2>1. Passed = Mined(Long)
    BY <1>2 DEF Passed
  <2> QED
    BY <1>2, <2>1 DEF BatchExact, Underway, Whole
<1>4. new \in Database
  BY <1>1, <1>3 DEF Database, Whole, Good
<1>5. Trusted(new, chain)
  <2>1. CASE ~(Len(target) < Len(Known))
    <3>1. Whole(new.tables, new.branch)
      BY <1>3, <2>1 DEF Long
    <3> HIDE DEF new
    <3> QED
      BY <1>1, <3>1, WholeIsTrusted
  <2>2. CASE Len(target) < Len(Known)
    <3>1. Rescanned(db)
      BY <1>1, <1>2, <2>2 DEF BatchOnLong, Known, Base
    <3>2. Known = SubSeq(chain, 1, k) /\ k \in 0..Len(chain)
      <4>1. Known = SubSeq(chain, 1, k) /\ k <= Len(chain)
        BY <1>1, <3>1 DEF Known, Base, Trusted
      <4>2. k \in 0..Len(Known)
        BY <1>1, BaseIs DEF Known
      <4> QED
        BY <1>1, <4>1, <4>2
    <3>3. work = db.tables /\ IsPrefix(target, Known)
      BY <1>2, <2>2 DEF BatchExact, BatchOnLong, Long
    <3>4. new.tables = db.tables /\ new.branch = target
      BY <3>3
    <3> HIDE DEF new
    <3> QED
      BY <1>1, <1>4, <3>2, <3>3, <3>4, BehindIsTrusted
  <2> QED
    BY <2>1, <2>2
<1>6. /\ db' = new /\ durable' \in {durable, new} /\ UNCHANGED <<chain, fails>>
      /\ pc' = "idle" /\ target' = << >> /\ batch' = {} /\ lineage' = EmptyLineage
      /\ live' = {} /\ work' = EmptyTables
  BY DEF CommitBatch, Persist, Rest
<1> HIDE DEF new
<1>7. TypeOK'
  <2>1. EmptyTables \in Tables /\ << >> \in Branch
    BY EmptyIsGood DEF Good
  <2> QED
    BY <1>4, <1>6, <2>1 DEF RInv, TypeOK
<1> QED
  BY <1>5, <1>6, <1>7, RestTrusted DEF RInv

\* The checkpoint is lost.
LEMMA CorruptTrusted ==
  ASSUME ReorgsMeanwhile = FALSE, RInv, CorruptCheckpoint
  PROVE  RInv'
<1> DEFINE new == [db EXCEPT !.branch = << >>]
<1>1. chain \in Branch /\ db \in Database /\ Trusted(db, chain) /\ IsPrefix(db.branch, chain)
  BY KnownIs DEF CorruptCheckpoint, OnBestChain
<1>2. Trusted(new, chain)
  BY <1>1, LostIsTrusted
<1>3. new \in Database
  BY <1>1, EmptyIsGood DEF Database
<1>4. /\ db' = new /\ durable' = new /\ UNCHANGED <<chain, pc, local>>
      /\ pc = "idle" /\ fails' \in 0..MaxFails
  BY ResolverAssumption DEF CorruptCheckpoint, RInv, TypeOK, ResolverAssumption
<1> HIDE DEF new
<1>5. TypeOK'
  BY <1>3, <1>4 DEF RInv, TypeOK, local
<1>6. pc' = "idle" /\ lineage' = EmptyLineage
  BY <1>4 DEF RInv, local
<1> QED
  BY <1>2, <1>4, <1>5, <1>6, RestTrusted DEF RInv

\* A failure leaves the committed or the durable database.
LEMMA FailTrusted ==
  ASSUME RInv, Abandon \/ PowerLoss
  PROVE  RInv'
<1>1. /\ fails < MaxFails /\ fails' = fails + 1 /\ chain' = chain /\ durable' = durable
      /\ db' \in {db, durable} /\ Rest
  BY DEF Abandon, PowerLoss
<1>2. Trusted(db', chain) /\ Trusted(durable', chain)
  BY <1>1 DEF RInv
<1>3. TypeOK'
  <2>1. EmptyTables \in Tables /\ << >> \in Branch
    BY EmptyIsGood DEF Good
  <2>2. fails' \in 0..MaxFails
    BY <1>1, ResolverAssumption DEF RInv, TypeOK, ResolverAssumption
  <2> QED
    BY <1>1, <2>1, <2>2 DEF Rest, RInv, TypeOK
<1> QED
  BY <1>1, <1>2, <1>3, RestTrusted DEF Rest, RInv

\* Every step preserves the invariant.
LEMMA NextTrusted ==
  ASSUME ReorgsMeanwhile = FALSE
  PROVE  RInv /\ [RescanNext]_vars => RInv'
<1> SUFFICES ASSUME RInv, [RescanNext]_vars PROVE RInv'
  OBVIOUS
<1>1. CASE CorruptCheckpoint
  BY <1>1, CorruptTrusted
<1>2. CASE NetworkMeanwhile
  BY <1>2, NetworkTrusted
<1>3. CASE Indexer
  BY <1>3, ScanTrusted, RewindTrusted, SnapshotTrusted, BeginTrusted, ApplyTrusted,
     CommitTrusted DEF Indexer, Scanner
<1>4. CASE Abandon \/ PowerLoss
  BY <1>4, FailTrusted
<1>5. CASE UNCHANGED vars
  <2>1. /\ Known' = Known /\ Long' = Long /\ Passed' = Passed /\ TypeOK' = TypeOK
    BY <1>5 DEF vars, Known, Long, Passed, TypeOK
  <2>2. BatchOnLong' = BatchOnLong /\ BatchReaches' = BatchReaches /\ BatchExact' = BatchExact
    BY <1>5, <2>1 DEF vars, BatchOnLong, BatchReaches, BatchExact
  <2> QED
    BY <1>5, <2>1, <2>2 DEF vars, RInv
<1> QED
  BY <1>1, <1>2, <1>3, <1>4, <1>5 DEF RescanNext

\* The inductive invariant of the rescan.
LEMMA Trustworthy == ASSUME ReorgsMeanwhile = FALSE PROVE RescanSpec => []RInv
  BY InitTrusted, NextTrusted, PTL DEF RescanSpec

-----------------------------------------------------------------------------
(* Theorems.                                                               *)

\* Once the rescan has passed what the tables hold, records, tips and
\* authority are those of the checkpoint's branch again, whatever crashes and
\* power losses it met ("healed by rescanning from the birthday", core.rs:1012).
THEOREM RescanHeals == ASSUME ReorgsMeanwhile = FALSE PROVE RescanSpec => []Healed
<1>1. RInv => Healed
  <2> SUFFICES ASSUME RInv, ~Rescanning PROVE /\ TablesOnBranch(db.tables, db.branch)
                                              /\ NamesFollowLogs
                                              /\ AuthorityIsUnspentAndWatched
    BY DEF Healed
  <2>1. /\ db.branch \in Branch /\ Lawful(db.branch) /\ Good(db.tables, db.branch)
        /\ Sound(db.tables, db.branch, Mined(db.branch))
    BY KnownIs DEF Rescanning, Known, Base, Whole
  <2>2. NamesFollowLogs
    BY <2>1 DEF RInv, BatchExact, Underway, Sound, HistorySound, NamesFollowLogs
  <2>3. AuthorityIsUnspentAndWatched
    BY <2>1, AuthorityIsUnspent DEF AuthorityIsUnspentAndWatched
  <2> QED
    BY <2>1, <2>2, <2>3 DEF Good
<1> QED
  BY <1>1, Trustworthy, PTL

\* It changes no table before: no claim, update or end that happened is
\* judged anew with another verdict against the later state the tables are
\* in ("the index replays idempotently", core.rs:1012).
THEOREM RescanIsIdle == ASSUME ReorgsMeanwhile = FALSE PROVE RescanSpec => RescanChangesNothing
<1>1. RInv /\ [RescanNext]_vars =>
        [pc = "batch" /\ pc' = "batch" /\ Rescanning
           => \A s \in batch \ batch' :
                (\E h \in Heights(db.tables) : s.at[1] <= h) => work' = work]_vars
  <2> SUFFICES ASSUME RInv, [RescanNext]_vars, pc = "batch", pc' = "batch", Rescanning,
                      NEW s \in batch \ batch', NEW h \in Heights(db.tables), s.at[1] <= h
               PROVE  work' = work
    OBVIOUS
  <2>1. PICK x \in batch : ApplyTransaction(x)
    BY DEF RescanNext, CorruptCheckpoint, NetworkMeanwhile, Network, Mine, Reorg, Indexer,
           Scanner, Scan, RewindTo, TakeSnapshot, BeginBatch, CommitBatch, Abandon, PowerLoss,
           Rest, local, vars
  <2>2. x = s
    BY <2>1, ApplyFrame
  <2>3. Underway(Long, Passed, work, live, lineage, batch)
    BY DEF RInv, BatchExact
  <2>4. /\ s.at \in Mined(Long) /\ s.at \in Position
    BY <2>3, BatchContext
  <2>5. h \in 1..Len(Known) /\ Len(Known) \in Nat
    BY KnownIs, HeightsOfBranch DEF Whole
  <2>6. s.at \in Passed
    BY <2>4, <2>5 DEF Passed, Position
  <2> QED
    BY <2>1, <2>2, <2>3, <2>6, ReplayChangesNothing
<1> QED
  BY <1>1, Trustworthy, PTL DEF RescanSpec, RescanChangesNothing

\* The lineage of a batch is the fold of the facts stored so far, the batches
\* of a rescan among them (apply_batch and fold_lineage).
THEOREM RescanLineageAgrees ==
  ASSUME ReorgsMeanwhile = FALSE
  PROVE  RescanSpec => []LineageIsFold
<1>1. RInv => LineageIsFold
  <2> SUFFICES ASSUME RInv PROVE LineageIsFold
    OBVIOUS
  <2>1. pc \in {"idle", "scanned", "folded", "batch"}
    BY DEF RInv, TypeOK
  <2>2. CASE pc \in {"idle", "scanned"}
    BY <2>2 DEF RInv, LineageIsFold
  <2>3. CASE pc = "folded"
    <3>1. WellFormed(db.tables.facts) /\ lineage = Standing(db.tables.facts)
      BY <2>3, KnownIs DEF RInv, Whole, Sound, FactsSound
    <3> QED
      BY <2>3, <3>1, FoldIsStanding DEF LineageIsFold
  <2>4. CASE pc = "batch"
    <3>1. WellFormed(work.facts) /\ lineage = Standing(work.facts)
      BY <2>4 DEF RInv, BatchExact, Underway, Sound, FactsSound
    <3> QED
      BY <2>4, <3>1, FoldIsStanding DEF LineageIsFold
  <2> QED
    BY <2>1, <2>2, <2>3, <2>4
<1> QED
  BY <1>1, Trustworthy, PTL

\* While it runs the tables are those of the best chain up to the highest
\* block that left a row, and before and after it those of the checkpoint's
\* branch: the rows an index that never lost its checkpoint has.
TablesAreWhole ==
  db.tables = TablesOf(IF Rescanning THEN SubSeq(chain, 1, Top(db.tables)) ELSE db.branch)

\* What readers see is the law's ledger of that branch.
LedgerIsWhole ==
  LET law == Ledger!LedgerOf(IF Rescanning THEN SubSeq(chain, 1, Top(db.tables)) ELSE db.branch)
  IN  /\ {r.note : r \in db.tables.names} = law.tips
      /\ FoldLineage(db.tables.facts).live = law.pool

\* A lost checkpoint costs no row and adds none, during the rescan and after
\* it, and readers are shown the law's ledger all along (core::checkpoint,
\* apply_batch).
THEOREM RescanIsInvisible ==
  ASSUME ReorgsMeanwhile = FALSE
  PROVE  RescanSpec => [](TablesAreWhole /\ LedgerIsWhole)
<1>1. RInv => TablesAreWhole /\ LedgerIsWhole
  <2> SUFFICES ASSUME RInv PROVE TablesAreWhole /\ LedgerIsWhole
    OBVIOUS
  <2>1. Whole(db.tables, Known)
    BY KnownIs
  <2>2. db.tables = TablesOf(Known)
    BY <2>1, IndexedIsTablesOf DEF Whole, Exact, Indexed
  <2>3. /\ {r.note : r \in db.tables.names} = Ledger!LedgerOf(Known).tips
        /\ FoldLineage(db.tables.facts).live = Ledger!LedgerOf(Known).pool
    BY <2>1, LedgerIsRead DEF Whole, Exact
  <2>4. Known = IF Rescanning THEN SubSeq(chain, 1, Top(db.tables)) ELSE db.branch
    BY DEF Known, Base, Rescanning
  <2> QED
    BY <2>2, <2>3, <2>4 DEF TablesAreWhole, LedgerIsWhole
<1> QED
  BY <1>1, Trustworthy, PTL
=============================================================================
