--------------------------- MODULE ResolverProofs ---------------------------
(***************************************************************************)
(* Proofs about the indexer, for every value of the constants: the types,  *)
(* that the database holds records of its checkpoint's branch only, that   *)
(* the in-memory live names agree with the names table, what the fold of   *)
(* the anchor facts computes, and, from there, what the tables say.        *)
(*                                                                         *)
(* The first three rest on one inductive invariant.  A database is good    *)
(* for a branch when its rows come from that branch and its tips are       *)
(* distinct.  Good databases stay good when the branch grows (the rows     *)
(* keep their blocks), when branch and tables are cut together (rewind),   *)
(* and under each verdict of the law; the committed, the durable and the   *)
(* open database are good, the last one for the branch the batch ends at.  *)
(*                                                                         *)
(* The fold is recursive; Standing says the same in one step, for every    *)
(* set of facts the store may hold.  The notes that ever conferred         *)
(* authority are those of the first transaction of the ceremony's shape    *)
(* and the successors of seated claims; of these the unspent ones stand.   *)
(* The argument is an induction over the positions of the facts, made with *)
(* a least counterexample.  Its step, StandingSteps, is also the step of   *)
(* apply_batch: facts up to a position, and what that position adds.       *)
(***************************************************************************)
EXTENDS Resolver, FiniteSetTheorems, TLAPS

Good(tables, branch) ==
  /\ tables \in Tables
  /\ TablesOnBranch(tables, branch)
  /\ TipsDistinct(tables)

-----------------------------------------------------------------------------
(* Branches.                                                               *)

\* A position of a branch keeps its transaction when the branch grows.
LEMMA PrefixKeeps ==
  ASSUME NEW b \in Branch, NEW c \in Branch, IsPrefix(b, c),
         NEW at \in Position, OnBranch(at, b)
  PROVE  OnBranch(at, c) /\ TxAt(at, c) = TxAt(at, b)
<1>1. at[1] \in 1..Len(b) /\ Len(b) <= Len(c) /\ Len(b) \in Nat /\ Len(c) \in Nat
  BY DEF Branch, OnBranch, IsPrefix
<1>2. SubSeq(b, 1, Len(b))[at[1]] = b[at[1]]
  BY <1>1 DEF Branch
<1>3. SubSeq(c, 1, Len(b))[at[1]] = c[at[1]]
  BY <1>1 DEF Branch
<1>4. b[at[1]] = c[at[1]]
  BY <1>2, <1>3 DEF IsPrefix
<1> QED
  BY <1>1, <1>4 DEF Branch, OnBranch, TxAt

\* A position at or below the cut keeps its transaction.
LEMMA CutKeeps ==
  ASSUME NEW b \in Branch, NEW k \in 0..Len(b),
         NEW at \in Position, OnBranch(at, b), at[1] <= k
  PROVE  /\ OnBranch(at, SubSeq(b, 1, k))
         /\ TxAt(at, SubSeq(b, 1, k)) = TxAt(at, b)
<1>1. at[1] \in 1..k /\ Len(b) \in Nat
  BY DEF Branch, OnBranch, Position
<1>2. SubSeq(b, 1, k)[at[1]] = b[at[1]] /\ at[1] \in DOMAIN SubSeq(b, 1, k)
  BY <1>1 DEF Branch
<1> QED
  BY <1>2 DEF OnBranch, TxAt

\* A cut branch is a branch.
LEMMA CutIsBranch ==
  ASSUME NEW b \in Branch, NEW k \in 0..Len(b)
  PROVE  SubSeq(b, 1, k) \in Branch /\ Len(SubSeq(b, 1, k)) = k
  BY DEF Branch

\* The transactions of a branch are transactions.
LEMMA TxAtIsTx ==
  ASSUME NEW b \in Branch, NEW at \in Position, OnBranch(at, b)
  PROVE  TxAt(at, b) \in Tx
<1>1. b[at[1]] \in Block
  BY DEF Branch, OnBranch
<1>2. b[at[1]] \in Seq(Tx)
  BY <1>1, ResolverAssumption DEF ResolverAssumption
<1> QED
  BY <1>2 DEF OnBranch, TxAt

\* The one name note of a transaction is one of its relaxed outputs.
LEMMA TheNoteIsNote ==
  ASSUME NEW tx \in Tx, HasSingleNameNote(tx)
  PROVE  TheNote(tx) \in tx.relaxed /\ TheNote(tx) \in Note
<1>1. Candidates(tx) # {}
  BY FS_EmptySet DEF HasSingleNameNote
<1>2. TheNote(tx) \in Candidates(tx)
  BY <1>1 DEF TheNote
<1> QED
  BY <1>2, RegistryAssumption DEF RegistryAssumption, Candidates

\* Two records of a branch at one position are one record.
LEMMA RowsAtOnePosition ==
  ASSUME NEW tables, NEW b \in Branch, tables \in Tables, TablesOnBranch(tables, b),
         NEW e \in tables.events, NEW f \in tables.events, e.at = f.at
  PROVE  e = f
<1>1. e \in Row /\ f \in Row
  BY DEF Tables
<1>2. e.note = f.note /\ e.txid = f.txid
  BY DEF TablesOnBranch
<1> QED
  BY <1>1, <1>2 DEF Row

\* Notes of recorded events with one nullifier are one note.
LEMMA RecordedNotesIdentity ==
  ASSUME NEW b \in Branch, NEW at \in Position, NEW p \in Position,
         OnBranch(at, b), OnBranch(p, b),
         HasSingleNameNote(TxAt(at, b)), HasSingleNameNote(TxAt(p, b)),
         TheNote(TxAt(at, b)).nf = TheNote(TxAt(p, b)).nf,
         TheNote(TxAt(at, b)).nf \in Nf
  PROVE  TheNote(TxAt(at, b)) = TheNote(TxAt(p, b))
<1>1. TxAt(at, b) \in Tx /\ TxAt(p, b) \in Tx
  BY TxAtIsTx
<1>2. /\ TheNote(TxAt(at, b)) \in TxAt(at, b).relaxed
      /\ TheNote(TxAt(p, b)) \in TxAt(p, b).relaxed
  BY <1>1, TheNoteIsNote
<1> QED
  BY <1>1, <1>2, IdentityAssumption DEF IdentityAssumption

-----------------------------------------------------------------------------
(* Good databases.                                                         *)

\* The empty tables are good for the empty branch.
LEMMA EmptyIsGood == Good(EmptyTables, << >>) /\ << >> \in Branch
  BY DEF Good, EmptyTables, Tables, TablesOnBranch, TipsDistinct, Branch

\* Good tables stay good when the branch grows.
LEMMA GrowGood ==
  ASSUME NEW b \in Branch, NEW c \in Branch, IsPrefix(b, c),
         NEW tables, Good(tables, b)
  PROVE  Good(tables, c)
<1>1. tables \in Tables /\ TipsDistinct(tables) /\ tables.names \subseteq tables.events
  BY DEF Good, TablesOnBranch
<1>2. ASSUME NEW at \in Position, OnBranch(at, b)
      PROVE  OnBranch(at, c) /\ TxAt(at, c) = TxAt(at, b)
  BY <1>2, PrefixKeeps
<1>3. ASSUME NEW e \in tables.events
      PROVE  /\ OnBranch(e.at, c)
             /\ e.txid = TxAt(e.at, c).id
             /\ HasSingleNameNote(TxAt(e.at, c))
             /\ e.note = TheNote(TxAt(e.at, c))
  <2>1. e.at \in Position
    BY <1>1 DEF Tables, Row
  <2> QED
    BY <2>1, <1>2 DEF Good, TablesOnBranch
<1>4. ASSUME NEW i \in tables.implicit
      PROVE  /\ OnBranch(i.at, c)
             /\ i.txid = TxAt(i.at, c).id
             /\ i.nf \in TxAt(i.at, c).spends
  <2>1. i.at \in Position
    BY <1>1 DEF Tables, ImplicitRow
  <2> QED
    BY <2>1, <1>2 DEF Good, TablesOnBranch
<1>5. ASSUME NEW f \in tables.facts
      PROVE  /\ OnBranch(f.at, c)
             /\ f.nf \in TxAt(f.at, c).zero
             /\ f.spent # NotSpent => /\ OnBranch(f.spent, c)
                                      /\ f.nf \in TxAt(f.spent, c).spends
  <2>1. f.at \in Position /\ (f.spent # NotSpent => f.spent \in Position)
    BY <1>1 DEF Tables, Fact
  <2> QED
    BY <2>1, <1>2 DEF Good, TablesOnBranch
<1> QED
  BY <1>1, <1>3, <1>4, <1>5 DEF Good, TablesOnBranch

\* What a rewind rebuilds for a name is at most one of its events.
LEMMA RebuiltTipIsOne ==
  ASSUME NEW tables, NEW b \in Branch, tables \in Tables, TablesOnBranch(tables, b),
         NEW E \in SUBSET tables.events, NEW I, NEW n,
         NEW r \in RebuiltTip(E, I, n), NEW q \in RebuiltTip(E, I, n)
  PROVE  r = q /\ r \in E /\ r.note.name = n
<1>1. r \in E /\ q \in E /\ r.note.name = n /\ q.note.name = n
  BY DEF RebuiltTip
<1>2. ~Before(r.at, q.at) /\ ~Before(q.at, r.at)
  BY <1>1 DEF RebuiltTip
<1>3. r.at \in Position /\ q.at \in Position
  BY <1>1 DEF Tables, Row
<1>4. r.at = q.at
  BY <1>2, <1>3 DEF Before, Position
<1> QED
  BY <1>1, <1>4, RowsAtOnePosition

\* Distinct names in a set of events of one branch make distinct tips.
LEMMA TipsOfEvents ==
  ASSUME NEW tables, NEW b \in Branch, tables \in Tables, TablesOnBranch(tables, b),
         \A r, q \in tables.names : r.note.name = q.note.name => r = q
  PROVE  TipsDistinct(tables)
<1> SUFFICES ASSUME NEW r \in tables.names, NEW q \in tables.names,
                    r.note.nf = q.note.nf
             PROVE  r = q
  BY DEF TipsDistinct
<1>1. r \in tables.events /\ q \in tables.events /\ r \in Row /\ q \in Row
  BY DEF TablesOnBranch, Tables
<1>2. /\ r.at \in Position /\ OnBranch(r.at, b) /\ HasSingleNameNote(TxAt(r.at, b))
      /\ q.at \in Position /\ OnBranch(q.at, b) /\ HasSingleNameNote(TxAt(q.at, b))
      /\ r.note = TheNote(TxAt(r.at, b)) /\ q.note = TheNote(TxAt(q.at, b))
      /\ r.note.nf \in Nf
  BY <1>1 DEF TablesOnBranch, Row
<1>3. r.note = q.note
  BY <1>2, RecordedNotesIdentity
<1> QED
  BY <1>3

\* A rewind cuts tables and branch together.
LEMMA RewoundGood ==
  ASSUME NEW b \in Branch, NEW tables, Good(tables, b), NEW k \in 0..Len(b)
  PROVE  Good(Rewound(tables, k), SubSeq(b, 1, k))
<1> DEFINE c == SubSeq(b, 1, k)
           new == Rewound(tables, k)
           events == {e \in tables.events : e.at[1] <= k}
           implicit == {i \in tables.implicit : i.at[1] <= k}
           affected == {e.note.name : e \in tables.events \ events} \cup
                       {i.name : i \in tables.implicit \ implicit}
           names == {r \in tables.names : r.note.name \notin affected} \cup
                    UNION {RebuiltTip(events, implicit, n) : n \in affected}
           kept == {g \in tables.facts : g.at[1] <= k}
           facts == {IF f.spent[1] > k THEN [f EXCEPT !.spent = NotSpent] ELSE f : f \in kept}
<1>1. /\ new = [events |-> events, implicit |-> implicit, names |-> names, facts |-> facts]
      /\ tables \in Tables /\ TablesOnBranch(tables, b) /\ TipsDistinct(tables)
  BY DEF Rewound, Good
<1>2. c \in Branch /\ k \in Nat
  BY CutIsBranch DEF Branch
<1>3. ASSUME NEW at \in Position, OnBranch(at, b), at[1] <= k
      PROVE  OnBranch(at, c) /\ TxAt(at, c) = TxAt(at, b)
  BY <1>3, CutKeeps
<1>4. names \subseteq events
  <2>1. ASSUME NEW r \in tables.names, r.note.name \notin affected
        PROVE  r \in events
    BY <1>1, <2>1 DEF TablesOnBranch
  <2>2. ASSUME NEW n, NEW r \in RebuiltTip(events, implicit, n)
        PROVE  r \in events
    BY DEF RebuiltTip
  <2> QED
    BY <2>1, <2>2
<1>5. ASSUME NEW f \in kept
      PROVE  LET g == IF f.spent[1] > k THEN [f EXCEPT !.spent = NotSpent] ELSE f
             IN  /\ g \in Fact
                 /\ OnBranch(g.at, c)
                 /\ g.nf \in TxAt(g.at, c).zero
                 /\ g.spent # NotSpent => /\ OnBranch(g.spent, c)
                                          /\ g.nf \in TxAt(g.spent, c).spends
  <2> DEFINE g == IF f.spent[1] > k THEN [f EXCEPT !.spent = NotSpent] ELSE f
  <2>1. /\ f \in Fact /\ f.at \in Position /\ f.at[1] <= k
        /\ OnBranch(f.at, b) /\ f.nf \in TxAt(f.at, b).zero
        /\ f.spent # NotSpent => /\ f.spent \in Position /\ OnBranch(f.spent, b)
                                 /\ f.nf \in TxAt(f.spent, b).spends
    BY <1>1 DEF Tables, Fact, TablesOnBranch
  <2>2. g \in Fact /\ g.nf = f.nf /\ g.at = f.at
    BY <2>1 DEF Fact
  <2>3. g.spent # NotSpent => g.spent = f.spent /\ ~(f.spent[1] > k)
    BY <2>1 DEF Fact
  <2>4. g.spent # NotSpent => g.spent[1] <= k
    BY <2>1, <2>3, <1>2 DEF Position
  <2>5. OnBranch(f.at, c) /\ TxAt(f.at, c) = TxAt(f.at, b)
    BY <2>1, <1>3
  <2>6. g.spent # NotSpent => OnBranch(f.spent, c) /\ TxAt(f.spent, c) = TxAt(f.spent, b)
    BY <2>1, <2>3, <2>4, <1>3
  <2> QED
    BY <2>1, <2>2, <2>3, <2>5, <2>6
<1>6. new \in Tables
  <2>1. events \subseteq Row /\ implicit \subseteq ImplicitRow /\ names \subseteq Row
    BY <1>1, <1>4 DEF Tables
  <2>2. facts \subseteq Fact
    BY <1>5
  <2> HIDE DEF new, events, implicit, names, facts
  <2> QED
    BY <1>1, <2>1, <2>2 DEF Tables
<1>7. TablesOnBranch(new, c)
  <2>1. ASSUME NEW e \in events
        PROVE  /\ OnBranch(e.at, c)
               /\ e.txid = TxAt(e.at, c).id
               /\ HasSingleNameNote(TxAt(e.at, c))
               /\ e.note = TheNote(TxAt(e.at, c))
    <3>1. e.at \in Position /\ OnBranch(e.at, b) /\ e.at[1] <= k
      BY <1>1 DEF Tables, Row, TablesOnBranch
    <3> QED
      BY <3>1, <1>1, <1>3 DEF TablesOnBranch
  <2>2. ASSUME NEW i \in implicit
        PROVE  /\ OnBranch(i.at, c)
               /\ i.txid = TxAt(i.at, c).id
               /\ i.nf \in TxAt(i.at, c).spends
    <3>1. i.at \in Position /\ OnBranch(i.at, b) /\ i.at[1] <= k
      BY <1>1 DEF Tables, ImplicitRow, TablesOnBranch
    <3> QED
      BY <3>1, <1>1, <1>3 DEF TablesOnBranch
  <2>3. ASSUME NEW g \in facts
        PROVE  /\ OnBranch(g.at, c)
               /\ g.nf \in TxAt(g.at, c).zero
               /\ g.spent # NotSpent => /\ OnBranch(g.spent, c)
                                        /\ g.nf \in TxAt(g.spent, c).spends
    BY <1>5
  <2>4. /\ new.events = events /\ new.implicit = implicit
        /\ new.names = names /\ new.facts = facts
    BY <1>1
  <2> HIDE DEF new, events, implicit, names, facts, c
  <2> QED
    BY <2>4, <1>4, <2>1, <2>2, <2>3 DEF TablesOnBranch
<1>8. ASSUME NEW r \in names, NEW q \in names, r.note.name = q.note.name
      PROVE  r = q
  <2>1. CASE r.note.name \in affected
    <3>1. PICK n \in affected : r \in RebuiltTip(events, implicit, n)
      BY <2>1
    <3>2. PICK m \in affected : q \in RebuiltTip(events, implicit, m)
      BY <2>1, <1>8
    <3>3. n = m
      BY <3>1, <3>2, <1>8 DEF RebuiltTip
    <3>4. /\ q \in RebuiltTip(events, implicit, n) /\ events \in SUBSET tables.events
          /\ tables \in Tables /\ TablesOnBranch(tables, b)
      BY <3>2, <3>3, <1>1
    <3> HIDE DEF new, events, implicit, names, facts, affected, c
    <3> QED
      BY <3>1, <3>4, RebuiltTipIsOne
  <2>2. CASE r.note.name \notin affected
    <3>1. ASSUME NEW n \in affected, NEW x \in RebuiltTip(events, implicit, n)
          PROVE  x.note.name \in affected
      BY DEF RebuiltTip
    <3>2. r \in tables.names /\ q \in tables.names
      BY <2>2, <1>8, <3>1
    <3> QED
      BY <3>2, <1>1, <1>8 DEF TipsDistinct
  <2> QED
    BY <2>1, <2>2
<1>9. TipsDistinct(new)
  <2>1. new.names = names
    BY <1>1
  <2> HIDE DEF new, names, c
  <2>2. \A r, q \in new.names : r.note.name = q.note.name => r = q
    BY <2>1, <1>8
  <2> QED
    BY <2>2, <1>2, <1>6, <1>7, TipsOfEvents
<1> QED
  BY <1>6, <1>7, <1>9 DEF Good

-----------------------------------------------------------------------------
(* The verdicts of the law.                                                *)

\* Storing the anchor facts of a transaction of the branch.
LEMMA StoreFactsGood ==
  ASSUME NEW b \in Branch, NEW t, Good(t, b), NEW at \in Position, OnBranch(at, b),
         NEW seated \in BOOLEAN
  PROVE  /\ Good(StoreFacts(t, TxAt(at, b), at, seated), b)
         /\ StoreFacts(t, TxAt(at, b), at, seated).names = t.names
<1> DEFINE tx == TxAt(at, b)
           new == StoreFacts(t, tx, at, seated)
           marked == MarkSpent(t.facts, tx, at)
           fresh == {[nf |-> nf, at |-> at, nameNotes |-> Cardinality(Candidates(tx)),
                      claimSuccessor |-> seated, spent |-> NotSpent] :
                       nf \in KeptAdoptions(tx, seated) \ {f.nf : f \in marked}}
<1>1. t \in Tables /\ TablesOnBranch(t, b) /\ TipsDistinct(t)
  BY DEF Good
<1>2. /\ new.events = t.events /\ new.implicit = t.implicit /\ new.names = t.names
      /\ new.facts = marked \cup fresh
      /\ new = [events |-> t.events, names |-> t.names, implicit |-> t.implicit,
                facts |-> marked \cup fresh]
  BY <1>1 DEF StoreFacts, Tables
<1>3. tx \in Tx /\ tx.zero \subseteq Nf /\ tx.spends \subseteq Nf
  BY TxAtIsTx, RegistryAssumption DEF RegistryAssumption
<1>4. Cardinality(Candidates(tx)) \in Nat
  <2>1. IsFiniteSet(tx.relaxed)
    BY <1>3, RegistryAssumption DEF RegistryAssumption
  <2>2. IsFiniteSet(Candidates(tx))
    BY <2>1, FS_Subset DEF Candidates
  <2> QED
    BY <2>2, FS_CardinalityType
<1>5. ASSUME NEW f \in t.facts
      PROVE  LET g == IF f.nf \in tx.spends /\ f.spent = NotSpent
                      THEN [f EXCEPT !.spent = at] ELSE f
             IN  /\ g \in Fact
                 /\ OnBranch(g.at, b) /\ g.nf \in TxAt(g.at, b).zero
                 /\ g.spent # NotSpent => /\ OnBranch(g.spent, b)
                                          /\ g.nf \in TxAt(g.spent, b).spends
  <2>1. /\ f \in Fact /\ OnBranch(f.at, b) /\ f.nf \in TxAt(f.at, b).zero
        /\ f.spent # NotSpent => /\ OnBranch(f.spent, b)
                                 /\ f.nf \in TxAt(f.spent, b).spends
    BY <1>1 DEF Tables, TablesOnBranch
  <2> HIDE DEF tx
  <2>2. [f EXCEPT !.spent = at] \in Fact
    BY <2>1 DEF Fact
  <2>3. [f EXCEPT !.spent = at].spent = at /\ [f EXCEPT !.spent = at].nf = f.nf
        /\ [f EXCEPT !.spent = at].at = f.at
    BY <2>1 DEF Fact
  <2> QED
    BY <2>1, <2>2, <2>3 DEF tx
<1>6. ASSUME NEW g \in fresh
      PROVE  /\ g \in Fact
             /\ OnBranch(g.at, b) /\ g.nf \in TxAt(g.at, b).zero
             /\ g.spent = NotSpent
  <2>1. PICK nf \in KeptAdoptions(tx, seated) :
           g = [nf |-> nf, at |-> at, nameNotes |-> Cardinality(Candidates(tx)),
                claimSuccessor |-> seated, spent |-> NotSpent]
    OBVIOUS
  <2>2. nf \in tx.zero
    BY DEF KeptAdoptions
  <2>3. nf \in Nf
    BY <2>2, <1>3
  <2> QED
    BY <2>1, <2>2, <2>3, <1>4 DEF Fact
<1>7. \A g \in marked \cup fresh :
         /\ g \in Fact
         /\ OnBranch(g.at, b) /\ g.nf \in TxAt(g.at, b).zero
         /\ g.spent # NotSpent => /\ OnBranch(g.spent, b)
                                  /\ g.nf \in TxAt(g.spent, b).spends
  BY <1>5, <1>6 DEF MarkSpent
<1> HIDE DEF new, marked, fresh
<1>8. new \in Tables
  BY <1>1, <1>2, <1>7 DEF Tables
<1>9. TablesOnBranch(new, b)
  BY <1>1, <1>2, <1>7 DEF TablesOnBranch
<1>10. TipsDistinct(new)
  BY <1>1, <1>2 DEF TipsDistinct
<1> QED
  BY <1>2, <1>8, <1>9, <1>10 DEF Good, new

\* The row of an admission is a row, at its transaction's position.
LEMMA AdmissionIsRow ==
  ASSUME NEW b \in Branch, NEW at \in Position, OnBranch(at, b),
         HasSingleNameNote(TxAt(at, b)), TheNote(TxAt(at, b)).nf # NoNf
  PROVE  /\ AdmissionRow(TxAt(at, b), at) \in Row
         /\ AdmissionRow(TxAt(at, b), at).note = TheNote(TxAt(at, b))
         /\ AdmissionRow(TxAt(at, b), at).at = at
         /\ AdmissionRow(TxAt(at, b), at).txid = TxAt(at, b).id
<1>1. TxAt(at, b) \in Tx
  BY TxAtIsTx
<1>2. TheNote(TxAt(at, b)) \in Note /\ TheNote(TxAt(at, b)).nf \in Nf
  BY <1>1, TheNoteIsNote DEF Note
<1>3. TxAt(at, b).id \in TxId
  BY <1>1, RegistryAssumption DEF RegistryAssumption
<1> QED
  BY <1>2, <1>3 DEF AdmissionRow, Row

\* Recording an admission, and what it does to the tips.
LEMMA RecordAdmissionGood ==
  ASSUME NEW b \in Branch, NEW t, Good(t, b), NEW at \in Position, OnBranch(at, b),
         HasSingleNameNote(TxAt(at, b)), TheNote(TxAt(at, b)).nf # NoNf
  PROVE  LET row == AdmissionRow(TxAt(at, b), at)
         IN  /\ Good(RecordAdmission(t, row), b)
             /\ IsNewEvent(t, row) =>
                  RecordAdmission(t, row).names =
                    (t.names \ ReadTip(t, row.note.name)) \cup
                    (IF row.note.action = "release" THEN {} ELSE {row})
             /\ ~IsNewEvent(t, row) => RecordAdmission(t, row) = t
<1> DEFINE row == AdmissionRow(TxAt(at, b), at)
           new == RecordAdmission(t, row)
           names == {r \in t.names : r.note.name # row.note.name} \cup
                    (IF row.note.action = "release" THEN {} ELSE {row})
<1>1. t \in Tables /\ TablesOnBranch(t, b) /\ TipsDistinct(t)
  BY DEF Good
<1>2. /\ row \in Row /\ row.note = TheNote(TxAt(at, b)) /\ row.at = at
      /\ row.txid = TxAt(at, b).id
  BY AdmissionIsRow
<1>3. ~IsNewEvent(t, row) => new = t
  BY DEF RecordAdmission
<1>4. CASE IsNewEvent(t, row)
  <2> HIDE DEF row
  <2>1. new = [events |-> t.events \cup {row}, names |-> names,
               implicit |-> t.implicit, facts |-> t.facts]
    BY <1>1, <1>4 DEF RecordAdmission, Tables
  <2>2. names = (t.names \ ReadTip(t, row.note.name)) \cup
                (IF row.note.action = "release" THEN {} ELSE {row})
    BY DEF ReadTip
  <2>3. names \subseteq t.events \cup {row}
    BY <1>1 DEF TablesOnBranch
  <2>4. /\ new.events = t.events \cup {row} /\ new.names = names
        /\ new.implicit = t.implicit /\ new.facts = t.facts
    BY <2>1
  <2>5. \A r, q \in names : r.note.name = q.note.name => r = q
    BY <1>1 DEF TipsDistinct
  <2> HIDE DEF names, new
  <2>6. new \in Tables
    BY <1>1, <1>2, <2>1, <2>3 DEF Tables
  <2>7. TablesOnBranch(new, b)
    BY <1>1, <1>2, <2>3, <2>4 DEF TablesOnBranch
  <2>8. TipsDistinct(new)
    BY <2>4, <2>5, <2>6, <2>7, TipsOfEvents
  <2> QED
    BY <1>4, <2>2, <2>4, <2>6, <2>7, <2>8 DEF Good, names, new, row
<1>5. CASE ~IsNewEvent(t, row)
  <2> HIDE DEF row, new
  <2>1. new = t /\ Good(new, b)
    BY <1>3, <1>5
  <2> QED
    BY <2>1, <1>5 DEF new, row
<1> QED
  BY <1>4, <1>5

\* Ending bindings whose tips the transaction spent.
LEMMA EndBindingsGood ==
  ASSUME NEW b \in Branch, NEW t, Good(t, b), NEW at \in Position, OnBranch(at, b),
         NEW ended \in SUBSET t.names,
         \A r \in ended : r.note.nf \in TxAt(at, b).spends
  PROVE  /\ Good(EndBindings(t, ended, TxAt(at, b), at), b)
         /\ EndBindings(t, ended, TxAt(at, b), at).names = t.names \ ended
<1> DEFINE tx == TxAt(at, b)
           new == EndBindings(t, ended, tx, at)
           ends == {[name |-> r.note.name, at |-> at,
                     txid |-> tx.id, nf |-> r.note.nf] : r \in ended}
<1>1. t \in Tables /\ TablesOnBranch(t, b) /\ TipsDistinct(t)
  BY DEF Good
<1>2. /\ new.events = t.events /\ new.names = t.names \ ended
      /\ new.implicit = t.implicit \cup ends /\ new.facts = t.facts
      /\ new = [events |-> t.events, names |-> t.names \ ended,
                implicit |-> t.implicit \cup ends, facts |-> t.facts]
  <2>1. new = [t EXCEPT !.names = @ \ ended, !.implicit = @ \cup ends]
    BY DEF EndBindings
  <2> HIDE DEF new, ends
  <2> QED
    BY <1>1, <2>1 DEF Tables
<1>3. tx.id \in TxId
  BY TxAtIsTx, RegistryAssumption DEF RegistryAssumption
<1>4. ASSUME NEW i \in ends
      PROVE  /\ i \in ImplicitRow
             /\ i.at = at /\ i.txid = tx.id /\ i.nf \in tx.spends
  <2>1. PICK r \in ended : i = [name |-> r.note.name, at |-> at,
                                txid |-> tx.id, nf |-> r.note.nf]
    OBVIOUS
  <2>2. r.note \in Note /\ r.note.nf \in Nf
    BY <1>1 DEF Tables, Row
  <2>3. r.note.name \in Name
    BY <2>2 DEF Note
  <2> HIDE DEF tx
  <2> QED
    BY <1>3, <2>1, <2>2, <2>3 DEF ImplicitRow, tx
<1> HIDE DEF new, ends
<1>5. new \in Tables
  BY <1>1, <1>2, <1>4 DEF Tables
<1>6. TablesOnBranch(new, b)
  BY <1>1, <1>2, <1>4 DEF TablesOnBranch
<1>7. TipsDistinct(new)
  BY <1>1, <1>2 DEF TipsDistinct
<1> QED
  BY <1>2, <1>5, <1>6, <1>7 DEF Good, new

-----------------------------------------------------------------------------
(* The inductive invariant.                                                *)

\* The scanned transactions lie on the branch the batch ends at.
BatchOnTarget ==
  /\ IsPrefix(db.branch, target)
  /\ \A s \in batch : OnBranch(s.at, target) /\ TxAt(s.at, target) = s.tx

IInv ==
  /\ TypeOK
  /\ Good(db.tables, db.branch)
  /\ Good(durable.tables, durable.branch)
  /\ pc # "idle" => BatchOnTarget
  /\ pc = "batch" => Good(work, target) /\ live = LiveNameNullifiers(work)

\* The scanned transactions of a branch.
LEMMA TxsOfBranch ==
  ASSUME NEW b \in Branch, NEW m \in 1..Len(b), NEW n \in 1..Len(b)
  PROVE  /\ TxsOf(b, m, n) \subseteq Scanned
         /\ \A s \in TxsOf(b, m, n) :
               /\ OnBranch(s.at, SubSeq(b, 1, n))
               /\ TxAt(s.at, SubSeq(b, 1, n)) = s.tx
<1> SUFFICES ASSUME NEW s \in TxsOf(b, m, n)
             PROVE  /\ s \in Scanned
                    /\ OnBranch(s.at, SubSeq(b, 1, n))
                    /\ TxAt(s.at, SubSeq(b, 1, n)) = s.tx
  OBVIOUS
<1>1. PICK h \in m..n : \E i \in DOMAIN b[h] : s = [at |-> <<h, i>>, tx |-> b[h][i]]
  BY DEF TxsOf
<1>2. PICK i \in DOMAIN b[h] : s = [at |-> <<h, i>>, tx |-> b[h][i]]
  BY <1>1
<1>3. Len(b) \in Nat /\ h \in 1..Len(b) /\ h <= n
  BY DEF Branch
<1>4. b[h] \in Seq(Tx)
  BY <1>3, ResolverAssumption DEF Branch, ResolverAssumption
<1>5. i \in Nat /\ b[h][i] \in Tx
  BY <1>4
<1>6. <<h, i>> \in Position
  BY <1>3, <1>5 DEF Position
<1>7. OnBranch(<<h, i>>, b) /\ TxAt(<<h, i>>, b) = b[h][i]
  BY <1>3 DEF OnBranch, TxAt, Branch
<1>8. /\ OnBranch(<<h, i>>, SubSeq(b, 1, n))
      /\ TxAt(<<h, i>>, SubSeq(b, 1, n)) = b[h][i]
  BY <1>3, <1>6, <1>7, CutKeeps
<1> QED
  BY <1>2, <1>5, <1>6, <1>8 DEF Scanned

\* A verdict that leaves good tables and their live nullifiers is settled.
LEMMA SettleGood ==
  ASSUME NEW b \in Branch, NEW s \in Scanned, OnBranch(s.at, b), TxAt(s.at, b) = s.tx,
         NEW tables, Good(tables, b), NEW seated \in BOOLEAN, Settle(s, tables, seated),
         live' = LiveNameNullifiers(tables)
  PROVE  Good(work', b) /\ live' = LiveNameNullifiers(work')
<1>1. s.at \in Position
  BY DEF Scanned
<1>2. Good(StoreFacts(tables, s.tx, s.at, seated), b)
      /\ StoreFacts(tables, s.tx, s.at, seated).names = tables.names
  BY <1>1, StoreFactsGood
<1>3. work' = StoreFacts(tables, s.tx, s.at, seated)
  BY DEF Settle
<1> QED
  BY <1>2, <1>3 DEF LiveNameNullifiers

\* One name's tips have one nullifier each, and no other tip has it.
LEMMA TipNullifiers ==
  ASSUME NEW t, t \in Tables, TipsDistinct(t), NEW S \in SUBSET t.names
  PROVE  LiveNameNullifiers(t) \ NotesOf(S) = {r.note.nf : r \in t.names \ S}
  BY DEF LiveNameNullifiers, NotesOf, TipsDistinct

\* Every verdict of the law keeps the open tables good for any branch the
\* batch lies on, and the live names those of the tables.
LEMMA ApplyGood ==
  ASSUME NEW b \in Branch, Good(work, b), live = LiveNameNullifiers(work),
         NEW s \in batch, s \in Scanned, OnBranch(s.at, b), TxAt(s.at, b) = s.tx,
         ApplyTransaction(s)
  PROVE  Good(work', b) /\ live' = LiveNameNullifiers(work')
<1>1. /\ work \in Tables /\ TipsDistinct(work)
      /\ s.at \in Position /\ s.tx \in Tx
  BY DEF Good, Scanned
<1> DEFINE row == Admission(s)
           new == RecordAdmission(work, row)
<1>3. ASSUME HasSingleNameNote(s.tx), Valid(s)
      PROVE  /\ Good(new, b)
             /\ row.note = TheNote(s.tx) /\ row.note \in Note
             /\ IsNewEvent(work, row) =>
                  new.names = (work.names \ ReadTip(work, TheNote(s.tx).name)) \cup
                              (IF TheNote(s.tx).action = "release" THEN {} ELSE {row})
             /\ ~IsNewEvent(work, row) => new = work
  <2>1. TheNote(s.tx).nf # NoNf
    BY <1>3 DEF Valid, ValidSuccessor
  <2>2. row.note = TheNote(s.tx)
    BY DEF Admission, AdmissionRow
  <2>3. TheNote(s.tx) \in Note
    BY <1>1, <1>3, TheNoteIsNote
  <2> QED
    BY <1>1, <1>3, <2>1, <2>2, <2>3, RecordAdmissionGood DEF Admission
<1>4. CASE AdmitClaim(s)
  <2>1. /\ HasSingleNameNote(s.tx) /\ TheNote(s.tx).action = "claim" /\ Valid(s)
        /\ ReadTip(work, TheNote(s.tx).name) = {}
    BY <1>4 DEF AdmitClaim, Backed, ClaimBacked, IsClaim, Valid, ValidSuccessor,
                CheckChainRule
  <2>2. live' = LiveNameNullifiers(new)
    BY <1>1, <1>3, <1>4, <2>1 DEF AdmitClaim, LiveNameNullifiers
  <2> QED
    BY <1>1, <1>3, <1>4, <2>1, <2>2, SettleGood DEF AdmitClaim
<1>5. CASE DropClaim(s)
  BY <1>1, <1>5, SettleGood DEF DropClaim
<1>6. CASE AdmitTransition(s)
  <2>1. /\ HasSingleNameNote(s.tx) /\ TheNote(s.tx).action # "claim" /\ Valid(s)
    BY <1>6 DEF AdmitTransition, Consumes, PredecessorSpent, IsTransition
  <2>2. TheNote(s.tx).action = "update" \/ TheNote(s.tx).action = "release"
    BY <1>3, <2>1 DEF Note, Action
  <2>3. live' = LiveNameNullifiers(new)
    <3> DEFINE tip == ReadTip(work, TheNote(s.tx).name)
    <3>1. CASE ~IsNewEvent(work, row)
      BY <1>1, <1>3, <1>6, <2>1, <3>1 DEF AdmitTransition
    <3>2. CASE IsNewEvent(work, row)
      <4>1. tip \in SUBSET work.names
        BY DEF ReadTip
      <4>2. live \ NotesOf(tip) = {r.note.nf : r \in work.names \ tip}
        BY <1>1, <4>1, TipNullifiers
      <4>3. live' = (live \ NotesOf(tip)) \cup
                    (IF TheNote(s.tx).action = "update" THEN {TheNote(s.tx).nf} ELSE {})
        BY <1>6, <3>2 DEF AdmitTransition
      <4>4. new.names = (work.names \ tip) \cup
                        (IF TheNote(s.tx).action = "release" THEN {} ELSE {row})
        BY <1>3, <2>1, <3>2
      <4> HIDE DEF tip, new, row
      <4> QED
        BY <1>3, <2>1, <2>2, <4>2, <4>3, <4>4 DEF LiveNameNullifiers
    <3> QED
      BY <3>1, <3>2
  <2> QED
    BY <1>1, <1>3, <1>6, <2>1, <2>3, SettleGood DEF AdmitTransition
<1>7. CASE EndPredecessor(s)
  <2> DEFINE ended == ReadTip(work, TheNote(s.tx).name)
  <2>1. ended \in SUBSET work.names
    BY DEF ReadTip
  <2>2. \A r \in ended : r.note.nf \in s.tx.spends
    <3>1. \E t \in ended : t.note.nf \in s.tx.spends
      BY <1>7 DEF EndPredecessor, Consumes, PredecessorSpent
    <3>2. \A r, q \in ended : r = q
      BY <1>1 DEF ReadTip, TipsDistinct
    <3> QED
      BY <3>1, <3>2
  <2>3. /\ Good(EndBindings(work, ended, s.tx, s.at), b)
        /\ EndBindings(work, ended, s.tx, s.at).names = work.names \ ended
    BY <1>1, <2>1, <2>2, EndBindingsGood
  <2>4. live' = LiveNameNullifiers(EndBindings(work, ended, s.tx, s.at))
    BY <1>1, <1>7, <2>1, <2>3, TipNullifiers DEF EndPredecessor, LiveNameNullifiers
  <2> QED
    BY <1>1, <1>7, <2>3, <2>4, SettleGood DEF EndPredecessor
<1>8. CASE FollowSpends(s)
  <2> DEFINE ended == SpentNames(work, s.tx, live)
  <2>1. /\ ended \in SUBSET work.names
        /\ \A r \in ended : r.note.nf \in s.tx.spends
    BY DEF SpentNames
  <2>2. /\ Good(EndBindings(work, ended, s.tx, s.at), b)
        /\ EndBindings(work, ended, s.tx, s.at).names = work.names \ ended
    BY <1>1, <2>1, EndBindingsGood
  <2>3. live' = LiveNameNullifiers(EndBindings(work, ended, s.tx, s.at))
    BY <1>1, <1>8, <2>2 DEF FollowSpends, LiveNameNullifiers, SpentNames
  <2> QED
    BY <1>1, <1>8, <2>2, <2>3, SettleGood DEF FollowSpends
<1> QED
  BY <1>4, <1>5, <1>6, <1>7, <1>8 DEF ApplyTransaction

\* What every verdict leaves alone.
LEMMA ApplyFrame ==
  ASSUME NEW s \in batch, ApplyTransaction(s)
  PROVE  /\ pc = "batch" /\ IsNext(s) /\ batch' = batch \ {s}
         /\ UNCHANGED <<chain, db, durable, pc, target, fails>>
  BY DEF ApplyTransaction, AdmitClaim, DropClaim, AdmitTransition, EndPredecessor,
         FollowSpends, Settle

\* Every verdict of the law preserves the invariant.
LEMMA ApplyPreserves ==
  ASSUME IInv, NEW s \in batch, ApplyTransaction(s)
  PROVE  IInv'
<1>1. /\ pc = "batch" /\ batch' = batch \ {s}
      /\ UNCHANGED <<chain, db, durable, pc, target, fails>>
  BY ApplyFrame
<1>2. /\ Good(work, target) /\ live = LiveNameNullifiers(work) /\ target \in Branch
      /\ s \in Scanned /\ OnBranch(s.at, target) /\ TxAt(s.at, target) = s.tx
  BY <1>1 DEF IInv, TypeOK, BatchOnTarget
<1>3. Good(work', target) /\ live' = LiveNameNullifiers(work')
  BY <1>2, ApplyGood
<1>4. work' \in Tables /\ live' \subseteq Nf
  <2>1. work' \in Tables
    BY <1>3 DEF Good
  <2> QED
    BY <1>3, <2>1 DEF LiveNameNullifiers, Tables, Row
<1>5. TypeOK'
  BY <1>1, <1>4 DEF IInv, TypeOK
<1>6. BatchOnTarget'
  BY <1>1 DEF IInv, BatchOnTarget
<1>7. live' = LiveNameNullifiers(work)'
  BY <1>3 DEF LiveNameNullifiers
<1> QED
  BY <1>1, <1>3, <1>5, <1>6, <1>7 DEF IInv

-----------------------------------------------------------------------------
\* The invariant holds initially.
LEMMA InitInv == Init => IInv
<1> SUFFICES ASSUME Init PROVE IInv
  OBVIOUS
<1>1. EmptyTables \in Tables /\ << >> \in Branch
  BY EmptyIsGood DEF Good
<1> QED
  BY <1>1, EmptyIsGood, ResolverAssumption
     DEF Init, IInv, TypeOK, Quiet, NewDatabase, Database, ResolverAssumption

\* Every step preserves the invariant.
LEMMA NextInv == IInv /\ [Next]_vars => IInv'
<1> SUFFICES ASSUME IInv, [Next]_vars PROVE IInv'
  OBVIOUS
<1>1. EmptyTables \in Tables /\ << >> \in Branch
  BY EmptyIsGood DEF Good
<1>2. /\ chain \in Branch /\ db \in Database /\ db.branch \in Branch
      /\ Len(chain) \in Nat /\ Len(db.branch) \in Nat
  BY DEF IInv, TypeOK, Database, Branch
<1>3. ASSUME chain' \in Branch, UNCHANGED <<db, durable, pc, local, fails>>
      PROVE  IInv'
  BY <1>3 DEF IInv, TypeOK, BatchOnTarget, local
<1>4. ASSUME NEW b \in Block, Mine(b)
      PROVE  IInv'
  <2>1. chain' \in Branch
    BY <1>2, <1>4 DEF Mine, Branch
  <2> QED
    BY <1>3, <1>4, <2>1 DEF Mine
<1>5. ASSUME NEW k \in 0..(Len(chain) - 1), Reorg(k)
      PROVE  IInv'
  <2>1. chain' \in Branch
    BY <1>2, <1>5, CutIsBranch DEF Reorg
  <2> QED
    BY <1>3, <1>5, <2>1 DEF Reorg
<1>6. ASSUME NEW from \in 1..Len(chain), NEW to \in 1..Len(chain), Scan(from, to)
      PROVE  IInv'
  <2>1. target' \in Branch /\ IsPrefix(db.branch, target')
    <3>1. target' = SubSeq(chain, 1, to) /\ to > Len(db.branch) /\ OnBestChain
      BY <1>6 DEF Scan
    <3>2. target' \in Branch /\ Len(target') = to
      BY <1>2, <3>1, CutIsBranch
    <3>3. SubSeq(target', 1, Len(db.branch)) = SubSeq(chain, 1, Len(db.branch))
      BY <1>2, <3>1 DEF Branch
    <3> QED
      BY <1>2, <3>1, <3>2, <3>3 DEF OnBestChain, IsPrefix
  <2>2. /\ batch' \subseteq Scanned
        /\ \A s \in batch' : OnBranch(s.at, target') /\ TxAt(s.at, target') = s.tx
    BY <1>2, <1>6, TxsOfBranch DEF Scan
  <2>3. BatchOnTarget'
    BY <1>6, <2>1, <2>2 DEF Scan, BatchOnTarget
  <2> QED
    BY <1>6, <2>1, <2>2, <2>3 DEF Scan, IInv, TypeOK
<1>7. ASSUME NEW k \in 0..Len(chain), RewindTo(k)
      PROVE  IInv'
  <2> DEFINE new == [tables |-> Rewound(db.tables, k), branch |-> SubSeq(db.branch, 1, k)]
  <2>1. k \in 0..Len(db.branch)
    BY <1>2, <1>7 DEF RewindTo
  <2>2. Good(new.tables, new.branch)
    BY <1>2, <2>1, RewoundGood DEF IInv
  <2>3. new \in Database
    BY <1>2, <2>1, <2>2, CutIsBranch DEF Database, Good
  <2>4. db' = new /\ durable' \in {durable, new}
    BY <1>7 DEF RewindTo, Persist
  <2> HIDE DEF new
  <2> QED
    BY <1>7, <2>2, <2>3, <2>4 DEF RewindTo, IInv, TypeOK, local
<1>8. CASE TakeSnapshot
  BY <1>8 DEF TakeSnapshot, IInv, TypeOK, BatchOnTarget
<1>9. CASE BeginBatch
  <2>1. Good(db.tables, target)
    BY <1>2, <1>9, GrowGood DEF BeginBatch, IInv, TypeOK, BatchOnTarget
  <2>2. LiveNameNullifiers(db.tables) \subseteq Nf /\ db.tables \in Tables
    BY <1>2 DEF Database, LiveNameNullifiers, Tables, Row
  <2> QED
    BY <1>9, <2>1, <2>2 DEF BeginBatch, IInv, TypeOK, BatchOnTarget, LiveNameNullifiers
<1>10. ASSUME NEW s \in batch, ApplyTransaction(s)
       PROVE  IInv'
  BY <1>10, ApplyPreserves
<1>11. CASE CommitBatch
  <2> DEFINE new == [tables |-> work, branch |-> target]
  <2>1. Good(new.tables, new.branch) /\ new \in Database
    BY <1>11 DEF CommitBatch, IInv, TypeOK, Database
  <2>2. db' = new /\ durable' \in {durable, new}
    BY <1>11 DEF CommitBatch, Persist
  <2> HIDE DEF new
  <2> QED
    BY <1>1, <1>11, <2>1, <2>2 DEF CommitBatch, Rest, IInv, TypeOK
<1>12. CASE Abandon
  <2>1. fails' \in 0..MaxFails
    BY <1>12, ResolverAssumption DEF Abandon, IInv, TypeOK, ResolverAssumption
  <2> QED
    BY <1>1, <1>12, <2>1 DEF Abandon, Rest, IInv, TypeOK
<1>13. CASE PowerLoss
  <2>1. fails' \in 0..MaxFails
    BY <1>13, ResolverAssumption DEF PowerLoss, IInv, TypeOK, ResolverAssumption
  <2> QED
    BY <1>1, <1>13, <2>1 DEF PowerLoss, Rest, IInv, TypeOK
<1>14. CASE UNCHANGED vars
  BY <1>14 DEF vars, IInv, TypeOK, BatchOnTarget
<1> QED
  BY <1>4, <1>5, <1>6, <1>7, <1>8, <1>9, <1>10, <1>11, <1>12, <1>13, <1>14
     DEF Next, Network, Indexer, Scanner

\* The inductive invariant of the indexer.
LEMMA Invariance == Spec => []IInv
  BY InitInv, NextInv, PTL DEF Spec

-----------------------------------------------------------------------------
(* Theorems.                                                               *)

\* Every variable keeps its type: in particular no step leaves a stored
\* record without a nullifier, and the live names are nullifiers.
THEOREM TypeCorrect == Spec => []TypeOK
<1>1. IInv => TypeOK
  BY DEF IInv
<1> QED
  BY <1>1, Invariance, PTL

\* Whatever is reorganised, replayed, abandoned or lost with the power, the
\* database holds records of its checkpoint's branch only (rewind and
\* apply_batch move rows and checkpoint in one SQL transaction).
THEOREM NoOrphanRecords == Spec => []RecordsOnBranch
<1>1. IInv => RecordsOnBranch
  BY DEF IInv, RecordsOnBranch, Good
<1> QED
  BY <1>1, Invariance, PTL

\* The in-memory live names are the nullifiers of the names table at every
\* transaction of a batch: mark_released_spent never fails on the set not
\* matching the table.
THEOREM LiveNamesAgree == Spec => []LiveNamesMatch
<1>1. IInv => LiveNamesMatch
  BY DEF IInv, LiveNamesMatch, Good
<1> QED
  BY <1>1, Invariance, PTL

-----------------------------------------------------------------------------
(* Sets.                                                                   *)

\* A nonempty family of finite sets has a member that includes no other.
LEMMA SmallestSet ==
  ASSUME NEW F, F # {}, \A X \in F : IsFiniteSet(X)
  PROVE  \E X \in F : \A Y \in F : Y \subseteq X => Y = X
<1> DEFINE S == UNION F
           R == StrictSubsetOrdering(S)
           U == FiniteSubsetsOf(S)
<1>1. IsWellFoundedOn(R, U) /\ F \subseteq U
  BY FS_StrictSubsetOrderingWellFounded DEF FiniteSubsetsOf
<1> HIDE DEF S, R, U
<1>2. PICK X \in F : \A Y \in F : ~(<<Y, X>> \in R)
  BY <1>1, WFMin
<1>3. ASSUME NEW Y \in F, Y \subseteq X, Y # X PROVE FALSE
  BY <1>2, <1>3 DEF S, R, StrictSubsetOrdering
<1> QED
  BY <1>2, <1>3

\* The image of a finite set is finite.
LEMMA FiniteImage ==
  ASSUME NEW S, NEW T, NEW f \in [S -> T], IsFiniteSet(S), \A t \in T : \E s \in S : f[s] = t
  PROVE  IsFiniteSet(T)
<1>1. f \in Surjection(S, T)
  BY DEF Surjection
<1> QED
  BY <1>1, FS_Surjection

-----------------------------------------------------------------------------
(* Positions are totally ordered.                                          *)

\* No position is before itself.
LEMMA BeforeIrreflexive ==
  ASSUME NEW p \in Position
  PROVE  ~Before(p, p)
  BY DEF Before, Position

\* A position before another is before what that is before.
LEMMA BeforeTransitive ==
  ASSUME NEW p \in Position, NEW q \in Position, NEW r \in Position,
         Before(p, q), Before(q, r)
  PROVE  Before(p, r)
  BY DEF Before, Position

\* Of two positions one is before the other.
LEMMA BeforeTotal ==
  ASSUME NEW p \in Position, NEW q \in Position
  PROVE  Before(p, q) \/ p = q \/ Before(q, p)
  BY DEF Before, Position

\* No two positions are before each other.
LEMMA BeforeAsymmetric ==
  ASSUME NEW p \in Position, NEW q \in Position, Before(p, q)
  PROVE  ~Before(q, p) /\ p # q
  BY DEF Before, Position

\* No position is before the position of what was never spent.
LEMMA NothingBeforeNotSpent ==
  NotSpent \notin Position /\ \A p \in Position : ~Before(p, NotSpent)
  BY DEF Before, Position, NotSpent

\* A finite set of positions has a first and a last one.
LEMMA FirstExists ==
  ASSUME NEW P \in SUBSET Position, IsFiniteSet(P), P # {}
  PROVE  \E p \in P : \A q \in P : ~Before(q, p)
<1> DEFINE F == {{q \in P : Before(q, p)} : p \in P}
<1>1. F # {}
  OBVIOUS
<1>2. \A X \in F : IsFiniteSet(X)
  BY FS_Subset
<1> HIDE DEF F
<1>3. PICK X \in F : \A Y \in F : Y \subseteq X => Y = X
  BY <1>1, <1>2, SmallestSet
<1>4. PICK p \in P : X = {q \in P : Before(q, p)}
  BY DEF F
<1>5. ASSUME NEW q \in P, Before(q, p) PROVE FALSE
  <2> DEFINE Y == {r \in P : Before(r, q)}
  <2>1. Y \subseteq X
    BY <1>4, <1>5, BeforeTransitive
  <2>2. Y \in F
    BY DEF F
  <2>3. q \in Y
    BY <1>3, <1>4, <1>5, <2>1, <2>2
  <2> QED
    BY <2>3, BeforeIrreflexive
<1> QED
  BY <1>5

\* Finitely many positions have a last one.
LEMMA LatestExists ==
  ASSUME NEW P \in SUBSET Position, IsFiniteSet(P), P # {}
  PROVE  Latest(P) \in P /\ \A q \in P : ~Before(Latest(P), q)
<1> DEFINE F == {{q \in P : Before(p, q)} : p \in P}
<1>1. F # {}
  OBVIOUS
<1>2. \A X \in F : IsFiniteSet(X)
  BY FS_Subset
<1> HIDE DEF F
<1>3. PICK X \in F : \A Y \in F : Y \subseteq X => Y = X
  BY <1>1, <1>2, SmallestSet
<1>4. PICK p \in P : X = {q \in P : Before(p, q)}
  BY DEF F
<1>5. ASSUME NEW q \in P, Before(p, q) PROVE FALSE
  <2> DEFINE Y == {r \in P : Before(q, r)}
  <2>1. Y \subseteq X
    BY <1>4, <1>5, BeforeTransitive
  <2>2. Y \in F
    BY DEF F
  <2>3. q \in Y
    BY <1>3, <1>4, <1>5, <2>1, <2>2
  <2> QED
    BY <2>3, BeforeIrreflexive
<1> QED
  BY <1>5 DEF Latest

-----------------------------------------------------------------------------
(* The closed form of the fold.                                            *)

\* The facts of transactions of the ceremony's shape, and of the first one.
Ceremonies(facts) == {f \in facts : ~f.claimSuccessor}

Founding(facts) ==
  {f \in Ceremonies(facts) : \A g \in Ceremonies(facts) : ~Before(g.at, f.at)}

\* The facts that confer authority until they are spent.
Confers(facts) == {f \in facts : f.claimSuccessor} \cup Founding(facts)

Standing(facts) ==
  [live        |-> {f.nf : f \in {g \in Confers(facts) : g.spent = NotSpent}},
   established |-> IF facts = {} THEN NoHeight
                   ELSE (CHOOSE f \in Founding(facts) : TRUE).at[1]]

\* What the store keeps true of its facts: a note has one; the facts of one
\* transaction are of one kind; a successor is the only fact of its
\* transaction, which carries a name note and spends exactly one note that
\* confers, after a ceremony; a ceremony has the pool's size and no name note.
Successor(facts, f) ==
  /\ f.nameNotes # 0
  /\ \A g \in facts : g.at = f.at => g = f
  /\ \E g \in Ceremonies(facts) : Before(g.at, f.at)
  /\ \E g \in Confers(facts) :
       g.spent = f.at /\ \A h \in Confers(facts) : h.spent = f.at => h = g

CeremonyNote(facts, f) ==
  /\ f.nameNotes = 0
  /\ \A g \in facts : g.at = f.at => ~g.claimSuccessor /\ g.nameNotes = 0
  /\ Cardinality({g.nf : g \in {h \in facts : h.at = f.at}}) = PoolSize

WellFormed(facts) ==
  /\ facts \in SUBSET Fact /\ IsFiniteSet(facts)
  /\ \A f, g \in facts : f.nf = g.nf => f = g
  /\ \A f \in facts : f.spent # NotSpent => Before(f.at, f.spent)
  /\ \A f \in facts : IF f.claimSuccessor THEN Successor(facts, f) ELSE CeremonyNote(facts, f)

\* The facts as the positions K left them.
CutFact(f, K) == [f EXCEPT !.spent = IF @ \in K THEN @ ELSE NotSpent]

AsOf(facts, K) == {CutFact(f, K) : f \in {g \in facts : g.at \in K}}

\* K has every position of a fact that is before one of its members.
Closed(facts, K) ==
  /\ K \subseteq Position
  /\ \A q \in PositionsOf(facts), r \in K : Before(q, r) => q \in K

-----------------------------------------------------------------------------
(* Facts as of some positions.                                             *)

\* A fact whose spend is forgotten is a fact, with the same note.
LEMMA CutFactType ==
  ASSUME NEW f \in Fact, NEW K \in SUBSET Position
  PROVE  LET g == CutFact(f, K)
         IN  /\ g \in Fact
             /\ g.nf = f.nf /\ g.at = f.at
             /\ g.nameNotes = f.nameNotes /\ g.claimSuccessor = f.claimSuccessor
             /\ g.spent = (IF f.spent \in K THEN f.spent ELSE NotSpent)
  BY DEF CutFact, Fact

\* The position of a fact, and of its spend, is a position of the facts.
LEMMA FactPositions ==
  ASSUME NEW facts \in SUBSET Fact, NEW f \in facts
  PROVE  /\ f.at \in Position /\ f.at \in PositionsOf(facts)
         /\ f.spent # NotSpent => f.spent \in Position /\ f.spent \in PositionsOf(facts)
  BY DEF Fact, PositionsOf

\* Finitely many facts were recorded at finitely many positions.
LEMMA PositionsAreFinite ==
  ASSUME NEW facts \in SUBSET Fact, IsFiniteSet(facts)
  PROVE  IsFiniteSet(PositionsOf(facts)) /\ PositionsOf(facts) \in SUBSET Position
<1> DEFINE A == {f.at : f \in facts}
           B == {f.spent : f \in facts}
<1>1. IsFiniteSet(A)
  <2> DEFINE g == [f \in facts |-> f.at]
  <2>1. g \in [facts -> A] /\ \A t \in A : \E f \in facts : g[f] = t
    OBVIOUS
  <2> HIDE DEF g, A
  <2> QED
    BY <2>1, FiniteImage
<1>2. IsFiniteSet(B)
  <2> DEFINE g == [f \in facts |-> f.spent]
  <2>1. g \in [facts -> B] /\ \A t \in B : \E f \in facts : g[f] = t
    OBVIOUS
  <2> HIDE DEF g, B
  <2> QED
    BY <2>1, FiniteImage
<1>3. IsFiniteSet(B \ {NotSpent})
  BY <1>2, FS_Difference
<1>4. IsFiniteSet(PositionsOf(facts))
  BY <1>1, <1>3, FS_Union DEF PositionsOf
<1>5. PositionsOf(facts) \in SUBSET Position
  BY FactPositions DEF PositionsOf, Fact
<1> QED
  BY <1>4, <1>5

\* The facts as of some positions are facts, with the spends of those positions.
LEMMA AsOfType ==
  ASSUME NEW facts \in SUBSET Fact, IsFiniteSet(facts), NEW K \in SUBSET Position
  PROVE  AsOf(facts, K) \in SUBSET Fact /\ IsFiniteSet(AsOf(facts, K))
<1> DEFINE S == {g \in facts : g.at \in K}
           c == [f \in S |-> CutFact(f, K)]
<1>1. IsFiniteSet(S)
  BY FS_Subset
<1>2. c \in [S -> AsOf(facts, K)] /\ \A g \in AsOf(facts, K) : \E f \in S : c[f] = g
  BY DEF AsOf
<1>3. IsFiniteSet(AsOf(facts, K))
  <2> HIDE DEF S, c
  <2> QED
    BY <1>1, <1>2, FiniteImage
<1>4. AsOf(facts, K) \in SUBSET Fact
  BY CutFactType DEF AsOf
<1> QED
  BY <1>3, <1>4

\* Whether a note confers authority does not change with later positions.
LEMMA ConfersAsOf ==
  ASSUME NEW facts \in SUBSET Fact, NEW K, Closed(facts, K),
         NEW f \in facts, f.at \in K
  PROVE  /\ CutFact(f, K) \in AsOf(facts, K)
         /\ CutFact(f, K) \in Founding(AsOf(facts, K)) <=> f \in Founding(facts)
         /\ CutFact(f, K) \in Confers(AsOf(facts, K)) <=> f \in Confers(facts)
<1> DEFINE old == AsOf(facts, K)
           c == CutFact(f, K)
<1>1. K \in SUBSET Position
  BY DEF Closed
<1>2. \A g \in facts : LET h == CutFact(g, K)
                       IN  h.at = g.at /\ h.claimSuccessor = g.claimSuccessor
  BY <1>1, CutFactType
<1>3. c \in old
  BY DEF AsOf
<1>4. ASSUME f \in Founding(facts) PROVE c \in Founding(old)
  <2>1. ASSUME NEW h \in Ceremonies(old) PROVE ~Before(h.at, c.at)
    <3>1. PICK g \in facts : h = CutFact(g, K)
      BY DEF Ceremonies, AsOf
    <3>2. g \in Ceremonies(facts) /\ h.at = g.at
      BY <1>2, <3>1 DEF Ceremonies
    <3> QED
      BY <1>2, <1>4, <3>2 DEF Founding
  <2> QED
    BY <1>2, <1>3, <1>4, <2>1 DEF Founding, Ceremonies
<1>5. ASSUME c \in Founding(old) PROVE f \in Founding(facts)
  <2>1. ASSUME NEW g \in Ceremonies(facts), Before(g.at, f.at) PROVE FALSE
    <3>1. g \in facts /\ g.at \in PositionsOf(facts)
      BY FactPositions DEF Ceremonies
    <3>2. g.at \in K
      BY <2>1, <3>1 DEF Closed
    <3>3. CutFact(g, K) \in Ceremonies(old) /\ CutFact(g, K).at = g.at
      BY <1>2, <2>1, <3>1, <3>2 DEF Ceremonies, AsOf
    <3> QED
      BY <1>2, <1>5, <2>1, <3>3 DEF Founding
  <2> QED
    BY <1>2, <1>5, <2>1 DEF Founding, Ceremonies
<1>6. c \in Confers(old) <=> f \in Confers(facts)
  BY <1>2, <1>3, <1>4, <1>5 DEF Confers
<1> QED
  BY <1>3, <1>4, <1>5, <1>6

\* Every fact as of K is a fact, cut.
LEMMA AsOfMember ==
  ASSUME NEW facts, NEW K, NEW g \in AsOf(facts, K)
  PROVE  \E f \in facts : f.at \in K /\ g = CutFact(f, K)
  BY DEF AsOf

\* What the store keeps true of its facts was true as of any earlier position.
LEMMA AsOfWellFormed ==
  ASSUME NEW facts, WellFormed(facts), NEW K, Closed(facts, K)
  PROVE  WellFormed(AsOf(facts, K))
<1> DEFINE old == AsOf(facts, K)
           c(f) == CutFact(f, K)
<1>1. facts \in SUBSET Fact /\ IsFiniteSet(facts) /\ K \in SUBSET Position
  BY DEF WellFormed, Closed
<1>2. ASSUME NEW f \in facts
      PROVE  LET g == CutFact(f, K)
             IN  /\ g \in Fact /\ g.nf = f.nf /\ g.at = f.at
                 /\ g.nameNotes = f.nameNotes /\ g.claimSuccessor = f.claimSuccessor
                 /\ g.spent = (IF f.spent \in K THEN f.spent ELSE NotSpent)
  BY <1>1, CutFactType
<1>3. old \in SUBSET Fact /\ IsFiniteSet(old)
  BY <1>1, AsOfType
<1>4. ASSUME NEW g \in old, NEW h \in old, g.nf = h.nf PROVE g = h
  <2>1. PICK f \in facts : g = CutFact(f, K)
    BY AsOfMember
  <2>2. PICK e \in facts : h = CutFact(e, K)
    BY AsOfMember
  <2>3. f = e
    BY <1>2, <1>4, <2>1, <2>2 DEF WellFormed
  <2> QED
    BY <2>1, <2>2, <2>3
<1>5. ASSUME NEW g \in old, g.spent # NotSpent PROVE Before(g.at, g.spent)
  <2>1. PICK f \in facts : g = CutFact(f, K)
    BY AsOfMember
  <2> QED
    BY <1>2, <1>5, <2>1 DEF WellFormed
<1>6. ASSUME NEW g \in old, g.claimSuccessor PROVE Successor(old, g)
  <2>1. PICK f \in facts : f.at \in K /\ g = CutFact(f, K)
    BY AsOfMember
  <2>2. f.claimSuccessor /\ f.nameNotes = g.nameNotes /\ f.at = g.at
    BY <1>2, <1>6, <2>1
  <2>3. Successor(facts, f)
    BY <2>2 DEF WellFormed
  <2>4. ASSUME NEW h \in old, h.at = g.at PROVE h = g
    <3>1. PICK e \in facts : e.at \in K /\ h = CutFact(e, K)
      BY AsOfMember
    <3>2. e = f
      BY <1>2, <2>2, <2>3, <2>4, <3>1 DEF Successor
    <3> QED
      BY <2>1, <3>1, <3>2
  <2>5. \E h \in Ceremonies(old) : Before(h.at, g.at)
    <3>1. PICK e \in Ceremonies(facts) : Before(e.at, f.at)
      BY <2>3 DEF Successor
    <3>2. e \in facts /\ e.at \in PositionsOf(facts)
      BY <1>1, FactPositions DEF Ceremonies
    <3>3. e.at \in K
      BY <2>1, <3>1, <3>2 DEF Closed
    <3>4. CutFact(e, K) \in Ceremonies(old) /\ CutFact(e, K).at = e.at
      BY <1>2, <3>1, <3>2, <3>3 DEF Ceremonies, AsOf
    <3> QED
      BY <2>2, <3>1, <3>4
  <2>6. \E h \in Confers(old) :
           h.spent = g.at /\ \A x \in Confers(old) : x.spent = g.at => x = h
    <3>1. PICK e \in Confers(facts) :
             e.spent = f.at /\ \A x \in Confers(facts) : x.spent = f.at => x = e
      BY <2>3 DEF Successor
    <3>2. e \in facts /\ e.spent # NotSpent /\ Before(e.at, e.spent)
      <4>1. e \in facts
        BY <3>1 DEF Confers, Founding, Ceremonies
      <4>2. f.at \in Position
        BY <1>1, FactPositions
      <4> QED
        BY <3>1, <4>1, <4>2, NothingBeforeNotSpent DEF WellFormed
    <3>3. e.at \in K
      BY <1>1, <2>1, <3>1, <3>2, FactPositions DEF Closed
    <3>4. CutFact(e, K) \in Confers(old) /\ CutFact(e, K).spent = g.at
      BY <1>1, <1>2, <2>1, <2>2, <3>1, <3>2, <3>3, ConfersAsOf
    <3>5. ASSUME NEW x \in Confers(old), x.spent = g.at PROVE x = CutFact(e, K)
      <4>1. x \in old
        BY DEF Confers, Founding, Ceremonies
      <4>2. PICK y \in facts : y.at \in K /\ x = CutFact(y, K)
        BY <4>1, AsOfMember
      <4>3. y \in Confers(facts)
        BY <1>1, <4>2, ConfersAsOf
      <4>4. f.at \in Position
        BY <1>1, FactPositions
      <4>5. y.spent = f.at
        BY <1>2, <2>2, <3>5, <4>2, <4>4, NothingBeforeNotSpent
      <4> QED
        BY <3>1, <4>2, <4>3, <4>5
    <3> QED
      BY <3>4, <3>5
  <2> QED
    BY <2>2, <2>3, <2>4, <2>5, <2>6 DEF Successor
<1>7. ASSUME NEW g \in old, ~g.claimSuccessor PROVE CeremonyNote(old, g)
  <2>1. PICK f \in facts : f.at \in K /\ g = CutFact(f, K)
    BY AsOfMember
  <2>2. ~f.claimSuccessor /\ f.nameNotes = g.nameNotes /\ f.at = g.at
    BY <1>2, <1>7, <2>1
  <2>3. CeremonyNote(facts, f)
    BY <2>2 DEF WellFormed
  <2>4. ASSUME NEW h \in old, h.at = g.at PROVE ~h.claimSuccessor /\ h.nameNotes = 0
    <3>1. PICK e \in facts : e.at \in K /\ h = CutFact(e, K)
      BY AsOfMember
    <3> QED
      BY <1>2, <2>2, <2>3, <2>4, <3>1 DEF CeremonyNote
  <2>5. {x.nf : x \in {h \in old : h.at = g.at}} = {x.nf : x \in {h \in facts : h.at = f.at}}
    <3>1. ASSUME NEW h \in old, h.at = g.at
          PROVE  \E e \in facts : e.at = f.at /\ e.nf = h.nf
      <4>1. PICK e \in facts : e.at \in K /\ h = CutFact(e, K)
        BY AsOfMember
      <4> QED
        BY <1>2, <2>2, <3>1, <4>1
    <3>2. ASSUME NEW e \in facts, e.at = f.at
          PROVE  \E h \in old : h.at = g.at /\ h.nf = e.nf
      <4>1. CutFact(e, K) \in old
        BY <2>1, <3>2 DEF AsOf
      <4> QED
        BY <1>2, <2>2, <3>2, <4>1
    <3> QED
      BY <3>1, <3>2
  <2> QED
    BY <2>2, <2>3, <2>4, <2>5 DEF CeremonyNote
<1> QED
  BY <1>3, <1>4, <1>5, <1>6, <1>7 DEF WellFormed

\* Cutting twice is cutting once.
LEMMA AsOfTwice ==
  ASSUME NEW facts \in SUBSET Fact, NEW K \in SUBSET Position, NEW J \in SUBSET K
  PROVE  AsOf(AsOf(facts, K), J) = AsOf(facts, J)
<1>1. ASSUME NEW f \in facts
      PROVE  CutFact(CutFact(f, K), J) = CutFact(f, J) /\ CutFact(f, K).at = f.at
  <2>1. f \in Fact /\ NotSpent \notin J
    BY NothingBeforeNotSpent
  <2> QED
    BY <2>1 DEF CutFact, Fact
<1>2. ASSUME NEW g \in AsOf(AsOf(facts, K), J) PROVE g \in AsOf(facts, J)
  <2>1. PICK h \in AsOf(facts, K) : h.at \in J /\ g = CutFact(h, J)
    BY AsOfMember
  <2>2. PICK f \in facts : f.at \in K /\ h = CutFact(f, K)
    BY AsOfMember
  <2> QED
    BY <1>1, <2>1, <2>2 DEF AsOf
<1>3. ASSUME NEW g \in AsOf(facts, J) PROVE g \in AsOf(AsOf(facts, K), J)
  <2>1. PICK f \in facts : f.at \in J /\ g = CutFact(f, J)
    BY AsOfMember
  <2>2. CutFact(f, K) \in AsOf(facts, K)
    BY <2>1 DEF AsOf
  <2> QED
    BY <1>1, <2>1, <2>2 DEF AsOf
<1> QED
  BY <1>2, <1>3

\* Positions that are all kept change nothing.
LEMMA AsOfAll ==
  ASSUME NEW facts \in SUBSET Fact, NEW K \in SUBSET Position, PositionsOf(facts) \subseteq K
  PROVE  AsOf(facts, K) = facts
<1>1. ASSUME NEW f \in facts PROVE CutFact(f, K) = f /\ f.at \in K
  <2>1. f \in Fact /\ f.at \in K /\ (f.spent # NotSpent => f.spent \in K)
    BY FactPositions
  <2> QED
    BY <2>1 DEF CutFact, Fact
<1> QED
  BY <1>1 DEF AsOf

-----------------------------------------------------------------------------
(* What step_tx does.                                                      *)

\* Without a seat and without a first ceremony, notes only retire.
LEMMA StepRetires ==
  ASSUME NEW l \in Lineage, NEW h, NEW A, A.claimSuccessor = FALSE,
         AdoptionClosed(l) \/ ~IsCeremonyFill(Cardinality(A.adoptions), A.nameNotes)
  PROVE  StepTx(l, h, A) = [live        |-> l.live \ A.retirements,
                            established |-> l.established]
<1> DEFINE filled == IF IsCeremonyFill(Cardinality(A.adoptions), A.nameNotes)
                     THEN AdoptAll(l, h, A.adoptions) ELSE l
<1>1. filled = l
  BY DEF AdoptAll
<1>2. StepTx(l, h, A) =
        [filled EXCEPT !.live = (filled.live \ A.retirements) \cup {}]
  BY DEF StepTx
<1> HIDE DEF filled
<1> QED
  BY <1>1, <1>2 DEF Lineage

\* A seat gives its note the place of the one that retires.
LEMMA StepSeats ==
  ASSUME NEW l \in Lineage, NEW h, NEW A, A.claimSuccessor = TRUE,
         A.nameNotes # 0, Cardinality(A.adoptions) = 1,
         Cardinality(l.live \cap A.retirements) = 1
  PROVE  StepTx(l, h, A) = [live        |-> (l.live \ A.retirements) \cup A.adoptions,
                            established |-> l.established]
<1> DEFINE filled == IF IsCeremonyFill(Cardinality(A.adoptions), A.nameNotes)
                     THEN AdoptAll(l, h, A.adoptions) ELSE l
<1>1. filled = l
  BY DEF IsCeremonyFill
<1>2. StepTx(l, h, A) =
        [filled EXCEPT !.live = (filled.live \ A.retirements) \cup
            (IF Cardinality(filled.live \cap A.retirements) = 1 THEN A.adoptions ELSE {})]
  BY DEF StepTx
<1> HIDE DEF filled
<1> QED
  BY <1>1, <1>2 DEF Lineage

\* The first ceremony opens an empty lineage with the whole pool and closes it.
LEMMA StepFounds ==
  ASSUME NEW h, NEW A, A.claimSuccessor = FALSE, A.nameNotes = 0,
         A.adoptions \subseteq Nf, Cardinality(A.adoptions) = PoolSize,
         A.adoptions \cap A.retirements = {}
  PROVE  StepTx(EmptyLineage, h, A) = [live |-> A.adoptions, established |-> h]
<1>1. /\ Cardinality({}) = 0 /\ PoolSize \in Nat /\ PoolSize # 0
      /\ A.adoptions # {}
  BY FS_EmptySet, PoolSizeAssumption DEF PoolSizeAssumption
<1>2. AdoptAll(EmptyLineage, h, A.adoptions) = [live |-> A.adoptions, established |-> h]
  <2> DEFINE l == EmptyLineage
  <2>1. l.live = {} /\ l.established = NoHeight /\ ~AdoptionClosed(l)
    BY DEF EmptyLineage, AdoptionClosed
  <2>2. /\ A.adoptions \ l.live = A.adoptions
        /\ PoolSize - Cardinality(l.live) = PoolSize
        /\ l.live \cup A.adoptions = A.adoptions
    BY <1>1, <2>1
  <2>3. ~(Cardinality(l.live) >= PoolSize)
    BY <1>1, <2>1
  <2>4. PoolSize <= PoolSize
    BY <1>1
  <2> HIDE DEF l
  <2> QED
    BY <1>1, <2>1, <2>2, <2>3, <2>4 DEF AdoptAll, l
<1>3. IsCeremonyFill(Cardinality(A.adoptions), A.nameNotes)
  BY DEF IsCeremonyFill
<1> DEFINE filled == [live |-> A.adoptions, established |-> h]
<1>4. StepTx(EmptyLineage, h, A) =
        [filled EXCEPT !.live = (filled.live \ A.retirements) \cup {}]
  BY <1>2, <1>3 DEF StepTx
<1> QED
  BY <1>4

-----------------------------------------------------------------------------
(* The closed form is what the steps compute.                              *)

\* Facts have a founding ceremony, at one position.
LEMMA FoundingExists ==
  ASSUME NEW facts, WellFormed(facts)
  PROVE  /\ facts # {} => Founding(facts) # {}
         /\ \A f, g \in Founding(facts) : f.at = g.at
<1>1. facts \in SUBSET Fact /\ IsFiniteSet(facts) /\ Ceremonies(facts) \subseteq facts
  BY DEF WellFormed, Ceremonies
<1>2. ASSUME facts # {} PROVE Founding(facts) # {}
  <2> DEFINE P == {f.at : f \in Ceremonies(facts)}
  <2>1. P \in SUBSET Position /\ P \subseteq PositionsOf(facts)
    BY <1>1, FactPositions
  <2>2. IsFiniteSet(P)
    BY <1>1, <2>1, PositionsAreFinite, FS_Subset
  <2>3. P # {}
    <3>1. PICK f \in facts : TRUE
      BY <1>2
    <3>2. CASE f.claimSuccessor
      BY <3>2 DEF WellFormed, Successor
    <3>3. CASE ~f.claimSuccessor
      BY <3>3 DEF Ceremonies
    <3> QED
      BY <3>2, <3>3
  <2>4. PICK p \in P : \A q \in P : ~Before(q, p)
    BY <2>1, <2>2, <2>3, FirstExists
  <2> QED
    BY <2>4 DEF Founding
<1>3. ASSUME NEW f \in Founding(facts), NEW g \in Founding(facts) PROVE f.at = g.at
  <2>1. f.at \in Position /\ g.at \in Position
    BY <1>1, FactPositions DEF Founding
  <2> QED
    BY <2>1, BeforeTotal DEF Founding
<1> QED
  BY <1>2, <1>3

\* The closed form is a lineage, and the empty one where there are no facts.
LEMMA StandingType ==
  ASSUME NEW facts, WellFormed(facts)
  PROVE  /\ Standing(facts) \in Lineage
         /\ facts = {} => Standing(facts) = EmptyLineage
         /\ facts # {} => AdoptionClosed(Standing(facts))
         /\ \A f \in Founding(facts) : Standing(facts).established = f.at[1]
         /\ Standing(facts).live =
              {f.nf : f \in {g \in Confers(facts) : g.spent = NotSpent}}
         /\ Confers(facts) \subseteq facts
<1>1. facts \in SUBSET Fact
  BY DEF WellFormed
<1>2. Confers(facts) \subseteq facts /\ Founding(facts) \subseteq facts
  BY DEF Confers, Founding, Ceremonies
<1>3. Standing(facts).live = {f.nf : f \in {g \in Confers(facts) : g.spent = NotSpent}}
  BY DEF Standing
<1>4. Standing(facts).live \in SUBSET Nf
  BY <1>1, <1>2, <1>3 DEF Fact
<1>5. ASSUME facts = {} PROVE Standing(facts) = EmptyLineage
  BY <1>2, <1>5 DEF Standing, EmptyLineage
<1> DEFINE f0 == CHOOSE f \in Founding(facts) : TRUE
<1>6. ASSUME facts # {}
      PROVE  /\ Standing(facts).established = f0.at[1]
             /\ f0 \in Founding(facts) /\ f0.at \in Position
  <2>1. f0 \in Founding(facts)
    BY <1>6, FoundingExists
  <2>2. f0.at \in Position
    BY <1>1, <1>2, <2>1, FactPositions
  <2> QED
    BY <1>6, <2>1, <2>2 DEF Standing
<1>7. ASSUME NEW f \in Founding(facts) PROVE Standing(facts).established = f.at[1]
  BY <1>2, <1>6, FoundingExists
<1> HIDE DEF f0
<1>8. facts # {} => /\ Standing(facts).established \in Nat \ {0}
                    /\ AdoptionClosed(Standing(facts))
  BY <1>6 DEF Position, AdoptionClosed, NoHeight
<1>9. Standing(facts) \in Lineage
  <2>1. Standing(facts).established \in Nat
    BY <1>5, <1>8 DEF EmptyLineage, NoHeight
  <2>2. Standing(facts) = [live |-> Standing(facts).live,
                           established |-> Standing(facts).established]
    BY DEF Standing
  <2> QED
    BY <1>4, <2>1, <2>2 DEF Lineage
<1> QED
  BY <1>2, <1>3, <1>5, <1>7, <1>8, <1>9

\* The lineage as of p is the lineage before p, stepped by the facts of p.
LEMMA StandingSteps ==
  ASSUME NEW facts, WellFormed(facts),
         NEW K \in SUBSET Position, NEW p \in Position, \A q \in K : Before(q, p),
         PositionsOf(facts) \subseteq K \cup {p}
  PROVE  /\ WellFormed(AsOf(facts, K))
         /\ Standing(facts) = StepTx(Standing(AsOf(facts, K)), p[1], FactsAt(facts, p))
<1> DEFINE old == AsOf(facts, K)
           l == Standing(old)
           A == {f \in facts : f.at = p}
           R == {f \in facts : f.spent = p}
           at == FactsAt(facts, p)
<1>1. facts \in SUBSET Fact /\ IsFiniteSet(facts) /\ p \notin K /\ NotSpent \notin K
  BY BeforeIrreflexive, NothingBeforeNotSpent DEF WellFormed
<1>2. Closed(facts, K)
  BY <1>1, BeforeAsymmetric DEF Closed
<1>3. WellFormed(old)
  BY <1>2, AsOfWellFormed
<1>4. /\ l \in Lineage
      /\ old = {} => l = EmptyLineage
      /\ old # {} => AdoptionClosed(l)
      /\ \A f \in Founding(old) : l.established = f.at[1]
      /\ l.live = {f.nf : f \in {g \in Confers(old) : g.spent = NotSpent}}
      /\ Confers(old) \subseteq old
  BY <1>3, StandingType
<1>5. ASSUME NEW f \in facts
      PROVE  /\ f.at = p \/ f.at \in K
             /\ f.at = p => f.spent = NotSpent
             /\ f.spent \in K \cup {p, NotSpent}
  <2>1. f.at \in K \cup {p} /\ f.at \in Position /\ f.spent \in K \cup {p, NotSpent}
    BY <1>1, FactPositions
  <2>2. f.spent # NotSpent => Before(f.at, f.spent) /\ f.spent \in Position
    BY <1>1, FactPositions DEF WellFormed
  <2> QED
    BY <2>1, <2>2, BeforeAsymmetric
<1>6. ASSUME NEW f \in facts, f.at \in K
      PROVE  /\ CutFact(f, K) \in old
             /\ CutFact(f, K).nf = f.nf /\ CutFact(f, K).at = f.at
             /\ CutFact(f, K).spent = (IF f.spent \in K THEN f.spent ELSE NotSpent)
             /\ CutFact(f, K) \in Founding(old) <=> f \in Founding(facts)
             /\ CutFact(f, K) \in Confers(old) <=> f \in Confers(facts)
  BY <1>1, <1>2, <1>6, CutFactType, ConfersAsOf
<1>7. Confers(facts) \subseteq facts /\ Founding(facts) \subseteq facts
  BY DEF Confers, Founding, Ceremonies
<1>8. /\ at.adoptions = {f.nf : f \in A}
      /\ at.retirements = {f.nf : f \in R}
      /\ at.nameNotes = (IF A = {} THEN 0 ELSE (CHOOSE f \in A : TRUE).nameNotes)
      /\ at.claimSuccessor = (\E f \in A : f.claimSuccessor)
  BY DEF FactsAt
\* What stands after p stood before and did not retire, or was adopted at p.
<1>9. Standing(facts).live =
        (l.live \ at.retirements) \cup {f.nf : f \in {g \in A : g \in Confers(facts)}}
  <2>1. ASSUME NEW f \in Confers(facts), f.spent = NotSpent, f.at # p
        PROVE  f.nf \in l.live \ at.retirements
    <3>1. f \in facts /\ f.at \in K
      BY <1>5, <1>7, <2>1
    <3>2. CutFact(f, K) \in Confers(old) /\ CutFact(f, K).spent = NotSpent
      BY <1>6, <2>1, <3>1
    <3>3. f.nf \in l.live
      BY <1>4, <1>6, <3>1, <3>2
    <3>4. \A g \in R : g.nf # f.nf
      BY <2>1, <3>1, NothingBeforeNotSpent DEF WellFormed
    <3> QED
      BY <1>8, <3>3, <3>4
  <2>2. ASSUME NEW x \in l.live, x \notin at.retirements
        PROVE  \E f \in Confers(facts) : f.spent = NotSpent /\ f.nf = x
    <3>1. PICK g \in Confers(old) : g.spent = NotSpent /\ g.nf = x
      BY <1>4
    <3>2. PICK f \in facts : f.at \in K /\ g = CutFact(f, K)
      BY <1>4, AsOfMember
    <3>3. f \in Confers(facts) /\ f.nf = x /\ f.spent \notin K
      BY <1>1, <1>6, <3>1, <3>2
    <3>4. f.spent # p
      BY <1>8, <2>2, <3>3
    <3> QED
      BY <1>5, <3>3, <3>4
  <2>3. ASSUME NEW f \in A, f \in Confers(facts)
        PROVE  f.spent = NotSpent
    BY <1>5
  <2>4. Standing(facts).live = {f.nf : f \in {g \in Confers(facts) : g.spent = NotSpent}}
    BY StandingType
  <2> HIDE DEF old, l, at, R
  <2> QED
    BY <1>7, <2>1, <2>2, <2>3, <2>4
\* The founding ceremony is the same unless p has it.
<1>10. ASSUME old # {} PROVE Standing(facts).established = l.established
  <2>1. PICK g \in Founding(old) : TRUE
    BY <1>3, <1>10, FoundingExists
  <2>2. PICK f \in facts : f.at \in K /\ g = CutFact(f, K)
    BY AsOfMember DEF Founding, Ceremonies
  <2>3. f \in Founding(facts) /\ f.at = g.at
    BY <1>6, <2>1, <2>2
  <2> QED
    BY <1>4, <2>1, <2>3, StandingType
<1>11. Standing(facts) = [live |-> Standing(facts).live,
                          established |-> Standing(facts).established]
  BY DEF Standing
<1>12. CASE A = {}
  <2>1. at.adoptions = {} /\ at.nameNotes = 0 /\ at.claimSuccessor = FALSE
    BY <1>8, <1>12
  <2>2. ~IsCeremonyFill(Cardinality(at.adoptions), at.nameNotes)
    BY <2>1, FS_EmptySet, PoolSizeAssumption DEF IsCeremonyFill, PoolSizeAssumption
  <2>3. StepTx(l, p[1], at) = [live |-> l.live \ at.retirements,
                               established |-> l.established]
    BY <1>4, <2>1, <2>2, StepRetires
  <2>4. Standing(facts).established = l.established
    <3>1. CASE facts = {}
      <4>1. old = {}
        BY <3>1 DEF AsOf
      <4> QED
        BY <1>4, <3>1, <4>1, StandingType
    <3>2. CASE facts # {}
      <4>1. old # {}
        BY <1>5, <1>6, <1>12, <3>2
      <4> QED
        BY <1>10, <4>1
    <3> QED
      BY <3>1, <3>2
  <2>5. Standing(facts).live = l.live \ at.retirements
    BY <1>9, <1>12
  <2> QED
    BY <1>3, <1>11, <2>3, <2>4, <2>5
<1>13. ASSUME NEW a \in A, a.claimSuccessor
       PROVE  Standing(facts) = StepTx(l, p[1], at)
  <2>1. Successor(facts, a) /\ a.at = p /\ a \in facts
    BY <1>13 DEF WellFormed
  <2>2. A = {a}
    BY <2>1 DEF Successor
  <2>3. /\ at.adoptions = {a.nf} /\ at.claimSuccessor = TRUE
        /\ at.nameNotes = a.nameNotes /\ a.nameNotes # 0
    BY <1>8, <1>13, <2>1, <2>2 DEF Successor
  <2>4. a \in Confers(facts)
    BY <1>13, <2>1 DEF Confers
  <2>5. PICK g \in Confers(facts) :
          g.spent = p /\ \A h \in Confers(facts) : h.spent = p => h = g
    BY <2>1 DEF Successor
  <2>6. g \in facts /\ g.at \in K
    BY <1>1, <1>5, <1>7, <2>5, NothingBeforeNotSpent
  <2>7. l.live \cap at.retirements = {g.nf}
    <3>1. g.nf \in l.live
      <4>1. CutFact(g, K) \in Confers(old) /\ CutFact(g, K).spent = NotSpent
        BY <1>1, <1>6, <2>5, <2>6
      <4> QED
        BY <1>4, <1>6, <2>6, <4>1
    <3>2. g.nf \in at.retirements
      BY <1>8, <2>5, <2>6
    <3>3. ASSUME NEW x \in l.live, x \in at.retirements PROVE x = g.nf
      <4>1. PICK h \in Confers(old) : h.spent = NotSpent /\ h.nf = x
        BY <1>4
      <4>2. PICK f \in facts : f.at \in K /\ h = CutFact(f, K)
        BY <1>4, AsOfMember
      <4>3. f \in Confers(facts) /\ f.nf = x
        BY <1>6, <4>1, <4>2
      <4>4. PICK e \in R : e.nf = x
        BY <1>8, <3>3
      <4>5. e = f
        BY <4>3, <4>4 DEF WellFormed
      <4> QED
        BY <2>5, <4>3, <4>4, <4>5
    <3> QED
      BY <3>1, <3>2, <3>3
  <2>8. Cardinality(l.live \cap at.retirements) = 1 /\ Cardinality(at.adoptions) = 1
    BY <2>3, <2>7, FS_Singleton
  <2>9. StepTx(l, p[1], at) = [live |-> (l.live \ at.retirements) \cup at.adoptions,
                               established |-> l.established]
    <3>1. l \in Lineage
      BY <1>4
    <3> HIDE DEF l, at
    <3> QED
      BY <2>3, <2>8, <3>1, StepSeats
  <2>10. Standing(facts).live = (l.live \ at.retirements) \cup at.adoptions
    BY <1>9, <2>2, <2>3, <2>4
  <2>11. Standing(facts).established = l.established
    BY <1>6, <1>10, <2>6
  <2> QED
    BY <1>11, <2>9, <2>10, <2>11
<1>14. ASSUME A # {}, \A f \in A : ~f.claimSuccessor
       PROVE  Standing(facts) = StepTx(l, p[1], at)
  <2>1. PICK a \in A : TRUE
    BY <1>14
  <2>2. CeremonyNote(facts, a)
    BY <1>14, <2>1 DEF WellFormed
  <2>3. \A f \in A : f.nameNotes = 0
    BY <2>1, <2>2 DEF CeremonyNote
  <2>4. at.nameNotes = 0 /\ at.claimSuccessor = FALSE
    BY <1>8, <1>14, <2>3
  <2>5. Cardinality(at.adoptions) = PoolSize
    BY <1>8, <2>1, <2>2 DEF CeremonyNote
  <2>6. CASE old # {}
    <3>1. StepTx(l, p[1], at) = [live |-> l.live \ at.retirements,
                                 established |-> l.established]
      BY <1>4, <2>4, <2>6, StepRetires
    <3>2. \A f \in A : f \notin Confers(facts)
      <4>1. PICK g \in Founding(old) : TRUE
        BY <1>3, <2>6, FoundingExists
      <4>2. PICK f \in facts : f.at \in K /\ g = CutFact(f, K)
        BY AsOfMember DEF Founding, Ceremonies
      <4>3. f \in Ceremonies(facts) /\ Before(f.at, p)
        BY <1>6, <4>1, <4>2 DEF Founding
      <4> QED
        BY <1>14, <4>3 DEF Confers, Founding
    <3>3. Standing(facts).live = l.live \ at.retirements
      BY <1>9, <3>2
    <3> QED
      BY <1>10, <1>11, <2>6, <3>1, <3>3
  <2>7. CASE old = {}
    <3>1. \A f \in facts : f.at = p
      BY <1>5, <1>6, <2>7
    <3>2. A = facts /\ R = {}
      BY <1>1, <1>5, <3>1, NothingBeforeNotSpent
    <3>3. facts = Ceremonies(facts)
      BY <1>14, <3>2 DEF Ceremonies
    <3>4. Founding(facts) = facts /\ Confers(facts) = facts
      BY <3>1, <3>3, BeforeIrreflexive DEF Founding, Confers
    <3>5. at.adoptions \subseteq Nf /\ at.adoptions \cap at.retirements = {}
      BY <1>1, <1>8, <3>2 DEF Fact
    <3>6. StepTx(EmptyLineage, p[1], at) = [live |-> at.adoptions, established |-> p[1]]
      BY <2>4, <2>5, <3>5, StepFounds
    <3>7. l = EmptyLineage /\ l.live = {}
      BY <1>4, <2>7 DEF EmptyLineage
    <3>8. Standing(facts).live = at.adoptions
      BY <1>8, <1>9, <3>4, <3>7
    <3>9. Standing(facts).established = p[1]
      BY <2>1, <3>1, <3>4, StandingType
    <3> QED
      BY <1>11, <3>6, <3>7, <3>8, <3>9
  <2> QED
    BY <2>6, <2>7
<1> QED
  BY <1>3, <1>12, <1>13, <1>14

-----------------------------------------------------------------------------
(* The fold.                                                               *)

\* The facts of one transaction carry one count of name notes.
LEMMA NameNotesAgree ==
  ASSUME NEW facts, WellFormed(facts), NEW f \in facts, NEW g \in facts, f.at = g.at
  PROVE  f.nameNotes = g.nameNotes
<1>1. CASE f.claimSuccessor
  BY <1>1 DEF WellFormed, Successor
<1>2. CASE ~f.claimSuccessor
  BY <1>2 DEF WellFormed, CeremonyNote
<1> QED
  BY <1>1, <1>2

\* At each position, the facts up to it and those before it.
LEMMA UpTo ==
  ASSUME NEW facts, WellFormed(facts), NEW p \in PositionsOf(facts)
  PROVE  LET K == {q \in PositionsOf(facts) : ~Before(p, q)}
             J == {q \in PositionsOf(facts) : Before(q, p)}
         IN  /\ WellFormed(AsOf(facts, K)) /\ WellFormed(AsOf(facts, J))
             /\ Standing(AsOf(facts, J)) \in Lineage
             /\ Standing(AsOf(facts, K)) =
                  Replay(facts, p)[Standing(AsOf(facts, J))]
<1> DEFINE P == PositionsOf(facts)
           K == {q \in P : ~Before(p, q)}
           J == {q \in P : Before(q, p)}
           now == AsOf(facts, K)
<1>1. facts \in SUBSET Fact /\ IsFiniteSet(facts) /\ P \in SUBSET Position
  BY PositionsAreFinite DEF WellFormed
<1>2. p \in Position /\ K = J \cup {p} /\ J \in SUBSET K
  BY <1>1, BeforeTotal, BeforeAsymmetric, BeforeIrreflexive
<1>3. Closed(facts, K)
  <2>1. ASSUME NEW q \in P, NEW r \in K, Before(q, r) PROVE ~Before(p, q)
    BY <1>1, <2>1, BeforeTransitive
  <2> QED
    BY <1>1, <2>1 DEF Closed
<1>4. Closed(facts, J)
  <2>1. ASSUME NEW q \in P, NEW r \in J, Before(q, r) PROVE Before(q, p)
    BY <1>1, <2>1, BeforeTransitive
  <2> QED
    BY <1>1, <2>1 DEF Closed
<1>5. WellFormed(now) /\ WellFormed(AsOf(facts, J))
  BY <1>3, <1>4, AsOfWellFormed
<1>6. AsOf(now, J) = AsOf(facts, J)
  BY <1>1, <1>2, AsOfTwice
<1>7. now \in SUBSET Fact
  BY <1>5 DEF WellFormed
<1>8. ASSUME NEW g \in now
      PROVE  g.at \in K /\ g.spent \in K \cup {NotSpent}
  <2>1. PICK f \in facts : f.at \in K /\ g = CutFact(f, K)
    BY AsOfMember
  <2> QED
    BY <1>1, <2>1, CutFactType
<1>9. PositionsOf(now) \subseteq J \cup {p}
  BY <1>2, <1>8 DEF PositionsOf
<1>10. Standing(now) = StepTx(Standing(AsOf(facts, J)), p[1], FactsAt(now, p))
  <2>1. J \in SUBSET Position /\ \A q \in J : Before(q, p)
    BY <1>1
  <2> HIDE DEF now, J, K
  <2> QED
    BY <1>2, <1>5, <1>6, <1>9, <2>1, StandingSteps
<1>11. FactsAt(now, p) = FactsAt(facts, p)
  <2>1. p \in K
    BY <1>2
  <2>2. ASSUME NEW f \in facts
        PROVE  /\ CutFact(f, K).nf = f.nf /\ CutFact(f, K).at = f.at
               /\ CutFact(f, K).nameNotes = f.nameNotes
               /\ CutFact(f, K).claimSuccessor = f.claimSuccessor
               /\ CutFact(f, K).spent = (IF f.spent \in K THEN f.spent ELSE NotSpent)
    BY <1>1, CutFactType
  <2> DEFINE A == {f \in facts : f.at = p}
             B == {f \in now : f.at = p}
  <2>3. ASSUME NEW f \in facts, f.at \in K
        PROVE  CutFact(f, K) \in now
    BY <2>3 DEF AsOf
  <2>4. ASSUME NEW g \in now
        PROVE  \E f \in facts : f.at \in K /\ g = CutFact(f, K)
    BY AsOfMember
  <2> HIDE DEF now, K
  <2>5. {f.nf : f \in A} = {g.nf : g \in B}
    BY <2>1, <2>2, <2>3, <2>4
  <2>6. (\E f \in A : f.claimSuccessor) <=> (\E g \in B : g.claimSuccessor)
    BY <2>1, <2>2, <2>3, <2>4
  <2>7. {f.nf : f \in {g \in facts : g.spent = p}} = {f.nf : f \in {g \in now : g.spent = p}}
    <3>1. ASSUME NEW f \in facts, f.spent = p PROVE f.at \in K
      <4>1. f.at \in P /\ f.at \in Position /\ Before(f.at, p)
        BY <1>1, <1>2, <3>1, FactPositions, NothingBeforeNotSpent DEF WellFormed
      <4> QED
        BY <1>2, <4>1, BeforeAsymmetric DEF K
    <3> QED
      BY <1>2, <2>1, <2>2, <2>3, <2>4, <3>1, NothingBeforeNotSpent
  <2>8. (IF A = {} THEN 0 ELSE (CHOOSE f \in A : TRUE).nameNotes) =
        (IF B = {} THEN 0 ELSE (CHOOSE f \in B : TRUE).nameNotes)
    <3>1. A = {} <=> B = {}
      BY <2>5
    <3>2. ASSUME NEW f \in A, NEW g \in B PROVE f.nameNotes = g.nameNotes
      BY <2>2, <2>4, NameNotesAgree
    <3>3. A # {} => (CHOOSE f \in A : TRUE) \in A
      OBVIOUS
    <3>4. B # {} => (CHOOSE f \in B : TRUE) \in B
      OBVIOUS
    <3> QED
      BY <3>1, <3>2, <3>3, <3>4
  <2> QED
    BY <2>5, <2>6, <2>7, <2>8 DEF FactsAt
<1>12. Replay(facts, p)[Standing(AsOf(facts, J))] =
         StepTx(Standing(AsOf(facts, J)), p[1], FactsAt(facts, p))
  BY <1>5, StandingType DEF Replay
<1> QED
  BY <1>5, <1>10, <1>11, <1>12, StandingType

\* FoldLineage computes the closed form: the recursion is well-founded, its
\* value at each position is what stood there, and at the last position all
\* facts are counted.
THEOREM FoldIsStanding ==
  ASSUME NEW facts, WellFormed(facts)
  PROVE  FoldLineage(facts) = Standing(facts)
<1> DEFINE P == PositionsOf(facts)
           Earlier(p) == {q \in P : Before(q, p)}
           Start(g, p) == IF Earlier(p) = {} THEN EmptyLineage ELSE g[Latest(Earlier(p))]
           value == [p \in P |-> Standing(AsOf(facts, {q \in P : ~Before(p, q)}))]
           upTo == LineageUpTo(facts)
<1>1. facts \in SUBSET Fact /\ IsFiniteSet(facts) /\ IsFiniteSet(P) /\ P \in SUBSET Position
  BY PositionsAreFinite DEF WellFormed
<1>2. ASSUME NEW p \in P, Earlier(p) # {}
      PROVE  /\ Latest(Earlier(p)) \in P /\ Before(Latest(Earlier(p)), p)
             /\ {q \in P : ~Before(Latest(Earlier(p)), q)} = Earlier(p)
  <2>1. Earlier(p) \in SUBSET Position /\ IsFiniteSet(Earlier(p)) /\ Earlier(p) \in SUBSET P
    BY <1>1, FS_Subset
  <2> DEFINE l == Latest(Earlier(p))
  <2>2. l \in Earlier(p) /\ \A q \in Earlier(p) : ~Before(l, q)
    BY <1>2, <2>1, LatestExists
  <2>3. ASSUME NEW q \in P, ~Before(l, q) PROVE Before(q, p)
    BY <1>1, <2>2, <2>3, BeforeTotal, BeforeTransitive
  <2> QED
    BY <2>2, <2>3
<1>3. ASSUME NEW p \in P
      PROVE  /\ Start(value, p) = Standing(AsOf(facts, Earlier(p)))
             /\ Replay(facts, p)[Start(value, p)] = value[p]
  <2>1. ASSUME Earlier(p) = {} PROVE Standing(AsOf(facts, Earlier(p))) = EmptyLineage
    <3>1. AsOf(facts, {}) = {}
      BY DEF AsOf
    <3>2. WellFormed(AsOf(facts, Earlier(p)))
      BY UpTo
    <3> QED
      BY <2>1, <3>1, <3>2, StandingType
  <2>2. ASSUME Earlier(p) # {}
        PROVE  value[Latest(Earlier(p))] = Standing(AsOf(facts, Earlier(p)))
    BY <1>2, <2>2
  <2>3. Start(value, p) = Standing(AsOf(facts, Earlier(p)))
    BY <2>1, <2>2
  <2>4. value[p] = Standing(AsOf(facts, {q \in P : ~Before(p, q)}))
    OBVIOUS
  <2>5. Standing(AsOf(facts, {q \in P : ~Before(p, q)})) =
          Replay(facts, p)[Standing(AsOf(facts, Earlier(p)))]
    BY UpTo
  <2> QED
    BY <2>3, <2>4, <2>5
<1>4. upTo = CHOOSE g : g = [p \in P |-> Replay(facts, p)[Start(g, p)]]
  BY DEF LineageUpTo
<1>5. value = [p \in P |-> Replay(facts, p)[Start(value, p)]]
  <2>1. \A p \in P : value[p] = Replay(facts, p)[Start(value, p)]
    BY <1>3
  <2>2. value = [p \in P |-> value[p]]
    OBVIOUS
  <2> HIDE DEF value, Start
  <2> QED
    BY <2>1, <2>2
<1>6. upTo = [p \in P |-> Replay(facts, p)[Start(upTo, p)]]
  <2> HIDE DEF value, upTo, Start
  <2> QED
    BY <1>4, <1>5
\* A first position where the recursion differs from the closed form has no
\* earlier one to differ at.
<1>7. \A p \in P : upTo[p] = value[p]
  <2> DEFINE bad == {p \in P : upTo[p] # value[p]}
  <2>1. SUFFICES ASSUME bad # {} PROVE FALSE
    OBVIOUS
  <2>2. bad \in SUBSET Position /\ IsFiniteSet(bad)
    BY <1>1, FS_Subset
  <2>3. PICK p \in bad : \A q \in bad : ~Before(q, p)
    <3> HIDE DEF bad
    <3> QED
      BY <2>1, <2>2, FirstExists
  <2>4. Start(upTo, p) = Start(value, p)
    BY <1>2, <2>3
  <2>5. upTo[p] = Replay(facts, p)[Start(upTo, p)]
    <3> HIDE DEF upTo, Start
    <3> QED
      BY <1>6, <2>3
  <2> QED
    BY <1>3, <2>3, <2>4, <2>5
<1>8. CASE facts = {}
  BY <1>8, StandingType DEF FoldLineage
<1>9. CASE facts # {}
  <2> DEFINE l == Latest(P)
  <2>1. P # {}
    BY <1>9 DEF PositionsOf
  <2>2. l \in P /\ \A q \in P : ~Before(l, q)
    <3> HIDE DEF P
    <3> QED
      BY <1>1, <2>1, LatestExists
  <2>3. {q \in P : ~Before(l, q)} = P
    BY <2>2
  <2>4. AsOf(facts, P) = facts
    BY <1>1, AsOfAll
  <2>5. upTo[l] = Standing(facts)
    BY <1>7, <2>2, <2>3, <2>4
  <2> QED
    BY <1>9, <2>5 DEF FoldLineage
<1> QED
  BY <1>8, <1>9

-----------------------------------------------------------------------------
(***************************************************************************)
(* What the tables say: the names follow the logs, the history of a name   *)
(* is a chain, the lineage is the fold of the facts, authority is unspent  *)
(* and watched, and a replayed transaction changes nothing.                *)
(*                                                                         *)
(* Each of these is inductive only together with the others.  The tables   *)
(* are Sound for the positions D of a branch that they cover: all of them  *)
(* for a committed database, for the open one those of the checkpoint and  *)
(* those the batch has passed.  A transaction after D is judged on sound   *)
(* tables and leaves sound tables; a transaction in D finds that all it    *)
(* spends is spent and all it creates is stored; a rewind cuts D and the   *)
(* tables at one height.                                                   *)
(***************************************************************************)

-----------------------------------------------------------------------------
(* The positions of a branch, and consensus by position.                   *)

Mined(b) == UNION {{<<h, i>> : i \in DOMAIN b[h]} : h \in DOMAIN b}

\* Consensus(b), said of positions.
Lawful(b) ==
  /\ \A p, q \in Mined(b) :
       p # q => /\ TxAt(p, b) # TxAt(q, b)
                /\ TxAt(p, b).spends \cap TxAt(q, b).spends = {}
  /\ \A p \in Mined(b) : \A nf \in TxAt(p, b).spends :
       \E q \in Mined(b) : Before(q, p) /\ nf \in CreatedNotes(TxAt(q, b))

\* The positions of a branch are the positions that lie on it.
LEMMA MinedPositions ==
  ASSUME NEW b \in Branch
  PROVE  /\ Mined(b) \in SUBSET Position
         /\ \A p \in Position : p \in Mined(b) <=> OnBranch(p, b)
         /\ \A p \in Mined(b) : /\ OnBranch(p, b) /\ TxAt(p, b) \in Tx
                                /\ p[1] \in 1..Len(b)
<1>1. ASSUME NEW h \in DOMAIN b, NEW i \in DOMAIN b[h]
      PROVE  <<h, i>> \in Position /\ OnBranch(<<h, i>>, b) /\ h \in 1..Len(b)
  <2>1. Len(b) \in Nat /\ DOMAIN b = 1..Len(b)
    BY DEF Branch
  <2>2. b[h] \in Seq(Tx)
    BY <2>1, ResolverAssumption DEF Branch, ResolverAssumption
  <2>3. i \in Nat /\ h \in Nat \ {0}
    BY <2>1, <2>2
  <2> QED
    BY <2>1, <2>3 DEF Position, OnBranch
<1>2. ASSUME NEW p \in Mined(b)
      PROVE  p \in Position /\ OnBranch(p, b) /\ p[1] \in 1..Len(b)
  <2>1. PICK h \in DOMAIN b : p \in {<<h, i>> : i \in DOMAIN b[h]}
    BY DEF Mined
  <2>2. PICK i \in DOMAIN b[h] : p = <<h, i>>
    BY <2>1
  <2> QED
    BY <1>1, <2>2
<1>3. ASSUME NEW p \in Position, OnBranch(p, b)
      PROVE  p \in Mined(b)
  <2>1. p = <<p[1], p[2]>>
    BY DEF Position
  <2> QED
    BY <1>3, <2>1 DEF Mined, OnBranch
<1> QED
  BY <1>2, <1>3, TxAtIsTx

\* The scanned transactions of a whole branch are its positions.
LEMMA TxsOfMined ==
  ASSUME NEW b \in Branch
  PROVE  /\ \A p \in Mined(b) : [at |-> p, tx |-> TxAt(p, b)] \in TxsOf(b, 1, Len(b))
         /\ \A s \in TxsOf(b, 1, Len(b)) : s.at \in Mined(b) /\ s.tx = TxAt(s.at, b)
<1>1. Len(b) \in Nat /\ DOMAIN b = 1..Len(b)
  BY DEF Branch
<1>2. ASSUME NEW p \in Mined(b)
      PROVE  [at |-> p, tx |-> TxAt(p, b)] \in TxsOf(b, 1, Len(b))
  <2>1. PICK h \in DOMAIN b : p \in {<<h, i>> : i \in DOMAIN b[h]}
    BY DEF Mined
  <2>2. PICK i \in DOMAIN b[h] : p = <<h, i>>
    BY <2>1
  <2>3. TxAt(p, b) = b[h][i]
    BY <2>2 DEF TxAt
  <2> QED
    BY <1>1, <2>2, <2>3 DEF TxsOf
<1>3. ASSUME NEW s \in TxsOf(b, 1, Len(b))
      PROVE  s.at \in Mined(b) /\ s.tx = TxAt(s.at, b)
  <2>1. PICK h \in 1..Len(b) : s \in {[at |-> <<h, i>>, tx |-> b[h][i]] : i \in DOMAIN b[h]}
    BY DEF TxsOf
  <2>2. PICK i \in DOMAIN b[h] : s = [at |-> <<h, i>>, tx |-> b[h][i]]
    BY <2>1
  <2> QED
    BY <1>1, <2>2 DEF Mined, TxAt
<1> QED
  BY <1>2, <1>3

\* Consensus, a statement about transactions, is one about positions.
LEMMA ConsensusIsLawful ==
  ASSUME NEW b \in Branch, Consensus(b)
  PROVE  Lawful(b)
<1> DEFINE mined == TxsOf(b, 1, Len(b))
           S(p) == [at |-> p, tx |-> TxAt(p, b)]
<1>1. \A p \in Mined(b) : S(p) \in mined
  BY TxsOfMined
<1>2. ASSUME NEW p \in Mined(b), NEW q \in Mined(b), p # q
      PROVE  /\ TxAt(p, b) # TxAt(q, b)
             /\ TxAt(p, b).spends \cap TxAt(q, b).spends = {}
  <2>1. S(q) \in mined \ {S(p)}
    BY <1>1, <1>2
  <2> QED
    BY <1>1, <2>1 DEF Consensus
<1>3. ASSUME NEW p \in Mined(b), NEW nf \in TxAt(p, b).spends
      PROVE  \E q \in Mined(b) : Before(q, p) /\ nf \in CreatedNotes(TxAt(q, b))
  <2>1. S(p).tx.spends \subseteq
          UNION {CreatedNotes(o.tx) : o \in {x \in mined : Before(x.at, S(p).at)}}
    BY <1>1 DEF Consensus
  <2>2. PICK o \in mined : Before(o.at, p) /\ nf \in CreatedNotes(o.tx)
    BY <2>1
  <2> QED
    BY <2>2, TxsOfMined
<1> QED
  BY <1>2, <1>3 DEF Lawful

\* A cut branch has the positions up to the cut, and is lawful.
LEMMA CutMined ==
  ASSUME NEW b \in Branch, NEW k \in 0..Len(b)
  PROVE  /\ Mined(SubSeq(b, 1, k)) = {p \in Mined(b) : p[1] <= k}
         /\ \A p \in Mined(SubSeq(b, 1, k)) : TxAt(p, SubSeq(b, 1, k)) = TxAt(p, b)
<1> DEFINE c == SubSeq(b, 1, k)
<1>1. c \in Branch /\ Len(c) = k /\ k \in Nat /\ Len(b) \in Nat
  BY CutIsBranch DEF Branch
<1>2. ASSUME NEW p \in Mined(b), p[1] <= k
      PROVE  p \in Mined(c) /\ TxAt(p, c) = TxAt(p, b)
  <2>1. p \in Position /\ OnBranch(p, b)
    BY MinedPositions
  <2>2. OnBranch(p, c) /\ TxAt(p, c) = TxAt(p, b)
    BY <1>2, <2>1, CutKeeps
  <2> HIDE DEF c
  <2> QED
    BY <1>1, <2>1, <2>2, MinedPositions
<1>3. ASSUME NEW p \in Mined(c) PROVE p \in Mined(b) /\ p[1] <= k
  <2>1. p \in Position /\ OnBranch(p, c) /\ p[1] \in 1..k
    <3> HIDE DEF c
    <3> QED
      BY <1>1, MinedPositions
  <2>2. c[p[1]] = b[p[1]] /\ p[1] \in DOMAIN b
    BY <1>1, <2>1 DEF Branch
  <2>3. OnBranch(p, b)
    BY <2>1, <2>2 DEF OnBranch
  <2> QED
    BY <1>1, <2>1, <2>3, MinedPositions
<1> QED
  BY <1>2, <1>3

\* A cut of a lawful branch is lawful.
LEMMA CutLawful ==
  ASSUME NEW b \in Branch, Lawful(b), NEW k \in 0..Len(b)
  PROVE  Lawful(SubSeq(b, 1, k))
<1> DEFINE c == SubSeq(b, 1, k)
<1>1. /\ Mined(c) = {p \in Mined(b) : p[1] <= k}
      /\ \A p \in Mined(c) : TxAt(p, c) = TxAt(p, b)
      /\ Mined(b) \in SUBSET Position
  BY CutMined, MinedPositions
<1>2. ASSUME NEW p \in Mined(c), NEW q \in Mined(b), Before(q, p)
      PROVE  q \in Mined(c)
  BY <1>1, <1>2 DEF Before, Position
<1> HIDE DEF c
<1> QED
  BY <1>1, <1>2 DEF Lawful, c

\* A prefix is a cut.
LEMMA PrefixIsCut ==
  ASSUME NEW b \in Branch, NEW c \in Branch, IsPrefix(b, c)
  PROVE  Len(b) \in 0..Len(c) /\ b = SubSeq(c, 1, Len(b))
  BY DEF Branch, IsPrefix

\* A note is created at one position, spent at one, and later.
LEMMA CreatedOnce ==
  ASSUME NEW b \in Branch, Lawful(b), NEW p \in Mined(b), NEW q \in Mined(b), NEW nf,
         nf \in CreatedNotes(TxAt(p, b)), nf \in CreatedNotes(TxAt(q, b))
  PROVE  p = q
<1> DEFINE t == TxAt(p, b)
           u == TxAt(q, b)
<1>1. t \in Tx /\ u \in Tx
  BY MinedPositions
<1>2. t.relaxed \subseteq Note /\ u.relaxed \subseteq Note
  BY <1>1, RegistryAssumption DEF RegistryAssumption
<1>3. t = u
  <2>1. CASE nf \in t.zero \/ nf \in u.zero
    BY <1>1, <2>1, IdentityAssumption DEF IdentityAssumption, CreatedNotes
  <2>2. CASE nf \notin t.zero /\ nf \notin u.zero
    <3>1. PICK m \in t.relaxed : m.nf = nf /\ nf # NoNf
      BY <2>2 DEF CreatedNotes
    <3>2. PICK n \in u.relaxed : n.nf = nf
      BY <2>2 DEF CreatedNotes
    <3>3. m.nf \in Nf
      BY <1>2, <3>1 DEF Note
    <3> QED
      BY <1>1, <3>1, <3>2, <3>3, IdentityAssumption DEF IdentityAssumption
  <2> QED
    BY <2>1, <2>2
<1> QED
  BY <1>3 DEF Lawful

\* A note is spent after the transaction that creates it.
LEMMA SpentAfterCreated ==
  ASSUME NEW b \in Branch, Lawful(b), NEW p \in Mined(b), NEW q \in Mined(b), NEW nf,
         nf \in CreatedNotes(TxAt(p, b)), nf \in TxAt(q, b).spends
  PROVE  Before(p, q)
<1>1. PICK r \in Mined(b) : Before(r, q) /\ nf \in CreatedNotes(TxAt(r, b))
  BY DEF Lawful
<1> QED
  BY <1>1, CreatedOnce

\* A note is spent at one position.
LEMMA SpentOnce ==
  ASSUME NEW b \in Branch, Lawful(b), NEW p \in Mined(b), NEW q \in Mined(b), NEW nf,
         nf \in TxAt(p, b).spends, nf \in TxAt(q, b).spends
  PROVE  p = q
  BY DEF Lawful

-----------------------------------------------------------------------------
(* Sound facts.                                                            *)

\* The facts are those of the positions D: each lies there, each is marked
\* spent if D spends it, and every note of the ceremony's shape has one.
FactsSound(facts, b, D) ==
  /\ WellFormed(facts)
  /\ \A f \in facts : f.at \in D /\ f.spent \in D \cup {NotSpent}
  /\ \A f \in facts, p \in D : f.nf \in TxAt(p, b).spends => f.spent # NotSpent
  /\ \A p \in D : \A nf \in KeptAdoptions(TxAt(p, b), FALSE) :
       \E f \in facts : f.nf = nf /\ f.at = p

\* What KeptAdoptions keeps, by verdict.
LEMMA KeptIs ==
  ASSUME NEW tx \in Tx
  PROVE  /\ \A seated \in BOOLEAN : KeptAdoptions(tx, seated) \in SUBSET tx.zero
         /\ ClaimSuccessorOutput(tx) =>
              /\ KeptAdoptions(tx, FALSE) = {}
              /\ KeptAdoptions(tx, TRUE) = tx.zero
              /\ Cardinality(tx.zero) = 1
              /\ Cardinality(Candidates(tx)) = 1
         /\ KeptAdoptions(tx, FALSE) # {} =>
              /\ KeptAdoptions(tx, FALSE) = tx.zero
              /\ Cardinality(tx.zero) = PoolSize
              /\ Cardinality(Candidates(tx)) = 0
         /\ tx.zero \subseteq Nf /\ IsFiniteSet(tx.zero)
         /\ Cardinality(Candidates(tx)) \in Nat
<1>1. IsFiniteSet(tx.relaxed) /\ IsFiniteSet(tx.zero) /\ tx.zero \subseteq Nf
  BY RegistryAssumption DEF RegistryAssumption
<1>2. Cardinality(Candidates(tx)) \in Nat
  <2>1. IsFiniteSet(Candidates(tx))
    BY <1>1, FS_Subset DEF Candidates
  <2> QED
    BY <2>1, FS_CardinalityType
<1> QED
  BY <1>1, <1>2 DEF KeptAdoptions, KeepsAnchorNote, IsCeremonyFill, ClaimSuccessorOutput,
                    HasSingleNameNote

\* A stored fact after the transaction, and the fact of a note it keeps.
Marked(f, tx, at) ==
  IF f.nf \in tx.spends /\ f.spent = NotSpent THEN [f EXCEPT !.spent = at] ELSE f

Adopted(nf, tx, at, seated) ==
  [nf |-> nf, at |-> at, nameNotes |-> Cardinality(Candidates(tx)),
   claimSuccessor |-> seated, spent |-> NotSpent]

\* The facts of the notes a transaction keeps, and the facts of a position.
Adoptions(tx, at, seated) ==
  {Adopted(nf, tx, at, seated) : nf \in KeptAdoptions(tx, seated)}

Placing(facts, p) == {f \in facts : f.at = p}

\* A transaction marks stored facts of notes it spends, which are unspent.
LEMMA MarkedFacts ==
  ASSUME NEW b \in Branch, Lawful(b), NEW t, Good(t, b),
         NEW D \in SUBSET Mined(b), FactsSound(t.facts, b, D),
         NEW at \in Mined(b), at \notin D, NEW f \in t.facts
  PROVE  LET tx == TxAt(at, b)
             g  == Marked(f, tx, at)
         IN  /\ f \in Fact /\ g \in Fact
             /\ g.nf = f.nf /\ g.at = f.at /\ g.nameNotes = f.nameNotes
             /\ g.claimSuccessor = f.claimSuccessor
             /\ f.at # at /\ f.spent # at
             /\ f.nf \in tx.spends => f.spent = NotSpent
             /\ g.spent = (IF f.nf \in tx.spends THEN at ELSE f.spent)
             /\ CutFact(g, D) = f
             /\ f.nf \in CreatedNotes(TxAt(f.at, b)) /\ f.at \in Mined(b)
<1> DEFINE tx == TxAt(at, b)
           g == Marked(f, tx, at)
<1>1. /\ at \in Position /\ D \in SUBSET Position
      /\ t.facts \in SUBSET Fact /\ TablesOnBranch(t, b)
      /\ NotSpent \notin D /\ NotSpent # at
  BY MinedPositions, NothingBeforeNotSpent DEF Good, Tables
<1>2. f \in Fact /\ f.at \in D /\ f.spent \in D \cup {NotSpent}
  BY <1>1 DEF FactsSound
<1>3. f.nf \in TxAt(f.at, b).zero
  BY <1>1 DEF TablesOnBranch
<1>4. ASSUME f.nf \in tx.spends, f.spent # NotSpent PROVE FALSE
  <2>1. f.nf \in TxAt(f.spent, b).spends /\ f.spent \in Mined(b)
    BY <1>1, <1>2, <1>4 DEF TablesOnBranch
  <2>2. f.spent = at
    BY <1>4, <2>1, SpentOnce
  <2> QED
    BY <1>1, <1>2, <2>2
<1>5. CASE f.nf \in tx.spends
  <2>1. g = [f EXCEPT !.spent = at]
    BY <1>4, <1>5 DEF Marked
  <2> HIDE DEF g, tx
  <2>2. /\ g \in Fact /\ g.nf = f.nf /\ g.at = f.at /\ g.nameNotes = f.nameNotes
        /\ g.claimSuccessor = f.claimSuccessor /\ g.spent = at
    BY <1>1, <1>2, <2>1 DEF Fact
  <2>3. CutFact(g, D) = f
    BY <1>1, <1>2, <1>4, <1>5, <2>1 DEF Fact, CutFact
  <2> QED
    BY <1>1, <1>2, <1>3, <1>4, <1>5, <2>2, <2>3 DEF CreatedNotes, g, tx
<1>6. CASE f.nf \notin tx.spends
  <2>1. g = f
    BY <1>6 DEF Marked
  <2>2. CutFact(f, D) = f
    BY <1>1, <1>2 DEF Fact, CutFact
  <2> HIDE DEF g, tx
  <2> QED
    BY <1>1, <1>2, <1>3, <1>6, <2>1, <2>2 DEF CreatedNotes, g, tx
<1> QED
  BY <1>5, <1>6

\* A note it keeps has no fact yet, and the transaction does not spend it.
LEMMA AdoptedFacts ==
  ASSUME NEW b \in Branch, Lawful(b), NEW t, Good(t, b),
         NEW D \in SUBSET Mined(b), FactsSound(t.facts, b, D),
         NEW at \in Mined(b), at \notin D, NEW seated \in BOOLEAN,
         NEW nf \in KeptAdoptions(TxAt(at, b), seated)
  PROVE  /\ nf \notin TxAt(at, b).spends
         /\ Adopted(nf, TxAt(at, b), at, seated) \in Fact
         /\ \A f \in t.facts : f.nf # nf
<1> DEFINE tx == TxAt(at, b)
<1>1. tx \in Tx /\ at \in Position /\ t \in Tables
  BY MinedPositions DEF Good
<1>2. nf \in tx.zero /\ nf \in Nf /\ Cardinality(Candidates(tx)) \in Nat
  BY <1>1, KeptIs
<1>3. \A f \in t.facts : /\ f.at # at
                         /\ f.nf \in CreatedNotes(TxAt(f.at, b)) /\ f.at \in Mined(b)
  BY MarkedFacts
<1>4. nf \in CreatedNotes(tx)
  BY <1>2 DEF CreatedNotes
<1>5. nf \notin tx.spends
  BY <1>1, <1>4, SpentAfterCreated, BeforeIrreflexive
<1>6. ASSUME NEW f \in t.facts, f.nf = nf PROVE FALSE
  BY <1>3, <1>4, <1>6, CreatedOnce
<1>7. Adopted(nf, tx, at, seated) \in Fact
  BY <1>1, <1>2 DEF Fact, Adopted
<1> QED
  BY <1>5, <1>6, <1>7

\* After the transaction the facts are sound for its position too, and what
\* stands is what one step of the lineage makes of what stood.
LEMMA StoreSound ==
  ASSUME NEW b \in Branch, Lawful(b), NEW t, Good(t, b),
         NEW D \in SUBSET Mined(b), FactsSound(t.facts, b, D),
         NEW at \in Mined(b), \A p \in D : Before(p, at), NEW seated \in BOOLEAN,
         seated => /\ ClaimSuccessorOutput(TxAt(at, b))
                   /\ LiveRetirements(Standing(t.facts), TxAt(at, b).spends) = 1
  PROVE  LET new == StoreFacts(t, TxAt(at, b), at, seated).facts
         IN  /\ FactsSound(new, b, D \cup {at})
             /\ Standing(new) = StepTx(Standing(t.facts), at[1],
                                       TxAnchorFacts(TxAt(at, b), seated))
             /\ AsOf(new, D) = t.facts
             /\ Placing(new, at) = Adoptions(TxAt(at, b), at, seated)
<1> DEFINE tx == TxAt(at, b)
           old == t.facts
           l == Standing(old)
           Mark(f) == Marked(f, tx, at)
           Fresh(nf) == Adopted(nf, tx, at, seated)
           kept == KeptAdoptions(tx, seated)
           new == StoreFacts(t, tx, at, seated).facts
<1>1. /\ tx \in Tx /\ at \in Position /\ D \in SUBSET Position
      /\ NotSpent \notin D /\ NotSpent # at /\ at \notin D
  BY MinedPositions, NothingBeforeNotSpent, BeforeIrreflexive
<1>2. /\ WellFormed(old) /\ old \in SUBSET Fact /\ IsFiniteSet(old)
      /\ \A f, g \in old : f.nf = g.nf => f = g
      /\ \A f \in old : f.at \in D /\ f.spent \in D \cup {NotSpent}
  BY DEF FactsSound, WellFormed
<1>3. \A f \in old :
        /\ f \in Fact /\ Mark(f) \in Fact
        /\ Mark(f).nf = f.nf /\ Mark(f).at = f.at
        /\ Mark(f).nameNotes = f.nameNotes
        /\ Mark(f).claimSuccessor = f.claimSuccessor
        /\ f.at # at /\ f.spent # at
        /\ f.nf \in tx.spends => f.spent = NotSpent
        /\ Mark(f).spent = (IF f.nf \in tx.spends THEN at ELSE f.spent)
        /\ CutFact(Mark(f), D) = f
  BY <1>1, MarkedFacts
<1>4. \A nf \in kept :
        /\ nf \notin tx.spends /\ Fresh(nf) \in Fact
        /\ \A f \in old : f.nf # nf
        /\ Fresh(nf).nf = nf /\ Fresh(nf).at = at /\ Fresh(nf).spent = NotSpent
        /\ Fresh(nf).nameNotes = Cardinality(Candidates(tx))
        /\ Fresh(nf).claimSuccessor = seated
  BY <1>1, AdoptedFacts DEF Adopted
<1>5. new = {Mark(f) : f \in old} \cup {Fresh(nf) : nf \in kept}
  <2> DEFINE marked == MarkSpent(old, tx, at)
  <2>1. marked = {Mark(f) : f \in old}
    BY DEF MarkSpent, Marked
  <2>2. {f.nf : f \in marked} = {f.nf : f \in old}
    <3> HIDE DEF Mark, marked
    <3> QED
      BY <1>3, <2>1
  <2>3. kept \ {f.nf : f \in marked} = kept
    BY <1>4, <2>2
  <2>4. StoreFacts(t, tx, at, seated) =
          [t EXCEPT !.facts = marked \cup
             {Fresh(nf) : nf \in kept \ {f.nf : f \in marked}}]
    BY DEF StoreFacts, Adopted
  <2>5. t \in Tables
    BY DEF Good
  <2> HIDE DEF marked, kept, Fresh
  <2>6. new = marked \cup {Fresh(nf) : nf \in kept}
    BY <2>3, <2>4, <2>5 DEF Tables
  <2> QED
    BY <2>1, <2>6
<1>6. /\ kept \in SUBSET tx.zero /\ tx.zero \subseteq Nf /\ IsFiniteSet(kept)
      /\ seated => /\ kept = tx.zero /\ Cardinality(kept) = 1
                   /\ Cardinality(Candidates(tx)) = 1
      /\ ~seated /\ kept # {} => /\ Cardinality(kept) = PoolSize
                                 /\ Cardinality(Candidates(tx)) = 0
  BY <1>1, KeptIs, FS_Subset
<1>placed. Placing(new, at) = Adoptions(tx, at, seated)
  <2>1. {g \in new : g.at = at} = {Fresh(nf) : nf \in kept}
    <3> HIDE DEF Mark, Fresh, kept, new
    <3> QED
      BY <1>3, <1>4, <1>5
  <2> HIDE DEF new
  <2> QED
    BY <2>1 DEF Placing, Adoptions
<1> HIDE DEF Mark, Fresh, kept, new
\* Cut back to D, the new facts are the old ones.
<1>7. /\ new \in SUBSET Fact /\ IsFiniteSet(new)
      /\ \A g \in new : (\E f \in old : g = Mark(f)) \/ (\E nf \in kept : g = Fresh(nf))
      /\ \A f \in old : Mark(f) \in new
      /\ \A nf \in kept : Fresh(nf) \in new
  <2>1. IsFiniteSet({Mark(f) : f \in old})
    <3> DEFINE M == {Mark(f) : f \in old}
               m == [f \in old |-> Mark(f)]
    <3>1. m \in [old -> M] /\ \A g \in M : \E f \in old : m[f] = g
      OBVIOUS
    <3> HIDE DEF m, M
    <3>2. IsFiniteSet(M)
      BY <1>2, <3>1, FiniteImage
    <3> QED
      BY <3>2 DEF M
  <2>2. IsFiniteSet({Fresh(nf) : nf \in kept})
    <3> DEFINE M == {Fresh(nf) : nf \in kept}
               m == [nf \in kept |-> Fresh(nf)]
    <3>1. m \in [kept -> M] /\ \A g \in M : \E nf \in kept : m[nf] = g
      OBVIOUS
    <3> HIDE DEF m, M
    <3>2. IsFiniteSet(M)
      BY <1>6, <3>1, FiniteImage
    <3> QED
      BY <3>2 DEF M
  <2>3. new = {Mark(f) : f \in old} \cup {Fresh(nf) : nf \in kept}
    BY <1>5
  <2>4. IsFiniteSet(new)
    BY <2>1, <2>2, <2>3, FS_Union
  <2> QED
    BY <1>5, <1>3, <1>4, <2>4
<1>8. AsOf(new, D) = old
  <2>1. \A f \in old : f \in AsOf(new, D)
    <3> SUFFICES ASSUME NEW f \in old PROVE f \in AsOf(new, D)
      OBVIOUS
    <3>1. Mark(f) \in new /\ Mark(f).at \in D /\ CutFact(Mark(f), D) = f
      BY <1>2, <1>3, <1>7
    <3> QED
      BY <3>1 DEF AsOf
  <2>2. ASSUME NEW g \in AsOf(new, D) PROVE g \in old
    <3>1. PICK e \in new : e.at \in D /\ g = CutFact(e, D)
      BY AsOfMember
    <3>2. PICK f \in old : e = Mark(f)
      BY <1>1, <1>4, <1>7, <3>1
    <3> QED
      BY <1>3, <3>1, <3>2
  <2> QED
    BY <2>1, <2>2
<1>9. PositionsOf(new) \subseteq D \cup {at}
  BY <1>2, <1>3, <1>4, <1>7 DEF PositionsOf
<1>10. Closed(new, D)
  <2>1. ASSUME NEW r \in D, Before(at, r) PROVE FALSE
    BY <1>1, <2>1, BeforeAsymmetric
  <2> QED
    BY <1>1, <1>9, <2>1 DEF Closed
<1>11. ASSUME NEW f \in old
       PROVE  /\ Mark(f) \in new
              /\ Mark(f) \in Confers(new) <=> f \in Confers(old)
              /\ Mark(f) \in Ceremonies(new) <=> f \in Ceremonies(old)
  <2>1. Mark(f) \in new /\ Mark(f).at \in D /\ CutFact(Mark(f), D) = f
    BY <1>2, <1>3, <1>7
  <2>2. Mark(f) \in Confers(new) <=> f \in Confers(old)
    BY <1>7, <1>8, <1>10, <2>1, ConfersAsOf
  <2> QED
    BY <1>3, <2>1, <2>2 DEF Ceremonies
<1>12. Confers(new) \subseteq new /\ Confers(old) \subseteq old
  BY DEF Confers, Founding, Ceremonies
<1>13. /\ l \in Lineage
       /\ old = {} => l = EmptyLineage
       /\ old # {} => AdoptionClosed(l)
       /\ l.live = {f.nf : f \in {g \in Confers(old) : g.spent = NotSpent}}
  BY <1>2, StandingType
<1> HIDE DEF l
<1>14. WellFormed(new)
  <2>1. ASSUME NEW g \in new, NEW h \in new, g.nf = h.nf PROVE g = h
    <3>1. CASE \E f \in old : g = Mark(f)
      <4>1. PICK f \in old : g = Mark(f)
        BY <3>1
      <4>2. PICK e \in old : h = Mark(e)
        BY <1>3, <1>4, <1>7, <2>1, <4>1
      <4> QED
        BY <1>2, <1>3, <2>1, <4>1, <4>2
    <3>2. CASE \E nf \in kept : g = Fresh(nf)
      <4>1. PICK nf \in kept : g = Fresh(nf)
        BY <3>2
      <4>2. PICK m \in kept : h = Fresh(m)
        BY <1>3, <1>4, <1>7, <2>1, <4>1
      <4> QED
        BY <1>4, <2>1, <4>1, <4>2
    <3> QED
      BY <1>7, <3>1, <3>2
  <2>2. ASSUME NEW g \in new, g.spent # NotSpent PROVE Before(g.at, g.spent)
    <3>1. PICK f \in old : g = Mark(f)
      BY <1>4, <1>7, <2>2
    <3> QED
      BY <1>2, <1>3, <2>2, <3>1 DEF WellFormed
  <2>3. ASSUME NEW g \in new, g.claimSuccessor, NEW f \in old, g = Mark(f)
        PROVE  Successor(new, g)
    <3>1. /\ Successor(old, f) /\ g.at = f.at /\ g.nameNotes = f.nameNotes
          /\ f.at # at /\ f.at \in D
      BY <1>2, <1>3, <2>3 DEF WellFormed
    <3>2. ASSUME NEW h \in new, h.at = g.at PROVE h = g
      BY <1>3, <1>4, <1>7, <2>3, <3>1, <3>2 DEF Successor
    <3>3. \E h \in Ceremonies(new) : Before(h.at, g.at)
      <4>1. PICK e \in Ceremonies(old) : Before(e.at, f.at)
        BY <3>1 DEF Successor
      <4>2. e \in old
        BY DEF Ceremonies
      <4>3. Mark(e) \in Ceremonies(new) /\ Mark(e).at = e.at
        BY <1>3, <1>11, <4>2
      <4> QED
        BY <3>1, <4>1, <4>3
    <3>4. PICK e \in Confers(old) :
            e.spent = f.at /\ \A x \in Confers(old) : x.spent = f.at => x = e
      BY <3>1 DEF Successor
    <3>5. Mark(e) \in Confers(new) /\ Mark(e).spent = g.at
      BY <1>1, <1>3, <1>11, <1>12, <3>1, <3>4
    <3>6. ASSUME NEW x \in Confers(new), x.spent = g.at PROVE x = Mark(e)
      <4>1. PICK y \in old : x = Mark(y)
        BY <1>1, <1>4, <1>7, <1>12, <3>1, <3>6
      <4>2. y \in Confers(old) /\ y.spent = f.at
        BY <1>3, <1>11, <3>1, <3>6, <4>1
      <4> QED
        BY <3>4, <4>1, <4>2
    <3> QED
      BY <3>1, <3>2, <3>3, <3>5, <3>6 DEF Successor
  <2>4. ASSUME NEW g \in new, ~g.claimSuccessor, NEW f \in old, g = Mark(f)
        PROVE  CeremonyNote(new, g)
    <3>1. /\ CeremonyNote(old, f) /\ g.at = f.at /\ g.nameNotes = f.nameNotes
          /\ f.at # at
      BY <1>2, <1>3, <2>4 DEF WellFormed
    <3>2. \A h \in new : h.at = g.at =>
            \E e \in old : h = Mark(e) /\ e.at = f.at
      BY <1>3, <1>4, <1>7, <3>1
    <3>3. \A h \in new : h.at = g.at => ~h.claimSuccessor /\ h.nameNotes = 0
      BY <1>3, <3>1, <3>2 DEF CeremonyNote
    <3>4. {x.nf : x \in {h \in new : h.at = g.at}} = {x.nf : x \in {h \in old : h.at = f.at}}
      <4>1. \A e \in old : e.at = f.at =>
              Mark(e) \in new /\ Mark(e).at = g.at /\ Mark(e).nf = e.nf
        BY <1>3, <1>7, <3>1
      <4>2. \A h \in new : h.at = g.at => \E e \in old : e.at = f.at /\ e.nf = h.nf
        BY <1>3, <3>2
      <4> QED
        BY <4>1, <4>2
    <3> QED
      BY <3>1, <3>3, <3>4 DEF CeremonyNote
  <2>5. ASSUME NEW nf \in kept, seated PROVE Successor(new, Fresh(nf))
    <3>1. kept = {nf}
      BY <1>6, <2>5, FS_Singleton
    <3>2. ASSUME NEW h \in new, h.at = at PROVE h = Fresh(nf)
      BY <1>3, <1>7, <3>1, <3>2
    <3>3. IsFiniteSet(l.live \cap tx.spends) /\ Cardinality(l.live \cap tx.spends) = 1
      <4>1. IsFiniteSet(l.live)
        <5> DEFINE S == {g \in Confers(old) : g.spent = NotSpent}
                   m == [f \in S |-> f.nf]
        <5>1. IsFiniteSet(S)
          BY <1>2, <1>12, FS_Subset
        <5>2. m \in [S -> l.live] /\ \A x \in l.live : \E f \in S : m[f] = x
          BY <1>13
        <5> HIDE DEF m, S
        <5> QED
          BY <5>1, <5>2, FiniteImage
      <4> QED
        BY <2>5, <4>1, FS_Subset DEF LiveRetirements, l
    <3>4. PICK x : l.live \cap tx.spends = {x}
      BY <3>3, FS_Singleton
    <3>5. PICK e \in Confers(old) : e.spent = NotSpent /\ e.nf = x
      BY <1>13, <3>4
    <3>6. Mark(e) \in Confers(new) /\ Mark(e).spent = at
      BY <1>3, <1>11, <1>12, <3>4, <3>5
    <3>7. ASSUME NEW h \in Confers(new), h.spent = at PROVE h = Mark(e)
      <4>1. PICK y \in old : h = Mark(y)
        BY <1>1, <1>4, <1>7, <1>12, <3>7
      <4>2. y.nf \in tx.spends /\ y.spent = NotSpent /\ y \in Confers(old)
        BY <1>3, <1>11, <3>7, <4>1
      <4>3. y.nf = x
        BY <1>13, <3>4, <4>2
      <4> QED
        BY <1>2, <1>12, <3>5, <4>1, <4>3
    <3>8. \E h \in Ceremonies(new) : Before(h.at, at)
      <4>1. PICK f \in Founding(old) : TRUE
        BY <1>2, <1>12, <3>5, FoundingExists
      <4>2. f \in Ceremonies(old) /\ f \in old
        BY DEF Founding, Ceremonies
      <4>3. Mark(f) \in Ceremonies(new) /\ Mark(f).at = f.at /\ f.at \in D
        BY <1>2, <1>3, <1>11, <4>2
      <4> QED
        BY <4>3
    <3>9. Fresh(nf).nameNotes # 0 /\ Fresh(nf).at = at
      <4>1. Fresh(nf).nameNotes = Cardinality(Candidates(tx)) /\ Fresh(nf).at = at
        BY <1>4
      <4>2. Cardinality(Candidates(tx)) = 1
        BY <1>6, <2>5
      <4> QED
        BY <4>1, <4>2
    <3> QED
      BY <3>2, <3>6, <3>7, <3>8, <3>9 DEF Successor
  <2>6. ASSUME NEW nf \in kept, ~seated PROVE CeremonyNote(new, Fresh(nf))
    <3>1. \A h \in new : h.at = at => \E m \in kept : h = Fresh(m)
      BY <1>3, <1>7
    <3>2. {x.nf : x \in {h \in new : h.at = at}} = kept
      <4>1. \A m \in kept : Fresh(m) \in new /\ Fresh(m).at = at /\ Fresh(m).nf = m
        BY <1>4, <1>7
      <4>2. \A h \in new : h.at = at => h.nf \in kept
        BY <1>4, <3>1
      <4> QED
        BY <4>1, <4>2
    <3>3. \A m \in kept : Fresh(m).nameNotes = 0 /\ ~Fresh(m).claimSuccessor
      BY <1>4, <1>6, <2>6
    <3>4. Fresh(nf).at = at /\ Cardinality(kept) = PoolSize
      BY <1>4, <1>6, <2>6
    <3> QED
      BY <3>1, <3>2, <3>3, <3>4 DEF CeremonyNote
  <2>7. ASSUME NEW g \in new
        PROVE  IF g.claimSuccessor THEN Successor(new, g) ELSE CeremonyNote(new, g)
    <3>1. CASE \E f \in old : g = Mark(f)
      BY <2>3, <2>4, <3>1
    <3>2. CASE \E nf \in kept : g = Fresh(nf)
      BY <1>4, <2>5, <2>6, <3>2
    <3> QED
      BY <1>7, <3>1, <3>2
  <2> QED
    BY <1>7, <2>1, <2>2, <2>7 DEF WellFormed
<1>15. FactsSound(new, b, D \cup {at})
  <2>1. \A g \in new : g.at \in D \cup {at} /\ g.spent \in (D \cup {at}) \cup {NotSpent}
    BY <1>2, <1>3, <1>4, <1>7
  <2>2. ASSUME NEW f \in old, NEW p \in D \cup {at}, f.nf \in TxAt(p, b).spends
        PROVE  Mark(f).spent # NotSpent
    <3>1. CASE p = at
      BY <1>1, <1>3, <2>2, <3>1
    <3>2. CASE p \in D
      <4>1. f.spent # NotSpent
        BY <2>2, <3>2 DEF FactsSound
      <4> QED
        BY <1>1, <1>3, <4>1
    <3> QED
      BY <3>1, <3>2
  <2>3. ASSUME NEW nf \in kept, NEW p \in D \cup {at} PROVE nf \notin TxAt(p, b).spends
    <3>1. nf \in CreatedNotes(tx)
      BY <1>6 DEF CreatedNotes
    <3>2. ASSUME p \in D, nf \in TxAt(p, b).spends PROVE FALSE
      <4>1. Before(at, p)
        BY <3>1, <3>2, SpentAfterCreated
      <4> QED
        BY <1>1, <3>2, <4>1, BeforeAsymmetric
    <3> QED
      BY <1>4, <3>2
  <2>4. ASSUME NEW g \in new, NEW p \in D \cup {at}, g.nf \in TxAt(p, b).spends
        PROVE  g.spent # NotSpent
    <3>1. CASE \E f \in old : g = Mark(f)
      BY <1>3, <2>2, <2>4, <3>1
    <3>2. CASE \E nf \in kept : g = Fresh(nf)
      BY <1>4, <2>3, <2>4, <3>2
    <3> QED
      BY <1>7, <3>1, <3>2
  <2>5. ASSUME NEW p \in D \cup {at}, NEW nf \in KeptAdoptions(TxAt(p, b), FALSE)
        PROVE  \E g \in new : g.nf = nf /\ g.at = p
    <3>1. CASE p \in D
      <4>1. PICK f \in old : f.nf = nf /\ f.at = p
        BY <2>5, <3>1 DEF FactsSound
      <4> QED
        BY <1>3, <1>7, <4>1
    <3>2. CASE p = at
      <4>1. ~seated
        BY <1>1, <2>5, <3>2, KeptIs
      <4>2. nf \in kept
        BY <2>5, <3>2, <4>1 DEF kept
      <4> QED
        BY <1>4, <1>7, <3>2, <4>2
    <3> QED
      BY <3>1, <3>2
  <2> QED
    BY <1>14, <2>1, <2>4, <2>5 DEF FactsSound
<1> DEFINE stored == FactsAt(new, at)
           now == TxAnchorFacts(tx, seated)
<1>16. /\ stored.adoptions = kept
       /\ stored.retirements = {f.nf : f \in {g \in old : g.nf \in tx.spends}}
       /\ stored.nameNotes = (IF kept = {} THEN 0 ELSE Cardinality(Candidates(tx)))
       /\ stored.claimSuccessor = (seated /\ kept # {})
  <2> DEFINE A == {g \in new : g.at = at}
  <2>1. \A g \in A : \E nf \in kept : g = Fresh(nf)
    BY <1>3, <1>7
  <2>2. \A nf \in kept : Fresh(nf) \in A /\ Fresh(nf).nf = nf
    BY <1>4, <1>7
  <2>3. {g.nf : g \in A} = kept
    BY <1>4, <2>1, <2>2
  <2>4. {g.nf : g \in {h \in new : h.spent = at}} =
          {f.nf : f \in {g \in old : g.nf \in tx.spends}}
    <3>1. \A h \in new : h.spent = at => \E f \in old : f.nf \in tx.spends /\ f.nf = h.nf
      BY <1>1, <1>3, <1>4, <1>7
    <3>2. \A f \in old : f.nf \in tx.spends =>
            Mark(f) \in new /\ Mark(f).spent = at /\ Mark(f).nf = f.nf
      BY <1>3, <1>7
    <3> QED
      BY <3>1, <3>2
  <2>5. (IF A = {} THEN 0 ELSE (CHOOSE f \in A : TRUE).nameNotes) =
          (IF kept = {} THEN 0 ELSE Cardinality(Candidates(tx)))
    <3>1. A = {} <=> kept = {}
      BY <2>1, <2>2
    <3>2. A # {} => (CHOOSE f \in A : TRUE) \in A
      OBVIOUS
    <3>3. \A g \in A : g.nameNotes = Cardinality(Candidates(tx))
      BY <1>4, <2>1
    <3> HIDE DEF A
    <3> QED
      BY <3>1, <3>2, <3>3
  <2>6. (\E f \in A : f.claimSuccessor) = (seated /\ kept # {})
    <3>1. ASSUME NEW f \in A, f.claimSuccessor PROVE seated /\ kept # {}
      BY <1>4, <2>1, <3>1
    <3>2. ASSUME seated, kept # {} PROVE \E f \in A : f.claimSuccessor
      BY <1>4, <2>2, <3>2
    <3> QED
      BY <3>1, <3>2, Zenon
  <2> QED
    BY <2>3, <2>4, <2>5, <2>6 DEF FactsAt
<1>17. Standing(new) = StepTx(l, at[1], stored)
  BY <1>1, <1>8, <1>9, <1>14, StandingSteps DEF l
<1>18. /\ now.adoptions = kept /\ now.retirements = tx.spends
       /\ now.nameNotes = Cardinality(Candidates(tx)) /\ now.claimSuccessor = seated
  BY DEF TxAnchorFacts, kept
\* What stands is stored, so both records retire the same notes.
<1>19. /\ l.live \cap stored.retirements = l.live \cap tx.spends
       /\ l.live \ stored.retirements = l.live \ tx.spends
  <2>1. \A x \in l.live : \E f \in old : f.nf = x
    BY <1>12, <1>13
  <2> QED
    BY <1>16, <2>1
<1> HIDE DEF stored, now
<1>20. StepTx(l, at[1], stored) = StepTx(l, at[1], now)
  <2>1. CASE seated
    <3>1. Cardinality(l.live \cap tx.spends) = 1
      BY <2>1 DEF LiveRetirements, l
    <3>2. Cardinality(kept) = 1 /\ Cardinality(Candidates(tx)) = 1 /\ kept # {}
      BY <1>6, <2>1, FS_EmptySet
    <3>3. StepTx(l, at[1], stored) = [live |-> (l.live \ stored.retirements) \cup kept,
                                      established |-> l.established]
      <4>1. stored.claimSuccessor = TRUE
        BY <1>16, <2>1, <3>2, Zenon
      <4>2. stored.nameNotes # 0 /\ Cardinality(stored.adoptions) = 1
        BY <1>16, <3>2
      <4>3. Cardinality(l.live \cap stored.retirements) = 1
        BY <1>19, <3>1
      <4> QED
        BY <1>13, <1>16, <4>1, <4>2, <4>3, StepSeats
    <3>4. StepTx(l, at[1], now) = [live |-> (l.live \ now.retirements) \cup kept,
                                   established |-> l.established]
      <4>1. /\ now.claimSuccessor = TRUE /\ now.nameNotes # 0
            /\ Cardinality(now.adoptions) = 1
            /\ Cardinality(l.live \cap now.retirements) = 1
        BY <1>18, <2>1, <3>1, <3>2
      <4> QED
        BY <1>13, <1>18, <4>1, StepSeats
    <3> QED
      BY <1>18, <1>19, <3>3, <3>4
  <2>2. CASE ~seated /\ (kept = {} \/ AdoptionClosed(l))
    <3>1. kept = {} => /\ ~IsCeremonyFill(Cardinality(stored.adoptions), stored.nameNotes)
                       /\ ~IsCeremonyFill(Cardinality(now.adoptions), now.nameNotes)
      BY <1>16, <1>18, FS_EmptySet, PoolSizeAssumption DEF IsCeremonyFill, PoolSizeAssumption
    <3>2. StepTx(l, at[1], stored) = [live |-> l.live \ stored.retirements,
                                      established |-> l.established]
      BY <1>13, <1>16, <2>2, <3>1, StepRetires
    <3>3. StepTx(l, at[1], now) = [live |-> l.live \ now.retirements,
                                   established |-> l.established]
      BY <1>13, <1>18, <2>2, <3>1, StepRetires
    <3> QED
      BY <1>18, <1>19, <3>2, <3>3
  <2>3. CASE ~seated /\ kept # {} /\ ~AdoptionClosed(l)
    <3>1. old = {} /\ l = EmptyLineage
      BY <1>13, <2>3
    <3>2. /\ Cardinality(kept) = PoolSize /\ Cardinality(Candidates(tx)) = 0
          /\ kept \subseteq Nf /\ kept \cap tx.spends = {}
      BY <1>4, <1>6, <2>3
    <3>3. stored.retirements = {}
      BY <1>16, <3>1
    <3>4. StepTx(EmptyLineage, at[1], stored) = [live |-> kept, established |-> at[1]]
      BY <1>16, <2>3, <3>2, <3>3, StepFounds
    <3>5. StepTx(EmptyLineage, at[1], now) = [live |-> kept, established |-> at[1]]
      BY <1>18, <2>3, <3>2, StepFounds
    <3> QED
      BY <3>1, <3>4, <3>5
  <2> QED
    BY <2>1, <2>2, <2>3
<1> QED
  BY <1>8, <1>15, <1>17, <1>20, <1>placed DEF l, now, new

-----------------------------------------------------------------------------
(* Sound histories.                                                        *)

\* The positions of the records of a name, in either log.
RecordsOf(t, name) ==
  {e.at : e \in {x \in t.events : x.note.name = name}} \cup
  {i.at : i \in {x \in t.implicit : x.name = name}}

\* Records lie in D, and no transaction writes to both logs.
Placed(t, D) ==
  /\ \A e \in t.events : e.at \in D
  /\ \A i \in t.implicit : i.at \in D
  /\ \A e \in t.events, i \in t.implicit : e.at # i.at

\* HistoryIsChained, said of any tables.
Chained(t) ==
  /\ \A e \in t.events : CheckChainRule(LiveBefore(t, e.note.name, e.at), e.note)
  /\ \A i \in t.implicit : i.nf \in NotesOf(LiveBefore(t, i.name, i.at))

\* Where D spends the note of a binding the name has a record, and a later
\* record of the name means that the note was spent by then.
Follows(t, b, D) ==
  \A e \in t.events : e.note.action # "release" =>
    /\ \A p \in D : e.note.nf \in TxAt(p, b).spends => p \in RecordsOf(t, e.note.name)
    /\ \A q \in RecordsOf(t, e.note.name) :
         Before(e.at, q) => \E p \in D : ~Before(q, p) /\ e.note.nf \in TxAt(p, b).spends

HistorySound(t, b, D) ==
  Placed(t, D) /\ t.names = ImpliedTips(t) /\ Chained(t) /\ Follows(t, b, D)

\* Records have positions, and a binding's note is created at its record.
LEMMA RecordTypes ==
  ASSUME NEW b \in Branch, NEW t, Good(t, b)
  PROVE  /\ \A n : RecordsOf(t, n) \in SUBSET Position
         /\ \A i \in t.implicit : i.at \in Position /\ i.name \in Name
         /\ \A e \in t.events :
              /\ e.at \in Position /\ e.at \in Mined(b)
              /\ e.note \in Note /\ e.note.nf \in Nf /\ e.note.name \in Name
              /\ e.note.nf \in CreatedNotes(TxAt(e.at, b))
              /\ e.note = TheNote(TxAt(e.at, b)) /\ e.txid = TxAt(e.at, b).id
              /\ HasSingleNameNote(TxAt(e.at, b))
         /\ t.names \subseteq t.events
<1>1. /\ t.events \subseteq Row /\ t.implicit \subseteq ImplicitRow
      /\ TablesOnBranch(t, b)
  BY DEF Good, Tables
<1>2. ASSUME NEW e \in t.events
      PROVE  /\ e.at \in Position /\ e.at \in Mined(b)
             /\ e.note \in Note /\ e.note.nf \in Nf /\ e.note.name \in Name
             /\ e.note.nf \in CreatedNotes(TxAt(e.at, b))
             /\ e.note = TheNote(TxAt(e.at, b)) /\ e.txid = TxAt(e.at, b).id
             /\ HasSingleNameNote(TxAt(e.at, b))
  <2>1. e.at \in Position /\ e.note \in Note /\ e.note.nf \in Nf
    BY <1>1 DEF Row
  <2>2. /\ OnBranch(e.at, b) /\ e.note = TheNote(TxAt(e.at, b))
        /\ e.txid = TxAt(e.at, b).id /\ HasSingleNameNote(TxAt(e.at, b))
    BY <1>1 DEF TablesOnBranch
  <2>3. e.at \in Mined(b) /\ TxAt(e.at, b) \in Tx
    BY <2>1, <2>2, MinedPositions
  <2>4. e.note \in TxAt(e.at, b).relaxed
    BY <2>2, <2>3, TheNoteIsNote
  <2>5. e.note.nf \in CreatedNotes(TxAt(e.at, b))
    BY <2>1, <2>4, RegistryAssumption DEF CreatedNotes, RegistryAssumption
  <2>6. e.note.name \in Name
    BY <2>1 DEF Note
  <2> QED
    BY <2>1, <2>2, <2>3, <2>5, <2>6
<1>3. ASSUME NEW i \in t.implicit PROVE i.at \in Position /\ i.name \in Name
  BY <1>1 DEF ImplicitRow
<1>4. ASSUME NEW n PROVE RecordsOf(t, n) \in SUBSET Position
  BY <1>2, <1>3 DEF RecordsOf
<1>5. t.names \subseteq t.events
  BY <1>1 DEF TablesOnBranch
<1> QED
  BY <1>2, <1>3, <1>4, <1>5

\* A binding is live before a position when no record of its name lies
\* between; it is a tip when no record of its name lies after it.
LEMMA LiveIs ==
  ASSUME NEW b \in Branch, NEW t, Good(t, b), NEW D, Placed(t, D),
         NEW n, NEW p \in Position, NEW r
  PROVE  r \in LiveBefore(t, n, p) <=>
           /\ r \in t.events /\ r.note.name = n /\ r.note.action # "release"
           /\ Before(r.at, p)
           /\ \A q \in RecordsOf(t, n) : Before(q, p) => ~Before(r.at, q)
<1>1. /\ \A e \in t.events : e.at \in Position
      /\ \A i \in t.implicit : i.at \in Position
      /\ \A e \in t.events, i \in t.implicit : e.at # i.at
  BY RecordTypes DEF Placed
<1>2. \A e \in t.events, i \in t.implicit : Before(i.at, e.at) <=> ~Before(e.at, i.at)
  BY <1>1, BeforeTotal, BeforeAsymmetric
<1> QED
  BY <1>2 DEF LiveBefore, RebuiltTip, RecordsOf

\* A tip the logs imply is an event, no release, with no later record.
LEMMA TipIs ==
  ASSUME NEW b \in Branch, NEW t, Good(t, b), NEW D, Placed(t, D), NEW r
  PROVE  /\ r \in ImpliedTips(t) <=>
              /\ r \in t.events /\ r.note.action # "release"
              /\ \A q \in RecordsOf(t, r.note.name) : ~Before(r.at, q)
         /\ \A n \in Name : r \in RebuiltTip(t.events, t.implicit, n) <=>
              r \in ImpliedTips(t) /\ r.note.name = n
<1>1. /\ \A e \in t.events : e.at \in Position /\ e.note.name \in Name
      /\ \A i \in t.implicit : i.at \in Position
      /\ \A e \in t.events, i \in t.implicit : e.at # i.at
  BY RecordTypes DEF Placed
<1>2. \A e \in t.events, i \in t.implicit : Before(i.at, e.at) <=> ~Before(e.at, i.at)
  BY <1>1, BeforeTotal, BeforeAsymmetric
<1>3. r \in ImpliedTips(t) <=>
        r \in t.events /\ r \in RebuiltTip(t.events, t.implicit, r.note.name)
  BY <1>1 DEF ImpliedTips, RebuiltTip
<1>4. \A n \in Name : r \in RebuiltTip(t.events, t.implicit, n) <=>
        r \in ImpliedTips(t) /\ r.note.name = n
  BY <1>1 DEF ImpliedTips, RebuiltTip
<1>5. r \in t.events /\ r \in RebuiltTip(t.events, t.implicit, r.note.name) <=>
        /\ r \in t.events /\ r.note.action # "release"
        /\ \A q \in RecordsOf(t, r.note.name) : ~Before(r.at, q)
  BY <1>2 DEF RebuiltTip, RecordsOf
<1> QED
  BY <1>3, <1>4, <1>5

\* A binding whose note is not spent is a tip, and a tip is not spent.
LEMMA UnspentIsTip ==
  ASSUME NEW b \in Branch, Lawful(b), NEW t, Good(t, b),
         NEW D \in SUBSET Mined(b), HistorySound(t, b, D)
  PROVE  /\ \A e \in t.events :
              /\ e.note.action # "release"
              /\ \A p \in D : e.note.nf \notin TxAt(p, b).spends
              => e \in t.names
         /\ \A r \in t.names, p \in D : r.note.nf \notin TxAt(p, b).spends
<1>1. ASSUME NEW e \in t.events, e.note.action # "release",
             \A p \in D : e.note.nf \notin TxAt(p, b).spends
      PROVE  e \in t.names
  <2>1. \A q \in RecordsOf(t, e.note.name) : ~Before(e.at, q)
    BY <1>1 DEF HistorySound, Follows
  <2> QED
    BY <1>1, <2>1, TipIs DEF HistorySound
<1>2. ASSUME NEW r \in t.names, NEW p \in D, r.note.nf \in TxAt(p, b).spends
      PROVE  FALSE
  <2>1. /\ r \in t.events /\ r.note.action # "release"
        /\ \A q \in RecordsOf(t, r.note.name) : ~Before(r.at, q)
    BY TipIs DEF HistorySound
  <2>2. p \in RecordsOf(t, r.note.name)
    BY <1>2, <2>1 DEF HistorySound, Follows
  <2>3. Before(r.at, p)
    BY <1>2, <2>1, RecordTypes, SpentAfterCreated
  <2> QED
    BY <2>1, <2>2, <2>3
<1> QED
  BY <1>1, <1>2

\* A transaction that gives a record to exactly those names whose tip it
\* spends, besides the name it admits, keeps the history sound.
LEMMA HistoryExtends ==
  ASSUME NEW b \in Branch, Lawful(b), NEW t, Good(t, b), NEW u, Good(u, b),
         NEW D \in SUBSET Mined(b), HistorySound(t, b, D),
         NEW at \in Mined(b), \A p \in D : Before(p, at),
         t.events \subseteq u.events, t.implicit \subseteq u.implicit,
         \A e \in u.events \ t.events :
            e.at = at /\ CheckChainRule(ReadTip(t, e.note.name), e.note),
         \A i \in u.implicit \ t.implicit :
            i.at = at /\ i.nf \in NotesOf(ReadTip(t, i.name)),
         u.events = t.events \/ u.implicit = t.implicit,
         \A r \in t.names :
            r.note.nf \in TxAt(at, b).spends <=> at \in RecordsOf(u, r.note.name),
         u.names = {r \in t.names : r.note.nf \notin TxAt(at, b).spends} \cup
                   {e \in u.events \ t.events : e.note.action # "release"}
  PROVE  HistorySound(u, b, D \cup {at})
<1> DEFINE tx == TxAt(at, b)
           E == D \cup {at}
<1>1. /\ at \in Position /\ D \in SUBSET Position /\ at \notin D
      /\ ~Before(at, at) /\ \A p \in D : ~Before(at, p)
      /\ E \in SUBSET Mined(b)
  BY MinedPositions, BeforeIrreflexive, BeforeAsymmetric
<1>2. Placed(t, D) /\ t.names = ImpliedTips(t) /\ Chained(t) /\ Follows(t, b, D)
  BY DEF HistorySound
<1>3. Placed(u, E)
  BY <1>1, <1>2 DEF Placed
<1>4. ASSUME NEW n
      PROVE  /\ RecordsOf(t, n) \subseteq D
             /\ RecordsOf(t, n) \subseteq RecordsOf(u, n)
             /\ RecordsOf(u, n) \subseteq RecordsOf(t, n) \cup {at}
  BY <1>2 DEF Placed, RecordsOf
<1>5. /\ \A e \in t.events :
           /\ e.note.action # "release"
           /\ \A p \in D : e.note.nf \notin TxAt(p, b).spends
           => e \in t.names
      /\ \A r \in t.names, p \in D : r.note.nf \notin TxAt(p, b).spends
      /\ t.names \subseteq t.events
  BY UnspentIsTip, RecordTypes
<1>6. u.names = ImpliedTips(u)
  <2>1. ASSUME NEW r \in u.names PROVE r \in ImpliedTips(u)
    <3>1. CASE r \in t.names
      <4>1. /\ r \in t.events /\ r.note.action # "release"
            /\ \A q \in RecordsOf(t, r.note.name) : ~Before(r.at, q)
        BY <1>2, <3>1, TipIs
      <4>2. at \notin RecordsOf(u, r.note.name)
        BY <1>1, <2>1, <3>1, <4>1
      <4>3. \A q \in RecordsOf(u, r.note.name) : ~Before(r.at, q)
        BY <1>4, <4>1, <4>2
      <4> QED
        BY <1>3, <4>1, <4>3, TipIs
    <3>2. CASE r \notin t.names
      <4>1. r \in u.events /\ r.at = at /\ r.note.action # "release"
        BY <2>1, <3>2
      <4>2. \A q \in RecordsOf(u, r.note.name) : ~Before(at, q)
        BY <1>1, <1>4
      <4> QED
        BY <1>3, <4>1, <4>2, TipIs
    <3> QED
      BY <3>1, <3>2
  <2>2. ASSUME NEW r \in ImpliedTips(u) PROVE r \in u.names
    <3>1. /\ r \in u.events /\ r.note.action # "release"
          /\ \A q \in RecordsOf(u, r.note.name) : ~Before(r.at, q)
      BY <1>3, TipIs
    <3>2. CASE r \in t.events
      <4>1. \A q \in RecordsOf(t, r.note.name) : ~Before(r.at, q)
        BY <1>4, <3>1
      <4>2. r \in t.names
        BY <1>2, <3>1, <3>2, <4>1, TipIs
      <4>3. Before(r.at, at)
        BY <1>2, <3>2 DEF Placed
      <4>4. at \notin RecordsOf(u, r.note.name)
        BY <3>1, <4>3
      <4> QED
        BY <4>2, <4>4
    <3>3. CASE r \notin t.events
      BY <3>1, <3>3
    <3> QED
      BY <3>2, <3>3
  <2> QED
    BY <2>1, <2>2
\* Before a position of D the logs are what they were; before `at` they are
\* the old ones.
<1>7. /\ \A p \in D : {e \in u.events : Before(e.at, p)} = {e \in t.events : Before(e.at, p)}
      /\ \A p \in D : {i \in u.implicit : Before(i.at, p)} = {i \in t.implicit : Before(i.at, p)}
      /\ {e \in u.events : Before(e.at, at)} = t.events
      /\ {i \in u.implicit : Before(i.at, at)} = t.implicit
  BY <1>1, <1>2 DEF Placed
<1>8. /\ \A n, p : p \in D => LiveBefore(u, n, p) = LiveBefore(t, n, p)
      /\ \A n \in Name : LiveBefore(u, n, at) = ReadTip(t, n)
  <2>1. ASSUME NEW n, NEW p \in D PROVE LiveBefore(u, n, p) = LiveBefore(t, n, p)
    BY <1>7 DEF LiveBefore
  <2>2. ASSUME NEW n \in Name PROVE LiveBefore(u, n, at) = ReadTip(t, n)
    <3>1. LiveBefore(u, n, at) = RebuiltTip(t.events, t.implicit, n)
      BY <1>7 DEF LiveBefore
    <3>2. \A r : r \in RebuiltTip(t.events, t.implicit, n) <=> r \in t.names /\ r.note.name = n
      BY <1>2, TipIs
    <3> QED
      BY <3>1, <3>2 DEF ReadTip
  <2> QED
    BY <2>1, <2>2
<1>9. Chained(u)
  <2>1. ASSUME NEW e \in u.events
        PROVE  CheckChainRule(LiveBefore(u, e.note.name, e.at), e.note)
    <3>1. CASE e \in t.events
      <4>1. e.at \in D /\ CheckChainRule(LiveBefore(t, e.note.name, e.at), e.note)
        BY <1>2, <3>1 DEF Placed, Chained
      <4> QED
        BY <1>8, <4>1
    <3>2. CASE e \notin t.events
      <4>1. e.at = at /\ e.note.name \in Name
        BY <3>2, RecordTypes
      <4> QED
        BY <1>8, <3>2, <4>1
    <3> QED
      BY <3>1, <3>2
  <2>2. ASSUME NEW i \in u.implicit PROVE i.nf \in NotesOf(LiveBefore(u, i.name, i.at))
    <3>1. CASE i \in t.implicit
      <4>1. i.at \in D /\ i.nf \in NotesOf(LiveBefore(t, i.name, i.at))
        BY <1>2, <3>1 DEF Placed, Chained
      <4> QED
        BY <1>8, <4>1
    <3>2. CASE i \notin t.implicit
      <4>1. i.at = at /\ i.name \in Name
        BY <3>2, RecordTypes
      <4> QED
        BY <1>8, <3>2, <4>1
    <3> QED
      BY <3>1, <3>2
  <2> QED
    BY <2>1, <2>2 DEF Chained
<1>10. Follows(u, b, E)
  <2> SUFFICES ASSUME NEW e \in u.events, e.note.action # "release"
               PROVE  /\ \A p \in E : e.note.nf \in TxAt(p, b).spends =>
                           p \in RecordsOf(u, e.note.name)
                      /\ \A q \in RecordsOf(u, e.note.name) : Before(e.at, q) =>
                           \E p \in E : ~Before(q, p) /\ e.note.nf \in TxAt(p, b).spends
    BY DEF Follows
  <2>1. e.at \in Mined(b) /\ e.note.nf \in CreatedNotes(TxAt(e.at, b))
    BY RecordTypes
  <2>2. CASE e \in t.events
    <3>1. (\E p \in D : e.note.nf \in TxAt(p, b).spends) \/ e \in t.names
      BY <1>5, <2>2
    <3>2. ASSUME NEW p \in E, e.note.nf \in TxAt(p, b).spends
          PROVE  p \in RecordsOf(u, e.note.name)
      <4>1. CASE p \in D
        BY <1>2, <1>4, <2>2, <3>2, <4>1 DEF Follows
      <4>2. CASE p = at
        <5>1. \A x \in D : e.note.nf \notin TxAt(x, b).spends
          BY <1>1, <3>2, <4>2, SpentOnce
        <5> QED
          BY <3>1, <3>2, <4>2, <5>1
      <4> QED
        BY <4>1, <4>2
    <3>3. ASSUME NEW q \in RecordsOf(u, e.note.name), Before(e.at, q)
          PROVE  \E p \in E : ~Before(q, p) /\ e.note.nf \in TxAt(p, b).spends
      <4>1. CASE q \in RecordsOf(t, e.note.name)
        BY <1>2, <2>2, <3>3, <4>1 DEF Follows
      <4>2. CASE q = at
        BY <1>1, <3>1, <4>2
      <4> QED
        BY <1>4, <4>1, <4>2
    <3> QED
      BY <3>2, <3>3
  <2>3. CASE e \notin t.events
    <3>1. e.at = at
      BY <2>3
    <3>2. \A p \in E : e.note.nf \notin TxAt(p, b).spends
      BY <1>1, <2>1, <3>1, SpentAfterCreated
    <3>3. \A q \in RecordsOf(u, e.note.name) : ~Before(at, q)
      BY <1>1, <1>4
    <3> QED
      BY <3>1, <3>2, <3>3
  <2> QED
    BY <2>2, <2>3
<1> QED
  BY <1>3, <1>6, <1>9, <1>10 DEF HistorySound

\* An admission that spends the tip it replaces, and no other, is new and
\* keeps the history sound.
LEMMA RecordHistory ==
  ASSUME NEW b \in Branch, Lawful(b), NEW t, Good(t, b),
         NEW D \in SUBSET Mined(b), HistorySound(t, b, D),
         NEW at \in Mined(b), \A p \in D : Before(p, at),
         NEW tx, tx = TxAt(at, b), HasSingleNameNote(tx), TheNote(tx).nf # NoNf,
         CheckChainRule(ReadTip(t, TheNote(tx).name), TheNote(tx)),
         \A r \in t.names : r.note.nf \in tx.spends <=> r.note.name = TheNote(tx).name
  PROVE  LET row == AdmissionRow(tx, at)
         IN  IsNewEvent(t, row) /\ HistorySound(RecordAdmission(t, row), b, D \cup {at})
<1> DEFINE row == AdmissionRow(tx, at)
           u == RecordAdmission(t, row)
<1>1. at \in Position /\ OnBranch(at, b) /\ t \in Tables /\ ~Before(at, at) /\ at \notin D
  BY MinedPositions, BeforeIrreflexive DEF Good
<1>2. row.note = TheNote(tx) /\ row.at = at /\ row.txid = tx.id
  BY DEF AdmissionRow
<1>3. Placed(t, D)
  BY DEF HistorySound
<1>4. IsNewEvent(t, row)
  <2>1. ASSUME NEW e \in t.events, e.txid = row.txid PROVE FALSE
    <3>1. e.at \in D /\ e.at \in Mined(b) /\ e.txid = TxAt(e.at, b).id
      BY <1>3, RecordTypes DEF Placed
    <3>2. TxAt(e.at, b) \in Tx /\ tx \in Tx
      BY <3>1, MinedPositions
    <3>3. TxAt(e.at, b) = tx
      BY <1>2, <2>1, <3>1, <3>2, IdentityAssumption DEF IdentityAssumption
    <3> QED
      BY <1>1, <3>1, <3>3 DEF Lawful
  <2> QED
    BY <2>1 DEF IsNewEvent
<1> HIDE DEF row
<1>5. /\ u.events = t.events \cup {row} /\ u.implicit = t.implicit
      /\ u.names = {r \in t.names : r.note.name # row.note.name} \cup
                   (IF row.note.action = "release" THEN {} ELSE {row})
  <2>1. u = [t EXCEPT !.events = @ \cup {row},
                      !.names  = {r \in @ : r.note.name # row.note.name} \cup
                                 (IF row.note.action = "release" THEN {} ELSE {row})]
    BY <1>4 DEF RecordAdmission
  <2> HIDE DEF u
  <2> QED
    BY <1>1, <2>1 DEF Tables
<1>6. Good(u, b)
  BY <1>1, RecordAdmissionGood DEF row
<1> HIDE DEF u
<1>7. row \notin t.events
  BY <1>1, <1>2, <1>3 DEF Placed
<1>8. \A n : at \in RecordsOf(u, n) <=> n = row.note.name
  BY <1>1, <1>2, <1>3, <1>5 DEF RecordsOf, Placed
<1>9. \A e \in u.events \ t.events :
        e.at = at /\ CheckChainRule(ReadTip(t, e.note.name), e.note)
  BY <1>2, <1>5
<1>10. u.names = {r \in t.names : r.note.nf \notin tx.spends} \cup
                 {e \in u.events \ t.events : e.note.action # "release"}
  BY <1>2, <1>5, <1>7
<1>11. \A r \in t.names : r.note.nf \in tx.spends <=> at \in RecordsOf(u, r.note.name)
  BY <1>2, <1>8
<1>12. HistorySound(u, b, D \cup {at})
  BY <1>5, <1>6, <1>9, <1>10, <1>11, HistoryExtends
<1> QED
  BY <1>4, <1>12 DEF row, u

\* Ending the bindings whose tips the transaction spends keeps it sound.
LEMMA EndHistory ==
  ASSUME NEW b \in Branch, Lawful(b), NEW t, Good(t, b),
         NEW D \in SUBSET Mined(b), HistorySound(t, b, D),
         NEW at \in Mined(b), \A p \in D : Before(p, at),
         NEW tx, tx = TxAt(at, b), NEW ended,
         ended = {r \in t.names : r.note.nf \in tx.spends}
  PROVE  HistorySound(EndBindings(t, ended, tx, at), b, D \cup {at})
<1> DEFINE u == EndBindings(t, ended, tx, at)
           ends == {[name |-> r.note.name, at |-> at,
                     txid |-> tx.id, nf |-> r.note.nf] : r \in ended}
<1>1. /\ at \in Position /\ OnBranch(at, b) /\ t \in Tables /\ TipsDistinct(t)
      /\ ~Before(at, at) /\ at \notin D
  BY MinedPositions, BeforeIrreflexive DEF Good
<1>2. Placed(t, D)
  BY DEF HistorySound
<1>3. /\ u.events = t.events /\ u.implicit = t.implicit \cup ends
      /\ u.names = t.names \ ended
  <2>1. u = [t EXCEPT !.names = @ \ ended, !.implicit = @ \cup ends]
    BY DEF EndBindings
  <2> HIDE DEF u, ends
  <2> QED
    BY <1>1, <2>1 DEF Tables
<1>4. Good(u, b)
  BY <1>1, EndBindingsGood
<1>5. \A i \in ends : i.at = at /\ \E r \in ended : i.name = r.note.name /\ i.nf = r.note.nf
  OBVIOUS
<1>6. ASSUME NEW r \in ended PROVE \E i \in ends : i.at = at /\ i.name = r.note.name
  <2> DEFINE i == [name |-> r.note.name, at |-> at, txid |-> tx.id, nf |-> r.note.nf]
  <2>1. i \in ends /\ i.at = at /\ i.name = r.note.name
    OBVIOUS
  <2> HIDE DEF i, ends
  <2> QED
    BY <2>1
<1> HIDE DEF u, ends
<1>7. \A i \in u.implicit \ t.implicit : i.at = at /\ i.nf \in NotesOf(ReadTip(t, i.name))
  BY <1>3, <1>5 DEF NotesOf, ReadTip
<1>8. \A r \in t.names : r.note.nf \in tx.spends <=> at \in RecordsOf(u, r.note.name)
  <2>1. ASSUME NEW r \in ended PROVE at \in RecordsOf(u, r.note.name)
    BY <1>3, <1>6 DEF RecordsOf
  <2>2. ASSUME NEW r \in t.names, at \in RecordsOf(u, r.note.name) PROVE r \in ended
    <3>1. PICK i \in ends : i.name = r.note.name
      BY <1>1, <1>2, <1>3, <2>2 DEF RecordsOf, Placed
    <3>2. PICK x \in ended : x.note.name = r.note.name
      BY <1>5, <3>1
    <3> QED
      BY <1>1, <3>2 DEF TipsDistinct
  <2> QED
    BY <2>1, <2>2
<1>9. u.names = {r \in t.names : r.note.nf \notin tx.spends} \cup
                {e \in u.events \ t.events : e.note.action # "release"}
  BY <1>3
<1>10. HistorySound(u, b, D \cup {at})
  BY <1>3, <1>4, <1>7, <1>8, <1>9, HistoryExtends
<1> QED
  BY <1>10 DEF u

\* The history is that of the two logs and the tips.
LEMMA SameHistory ==
  ASSUME NEW t, NEW u, u.events = t.events, u.implicit = t.implicit, u.names = t.names,
         NEW b, NEW D, HistorySound(t, b, D)
  PROVE  HistorySound(u, b, D)
<1>1. \A n : RecordsOf(u, n) = RecordsOf(t, n)
  BY DEF RecordsOf
<1>2. \A n, p : LiveBefore(u, n, p) = LiveBefore(t, n, p)
  BY DEF LiveBefore
<1>3. ImpliedTips(u) = ImpliedTips(t)
  BY DEF ImpliedTips
<1>4. Placed(u, D) /\ Follows(u, b, D)
  BY <1>1 DEF HistorySound, Placed, Follows
<1>5. Chained(u)
  BY <1>2 DEF HistorySound, Chained
<1> QED
  BY <1>3, <1>4, <1>5 DEF HistorySound

-----------------------------------------------------------------------------
(* Sound tables.                                                           *)

Sound(t, b, D) == HistorySound(t, b, D) /\ FactsSound(t.facts, b, D)

\* The empty tables are sound for no position.
LEMMA EmptyIsSound == Sound(EmptyTables, << >>, Mined(<< >>)) /\ Lawful(<< >>)
<1>1. Mined(<< >>) = {}
  BY DEF Mined
<1>2. Lawful(<< >>)
  BY <1>1 DEF Lawful
<1>3. /\ EmptyTables.events = {} /\ EmptyTables.implicit = {}
      /\ EmptyTables.names = {} /\ EmptyTables.facts = {}
  BY DEF EmptyTables
<1>4. HistorySound(EmptyTables, << >>, {})
  BY <1>3 DEF HistorySound, Placed, Chained, Follows, ImpliedTips, RebuiltTip
<1>5. FactsSound({}, << >>, {})
  BY FS_EmptySet DEF FactsSound, WellFormed
<1> QED
  BY <1>1, <1>2, <1>3, <1>4, <1>5 DEF Sound

\* Soundness is about the transactions of D only.
LEMMA SoundMoves ==
  ASSUME NEW t, NEW b, NEW c, NEW D, Sound(t, b, D), \A p \in D : TxAt(p, c) = TxAt(p, b)
  PROVE  Sound(t, c, D)
<1>1. Follows(t, c, D)
  BY DEF Sound, HistorySound, Follows
<1>2. FactsSound(t.facts, c, D)
  BY DEF Sound, FactsSound
<1> QED
  BY <1>1, <1>2 DEF Sound, HistorySound

\* A rewind leaves the facts as of the positions up to the cut.
LEMMA RewoundIsAsOf ==
  ASSUME NEW b \in Branch, NEW t, Good(t, b), FactsSound(t.facts, b, Mined(b)),
         NEW k \in 0..Len(b)
  PROVE  Rewound(t, k).facts = AsOf(t.facts, {p \in Mined(b) : p[1] <= k})
<1> DEFINE C == {p \in Mined(b) : p[1] <= k}
<1>1. Mined(b) \in SUBSET Position /\ k \in Nat /\ C \in SUBSET Mined(b)
  BY MinedPositions
<1>2. /\ t.facts \in SUBSET Fact
      /\ \A f \in t.facts : f.at \in Mined(b) /\ f.spent \in Mined(b) \cup {NotSpent}
  BY DEF FactsSound, WellFormed
<1>3. ASSUME NEW f \in t.facts
      PROVE  /\ f.at[1] <= k <=> f.at \in C
             /\ CutFact(f, C) =
                  IF f.spent[1] > k THEN [f EXCEPT !.spent = NotSpent] ELSE f
  <2>1. f \in Fact /\ f.at \in Mined(b) /\ f.spent \in Mined(b) \cup {NotSpent}
    BY <1>2
  <2>2. f.spent[1] \in Nat /\ NotSpent[1] = 0
    BY <1>1, <2>1 DEF Position, NotSpent
  <2>3. CASE f.spent[1] > k
    BY <1>1, <2>1, <2>2, <2>3 DEF CutFact
  <2>4. CASE ~(f.spent[1] > k)
    <3>1. f.spent \in C \/ f.spent = NotSpent
      BY <1>1, <2>1, <2>2, <2>4
    <3> QED
      BY <1>1, <2>1, <2>4, <3>1 DEF CutFact, Fact
  <2> QED
    BY <1>1, <2>1, <2>3, <2>4
<1> QED
  BY <1>3 DEF Rewound, AsOf

\* They are sound for the cut branch.
LEMMA RewoundFacts ==
  ASSUME NEW b \in Branch, Lawful(b), NEW t, Good(t, b), FactsSound(t.facts, b, Mined(b)),
         NEW k \in 0..Len(b)
  PROVE  FactsSound(Rewound(t, k).facts, SubSeq(b, 1, k), Mined(SubSeq(b, 1, k)))
<1> DEFINE c == SubSeq(b, 1, k)
           C == Mined(c)
           facts == Rewound(t, k).facts
<1>1. /\ C = {p \in Mined(b) : p[1] <= k} /\ \A p \in C : TxAt(p, c) = TxAt(p, b)
      /\ Mined(b) \in SUBSET Position /\ k \in Nat
  BY CutMined, MinedPositions
<1>2. /\ WellFormed(t.facts) /\ t.facts \in SUBSET Fact /\ TablesOnBranch(t, b)
      /\ \A f \in t.facts : f.at \in Mined(b) /\ f.spent \in Mined(b) \cup {NotSpent}
  BY DEF FactsSound, WellFormed, Good
<1>3. facts = AsOf(t.facts, C)
  BY <1>1, RewoundIsAsOf
<1> HIDE DEF C, c, facts
<1>5. Closed(t.facts, C)
  <2>1. ASSUME NEW q \in PositionsOf(t.facts), NEW r \in C, Before(q, r) PROVE q \in C
    <3>1. q \in Mined(b)
      BY <1>2 DEF PositionsOf
    <3> QED
      BY <1>1, <2>1, <3>1 DEF Before, Position
  <2> QED
    BY <1>1, <2>1 DEF Closed
<1>6. WellFormed(facts)
  BY <1>2, <1>3, <1>5, AsOfWellFormed
<1>7. ASSUME NEW f \in t.facts
      PROVE  LET g == CutFact(f, C)
             IN  /\ g.nf = f.nf /\ g.at = f.at
                 /\ g.spent = (IF f.spent \in C THEN f.spent ELSE NotSpent)
  BY <1>1, <1>2, CutFactType
<1>8. ASSUME NEW g \in facts
      PROVE  \E f \in t.facts : f.at \in C /\ g = CutFact(f, C)
  BY <1>3, AsOfMember
<1>9. \A g \in facts : g.at \in C /\ g.spent \in C \cup {NotSpent}
  BY <1>7, <1>8
<1>10. ASSUME NEW g \in facts, NEW p \in C, g.nf \in TxAt(p, c).spends
       PROVE  g.spent # NotSpent
  <2>1. PICK f \in t.facts : f.at \in C /\ g = CutFact(f, C)
    BY <1>8
  <2>2. f.nf \in TxAt(p, b).spends /\ p \in Mined(b)
    BY <1>1, <1>7, <1>10, <2>1
  <2>3. f.spent # NotSpent
    BY <2>2 DEF FactsSound
  <2>4. f.spent \in Mined(b) /\ f.nf \in TxAt(f.spent, b).spends
    BY <1>2, <2>3 DEF TablesOnBranch
  <2>5. f.spent = p
    BY <2>2, <2>4, SpentOnce
  <2> QED
    BY <1>7, <2>1, <2>3, <2>5
<1>11. ASSUME NEW p \in C, NEW nf \in KeptAdoptions(TxAt(p, c), FALSE)
       PROVE  \E g \in facts : g.nf = nf /\ g.at = p
  <2>1. PICK f \in t.facts : f.nf = nf /\ f.at = p
    BY <1>1, <1>11 DEF FactsSound
  <2>2. CutFact(f, C) \in facts
    BY <1>3, <2>1 DEF AsOf
  <2> QED
    BY <1>7, <2>1, <2>2
<1> QED
  BY <1>6, <1>9, <1>10, <1>11 DEF FactsSound, facts, C, c

\* A rewind rebuilds the tips the shortened logs imply.
LEMMA RewoundHistory ==
  ASSUME NEW b \in Branch, Lawful(b), NEW t, Good(t, b), HistorySound(t, b, Mined(b)),
         NEW k \in 0..Len(b)
  PROVE  HistorySound(Rewound(t, k), SubSeq(b, 1, k), Mined(SubSeq(b, 1, k)))
<1> DEFINE c == SubSeq(b, 1, k)
           C == Mined(c)
           u == Rewound(t, k)
           affected == {e.note.name : e \in t.events \ u.events} \cup
                       {i.name : i \in t.implicit \ u.implicit}
<1>1. /\ C = {p \in Mined(b) : p[1] <= k} /\ \A p \in C : TxAt(p, c) = TxAt(p, b)
      /\ Mined(b) \in SUBSET Position /\ k \in Nat
      /\ c \in Branch /\ Good(u, c)
  BY CutMined, MinedPositions, CutIsBranch, RewoundGood
<1>2. /\ Placed(t, Mined(b)) /\ t.names = ImpliedTips(t) /\ Chained(t)
      /\ Follows(t, b, Mined(b))
  BY DEF HistorySound
<1>3. /\ u.events = {e \in t.events : e.at[1] <= k}
      /\ u.implicit = {i \in t.implicit : i.at[1] <= k}
      /\ u.names = {r \in t.names : r.note.name \notin affected} \cup
                   UNION {RebuiltTip(u.events, u.implicit, n) : n \in affected}
  BY DEF Rewound
<1> HIDE DEF u, C, c
<1>4. /\ \A e \in t.events : e.at \in Mined(b) /\ e.note.name \in Name
      /\ \A i \in t.implicit : i.at \in Mined(b) /\ i.name \in Name
      /\ u.events = {e \in t.events : e.at \in C}
      /\ u.implicit = {i \in t.implicit : i.at \in C}
  BY <1>1, <1>2, <1>3, RecordTypes DEF Placed
<1>5. Placed(u, C)
  BY <1>2, <1>4 DEF Placed
<1>6. \A n : RecordsOf(u, n) = RecordsOf(t, n) \cap C
  BY <1>4 DEF RecordsOf
<1>7. affected \subseteq Name
  BY <1>4
<1> HIDE DEF affected
<1>8. u.names = ImpliedTips(u)
  <2>1. ASSUME NEW n \in affected, NEW r
        PROVE  r \in RebuiltTip(u.events, u.implicit, n) <=>
                 r \in ImpliedTips(u) /\ r.note.name = n
    BY <1>1, <1>5, <1>7, TipIs
  <2>2. ASSUME NEW r, r \in t.events \/ r \in u.events, r.note.name \notin affected
        PROVE  r \in t.names <=> r \in ImpliedTips(u)
    <3>1. /\ \A e \in t.events : e.note.name = r.note.name => e \in u.events
          /\ \A i \in t.implicit : i.name = r.note.name => i \in u.implicit
      BY <2>2 DEF affected
    <3>2. RecordsOf(u, r.note.name) = RecordsOf(t, r.note.name)
      BY <1>4, <3>1 DEF RecordsOf
    <3>3. r \in t.events /\ r \in u.events
      BY <1>4, <2>2, <3>1
    <3>4. r \in t.names <=> /\ r.note.action # "release"
                            /\ \A q \in RecordsOf(t, r.note.name) : ~Before(r.at, q)
      <4>1. r \in ImpliedTips(t) <=>
              /\ r \in t.events /\ r.note.action # "release"
              /\ \A q \in RecordsOf(t, r.note.name) : ~Before(r.at, q)
        BY <1>2, TipIs
      <4> QED
        BY <1>2, <3>3, <4>1
    <3>5. r \in ImpliedTips(u) <=> /\ r.note.action # "release"
                                   /\ \A q \in RecordsOf(u, r.note.name) : ~Before(r.at, q)
      BY <1>1, <1>5, <3>3, TipIs
    <3> QED
      BY <3>2, <3>4, <3>5
  <2>3. \A r : r \in ImpliedTips(u) => r \in u.events
    BY <1>1, <1>5, TipIs
  <2>4. \A r \in t.names : r \in t.events
    BY <1>2, TipIs
  <2>5. ASSUME NEW r \in u.names PROVE r \in ImpliedTips(u)
    <3>1. CASE r \in t.names /\ r.note.name \notin affected
      BY <2>2, <2>4, <3>1
    <3>2. CASE \E n \in affected : r \in RebuiltTip(u.events, u.implicit, n)
      BY <2>1, <3>2
    <3> QED
      BY <1>3, <2>5, <3>1, <3>2
  <2>6. ASSUME NEW r \in ImpliedTips(u) PROVE r \in u.names
    <3>1. CASE r.note.name \in affected
      <4>1. r \in RebuiltTip(u.events, u.implicit, r.note.name)
        BY <2>1, <2>6, <3>1
      <4> QED
        BY <1>3, <3>1, <4>1
    <3>2. CASE r.note.name \notin affected
      BY <1>3, <2>2, <2>3, <2>6, <3>2
    <3> QED
      BY <3>1, <3>2
  <2> QED
    BY <2>5, <2>6
<1>9. ASSUME NEW n, NEW p \in C PROVE LiveBefore(u, n, p) = LiveBefore(t, n, p)
  <2>1. \A q \in Mined(b) : Before(q, p) => q \in C
    BY <1>1 DEF Before, Position
  <2>2. /\ {e \in u.events : Before(e.at, p)} = {e \in t.events : Before(e.at, p)}
        /\ {i \in u.implicit : Before(i.at, p)} = {i \in t.implicit : Before(i.at, p)}
    BY <1>4, <2>1
  <2> QED
    BY <2>2 DEF LiveBefore
<1>10. Chained(u)
  BY <1>2, <1>4, <1>9 DEF Chained
<1>11. Follows(u, c, C)
  <2> SUFFICES ASSUME NEW e \in u.events, e.note.action # "release"
               PROVE  /\ \A p \in C : e.note.nf \in TxAt(p, c).spends =>
                           p \in RecordsOf(u, e.note.name)
                      /\ \A q \in RecordsOf(u, e.note.name) : Before(e.at, q) =>
                           \E p \in C : ~Before(q, p) /\ e.note.nf \in TxAt(p, c).spends
    BY DEF Follows
  <2>1. e \in t.events
    BY <1>4
  <2>2. \A p \in C : e.note.nf \in TxAt(p, c).spends => p \in RecordsOf(u, e.note.name)
    BY <1>1, <1>2, <1>6, <2>1 DEF Follows
  <2>3. ASSUME NEW q \in RecordsOf(u, e.note.name), Before(e.at, q)
        PROVE  \E p \in C : ~Before(q, p) /\ e.note.nf \in TxAt(p, c).spends
    <3>1. q \in RecordsOf(t, e.note.name) /\ q \in C
      BY <1>6
    <3>2. PICK p \in Mined(b) : ~Before(q, p) /\ e.note.nf \in TxAt(p, b).spends
      BY <1>2, <2>1, <2>3, <3>1 DEF Follows
    <3>3. p \in C
      BY <1>1, <3>1, <3>2 DEF Before, Position
    <3> QED
      BY <1>1, <3>2, <3>3
  <2> QED
    BY <2>2, <2>3
<1> QED
  BY <1>5, <1>8, <1>10, <1>11 DEF HistorySound, u, C, c

\* A rewind leaves sound tables of the shorter branch.
LEMMA RewoundSound ==
  ASSUME NEW b \in Branch, Lawful(b), NEW t, Good(t, b), Sound(t, b, Mined(b)),
         NEW k \in 0..Len(b)
  PROVE  Sound(Rewound(t, k), SubSeq(b, 1, k), Mined(SubSeq(b, 1, k)))
  BY RewoundFacts, RewoundHistory DEF Sound

\* Sound tables of a branch treat nothing as authority that the branch
\* spends, and watch all of it.
LEMMA AuthorityIsUnspent ==
  ASSUME NEW b \in Branch, Lawful(b), NEW t, Good(t, b), Sound(t, b, Mined(b))
  PROVE  LET authority == LiveNameNullifiers(t) \cup FoldLineage(t.facts).live
             revealed  == UNION {s.tx.spends : s \in TxsOf(b, 1, Len(b))}
         IN  /\ authority \cap revealed = {}
             /\ authority \subseteq IronwoodNullifiers(t)
<1> DEFINE facts == t.facts
           mined == TxsOf(b, 1, Len(b))
           authority == LiveNameNullifiers(t) \cup FoldLineage(facts).live
           revealed == UNION {s.tx.spends : s \in mined}
<1>1. HistorySound(t, b, Mined(b)) /\ FactsSound(facts, b, Mined(b)) /\ WellFormed(facts)
  BY DEF Sound, FactsSound
<1>2. /\ FoldLineage(facts) = Standing(facts)
      /\ Standing(facts).live = {f.nf : f \in {g \in Confers(facts) : g.spent = NotSpent}}
      /\ Confers(facts) \subseteq facts
  BY <1>1, FoldIsStanding, StandingType
<1>3. ASSUME NEW x \in revealed
      PROVE  \E p \in Mined(b) : x \in TxAt(p, b).spends
  <2>1. PICK s \in mined : x \in s.tx.spends
    OBVIOUS
  <2> QED
    BY <2>1, TxsOfMined
<1>4. \A r \in t.names, p \in Mined(b) : r.note.nf \notin TxAt(p, b).spends
  BY <1>1, UnspentIsTip
<1>5. \A f \in facts, p \in Mined(b) : f.nf \in TxAt(p, b).spends => f.spent # NotSpent
  BY <1>1 DEF FactsSound
<1>6. \A x \in authority :
        \/ \E r \in t.names : x = r.note.nf
        \/ \E f \in facts : f.spent = NotSpent /\ x = f.nf
  BY <1>2 DEF LiveNameNullifiers
<1>7. authority \cap revealed = {}
  <2> HIDE DEF authority, revealed, facts
  <2> QED
    BY <1>3, <1>4, <1>5, <1>6
<1>8. authority \subseteq IronwoodNullifiers(t)
  BY <1>6 DEF IronwoodNullifiers, LiveNameNullifiers
<1> QED
  BY <1>7, <1>8

-----------------------------------------------------------------------------
(* A transaction is judged.                                                *)

\* Tables that cover the positions D of a branch, the live names and the
\* lineage read from them, and the transactions of the branch still to be
\* judged: all that D lacks, and perhaps some that it has.
Underway(b, D, tables, names, standing, rest) ==
  /\ b \in Branch /\ Lawful(b) /\ D \in SUBSET Mined(b)
  /\ Good(tables, b) /\ Sound(tables, b, D)
  /\ names = LiveNameNullifiers(tables) /\ standing = Standing(tables.facts)
  /\ rest \subseteq Scanned
  /\ \A s \in rest : OnBranch(s.at, b) /\ TxAt(s.at, b) = s.tx
  /\ \A s \in rest, p \in D : s.at \notin D => Before(p, s.at)
  /\ \A p \in Mined(b) : p \in D \/ \E s \in rest : s.at = p

\* What this says of a transaction of the batch.
LEMMA BatchContext ==
  ASSUME NEW b, NEW D, Underway(b, D, work, live, lineage, batch), NEW s \in batch
  PROVE  /\ b \in Branch /\ Lawful(b) /\ Good(work, b)
         /\ work \in Tables /\ TipsDistinct(work)
         /\ live = LiveNameNullifiers(work)
         /\ D \in SUBSET Mined(b)
         /\ s \in Scanned /\ s.at \in Mined(b) /\ s.at \in Position /\ OnBranch(s.at, b)
         /\ TxAt(s.at, b) = s.tx /\ s.tx \in Tx
         /\ HistorySound(work, b, D) /\ FactsSound(work.facts, b, D)
         /\ lineage = Standing(work.facts) /\ WellFormed(work.facts)
         /\ \A x \in batch : x.at = s.at => x = s
<1>1. /\ b \in Branch /\ Lawful(b) /\ D \in SUBSET Mined(b) /\ Good(work, b)
      /\ live = LiveNameNullifiers(work) /\ lineage = Standing(work.facts)
      /\ Sound(work, b, D) /\ batch \subseteq Scanned
      /\ \A x \in batch : OnBranch(x.at, b) /\ TxAt(x.at, b) = x.tx
  BY DEF Underway
<1>2. \A x \in batch : x = [at |-> x.at, tx |-> x.tx] /\ x.at \in Position /\ x.tx \in Tx
  BY <1>1 DEF Scanned
<1>3. \A x \in batch : x.at = s.at => x = s
  BY <1>1, <1>2
<1>4. s.at \in Mined(b)
  BY <1>1, <1>2, MinedPositions
<1> QED
  BY <1>1, <1>2, <1>3, <1>4 DEF Sound, FactsSound, Good

\* The name note of a transaction is admitted.
Admitted(s) == (Backed(s) \/ Consumes(s)) /\ Valid(s)

\* The verdict on a transaction the open tables do not cover: what it records
\* is a history with one more position, and the tips it leaves are those it
\* does not spend and the note it admits.
Verdict(b, D, s, tables, seated) ==
  /\ Settle(s, tables, seated)
  /\ Good(tables, b) /\ tables.facts = work.facts
  /\ HistorySound(tables, b, D \cup {s.at})
  /\ seated = (Backed(s) /\ Valid(s))
  /\ tables.events = work.events \cup (IF Admitted(s) THEN {Admission(s)} ELSE {})
  /\ work.implicit \subseteq tables.implicit
  /\ \A i \in tables.implicit \ work.implicit : i.at = s.at
  /\ tables.names =
       {r \in work.names : r.note.nf \notin s.tx.spends} \cup
       (IF Admitted(s) /\ TheNote(s.tx).action # "release" THEN {Admission(s)} ELSE {})

\* A settled verdict leaves sound tables, which extend the old ones.
LEMMA SettleSound ==
  ASSUME NEW b, NEW D, Underway(b, D, work, live, lineage, batch),
         NEW s \in batch, s.at \notin D, IsNext(s),
         NEW tables, NEW seated \in BOOLEAN, Verdict(b, D, s, tables, seated)
  PROVE  /\ Sound(work', b, D \cup {s.at}) /\ lineage' = Standing(work'.facts)
         /\ AsOf(work'.facts, D) = work.facts
         /\ Placing(work'.facts, s.at) = Adoptions(s.tx, s.at, seated)
         /\ work'.events = tables.events /\ work'.implicit = tables.implicit
         /\ work'.names = tables.names
<1>0. /\ Good(tables, b) /\ tables.facts = work.facts
      /\ HistorySound(tables, b, D \cup {s.at})
      /\ Settle(s, tables, seated)
      /\ seated => ClaimSuccessorOutput(s.tx) /\ LiveRetirements(lineage, s.tx.spends) = 1
  BY DEF Verdict, Backed, ClaimBacked
<1>1. /\ b \in Branch /\ Lawful(b)
      /\ D \in SUBSET Mined(b)
      /\ s.at \in Mined(b) /\ TxAt(s.at, b) = s.tx
      /\ FactsSound(work.facts, b, D) /\ lineage = Standing(work.facts)
      /\ \A x \in batch : x.at = s.at => x = s
  BY BatchContext
<1>2. \A x \in batch, p \in D : x.at \notin D => Before(p, x.at)
  BY DEF Underway
<1>3. /\ work' = StoreFacts(tables, s.tx, s.at, seated)
      /\ lineage' = StepTx(lineage, s.at[1], TxAnchorFacts(s.tx, seated))
  BY <1>0 DEF Settle
<1>4. /\ FactsSound(work'.facts, b, D \cup {s.at})
      /\ lineage' = Standing(work'.facts)
      /\ AsOf(work'.facts, D) = work.facts
      /\ Placing(work'.facts, s.at) = Adoptions(s.tx, s.at, seated)
  <2>1. /\ \A p \in D : Before(p, s.at)
        /\ FactsSound(tables.facts, b, D)
        /\ seated => /\ ClaimSuccessorOutput(TxAt(s.at, b))
                     /\ LiveRetirements(Standing(tables.facts), TxAt(s.at, b).spends) = 1
    BY <1>0, <1>1, <1>2
  <2>2. LET new == StoreFacts(tables, TxAt(s.at, b), s.at, seated).facts
        IN  /\ FactsSound(new, b, D \cup {s.at})
            /\ Standing(new) = StepTx(Standing(tables.facts), s.at[1],
                                      TxAnchorFacts(TxAt(s.at, b), seated))
            /\ AsOf(new, D) = tables.facts
            /\ Placing(new, s.at) = Adoptions(TxAt(s.at, b), s.at, seated)
    BY <1>0, <1>1, <2>1, StoreSound
  <2> QED
    BY <1>0, <1>1, <1>3, <2>2
<1>5. /\ HistorySound(work', b, D \cup {s.at})
      /\ work'.events = tables.events /\ work'.implicit = tables.implicit
      /\ work'.names = tables.names
  <2>1. tables \in Tables
    BY <1>0 DEF Good
  <2>2. /\ work'.events = tables.events /\ work'.implicit = tables.implicit
        /\ work'.names = tables.names
    BY <1>3, <2>1 DEF StoreFacts, Tables
  <2> QED
    BY <1>0, <2>2, SameHistory
<1> QED
  BY <1>4, <1>5 DEF Sound

\* A transaction the open database covers spends nothing that is live, and
\* leaves tables, live names and lineage alone.
LEMMA ReplayChangesNothing ==
  ASSUME NEW b, NEW D, Underway(b, D, work, live, lineage, batch),
         NEW s \in batch, s.at \in D, ApplyTransaction(s)
  PROVE  UNCHANGED <<work, live, lineage>>
<1>2. /\ b \in Branch /\ Lawful(b) /\ Good(work, b)
      /\ work \in Tables /\ live = LiveNameNullifiers(work)
      /\ D \in SUBSET Mined(b)
      /\ TxAt(s.at, b) = s.tx /\ s.tx \in Tx
      /\ HistorySound(work, b, D) /\ FactsSound(work.facts, b, D)
      /\ lineage = Standing(work.facts) /\ WellFormed(work.facts)
  BY BatchContext
<1>3. \A r \in work.names : r.note.nf \notin s.tx.spends
  BY <1>2, UnspentIsTip
<1>4. \A f \in work.facts : f.nf \in s.tx.spends => f.spent # NotSpent
  BY <1>2 DEF FactsSound
<1>5. /\ lineage \in Lineage
      /\ work.facts # {} => AdoptionClosed(lineage)
      /\ lineage.live \cap s.tx.spends = {}
  BY <1>2, <1>4, StandingType
<1>6. ~Backed(s)
  BY <1>5, FS_EmptySet DEF Backed, ClaimBacked, LiveRetirements
<1>7. ~Consumes(s)
  BY <1>3 DEF Consumes, PredecessorSpent, ReadTip
<1>8. FollowSpends(s)
  BY <1>6, <1>7 DEF ApplyTransaction, AdmitClaim, DropClaim, AdmitTransition, EndPredecessor
<1>9. live' = live
  BY <1>2, <1>3, <1>8 DEF FollowSpends, LiveNameNullifiers
<1>10. EndBindings(work, SpentNames(work, s.tx, live), s.tx, s.at) = work
  <2>1. SpentNames(work, s.tx, live) = {}
    BY <1>3 DEF SpentNames
  <2>2. EndBindings(work, {}, s.tx, s.at) =
          [work EXCEPT !.names = @ \ {}, !.implicit = @ \cup {}]
    BY DEF EndBindings
  <2>3. [work EXCEPT !.names = @ \ {}, !.implicit = @ \cup {}] = work
    BY <1>2 DEF Tables
  <2> QED
    BY <2>1, <2>2, <2>3
<1>11. \A nf \in KeptAdoptions(s.tx, FALSE) : \E f \in work.facts : f.nf = nf
  <2>1. \A p \in D : \A nf \in KeptAdoptions(TxAt(p, b), FALSE) :
          \E f \in work.facts : f.nf = nf /\ f.at = p
    BY <1>2 DEF FactsSound
  <2>2. \A nf \in KeptAdoptions(TxAt(s.at, b), FALSE) :
          \E f \in work.facts : f.nf = nf /\ f.at = s.at
    BY <2>1
  <2> QED
    BY <1>2, <2>2
<1>12. StoreFacts(work, s.tx, s.at, FALSE) = work
  <2> DEFINE marked == MarkSpent(work.facts, s.tx, s.at)
  <2>1. marked = work.facts
    BY <1>4 DEF MarkSpent
  <2>2. KeptAdoptions(s.tx, FALSE) \ {f.nf : f \in work.facts} = {}
    BY <1>11
  <2>3. StoreFacts(work, s.tx, s.at, FALSE) = [work EXCEPT !.facts = work.facts \cup {}]
    <3> DEFINE fresh(left) == {[nf |-> nf, at |-> s.at,
                                nameNotes |-> Cardinality(Candidates(s.tx)),
                                claimSuccessor |-> FALSE, spent |-> NotSpent] : nf \in left}
    <3>1. StoreFacts(work, s.tx, s.at, FALSE) =
            [work EXCEPT !.facts = marked \cup
               fresh(KeptAdoptions(s.tx, FALSE) \ {f.nf : f \in marked})]
      BY DEF StoreFacts
    <3>2. fresh({}) = {}
      OBVIOUS
    <3> HIDE DEF fresh, marked
    <3> QED
      BY <2>1, <2>2, <3>1, <3>2
  <2> QED
    BY <1>2, <2>3 DEF Tables
<1>13. StepTx(lineage, s.at[1], TxAnchorFacts(s.tx, FALSE)) = lineage
  <2> DEFINE now == TxAnchorFacts(s.tx, FALSE)
  <2>1. /\ now.adoptions = KeptAdoptions(s.tx, FALSE) /\ now.retirements = s.tx.spends
        /\ now.claimSuccessor = FALSE
    BY DEF TxAnchorFacts
  <2> HIDE DEF now
  <2>2. AdoptionClosed(lineage) \/ ~IsCeremonyFill(Cardinality(now.adoptions), now.nameNotes)
    <3>1. CASE KeptAdoptions(s.tx, FALSE) = {}
      BY <2>1, <3>1, FS_EmptySet, PoolSizeAssumption DEF IsCeremonyFill, PoolSizeAssumption
    <3>2. CASE KeptAdoptions(s.tx, FALSE) # {}
      BY <1>5, <1>11, <3>2
    <3> QED
      BY <3>1, <3>2
  <2>3. StepTx(lineage, s.at[1], now) = [live        |-> lineage.live \ s.tx.spends,
                                         established |-> lineage.established]
    BY <1>5, <2>1, <2>2, StepRetires
  <2> QED
    BY <1>5, <2>3 DEF Lineage, now
<1> QED
  BY <1>8, <1>9, <1>10, <1>12, <1>13 DEF FollowSpends, Settle

\* Every transaction the open tables do not cover gets its verdict.
LEMMA VerdictExists ==
  ASSUME NEW b, NEW D, Underway(b, D, work, live, lineage, batch),
         NEW s \in batch, ApplyTransaction(s), s.at \notin D
  PROVE  \E tables : \E seated \in BOOLEAN : Verdict(b, D, s, tables, seated)
<1> DEFINE row == Admission(s)
           new == RecordAdmission(work, row)
           after(ended) == EndBindings(work, ended, s.tx, s.at)
<1>1. IsNext(s)
  BY ApplyFrame
<1>2. /\ b \in Branch /\ Lawful(b) /\ Good(work, b)
      /\ work \in Tables /\ TipsDistinct(work) /\ live = LiveNameNullifiers(work)
      /\ D \in SUBSET Mined(b)
      /\ s.at \in Mined(b) /\ s.at \in Position /\ OnBranch(s.at, b)
      /\ TxAt(s.at, b) = s.tx
      /\ HistorySound(work, b, D)
      /\ lineage = Standing(work.facts)
  BY BatchContext
<1>3. \A p \in D : Before(p, s.at)
  BY DEF Underway
\* The verdicts that end bindings.
<1>4. ASSUME NEW ended, ended = {r \in work.names : r.note.nf \in s.tx.spends},
             Settle(s, after(ended), FALSE), ~Admitted(s), ~(Backed(s) /\ Valid(s))
      PROVE  Verdict(b, D, s, after(ended), FALSE)
  <2>1. HistorySound(after(ended), b, D \cup {s.at})
    BY <1>2, <1>3, <1>4, EndHistory
  <2>2. Good(after(ended), b)
    BY <1>2, <1>4, EndBindingsGood
  <2>3. /\ after(ended).facts = work.facts /\ after(ended).events = work.events
        /\ after(ended).names = work.names \ ended
        /\ after(ended).implicit = work.implicit \cup
             {[name |-> r.note.name, at |-> s.at, txid |-> s.tx.id, nf |-> r.note.nf] :
                r \in ended}
    BY <1>2 DEF EndBindings, Tables
  <2> HIDE DEF after
  <2>4. after(ended).names = {r \in work.names : r.note.nf \notin s.tx.spends}
    BY <1>4, <2>3
  <2>5. \A i \in after(ended).implicit \ work.implicit : i.at = s.at
    BY <2>3
  <2> QED
    BY <1>4, <2>1, <2>2, <2>3, <2>4, <2>5 DEF Verdict
\* The verdicts that record a note.
<1>5. ASSUME HasSingleNameNote(s.tx), Valid(s), Admitted(s), NEW seated \in BOOLEAN,
             Settle(s, new, seated), seated = (Backed(s) /\ Valid(s)),
             \A r \in work.names : r.note.nf \in s.tx.spends <=>
                                   r.note.name = TheNote(s.tx).name
      PROVE  Verdict(b, D, s, new, seated)
  <2>1. TheNote(s.tx).nf # NoNf
        /\ CheckChainRule(ReadTip(work, TheNote(s.tx).name), TheNote(s.tx))
    BY <1>5 DEF Valid, ValidSuccessor
  <2>2. HistorySound(new, b, D \cup {s.at}) /\ IsNewEvent(work, row)
    BY <1>2, <1>3, <1>5, <2>1, RecordHistory DEF Admission
  <2>3. Good(new, b)
    BY <1>2, <1>5, <2>1, RecordAdmissionGood DEF Admission
  <2>4. row.note = TheNote(s.tx) /\ row.at = s.at
    BY DEF Admission, AdmissionRow
  <2>5. /\ new.facts = work.facts /\ new.implicit = work.implicit
        /\ new.events = work.events \cup {row}
        /\ new.names = {r \in work.names : r.note.name # row.note.name} \cup
                        (IF row.note.action = "release" THEN {} ELSE {row})
    BY <1>2, <2>2 DEF RecordAdmission, Tables
  <2> HIDE DEF new
  <2>6. {r \in work.names : r.note.name # row.note.name} =
        {r \in work.names : r.note.nf \notin s.tx.spends}
    BY <1>5, <2>4
  <2> QED
    BY <1>5, <2>2, <2>3, <2>4, <2>5, <2>6 DEF Verdict, row
<1>6. ASSUME Backed(s)
      PROVE  /\ \A r \in work.names : r.note.nf \notin s.tx.spends
             /\ HasSingleNameNote(s.tx) /\ TheNote(s.tx).action = "claim" /\ ~Consumes(s)
  BY <1>2, <1>6 DEF Backed, ClaimBacked, IsClaim, LiveNameNullifiers, Consumes,
                    PredecessorSpent, IsTransition
<1>7. ASSUME Consumes(s)
      PROVE  /\ HasSingleNameNote(s.tx) /\ ~Backed(s)
             /\ \A r \in work.names : r.note.nf \in s.tx.spends <=>
                                      r.note.name = TheNote(s.tx).name
  <2>1. PICK x \in ReadTip(work, TheNote(s.tx).name) :
           x.note.nf \in s.tx.spends /\ s.tx.spends \cap live \subseteq {x.note.nf}
    BY <1>7 DEF Consumes, PredecessorSpent
  <2>2. x \in work.names /\ x.note.name = TheNote(s.tx).name
    BY DEF ReadTip
  <2>3. ASSUME NEW r \in work.names, r.note.nf \in s.tx.spends PROVE r = x
    <3>1. r.note.nf \in live
      BY <1>2 DEF LiveNameNullifiers
    <3>2. r.note.nf = x.note.nf
      BY <2>1, <2>3, <3>1
    <3> QED
      BY <1>2, <2>2, <3>2 DEF TipsDistinct
  <2>4. ASSUME NEW r \in work.names, r.note.name = TheNote(s.tx).name PROVE r = x
    BY <1>2, <2>2, <2>4 DEF TipsDistinct
  <2>5. HasSingleNameNote(s.tx) /\ ~Backed(s)
    BY <1>7 DEF Consumes, PredecessorSpent, IsTransition, Backed, ClaimBacked, IsClaim
  <2> QED
    BY <2>1, <2>2, <2>3, <2>4, <2>5
<1>8. CASE AdmitClaim(s)
  <2>1. Backed(s) /\ Valid(s) /\ Settle(s, new, TRUE)
    BY <1>8 DEF AdmitClaim
  <2>2. \A r \in work.names : r.note.name # TheNote(s.tx).name
    BY <1>6, <2>1 DEF Valid, ValidSuccessor, CheckChainRule, ReadTip
  <2> HIDE DEF new
  <2>3. Verdict(b, D, s, new, TRUE)
    BY <1>5, <1>6, <2>1, <2>2 DEF Admitted
  <2> QED
    BY <2>3
<1>9. CASE DropClaim(s)
  <2>1. Backed(s) /\ ~Valid(s) /\ Settle(s, work, FALSE)
    BY <1>9 DEF DropClaim
  <2>2. {} = {r \in work.names : r.note.nf \in s.tx.spends}
    BY <1>6, <2>1
  <2>3. after({}) = work
    <3>1. after({}) = [work EXCEPT !.names = @ \ {}, !.implicit = @ \cup {}]
      BY DEF EndBindings
    <3>2. [work EXCEPT !.names = @ \ {}, !.implicit = @ \cup {}] = work
      BY <1>2 DEF Tables
    <3> QED
      BY <3>1, <3>2
  <2> HIDE DEF after
  <2>4. Verdict(b, D, s, work, FALSE)
    BY <1>4, <2>1, <2>2, <2>3 DEF Admitted
  <2> QED
    BY <2>4
<1>10. CASE AdmitTransition(s)
  <2>1. Consumes(s) /\ Valid(s) /\ Settle(s, new, FALSE)
    BY <1>10 DEF AdmitTransition
  <2> HIDE DEF new
  <2>2. Verdict(b, D, s, new, FALSE)
    BY <1>5, <1>7, <2>1 DEF Admitted
  <2> QED
    BY <2>2
<1>11. CASE EndPredecessor(s)
  <2> DEFINE ended == ReadTip(work, TheNote(s.tx).name)
  <2>1. Consumes(s) /\ ~Valid(s) /\ Settle(s, after(ended), FALSE)
    BY <1>11 DEF EndPredecessor
  <2>2. ended = {r \in work.names : r.note.nf \in s.tx.spends}
    BY <1>7, <2>1 DEF ReadTip
  <2> HIDE DEF ended, after
  <2>3. Verdict(b, D, s, after(ended), FALSE)
    BY <1>4, <2>1, <2>2 DEF Admitted
  <2> QED
    BY <2>3
<1>12. CASE FollowSpends(s)
  <2> DEFINE ended == SpentNames(work, s.tx, live)
  <2>1. ~Backed(s) /\ ~Consumes(s) /\ Settle(s, after(ended), FALSE)
    BY <1>12 DEF FollowSpends
  <2>2. ended = {r \in work.names : r.note.nf \in s.tx.spends}
    BY <1>2 DEF SpentNames, LiveNameNullifiers
  <2> HIDE DEF ended, after
  <2>3. Verdict(b, D, s, after(ended), FALSE)
    BY <1>4, <2>1, <2>2 DEF Admitted
  <2> QED
    BY <2>3
<1> QED
  BY <1>8, <1>9, <1>10, <1>11, <1>12 DEF ApplyTransaction

\* Every verdict leaves what it says of a batch true of the positions with
\* this one.
LEMMA ApplyKeeps ==
  ASSUME NEW b, NEW D, Underway(b, D, work, live, lineage, batch),
         NEW s \in batch, ApplyTransaction(s)
  PROVE  Underway(b, D \cup {s.at}, work', live', lineage', batch')
<1>1. /\ b \in Branch /\ Lawful(b) /\ Good(work, b) /\ live = LiveNameNullifiers(work)
      /\ s \in Scanned /\ s.at \in Mined(b) /\ OnBranch(s.at, b) /\ TxAt(s.at, b) = s.tx
      /\ \A x \in batch : x.at = s.at => x = s
  BY BatchContext
<1>2. /\ D \in SUBSET Mined(b) /\ batch \subseteq Scanned
      /\ Sound(work, b, D) /\ lineage = Standing(work.facts)
      /\ \A x \in batch : OnBranch(x.at, b) /\ TxAt(x.at, b) = x.tx
      /\ \A x \in batch, p \in D : x.at \notin D => Before(p, x.at)
      /\ \A p \in Mined(b) : p \in D \/ \E x \in batch : x.at = p
  BY DEF Underway
<1>3. IsNext(s) /\ batch' = batch \ {s}
  BY ApplyFrame
<1>4. Good(work', b) /\ live' = LiveNameNullifiers(work')
  BY <1>1, ApplyGood
<1>5. Sound(work', b, D \cup {s.at}) /\ lineage' = Standing(work'.facts)
  <2>1. CASE s.at \in D
    <3>1. work' = work /\ lineage' = lineage
      BY <2>1, ReplayChangesNothing
    <3>2. D \cup {s.at} = D
      BY <2>1
    <3> QED
      BY <1>2, <3>1, <3>2
  <2>2. CASE s.at \notin D
    <3>1. PICK tables : \E seated \in BOOLEAN : Verdict(b, D, s, tables, seated)
      BY <2>2, VerdictExists
    <3>2. PICK seated \in BOOLEAN : Verdict(b, D, s, tables, seated)
      BY <3>1
    <3> QED
      BY <1>3, <2>2, <3>2, SettleSound
  <2> QED
    BY <2>1, <2>2
<1>6. \A x \in batch \ {s}, p \in D \cup {s.at} :
        x.at \notin D \cup {s.at} => Before(p, x.at)
  BY <1>2, <1>3 DEF IsNext
<1>7. \A p \in Mined(b) : p \in D \cup {s.at} \/ \E x \in batch \ {s} : x.at = p
  BY <1>2
<1> QED
  BY <1>1, <1>2, <1>3, <1>4, <1>5, <1>6, <1>7 DEF Underway

-----------------------------------------------------------------------------
(* The inductive invariant.                                                *)

\* The positions the open database covers: those of the checkpoint and
\* those the batch has passed.
Covered == {p \in Mined(target) : p[1] <= Len(db.branch) \/ \A s \in batch : s.at # p}

DatabaseSound(d) == Lawful(d.branch) /\ Sound(d.tables, d.branch, Mined(d.branch))

\* The batch has every transaction after the checkpoint.
BatchIsWhole ==
  \A p \in Mined(target) : p[1] > Len(db.branch) => \E s \in batch : s.at = p

BatchSound == Underway(target, Covered, work, live, lineage, batch)

SInv ==
  /\ IInv
  /\ Lawful(chain)
  /\ DatabaseSound(db) /\ DatabaseSound(durable)
  /\ pc # "idle" => Lawful(target)
  /\ pc \in {"scanned", "folded"} => BatchIsWhole
  /\ pc \in {"idle", "scanned"} => lineage = EmptyLineage
  /\ pc = "folded" => lineage = Standing(db.tables.facts)
  /\ pc = "batch" => BatchSound

\* A verdict covers the transaction's position.
LEMMA ApplyCovers ==
  ASSUME SInv, NEW s \in batch, ApplyTransaction(s)
  PROVE  Covered' = Covered \cup {s.at} /\ target' = target
<1>1. batch' = batch \ {s} /\ target' = target /\ db' = db /\ pc = "batch"
  BY ApplyFrame
<1>2. s.at \in Mined(target) /\ \A x \in batch : x.at = s.at => x = s
  <2>1. Underway(target, Covered, work, live, lineage, batch)
    BY <1>1 DEF SInv, BatchSound
  <2> QED
    BY <2>1, BatchContext
<1>3. ASSUME NEW p \in Mined(target)
      PROVE  (\A x \in batch \ {s} : x.at # p) <=> (\A x \in batch : x.at # p) \/ p = s.at
  BY <1>2
<1> QED
  BY <1>1, <1>2, <1>3 DEF Covered

\* Every verdict keeps the open tables sound.
LEMMA ApplySound ==
  ASSUME SInv, NEW s \in batch, ApplyTransaction(s)
  PROVE  BatchSound'
<1>1. Underway(target, Covered, work, live, lineage, batch)
  BY ApplyFrame DEF SInv, BatchSound
<1>2. Underway(target, Covered \cup {s.at}, work', live', lineage', batch')
  BY <1>1, ApplyKeeps
<1>3. Covered' = Covered \cup {s.at} /\ target' = target
  BY ApplyCovers
<1> QED
  BY <1>2, <1>3 DEF BatchSound

-----------------------------------------------------------------------------
\* The invariant holds initially.
LEMMA InitSound == Init => SInv
<1> SUFFICES ASSUME Init PROVE SInv
  OBVIOUS
<1>1. IInv
  BY InitInv
<1>2. DatabaseSound(NewDatabase) /\ Lawful(<< >>)
  BY EmptyIsSound DEF DatabaseSound, NewDatabase
<1> QED
  BY <1>1, <1>2 DEF Init, Quiet, SInv

\* A step of the network leaves database and batch alone.
LEMMA NetworkSound ==
  ASSUME SInv, IInv', Lawful(chain'), UNCHANGED <<db, durable, pc, local, fails>>
  PROVE  SInv'
<1>1. Covered' = Covered
  BY DEF Covered, local
<1>2. BatchSound' = BatchSound /\ BatchIsWhole' = BatchIsWhole
  BY <1>1 DEF BatchSound, BatchIsWhole, local
<1> QED
  BY <1>2 DEF SInv, local

\* The snapshot is the closed form of the committed facts.
LEMMA SnapshotSound ==
  ASSUME SInv, IInv', TakeSnapshot
  PROVE  SInv'
<1>1. lineage' = Standing(db.tables.facts)
  <2>1. WellFormed(db.tables.facts)
    BY DEF SInv, DatabaseSound, Sound, FactsSound
  <2> QED
    BY <2>1, FoldIsStanding DEF TakeSnapshot
<1>2. BatchIsWhole' = BatchIsWhole
  BY DEF TakeSnapshot, BatchIsWhole
<1> QED
  BY <1>1, <1>2 DEF TakeSnapshot, SInv

\* A scanned batch has every transaction after the checkpoint.
LEMMA ScanSound ==
  ASSUME SInv, IInv', NEW from \in 1..Len(chain), NEW to \in 1..Len(chain), Scan(from, to)
  PROVE  SInv'
<1>1. /\ chain \in Branch /\ Len(chain) \in Nat /\ db.branch \in Branch
      /\ Len(db.branch) \in Nat
  BY DEF SInv, IInv, TypeOK, Database, Branch
<1>2. /\ target' = SubSeq(chain, 1, to) /\ to \in 0..Len(chain)
      /\ from <= Len(db.branch) + 1 /\ batch' = TxsOf(chain, from, to)
  BY <1>1 DEF Scan
<1>3. Lawful(target')
  BY <1>1, <1>2, CutLawful DEF SInv
<1>4. ASSUME NEW p \in Mined(target'), p[1] > Len(db.branch)
      PROVE  \E s \in batch' : s.at = p
  <2>1. p \in Mined(chain) /\ p[1] <= to
    BY <1>1, <1>2, CutMined
  <2>2. p = <<p[1], p[2]>> /\ p[1] \in Nat
    BY <1>1, <2>1, MinedPositions DEF Position
  <2>3. p[1] \in from..to /\ p[2] \in DOMAIN chain[p[1]]
    BY <1>1, <1>2, <1>4, <2>1, <2>2, MinedPositions DEF OnBranch
  <2>4. [at |-> <<p[1], p[2]>>, tx |-> chain[p[1]][p[2]]] \in TxsOf(chain, from, to)
    BY <2>3 DEF TxsOf
  <2> QED
    BY <1>2, <2>2, <2>4
<1>5. BatchIsWhole'
  BY <1>4 DEF Scan, BatchIsWhole
<1> QED
  BY <1>3, <1>5 DEF Scan, SInv

\* What the checkpoint covers is what an open batch starts with.
LEMMA BeginCovers ==
  ASSUME SInv, BeginBatch
  PROVE  /\ Len(db.branch) \in 0..Len(target) /\ db.branch = SubSeq(target, 1, Len(db.branch))
         /\ Mined(db.branch) = {p \in Mined(target) : p[1] <= Len(db.branch)}
         /\ \A p \in Mined(db.branch) : TxAt(p, target) = TxAt(p, db.branch)
         /\ Covered = Mined(db.branch) /\ Covered' = Covered
<1>1. /\ db.branch \in Branch /\ target \in Branch /\ IsPrefix(db.branch, target)
      /\ Len(db.branch) \in Nat /\ BatchIsWhole
  BY DEF SInv, IInv, TypeOK, Database, Branch, BeginBatch, BatchOnTarget
<1>2. Len(db.branch) \in 0..Len(target) /\ db.branch = SubSeq(target, 1, Len(db.branch))
  BY <1>1, PrefixIsCut
<1>3. LET c == SubSeq(target, 1, Len(db.branch))
      IN  /\ Mined(c) = {p \in Mined(target) : p[1] <= Len(db.branch)}
          /\ \A p \in Mined(c) : TxAt(p, c) = TxAt(p, target)
  BY <1>1, <1>2, CutMined
<1>4. Covered = Mined(db.branch)
  <2>1. ASSUME NEW p \in Mined(target), ~(p[1] <= Len(db.branch))
        PROVE  \E s \in batch : s.at = p
    <3>1. p[1] \in Nat
      BY <1>1, MinedPositions DEF Position
    <3> QED
      BY <1>1, <2>1, <3>1 DEF BatchIsWhole
  <2> QED
    BY <1>2, <1>3, <2>1 DEF Covered
<1>5. Covered' = Covered
  BY DEF BeginBatch, Covered
<1> QED
  BY <1>2, <1>3, <1>4, <1>5

\* The open database starts with what the checkpoint covers.
LEMMA BeginSound ==
  ASSUME SInv, IInv', BeginBatch
  PROVE  SInv'
<1>1. /\ db.branch \in Branch /\ target \in Branch
      /\ Len(db.branch) \in Nat /\ batch \subseteq Scanned /\ BatchOnTarget
  BY DEF SInv, IInv, TypeOK, Database, Branch, BeginBatch, BatchOnTarget
<1>2. DatabaseSound(db) /\ lineage = Standing(db.tables.facts)
  BY DEF SInv, BeginBatch
<1>3. /\ Mined(db.branch) = {p \in Mined(target) : p[1] <= Len(db.branch)}
      /\ \A p \in Mined(db.branch) : TxAt(p, target) = TxAt(p, db.branch)
      /\ Covered' = Covered
  BY BeginCovers
<1>4. Covered = Mined(db.branch)
  BY BeginCovers
<1>5. Sound(db.tables, target, Covered)
  BY <1>2, <1>3, <1>4, SoundMoves DEF DatabaseSound
<1>6. ASSUME NEW s \in batch, NEW p \in Covered, s.at \notin Covered PROVE Before(p, s.at)
  <2>1. s.at \in Mined(target) /\ s.at[1] \in Nat /\ p[1] \in Nat
    BY <1>1, <1>3, <1>4, MinedPositions DEF Scanned, BatchOnTarget, Position
  <2>2. ~(s.at[1] <= Len(db.branch)) /\ p[1] <= Len(db.branch)
    BY <1>3, <1>4, <1>6, <2>1
  <2> QED
    BY <1>1, <2>1, <2>2 DEF Before
<1>7. /\ Good(db.tables, target) /\ Lawful(target) /\ Covered \in SUBSET Mined(target)
      /\ \A s \in batch : OnBranch(s.at, target) /\ TxAt(s.at, target) = s.tx
      /\ \A p \in Mined(target) : p \in Covered \/ \E s \in batch : s.at = p
  <2>1. Good(db.tables, target)
    BY <1>1, GrowGood DEF SInv, IInv, BeginBatch, BatchOnTarget
  <2> QED
    BY <1>1, <2>1 DEF SInv, BeginBatch, BatchOnTarget, Covered
<1>8. /\ work' = db.tables /\ live' = LiveNameNullifiers(db.tables)
      /\ lineage' = lineage /\ batch' = batch /\ target' = target
  BY DEF BeginBatch
<1>9. Underway(target, Covered, db.tables, LiveNameNullifiers(db.tables), lineage, batch)
  BY <1>1, <1>2, <1>5, <1>6, <1>7 DEF Underway
<1>10. BatchSound'
  BY <1>3, <1>8, <1>9 DEF BatchSound
<1> QED
  BY <1>10 DEF BeginBatch, SInv

\* An applied transaction leaves the committed databases alone.
LEMMA AppliedSound ==
  ASSUME SInv, IInv', NEW s \in batch, ApplyTransaction(s)
  PROVE  SInv'
<1>1. BatchSound'
  BY ApplySound
<1>2. pc = "batch" /\ UNCHANGED <<chain, db, durable, pc, target>>
  BY DEF ApplyTransaction, AdmitClaim, DropClaim, AdmitTransition, EndPredecessor,
         FollowSpends, Settle
<1> QED
  BY <1>1, <1>2 DEF SInv

\* A step that leaves the indexer idle with sound databases.
LEMMA RestSound ==
  ASSUME SInv, IInv', chain' = chain, pc' = "idle", lineage' = EmptyLineage,
         DatabaseSound(db'), DatabaseSound(durable')
  PROVE  SInv'
  BY DEF SInv

\* A rewind cuts tables and branch.
LEMMA RewindSound ==
  ASSUME SInv, IInv', NEW k \in 0..Len(chain), RewindTo(k)
  PROVE  SInv'
<1> DEFINE new == [tables |-> Rewound(db.tables, k), branch |-> SubSeq(db.branch, 1, k)]
<1>1. /\ db.branch \in Branch /\ k \in 0..Len(db.branch) /\ Good(db.tables, db.branch)
      /\ DatabaseSound(db) /\ DatabaseSound(durable)
  <2>1. db.branch \in Branch /\ Len(db.branch) \in Nat
    BY DEF SInv, IInv, TypeOK, Database, Branch
  <2> QED
    BY <2>1 DEF SInv, IInv, RewindTo
<1>2. DatabaseSound(new)
  <2>1. Lawful(SubSeq(db.branch, 1, k))
    BY <1>1, CutLawful DEF DatabaseSound
  <2>2. Sound(Rewound(db.tables, k), SubSeq(db.branch, 1, k), Mined(SubSeq(db.branch, 1, k)))
    BY <1>1, RewoundSound DEF DatabaseSound
  <2> QED
    BY <2>1, <2>2 DEF DatabaseSound
<1>3. db' = new /\ durable' \in {durable, new}
  BY DEF RewindTo, Persist
<1>4. pc' = "idle" /\ lineage' = EmptyLineage /\ chain' = chain
  BY DEF RewindTo, local, SInv
<1> HIDE DEF new
<1> QED
  BY <1>1, <1>2, <1>3, <1>4, RestSound

\* A committed batch covers its whole branch.
LEMMA CommitSound ==
  ASSUME SInv, IInv', CommitBatch
  PROVE  SInv'
<1> DEFINE new == [tables |-> work, branch |-> target]
<1>1. DatabaseSound(durable) /\ Lawful(target) /\ BatchSound
  BY DEF CommitBatch, SInv
<1>2. Covered = Mined(target)
  BY DEF CommitBatch, Covered
<1>3. DatabaseSound(new)
  BY <1>1, <1>2 DEF DatabaseSound, BatchSound, Underway
<1>4. /\ db' = new /\ durable' \in {durable, new}
      /\ pc' = "idle" /\ lineage' = EmptyLineage /\ chain' = chain
  BY DEF CommitBatch, Persist, Rest
<1> HIDE DEF new
<1> QED
  BY <1>1, <1>3, <1>4, RestSound

\* Every step preserves the invariant.
LEMMA NextSound == SInv /\ [Next]_vars => SInv'
<1> SUFFICES ASSUME SInv, [Next]_vars PROVE SInv'
  OBVIOUS
<1>1. IInv'
  BY NextInv DEF SInv
<1>2. chain \in Branch /\ Len(chain) \in Nat
  BY DEF SInv, IInv, TypeOK, Branch
<1>3. ASSUME NEW b \in Block, Mine(b)
      PROVE  SInv'
  <2>1. Lawful(chain')
    <3>1. /\ chain \in Branch /\ b \in Block /\ Append(chain, b) \in Branch
          /\ Consensus(Append(chain, b)) /\ chain' = Append(chain, b)
      BY <1>2, <1>3 DEF Mine, Branch
    <3>2. Lawful(Append(chain, b))
      BY <3>1, ConsensusIsLawful
    <3> QED
      BY <3>1, <3>2
  <2> QED
    BY <1>1, <1>3, <2>1, NetworkSound DEF Mine
<1>4. ASSUME NEW k \in 0..(Len(chain) - 1), Reorg(k)
      PROVE  SInv'
  <2>1. Lawful(chain')
    <3>1. k \in 0..Len(chain) /\ Lawful(chain) /\ chain' = SubSeq(chain, 1, k)
      BY <1>2, <1>4 DEF Reorg, SInv
    <3>2. Lawful(SubSeq(chain, 1, k))
      BY <1>2, <3>1, CutLawful
    <3> QED
      BY <3>1, <3>2
  <2> QED
    BY <1>1, <1>4, <2>1, NetworkSound DEF Reorg
<1>5. ASSUME NEW from \in 1..Len(chain), NEW to \in 1..Len(chain), Scan(from, to)
      PROVE  SInv'
  BY <1>1, <1>5, ScanSound
<1>6. ASSUME NEW k \in 0..Len(chain), RewindTo(k)
      PROVE  SInv'
  BY <1>1, <1>6, RewindSound
<1>7. CASE TakeSnapshot
  BY <1>1, <1>7, SnapshotSound
<1>8. CASE BeginBatch
  BY <1>1, <1>8, BeginSound
<1>9. ASSUME NEW s \in batch, ApplyTransaction(s)
      PROVE  SInv'
  BY <1>1, <1>9, AppliedSound
<1>10. CASE CommitBatch
  BY <1>1, <1>10, CommitSound
<1>11. CASE Abandon
  BY <1>1, <1>11, RestSound DEF Abandon, Rest, SInv
<1>12. CASE PowerLoss
  BY <1>1, <1>12, RestSound DEF PowerLoss, Rest, SInv
<1>13. CASE UNCHANGED vars
  <2>1. UNCHANGED <<db, durable, pc, local, fails>> /\ chain' = chain
    BY <1>13 DEF vars, local
  <2> QED
    BY <1>1, <2>1, NetworkSound DEF SInv
<1> QED
  BY <1>3, <1>4, <1>5, <1>6, <1>7, <1>8, <1>9, <1>10, <1>11, <1>12, <1>13
     DEF Next, Network, Indexer, Scanner

\* The inductive invariant of the tables.
LEMMA Soundness == Spec => []SInv
  BY InitSound, NextSound, PTL DEF Spec

-----------------------------------------------------------------------------
(* Theorems.                                                               *)

\* At every transaction of a batch the lineage carried from transaction to
\* transaction is the fold of the facts stored so far: replaying the stored
\* facts, as a restart does, gives the authority the batch judged with
\* (apply_batch and fold_lineage).
THEOREM LineageAgrees == Spec => []LineageIsFold
<1>1. SInv => LineageIsFold
  <2> SUFFICES ASSUME SInv PROVE LineageIsFold
    OBVIOUS
  <2>1. pc \in {"idle", "scanned", "folded", "batch"}
    BY DEF SInv, IInv, TypeOK
  <2>2. CASE pc \in {"idle", "scanned"}
    BY <2>2 DEF SInv, LineageIsFold
  <2>3. CASE pc = "folded"
    <3>1. WellFormed(db.tables.facts) /\ lineage = Standing(db.tables.facts)
      BY <2>3 DEF SInv, DatabaseSound, Sound, FactsSound
    <3> QED
      BY <2>3, <3>1, FoldIsStanding DEF LineageIsFold
  <2>4. CASE pc = "batch"
    <3>1. WellFormed(work.facts) /\ lineage = Standing(work.facts)
      BY <2>4 DEF SInv, BatchSound, Underway, Sound, FactsSound
    <3> QED
      BY <2>4, <3>1, FoldIsStanding DEF LineageIsFold
  <2> QED
    BY <2>1, <2>2, <2>3, <2>4
<1> QED
  BY <1>1, Soundness, PTL

\* The names table is always what the event log and the implicit releases
\* imply, so a rewind rebuilds for each affected name the tip the batches
\* had written (rebuild_name_tip).
THEOREM NamesAreImplied == Spec => []NamesFollowLogs
<1>1. SInv => NamesFollowLogs
  BY DEF SInv, DatabaseSound, BatchSound, Underway, Sound, HistorySound, NamesFollowLogs
<1> QED
  BY <1>1, Soundness, PTL

\* The history of every name is a chain, through any reorganisation, replay
\* or failure: events() never reports a history the indexer wrote as corrupt.
THEOREM HistoriesAreChains == Spec => []HistoryIsChained
<1>1. SInv => HistoryIsChained
  BY DEF SInv, DatabaseSound, Sound, HistorySound, Chained, HistoryIsChained
<1> QED
  BY <1>1, Soundness, PTL

\* No transaction of the checkpoint's branch spends what the index treats as
\* authority, and all of it is in the watch-set that reveals the first one
\* that does (ironwood_nullifiers).
THEOREM AuthorityIsSound == Spec => []AuthorityIsUnspentAndWatched
<1>1. SInv => AuthorityIsUnspentAndWatched
  <2> SUFFICES ASSUME SInv PROVE AuthorityIsUnspentAndWatched
    OBVIOUS
  <2>1. /\ db.branch \in Branch /\ Lawful(db.branch) /\ Good(db.tables, db.branch)
        /\ Sound(db.tables, db.branch, Mined(db.branch))
    BY DEF SInv, IInv, TypeOK, Database, DatabaseSound
  <2> QED
    BY <2>1, AuthorityIsUnspent DEF AuthorityIsUnspentAndWatched
<1> QED
  BY <1>1, Soundness, PTL

\* A transaction the checkpoint already covers changes no table and neither
\* of the values carried to the next transaction: a block delivered twice is
\* applied once (apply_batch "replays idempotently").
THEOREM ReplayIsIdempotent == Spec => ReplayIsNoOp
<1>1. SInv /\ [Next]_vars =>
        [\A s \in batch :
           pc' = "batch" /\ batch' = batch \ {s} /\ s.at[1] <= Len(db.branch)
           => UNCHANGED <<work, live, lineage>>]_vars
  <2> SUFFICES ASSUME SInv, [Next]_vars, NEW s \in batch,
                      pc' = "batch", batch' = batch \ {s}, s.at[1] <= Len(db.branch)
               PROVE  UNCHANGED <<work, live, lineage>>
    OBVIOUS
  <2>1. PICK x \in batch : ApplyTransaction(x)
    BY DEF Next, Network, Mine, Reorg, Indexer, Scanner, Scan, RewindTo, TakeSnapshot,
           BeginBatch, CommitBatch, Abandon, PowerLoss, Rest, local, vars
  <2>2. pc = "batch" /\ batch' = batch \ {x}
    BY <2>1 DEF ApplyTransaction, AdmitClaim, DropClaim, AdmitTransition, EndPredecessor,
                FollowSpends, Settle
  <2>3. x = s
    BY <2>2
  <2>4. Underway(target, Covered, work, live, lineage, batch)
    BY <2>2 DEF SInv, BatchSound
  <2>5. s.at \in Covered
    <3>1. s.at \in Mined(target)
      BY <2>4, BatchContext
    <3> QED
      BY <3>1 DEF Covered
  <2> QED
    BY <2>1, <2>3, <2>4, <2>5, ReplayChangesNothing
<1> QED
  BY <1>1, Soundness, PTL DEF Spec, ReplayIsNoOp
=============================================================================
