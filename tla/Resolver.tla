------------------------------ MODULE Resolver ------------------------------
(***************************************************************************)
(* The indexer of the resolver: the one task that follows the network's    *)
(* best chain and keeps the registry database, src/src/sync.rs (the        *)
(* Account callbacks) driving src/src/registry/core.rs (apply_batch,       *)
(* rewind), restarted by the loop of src/src/main.rs.                      *)
(*                                                                         *)
(* The scanner (seer_sync) and the network are external.  They are         *)
(* modelled from how this code uses them: the scanner delivers the         *)
(* registry transactions of consecutive blocks, may deliver the block of   *)
(* the checkpoint once more, and asks for a rewind when the checkpoint is  *)
(* no longer on the best chain.                                            *)
(*                                                                         *)
(* A checkpoint is a height and a block hash.  A block hash commits to     *)
(* every earlier block, so the model keeps the sequence of blocks itself,  *)
(* a branch: its length is sync_height, its identity is sync_hash, and the *)
(* empty branch is an index that starts at the birthday.                   *)
(***************************************************************************)
EXTENDS Registry, SequencesExt

CONSTANTS
  Block,       \* the blocks that may be mined: sequences of transactions
  MaxHeight,   \* bound: height of the best chain
  BatchLimit,  \* bound: new blocks in one scanned batch
  MaxFails,    \* bound: crashes, errors and power losses
  Lossy        \* whether power may fail (the log is synchronous=NORMAL)

ASSUME ResolverAssumption ==
  /\ Block \subseteq Seq(Tx)
  /\ MaxHeight \in Nat /\ BatchLimit \in Nat \ {0} /\ MaxFails \in Nat
  /\ Lossy \in BOOLEAN

VARIABLES
  chain,    \* the network's best chain, a branch
  db,       \* the committed database: its tables and its checkpoint
  durable,  \* the committed database a power loss would leave
  pc,       \* where the indexer is
  target,   \* the checkpoint the scanned batch ends at (`at`)
  batch,    \* scanned transactions not yet applied
  lineage,  \* the lineage of apply_transactions, then of apply_batch
  live,     \* apply_batch's live_names
  work,     \* the tables inside the open SQL transaction
  fails     \* failures so far

local == <<target, batch, lineage, live, work>>
vars  == <<chain, db, durable, pc, target, batch, lineage, live, work, fails>>

Branch == Seq(Block)

Database == [tables : Tables, branch : Branch]

\* A transaction at its position.
Scanned == [at : Position, tx : Tx]

NewDatabase == [tables |-> EmptyTables, branch |-> << >>]

Quiet ==
  /\ target = << >> /\ batch = {} /\ lineage = EmptyLineage
  /\ live = {} /\ work = EmptyTables

Init ==
  /\ chain = << >>
  /\ db = NewDatabase /\ durable = NewDatabase
  /\ pc = "idle" /\ Quiet
  /\ fails = 0

-----------------------------------------------------------------------------
(* The network.                                                            *)

\* The transactions of heights m to n of a branch, with their positions.
TxsOf(branch, m, n) ==
  UNION {{[at |-> <<h, i>>, tx |-> branch[h][i]] : i \in DOMAIN branch[h]} : h \in m..n}

CreatedNotes(tx) == tx.zero \cup ({n.nf : n \in tx.relaxed} \ {NoNf})

\* Consensus: a transaction is mined once, a nullifier is revealed once,
\* and a note is spent after it is created.
Consensus(branch) ==
  LET mined == TxsOf(branch, 1, Len(branch))
  IN  \A s \in mined :
        /\ \A o \in mined \ {s} : s.tx # o.tx /\ s.tx.spends \cap o.tx.spends = {}
        /\ s.tx.spends \subseteq
             UNION {CreatedNotes(o.tx) : o \in {p \in mined : Before(p.at, s.at)}}

Mine(b) ==
  /\ Len(chain) < MaxHeight
  /\ Consensus(Append(chain, b))
  /\ chain' = Append(chain, b)
  /\ UNCHANGED <<db, durable, pc, local, fails>>

\* The best chain loses every block above k; another branch may grow.
Reorg(k) ==
  /\ chain' = SubSeq(chain, 1, k)
  /\ UNCHANGED <<db, durable, pc, local, fails>>

-----------------------------------------------------------------------------
(* The scanner.                                                            *)

OnBestChain == IsPrefix(db.branch, chain)

\* Blocks `from` to `to` arrive; the block of the checkpoint may be the
\* first of them once more.
Scan(from, to) ==
  /\ pc = "idle" /\ OnBestChain
  /\ from \in {Len(db.branch), Len(db.branch) + 1} \ {0}
  /\ to > Len(db.branch) /\ to <= Len(db.branch) + BatchLimit
  /\ target' = SubSeq(chain, 1, to)
  /\ batch' = TxsOf(chain, from, to)
  /\ pc' = "scanned"
  /\ UNCHANGED <<chain, db, durable, lineage, live, work, fails>>

\* The log keeps the order of commits, so a power loss leaves either this
\* commit or an earlier one.
Persist(new) ==
  /\ db' = new
  /\ durable' \in (IF Lossy THEN {durable, new} ELSE {new})

\* Mutant: the tables are rewound and the checkpoint is not.
RewindToKeepingCheckpoint(k) ==
  /\ pc = "idle" /\ ~OnBestChain
  /\ k < Len(db.branch) /\ k <= Len(chain)
  /\ SubSeq(db.branch, 1, k) = SubSeq(chain, 1, k)
  /\ Persist([tables |-> Rewound(db.tables, k), branch |-> db.branch])
  /\ UNCHANGED <<chain, pc, local, fails>>

\* Account::rewind: the checkpoint has left the best chain, and the blocks
\* up to k are common to both.
RewindTo(k) ==
  /\ pc = "idle" /\ ~OnBestChain
  /\ k < Len(db.branch) /\ k <= Len(chain)
  /\ SubSeq(db.branch, 1, k) = SubSeq(chain, 1, k)
  /\ Persist([tables |-> Rewound(db.tables, k), branch |-> SubSeq(db.branch, 1, k)])
  /\ UNCHANGED <<chain, pc, local, fails>>

-----------------------------------------------------------------------------
(* apply_transactions and apply_batch.                                     *)

\* The facts are read under the lock and folded without it.
TakeSnapshot ==
  /\ pc = "scanned"
  /\ lineage' = FoldLineage(db.tables.facts)
  /\ pc' = "folded"
  /\ UNCHANGED <<chain, db, durable, target, batch, live, work, fails>>

\* apply_batch opens its SQL transaction and reads the live names.
BeginBatch ==
  /\ pc = "folded"
  /\ work' = db.tables
  /\ live' = LiveNameNullifiers(db.tables)
  /\ pc' = "batch"
  /\ UNCHANGED <<chain, db, durable, target, batch, lineage, fails>>

\* The next transaction of the batch in (height, tx_index) order.
IsNext(s) == s \in batch /\ \A o \in batch \ {s} : Before(s.at, o.at)

\* The part of the loop common to every verdict: spends and kept notes are
\* stored, the lineage steps.
Settle(s, tables, seated) ==
  /\ work' = StoreFacts(tables, s.tx, s.at, seated)
  /\ lineage' = StepTx(lineage, s.at[1], TxAnchorFacts(s.tx, seated))
  /\ batch' = batch \ {s}
  /\ UNCHANGED <<chain, db, durable, pc, target, fails>>

Backed(s)     == ClaimBacked(s.tx, lineage, live)
Consumes(s)   == PredecessorSpent(work, s.tx, lineage, live)
Valid(s)      == ValidSuccessor(work, s.tx)
Admission(s)  == AdmissionRow(s.tx, s.at)
NotesOf(rows) == {r.note.nf : r \in rows}

\* A backed claim of a free name: the name is taken, the successor seated.
AdmitClaim(s) ==
  /\ pc = "batch" /\ IsNext(s) /\ Backed(s) /\ Valid(s)
  /\ live' = IF IsNewEvent(work, Admission(s))
             THEN live \cup {TheNote(s.tx).nf} ELSE live
  /\ Settle(s, RecordAdmission(work, Admission(s)), TRUE)

\* A backed claim that fails the chain rule or has no nullifier.
DropClaim(s) ==
  /\ pc = "batch" /\ IsNext(s) /\ Backed(s) /\ ~Valid(s)
  /\ UNCHANGED live
  /\ Settle(s, work, FALSE)

\* Mutant: the nullifier of the extended tip stays among the live ones.
AdmitTransitionKeepingTip(s) ==
  /\ pc = "batch" /\ IsNext(s) /\ Consumes(s) /\ Valid(s)
  /\ live' = IF TheNote(s.tx).action = "update"
             THEN live \cup {TheNote(s.tx).nf} ELSE live
  /\ Settle(s, RecordAdmission(work, Admission(s)), FALSE)

\* An update moves the tip, a release frees the name.
AdmitTransition(s) ==
  /\ pc = "batch" /\ IsNext(s) /\ Consumes(s) /\ Valid(s)
  /\ live' = IF IsNewEvent(work, Admission(s))
             THEN (live \ NotesOf(ReadTip(work, TheNote(s.tx).name))) \cup
                  (IF TheNote(s.tx).action = "update" THEN {TheNote(s.tx).nf} ELSE {})
             ELSE live
  /\ Settle(s, RecordAdmission(work, Admission(s)), FALSE)

\* The tip is consumed without a valid successor (end_binding_implicitly).
EndPredecessor(s) ==
  LET ended == ReadTip(work, TheNote(s.tx).name)
  IN  /\ pc = "batch" /\ IsNext(s) /\ Consumes(s) /\ ~Valid(s)
      /\ live' = live \ NotesOf(ended)
      /\ Settle(s, EndBindings(work, ended, s.tx, s.at), FALSE)

\* Any other transaction ends every live name it spends.
FollowSpends(s) ==
  /\ pc = "batch" /\ IsNext(s) /\ ~Backed(s) /\ ~Consumes(s)
  /\ live' = live \ s.tx.spends
  /\ Settle(s, EndBindings(work, SpentNames(work, s.tx, live), s.tx, s.at), FALSE)

ApplyTransaction(s) ==
  AdmitClaim(s) \/ DropClaim(s) \/ AdmitTransition(s) \/ EndPredecessor(s) \/ FollowSpends(s)

Rest ==
  /\ pc' = "idle"
  /\ target' = << >> /\ batch' = {} /\ lineage' = EmptyLineage
  /\ live' = {} /\ work' = EmptyTables

\* Mutant: the tables are committed before the checkpoint is set.
CommitBatchBeforeCheckpoint ==
  /\ pc = "batch" /\ batch = {}
  /\ Persist([tables |-> work, branch |-> db.branch])
  /\ Rest
  /\ UNCHANGED <<chain, fails>>

\* Mutant: every transaction of the chain is committed by itself.
CommitBatchPerTransaction ==
  /\ pc = "batch"
  /\ IF batch = {} THEN Persist([tables |-> work, branch |-> target]) /\ Rest
     ELSE Persist([tables |-> work, branch |-> db.branch]) /\ UNCHANGED <<pc, local>>
  /\ UNCHANGED <<chain, fails>>

\* The checkpoint is set in the same SQL transaction, which commits.
CommitBatch ==
  /\ pc = "batch" /\ batch = {}
  /\ Persist([tables |-> work, branch |-> target])
  /\ Rest
  /\ UNCHANGED <<chain, fails>>

-----------------------------------------------------------------------------
(* Failures.                                                               *)

\* Mutant: what was written before the failure stays.
AbandonKeepingWork ==
  /\ pc = "batch" /\ fails < MaxFails
  /\ Persist([tables |-> work, branch |-> db.branch])
  /\ Rest
  /\ fails' = fails + 1
  /\ UNCHANGED chain

\* An error, a panic or a crash drops the open SQL transaction.
Abandon ==
  /\ pc # "idle" /\ fails < MaxFails
  /\ Rest
  /\ fails' = fails + 1
  /\ UNCHANGED <<chain, db, durable>>

\* The last commits may be lost with the power.
PowerLoss ==
  /\ Lossy /\ fails < MaxFails
  /\ db' = durable
  /\ Rest
  /\ fails' = fails + 1
  /\ UNCHANGED <<chain, durable>>

-----------------------------------------------------------------------------
Network == (\E b \in Block : Mine(b)) \/ (\E k \in 0..(Len(chain) - 1) : Reorg(k))

Scanner == \/ \E from, to \in 1..Len(chain) : Scan(from, to)
           \/ \E k \in 0..Len(chain) : RewindTo(k)

Indexer == \/ Scanner
           \/ TakeSnapshot \/ BeginBatch
           \/ \E s \in batch : ApplyTransaction(s)
           \/ CommitBatch

Next == Network \/ Indexer \/ Abandon \/ PowerLoss

\* The main loop restarts the indexer for ever; nothing is assumed of the
\* network or of failures.
Spec == Init /\ [][Next]_vars /\ WF_vars(Indexer)

-----------------------------------------------------------------------------
(* Properties.                                                             *)

\* Every variable holds a value of its kind.  The lineage has no conjunct:
\* LineageIsFold gives its value in every state.
TypeOK ==
  /\ chain \in Branch
  /\ db \in Database /\ durable \in Database
  /\ pc \in {"idle", "scanned", "folded", "batch"}
  /\ target \in Branch
  /\ batch \subseteq Scanned
  /\ live \subseteq Nf
  /\ work \in Tables
  /\ fails \in 0..MaxFails

OnBranch(at, branch) == at[1] \in DOMAIN branch /\ at[2] \in DOMAIN branch[at[1]]

TxAt(at, branch) == branch[at[1]][at[2]]

\* Every row comes from the transaction at its position on the branch.
TablesOnBranch(tables, branch) ==
  /\ \A e \in tables.events :
       /\ OnBranch(e.at, branch)
       /\ e.txid = TxAt(e.at, branch).id
       /\ HasSingleNameNote(TxAt(e.at, branch))
       /\ e.note = TheNote(TxAt(e.at, branch))
  /\ \A i \in tables.implicit :
       /\ OnBranch(i.at, branch)
       /\ i.txid = TxAt(i.at, branch).id
       /\ i.nf \in TxAt(i.at, branch).spends
  /\ \A f \in tables.facts :
       /\ OnBranch(f.at, branch)
       /\ f.nf \in TxAt(f.at, branch).zero
       /\ f.spent # NotSpent => /\ OnBranch(f.spent, branch)
                                /\ f.nf \in TxAt(f.spent, branch).spends
  /\ tables.names \subseteq tables.events

\* No record outlives its block.  Whatever was reorganised away, rescanned
\* or lost in a crash, every event, implicit release, anchor note and spend
\* the database holds was mined, where it says, on the branch its checkpoint
\* names, and every served tip is one of those events (rewind, apply_batch
\* and their one SQL transaction).
RecordsOnBranch ==
  /\ TablesOnBranch(db.tables, db.branch)
  /\ pc = "batch" => TablesOnBranch(work, target)

\* One tip per name, and no two tips share a nullifier.
TipsDistinct(tables) ==
  \A r, q \in tables.names :
    r.note.name = q.note.name \/ r.note.nf = q.note.nf => r = q

\* The in-memory set of live name nullifiers agrees with the names table at
\* every transaction of a batch, so the invariant failure "live-name set
\* does not match the names table" cannot stop the indexer (core.rs:830).
LiveNamesMatch ==
  pc = "batch" => /\ live = LiveNameNullifiers(work)
                  /\ TipsDistinct(work)

\* The lineage the batch carries is the fold of the facts it has stored so
\* far: a replay of the stored facts matches the batch that wrote them
\* (anchor_lineage.rs:34), at every transaction boundary.
LineageIsFold ==
  IF pc \in {"idle", "scanned"} THEN lineage = EmptyLineage
  ELSE lineage = FoldLineage(IF pc = "batch" THEN work.facts ELSE db.tables.facts)

\* The tips the two logs imply: what a rewind would rebuild for every name.
ImpliedTips(tables) ==
  UNION {RebuiltTip(tables.events, tables.implicit, n) : n \in Name}

\* The names table is what the event log and the implicit releases imply,
\* so a rewind rebuilds exactly the tips the batches had written.
NamesFollowLogs ==
  /\ db.tables.names = ImpliedTips(db.tables)
  /\ pc = "batch" => work.names = ImpliedTips(work)

\* The records of a name before a position, in either log.
LiveBefore(tables, name, p) ==
  RebuiltTip({e \in tables.events : Before(e.at, p)},
             {i \in tables.implicit : Before(i.at, p)}, name)

\* The history of every name is a chain: a claim starts from a free name,
\* an update or a release extends the record live just before it, and an
\* implicit release ends the record whose nullifier it stores (events()
\* reports any other history as corrupt, core.rs:1146).
HistoryIsChained ==
  /\ \A e \in db.tables.events :
       CheckChainRule(LiveBefore(db.tables, e.note.name, e.at), e.note)
  /\ \A i \in db.tables.implicit :
       i.nf \in NotesOf(LiveBefore(db.tables, i.name, i.at))

\* What the index treats as authority is unspent on its branch and watched:
\* no transaction of the checkpoint's branch spends a served tip or a live
\* anchor, and the watch-set would reveal the first one that does.
AuthorityIsUnspentAndWatched ==
  LET authority == LiveNameNullifiers(db.tables) \cup FoldLineage(db.tables.facts).live
      revealed  == UNION {s.tx.spends : s \in TxsOf(db.branch, 1, Len(db.branch))}
  IN  /\ authority \cap revealed = {}
      /\ authority \subseteq IronwoodNullifiers(db.tables)

\* The lineage as the transactions before a position had left it.
LineageBefore(tables, p) ==
  FoldLineage({IF Before(f.spent, p) THEN f ELSE [f EXCEPT !.spent = NotSpent] :
                 f \in {g \in tables.facts : Before(g.at, p)}})

\* Names are paid for in anchors, one for one: a claim in the log spent one
\* note that was live when it was mined and seated one in its place, an
\* update or a release spent and seated none, and no successor is stored
\* whose claim is not in the log (accept_claim, tx_anchor_facts).
ClaimsAreBacked ==
  /\ \A e \in db.tables.events :
       LET paid   == LineageBefore(db.tables, e.at).live \cap TxAt(e.at, db.branch).spends
           seated == {f \in db.tables.facts : f.at = e.at}
           price  == IF e.note.action = "claim" THEN 1 ELSE 0
       IN  Cardinality(paid) = price /\ Cardinality(seated) = price
  /\ \A f \in db.tables.facts :
       f.claimSuccessor =>
         \E e \in db.tables.events : e.at = f.at /\ e.note.action = "claim"

\* After the ceremony no later block adds authority: while the checkpoint's
\* branch grows, the live anchors become fewer or stay as many, whatever the
\* new blocks hold ("Authority cannot be minted, only succeeded", step_tx).
AuthorityNeverGrows ==
  [][LET before == FoldLineage(db.tables.facts)
     IN  AdoptionClosed(before) /\ IsPrefix(db.branch, db'.branch)
         => Cardinality(FoldLineage(db'.tables.facts).live) <= Cardinality(before.live)]_vars

\* Applying a transaction the checkpoint already covers changes nothing, no
\* table and none of the values carried to the next transaction: the index
\* replays idempotently (core.rs:1012).
ReplayIsNoOp ==
  [][\A s \in batch :
       pc' = "batch" /\ batch' = batch \ {s} /\ s.at[1] <= Len(db.branch)
       => UNCHANGED <<work, live, lineage>>]_vars

\* When the best chain stops changing the index reaches it and stays.
CatchesUp == []<><<TRUE>>_chain \/ <>[](db.branch = chain)
=============================================================================
