------------------------------- MODULE Rescan -------------------------------
(***************************************************************************)
(* A checkpoint that does not decode.  core::checkpoint reads it as no     *)
(* checkpoint, so the scanner starts again at the birthday over tables     *)
(* that are full, and without the rewind that a checkpoint off the best    *)
(* chain would have caused (src/src/registry/core.rs, checkpoint).  The    *)
(* process may crash and the power may fail while it does.                 *)
(***************************************************************************)
EXTENDS Resolver

CONSTANT ReorgsMeanwhile  \* whether blocks with rows in the tables may be
                          \* replaced before the rescan has reached them

ASSUME RescanAssumption == ReorgsMeanwhile \in BOOLEAN

\* The heights of the blocks that left something in the tables.
Heights(tables) ==
  {e.at[1] : e \in tables.events} \cup {i.at[1] : i \in tables.implicit} \cup
  {f.at[1] : f \in tables.facts} \cup
  {f.spent[1] : f \in {g \in tables.facts : g.spent # NotSpent}}

\* The tables are ahead of the checkpoint.
Rescanned(d) == \E h \in Heights(d.tables) : h > Len(d.branch)

Rescanning == Rescanned(db)

\* The stored hash is damaged; the tables are not.
CorruptCheckpoint ==
  /\ pc = "idle" /\ db.branch # << >>
  /\ ReorgsMeanwhile \/ OnBestChain
  /\ fails < MaxFails /\ fails' = fails + 1
  /\ db' = [db EXCEPT !.branch = << >>] /\ durable' = db'
  /\ UNCHANGED <<chain, pc, local>>

\* The durable database counts as long as the power may still fail.
NetworkMeanwhile ==
  /\ Network
  /\ \A d \in {db} \cup {e \in {durable} : fails < MaxFails} :
       Rescanned(d) /\ ~ReorgsMeanwhile
         => \A h \in Heights(d.tables) : IsPrefix(SubSeq(chain, 1, h), chain')

RescanNext ==
  CorruptCheckpoint \/ NetworkMeanwhile \/ Indexer \/ Abandon \/ PowerLoss

RescanSpec == Init /\ [][RescanNext]_vars /\ WF_vars(Indexer)

-----------------------------------------------------------------------------
(* Properties.                                                             *)

\* While the rescan passes blocks the tables already hold, it changes no
\* table: claims, updates and ends that happened are not judged anew with
\* another verdict against the later state the tables are in ("the index
\* replays idempotently", core.rs:1012).
RescanChangesNothing ==
  [][pc = "batch" /\ pc' = "batch" /\ Rescanning
       => \A s \in batch \ batch' :
            (\E h \in Heights(db.tables) : s.at[1] <= h) => work' = work]_vars

\* Once the rescan has passed what the tables hold the index is whole again:
\* its records are of its branch, its tips are those its logs imply, and
\* nothing it takes for authority is spent ("healed by rescanning from the
\* birthday", core.rs:1012).
Healed ==
  ~Rescanning => /\ TablesOnBranch(db.tables, db.branch)
                 /\ NamesFollowLogs
                 /\ AuthorityIsUnspentAndWatched
=============================================================================
