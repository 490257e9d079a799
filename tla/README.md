# A verification of the ZNS resolver

The resolver follows the Zcash chain, judges every transaction of the name
registry by the mint's law, and serves the resulting index of names over
JSON-RPC. This directory holds TLA+ modules that model it, the TLC
configurations that check them on small instances, and proofs, checked by
TLAPS, of what holds for every instance. Paths are relative to the repository.

## 1. Inventory

| Component | Code | State | Operations | Correct when |
|---|---|---|---|---|
| Anchor lineage | `src/registry/anchor_lineage.rs` | a value: the live anchors, whether the ceremony has closed | `adopt`, `step_tx`, `live_retirements`, `touches_live_anchor` | authority to claim is created once, by the ceremony, and afterwards only succeeded one for one |
| Registry store | `src/registry/core.rs`, `notes.rs`, `nf.rs` | SQLite tables `name_events`, `names`, `implicit_releases`, `anchor_facts`, `registry_account` | `apply_batch`, `rewind`, `lineage_facts` and `fold_lineage`, `nullifiers`, `checkpoint`, the readers | the tables are the ledger of the checkpoint's branch, and agree with each other |
| Indexer | `src/sync.rs` (`impl Account`), `src/main.rs` | the open batch: lineage, live names, an SQL transaction | the callbacks `checkpoint`, `nullifiers`, `rewind`, `apply_transactions`; the restart loop | no interleaving of scans, reorganisations, crashes and retries breaks the store; it catches up |
| Scanner and network | external (`seer_sync`, lightwalletd) | the best chain | delivers blocks, asks for rewinds | assumed, see section 4 |
| Tip publisher, status | `src/sync.rs` (`live_tip`), `src/jsonrpc/service.rs` | a watch channel with the last tip | poll, reconnect, time out; `status` | `synced` is not claimed on a stale tip |
| Storage bootstrap | `src/registry/storage.rs`, `src/registry.rs`, `install_registry_config` | the schema, the account row | `Db::open` | a crash during the first start, or another configuration, does not corrupt or mix indexes |
| JSON-RPC reads | `src/jsonrpc*`, readers of `core.rs` | none: one connection under a mutex | `resolve`, `list_names`, `reverse_lookup`, `events` | a reader sees a whole number of batches; pages are in bounds |
| SDK clients | `sdk/rust`, `sdk/typescript`, `sdk/dart` | a list of endpoints, the next request id | a call with failover; the operations on top of it | a dead endpoint does not hide a live one, a final answer is not retried, nothing is called available or verified unasked |
| SDK helpers | `sdk/rust/src/memo.rs`, `zip321.rs`, `validators.rs`, `pricing.rs` | none | build and parse memos and payment URIs, check names, addresses and amounts | a memo has one reading, a payment arrives as it was asked for |
| Images and packaging | `Dockerfile`, `Dockerfile.stagex` | none | build the binary | not modelled |

How they interact. `main` opens the store, spawns the tip publisher and the
RPC server, and runs the scanner in an endless loop. The scanner calls back
into `Registry` (`sync.rs`): it reads the checkpoint and the watch-set, scans
blocks, and hands over their registry transactions with a new checkpoint, or
asks for a rewind when the checkpoint left the best chain. Indexer and readers
share one SQLite connection under a mutex. The indexer is the only writer;
readers hold the mutex for one query, so they see committed states. A wallet
reads the index through an SDK client, and asks the mint for a change with a
memo in a payment; the mint may answer with a challenge that is sent back.

What is hard. The law is evaluated one transaction at a time against state held
in three forms that must agree: SQL tables, the lineage folded from stored
facts, and the in-memory set of live nullifiers. Blocks are delivered again,
branches are replaced, the process stops anywhere, the power may take committed
work back, and the same tables must then be extended, replayed or cut. The
hazards are listed one by one, with the line where each bites and the
properties that watch it, in `PROJECT.json`.

## 2. Modules

- `AnchorLineage` has the lineage as a value and `StepTx`, the whole of
  `step_tx`. `AdoptAll` is the loop over `adopt` as one set operation.
- `Registry` has the tables as sets of rows and one operator per function of
  `core.rs` that reads or writes them: the shape of a transaction
  (`Candidates`, `ClaimSuccessorOutput`, `KeptAdoptions`), the gates of the law
  (`ClaimBacked`, `PredecessorSpent`, `ValidSuccessor`), the writes
  (`RecordAdmission`, `EndBindings`, `StoreFacts`), the replay
  (`FoldLineage`), the watch-set and the rewind (`Rewound`, `RebuiltTip`).
- `Resolver` is the state machine: the network's chain, the committed database,
  what a power loss would leave of it, and the indexer's locals. One action per
  step of the code between two points where something else can happen; the
  transaction loop of `apply_batch` has one action per verdict (`AdmitClaim`,
  `DropClaim`, `AdmitTransition`, `EndPredecessor`, `FollowSpends`), each of
  which also stores the facts and steps the lineage, as one turn of the loop
  does.
- `NameLedger` is the abstract specification: tips and pool as a function of
  one branch, a branch that only grows or is cut at its end. It has no tables,
  positions, history or replay.
- `ResolverRefinement` maps one onto the other and states the refinement.
- `MCResolver` is the catalogue of transactions and blocks for TLC.
- `ResolverProofs` and `LedgerProofs` have the theorems, in that order of
  reading: where the rows lie, what the fold of the facts is and what the tables
  say together; then the refinement and authority.
- `Rescan` extends `Resolver` with a checkpoint that does not decode, which
  `checkpoint` reads as no checkpoint. Tables full, cursor gone: everything from
  the birthday is judged again. A database is `Rescanned` while its tables have
  rows above its checkpoint. The constant `ReorgsMeanwhile` says whether blocks
  with rows in the tables may be replaced before the rescan has passed them; what
  a power loss may still bring back counts too (`NetworkMeanwhile`).
- `RescanProofs` has its theorems, on top of those of `LedgerProofs`.
- `ApiReads` extends `Resolver` with the reads of the API and a client that
  reads page after page while batches and rewinds commit. `EventLog` is the SQL
  of `events`: both logs, the join that gives an implicit release the record it
  ended, the filters, the order; `Listing` that of `list_registrations` and
  `registrations_by_ua`; `Resolve` is `resolve` with the dispatch on its query.
  `ReadPage` and `ListPage` are one call each under the mutex, so one committed
  state. A client either follows the events above a cursor or lists names.
- `ReadsProofs` has its theorems.
- `TipWatch` is `live_tip` as a task that waits in one of five places, each with
  a timer, next to a `status` call in two steps. Time is discrete and `Tick`
  cannot pass a deadline, so a timer fires when it is due, while an answer that
  is ready at the deadline may still win.
- `TipWatchProofs` has its theorems.
- `Bootstrap` is `Db::open`: the schema one statement at a time in the order of
  `SCHEMA_SQL`, the account row, the payment notes, each a commit of its own,
  with stops and power losses anywhere and a build of any configuration at each
  start. `Start` has the decoding of the key that `main` does before it,
  `ServeRpc` the binding of the address after it.
- `BootstrapProofs` has its theorems.
- `SdkClient` is the failover of the three client libraries. They are one
  algorithm; the operators `IsForeign`, `NullIsResult` and `IsResult` hold their
  differences (only Rust compares ids, a null is a result for TypeScript and for
  nullable calls, an absent result is a null), and only TypeScript can be
  aborted by its caller or be without a timeout. Above the loop are the
  operations: `RefuseName` returns without a request for a string that is no
  name, and `Outcome` is what `resolve_name`, `is_available`, `verify` and the
  rest make of a result. Only Rust reads the members of a record inside the
  loop; elsewhere a record of the wrong shape ends the call.
- `SdkClientProofs` has its theorems.
- `Requests` is the way of a request from a form to a payment: `memo.rs` builds
  the memo, `zip321.rs` the URI, something external rewrites the URI in the ways
  the parser documents (`Rewritten`, and `Requeried` for its query), and the
  paying wallet parses it. Beside it, a challenge is parsed, built again and
  sent back. The operators have the functions' names.
- `RequestsProofs` has its theorems.
- `MCRescan`, `MCApiReads`, `MCTipWatch`, `MCBootstrap`, `MCSdkClient`,
  `MCRequests` hold the instances.

Operators whose comment starts with *Mutant* are wrong on purpose: each is a
plausible slip in the definition that follows it, and with it in place the
property named in `PROJECT.json` fails. They occur in no specification.

### What the model keeps and what it abstracts

- A name note is an action, a name, the commitment it extends, its own
  commitment, its nullifier or the fact that it has none, and the set of triage
  gates it passes. Hashing, memo syntax and addresses are those gates.
- The position of a record is its block height and transaction index. The
  action index in the primary keys is dropped: a transaction writes at most one
  record of a name, since more than one name note takes the path that admits
  none.
- A checkpoint is the branch it identifies: a block hash commits to every
  block below it.
- SQL transactions are `work` until `CommitBatch`; a rewind is one step because
  it runs under the mutex in one SQL transaction and reads nothing else.
- `Abandon` covers every way a batch ends early: an SQL error, a panic, a
  crash. All of them roll the SQL transaction back and lose the locals.
- With `synchronous=NORMAL` the log may lose its newest commits with the power,
  in order. `durable` is a committed state at most as new as `db`.
- A text in `Requests` is a sequence of symbols: words of letters and digits,
  delimiters, and the percent escape or base64 form of a symbol. Splitting,
  trimming, escaping and the comparison of digits work on symbols; bytes, the
  length of a name and the checksum of an address do not occur. The texts of
  `ApiReads` are names, addresses and the empty query, a name may parse as an
  address, and a record is its name, address, txid, height and action.

## 3. Runs

| Run | Question | Instance |
|---|---|---|
| `life` | do tables, fold, live set and history agree, and does the index implement the ledger, while one name is claimed by two rivals, updated, wrongly released or burnt, under reorganisations, redelivery and a crash? | 6 transactions in 9 blocks, chain of 4, batches of 3, 1 failure |
| `shape` | does every shape of transaction get the abstract ledger's verdict, is each name paid for with one anchor, and does authority never grow after the ceremony? | 14 transactions in 10 blocks, chain of 4, batches of 1 |
| `rescan` | is what a power loss or a corrupt checkpoint leaves healed by scanning on, and does the index reach a chain that has stopped changing? | few blocks and a rival claim, chain of 4, batches of 2, 2 failures of any kind: crash, power loss, corrupt checkpoint |
| `reads` | do clients that page through the log or the names miss nothing, and do the log, the names table and `resolve` agree? | 7 blocks with two names, chain of 4, batches of 1, pages of 1 and 2 rows, 4 queries |
| `tip` | is a tip shown only while fresh, hidden by outages alone, and does it come back? | 2 heights, timeout and sleep of 2 units, retry of 1 |
| `bootstrap` | can a stopped start or another build make a process serve an incomplete, foreign or mixed index, or leave a key that does not decode? | 3 registries, one undecodable, 2 birthdays, any number of starts |
| `sdk` | does the first answer end a call, does every call with a timeout end, and what must a reply have said for a caller to be assured of something? | 2 calls of any of 4 operations, 2 endpoints, 3 libraries |
| `requests` | does a memo have one reading, and does a payment arrive as it was asked for through any two rewritings of its URI? | 10 texts for a name, 4 for an address, every amount of up to 5 symbols in base three, 2 rewritings |
| `append_only`, `action_index`, `rescan_reorg`, `wrong_shape` | one statement of the docs each that the code does not keep, see section 5 | as the run of their module |

The properties:

- `RecordsOnBranch`: every event, implicit release, anchor note and spend in the
  database lies on the checkpoint's branch, in the transaction it names.
- `LiveNamesMatch`: the live-name set is the nullifiers of the names table.
- `LineageIsFold`: at every transaction boundary the lineage of the batch is the
  fold of the facts stored so far.
- `NamesFollowLogs`: the names table is what the two logs imply.
- `HistoryIsChained`: each record of a name extends the record live before it.
- `AuthorityIsUnspentAndWatched`: no served tip and no live anchor is spent on
  the branch, and each is in the watch-set.
- `ReplayIsNoOp`: a redelivered transaction changes nothing: no table, not the
  live names, not the lineage.
- `ImplementsLedger`: the refinement of `NameLedger`.
- `ClaimsAreBacked`: each claim in the log spent one note that was live when it
  was mined and seated one in its place; an update or a release spent and seated
  none, and every stored successor has its claim in the log.
- `AuthorityNeverGrows`: once the ceremony is on the branch, a branch that grows
  has no more live anchors than before, whatever the new blocks hold.
- `CatchesUp`: if the chain stops changing, the index ends at its tip.
- `RescanChangesNothing`, `Healed`: a rescan changes no table while it passes
  blocks the tables hold, and the index is whole once it has.
- `FollowerMissesNothing`: after each traversal a client knows every event of
  its filter up to its cursor, and none that was never served.
- `ListingHasNoGap`: a listing has every name that matched when it began, if none
  of them was released or moved away meanwhile; claims and updates shift nothing.
- `NewestEventIsTheBinding`: what `resolve` answers and the newest event of the
  name are one record, or both say free, and no name is taken for an address.
- `ImplicitReleaseNamesItsBinding`: `events` never refuses the log, and serves
  each implicit release with the address of the binding it ended.
- `TipIsFresh`, `TipFollowsOutages`, `TipReturns`: a tip is gone one sleep and
  three timeouts after the last answer; it is hidden by the second quick error
  or the first hang and by nothing less; with a server up it returns.
- `SyncedIsRecent`: `synced` is said only of a position that reached the last
  height reported, recently.
- `ServesItsOwnIndex`, `IndexIsOfOneScan`, `OwnIndexIsNeverRefused`,
  `StoredKeyDecodes`: what may be served, what lies under a checkpoint, what may
  be refused, what may be left in the file by a bad build.
- `FirstAnswerWins`, `ResultsAreOwn`, `AbortIsFinal`, `CallsEnd`: failover hides
  no answer, Rust mixes up no calls, an abort asks nobody else, a timeout ends.
- `AssurancesAreAnswered`: a caller is assured of nothing unasked or after
  failures, nor in Rust by a reply to another call. Verified means that a status
  with the viewing key came last. Available means no more than that the last
  reply had neither a record nor an error: that it was a null, as it should be,
  is what `wrong_shape` refutes (section 5).
- `OneReading`: a memo is the memo of one request, and only a challenge reads as
  one.
- `PaymentArrives`: address, amount and memo survive the URI and its rewritings.
- `AmountsAreWithinSupply`: an amount in a URI is a decimal number of at most so
  many places up to the supply (`IsWithinSupply`), and one that is refused with
  nothing else wrong is not.
- `EchoIsChallenge`: a challenge read and built again is the challenge.

Bounds. `MaxHeight`, `BatchLimit` and `MaxFails` bound the chain, a batch and
the failures. Reorganisations are not bounded: any suffix may be replaced any
number of times. A chain of four holds the ceremony, a claim, a transition and
what follows it, and a batch of two blocks after a redelivered one covers every
position of the seam. The pool has two notes instead of forty: one to claim
with and one to compete with; the law only asks whether exactly one live anchor
was spent. Deadlock is checked. In `tip` a timeout of two units tells "just
before", "at" and "after" apart, the fallback is tried after the timeout, and
the proofs remove the bound. In `reads`, pages of one row and answers of several
make every traversal span commits; batches of one block give a reader the most
states to read, and the modulus of the offset stands for 2^32. In `rescan` two
failures put a power loss or a crash into the rescan that a corrupt checkpoint
started, and a second corruption into the first. In `sdk` two endpoints are what
the mainnet preset has; a third adds only a second "move on". In `requests` the
limit 21 in base three has the two digits whose order matters, five symbols hold
a leading zero, the limit and a point with two places, and two rewritings let
one undo or repeat the other.

Fairness. `Spec` of `Resolver` has weak fairness of `Indexer` alone: `main`
restarts the scanner for ever, two seconds after it returns, and nothing else
runs on that task; `RescanSpec` has the same. Nothing is assumed of the network,
of failures or of which blocks the scanner picks. `TipWatch` has weak fairness
of the task `live_tip`, which tokio does not starve, and of time. `SdkClient` has
it for timers and for the cancellation of an aborted request, and for no reply.
`Bootstrap`, `ApiReads` and `Requests` have no liveness property and no fairness.

## 4. What is assumed of the outside

The scanner and the network are external. `Scan` assumes that the blocks handed
over are consecutive, on the best chain at that moment, and continue the
checkpoint, with the checkpoint's own block possibly first once more (the tests
of `core.rs` replay it); that every registry transaction of those blocks is
handed over; and `RewindTo` that a rewind goes to a block common to the
checkpoint and the best chain. `Consensus` states that a transaction is mined
once, a nullifier is revealed once and a note is spent after it is created. It
allows spends inside the block of creation, as the tests of `core.rs` do.
`IdentityAssumption` states that txids and nullifiers identify.

That an SQL transaction which is dropped, also while a panic unwinds, leaves
nothing behind is what rusqlite promises: `Abandon` assumes it, and with the
mutant `AbandonKeepingWork` in its place `RecordsOnBranch` fails.

A follower of `events` is told when a rewind cuts its log (`StartOver`); nothing
in the API tells it, which is the finding `append_only`. A client that lists
names is not told. Endpoints and whatever answers in their place may reply
anything, with any request id. Whatever carries a URI may write the same payment
in another form the parser's documentation accepts (`Rewritten`), and nothing
else. One process has the database file open at a time.

## 5. Where the docs and the code differ

Each has a run that finds the behaviour; the code's line and the quoted line are
in `PROJECT.json` under `findings`. None breaks the index of names.

- *Append-only log* (`append_only`): a rewind deletes events that were served.
  A client that keeps a cursor has no way to notice.
- *Action index* (`action_index`): it counts inside a transaction, and the
  transaction's index is not served, so two actions of one name in one block
  cannot be ordered by it.
- *Healing by rescan* (`rescan_reorg`): true while the scanned branch stands
  (run `rescan`); if blocks of it were replaced before the rescan passed them,
  their rows stay, since nothing is rewound.
- *Wrong shape* (`wrong_shape`): the Dart and the Rust client take an absent
  result for a null where null is allowed, and do not ask the next endpoint: a
  reply with neither result nor error makes a name read as free, and
  `is_available` true. The property is stated of both, and TLC stops at the
  trace of one; there is one finding for each. TypeScript does the same, but
  nothing is written of malformed replies there.

Two smaller ones have no run. An offset is cast to 32 bits where the comment of
`clamp_pagination` speaks of safe bounds (`AppliedOffset`). A first start that
stops within `SCHEMA_SQL` leaves a file that every later start refuses as
unsupported, with the advice to remove the old file (`RefuseSchema`).

## 6. Proofs

A theorem holds for every value of the constants that satisfies the named
assumptions of the modules it extends, which TLC evaluates in every run:
`RegistryAssumption`, `IdentityAssumption`, `ResolverAssumption`,
`ApiAssumption`, `RescanAssumption`, `TipWatchAssumption`,
`BootstrapAssumption`, `SdkAssumption`, `PoolSizeAssumption`, and for the texts
`RequestsAssumption`, `NumeralAssumption`, `MarkAssumption`.
The inductive invariants hold in TLC's runs too: `LInv` on `shape` and `life`,
`FollowInv` and `ListInv` on `reads`, `RInv` on `rescan`, the `IInv` of
`SdkClientProofs` on `sdk`.

| Module | Theorems | Of the runs' properties |
|---|---|---|
| `ResolverProofs` | `TypeCorrect`, `NoOrphanRecords`, `LiveNamesAgree`, `FoldIsStanding`, `LineageAgrees`, `NamesAreImplied`, `HistoriesAreChains`, `AuthorityIsSound`, `ReplayIsIdempotent` | `TypeOK`, `RecordsOnBranch`, `LiveNamesMatch`, `LineageIsFold`, `NamesFollowLogs`, `HistoryIsChained`, `AuthorityIsUnspentAndWatched`, `ReplayIsNoOp` |
| `LedgerProofs` | `ImplementsTheLedger`, `CommittedIsLedger`, `LogIsLawful`, `BranchDeterminesTables`, `NamesArePaidFor`, `AuthorityOnlyShrinks`, `PoolIsBounded` | `ImplementsLedger`, `ClaimsAreBacked`, `AuthorityNeverGrows` |
| `RescanProofs` | `RescanHeals`, `RescanIsIdle`, `RescanLineageAgrees`, `RescanIsInvisible` | `Healed`, `RescanChangesNothing`, `LineageIsFold` (of `RescanSpec`) |
| `ReadsProofs` | `FollowersMissNothing`, `ListingsHaveNoGap`, `ResolveAndEventsAgree`, `ReleasesNameTheirBinding` | `FollowerMissesNothing`, `ListingHasNoGap`, `NewestEventIsTheBinding`, `ImplicitReleaseNamesItsBinding` |
| `TipWatchProofs` | `TipFresh`, `TipIsLastAnswer`, `SyncedRecent` | `TipIsFresh`, `TipFollowsOutages`, `SyncedIsRecent` |
| `BootstrapProofs` | `FileTyped`, `ServesOwn`, `OneScan`, `OwnIndexAccepted`, `KeyDecodes` | `ServesItsOwnIndex`, `IndexIsOfOneScan`, `OwnIndexIsNeverRefused`, `StoredKeyDecodes` |
| `SdkClientProofs` | `ClientTyped`, `TheFirstAnswerWins`, `ResultsStayOwn`, `AssurancesRestOnReplies`, `AbortStops` | `FirstAnswerWins`, `ResultsAreOwn`, `AssurancesAreAnswered`, `AbortIsFinal` |
| `RequestsProofs` | `MemosAreReadInOneWay`, `PaymentsArrive`, `ChallengesAreEchoed`, `AcceptedAmountsAreWithinSupply` | `OneReading`, `PaymentArrives`, `EchoIsChallenge`, `AmountsAreWithinSupply` |

### The tables and their branch (`ResolverProofs`)

`RecordsOnBranch` is not inductive: a commit publishes the open tables with the
branch the batch ends at, and a power loss publishes the durable ones. The
invariant `IInv` therefore says of three databases, committed, durable and open,
that they are `Good` for their branch, where the open one's branch is the
batch's target; that the target extends the checkpoint; and that the batch's
transactions lie on it. `Good` includes that tips are distinct, by name and by
nullifier, which is what makes removing a nullifier from the live set the same
as removing the row. The proof has three parts. Branch lemmas (`PrefixKeeps`,
`CutKeeps`) say that a position keeps its transaction when the branch grows or
is cut above it. Database lemmas say that `Good` survives growth (`GrowGood`), a
rewind (`RewoundGood`, where a rebuilt tip is unique because two events at one
position of one branch are one event) and each write (`StoreFactsGood`,
`RecordAdmissionGood`, `EndBindingsGood`). `NextInv` takes the actions one by
one.

### The fold has a closed form (`ResolverProofs`)

`FoldLineage` replays the stored anchor facts transaction by transaction.
`FoldIsStanding` says what comes out, `Standing(facts)`: the ceremony is the
first transaction of its shape, the notes that confer authority are those of the
ceremony and all successors, and the live anchors are those of them without a
recorded spend. It holds of `WellFormed` facts: no two of one note, none spent
before it is created, and each successor the only fact of a transaction that
spends exactly one conferring note after a ceremony. The induction over
positions is by least counterexample: the positions of the facts are a finite
set, so if the fold differs from the closed form somewhere there is a first
place, and the step there contradicts it. All that follows reasons about
`Standing` and never about the recursion.

### What the tables say (`ResolverProofs`)

That names follow the logs, that histories are chains, that authority is unspent
and that a replay does nothing are inductive only together. The invariant `SInv`
says that the tables are `Sound` for the set `D` of positions they cover: the
whole branch for a committed database, the checkpoint's positions and those
already passed for the open one. Sound tables have well-formed facts, one for
every note of the ceremony's shape in `D`, marked spent when `D` spends it;
records in `D` only; the tips the logs imply; a chain for each name; and where
`D` spends the note of a binding, a record that ends or extends it (`Follows`).

- A transaction after `D` is judged on sound tables; its verdict leaves tables
  that are sound for `D` and its position.
- A transaction in `D` is a replay. `UnspentIsTip` and the marked facts give
  that nothing it spends is a tip or a live anchor and all it creates is stored,
  so no verdict changes anything. This is `ReplayIsIdempotent`; it also gives
  that the batch may begin with the checkpoint's own block.
- A rewind cuts the logs, the facts and `D` at one height; the tips it rebuilds
  are those of the cut history.
- The five actions that apply a transaction are instances of one `Verdict`
  (`VerdictExists`): what is ended, what is admitted, whether the successor is
  seated. Soundness is proved of that, once.

All of this is said of any branch `b` and any set `D` (`Underway`), and the batch
may hold transactions of `D`. For `SInv` the branch is the batch's target; a
rescan uses another one.

### The index implements the law's ledger (`LedgerProofs`)

`LInv` adds to `SInv` that the committed, the durable and the open tables are
`Exact`: cut at any position they show the tips and the live anchors that
`NameLedger` computes for the branch up to there (`Faithful`), a position has an
event exactly where the law admits a note (`Judged`), and its facts are those
the law's verdict stores (`Stocked`). From it follow:

- `CommittedIsLedger`: whatever the failures, a reader sees the ledger of the
  checkpoint's branch;
- `LogIsLawful`: the log has the note the law admits at each position, and no
  other;
- `BranchDeterminesTables`: two ways to one branch, through any reorganisations,
  replays and crashes, end in the same tables;
- `ImplementsTheLedger`: the refinement, step by step: commits are `Grow`,
  rewinds are `Cut`, everything else stutters. It has the hypothesis `Lossy =
  FALSE`: a power loss takes the branch back without a rewind, which the ledger
  does not allow. The run `life` has it too, and the first three theorems do not
  need it.

### Names are paid for (`LedgerProofs`)

Since the served pool is the law's pool, what authority does can be proved of
the law. One transaction takes from the pool what it spends and adds a successor
only if it spent exactly one live note, so the pool does not become larger once
the ceremony is closed, nor larger than `PoolSize` ever (`BlockKeeps`). Blocks
and branches are folds of such steps; as above, the first position at which the
pool were larger cannot exist (`BranchKeepsFrom`). `AuthorityOnlyShrinks` follows
from `LInv` in the state before a step and in the one after it, with no look at
the actions. It therefore holds through reorganisations, crashes and power
losses: where the new branch does not extend the old one, it claims nothing, and
`PoolIsBounded` still does. `NamesArePaidFor` compares, at the position of each
event, the fold of the facts stored before it with the law's pool there
(`LineageBeforeIs`), and the facts stored there with the law's verdict.

### A lost checkpoint (`RescanProofs`)

During a rescan the tables are ahead of the checkpoint, so none of the above
holds of the checkpoint's branch. It holds of a longer one. `Base` is the branch
of the checkpoint or, while the tables are ahead of it, the best chain up to
`Top`, the highest block that left a row; the invariant `RInv` says that tables
are `Whole` for their `Base`: good, sound and exact. Blocks above `Top` left no
row, so cutting the branch there changes no table (`TopKeeps`), and a checkpoint
lost at any moment leaves tables that are whole for a prefix of the best chain
(`LostIsTrusted`). A batch is judged on `Long`, the longer one of `Base` and its
target, where it has `Passed` all that the tables hold. While it stays below the
top every transaction is a replay, and the commit moves the checkpoint over the
same tables (`BehindIsTrusted`); when it reaches further the lemmas on a batch
apply as they are and its target takes over as the branch. No rewind happens
meanwhile: the checkpoint is a prefix of the best chain with the tables.

From `RInv` follow the run's properties, and `RescanIsInvisible`: at every moment
the tables are `TablesOf` a branch, those an index has that never lost its
checkpoint, and readers see the law's ledger of it.

The hypothesis is `ReorgsMeanwhile = FALSE`, as in the run: a block with a row in
the tables is not replaced before the rescan has passed it. Without it the
theorems are false, and the run `rescan_reorg` shows how (section 5).

### Readers (`ReadsProofs`)

A page is a range of ranks in an ordered log, so the proof is about ranks:
`RankOfLarger` says that rows inserted above a row do not move it. A commit that
keeps the branch as a prefix adds events above its old end only, and this needs
no look at the actions, since the tables are those of their branch
(`BranchDeterminesTables`). The invariants `FollowInv` and `ListInv` say what a
client has seen in terms of the offset it has reached. A listing is in the order
of the names, so a claim puts a new row anywhere and may show a row twice but
hide none; only a release or a move takes a row from below the offset, which is
what the property excludes.

`FollowersMissNothing` and `ListingsHaveNoGap` carry the hypothesis `[]LogFits`:
the log and the names have fewer rows than `OffsetModulus`, 2^32 in the code.
Without it both are false, since the offset is cast to 32 bits and the far page
is answered with an early one (section 5). In the run `reads` the modulus is
large enough for it to hold.

### Requests (`RequestsProofs`)

For texts of any length, any names, addresses, codes and amounts, digits in any
base, any supply and any number of rewritings. `Split` and `Number` are recursive
functions over a text; what they compute is proved by `SeqInduction`, which takes
the set of texts a statement holds of instead of an operator, and is itself by
least counterexample.

- *Memos.* `SplitJoined` and `JoinedSplit`: parts without the delimiter, joined by
  it, split into the same parts, and the other way round. So a memo determines
  its parts, and `PartsOfOne` says that parts belong to one request: that a term,
  a code or the absence of one cannot be taken for another field needs what the
  builders check (`Buildable`), and that distinct numbers have distinct numerals.
- *Amounts.* `valid_amount` compares digits, from the left, after trimming
  zeros. `NumberAppend` gives the number of a longer text, and `BelowNumber` and
  `Ordered` that texts of one length are ordered as their numbers are; with
  `WholeCompare` for the part before the point and `FilledCompare` for the other,
  `ValidAmountIs` says that accepted means at most the supply.
- *Payments.* `Filed` says what the wallets hold at each stage, `Carried` that the
  URI on its way is a scheme, a path and a query that together `Pays` the target:
  the address is the path or the first field of its name, the amount and the memo
  are the first fields of theirs. `PaymentArrives` speaks of an opened URI only,
  and is not inductive: what the next rewriting does depends on where the query's
  delimiters are. `Reads(q, key)` is the first field of a key. `ReadNext`,
  `ReadLast`, `SameReads` and `PlusReads` say what a field in front, a field
  behind, an escape and a trailing space do to it. The last needs that the last
  parameter has a value (`EndsInValue`), since a space after a key without one
  would become part of the key; so `Pays` has that too, and each rewriting keeps
  it (`RequeriedPays`, `RewrittenCarries`). `BuiltCarries` is the first URI,
  `ParsedPays` what the wallet reads in the end.

### The others

`TipWatchProofs`, for all timeouts, sleeps and heights. How old a tip may still
become depends on where the task waits: after an answer it sleeps, a quick error
after that is forgiven, the reconnect may take a timeout, and the second poll
another. `Ages` bounds the age for each wait, `Forgiven` says that `poll_failed`
records the one error forgiven, and `Waits` that no timer is overrun.

`BootstrapProofs`, for all registries and birthdays. `Sound` says what every
prefix of commits leaves: marks only on a complete schema, one registry and one
birthday under a checkpoint, and nothing scanned without one. It holds of the
file and of what a power loss leaves of it, which `WriteSound` gives for each
commit; `Progress` says what the steps of the opening have established.

`SdkClientProofs`, for any number of calls and endpoints. The invariant says of
each call that all replies but the last were passed over, none of them being an
answer (a record, an error, a 4xx or, where null is allowed, a null), and that an
ended call says what its last reply makes of it.

### Only model-checked

`CatchesUp`, `TipReturns` and `CallsEnd`: liveness, which is outside the prover's
reach. Every other property of a passing run is stated by a theorem, for the
specification of that run.

## 7. Not modelled

- The pricing table (`sdk/rust/src/pricing.rs`), the checksum of addresses, JSON
  and HTTP, the wording of errors, logging and the images: data and formatting
  without a state.
- Hashing, curve arithmetic and the decryption of notes, which are the gates a
  note passes in `Registry`.
- The scanner inside `seer_sync`, lightwalletd and the mint itself, which are
  not in this repository.
- Two processes on one database file, which nothing in the code supports: then
  the check and the update of `install_registry_config` could interleave.
- An SDK client that calls `verify` on one endpoint and is answered by another
  later; what a caller may conclude is left to it.
- A TypeScript client without a timeout is modelled, but nothing is said of the
  end of its calls: an endpoint that never answers holds them.

## 8. What could come next

Nothing of the plan is open. Two extensions would say more: two processes on one
database file, once the code means to support it, and the scanner itself, whose
contract with the callbacks is assumed in section 4.
