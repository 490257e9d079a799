------------------------------ MODULE Registry ------------------------------
(***************************************************************************)
(* The registry database of src/src/registry/core.rs: its tables, and what *)
(* one transaction, one rewind and one read do to them.  A database is a   *)
(* record of tables, a table a set of rows; the state machine that applies *)
(* these operators is the module Resolver.                                 *)
(*                                                                         *)
(* A transaction is what the scanner delivers (`WalletTx`), with payloads  *)
(* reduced to what the law tells apart.  Transaction T has                 *)
(*   id       its txid                                                     *)
(*   spends   the registry nullifiers it reveals                           *)
(*   zero     the nullifiers of its received zero-value registry outputs   *)
(*   extra    whether it has any other registry output: a payment, a note  *)
(*            the registry sent, a note without a nullifier                *)
(*   relaxed  its relaxed outputs, the candidate name notes                *)
(* and a relaxed output has an action, a name, the predecessor commitment  *)
(* it discloses (prev), its own (rcm), its nullifier (nf, or NoNf when it  *)
(* cannot be derived) and the triage gates it passes.                      *)
(***************************************************************************)
EXTENDS AnchorLineage, Sequences

CONSTANTS
  Name,     \* names
  Rcm,      \* commitments of name notes
  ZeroRcm,  \* the predecessor a claim discloses
  NoNf,     \* the nullifier of a note whose nullifier cannot be derived
  TxId,     \* transaction identifiers
  Tx        \* the transactions that may ever be mined

Action == {"claim", "update", "release"}

\* The gates of triage, in the order of the code: the memo is a name note,
\* it binds to the commitment, its value is zero, its recipient is the
\* registry, its address is a revision-0 unified address of this network.
Gate == {"memo", "binding", "value", "recipient", "ua"}

Note == [action : Action, name : Name, prev : Rcm \cup {ZeroRcm},
         rcm : Rcm, nf : Nf \cup {NoNf}, gates : SUBSET Gate]

ASSUME RegistryAssumption ==
  /\ NoNf \notin Nf
  /\ ZeroRcm \notin Rcm
  /\ Tx \subseteq [id : TxId, spends : SUBSET Nf, zero : SUBSET Nf,
                   extra : BOOLEAN, relaxed : SUBSET Note]
  /\ \A t \in Tx : IsFiniteSet(t.relaxed) /\ IsFiniteSet(t.zero)

\* A txid names one transaction; a nullifier belongs to one note.
ASSUME IdentityAssumption ==
  /\ \A t, u \in Tx : t.id = u.id => t = u
  /\ \A t, u \in Tx : \A m \in t.relaxed, n \in u.relaxed :
        m.nf = n.nf /\ m.nf \in Nf => m = n /\ t = u
  /\ \A t, u \in Tx :
        /\ t # u => t.zero \cap u.zero = {}
        /\ \A n \in u.relaxed : n.nf \notin t.zero

-----------------------------------------------------------------------------
(* Positions: block height, then index of the transaction in its block.    *)

Position == (Nat \ {0}) \X Nat

NotSpent == <<0, 0>>   \* spent_height IS NULL

Before(p, q) == p[1] < q[1] \/ (p[1] = q[1] /\ p[2] < q[2])

-----------------------------------------------------------------------------
(* Tables.                                                                 *)

\* A row of name_events, and of names: the note, with its nullifier, and
\* where it was mined.
Row == [note : {n \in Note : n.nf \in Nf}, at : Position, txid : TxId]

ImplicitRow == [name : Name, at : Position, txid : TxId, nf : Nf]

\* A row of anchor_facts.
Fact == [nf : Nf, at : Position, nameNotes : Nat, claimSuccessor : BOOLEAN,
         spent : Position \cup {NotSpent}]

Tables == [events : SUBSET Row, names : SUBSET Row,
           implicit : SUBSET ImplicitRow, facts : SUBSET Fact]

EmptyTables == [events |-> {}, names |-> {}, implicit |-> {}, facts |-> {}]

-----------------------------------------------------------------------------
(* Triage and the shape of a transaction.                                  *)

Candidates(tx) == {n \in tx.relaxed : n.gates = Gate}

HasSingleNameNote(tx) == Cardinality(Candidates(tx)) = 1

TheNote(tx) == CHOOSE n \in Candidates(tx) : TRUE

\* The mint's successor output: the only registry output is one received
\* zero-value note, and the one name note is a claim.
ClaimSuccessorOutput(tx) ==
  /\ Cardinality(tx.zero) = 1 /\ ~tx.extra
  /\ HasSingleNameNote(tx)
  /\ TheNote(tx).action = "claim"

\* The notes of the transaction that are anchor facts under the verdict.
KeptAdoptions(tx, seated) ==
  IF /\ KeepsAnchorNote(Cardinality(tx.zero), Cardinality(Candidates(tx)),
                        ClaimSuccessorOutput(tx))
     /\ ClaimSuccessorOutput(tx) => seated
  THEN tx.zero ELSE {}

TxAnchorFacts(tx, seated) ==
  [adoptions      |-> KeptAdoptions(tx, seated),
   retirements    |-> tx.spends,
   nameNotes      |-> Cardinality(Candidates(tx)),
   claimSuccessor |-> seated]

-----------------------------------------------------------------------------
(* The law for one transaction: apply_transaction.                         *)

LiveNameNullifiers(db) == {r.note.nf : r \in db.names}

ReadTip(db, name) == {r \in db.names : r.note.name = name}

\* zns_verify's prev_rcm_for: a claim needs a free name and discloses zero,
\* any other action extends the live tip.
CheckChainRule(tips, note) ==
  IF note.action = "claim"
  THEN tips = {} /\ note.prev = ZeroRcm
  ELSE \E t \in tips : note.prev = t.note.rcm

IsClaim(tx)      == HasSingleNameNote(tx) /\ TheNote(tx).action = "claim"
IsTransition(tx) == HasSingleNameNote(tx) /\ TheNote(tx).action # "claim"

\* Mutant: a claim is admitted whether or not it spends an anchor.
ClaimUnpaid(tx, lineage, live) ==
  IsClaim(tx) /\ tx.spends \cap live = {} /\ ClaimSuccessorOutput(tx)

\* accept_claim's gate: one live anchor spent, no live name spent, and the
\* registry outputs are the one successor.
ClaimBacked(tx, lineage, live) ==
  /\ IsClaim(tx)
  /\ LiveRetirements(lineage, tx.spends) = 1
  /\ tx.spends \cap live = {}
  /\ ClaimSuccessorOutput(tx)

\* Mutant: the anchor condition of the predecessor gate is dropped.
PredecessorSpentBesideAnchor(db, tx, lineage, live) ==
  /\ IsTransition(tx)
  /\ \E t \in ReadTip(db, TheNote(tx).name) :
        /\ t.note.nf \in tx.spends
        /\ tx.spends \cap live \subseteq {t.note.nf}

\* The predecessor gate of an update or a release: the transaction spends
\* the live tip of this name, of no other name, and no anchor.
PredecessorSpent(db, tx, lineage, live) ==
  /\ IsTransition(tx)
  /\ \E t \in ReadTip(db, TheNote(tx).name) :
        /\ t.note.nf \in tx.spends
        /\ tx.spends \cap live \subseteq {t.note.nf}
  /\ ~TouchesLiveAnchor(lineage, tx.spends)

\* Mutants: one of the two conditions of admission is dropped.
ValidSuccessorWithoutNullifier(db, tx) ==
  CheckChainRule(ReadTip(db, TheNote(tx).name), TheNote(tx))

ValidSuccessorOffChain(db, tx) == TheNote(tx).nf # NoNf

\* The chain rule holds and the successor's nullifier can be derived.
ValidSuccessor(db, tx) ==
  /\ CheckChainRule(ReadTip(db, TheNote(tx).name), TheNote(tx))
  /\ TheNote(tx).nf # NoNf

AdmissionRow(tx, at) == [note |-> TheNote(tx), at |-> at, txid |-> tx.id]

\* INSERT OR IGNORE on (name, height, txid): is the row new?
IsNewEvent(db, row) ==
  ~ \E e \in db.events : /\ e.note.name = row.note.name
                         /\ e.at[1] = row.at[1]
                         /\ e.txid = row.txid

\* Writes the event, then the tip; a replayed event leaves the tip alone.
RecordAdmission(db, row) ==
  IF IsNewEvent(db, row)
  THEN [db EXCEPT !.events = @ \cup {row},
                  !.names  = {r \in @ : r.note.name # row.note.name} \cup
                             (IF row.note.action = "release" THEN {} ELSE {row})]
  ELSE db

\* Mutant: the release is logged and the tip stays.
EndBindingsInLogOnly(db, ended, tx, at) ==
  [db EXCEPT !.implicit = @ \cup {[name |-> r.note.name, at |-> at, txid |-> tx.id,
                                   nf |-> r.note.nf] : r \in ended}]

\* The bindings of `ended` end with an implicit release each.
EndBindings(db, ended, tx, at) ==
  [db EXCEPT !.names    = @ \ ended,
             !.implicit = @ \cup {[name |-> r.note.name, at |-> at,
                                   txid |-> tx.id, nf |-> r.note.nf] : r \in ended}]

\* mark_released_spent: the names whose live tip the transaction spent.
SpentNames(db, tx, live) ==
  {r \in db.names : r.note.nf \in tx.spends \cap live}

-----------------------------------------------------------------------------
(* Anchor facts: the spends of a transaction, then its kept notes.         *)

MarkSpent(facts, tx, at) ==
  {IF f.nf \in tx.spends /\ f.spent = NotSpent
   THEN [f EXCEPT !.spent = at] ELSE f : f \in facts}

\* Mutant: spends are recorded for a seated claim only.
StoreFactsOfSeated(db, tx, at, seated) ==
  LET marked == IF seated THEN MarkSpent(db.facts, tx, at) ELSE db.facts
      fresh  == {[nf |-> nf, at |-> at,
                  nameNotes |-> Cardinality(Candidates(tx)),
                  claimSuccessor |-> seated, spent |-> NotSpent] :
                   nf \in KeptAdoptions(tx, seated) \ {f.nf : f \in marked}}
  IN  [db EXCEPT !.facts = marked \cup fresh]

\* Mutant: a stored note is replaced where the code ignores it.
StoreFactsReplacing(db, tx, at, seated) ==
  LET fresh == {[nf |-> nf, at |-> at,
                 nameNotes |-> Cardinality(Candidates(tx)),
                 claimSuccessor |-> seated, spent |-> NotSpent] :
                  nf \in KeptAdoptions(tx, seated)}
  IN  [db EXCEPT !.facts = {f \in MarkSpent(@, tx, at) : \A g \in fresh : g.nf # f.nf}
                             \cup fresh]

StoreFacts(db, tx, at, seated) ==
  LET marked == MarkSpent(db.facts, tx, at)
      stored == {f.nf : f \in marked}
      fresh  == {[nf |-> nf, at |-> at,
                  nameNotes |-> Cardinality(Candidates(tx)),
                  claimSuccessor |-> seated, spent |-> NotSpent] :
                   nf \in KeptAdoptions(tx, seated) \ stored}
  IN  [db EXCEPT !.facts = marked \cup fresh]

\* The facts of the transaction at one position, as the fold regroups them.
FactsAt(facts, p) ==
  LET adopted == {f \in facts : f.at = p}
  IN  [adoptions      |-> {f.nf : f \in adopted},
       retirements    |-> {f.nf : f \in {g \in facts : g.spent = p}},
       nameNotes      |-> IF adopted = {} THEN 0
                          ELSE (CHOOSE f \in adopted : TRUE).nameNotes,
       claimSuccessor |-> \E f \in adopted : f.claimSuccessor]

\* Where facts were recorded: adoptions and retirements.
PositionsOf(facts) ==
  {f.at : f \in facts} \cup ({f.spent : f \in facts} \ {NotSpent})

Latest(positions) == CHOOSE p \in positions : \A q \in positions : ~Before(p, q)

\* What the facts of one position make of a lineage.
Replay(facts, p) == [l \in Lineage |-> StepTx(l, p[1], FactsAt(facts, p))]

\* The lineage as of each position, from the lineage as of the one before.
LineageUpTo(facts) ==
  LET upTo[p \in PositionsOf(facts)] ==
        LET earlier == {q \in PositionsOf(facts) : Before(q, p)}
        IN  Replay(facts, p)[IF earlier = {} THEN EmptyLineage ELSE upTo[Latest(earlier)]]
  IN  upTo

\* lineage_facts and fold_lineage: the stored facts, in position order.
FoldLineage(facts) ==
  IF facts = {} THEN EmptyLineage ELSE LineageUpTo(facts)[Latest(PositionsOf(facts))]

\* The watch-set: unspent anchor notes and name tips.
IronwoodNullifiers(db) ==
  {f.nf : f \in {g \in db.facts : g.spent = NotSpent}} \cup LiveNameNullifiers(db)

-----------------------------------------------------------------------------
(* Rewind.                                                                 *)

\* rebuild_name_tip: the latest event of the name, unless it is a release
\* or an implicit release comes at or after it.
RebuiltTip(events, implicit, name) ==
  {e \in events :
     /\ e.note.name = name
     /\ \A f \in events : f.note.name = name => ~Before(e.at, f.at)
     /\ \A i \in implicit : i.name = name => Before(i.at, e.at)
     /\ e.note.action # "release"}

\* Mutant: the first discarded block is kept.
RewoundOneBlockShort(db, kept) ==
  LET events   == {e \in db.events : e.at[1] <= kept + 1}
      implicit == {i \in db.implicit : i.at[1] <= kept + 1}
      affected == {e.note.name : e \in db.events \ events} \cup
                  {i.name : i \in db.implicit \ implicit}
  IN  [events   |-> events,
       implicit |-> implicit,
       names    |-> {r \in db.names : r.note.name \notin affected} \cup
                    UNION {RebuiltTip(events, implicit, n) : n \in affected},
       facts    |-> {IF f.spent[1] > kept THEN [f EXCEPT !.spent = NotSpent] ELSE f :
                       f \in {g \in db.facts : g.at[1] <= kept}}]

\* Mutant: only the names that lost an event are rebuilt.
RewoundByEvents(db, kept) ==
  LET events   == {e \in db.events : e.at[1] <= kept}
      implicit == {i \in db.implicit : i.at[1] <= kept}
      affected == {e.note.name : e \in db.events \ events}
  IN  [events   |-> events,
       implicit |-> implicit,
       names    |-> {r \in db.names : r.note.name \notin affected} \cup
                    UNION {RebuiltTip(events, implicit, n) : n \in affected},
       facts    |-> {IF f.spent[1] > kept THEN [f EXCEPT !.spent = NotSpent] ELSE f :
                       f \in {g \in db.facts : g.at[1] <= kept}}]

\* Rows above `kept` go, spends above it are undone, and the names that
\* lost a row are rebuilt from the rows that survive.
Rewound(db, kept) ==
  LET events   == {e \in db.events : e.at[1] <= kept}
      implicit == {i \in db.implicit : i.at[1] <= kept}
      affected == {e.note.name : e \in db.events \ events} \cup
                  {i.name : i \in db.implicit \ implicit}
  IN  [events   |-> events,
       implicit |-> implicit,
       names    |-> {r \in db.names : r.note.name \notin affected} \cup
                    UNION {RebuiltTip(events, implicit, n) : n \in affected},
       facts    |-> {IF f.spent[1] > kept THEN [f EXCEPT !.spent = NotSpent] ELSE f :
                       f \in {g \in db.facts : g.at[1] <= kept}}]
=============================================================================
