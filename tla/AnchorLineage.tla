--------------------------- MODULE AnchorLineage ---------------------------
(***************************************************************************)
(* The claim-anchor lineage of src/src/registry/anchor_lineage.rs: the set *)
(* of nullifiers that confer the authority to claim a name, stepped        *)
(* across one transaction at a time.  The operators are pure, as the code  *)
(* is; a lineage is a value, never a variable of this module.              *)
(***************************************************************************)
EXTENDS Naturals, FiniteSets

CONSTANTS
  Nf,        \* nullifiers, of anchor notes and of name notes alike
  PoolSize   \* ANCHOR_POOL_SIZE: the notes the keygen ceremony creates

ASSUME PoolSizeAssumption == PoolSize \in Nat \ {0}

\* Option<u32> of `established`: blocks start at height 1.
NoHeight == 0

Lineage == [live : SUBSET Nf, established : Nat]

EmptyLineage == [live |-> {}, established |-> NoHeight]

AdoptionClosed(l) == l.established # NoHeight

\* The keygen ceremony is one transaction: the whole standing set of
\* zero-value registry outputs and no name note.
IsCeremonyFill(zeroOutputs, nameNotes) ==
  zeroOutputs = PoolSize /\ nameNotes = 0

KeepsAnchorNote(zeroOutputs, nameNotes, claimSuccessor) ==
  claimSuccessor \/ IsCeremonyFill(zeroOutputs, nameNotes)

\* Mutant: a pool below its size is filled again after the ceremony.
AdoptAllRefilling(l, height, nfs) ==
  LET new   == nfs \ l.live
      room  == PoolSize - Cardinality(l.live)
      taken == IF Cardinality(new) <= room
               THEN new
               ELSE CHOOSE T \in SUBSET new : Cardinality(T) = room
      grown == l.live \cup taken
  IN  IF Cardinality(l.live) >= PoolSize \/ new = {}
      THEN l
      ELSE [live        |-> grown,
            established |-> IF Cardinality(grown) = PoolSize
                            THEN height ELSE l.established]

(***************************************************************************)
(* The loop of `adopt` over the notes of the keygen transaction: notes     *)
(* join until the pool first reaches standing size, which closes it.       *)
(* Which of too many notes join depends on their order in the transaction; *)
(* a pool that is neither empty nor closed is not reachable through        *)
(* StepTx, so the choice below is never made with a real one.              *)
(***************************************************************************)
AdoptAll(l, height, nfs) ==
  LET new   == nfs \ l.live
      room  == PoolSize - Cardinality(l.live)
      taken == IF Cardinality(new) <= room
               THEN new
               ELSE CHOOSE T \in SUBSET new : Cardinality(T) = room
      grown == l.live \cup taken
  IN  IF AdoptionClosed(l) \/ Cardinality(l.live) >= PoolSize \/ new = {}
      THEN l
      ELSE [live        |-> grown,
            established |-> IF Cardinality(grown) = PoolSize
                            THEN height ELSE l.established]

(***************************************************************************)
(* What one transaction does to the lineage.  `facts` has the fields       *)
(*   adoptions       the zero-value notes entering,                        *)
(*   retirements     every nullifier the transaction reveals,              *)
(*   nameNotes       the number of name notes it carries,                  *)
(*   claimSuccessor  whether an admitted claim seats its one output.       *)
(* Order: ceremony notes, then retirements, then the successor.            *)
(***************************************************************************)
StepTx(l, height, facts) ==
  LET filled  == IF IsCeremonyFill(Cardinality(facts.adoptions), facts.nameNotes)
                 THEN AdoptAll(l, height, facts.adoptions) ELSE l
      retired == filled.live \cap facts.retirements
      seats   == /\ Cardinality(retired) = 1
                 /\ facts.claimSuccessor
                 /\ Cardinality(facts.adoptions) = 1
  IN  [filled EXCEPT !.live = (filled.live \ facts.retirements) \cup
                              (IF seats THEN facts.adoptions ELSE {})]

\* How many revealed nullifiers are live anchors.
LiveRetirements(l, spends) == Cardinality(l.live \cap spends)

TouchesLiveAnchor(l, spends) == l.live \cap spends # {}
=============================================================================
