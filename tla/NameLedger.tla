----------------------------- MODULE NameLedger -----------------------------
(***************************************************************************)
(* What the index promises its readers: the name ledger is a function of   *)
(* one branch of the chain, computed one transaction at a time, and the    *)
(* branch moves only by growing at its end or by losing its end.           *)
(*                                                                         *)
(* There are no tables, positions, histories or replays here.  A ledger is *)
(* the live name notes and the pool of claim anchors; this is the law the  *)
(* comments of src/src/registry/core.rs attribute to the mint              *)
(* (accept_claim, release_predecessor, mark_released).                     *)
(***************************************************************************)
EXTENDS Registry

CONSTANT Block

VARIABLES
  branch,  \* the blocks applied
  tips,    \* the live name notes
  pool     \* the live claim anchors

vars == <<branch, tips, pool>>

LedgerState == [tips : SUBSET Note, pool : SUBSET Nf, open : BOOLEAN]

NewLedger == [tips |-> {}, pool |-> {}, open |-> TRUE]

\* The ledger after one more transaction.
Step(L, tx) ==
  LET notes  == {n \in tx.relaxed : n.gates = Gate}
      keygen == L.open /\ notes = {} /\ Cardinality(tx.zero) = PoolSize
      ended  == {t \in L.tips : t.nf \in tx.spends}
      used   == L.pool \cap tx.spends
      sound(n) == notes = {n} /\ n.nf # NoNf
      claims == {n \in notes :
                   /\ sound(n) /\ n.action = "claim" /\ n.prev = ZeroRcm
                   /\ Cardinality(used) = 1 /\ ended = {}
                   /\ Cardinality(tx.zero) = 1 /\ ~tx.extra
                   /\ \A t \in L.tips : t.name # n.name}
      moves  == {n \in notes :
                   /\ sound(n) /\ n.action # "claim"
                   /\ used = {}
                   /\ \E t \in ended : /\ ended = {t}
                                       /\ t.name = n.name /\ t.rcm = n.prev}
  IN  [tips |-> (L.tips \ ended) \cup {n \in claims \cup moves : n.action # "release"},
       pool |-> ((IF keygen THEN L.pool \cup tx.zero ELSE L.pool) \ tx.spends) \cup
                (IF claims # {} THEN tx.zero ELSE {}),
       open |-> L.open /\ ~keygen]

\* The ledger after each transaction of a block.
Within(L, block) ==
  LET after[i \in 0..Len(block)] ==
        IF i = 0 THEN L ELSE Step(after[i - 1], block[i])
  IN  after

\* The ledger after every transaction of a branch, block by block.
LedgerOf(blocks) ==
  LET upTo[h \in 0..Len(blocks)] ==
        IF h = 0 THEN NewLedger
        ELSE Within(upTo[h - 1], blocks[h])[Len(blocks[h])]
  IN  upTo[Len(blocks)]

\* A ledger is read as the pair of its tips and its pool.
Reads(blocks) ==
  /\ branch' = blocks
  /\ tips'   = LedgerOf(blocks).tips
  /\ pool'   = LedgerOf(blocks).pool

Init == branch = << >> /\ tips = {} /\ pool = {}

Grow == /\ branch' \in Seq(Block)
        /\ Len(branch') > Len(branch)
        /\ SubSeq(branch', 1, Len(branch)) = branch
        /\ Reads(branch')

Cut == \E k \in 0..(Len(branch) - 1) : Reads(SubSeq(branch, 1, k))

Next == Grow \/ Cut

Spec == Init /\ [][Next]_vars
=============================================================================
