------------------------- MODULE ResolverRefinement -------------------------
(***************************************************************************)
(* The indexer implements the name ledger: what is committed, read through *)
(* the names table and the fold of the anchor facts, is the ledger of the  *)
(* checkpoint's branch.  The log is durable here (Lossy is FALSE): a power *)
(* loss takes several commits back at once, which is no step of a ledger;  *)
(* the module Rescan says what is left then.                               *)
(***************************************************************************)
EXTENDS Resolver

Ledger == INSTANCE NameLedger WITH
  branch <- db.branch,
  tips   <- {r.note : r \in db.tables.names},
  pool   <- FoldLineage(db.tables.facts).live

\* Every commit takes the ledger of one branch to the ledger of the same
\* branch grown or cut at its end, and no other step changes what readers
\* see: neither a half-applied batch, nor a replayed block, nor a rewind
\* leaves a ledger that is not the law's ledger of some branch of the chain.
ImplementsLedger == Ledger!Spec
=============================================================================
