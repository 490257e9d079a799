------------------------------ MODULE MCRescan ------------------------------
(***************************************************************************)
(* Instances of Rescan on the catalogue of MCResolver.                     *)
(***************************************************************************)
EXTENDS Rescan, MCResolver

\* The few blocks of the faults, and the second claim of the name.
RescanTx    == FewTx \cup {RivalAlice}
RescanBlock == FewBlock \cup {<<RivalAlice>>}
=============================================================================
