---------------------------- MODULE MCSdkClient -----------------------------
(***************************************************************************)
(* An instance of SdkClient: two calls of different operations in flight,  *)
(* one of each kind, and two endpoints, as many as the mainnet preset has. *)
(***************************************************************************)
EXTENDS SdkClient

MCMethod == [c \in Methods |-> c]
=============================================================================
