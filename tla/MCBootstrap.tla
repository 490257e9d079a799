---------------------------- MODULE MCBootstrap -----------------------------
(***************************************************************************)
(* An instance of Bootstrap: two registries and two birthdays, and a key    *)
(* that does not decode.                                                   *)
(***************************************************************************)
EXTENDS Bootstrap

MCRegistry == {"testnet", "mainnet", "typo"}
MCDecodable == {"testnet", "mainnet"}
MCBirthday == {1, 2}
=============================================================================
