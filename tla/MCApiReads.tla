----------------------------- MODULE MCApiReads -----------------------------
(***************************************************************************)
(* Instances of ApiReads on the catalogue of MCResolver: names that end    *)
(* explicitly and implicitly, in the block of their claim and later, two   *)
(* of them in one transaction, read in pages of one and two events.        *)
(***************************************************************************)
EXTENDS ApiReads, MCResolver

ReadTx    == {RivalAlice, Keygen, ClaimAlice, ClaimBob, UpdateAlice, Burn, Sweep, ReleaseAlice}
ReadBlock == {<<RivalAlice>>, <<Keygen, ClaimAlice>>, <<ClaimBob>>, <<UpdateAlice>>, <<Sweep>>,
              <<ReleaseAlice>>, <<Keygen, ClaimAlice, Burn>>}

\* The update of Alice moves her to the other address.  Her name has the
\* shape of an address too, as a TEX address has the shape of a name.
MCUa            == {"ua1", "ua2"}
MCUaOf          == [r \in MCRcm |-> IF r = "r4" THEN "ua2" ELSE "ua1"]
MCAddressShaped == MCUa \cup {"alice"}

Events(name, action) == [method |-> "events", name |-> name, action |-> action]
MCQuery == {Events(NoFilter, NoFilter), Events("alice", "release"),
            [method |-> "page", text |-> Empty], [method |-> "resolve", text |-> "ua1"]}

MCLimit       == {0, 3, Default}
MCInsertOrder == [n \in MCName |-> IF n = "alice" THEN 1 ELSE 2]
\* Each of these notes is the first action of its transaction.
MCActionIndex == [r \in MCRcm |-> 0]
=============================================================================
