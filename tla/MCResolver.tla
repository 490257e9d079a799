----------------------------- MODULE MCResolver -----------------------------
(***************************************************************************)
(* Small instances of Resolver: a catalogue of transactions, each of which *)
(* takes one branch of the law, and the sets of blocks the runs mine from  *)
(* it.  The ceremony pool has two notes instead of forty.            *)
(***************************************************************************)
EXTENDS ResolverRefinement

MCNf == {"a1", "a2", "b1", "b2", "s1", "s2", "s3", "s4", "s5", "z1",
         "s6", "s7",
         "n1", "n2", "n3", "n4", "n5", "n6", "n7", "n8", "n9", "p1", "p2", "p3", "p4"}
MCRcm  == {"r1", "r2", "r3", "r4", "r5", "r6", "r7", "r8", "r9", "r10"}
MCName == {"alice", "bob"}

Msg(action, name, prev, rcm, nf) ==
  [action |-> action, name |-> name, prev |-> prev, rcm |-> rcm, nf |-> nf, gates |-> Gate]

T(id, spends, zero, relaxed) ==
  [id |-> id, spends |-> spends, zero |-> zero, extra |-> FALSE, relaxed |-> relaxed]

-----------------------------------------------------------------------------
Keygen  == T("keygen",  {}, {"a1", "a2"}, {})
\* A second transaction of the ceremony's shape: the pool is closed.
Keygen2 == T("keygen2", {}, {"b1", "b2"}, {})

ClaimAlice == T("claimAlice", {"a1"}, {"s1"},
                {Msg("claim", "alice", ZeroRcm, "r1", "n1")})
\* The other anchor claims the same name: taken, or free again.
RivalAlice == T("rivalAlice", {"a2"}, {"s2"},
                {Msg("claim", "alice", ZeroRcm, "r2", "n2")})
\* The seated successor claims the next name.
ClaimBob   == T("claimBob", {"s1"}, {"s3"},
                {Msg("claim", "bob", ZeroRcm, "r3", "n3")})

UpdateAlice == T("updateAlice", {"n1"}, {},
                 {Msg("update", "alice", "r1", "r4", "n4")})
ReleaseAlice == T("releaseAlice", {"n4"}, {},
                  {Msg("release", "alice", "r4", "r5", "n5")})
\* A release that discloses a predecessor other than the tip it spends.
StaleRelease == T("staleRelease", {"n4"}, {},
                  {Msg("release", "alice", "r1", "r6", "n6")})
\* An update whose successor has no nullifier.
Underivable == T("underivable", {"n1"}, {},
                 {Msg("update", "alice", "r1", "r7", NoNf)})
\* The tip is spent and no name note follows.
Burn == T("burn", {"n1"}, {}, {})
\* One update spends the tips of two names.
Sweep == T("sweep", {"n1", "n3"}, {}, {Msg("update", "alice", "r1", "r8", "n7")})
\* An update that also spends an anchor.
Greedy == T("greedy", {"n1", "a2"}, {}, {Msg("update", "alice", "r1", "r9", "n8")})
\* Two name notes in one transaction: the accept path takes neither.
Pair == T("pair", {"a2"}, {"s4"},
          {Msg("claim", "alice", ZeroRcm, "r10", "n9"),
           Msg("claim", "bob", ZeroRcm, "r10", "p1")})
\* A claim whose memo does not bind to its commitment.
Unbound == T("unbound", {"a2"}, {"s5"},
             {[Msg("claim", "bob", ZeroRcm, "r10", "p2") EXCEPT !.gates = Gate \ {"binding"}]})
\* A payment beside the successor: not the mint's shape.
Paid == [T("paid", {"a2"}, {"s6"}, {Msg("claim", "bob", ZeroRcm, "r10", "p3")})
           EXCEPT !.extra = TRUE]
\* A zero-value note of no ceremony, and a claim that spends it.
Stray == T("stray", {}, {"z1"}, {})
StrayClaim == T("strayClaim", {"z1"}, {"s7"},
                {Msg("claim", "bob", ZeroRcm, "r10", "p4")})

-----------------------------------------------------------------------------
(* The life of one name under reorganisations and replays.                 *)
LifeTx    == {Keygen, ClaimAlice, RivalAlice, UpdateAlice, StaleRelease, Burn}
LifeBlock == {<<Keygen>>, <<Keygen, ClaimAlice>>, <<ClaimAlice>>, <<RivalAlice>>, <<Burn>>, <<UpdateAlice>>,
              <<StaleRelease>>, <<ClaimAlice, UpdateAlice>>, <<UpdateAlice, StaleRelease>>}

(* Every shape of transaction, with chains of transactions in one block.   *)
ShapeTx    == {Keygen, Keygen2, ClaimAlice, ClaimBob, ReleaseAlice, UpdateAlice, Underivable,
               Sweep, Greedy, Pair, Unbound, Paid, Stray, StrayClaim}
ShapeBlock == {<<Keygen>>, <<ClaimAlice, ClaimBob>>, <<Sweep>>,
               <<UpdateAlice, ReleaseAlice>>, <<Greedy>>, <<Underivable>>, <<Pair>>,
               <<Unbound>>, <<Paid>>, <<Stray, StrayClaim, Keygen2>>}

(* A few blocks, for the runs with power losses and for liveness.          *)
FewTx    == {Keygen, ClaimAlice, UpdateAlice, Burn}
FewBlock == {<<Keygen>>, <<ClaimAlice>>, <<UpdateAlice>>, <<Burn>>}
=============================================================================
