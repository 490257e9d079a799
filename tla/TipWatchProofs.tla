--------------------------- MODULE TipWatchProofs ---------------------------
(***************************************************************************)
(* What TipWatch promises, for every timeout, pause and set of heights.    *)
(*                                                                         *)
(* TipIsFresh is not inductive: how old a tip may still become depends on  *)
(* where the task waits and on whether an error has been forgiven.  Ages   *)
(* bounds the time since the last answer for each of these waits.          *)
(***************************************************************************)
EXTENDS TipWatch, TLAPS

\* No wait is overrun, and a wait with a server in it has a client.
Waits ==
  /\ pc \in {"connect", "poll"} => timer <= Timeout
  /\ pc = "pause" => timer <= Pause
  /\ pc \in {"pause", "poll"} => client # None

\* While a tip is shown, poll_failed records the one error forgiven.
Forgiven ==
  tip # Unknown => /\ pc \in {"pause", "poll", "connect"}
                   /\ poll_failed <=> errors = 1
                   /\ pc = "pause" => ~poll_failed
                   /\ pc = "connect" => poll_failed

\* How long ago the last answer can be, in each wait that shows a tip.
Ages ==
  tip # Unknown =>
    /\ pc = "pause" => silence <= timer
    /\ pc = "poll" /\ ~poll_failed => silence <= Pause + timer
    /\ pc = "connect" => silence <= Pause + Timeout + timer
    /\ pc = "poll" /\ poll_failed => silence <= Pause + 2 * Timeout + timer

IInv == TypeOK /\ TipFollowsOutages /\ Waits /\ Forgiven /\ Ages

\* The flags stay Boolean, whatever the step.
LEMMA FlagsStay == Flags /\ [Next]_vars => Flags'
  BY Zenon DEF Flags, Next, live_tip, status, Connected, ConnectFails, ConnectIsSlow,
     PollAnswers, PollErrors, PollTimesOut, Wakes, ReadPosition, ReadTip, Verdict, Tick,
     Checkpoint, Network, Idle, task, call, history, vars

\* The initial states satisfy the inductive invariant: no tip is shown.
LEMMA InitInv == Init => IInv
<1>1. Init => Flags
  BY DEF Init, Flags
<1> QED
  BY <1>1, TipWatchAssumption DEF Init, IInv, TypeOK, TipFollowsOutages, Waits, Forgiven,
     Ages, Option, Server, None

\* Every step of the publisher, of a status call, of time and of the
\* outside keeps the inductive invariant.
LEMMA NextInv == IInv /\ [Next]_vars => IInv'
<1> SUFFICES ASSUME IInv, [Next]_vars
             PROVE  IInv'
  OBVIOUS
<1>f. Flags'
  BY FlagsStay DEF IInv, TypeOK
<1> USE <1>f, TipWatchAssumption DEF IInv, TypeOK, TipFollowsOutages, Waits, Forgiven, Ages,
        Option, Server, None, Goto, Idle, OneMoreError, task, call, history, vars
<1>1. ASSUME NEW s \in Server, Connected(s)
      PROVE  IInv'
  BY <1>1 DEF Connected
<1>2. CASE ConnectFails
  BY <1>2 DEF ConnectFails
<1>3. CASE ConnectIsSlow
  BY <1>3 DEF ConnectIsSlow
<1>4. ASSUME NEW h \in Height, PollAnswers(h)
      PROVE  IInv'
  BY <1>4 DEF PollAnswers
<1>5. CASE PollErrors
  <2>1. CASE poll_failed
    BY <1>5, <2>1 DEF PollErrors
  <2>2. CASE ~poll_failed
    BY <1>5, <2>2 DEF PollErrors
  <2> QED BY <2>1, <2>2
<1>6. CASE PollTimesOut
  BY <1>6 DEF PollTimesOut
<1>7. CASE Wakes
  <2>1. CASE pc = "pause"
    BY <1>7, <2>1 DEF Wakes
  <2>2. CASE pc = "retry"
    BY <1>7, <2>2 DEF Wakes
  <2> QED BY <1>7, <2>1, <2>2 DEF Wakes
<1>8. CASE ReadPosition
  BY <1>8 DEF ReadPosition
<1>9. CASE ReadTip
  BY <1>9 DEF ReadTip, Verdict
<1>10. CASE Tick
  BY <1>10 DEF Tick, Deadline, StaleAfter
<1>11. ASSUME NEW h \in Height, Checkpoint(h)
       PROVE  IInv'
  BY <1>11 DEF Checkpoint
<1>12. ASSUME NEW servers \in SUBSET Server, Network(servers)
       PROVE  IInv'
  BY <1>12 DEF Network
<1>13. CASE UNCHANGED vars
  BY <1>13
<1> QED
  BY <1>1, <1>2, <1>3, <1>4, <1>5, <1>6, <1>7, <1>8, <1>9, <1>10, <1>11, <1>12, <1>13
  DEF Next, live_tip, status

\* In each wait the bound of Ages is at most StaleAfter.
LEMMA InvFresh == IInv => TipIsFresh
  BY TipWatchAssumption DEF IInv, TypeOK, Waits, Forgiven, Ages, TipIsFresh, StaleAfter

\* The invariant holds in every state.
LEMMA InvHolds == Spec => []IInv
  BY InitInv, NextInv, PTL DEF Spec

\* A tip is never older than one sleep and three timeouts (live_tip).
THEOREM TipFresh == Spec => []TipIsFresh
  BY InvHolds, InvFresh, PTL

\* The tip is the last answer exactly until the second error in a row or
\* the first stall (live_tip).
THEOREM TipIsLastAnswer == Spec => []TipFollowsOutages
<1>1. IInv => TipFollowsOutages
  BY DEF IInv
<1> QED
  BY <1>1, InvHolds, PTL

\* A status call says synced only of a position that has reached a height
\* the network reported no longer than StaleAfter ago (status).
THEOREM SyncedRecent == Spec => SyncedIsRecent
<1>1. IInv /\ [Next]_vars =>
        [ReadTip /\ synced' => last # Unknown /\ seen >= last /\ silence <= StaleAfter]_vars
  <2> SUFFICES ASSUME IInv, ReadTip, synced'
               PROVE  last # Unknown /\ seen >= last /\ silence <= StaleAfter
    OBVIOUS
  <2>1. tip # Unknown /\ seen >= tip
    BY DEF ReadTip, Verdict
  <2>2. tip = last
    BY <2>1 DEF IInv, TipFollowsOutages
  <2> QED
    BY <2>1, <2>2, InvFresh DEF TipIsFresh
<1> QED
  BY <1>1, InvHolds, PTL DEF Spec, SyncedIsRecent
=============================================================================
