------------------------------ MODULE TipWatch ------------------------------
(***************************************************************************)
(* The tip publisher, live_tip of src/src/sync.rs, and the status call of  *)
(* src/src/jsonrpc/service.rs that reads what it publishes.                *)
(*                                                                         *)
(* live_tip polls a lightwalletd server for the height of the best chain   *)
(* and puts it into a watch channel, the tip.  It must neither show a tip  *)
(* long after it lost the network nor hide it at the first hiccup.         *)
(*                                                                         *)
(* Time is discrete: Tick advances every clock by one unit and cannot pass *)
(* a deadline, so a timer fires when it is due.  The servers are external. *)
(***************************************************************************)
EXTENDS Integers

CONSTANTS
  Height,        \* the heights a server may report
  Unknown,       \* no height: None
  Timeout,       \* TIP_TIMEOUT
  Retry,         \* TIP_RETRY
  Pause,         \* the sleep after an answered poll
  FallbackAfter  \* external: when connect_auto gives the fallback a try

ASSUME TipWatchAssumption ==
  /\ Height \subseteq Nat /\ Unknown \notin Nat
  /\ Timeout \in Nat /\ Retry \in Nat /\ Pause \in Nat /\ FallbackAfter \in Nat

VARIABLES
  pc,          \* where the task waits
  timer,       \* for how long it has waited there
  client,      \* the server it is connected to, or None
  poll_failed, \* whether the last poll failed fast
  tip,         \* the watch channel
  up,          \* the servers that answer
  position,    \* the height of the registry's checkpoint
  reader,      \* how far a status call is
  seen,        \* the position that call has read
  synced,      \* the verdict of the last call
  last,        \* history: the last height a poll returned
  silence,     \* history: the time since then
  errors,      \* history: failed polls and connects since then, up to two
  stalled      \* history: whether a poll or a connect hung since then

Option == Height \cup {Unknown}

None   == "none"
Server == {"primary", "fallback"}

task    == <<pc, timer, client, poll_failed, tip>>
call    == <<reader, seen, synced>>
history == <<last, errors, stalled>>
vars    == <<task, up, position, call, history, silence>>

Init ==
  /\ pc = "connect" /\ timer = 0 /\ client = None
  /\ poll_failed = FALSE /\ tip = Unknown
  /\ up \in SUBSET Server
  /\ position = Unknown
  /\ reader = "idle" /\ seen = Unknown /\ synced = FALSE
  /\ last = Unknown /\ silence = 0 /\ errors = 0 /\ stalled = FALSE

Goto(l) == pc' = l /\ timer' = 0

Idle == UNCHANGED <<up, position, call, silence>>

OneMoreError == errors' = (IF errors = 0 THEN 1 ELSE 2)

-----------------------------------------------------------------------------
(* Connecting.                                                             *)

\* connect_auto prefers the primary; a fallback comes later.
Connected(s) ==
  /\ pc \in {"connect", "slow"}
  /\ s \in up
  /\ s = "fallback" => "primary" \notin up /\ timer >= FallbackAfter
  /\ client' = s
  /\ Goto("poll")
  /\ UNCHANGED <<poll_failed, tip, history>> /\ Idle

ConnectFails ==
  /\ pc \in {"connect", "slow"}
  /\ up = {}
  /\ tip' = Unknown /\ poll_failed' = FALSE
  /\ Goto("retry")
  /\ OneMoreError
  /\ UNCHANGED <<client, last, stalled>> /\ Idle

\* Mutant: the attempt is dropped at the timeout and another one started.
ConnectIsCancelled ==
  /\ pc = "connect" /\ timer = Timeout
  /\ tip' = Unknown
  /\ Goto("connect")
  /\ stalled' = TRUE
  /\ UNCHANGED <<client, poll_failed, last, errors>> /\ Idle

\* The attempt goes on, so that connect_auto reaches its fallbacks.
ConnectIsSlow ==
  /\ pc = "connect" /\ timer = Timeout
  /\ tip' = Unknown
  /\ pc' = "slow"
  /\ stalled' = TRUE
  /\ UNCHANGED <<timer, client, poll_failed, last, errors>> /\ Idle

-----------------------------------------------------------------------------
(* Polling.                                                                *)

\* Mutant: an answer does not forgive the error before it.
PollAnswersUnforgiving(h) ==
  /\ pc = "poll" /\ client \in up
  /\ tip' = h
  /\ Goto("pause")
  /\ last' = h /\ silence' = 0 /\ errors' = 0 /\ stalled' = FALSE
  /\ UNCHANGED <<client, poll_failed, up, position, call>>

PollAnswers(h) ==
  /\ pc = "poll" /\ client \in up
  /\ tip' = h /\ poll_failed' = FALSE
  /\ Goto("pause")
  /\ last' = h /\ silence' = 0 /\ errors' = 0 /\ stalled' = FALSE
  /\ UNCHANGED <<client, up, position, call>>

\* Mutant: every error is taken for the first one.
PollErrorsAlwaysFirst ==
  /\ pc = "poll" /\ client \notin up
  /\ client' = None
  /\ Goto("connect") /\ poll_failed' = TRUE
  /\ OneMoreError
  /\ UNCHANGED <<tip, last, stalled>> /\ Idle

\* A first fast error is a blip: reconnect at once, keep the tip.  A second
\* one clears it.
PollErrors ==
  /\ pc = "poll" /\ client \notin up
  /\ client' = None
  /\ IF poll_failed
     THEN tip' = Unknown /\ poll_failed' = FALSE /\ Goto("retry")
     ELSE UNCHANGED tip /\ poll_failed' = TRUE /\ Goto("connect")
  /\ OneMoreError
  /\ UNCHANGED <<last, stalled>> /\ Idle

PollTimesOut ==
  /\ pc = "poll" /\ client \notin up /\ timer = Timeout
  /\ tip' = Unknown /\ poll_failed' = FALSE /\ client' = None
  /\ Goto("connect")
  /\ stalled' = TRUE
  /\ UNCHANGED <<last, errors>> /\ Idle

\* The end of either sleep; the loop connects again if there is no client.
Wakes ==
  /\ \/ pc = "pause" /\ timer = Pause
     \/ pc = "retry" /\ timer = Retry
  /\ Goto(IF client = None THEN "connect" ELSE "poll")
  /\ UNCHANGED <<client, poll_failed, tip, history>> /\ Idle

live_tip ==
  \/ \E s \in Server : Connected(s)
  \/ ConnectFails \/ ConnectIsSlow
  \/ \E h \in Height : PollAnswers(h)
  \/ PollErrors \/ PollTimesOut \/ Wakes

-----------------------------------------------------------------------------
(* The status call: the position is read under the database lock, the tip  *)
(* after it.                                                               *)

ReadPosition ==
  /\ reader = "idle"
  /\ seen' = position
  /\ reader' = "reading"
  /\ UNCHANGED <<task, up, position, synced, history, silence>>

\* Mutant: without a tip the position is taken for the head.
VerdictWithoutTip == seen # Unknown /\ (tip = Unknown \/ seen >= tip)

Verdict == seen # Unknown /\ tip # Unknown /\ seen >= tip

ReadTip ==
  /\ reader = "reading"
  /\ synced' = Verdict
  /\ reader' = "idle" /\ seen' = Unknown
  /\ UNCHANGED <<task, up, position, history, silence>>

status == ReadPosition \/ ReadTip

-----------------------------------------------------------------------------
(* The rest of the world.                                                  *)

\* The indexer commits a batch or a rewind.
Checkpoint(h) ==
  /\ position' = h
  /\ UNCHANGED <<task, up, call, history, silence>>

Network(servers) ==
  /\ up' = servers
  /\ UNCHANGED <<task, position, call, history, silence>>

\* The longest a tip may be shown without a new answer: one sleep, a poll
\* that fails, a reconnect and a second poll.
StaleAfter == Pause + 3 * Timeout

Deadline == [connect |-> Timeout, poll |-> Timeout, pause |-> Pause, retry |-> Retry]

\* Clocks that nothing waits for any more are stopped: bounds of the model.
Tick ==
  /\ pc # "slow" => timer < Deadline[pc]
  /\ timer' = (IF pc = "slow" /\ timer >= FallbackAfter THEN timer ELSE timer + 1)
  /\ silence' = (IF silence > StaleAfter THEN silence ELSE silence + 1)
  /\ UNCHANGED <<pc, client, poll_failed, tip, up, position, call, history>>

Next == \/ live_tip \/ status \/ Tick
        \/ \E h \in Height : Checkpoint(h)
        \/ \E servers \in SUBSET Server : Network(servers)

\* The task is never starved and time goes on.  Nothing is assumed of the
\* network, the indexer or the callers.
Spec == Init /\ [][Next]_vars /\ WF_vars(live_tip) /\ WF_vars(Tick)

-----------------------------------------------------------------------------
(* Properties.                                                             *)

Flags == poll_failed \in BOOLEAN /\ synced \in BOOLEAN /\ stalled \in BOOLEAN

\* Every variable holds a value of its kind.
TypeOK ==
  /\ pc \in {"connect", "slow", "poll", "pause", "retry"}
  /\ timer \in Nat /\ silence \in Nat
  /\ client \in Server \cup {None}
  /\ tip \in Option /\ position \in Option /\ seen \in Option /\ last \in Option
  /\ up \subseteq Server
  /\ reader \in {"idle", "reading"}
  /\ errors \in 0..2
  /\ Flags

\* No tip is shown long after the network was heard of: whatever mixture of
\* errors, slow reconnects and sleeps follows the last answer, the tip is
\* gone after one sleep and three timeouts (live_tip, sync.rs:33).
TipIsFresh == tip # Unknown => silence <= StaleAfter

\* The tip is the last answer until two operations in a row have failed or
\* one has hung, and it is then hidden: one fast error is a blip, a second
\* one or a stall is an outage (sync.rs:35).
TipFollowsOutages ==
  tip = (IF errors = 2 \/ stalled THEN Unknown ELSE last)

\* A status call says synced only of a position that had reached the last
\* height the network reported, and not longer than StaleAfter after that
\* report (status, service.rs:235).
SyncedIsRecent ==
  [][ReadTip /\ synced' => /\ last # Unknown /\ seen >= last
                        /\ silence <= StaleAfter]_vars

\* If the servers settle and one of them is up, the primary or only the
\* fallback, the tip comes back and stays (sync.rs:47).
TipReturns == []<><<TRUE>>_up \/ []<>(up = {}) \/ <>[](tip # Unknown)
=============================================================================
