----------------------------- MODULE SdkClient ------------------------------
(***************************************************************************)
(* The failover of the three client libraries: call and post of            *)
(* src/sdk/rust/src/lib.rs, rpc and post of src/sdk/typescript/src/zns.ts, *)
(* and call and _post of src/sdk/dart/lib/src/rpc.dart.  One algorithm     *)
(* with three tables of what counts as an answer: the endpoints are tried  *)
(* in order, an answer ends the call, and so does an error that is final.  *)
(* Above it are the operations a caller sees: a name is normalised and      *)
(* checked before anything is sent, and the result is read as a record, as *)
(* availability, as a page, or as the identity of the registry.            *)
(*                                                                         *)
(* The endpoints and the network between are external: a request may be    *)
(* met with any reply, and with none.                                      *)
(***************************************************************************)
EXTENDS Naturals, Sequences, FiniteSets, SequencesExt

CONSTANTS
  Call,       \* calls that may be made on one client
  Method,     \* the operation of each: a member of Methods
  MaxCalls,   \* bound: calls made
  Endpoints   \* how many endpoints the client has; no client has none

\* list_names stands for every operation whose result is never null and is
\* returned as it came: the lists, reverse_lookup, events and status.
Methods == {"resolve_name", "is_available", "list_names", "verify"}

ASSUME SdkAssumption ==
  /\ Method \in [Call -> Methods]
  /\ MaxCalls \in Nat /\ Endpoints \in Nat \ {0}

VARIABLES
  sdk,      \* which library
  timeout,  \* whether it has a timeout; TypeScript has none by default
  next_id,  \* the next request id
  id,       \* the request id of each call
  pc,       \* "new", "sent" to the current endpoint, or "done"
  at,       \* the endpoint it is at
  aborted,  \* whether the caller gave it up (TypeScript)
  said,     \* what the caller was told
  replies   \* history: what the endpoints answered, in order

vars == <<sdk, timeout, next_id, id, pc, at, aborted, said, replies>>

(***************************************************************************)
(* Kinds of replies.  "result", "null" and "missing" are a JSON object     *)
(* with a result of the right type, with null, and with neither a result   *)
(* nor an error; "misshapen" has an object for its result that lacks the   *)
(* members of the record; "other_registry" is a status with the viewing    *)
(* key of another registry; "fault" is a JSON-RPC error.  A reply carries  *)
(* a request id, of this call or of another one.  "garbled" is anything    *)
(* else that came with HTTP 200.                                           *)
(***************************************************************************)
Envelope == {"result", "null", "missing", "misshapen", "fault"}
Broken   == {"garbled", "http4xx", "http5xx", "transport", "timeout", "cancelled"}

Reply(c) ==
  {[kind |-> k, of |-> d] :
     k \in IF Method[c] = "verify" THEN Envelope \cup {"other_registry"} ELSE Envelope,
     d \in {e \in Call : id[e] # 0}} \cup
  {[kind |-> k, of |-> c] : k \in Broken \ {"timeout", "cancelled"}}

Init ==
  /\ sdk \in {"rust", "typescript", "dart"}
  /\ timeout \in BOOLEAN /\ (sdk # "typescript" => timeout)
  /\ next_id = 1
  /\ id = [c \in Call |-> 0] /\ pc = [c \in Call |-> "new"] /\ at = [c \in Call |-> 0]
  /\ aborted = [c \in Call |-> FALSE]
  /\ said = [c \in Call |-> "nothing"]
  /\ replies = [c \in Call |-> << >>]

-----------------------------------------------------------------------------
(* What a reply means.                                                     *)

\* Mutant: the id is not compared.
IsForeignNever(c, r) == r.kind = "none"

\* Only the Rust client compares the id, before it looks at anything else.
IsForeign(c, r) ==
  sdk = "rust" /\ r.kind \notin Broken /\ id[r.of] # id[c]

Null(r) == r.kind \in {"null", "missing"}

\* The operations whose result may be null: the name is free.
Nullable == {"resolve_name", "is_available"}

\* A null, or an absent result, which every library reads as a null.
NullIsResult(c) == sdk = "typescript" \/ Method[c] \in Nullable

\* The reply ends the request loop.  Only the Rust client reads the members
\* of the record inside the loop.
IsResult(c, r) ==
  /\ ~IsForeign(c, r)
  /\ \/ r.kind \in {"result", "other_registry"}
     \/ r.kind = "misshapen" /\ sdk # "rust"
     \/ Null(r) /\ NullIsResult(c)

\* What the operation makes of its result.
Outcome(c, r) ==
  CASE sdk = "dart" /\ r.kind = "misshapen" -> "error"
    [] Method[c] = "resolve_name" -> IF Null(r) THEN "none" ELSE "value"
    [] Method[c] = "is_available" -> IF Null(r) THEN "available" ELSE "unavailable"
    [] Method[c] = "verify" -> IF r.kind = "result" THEN "verified" ELSE "error"
    [] OTHER -> "value"

\* Mutants: a 5xx is final; a JSON-RPC error is not.
IsFinalForServerErrors(c, r) ==
  aborted[c] \/ (r.kind \in {"fault", "http4xx", "http5xx"} /\ ~IsForeign(c, r))

IsFinalWithoutAbort(c, r) ==
  r.kind \in {"fault", "http4xx"} /\ ~IsForeign(c, r)

\* An error no other endpoint is asked after.
IsFinal(c, r) ==
  aborted[c] \/ (r.kind \in {"fault", "http4xx"} /\ ~IsForeign(c, r))

-----------------------------------------------------------------------------
(* A call.                                                                 *)

Made == {c \in Call : pc[c] # "new"}

\* The id is taken with one atomic increment.
Start(c) ==
  /\ pc[c] = "new" /\ Cardinality(Made) < MaxCalls
  /\ id' = [id EXCEPT ![c] = next_id] /\ next_id' = next_id + 1
  /\ pc' = [pc EXCEPT ![c] = "sent"] /\ at' = [at EXCEPT ![c] = 1]
  /\ UNCHANGED <<sdk, timeout, aborted, said, replies>>

Return(c, outcome) ==
  /\ pc' = [pc EXCEPT ![c] = "done"]
  /\ said' = [said EXCEPT ![c] = outcome]
  /\ UNCHANGED at

\* Mutant: is_available leaves the check to resolve_name.
OfNoNameUnchecked == [resolve_name |-> "none", is_available |-> "available"]

\* What is returned, without a request, for a string that is no name after
\* trimming and lowercasing.
OfNoName == [resolve_name |-> "none", is_available |-> "unavailable"]

RefuseName(c) ==
  /\ pc[c] = "new" /\ Cardinality(Made) < MaxCalls
  /\ Method[c] \in DOMAIN OfNoName
  /\ Return(c, OfNoName[Method[c]])
  /\ UNCHANGED <<sdk, timeout, next_id, id, aborted, replies>>

MoveOn(c) ==
  IF at[c] < Endpoints
  THEN at' = [at EXCEPT ![c] = @ + 1] /\ UNCHANGED <<pc, said>>
  ELSE Return(c, "error")

Conclude(c, r) ==
  /\ pc[c] = "sent"
  /\ replies' = [replies EXCEPT ![c] = Append(@, r)]
  /\ IF IsResult(c, r) THEN Return(c, Outcome(c, r))
     ELSE IF IsFinal(c, r) THEN Return(c, "error")
     ELSE MoveOn(c)
  /\ UNCHANGED <<sdk, timeout, next_id, id, aborted>>

Receive(c) == \E r \in Reply(c) : Conclude(c, r)

\* Mutant: the timer of the first request is not set again for the next.
TimesOutOnce(c) == timeout /\ at[c] = 1 /\ Conclude(c, [kind |-> "timeout", of |-> c])

TimesOut(c) == timeout /\ Conclude(c, [kind |-> "timeout", of |-> c])

\* The caller's signal, at any time after the call was made; the request in
\* flight is cancelled unless its reply is there already.
Abort(c) ==
  /\ sdk = "typescript" /\ pc[c] = "sent" /\ ~aborted[c]
  /\ aborted' = [aborted EXCEPT ![c] = TRUE]
  /\ UNCHANGED <<sdk, timeout, next_id, id, pc, at, said, replies>>

Cancelled(c) == aborted[c] /\ Conclude(c, [kind |-> "cancelled", of |-> c])

Done ==
  /\ Cardinality(Made) = MaxCalls /\ \A c \in Made : pc[c] = "done"
  /\ UNCHANGED vars

Next ==
  \/ \E c \in Call : Start(c) \/ RefuseName(c)
  \/ \E c \in Call : Receive(c) \/ TimesOut(c) \/ Abort(c) \/ Cancelled(c)
  \/ Done

\* Timers fire.  Nothing is assumed of the endpoints.
Spec ==
  /\ Init /\ [][Next]_vars
  /\ \A c \in Call : WF_vars(TimesOut(c)) /\ WF_vars(Cancelled(c))

-----------------------------------------------------------------------------
(* Properties.                                                             *)

\* What an endpoint said of the request itself, in whichever library: it is
\* not to be hidden by the next endpoint.
Answers(c) ==
  {r \in ToSet(replies[c]) :
     /\ r.of = c
     /\ \/ r.kind \in {"result", "other_registry", "fault", "http4xx"}
        \/ r.kind = "null" /\ Method[c] \in Nullable}

\* An endpoint that is down hides none that is up, and none that is asked
\* later hides an answer: a call ends with the first answer it is given, and
\* fails without one only after every endpoint, unless the caller gave up.
\* (Dart and TypeScript do not compare ids, and read a record after the loop.)
FirstAnswerWins ==
  \A c \in Made :
    /\ \A r \in Answers(c) :
         /\ pc[c] = "done" /\ Last(replies[c]) = r
         /\ (said[c] # "error") <=> (r.kind \in {"result", "null"})
    /\ (said[c] = "error" /\ Answers(c) = {} /\ ~aborted[c]) =>
         \/ Len(replies[c]) = Endpoints
         \/ sdk # "rust" /\ Last(replies[c]).kind \notin Broken

\* The Rust client returns to no caller the result of another call, however
\* the endpoints mix up the calls in flight (lib.rs:368, lib.rs:416).
ResultsAreOwn ==
  \A c \in Call : sdk = "rust" /\ said[c] # "error" /\ replies[c] # << >>
                  => pc[c] = "sent" \/ Last(replies[c]).of = c

\* A caller acts on two assurances, that a name can be registered and that
\* the resolver serves this registry.  Neither is given for a string that is
\* no name, nor after endpoints that failed, and where ids are compared none
\* on the reply to another call.  Verified means that the last reply was a
\* status with the viewing key; available only that it held neither a record
\* nor an error: a null, or a reply without a result, which no library tells
\* from it (is_available, lib.rs:300; verify, lib.rs:252): that it ought to
\* be a null is WrongShapeIsNoAnswer, which does not hold.
AssurancesAreAnswered ==
  \A c \in Call :
    said[c] \in {"available", "verified"} =>
      /\ replies[c] # << >>
      /\ LET r == Last(replies[c])
         IN  /\ sdk = "rust" => r.of = c
             /\ IF said[c] = "verified" THEN r.kind = "result"
                ELSE r.kind \in {"null", "missing"}

\* A call that its caller gave up asks no other endpoint (zns.ts:502).
AbortIsFinal == [][\A c \in Call : aborted[c] => at'[c] = at[c]]_vars

\* Every call of a client with a timeout ends, whatever the endpoints do.
CallsEnd == \A c \in Call : pc[c] = "sent" /\ timeout ~> pc[c] = "done"

\* "A reply of the wrong shape is no answer, so the next endpoint is tried"
\* (rpc.dart:88), "malformed responses and mismatched response IDs try the
\* next endpoint" (README.md:53 of the Rust client): an object without result
\* or error is not returned, and no name is called available on it.
WrongShapeIsNoAnswer ==
  \A c \in Call :
    sdk \in {"dart", "rust"} /\ pc[c] = "done" /\ said[c] # "error" /\ replies[c] # << >>
      => Last(replies[c]).kind # "missing"
=============================================================================
