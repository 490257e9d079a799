-------------------------- MODULE SdkClientProofs ---------------------------
(***************************************************************************)
(* What a caller of the client libraries is told, for any number of calls  *)
(* and of endpoints, whatever the endpoints answer: one invariant of each  *)
(* call, that keeps which of the replies it has seen were passed over.     *)
(***************************************************************************)
EXTENDS SdkClient, TLAPS

Outcomes == {"nothing", "error", "value", "none", "available", "unavailable", "verified"}

ReplyType == [kind : Envelope \cup Broken \cup {"other_registry"}, of : Call]

TypeOK ==
  /\ sdk \in {"rust", "typescript", "dart"} /\ timeout \in BOOLEAN
  /\ next_id \in Nat \ {0}
  /\ id \in [Call -> Nat] /\ at \in [Call -> Nat]
  /\ pc \in [Call -> {"new", "sent", "done"}]
  /\ aborted \in [Call -> BOOLEAN]
  /\ said \in [Call -> Outcomes]
  /\ replies \in [Call -> Seq(ReplyType)]

\* An id is given once.
IdsAreOwn ==
  /\ \A c \in Call : id[c] < next_id
  /\ \A c, d \in Call : id[c] = id[d] /\ id[c] # 0 => c = d

\* A reply is to a call that was made, and what is not one is to this call.
Genuine(c, r) ==
  /\ id[r.of] # 0
  /\ r.kind \in Broken => r.of = c
  /\ r.kind = "other_registry" => Method[c] = "verify"

\* The call goes on to the next endpoint after it.
PassedOver(c, r) ==
  /\ ~IsResult(c, r)
  /\ r.kind \in {"fault", "http4xx"} => IsForeign(c, r)

Unmade(c) ==
  pc[c] = "new" /\ id[c] = 0 /\ said[c] = "nothing" /\ ~aborted[c] /\ replies[c] = << >>

Refused(c) ==
  /\ pc[c] = "done" /\ replies[c] = << >> /\ ~aborted[c]
  /\ Method[c] \in DOMAIN OfNoName /\ said[c] = OfNoName[Method[c]]

Waiting(c) ==
  /\ pc[c] = "sent" /\ id[c] # 0 /\ said[c] = "nothing"
  /\ at[c] \in 1..Endpoints /\ Len(replies[c]) = at[c] - 1
  /\ \A i \in 1..Len(replies[c]) : PassedOver(c, replies[c][i])

Ended(c) ==
  /\ pc[c] = "done" /\ id[c] # 0
  /\ Len(replies[c]) \in 1..Endpoints
  /\ \A i \in 1..(Len(replies[c]) - 1) : PassedOver(c, replies[c][i])
  /\ LET r == replies[c][Len(replies[c])]
     IN  IF IsResult(c, r) THEN said[c] = Outcome(c, r)
         ELSE said[c] = "error" /\ (IsFinal(c, r) \/ Len(replies[c]) = Endpoints)

CallSound(c) ==
  /\ \A i \in 1..Len(replies[c]) : Genuine(c, replies[c][i])
  /\ Unmade(c) \/ Refused(c) \/ Waiting(c) \/ Ended(c)

IInv == TypeOK /\ IdsAreOwn /\ \A c \in Call : CallSound(c)

-----------------------------------------------------------------------------
(* Replies.                                                                *)

\* One more reply.
LEMMA AppendFacts ==
  ASSUME NEW S, NEW s \in Seq(S), NEW e \in S
  PROVE  /\ Append(s, e) \in Seq(S) /\ Len(Append(s, e)) = Len(s) + 1
         /\ Append(s, e)[Len(s) + 1] = e
         /\ \A i \in 1..Len(s) : Append(s, e)[i] = s[i]
  OBVIOUS

\* What is returned without a request.
LEMMA NoNameFacts ==
  ASSUME NEW m \in DOMAIN OfNoName
  PROVE  /\ OfNoName[m] \in {"none", "unavailable"}
         /\ m \in {"resolve_name", "is_available"}
<1>1. m = "resolve_name" \/ m = "is_available"
  BY DEF OfNoName
<1>2. CASE m = "resolve_name"
  BY <1>2 DEF OfNoName
<1>3. CASE m = "is_available"
  BY <1>3 DEF OfNoName
<1> QED
  BY <1>1, <1>2, <1>3

\* A reply that was seen is a reply.
LEMMA RepliesTyped ==
  ASSUME TypeOK, NEW c \in Call
  PROVE  /\ replies[c] \in Seq(ReplyType) /\ Len(replies[c]) \in Nat
         /\ \A i \in 1..Len(replies[c]) : replies[c][i] \in ReplyType
  BY DEF TypeOK

\* What may come from an endpoint or from the timer is a genuine reply.
LEMMA RepliesGenuine ==
  ASSUME IInv, NEW c \in Call, id[c] # 0, NEW r,
         r \in Reply(c) \/ r = [kind |-> "timeout", of |-> c]
                        \/ r = [kind |-> "cancelled", of |-> c]
  PROVE  r \in ReplyType /\ Genuine(c, r)
<1>1. CASE r = [kind |-> "timeout", of |-> c] \/ r = [kind |-> "cancelled", of |-> c]
  BY <1>1 DEF ReplyType, Broken, Genuine
<1>2. CASE r \in Reply(c)
  <2>1. CASE \E k \in IF Method[c] = "verify" THEN Envelope \cup {"other_registry"}
                                              ELSE Envelope :
             \E d \in {e \in Call : id[e] # 0} : r = [kind |-> k, of |-> d]
    BY <2>1 DEF ReplyType, Genuine, Envelope, Broken
  <2>2. CASE \E k \in Broken \ {"timeout", "cancelled"} : r = [kind |-> k, of |-> c]
    BY <2>2 DEF ReplyType, Genuine, Broken
  <2> QED
    BY <1>2, <2>1, <2>2 DEF Reply
<1> QED
  BY <1>1, <1>2

\* A result of a call makes one of the outcomes.
LEMMA OutcomeTyped ==
  ASSUME SdkAssumption, NEW c \in Call, NEW r \in ReplyType
  PROVE  /\ Outcome(c, r) \in Outcomes /\ Outcome(c, r) # "nothing"
  BY DEF Outcome, Outcomes, Methods, Null

\* A reply is read as before while the ids, the library and the caller's
\* signal are as before.
LEMMA SameReading ==
  ASSUME TypeOK, NEW c \in Call, NEW r \in ReplyType, Genuine(c, r),
         sdk' = sdk, id'[c] = id[c], id'[r.of] = id[r.of]
  PROVE  /\ Genuine(c, r)'
         /\ PassedOver(c, r)' <=> PassedOver(c, r)
         /\ IsResult(c, r)' <=> IsResult(c, r)
         /\ Outcome(c, r)' = Outcome(c, r)
         /\ aborted'[c] = aborted[c] => (IsFinal(c, r)' <=> IsFinal(c, r))
<1>1. Genuine(c, r)'
  BY DEF Genuine
<1>2. IsForeign(c, r)' <=> IsForeign(c, r)
  BY DEF IsForeign
<1>3. IsResult(c, r)' <=> IsResult(c, r)
  BY <1>2 DEF IsResult, NullIsResult
<1>4. Outcome(c, r)' = Outcome(c, r)
  BY DEF Outcome
<1> QED
  BY <1>1, <1>2, <1>3, <1>4 DEF PassedOver, IsFinal

\* A step of another call leaves a call as it was.
LEMMA Kept ==
  ASSUME IInv, NEW c \in Call, sdk' = sdk,
         \A d \in Call : id[d] # 0 => id'[d] = id[d],
         id'[c] = id[c], pc'[c] = pc[c], at'[c] = at[c], aborted'[c] = aborted[c],
         said'[c] = said[c], replies'[c] = replies[c]
  PROVE  CallSound(c)'
<1> DEFINE n == Len(replies[c])
<1>1. TypeOK /\ CallSound(c)
  BY DEF IInv
<1>2. n \in Nat /\ \A i \in 1..n : replies[c][i] \in ReplyType
  BY <1>1, RepliesTyped
<1>3. ASSUME NEW i \in 1..n
      PROVE  /\ Genuine(c, replies[c][i])'
             /\ PassedOver(c, replies[c][i])' <=> PassedOver(c, replies[c][i])
             /\ IsResult(c, replies[c][i])' <=> IsResult(c, replies[c][i])
             /\ Outcome(c, replies[c][i])' = Outcome(c, replies[c][i])
             /\ IsFinal(c, replies[c][i])' <=> IsFinal(c, replies[c][i])
  <2>1. PICK r \in ReplyType : r = replies[c][i]
    BY <1>2, <1>3
  <2>2. Genuine(c, r) /\ r.of \in Call
    BY <1>1, <1>3, <2>1 DEF CallSound, ReplyType
  <2>3. id'[r.of] = id[r.of]
    BY <2>2 DEF Genuine
  <2>4. replies'[c][i] = r
    BY <2>1
  <2>5. /\ Genuine(c, r)'
        /\ PassedOver(c, r)' <=> PassedOver(c, r)
        /\ IsResult(c, r)' <=> IsResult(c, r)
        /\ Outcome(c, r)' = Outcome(c, r)
        /\ IsFinal(c, r)' <=> IsFinal(c, r)
    BY <1>1, <2>2, <2>3, SameReading
  <2> QED
    BY <2>1, <2>4, <2>5
<1>4. Unmade(c) => Unmade(c)'
  BY DEF Unmade
<1>5. Refused(c) => Refused(c)'
  BY DEF Refused
<1>6. Waiting(c) => Waiting(c)'
  BY <1>3 DEF Waiting
<1>7. Ended(c) => Ended(c)'
  BY <1>2, <1>3 DEF Ended
<1>8. \A i \in 1..Len(replies'[c]) : Genuine(c, replies[c][i])'
  BY <1>3
<1> QED
  BY <1>1, <1>4, <1>5, <1>6, <1>7, <1>8 DEF CallSound

-----------------------------------------------------------------------------
(* Steps.                                                                  *)

\* Where a call stands tells which of the four it is.
LEMMA WhileSent ==
  ASSUME IInv, NEW c \in Call, pc[c] = "sent"
  PROVE  Waiting(c)
  BY DEF IInv, CallSound, Unmade, Refused, Ended

\* A reply, or the want of one, is taken to heart.
LEMMA ConcludeSound ==
  ASSUME SdkAssumption, IInv, NEW c \in Call, NEW r \in ReplyType, Genuine(c, r),
         Conclude(c, r)
  PROVE  IInv'
<1>0. PICK n \in Nat : n = Len(replies[c]) /\ \A i \in 1..n : replies[c][i] \in ReplyType
  BY RepliesTyped DEF IInv
<1>1. /\ TypeOK /\ IdsAreOwn /\ CallSound(c)
      /\ Waiting(c) /\ pc[c] = "sent" /\ id[c] # 0 /\ said[c] = "nothing"
      /\ n = at[c] - 1 /\ at[c] \in 1..Endpoints /\ Endpoints \in Nat
      /\ replies[c] \in Seq(ReplyType) /\ n \in Nat
  BY <1>0, WhileSent, RepliesTyped DEF IInv, Conclude, Waiting, SdkAssumption
<1>2. /\ sdk' = sdk /\ timeout' = timeout /\ next_id' = next_id /\ id' = id
      /\ aborted' = aborted
      /\ replies' = [replies EXCEPT ![c] = Append(replies[c], r)]
  BY DEF Conclude
<1>3. /\ pc' \in [Call -> {"new", "sent", "done"}] /\ at' \in [Call -> Nat]
      /\ said' \in [Call -> Outcomes]
      /\ \A d \in Call \ {c} : pc'[d] = pc[d] /\ at'[d] = at[d] /\ said'[d] = said[d]
      /\ \/ /\ IsResult(c, r)
            /\ pc'[c] = "done" /\ said'[c] = Outcome(c, r)
         \/ /\ ~IsResult(c, r) /\ IsFinal(c, r) /\ pc'[c] = "done" /\ said'[c] = "error"
         \/ /\ ~IsResult(c, r) /\ ~IsFinal(c, r) /\ at[c] < Endpoints
            /\ pc'[c] = "sent" /\ said'[c] = "nothing" /\ at'[c] = at[c] + 1
         \/ /\ ~IsResult(c, r) /\ ~IsFinal(c, r) /\ at[c] = Endpoints
            /\ pc'[c] = "done" /\ said'[c] = "error"
  <2>1. CASE IsResult(c, r)
    <3>1. /\ pc' = [pc EXCEPT ![c] = "done"] /\ at' = at
          /\ said' = [said EXCEPT ![c] = Outcome(c, r)]
      BY <2>1 DEF Conclude, Return
    <3>2. Outcome(c, r) \in Outcomes
      BY OutcomeTyped
    <3> QED
      BY <1>1, <2>1, <3>1, <3>2 DEF TypeOK
  <2>2. CASE ~IsResult(c, r) /\ IsFinal(c, r)
    <3>1. /\ pc' = [pc EXCEPT ![c] = "done"] /\ at' = at
          /\ said' = [said EXCEPT ![c] = "error"] /\ "error" \in Outcomes
      BY <2>2 DEF Conclude, Return, Outcomes
    <3> QED
      BY <1>1, <2>2, <3>1 DEF TypeOK
  <2>3. CASE ~IsResult(c, r) /\ ~IsFinal(c, r)
    <3>1. CASE at[c] < Endpoints
      <4>1. at' = [at EXCEPT ![c] = at[c] + 1] /\ UNCHANGED <<pc, said>>
        BY <2>3, <3>1 DEF Conclude, MoveOn
      <4> QED
        BY <1>1, <2>3, <3>1, <4>1 DEF TypeOK
    <3>2. CASE ~(at[c] < Endpoints)
      <4>1. /\ pc' = [pc EXCEPT ![c] = "done"] /\ at' = at
            /\ said' = [said EXCEPT ![c] = "error"] /\ "error" \in Outcomes
        BY <2>3, <3>2 DEF Conclude, MoveOn, Return, Outcomes
      <4>2. at[c] = Endpoints
        BY <1>1, <3>2
      <4> QED
        BY <1>1, <2>3, <4>1, <4>2 DEF TypeOK
    <3> QED
      BY <3>1, <3>2
  <2> QED
    BY <2>1, <2>2, <2>3
<1>4. /\ Append(replies[c], r) \in Seq(ReplyType)
      /\ Len(replies'[c]) = n + 1 /\ replies'[c][n + 1] = r
      /\ \A i \in 1..n : replies'[c][i] = replies[c][i]
      /\ \A d \in Call \ {c} : replies'[d] = replies[d]
  <2>1. replies'[c] = Append(replies[c], r)
    BY <1>1, <1>2 DEF TypeOK
  <2>2. /\ Append(replies[c], r) \in Seq(ReplyType)
        /\ Len(Append(replies[c], r)) = n + 1 /\ Append(replies[c], r)[n + 1] = r
        /\ \A i \in 1..n : Append(replies[c], r)[i] = replies[c][i]
    <3>1. replies[c] \in Seq(ReplyType)
      BY <1>1
    <3>2. /\ Append(replies[c], r) \in Seq(ReplyType)
          /\ Len(Append(replies[c], r)) = Len(replies[c]) + 1
          /\ Append(replies[c], r)[Len(replies[c]) + 1] = r
          /\ \A i \in 1..Len(replies[c]) : Append(replies[c], r)[i] = replies[c][i]
      BY <3>1
    <3> QED
      BY <1>0, <3>2
  <2>3. \A d \in Call \ {c} : replies'[d] = replies[d]
    BY <1>1, <1>2 DEF TypeOK
  <2> QED
    BY <2>1, <2>2, <2>3
<1>5. TypeOK'
  BY <1>1, <1>2, <1>3, <1>4 DEF TypeOK
<1>6. IdsAreOwn'
  BY <1>1, <1>2 DEF IdsAreOwn
<1>7. ASSUME NEW d \in Call \ {c} PROVE CallSound(d)'
  BY <1>2, <1>3, <1>4, Kept
<1>8. ASSUME NEW q \in ReplyType, Genuine(c, q)
      PROVE  /\ Genuine(c, q)'
             /\ PassedOver(c, q)' <=> PassedOver(c, q)
             /\ IsResult(c, q)' <=> IsResult(c, q)
             /\ Outcome(c, q)' = Outcome(c, q)
             /\ IsFinal(c, q)' <=> IsFinal(c, q)
  BY <1>1, <1>2, <1>8, SameReading
<1>9. ASSUME NEW i \in 1..n
      PROVE  Genuine(c, replies[c][i])' /\ PassedOver(c, replies[c][i])'
  <2>1. PICK q \in ReplyType : q = replies[c][i]
    BY <1>0, <1>9
  <2>2. Genuine(c, q) /\ PassedOver(c, q) /\ replies'[c][i] = q
    BY <1>0, <1>1, <1>4, <2>1 DEF CallSound, Waiting
  <2> QED
    BY <1>8, <2>2
<1>10. \A i \in 1..Len(replies'[c]) : Genuine(c, replies[c][i])'
  <2>1. \A i \in 1..(n + 1) : i \in 1..n \/ i = n + 1
    BY <1>1
  <2>2. Genuine(c, r)'
    BY <1>8
  <2>3. Genuine(c, replies[c][n + 1])'
    BY <1>4, <2>2
  <2> QED
    BY <1>4, <1>9, <2>1, <2>3
<1>11. CASE /\ ~IsResult(c, r) /\ ~IsFinal(c, r) /\ at[c] < Endpoints
            /\ pc'[c] = "sent" /\ said'[c] = "nothing" /\ at'[c] = at[c] + 1
  <2>1. PassedOver(c, r)'
    <3>1. PassedOver(c, r)
      BY <1>11 DEF PassedOver, IsFinal
    <3> QED
      BY <1>8, <3>1
  <2>2. PassedOver(c, replies[c][n + 1])'
    BY <1>4, <2>1
  <2>3. \A i \in 1..(n + 1) : i \in 1..n \/ i = n + 1
    BY <1>1
  <2>4. \A i \in 1..Len(replies'[c]) : PassedOver(c, replies[c][i])'
    BY <1>4, <1>9, <2>2, <2>3
  <2>5. /\ id'[c] # 0 /\ at'[c] \in 1..Endpoints /\ Len(replies'[c]) = at'[c] - 1
    <3>1. id'[c] # 0 /\ Len(replies'[c]) = n + 1
      BY <1>1, <1>2, <1>4
    <3>2. at[c] \in 1..Endpoints /\ n = at[c] - 1 /\ Endpoints \in Nat
      BY <1>1
    <3> QED
      BY <1>11, <3>1, <3>2
  <2>6. Waiting(c)'
    BY <1>11, <2>4, <2>5 DEF Waiting
  <2> QED
    BY <1>5, <1>6, <1>7, <1>10, <2>6 DEF IInv, CallSound
<1>12. CASE /\ pc'[c] = "done"
            /\ \/ IsResult(c, r) /\ said'[c] = Outcome(c, r)
               \/ /\ ~IsResult(c, r) /\ said'[c] = "error"
                  /\ IsFinal(c, r) \/ at[c] = Endpoints
  <2>1. /\ IsResult(c, replies[c][n + 1])' <=> IsResult(c, r)
        /\ Outcome(c, replies[c][n + 1])' = Outcome(c, r)
        /\ IsFinal(c, replies[c][n + 1])' <=> IsFinal(c, r)
    <3>1. /\ IsResult(c, r)' <=> IsResult(c, r)
          /\ Outcome(c, r)' = Outcome(c, r)
          /\ IsFinal(c, r)' <=> IsFinal(c, r)
      BY <1>8
    <3> QED
      BY <1>4, <3>1
  <2>2. \A i \in 1..(Len(replies'[c]) - 1) : PassedOver(c, replies[c][i])'
    BY <1>1, <1>4, <1>9
  <2>3. id'[c] # 0 /\ Len(replies'[c]) \in 1..Endpoints /\ Len(replies'[c]) = n + 1
    BY <1>1, <1>2, <1>4
  <2>4. Ended(c)'
    BY <1>1, <1>12, <2>1, <2>2, <2>3 DEF Ended
  <2> QED
    BY <1>5, <1>6, <1>7, <1>10, <2>4 DEF IInv, CallSound
<1> QED
  BY <1>3, <1>11, <1>12

\* The first state.
LEMMA InitInv == Init => IInv
<1> SUFFICES ASSUME Init PROVE IInv
  OBVIOUS
<1>1. TypeOK
  BY DEF Init, TypeOK, Outcomes
<1> QED
  BY <1>1 DEF Init, IInv, IdsAreOwn, CallSound, Unmade

\* A call is made with an id of its own.
LEMMA StartSound ==
  ASSUME SdkAssumption, IInv, NEW c \in Call, Start(c)
  PROVE  IInv'
<1>1. /\ TypeOK /\ IdsAreOwn /\ CallSound(c) /\ pc[c] = "new"
      /\ id[c] = 0 /\ said[c] = "nothing" /\ replies[c] = << >>
  BY DEF IInv, Start, CallSound, Unmade, Refused, Waiting, Ended
<1>2. /\ id' = [id EXCEPT ![c] = next_id] /\ next_id' = next_id + 1
      /\ pc' = [pc EXCEPT ![c] = "sent"] /\ at' = [at EXCEPT ![c] = 1]
      /\ UNCHANGED <<sdk, timeout, aborted, said, replies>>
  BY DEF Start
<1>3. TypeOK'
  BY <1>1, <1>2 DEF TypeOK
<1>4. IdsAreOwn'
  BY <1>1, <1>2 DEF TypeOK, IdsAreOwn
<1>5. ASSUME NEW d \in Call \ {c} PROVE CallSound(d)'
  <2>1. \A e \in Call : id[e] # 0 => id'[e] = id[e]
    BY <1>1, <1>2 DEF TypeOK
  <2>2. /\ id'[d] = id[d] /\ pc'[d] = pc[d] /\ at'[d] = at[d] /\ aborted'[d] = aborted[d]
        /\ said'[d] = said[d] /\ replies'[d] = replies[d] /\ sdk' = sdk
    BY <1>1, <1>2 DEF TypeOK
  <2> QED
    BY <2>1, <2>2, Kept
<1>6. CallSound(c)'
  <2>1. /\ pc'[c] = "sent" /\ id'[c] # 0 /\ said'[c] = "nothing" /\ at'[c] = 1
        /\ Len(replies'[c]) = 0
    BY <1>1, <1>2 DEF TypeOK
  <2>2. Waiting(c)'
    BY <2>1, SdkAssumption DEF Waiting, SdkAssumption
  <2> QED
    BY <2>1, <2>2 DEF CallSound
<1> QED
  BY <1>3, <1>4, <1>5, <1>6 DEF IInv

\* A string that is no name is answered without a request.
LEMMA RefuseSound ==
  ASSUME IInv, NEW c \in Call, RefuseName(c)
  PROVE  IInv'
<1>1. /\ TypeOK /\ IdsAreOwn /\ CallSound(c) /\ pc[c] = "new"
      /\ ~aborted[c] /\ replies[c] = << >>
  BY DEF IInv, RefuseName, CallSound, Unmade, Refused, Waiting, Ended
<1>2. /\ pc' = [pc EXCEPT ![c] = "done"]
      /\ said' = [said EXCEPT ![c] = OfNoName[Method[c]]]
      /\ Method[c] \in DOMAIN OfNoName
      /\ UNCHANGED <<at, sdk, timeout, next_id, id, aborted, replies>>
  BY DEF RefuseName, Return
<1>3. TypeOK'
  BY <1>1, <1>2, NoNameFacts DEF TypeOK, Outcomes
<1>4. IdsAreOwn'
  BY <1>1, <1>2 DEF IdsAreOwn
<1>5. ASSUME NEW d \in Call \ {c} PROVE CallSound(d)'
  <2>1. /\ id'[d] = id[d] /\ pc'[d] = pc[d] /\ at'[d] = at[d] /\ aborted'[d] = aborted[d]
        /\ said'[d] = said[d] /\ replies'[d] = replies[d] /\ sdk' = sdk
        /\ \A e \in Call : id[e] # 0 => id'[e] = id[e]
    BY <1>1, <1>2 DEF TypeOK
  <2> QED
    BY <2>1, Kept
<1>6. CallSound(c)'
  <2>1. pc'[c] = "done" /\ replies'[c] = << >> /\ ~aborted'[c]
        /\ said'[c] = OfNoName[Method[c]]
    BY <1>1, <1>2 DEF TypeOK
  <2>2. Refused(c)'
    BY <1>2, <2>1 DEF Refused
  <2> QED
    BY <2>1, <2>2 DEF CallSound
<1> QED
  BY <1>3, <1>4, <1>5, <1>6 DEF IInv

\* The caller gives up a call that waits.
LEMMA AbortSound ==
  ASSUME IInv, NEW c \in Call, Abort(c)
  PROVE  IInv'
<1>1. /\ TypeOK /\ IdsAreOwn /\ CallSound(c) /\ Waiting(c)
  BY WhileSent DEF IInv, Abort
<1>2. /\ aborted' = [aborted EXCEPT ![c] = TRUE]
      /\ UNCHANGED <<sdk, timeout, next_id, id, pc, at, said, replies>>
  BY DEF Abort
<1>3. TypeOK'
  BY <1>1, <1>2 DEF TypeOK
<1>4. IdsAreOwn'
  BY <1>1, <1>2 DEF IdsAreOwn
<1>5. ASSUME NEW d \in Call \ {c} PROVE CallSound(d)'
  BY <1>1, <1>2, Kept DEF TypeOK
<1>6. CallSound(c)'
  BY <1>1, <1>2 DEF CallSound, Genuine, Waiting, PassedOver, IsResult, IsForeign,
     NullIsResult
<1> QED
  BY <1>3, <1>4, <1>5, <1>6 DEF IInv

\* Every step keeps the invariant.
LEMMA NextInv == SdkAssumption /\ IInv /\ [Next]_vars => IInv'
<1> SUFFICES ASSUME SdkAssumption, IInv, [Next]_vars PROVE IInv'
  OBVIOUS
<1>1. ASSUME NEW c \in Call, Start(c) PROVE IInv'
  BY <1>1, StartSound
<1>2. ASSUME NEW c \in Call, RefuseName(c) PROVE IInv'
  BY <1>2, RefuseSound
<1>3. ASSUME NEW c \in Call, Receive(c) \/ TimesOut(c) \/ Cancelled(c) PROVE IInv'
  <2>1. PICK r : /\ \/ r \in Reply(c) \/ r = [kind |-> "timeout", of |-> c]
                    \/ r = [kind |-> "cancelled", of |-> c]
                 /\ Conclude(c, r)
    BY <1>3 DEF Receive, TimesOut, Cancelled
  <2>2. id[c] # 0
    BY <2>1, WhileSent DEF Conclude, Waiting
  <2>3. r \in ReplyType /\ Genuine(c, r)
    BY <2>1, <2>2, RepliesGenuine
  <2> QED
    BY <2>1, <2>3, ConcludeSound
<1>4. ASSUME NEW c \in Call, Abort(c) PROVE IInv'
  BY <1>4, AbortSound
<1>5. CASE UNCHANGED vars
  <2>1. /\ UNCHANGED <<sdk, timeout, next_id, id, pc, at, aborted, said, replies>>
        /\ TypeOK /\ IdsAreOwn
    BY <1>5 DEF vars, IInv
  <2>2. TypeOK' /\ IdsAreOwn'
    BY <2>1 DEF TypeOK, IdsAreOwn
  <2>3. ASSUME NEW c \in Call PROVE CallSound(c)'
    BY <2>1, Kept
  <2> QED
    BY <2>2, <2>3 DEF IInv
<1> QED
  BY <1>1, <1>2, <1>3, <1>4, <1>5 DEF Next, Done

\* The invariant holds in every state.
LEMMA Invariance == Spec => []IInv
<1>1. SdkAssumption
  BY SdkAssumption DEF SdkAssumption
<1> QED
  BY <1>1, InitInv, NextInv, PTL DEF Spec

-----------------------------------------------------------------------------
(* Theorems.                                                               *)

\* A reply to this very call is foreign to it in no library, and a reply
\* that is not foreign is, in the Rust client, to this very call.
LEMMA OwnReplies ==
  ASSUME IInv, NEW c \in Call, NEW r \in ReplyType, Genuine(c, r), id[c] # 0
  PROVE  /\ r.of = c => ~IsForeign(c, r)
         /\ sdk = "rust" /\ ~IsForeign(c, r) => r.of = c
  BY DEF IInv, IdsAreOwn, Genuine, IsForeign, ReplyType

\* The kinds of Answers.
Answering(c, r) ==
  \/ r.kind \in {"result", "other_registry", "fault", "http4xx"}
  \/ r.kind = "null" /\ Method[c] \in Nullable

\* What was passed over is no answer.
LEMMA PassedOverIsNoAnswer ==
  ASSUME IInv, NEW c \in Call, NEW r \in ReplyType, Genuine(c, r), id[c] # 0,
         PassedOver(c, r), r.of = c
  PROVE  ~Answering(c, r)
  BY OwnReplies DEF Answering, PassedOver, IsResult, Null, NullIsResult

\* What the end of a call says of its last reply.
LEMMA EndIsRead ==
  ASSUME SdkAssumption, IInv, NEW c \in Call, NEW r \in ReplyType, Genuine(c, r),
         id[c] # 0, IsResult(c, r)
  PROVE  /\ Answering(c, r) /\ r.kind \in {"result", "null"} => Outcome(c, r) # "error"
         /\ Outcome(c, r) = "error" /\ r.of = c /\ sdk = "rust"
              => r.kind = "other_registry"
         /\ Outcome(c, r) = "error" /\ sdk # "rust" => r.kind \notin Broken
         /\ r.kind = "other_registry" => Outcome(c, r) = "error"
         /\ Outcome(c, r) = "available" => Null(r)
         /\ Outcome(c, r) = "verified" => r.kind = "result"
<1>1. Method[c] \in Methods
  BY DEF SdkAssumption
<1>2. r.kind \in {"result", "other_registry", "misshapen", "null", "missing"}
  BY DEF IsResult, Null
<1> QED
  BY <1>1, <1>2 DEF Answering, Outcome, Methods, Null, NullIsResult, Nullable, IsResult, Broken, Genuine

\* The position of the last reply.
LEMMA LastReply ==
  ASSUME IInv, NEW c \in Call, Len(replies[c]) # 0
  PROVE  \E r \in ReplyType : /\ r = Last(replies[c]) /\ r = replies[c][Len(replies[c])]
                              /\ Genuine(c, r)
<1>1. TypeOK /\ CallSound(c)
  BY DEF IInv
<1>2. Len(replies[c]) \in 1..Len(replies[c])
  BY <1>1, RepliesTyped
<1> QED
  BY <1>1, <1>2, RepliesTyped DEF CallSound, Last

\* The answers of a call are at the last position of a call that ended.
LEMMA AnswersAreLast ==
  ASSUME IInv, NEW c \in Call, NEW a \in Answers(c)
  PROVE  /\ Ended(c) /\ a \in ReplyType /\ Genuine(c, a) /\ a.of = c
         /\ a = replies[c][Len(replies[c])] /\ a = Last(replies[c])
         /\ Answering(c, a)
<1>1. TypeOK /\ CallSound(c)
  BY DEF IInv
<1>2. PICK n \in Nat : n = Len(replies[c]) /\ \A i \in 1..n : replies[c][i] \in ReplyType
  BY <1>1, RepliesTyped
<1>3. PICK i \in 1..n : a = replies[c][i]
  <2>1. DOMAIN replies[c] = 1..n
    BY <1>1, <1>2, RepliesTyped
  <2> QED
    BY <2>1 DEF Answers, ToSet
<1>4. /\ a \in ReplyType /\ Genuine(c, a) /\ a.of = c
      /\ Answering(c, a)
  BY <1>1, <1>2, <1>3 DEF CallSound, Answers, Answering
<1>5. ~Unmade(c) /\ ~Refused(c)
  BY <1>2, <1>3 DEF Unmade, Refused
<1>6. ~Waiting(c)
  BY <1>2, <1>3, <1>4, PassedOverIsNoAnswer DEF Waiting
<1>7. Ended(c)
  BY <1>1, <1>5, <1>6 DEF CallSound
<1>8. i = n
  <2>1. SUFFICES ASSUME i # n PROVE FALSE
    OBVIOUS
  <2>2. i \in 1..(n - 1)
    BY <2>1
  <2>3. PassedOver(c, a) /\ id[c] # 0
    BY <1>2, <1>3, <1>7, <2>2 DEF Ended
  <2> QED
    BY <1>4, <2>3, PassedOverIsNoAnswer
<1> QED
  BY <1>2, <1>3, <1>4, <1>7, <1>8 DEF Last

\* Every variable keeps its type.
THEOREM ClientTyped == Spec => []TypeOK
<1>1. IInv => TypeOK
  BY DEF IInv
<1> QED
  BY <1>1, Invariance, PTL

\* A call ends with the first answer it is given, in each of the libraries,
\* and fails without one only after every endpoint.
THEOREM TheFirstAnswerWins == Spec => []FirstAnswerWins
<1>1. SdkAssumption /\ IInv => FirstAnswerWins
  <2> SUFFICES ASSUME SdkAssumption, IInv, NEW c \in Made
               PROVE  /\ \A a \in Answers(c) :
                           /\ pc[c] = "done" /\ Last(replies[c]) = a
                           /\ (said[c] # "error") <=> (a.kind \in {"result", "null"})
                      /\ (said[c] = "error" /\ Answers(c) = {} /\ ~aborted[c]) =>
                           \/ Len(replies[c]) = Endpoints
                           \/ sdk # "rust" /\ Last(replies[c]).kind \notin Broken
    BY DEF FirstAnswerWins
  <2>1. c \in Call /\ CallSound(c) /\ ~Unmade(c)
    BY DEF Made, IInv, Unmade
  <2>2. ASSUME NEW a \in Answers(c)
        PROVE  /\ pc[c] = "done" /\ Last(replies[c]) = a
               /\ (said[c] # "error") <=> (a.kind \in {"result", "null"})
    <3>1. /\ Ended(c) /\ a \in ReplyType /\ Genuine(c, a) /\ a.of = c
          /\ a = replies[c][Len(replies[c])] /\ a = Last(replies[c])
          /\ Answering(c, a)
      BY <2>1, AnswersAreLast
    <3>2. id[c] # 0 /\ pc[c] = "done"
      BY <3>1 DEF Ended
    <3>3. ~IsForeign(c, a)
      BY <2>1, <3>1, <3>2, OwnReplies
    <3>4. IsResult(c, a) <=> a.kind \in {"result", "other_registry", "null"}
      BY <3>1, <3>3 DEF Answering, IsResult, Null, NullIsResult
    <3>5. IF IsResult(c, a) THEN said[c] = Outcome(c, a) ELSE said[c] = "error"
      BY <3>1 DEF Ended
    <3> QED
      BY <2>1, <3>1, <3>2, <3>4, <3>5, EndIsRead
  <2>3. ASSUME said[c] = "error", Answers(c) = {}, ~aborted[c]
        PROVE  \/ Len(replies[c]) = Endpoints
               \/ sdk # "rust" /\ Last(replies[c]).kind \notin Broken
    <3>1. Ended(c)
      BY <2>1, <2>3, NoNameFacts DEF CallSound, Refused, Waiting
    <3>2. Len(replies[c]) # 0 /\ id[c] # 0
      BY <3>1 DEF Ended
    <3>3. PICK r \in ReplyType : /\ r = Last(replies[c]) /\ r = replies[c][Len(replies[c])]
                                 /\ Genuine(c, r)
      BY <2>1, <3>2, LastReply
    <3>4. r.of = c => ~Answering(c, r)
      <4>1. r \in ToSet(replies[c])
        <5>1. Len(replies[c]) \in DOMAIN replies[c]
          BY <2>1, <3>2, RepliesTyped DEF IInv
        <5> QED
          BY <3>3, <5>1 DEF ToSet
      <4> QED
        BY <2>3, <4>1 DEF Answers, Answering
    <3>5. CASE IsResult(c, r)
      <4>1. Outcome(c, r) = "error" /\ ~IsForeign(c, r)
        BY <2>3, <3>1, <3>3, <3>5 DEF Ended, IsResult
      <4>2. sdk = "rust" => r.of = c
        BY <2>1, <3>2, <3>3, <4>1, OwnReplies
      <4> QED
        BY <2>1, <3>2, <3>3, <3>4, <3>5, <4>1, <4>2, EndIsRead DEF Answering
    <3>6. CASE ~IsResult(c, r) /\ IsFinal(c, r)
      <4>1. r.kind \in {"fault", "http4xx"} /\ ~IsForeign(c, r)
        BY <2>3, <3>6 DEF IsFinal
      <4>2. sdk # "rust" /\ r.of # c
        BY <2>1, <3>2, <3>3, <3>4, <4>1, OwnReplies DEF Answering
      <4> QED
        BY <3>3, <4>2 DEF Genuine
    <3> QED
      BY <3>1, <3>3, <3>5, <3>6 DEF Ended
  <2> QED
    BY <2>2, <2>3
<1>2. SdkAssumption
  BY SdkAssumption DEF SdkAssumption
<1> QED
  BY <1>1, <1>2, Invariance, PTL

\* The Rust client gives no caller the result of another call, however many
\* are in flight.
THEOREM ResultsStayOwn == Spec => []ResultsAreOwn
<1>1. IInv => ResultsAreOwn
  <2> SUFFICES ASSUME IInv, NEW c \in Call, sdk = "rust", said[c] # "error",
                      replies[c] # << >>, pc[c] # "sent"
               PROVE  Last(replies[c]).of = c
    BY DEF ResultsAreOwn
  <2>1. Ended(c)
    BY DEF IInv, CallSound, Unmade, Refused, Waiting
  <2>2. Len(replies[c]) # 0 /\ id[c] # 0
    BY <2>1 DEF Ended
  <2>3. PICK r \in ReplyType : /\ r = Last(replies[c]) /\ r = replies[c][Len(replies[c])]
                               /\ Genuine(c, r)
    BY <2>2, LastReply
  <2>4. ~IsForeign(c, r)
    BY <2>1, <2>3 DEF Ended, IsResult
  <2> QED
    BY <2>2, <2>3, <2>4, OwnReplies
<1> QED
  BY <1>1, Invariance, PTL

\* No caller is told that a name is free but on a last reply without a record
\* and without an error, nor that the resolver serves this registry but on a
\* status with its viewing key; and no Rust caller on a reply to another call.
THEOREM AssurancesRestOnReplies == Spec => []AssurancesAreAnswered
<1>1. SdkAssumption /\ IInv => AssurancesAreAnswered
  <2> SUFFICES ASSUME SdkAssumption, IInv, NEW c \in Call,
                      said[c] \in {"available", "verified"}
               PROVE  /\ replies[c] # << >>
                      /\ sdk = "rust" => Last(replies[c]).of = c
                      /\ IF said[c] = "verified" THEN Last(replies[c]).kind = "result"
                         ELSE Last(replies[c]).kind \in {"null", "missing"}
    BY DEF AssurancesAreAnswered
  <2>1. Ended(c)
    BY NoNameFacts DEF IInv, CallSound, Unmade, Refused, Waiting
  <2>2. Len(replies[c]) # 0 /\ id[c] # 0
    BY <2>1 DEF Ended
  <2>3. PICK r \in ReplyType : /\ r = Last(replies[c]) /\ r = replies[c][Len(replies[c])]
                               /\ Genuine(c, r)
    BY <2>2, LastReply
  <2>4. IsResult(c, r) /\ said[c] = Outcome(c, r)
    BY <2>1, <2>3 DEF Ended
  <2>5. sdk = "rust" => r.of = c
    BY <2>2, <2>3, <2>4, OwnReplies DEF IsResult
  <2>6. /\ said[c] = "available" => Null(r)
        /\ said[c] = "verified" => r.kind = "result"
    BY <2>2, <2>3, <2>4, EndIsRead
  <2> QED
    BY <2>2, <2>3, <2>5, <2>6 DEF Null
<1>2. SdkAssumption
  BY SdkAssumption DEF SdkAssumption
<1> QED
  BY <1>1, <1>2, Invariance, PTL

\* A call that was given up stays at its endpoint whatever comes.
THEOREM AbortStops == Spec => AbortIsFinal
<1>1. IInv /\ [Next]_vars => [\A c \in Call : aborted[c] => at'[c] = at[c]]_vars
  <2> SUFFICES ASSUME IInv, Next, NEW c \in Call, aborted[c] PROVE at'[c] = at[c]
    OBVIOUS
  <2>1. TypeOK
    BY DEF IInv
  <2>2. ASSUME NEW d \in Call, Start(d) PROVE at'[c] = at[c]
    <3>1. d # c
      BY <2>2 DEF Start, IInv, CallSound, Unmade, Refused, Waiting, Ended
    <3> QED
      BY <2>1, <2>2, <3>1 DEF Start, TypeOK
  <2>3. ASSUME NEW d \in Call, NEW r, Conclude(d, r) PROVE at'[c] = at[c]
    BY <2>1, <2>3 DEF Conclude, IsFinal, Return, MoveOn, TypeOK
  <2> QED
    BY <2>2, <2>3 DEF Next, RefuseName, Return, Receive, TimesOut, Cancelled, Abort,
       Done, vars
<1> QED
  BY <1>1, Invariance, PTL DEF Spec, AbortIsFinal
=============================================================================
