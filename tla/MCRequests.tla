----------------------------- MODULE MCRequests -----------------------------
(***************************************************************************)
(* An instance of Requests: names that look like terms, codes, keywords    *)
(* and pieces of memos; every amount of up to five symbols in base three,  *)
(* with a supply of 21 and two decimal places.                             *)
(***************************************************************************)
EXTENDS Requests

MCDigit == <<"0", "1", "2">>
MCMaxWhole == <<"2", "1">>
MCLower == {"0", "1", "2", "y", "123456", "alice", "claim", "update", "release", "otp",
            "forever", "none", "u1", "t1", "amount", "memo", "address", "label", "zns"}

MCName == {<<"alice">>, <<"123456">>, <<"forever">>, <<"1", "y">>, <<"otp">>, <<"ZNS">>, << >>,
           <<"alice", ":", "u1">>, <<"alice", ":", "update", ":", "u1">>, <<"none", ":", "alice">>}
MCUa   == {<<"u1">>, <<"alice">>, <<"alice", ":", "u1">>, <<"u1", ":", "update", ":", "u1">>}
MCCode == {<<"123456">>, <<"1">>, <<"123456", ":", "1", "y">>}

R(kind, term, code, action) ==
  {[kind |-> kind, name |-> n, ua |-> u, term |-> term, code |-> code, action |-> action] :
     n \in MCName, u \in MCUa}

MCRequest ==
  UNION {R("claim", t, c, None) : t \in {0, 1, 3, Forever}, c \in MCCode \cup {None}} \cup
  UNION {R("update", t, None, None) : t \in {0, 2, Forever, None}} \cup
  R("release", None, None, None) \cup
  UNION {R("otp", None, c, a) : c \in MCCode, a \in {"update", "release"}}

Release ==
  [kind |-> "release", name |-> <<"alice">>, ua |-> <<"u1">>, term |-> None, code |-> None,
   action |-> None]

Pay(address, amount) == [address |-> address, amount |-> amount]

MCTarget ==
  {Pay(a, m) : a \in {<<"u1">>, <<"t1">>, << >>, <<"u1", "?">>, <<"u1", "&">>, <<"alice">>},
               m \in {None, <<"1">>}} \cup
  {Pay(<<"u1">>, m) : m \in BoundedSeq({"0", "1", "2", "."}, 5)}

MCForm == (MCRequest \X {Pay(<<"u1">>, <<"1">>)}) \cup ({Release} \X MCTarget)

\* Challenges of the mint, padded or not, and texts that are nearly one.
MCChallenge ==
  UNION {{Joined(p, ":"), Joined(p, ":") \o <<"NUL", "NUL">>, Joined(p, ":") \o <<"NUL", ":">>,
          Joined(p, ":") \o <<":", "u1">>, <<" ">> \o Joined(p, ":")} :
     p \in {<<"ZNS">>, <<"zns">>} \X {<<"otp">>, <<"claim">>} \X {<<"123456">>, <<"1">>, << >>} \X
           {<<"alice">>, <<"ZNS">>} \X {<<"update">>, <<"release">>, <<"claim">>} \X
           {<<"u1">>, <<"alice">>}}
=============================================================================
