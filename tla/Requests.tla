------------------------------ MODULE Requests ------------------------------
(***************************************************************************)
(* A request to the mint, from the form in one wallet to the payment in    *)
(* another, and the mint's challenge: src/sdk/rust/src/memo.rs and         *)
(* zip321.rs beside it.                                                    *)
(*                                                                         *)
(* A text is a sequence of symbols: words of letters and digits,           *)
(* delimiters, and the percent escape ("%" before it) and the base64 form  *)
(* ("~" before it) of a symbol.  Lengths count symbols, and which words    *)
(* are addresses (a checksum) is a constant.                               *)
(*                                                                         *)
(* Whoever carries a URI is external, and may write the same payment in    *)
(* any other form that the parser's documentation accepts.                 *)
(***************************************************************************)
EXTENDS Naturals, SequencesExt

CONSTANTS
  Lower,        \* words of lowercase letters and digits
  Upper,        \* words with an uppercase letter
  Unified,      \* words that are unified addresses
  Transparent,  \* words that start with a t
  SixDigits,    \* words of six digits
  Digit,        \* the digits, from zero
  MaxWhole,     \* the digits of 21000000
  Decimals,     \* 8
  MaxYears,     \* 99
  MaxMemo,      \* 512
  Forever, None,
  Form,         \* pairs of a request and the target it is paid to
  Challenge,    \* the texts that may arrive as a challenge
  MaxRewrites   \* bound: rewrites of one URI

Encoded(s) == "~" \o s
Escaped(s) == "%" \o s

Word      == Lower \cup Upper
Delimiter == {":", "?", "&", "=", "+", " ", "NUL", "."}
Plain     == Word \cup Delimiter
Base64    == {Encoded(s) : s \in Plain}
Scheme    == {"zcash:", "ZCASH:"}
Text      == Seq(Plain)

\* What the four builders take.  A term may be one they refuse.
Request ==
  [kind : {"claim"}, name : Text, ua : Text, term : Nat \cup {Forever}, code : Text \cup {None},
   action : {None}] \cup
  [kind : {"update"}, name : Text, ua : Text, term : Nat \cup {Forever, None}, code : {None},
   action : {None}] \cup
  [kind : {"release"}, name : Text, ua : Text, term : {None}, code : {None}, action : {None}] \cup
  [kind : {"otp"}, name : Text, ua : Text, term : {None}, code : Text,
   action : {"update", "release"}]

Target == [address : Text, amount : Text \cup {None}]

ASSUME RequestsAssumption ==
  /\ Unified \cup Transparent \cup SixDigits \subseteq Word
  /\ Unified \cap Transparent = {} /\ Word \cap Delimiter = {}
  /\ {"ZNS", "claim", "update", "release", "otp", "forever", "none", "y",
      "amount", "memo", "address", "label"} \subseteq Word
  /\ {Decimals, MaxYears, MaxMemo, MaxRewrites} \subseteq Nat
  /\ Form \subseteq Request \X Target /\ Challenge \subseteq Text

\* Numerals and digits are words, one for each number.
ASSUME NumeralAssumption ==
  /\ \A i, j \in 1..MaxYears :
       ToString(i) \in Word /\ (i # j => ToString(i) # ToString(j))
  /\ Digit \in Seq(Lower) /\ Len(Digit) > 0 /\ Digit[1] = "0"
  /\ \A i, j \in DOMAIN Digit : i # j => Digit[i] # Digit[j]
  /\ MaxWhole \in Seq(ToSet(Digit)) /\ Len(MaxWhole) > 0 /\ MaxWhole[1] # "0"

\* A mark says what it was put before, and is no symbol without it.
ASSUME MarkAssumption ==
  /\ \A s, t \in Plain : s # t => Encoded(s) # Encoded(t)
  /\ \A s, t \in Plain \cup Base64 : s # t => Escaped(s) # Escaped(t)
  /\ \A s \in Plain \cup Base64 :
       Escaped(s) \notin Plain \cup Base64 \cup Scheme /\ s \notin Scheme
  /\ Plain \cap Base64 = {}

VARIABLES
  stage,     \* "form", "memo", "uri", "opened", "answered" or "refused"
  request,   \* what is asked of the mint
  target,    \* the address and the amount that go with it
  text,      \* the memo, or the challenge that arrived
  uri,       \* the payment URI on its way
  rewrites,  \* how often it was rewritten
  payment    \* what the paying wallet reads in it

vars == <<stage, request, target, text, uri, rewrites, payment>>

-----------------------------------------------------------------------------
(* Texts.                                                                  *)

Joined(parts, d) ==
  FlattenSeq([i \in DOMAIN parts |-> IF i = 1 THEN parts[i] ELSE <<d>> \o parts[i]])

Split(t, d) ==
  LET upTo[n \in 0..Len(t)] ==
        IF n = 0 THEN << << >> >>
        ELSE LET parts == upTo[n - 1]
             IN  IF t[n] = d THEN Append(parts, << >>)
                 ELSE [parts EXCEPT ![Len(parts)] = Append(@, t[n])]
  IN  upTo[Len(t)]

SplitOnce(t, d) ==
  LET left == Split(t, d)[1] IN <<left, SubSeq(t, Len(left) + 2, Len(t))>>

TrimStart(t, d) == SubSeq(t, 1 + Cardinality({i \in DOMAIN t : \A j \in 1..i : t[j] = d}), Len(t))
TrimEnd(t, d)   == SubSeq(t, 1, Len(t) - Cardinality({i \in DOMAIN t : \A j \in i..Len(t) : t[j] = d}))
Trim(t)         == TrimEnd(TrimStart(t, " "), " ")

-----------------------------------------------------------------------------
(* memo.rs.  A request has a kind, the name and the address it is about, a *)
(* term (a claim has one, an update may), a code (a challenge has one, a   *)
(* claim may) and the action a challenge is about.                         *)

IsName(t)    == t # << >> /\ ToSet(t) \subseteq Lower
IsUnified(t) == \E w \in Unified : t = <<w>>
IsCode(t)    == \E w \in SixDigits : t = <<w>>
IsTerm(term) == term = Forever \/ term \in 1..MaxYears

\* Mutant: it is only checked that there is a name and an address.
check_presence(name, ua) == name # << >> /\ ua # << >>

check(name, ua) == IsName(name) /\ IsUnified(ua)

Buildable(r) ==
  /\ check(r.name, r.ua)
  /\ r.kind = "claim"  => IsTerm(r.term) /\ (r.code = None \/ IsCode(r.code))
  /\ r.kind = "update" => IsTerm(r.term) \/ r.term = None
  /\ r.kind = "otp"    => IsCode(r.code)

TermField(term) ==
  IF term = Forever THEN <<"forever">>
  ELSE IF term = None THEN <<"none">> ELSE <<ToString(term), "y">>

\* What the builders put between colons.
Parts(r) ==
  CASE r.kind = "claim" /\ r.code = None ->
         << <<"ZNS">>, <<"claim">>, TermField(r.term), r.name, r.ua >>
    [] r.kind = "claim" /\ r.code # None ->
         << <<"ZNS">>, <<"claim">>, r.code, TermField(r.term), r.name, r.ua >>
    [] r.kind = "update"  -> << <<"ZNS">>, <<"update">>, TermField(r.term), r.name, r.ua >>
    [] r.kind = "release" -> << <<"ZNS">>, <<"release">>, r.name, r.ua >>
    [] r.kind = "otp"     ->
         << <<"ZNS">>, <<"otp">>, r.code, r.name, <<r.action>>, r.ua >>

Memo(r) == Joined(Parts(r), ":")

\* Mutant: what follows the sixth part is ignored.
HasOtpPrefix(part) == Len(part) >= 6 /\ part[1] = <<"ZNS">> /\ part[2] = <<"otp">>

HasOtpParts(part) == Len(part) = 6 /\ part[1] = <<"ZNS">> /\ part[2] = <<"otp">>

parse_otp_memo(t) ==
  LET part == Split(TrimEnd(t, "NUL"), ":")
  IN  IF /\ HasOtpParts(part) /\ IsCode(part[3]) /\ check(part[4], part[6])
         /\ part[5] \in {<<"update">>, <<"release">>}
      THEN [kind |-> "otp", code |-> part[3], name |-> part[4], action |-> part[5][1],
            ua |-> part[6], term |-> None]
      ELSE None

-----------------------------------------------------------------------------
(* zip321.rs.                                                              *)

IsNumber(t) == t # << >> /\ ToSet(t) \subseteq ToSet(Digit)

Value(digit) == (CHOOSE i \in DOMAIN Digit : Digit[i] = digit) - 1

\* The order of strings of one length.
Less(s, t) ==
  \E i \in DOMAIN s : SubSeq(s, 1, i - 1) = SubSeq(t, 1, i - 1) /\ Value(s[i]) < Value(t[i])

\* Mutant: the fraction does not count at the limit.
AtMostMaxWhole(whole, fraction) ==
  \/ Len(whole) < Len(MaxWhole)
  \/ Len(whole) = Len(MaxWhole) /\ ~Less(MaxWhole, whole)

\* Digits are compared, not numbers.
AtMostMax(whole, fraction) ==
  \/ Len(whole) < Len(MaxWhole)
  \/ /\ Len(whole) = Len(MaxWhole)
     /\ Less(whole, MaxWhole) \/ (whole = MaxWhole /\ ToSet(fraction) \subseteq {"0"})

valid_amount(t) ==
  LET part == SplitOnce(t, ".")
  IN  /\ IsNumber(part[1])
      /\ "." \in ToSet(t) => IsNumber(part[2]) /\ Len(part[2]) <= Decimals
      /\ AtMostMax(TrimStart(part[1], "0"), part[2])

to_base64_url(t) == [i \in DOMAIN t |-> Encoded(t[i])]

\* What is not base64 decodes to nothing.
decode_base64_url(t) ==
  IF ToSet(t) \subseteq Base64
  THEN [i \in DOMAIN t |-> CHOOSE s \in Plain : t[i] = Encoded(s)] ELSE << >>

\* A memo of a request is never empty.
Linkable(to, memo) ==
  /\ to.address # << >> /\ ToSet(to.address) \subseteq Word
  /\ to.amount # None => valid_amount(to.amount)
  /\ Head(to.address) \notin Transparent /\ Len(memo) <= MaxMemo

Param(key, value) == <<key, "=">> \o value
Uri(scheme, path, query) == scheme \o (path \o <<"?">> \o query)

build_zip321_uri(to, memo) ==
  LET amount == IF to.amount = None THEN << >> ELSE << Param("amount", to.amount) >>
  IN  Uri(<<"zcash:">>, to.address,
          Joined(Append(amount, Param("memo", to_base64_url(memo))), "&"))

decode_component(t) ==
  [i \in DOMAIN t |->
     IF t[i] = "+" THEN " "
     ELSE IF \E s \in Plain \cup Base64 : t[i] = Escaped(s)
     THEN CHOOSE s \in Plain \cup Base64 : t[i] = Escaped(s)
     ELSE t[i]]

\* Mutant: the query is decoded, then split.
DecodedFields(query) ==
  LET params == Split(decode_component(query), "&")
  IN  [i \in {j \in DOMAIN params : params[j] # << >>} |-> SplitOnce(params[i], "=")]

\* The keys and values of a query, at their places: split, then decoded.
QueryFields(query) ==
  LET params == Split(query, "&")
  IN  [i \in {j \in DOMAIN params : params[j] # << >>} |->
         LET pair == SplitOnce(params[i], "=")
         IN  <<decode_component(pair[1]), decode_component(pair[2])>>]

\* The first field of a key counts.
FirstField(fields, key) ==
  LET found == {i \in DOMAIN fields : fields[i][1] = <<key>>}
  IN  IF found = {} THEN << >> ELSE Trim(fields[Min(found)][2])

WithoutScheme(t) == IF t # << >> /\ t[1] \in Scheme THEN Tail(t) ELSE t

parse_zip321_uri(t) ==
  LET split  == SplitOnce(WithoutScheme(t), "?")
      path   == Trim(split[1])
      fields == QueryFields(split[2])
  IN  [address |-> IF path = << >> THEN FirstField(fields, "address") ELSE path,
       amount  |-> FirstField(fields, "amount"),
       memo_decoded |-> decode_base64_url(FirstField(fields, "memo"))]

-----------------------------------------------------------------------------
(* The two wallets and what is between them.                               *)

Init ==
  /\ stage = "form" /\ request = None /\ target = None
  /\ text = << >> /\ uri = << >> /\ rewrites = 0 /\ payment = None

\* A form is filled in; build_claim_memo and its three siblings.
WriteMemo(f) ==
  /\ stage = "form"
  /\ request' = f[1] /\ target' = f[2]
  /\ IF Buildable(f[1]) THEN stage' = "memo" /\ text' = Memo(f[1])
     ELSE stage' = "refused" /\ UNCHANGED text
  /\ UNCHANGED <<uri, rewrites, payment>>

Link ==
  /\ stage = "memo"
  /\ IF Linkable(target, text) THEN stage' = "uri" /\ uri' = build_zip321_uri(target, text)
     ELSE stage' = "refused" /\ UNCHANGED uri
  /\ UNCHANGED <<request, target, text, rewrites, payment>>

\* Other forms of the same payment: another scheme or none, the address in
\* the query, an escape, a space, a field again, a field nobody knows.
Requeried(query) ==
  {[query EXCEPT ![i] = Escaped(@)] :
     i \in {j \in DOMAIN query : query[j] \in (Plain \cup Base64) \ Delimiter}} \cup
  {Append(query, "+"), <<"&">> \o query,
   Param("label", <<Escaped("&"), "amount", Escaped("="), "0">>) \o <<"&">> \o query} \cup
  {query \o <<"&">> \o Param(key, <<"0">>) :
     key \in {k \in {"amount", "memo", "address"} :
                k = "address" \/ FirstField(QueryFields(query), k) # << >>}}

Rewritten(t) ==
  LET scheme == IF t # << >> /\ t[1] \in Scheme THEN <<t[1]>> ELSE << >>
      split  == SplitOnce(WithoutScheme(t), "?")
      path   == split[1]
      query  == split[2]
  IN  {Uri(other, path, query) : other \in {<<"ZCASH:">>, << >>}} \cup
      {Uri(scheme, path, other) : other \in Requeried(query)} \cup
      (IF path = << >> THEN {}
       ELSE {Uri(scheme, << >>, Param("address", path) \o <<"&">> \o query)})

Carry ==
  /\ stage = "uri" /\ rewrites < MaxRewrites
  /\ uri' \in Rewritten(uri) /\ rewrites' = rewrites + 1
  /\ UNCHANGED <<stage, request, target, text, payment>>

Open ==
  /\ stage = "uri"
  /\ stage' = "opened" /\ payment' = parse_zip321_uri(uri)
  /\ UNCHANGED <<request, target, text, uri, rewrites>>

\* A challenge is read; what is read is built again and sent back.
Answer(t) ==
  /\ stage = "form"
  /\ text' = t /\ request' = parse_otp_memo(t)
  /\ stage' = IF request' = None THEN "refused" ELSE "answered"
  /\ UNCHANGED <<target, uri, rewrites, payment>>

Close ==
  /\ stage \in {"opened", "answered", "refused"}
  /\ stage' = "form" /\ request' = None /\ target' = None
  /\ text' = << >> /\ uri' = << >> /\ rewrites' = 0 /\ payment' = None

Next ==
  \/ \E f \in Form : WriteMemo(f)
  \/ Link \/ Carry \/ Open \/ Close
  \/ \E t \in Challenge : Answer(t)

Spec == Init /\ [][Next]_vars

-----------------------------------------------------------------------------
(* Properties.                                                             *)

\* A memo is the memo of one request: no name that looks like a term, a
\* code or a keyword makes two requests read alike, and none makes a request
\* read as an answer to a challenge (the builders and check, memo.rs:49).
OneReading ==
  stage = "memo" =>
    /\ \A f \in Form : Buildable(f[1]) /\ Memo(f[1]) = text => f[1] = request
    /\ parse_otp_memo(text) = IF request.kind = "otp" THEN request ELSE None

\* Through every rewriting of the URI the paying wallet reads the address,
\* the amount and the memo that were put in it (build_zip321_uri,
\* parse_zip321_uri): no escaped delimiter adds a field, no later field
\* replaces an earlier one.
PaymentArrives ==
  stage = "opened" =>
    payment = [address |-> target.address,
               amount  |-> IF target.amount = None THEN << >> ELSE target.amount,
               memo_decoded |-> text]

\* The number that digits denote.
Number(t) ==
  LET upTo[n \in 0..Len(t)] ==
        IF n = 0 THEN 0 ELSE Len(Digit) * upTo[n - 1] + Value(t[n])
  IN  upTo[Len(t)]

\* The number a text of digits with one point is, in units of the last
\* decimal place.
Units(t) ==
  LET part == SplitOnce(t, ".")
  IN  Number(part[1] \o part[2] \o [i \in 1..(Decimals - Len(part[2])) |-> "0"])

\* Digits with at most one point between them, at most so many after it, and
\* as a number not above the supply.
IsWithinSupply(t) ==
  /\ \A p \in ToSet(Split(t, ".")) : IsNumber(p)
  /\ Len(Split(t, ".")) <= 2
  /\ Len(SplitOnce(t, ".")[2]) <= Decimals
  /\ Units(t) <= Units(MaxWhole)

\* The accepted amounts are the decimal numbers of at most that many places
\* that do not exceed the supply: what is linked has such an amount, and what
\* is refused with nothing else wrong has none.  The comparison of digits in
\* valid_amount is the comparison of the numbers.
AmountsAreWithinSupply ==
  /\ stage = "uri" /\ target.amount # None => IsWithinSupply(target.amount)
  /\ /\ stage = "refused" /\ target # None /\ Buildable(request)
     /\ IsUnified(target.address) /\ target.amount # None /\ Len(text) <= MaxMemo
     => ~IsWithinSupply(target.amount)

\* "the wallet sends the same text back" (memo.rs:95): what is read in a
\* challenge and built again is the challenge, less its padding.
EchoIsChallenge == stage = "answered" => Memo(request) = TrimEnd(text, "NUL")
=============================================================================
