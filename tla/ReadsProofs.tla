---------------------------- MODULE ReadsProofs ----------------------------
(***************************************************************************)
(* Proofs about the reads of the API, for every value of the constants: a  *)
(* follower of the events misses none and a listing of names has no gap,   *)
(* whatever is committed between two pages; what `resolve` and `events`    *)
(* say of a name is one story.                                             *)
(*                                                                         *)
(* A page is a range of ranks in an ordered set, so what a client has been *)
(* given is told by ranks: ranks grow as the set grows, and what enters    *)
(* the log while a traversal lasts is above all that was there.  That it   *)
(* is, for any commit that keeps the branch of the one before it, follows  *)
(* from the tables being those of their branch (LedgerProofs).             *)
(***************************************************************************)
EXTENDS LedgerProofs, ApiReads

-----------------------------------------------------------------------------
(* Ranks in a finite ordered set.                                          *)

Below(S, R, s) == {t \in S : <<t, s>> \in R}

Rank(S, R, s) == Cardinality(Below(S, R, s))

\* R orders the finite set S.
Orders(R, S) ==
  /\ IsFiniteSet(S)
  /\ \A s \in S : <<s, s>> \notin R
  /\ \A s, t, u \in S : <<s, t>> \in R /\ <<t, u>> \in R => <<s, u>> \in R
  /\ \A s, t \in S : s = t \/ <<s, t>> \in R \/ <<t, s>> \in R

\* The elements by rank, from 1.
Enumeration(S, R) ==
  [i \in 1..Cardinality(S) |-> CHOOSE s \in S : Rank(S, R, s) = i - 1]

\* A rank is less than the size of the set, and grows with the order.
LEMMA RankGrows ==
  ASSUME NEW S, NEW R, Orders(R, S), NEW s \in S
  PROVE  /\ Cardinality(S) \in Nat /\ Rank(S, R, s) \in 0..(Cardinality(S) - 1)
         /\ \A t \in S : <<t, s>> \in R => Rank(S, R, t) < Rank(S, R, s)
<1>1. /\ IsFiniteSet(S) /\ <<s, s>> \notin R
      /\ \A t, u \in S : <<t, u>> \in R /\ <<u, s>> \in R => <<t, s>> \in R
      /\ \A t \in S : <<t, t>> \notin R
  BY DEF Orders
<1>2. ASSUME NEW X \in SUBSET S
      PROVE  IsFiniteSet(X) /\ Cardinality(X) \in Nat
  BY <1>1, FS_Subset, FS_CardinalityType
<1>3. ASSUME NEW X \in SUBSET S, NEW Y \in SUBSET X, X # Y
      PROVE  Cardinality(Y) < Cardinality(X)
  <2>1. /\ IsFiniteSet(X) /\ Cardinality(X) \in Nat /\ Cardinality(Y) \in Nat
    BY <1>2
  <2>2. Cardinality(Y) <= Cardinality(X) /\ Cardinality(X) # Cardinality(Y)
    BY <1>3, <2>1, FS_Subset
  <2> QED
    BY <2>1, <2>2
<1>4. Rank(S, R, s) \in 0..(Cardinality(S) - 1)
  <2>1. Below(S, R, s) \in SUBSET S /\ s \notin Below(S, R, s)
    BY <1>1 DEF Below
  <2>2. Rank(S, R, s) < Cardinality(S) /\ Rank(S, R, s) \in Nat
    BY <1>2, <1>3, <2>1 DEF Rank
  <2> QED
    BY <1>2, <2>2
<1>5. ASSUME NEW t \in S, <<t, s>> \in R
      PROVE  Rank(S, R, t) < Rank(S, R, s)
  <2>1. /\ Below(S, R, s) \in SUBSET S /\ Below(S, R, t) \in SUBSET Below(S, R, s)
        /\ t \in Below(S, R, s) /\ t \notin Below(S, R, t)
    BY <1>1, <1>5 DEF Below
  <2> QED
    BY <1>3, <2>1 DEF Rank
<1> QED
  BY <1>2, <1>4, <1>5

\* Every rank up to the size of the set is that of one element.
LEMMA RanksAreAll ==
  ASSUME NEW S, NEW R, Orders(R, S)
  PROVE  /\ \A s, t \in S : Rank(S, R, s) = Rank(S, R, t) => s = t
         /\ \A i \in 0..(Cardinality(S) - 1) : \E s \in S : Rank(S, R, s) = i
<1> DEFINE n == Cardinality(S)
           r == [s \in S |-> Rank(S, R, s)]
<1>1. IsFiniteSet(S) /\ n \in Nat
  BY FS_CardinalityType DEF Orders
<1>2. ASSUME NEW s \in S, NEW t \in S, Rank(S, R, s) = Rank(S, R, t)
      PROVE  s = t
  <2>1. Rank(S, R, s) \in 0..(n - 1)
    BY RankGrows
  <2>2. <<s, t>> \notin R /\ <<t, s>> \notin R
    <3>1. <<s, t>> \in R => Rank(S, R, s) < Rank(S, R, t)
      BY RankGrows
    <3>2. <<t, s>> \in R => Rank(S, R, t) < Rank(S, R, s)
      BY RankGrows
    <3> QED
      BY <1>1, <1>2, <2>1, <3>1, <3>2
  <2> QED
    BY <2>2 DEF Orders
<1>3. r \in Injection(S, 0..(n - 1))
  <2>1. r \in [S -> 0..(n - 1)]
    BY RankGrows
  <2> QED
    BY <1>2, <2>1 DEF Injection, IsInjective
<1>4. IsFiniteSet(0..(n - 1)) /\ Cardinality(0..(n - 1)) = n
  <2>1. 0 \in Int /\ n - 1 \in Int
    BY <1>1
  <2> HIDE DEF n
  <2> QED
    BY <1>1, <2>1, FS_Interval
<1>5. r \in Surjection(S, 0..(n - 1))
  <2> HIDE DEF r
  <2> QED
    BY <1>3, <1>4, FS_Injection
<1>6. \A i \in 0..(n - 1) : \E s \in S : Rank(S, R, s) = i
  BY <1>5 DEF Surjection
<1> QED
  BY <1>2, <1>6

\* So an enumeration has every element at its rank.
LEMMA EnumerationIs ==
  ASSUME NEW S, NEW R, Orders(R, S)
  PROVE  /\ Cardinality(S) \in Nat
         /\ Enumeration(S, R) \in Seq(S) /\ Len(Enumeration(S, R)) = Cardinality(S)
         /\ \A i \in 1..Cardinality(S) :
              Enumeration(S, R)[i] \in S /\ Rank(S, R, Enumeration(S, R)[i]) = i - 1
         /\ \A s \in S : /\ Rank(S, R, s) + 1 \in 1..Cardinality(S)
                         /\ Enumeration(S, R)[Rank(S, R, s) + 1] = s
<1> DEFINE n == Cardinality(S)
           f == Enumeration(S, R)
<1>1. n \in Nat
  BY FS_CardinalityType DEF Orders
<1>2. ASSUME NEW i \in 1..n PROVE f[i] \in S /\ Rank(S, R, f[i]) = i - 1
  <2>1. i - 1 \in 0..(n - 1)
    BY <1>1
  <2>2. \E s \in S : Rank(S, R, s) = i - 1
    BY <2>1, RanksAreAll
  <2>3. f[i] = CHOOSE s \in S : Rank(S, R, s) = i - 1
    BY DEF Enumeration
  <2> HIDE DEF f
  <2> QED
    BY <2>2, <2>3
<1>3. f \in Seq(S) /\ Len(f) = n
  <2>1. DOMAIN f = 1..n /\ f = [i \in 1..n |-> f[i]]
    BY DEF Enumeration
  <2> HIDE DEF f, n
  <2>2. f \in [1..n -> S]
    BY <1>2, <2>1
  <2> QED
    BY <1>1, <2>1, <2>2
<1>4. ASSUME NEW s \in S
      PROVE  Rank(S, R, s) + 1 \in 1..n /\ f[Rank(S, R, s) + 1] = s
  <2>1. Rank(S, R, s) \in 0..(n - 1)
    BY RankGrows
  <2>2. Rank(S, R, s) + 1 \in 1..n
    BY <1>1, <2>1
  <2>3. Rank(S, R, f[Rank(S, R, s) + 1]) = Rank(S, R, s) /\ f[Rank(S, R, s) + 1] \in S
    BY <1>1, <1>2, <2>1, <2>2
  <2> QED
    BY <2>2, <2>3, RanksAreAll
<1> QED
  BY <1>1, <1>2, <1>3, <1>4

\* In a larger set an element has no smaller rank.
LEMMA RankOfLarger ==
  ASSUME NEW S, NEW T, NEW R, NEW Q, NEW s \in S, S \subseteq T, IsFiniteSet(T),
         \A t \in S : <<t, s>> \in R => <<t, s>> \in Q
  PROVE  /\ Rank(S, R, s) <= Rank(T, Q, s)
         /\ Rank(S, R, s) \in Nat /\ Rank(T, Q, s) \in Nat
<1>1. Below(S, R, s) \in SUBSET Below(T, Q, s)
  BY DEF Below
<1>2. IsFiniteSet(Below(T, Q, s))
  BY FS_Subset DEF Below
<1> QED
  BY <1>1, <1>2, FS_Subset, FS_CardinalityType DEF Rank

-----------------------------------------------------------------------------
(* What is served.                                                         *)

\* What the events table and the joined releases put in the log.
LEMMA ServedIs ==
  ASSUME NEW b \in Branch, NEW t, Good(t, b)
  PROVE  /\ \A e \in t.events :
              /\ NameEvent(e) \in Served(t) /\ NameEvent(e).at = e.at
              /\ NameEvent(e).name = e.note.name /\ NameEvent(e).action = e.note.action
              /\ NameEvent(e).height = e.at[1] /\ NameEvent(e).txid = e.txid
              /\ NameEvent(e).address = UaOf[e.note.rcm]
         /\ \A i \in t.implicit : \A e \in BindingEvents(t, i) :
              ReleaseEvent(e, i) \in Served(t) /\ e \in t.events /\ e.note.name = i.name
         /\ \A i \in t.implicit : \A e \in t.events : e.note.name = i.name =>
              ReleaseEvent(e, i) = [name |-> i.name, address |-> UaOf[e.note.rcm],
                txid |-> i.txid, height |-> i.at[1], action |-> "release", at |-> i.at]
         /\ \A s \in Served(t) :
              \/ \E e \in t.events : s = NameEvent(e)
              \/ \E i \in t.implicit : \E e \in BindingEvents(t, i) : s = ReleaseEvent(e, i)
<1>1. \A i \in t.implicit : \A e \in BindingEvents(t, i) : e \in t.events /\ e.note.name = i.name
  BY DEF BindingEvents
<1>2. \A i \in t.implicit : \A e \in t.events : e.note.name = i.name =>
              ReleaseEvent(e, i) = [name |-> i.name, address |-> UaOf[e.note.rcm],
                txid |-> i.txid, height |-> i.at[1], action |-> "release", at |-> i.at]
  <2> SUFFICES ASSUME NEW i \in t.implicit, NEW e \in t.events, e.note.name = i.name
               PROVE  ReleaseEvent(e, i) = [name |-> i.name, address |-> UaOf[e.note.rcm],
                txid |-> i.txid, height |-> i.at[1], action |-> "release", at |-> i.at]
    OBVIOUS
  <2> DEFINE a == UaOf[e.note.rcm]
  <2>1. NameEvent(e) = [name |-> i.name, address |-> a, txid |-> e.txid,
                        height |-> e.at[1], action |-> e.note.action, at |-> e.at]
    BY DEF NameEvent
  <2> HIDE DEF a
  <2>2. PICK r, n, h, x, c, p, y, k, q :
           /\ r = NameEvent(e) /\ n = i.name /\ y = i.txid /\ k = i.at[1] /\ q = i.at
           /\ r = [name |-> n, address |-> a, txid |-> x, height |-> h, action |-> c, at |-> p]
    BY <2>1
  <2> DEFINE g == [f \in DOMAIN r |-> IF f = "txid" THEN y ELSE IF f = "height" THEN k
                     ELSE IF f = "action" THEN "release" ELSE IF f = "at" THEN q ELSE r[f]]
  <2>3. [r EXCEPT !.txid = y, !.height = k, !.action = "release", !.at = q] =
        [name |-> n, address |-> a, txid |-> y, height |-> k, action |-> "release", at |-> q]
    <3>1. [r EXCEPT !.txid = y, !.height = k, !.action = "release", !.at = q] = g
      BY <2>2
    <3>2. g = [name |-> n, address |-> a, txid |-> y, height |-> k,
               action |-> "release", at |-> q]
      BY <2>2
    <3> QED
      BY <3>1, <3>2
  <2>4. ReleaseEvent(e, i) = [name |-> i.name, address |-> a,
                txid |-> i.txid, height |-> i.at[1], action |-> "release", at |-> i.at]
    BY <2>2, <2>3 DEF ReleaseEvent
  <2> QED
    BY <2>4 DEF a
<1>3. \A e \in t.events :
              /\ NameEvent(e).at = e.at
              /\ NameEvent(e).name = e.note.name /\ NameEvent(e).action = e.note.action
              /\ NameEvent(e).height = e.at[1] /\ NameEvent(e).txid = e.txid
              /\ NameEvent(e).address = UaOf[e.note.rcm]
  BY DEF NameEvent
<1>4. /\ \A e \in t.events : NameEvent(e) \in Served(t)
      /\ \A i \in t.implicit : \A e \in BindingEvents(t, i) : ReleaseEvent(e, i) \in Served(t)
      /\ \A s \in Served(t) :
              \/ \E e \in t.events : s = NameEvent(e)
              \/ \E i \in t.implicit : \E e \in BindingEvents(t, i) : s = ReleaseEvent(e, i)
  BY DEF Served
<1> QED
  BY <1>1, <1>2, <1>3, <1>4

\* A served event stands where a record of its name was mined.
LEMMA ServedFields ==
  ASSUME NEW b \in Branch, NEW t, Good(t, b), HistorySound(t, b, Mined(b)), NEW s \in Served(t)
  PROVE  /\ s.at \in Mined(b) /\ s.at \in Position /\ s.height = s.at[1] /\ s.name \in Name
         /\ s.at \in RecordsOf(t, s.name)
         /\ s.height \in 1..Len(b)
<1>1. /\ \A e \in t.events : e.at \in Mined(b) /\ e.at \in Position /\ e.note.name \in Name
      /\ \A i \in t.implicit : i.at \in Mined(b) /\ i.at \in Position /\ i.name \in Name
  BY RecordTypes DEF HistorySound, Placed
<1>2. s.at \in Mined(b) => s.at[1] \in 1..Len(b)
  BY MinedPositions
<1>3. CASE \E e \in t.events : s = NameEvent(e)
  BY <1>1, <1>2, <1>3, ServedIs DEF RecordsOf
<1>4. CASE \E i \in t.implicit : \E e \in BindingEvents(t, i) : s = ReleaseEvent(e, i)
  <2>1. PICK i \in t.implicit : \E e \in BindingEvents(t, i) : s = ReleaseEvent(e, i)
    BY <1>4
  <2>2. PICK e \in BindingEvents(t, i) : s = ReleaseEvent(e, i)
    BY <2>1
  <2>3. s = [name |-> i.name, address |-> UaOf[e.note.rcm],
             txid |-> i.txid, height |-> i.at[1], action |-> "release", at |-> i.at]
    BY <2>2, ServedIs
  <2> QED
    BY <1>1, <1>2, <2>3 DEF RecordsOf
<1> QED
  BY <1>3, <1>4, ServedIs

\* The event a release is joined with is the last of its name before it.
LEMMA OneBinding ==
  ASSUME NEW b \in Branch, NEW t, Good(t, b), NEW i \in t.implicit,
         NEW e \in BindingEvents(t, i), NEW f \in BindingEvents(t, i)
  PROVE  e = f
<1>1. e \in t.events /\ f \in t.events /\ ~Before(e.at, f.at) /\ ~Before(f.at, e.at)
  BY DEF BindingEvents
<1>2. e.at \in Position /\ f.at \in Position /\ e \in Row /\ f \in Row
  BY <1>1, RecordTypes DEF Good, Tables
<1>3. e.at = f.at
  BY <1>1, <1>2, BeforeTotal
<1>4. e.note = f.note /\ e.txid = f.txid
  BY <1>1, <1>3, RecordTypes
<1> QED
  BY <1>2, <1>3, <1>4 DEF Row

\* One event is served for a name and a position.
LEMMA ServedOnce ==
  ASSUME NEW b \in Branch, NEW t, Good(t, b), HistorySound(t, b, Mined(b)),
         NEW s \in Served(t), NEW q \in Served(t), s.at = q.at, s.name = q.name
  PROVE  s = q
<1>1. \A e \in t.events, i \in t.implicit : e.at # i.at
  BY DEF HistorySound, Placed
<1>2. CASE (\E e \in t.events : s = NameEvent(e)) /\ (\E e \in t.events : q = NameEvent(e))
  <2>1. PICK e \in t.events : s = NameEvent(e)
    BY <1>2
  <2>2. PICK f \in t.events : q = NameEvent(f)
    BY <1>2
  <2>3. e.at = f.at /\ e \in Row /\ f \in Row
    BY <2>1, <2>2, ServedIs DEF Good, Tables
  <2>4. e.note = f.note /\ e.txid = f.txid
    BY <2>3, RecordTypes
  <2> QED
    BY <2>1, <2>2, <2>3, <2>4 DEF Row
<1>3. CASE /\ \E i \in t.implicit : \E e \in BindingEvents(t, i) : s = ReleaseEvent(e, i)
           /\ \E i \in t.implicit : \E e \in BindingEvents(t, i) : q = ReleaseEvent(e, i)
  <2>1. PICK i \in t.implicit : \E e \in BindingEvents(t, i) : s = ReleaseEvent(e, i)
    BY <1>3
  <2>2. PICK e \in BindingEvents(t, i) : s = ReleaseEvent(e, i)
    BY <2>1
  <2>3. PICK j \in t.implicit : \E f \in BindingEvents(t, j) : q = ReleaseEvent(f, j)
    BY <1>3
  <2>4. PICK f \in BindingEvents(t, j) : q = ReleaseEvent(f, j)
    BY <2>3
  <2>5. /\ s = [name |-> i.name, address |-> UaOf[e.note.rcm], txid |-> i.txid,
                height |-> i.at[1], action |-> "release", at |-> i.at]
        /\ q = [name |-> j.name, address |-> UaOf[f.note.rcm], txid |-> j.txid,
                height |-> j.at[1], action |-> "release", at |-> j.at]
    BY <2>2, <2>4, ServedIs
  <2>6. i.at = j.at /\ i.name = j.name
    BY <2>5
  <2>7. i.txid = j.txid
    BY <2>6 DEF Good, TablesOnBranch
  <2>8. f \in BindingEvents(t, i)
    BY <2>4, <2>6 DEF BindingEvents
  <2>9. e = f
    BY <2>8, OneBinding
  <2> QED
    BY <2>5, <2>6, <2>7, <2>9
<1>4. CASE \/ /\ \E e \in t.events : s = NameEvent(e)
              /\ \E i \in t.implicit : \E e \in BindingEvents(t, i) : q = ReleaseEvent(e, i)
           \/ /\ \E e \in t.events : q = NameEvent(e)
              /\ \E i \in t.implicit : \E e \in BindingEvents(t, i) : s = ReleaseEvent(e, i)
  <2>1. \A e \in t.events : NameEvent(e).at = e.at
    BY ServedIs
  <2>2. \A i \in t.implicit : \A e \in BindingEvents(t, i) : ReleaseEvent(e, i).at = i.at
    BY ServedIs
  <2> QED
    BY <1>1, <1>4, <2>1, <2>2
<1> QED
  BY <1>2, <1>3, <1>4, ServedIs

\* The log is finite.
LEMMA ServedIsFinite ==
  ASSUME NEW b \in Branch, NEW t, Good(t, b), HistorySound(t, b, Mined(b))
  PROVE  IsFiniteSet(Served(t)) /\ IsFiniteSet(t.events)
<1>1. IsFiniteSet(t.events)
  <2> DEFINE X == {e.at : e \in t.events}
             g == [p \in X |-> [note |-> TheNote(TxAt(p, b)), at |-> p, txid |-> TxAt(p, b).id]]
             R == {g[p] : p \in X}
  <2>1. IsFiniteSet(X)
    BY MinedIsFinite, FS_Subset DEF HistorySound, Placed
  <2>2. \A e \in t.events : e \in Row /\ e.note = TheNote(TxAt(e.at, b)) /\ e.txid = TxAt(e.at, b).id
    BY RecordTypes DEF Good, Tables
  <2>3. \A e \in t.events : e = g[e.at]
    BY <2>2 DEF Row
  <2>4. t.events \subseteq R
    <3> HIDE DEF g
    <3> QED
      BY <2>3
  <2>5. IsFiniteSet(R)
    <3>1. g \in [X -> R] /\ \A r \in R : \E p \in X : g[p] = r
      OBVIOUS
    <3> HIDE DEF R, g, X
    <3> QED
      BY <2>1, <3>1, FiniteImage
  <2> HIDE DEF R
  <2> QED
    BY <2>4, <2>5, FS_Subset
<1>2. IsFiniteSet({NameEvent(e) : e \in t.events})
  <2> DEFINE T == {NameEvent(e) : e \in t.events}
             g == [e \in t.events |-> NameEvent(e)]
  <2>1. g \in [t.events -> T] /\ \A r \in T : \E e \in t.events : g[e] = r
    OBVIOUS
  <2> HIDE DEF T, g
  <2>2. IsFiniteSet(T)
    BY <1>1, <2>1, FiniteImage
  <2> QED
    BY <2>2 DEF T
<1> DEFINE P == Mined(b) \X t.events
           Rel(p, e) == [name |-> e.note.name, address |-> UaOf[e.note.rcm],
                txid |-> TxAt(p, b).id, height |-> p[1], action |-> "release", at |-> p]
           J == {Rel(x[1], x[2]) : x \in P}
<1>3. IsFiniteSet(J)
  <2> DEFINE g == [x \in P |-> Rel(x[1], x[2])]
  <2>1. IsFiniteSet(P)
    BY <1>1, MinedIsFinite, FS_Product
  <2>2. g \in [P -> J] /\ \A r \in J : \E x \in P : g[x] = r
    OBVIOUS
  <2> HIDE DEF J, g, P
  <2> QED
    BY <2>1, <2>2, FiniteImage
<1>4. Served(t) \subseteq {NameEvent(e) : e \in t.events} \cup J
  <2> SUFFICES ASSUME NEW i \in t.implicit, NEW e \in BindingEvents(t, i)
               PROVE  ReleaseEvent(e, i) \in J
    BY ServedIs
  <2>1. i.at \in Mined(b) /\ i.txid = TxAt(i.at, b).id
    BY DEF HistorySound, Placed, Good, TablesOnBranch
  <2>2. e \in t.events /\ ReleaseEvent(e, i) = Rel(i.at, e)
    BY <2>1, ServedIs
  <2>3. <<i.at, e>> \in P
    BY <2>1, <2>2
  <2>4. Rel(<<i.at, e>>[1], <<i.at, e>>[2]) \in J
    <3> HIDE DEF P, Rel
    <3> QED
      BY <2>3
  <2> QED
    BY <2>2, <2>4
<1> HIDE DEF J
<1> QED
  BY <1>1, <1>2, <1>3, <1>4, FS_Union, FS_Subset

-----------------------------------------------------------------------------
(* The order of the log.                                                   *)

NewerOn(S) == {x \in S \X S : Newer(x[1], x[2])}

Log(t, name, action, since) ==
  {s \in Served(t) : s.height > since /\ Matches(s, name, action)}

\* The log is a total order, and the answer of `events` its enumeration.
LEMMA NewerOrders ==
  ASSUME NEW b \in Branch, NEW t, Good(t, b), HistorySound(t, b, Mined(b)),
         NEW S \in SUBSET Served(t)
  PROVE  Orders(NewerOn(S), S)
<1>1. IsFiniteSet(S)
  BY ServedIsFinite, FS_Subset
<1>2. \A s, q \in S : <<s, q>> \in NewerOn(S) <=> Newer(s, q)
  BY DEF NewerOn
<1>3. \A s \in S : s.at \in Position /\ s.name \in Name
  BY ServedFields
<1>4. \A n \in Name : InsertOrder[n] \in Nat
  BY ApiAssumption
<1>5. \A s \in S : ~Newer(s, s)
  BY <1>3, <1>4, BeforeIrreflexive DEF Newer
<1>6. ASSUME NEW s \in S, NEW q \in S, NEW r \in S, Newer(s, q), Newer(q, r)
      PROVE  Newer(s, r)
  <2>1. /\ s.at \in Position /\ q.at \in Position /\ r.at \in Position
        /\ InsertOrder[s.name] \in Nat /\ InsertOrder[q.name] \in Nat
        /\ InsertOrder[r.name] \in Nat
    BY <1>3, <1>4
  <2> QED
    BY <2>1, <1>6, BeforeTransitive DEF Newer
<1>7. ASSUME NEW s \in S, NEW q \in S
      PROVE  s = q \/ Newer(s, q) \/ Newer(q, s)
  <2>1. /\ s.at \in Position /\ q.at \in Position /\ s.name \in Name /\ q.name \in Name
        /\ InsertOrder[s.name] \in Nat /\ InsertOrder[q.name] \in Nat
    BY <1>3, <1>4
  <2>2. CASE s.at # q.at
    BY <2>1, <2>2, BeforeTotal DEF Newer
  <2>3. CASE s.at = q.at /\ InsertOrder[s.name] # InsertOrder[q.name]
    BY <2>1, <2>3 DEF Newer
  <2>4. CASE s.at = q.at /\ InsertOrder[s.name] = InsertOrder[q.name]
    <3>1. s.name = q.name
      BY <2>1, <2>4, ApiAssumption
    <3> QED
      BY <2>4, <3>1, ServedOnce
  <2> QED
    BY <2>2, <2>3, <2>4
<1> QED
  BY <1>1, <1>2, <1>5, <1>6, <1>7 DEF Orders

\* What `events` pages through is the enumeration of the log.
LEMMA EventLogIs ==
  ASSUME NEW t, NEW name, NEW action, NEW since
  PROVE  EventLog(t, name, action, since) =
           LET S == Log(t, name, action, since) IN Enumeration(S, NewerOn(S))
<1> DEFINE S == Log(t, name, action, since)
<1>1. \A s \in S : Rank(S, NewerOn(S), s) = Cardinality({q \in S : Newer(q, s)})
  <2>1. \A s \in S : Below(S, NewerOn(S), s) = {q \in S : Newer(q, s)}
    <3> HIDE DEF S
    <3> QED
      BY DEF Below, NewerOn
  <2> QED
    BY <2>1 DEF Rank
<1>2. EventLog(t, name, action, since) = Ranked(S, Newer)
  BY DEF EventLog, Log
<1> HIDE DEF S
<1>3. Ranked(S, Newer) = Enumeration(S, NewerOn(S))
  <2> DEFINE g(i) == CHOOSE s \in S : Cardinality({q \in S : Newer(q, s)}) = i - 1
             h(i) == CHOOSE s \in S : Rank(S, NewerOn(S), s) = i - 1
  <2>1. Ranked(S, Newer) = [i \in 1..Cardinality(S) |-> g(i)]
    BY DEF Ranked
  <2>2. Enumeration(S, NewerOn(S)) = [i \in 1..Cardinality(S) |-> h(i)]
    BY DEF Enumeration
  <2>3. ASSUME NEW i PROVE g(i) = h(i)
    <3>1. \A s \in S : Cardinality({q \in S : Newer(q, s)}) = i - 1 <=>
                      Rank(S, NewerOn(S), s) = i - 1
      BY <1>1
    <3> QED
      BY <3>1
  <2> HIDE DEF g, h
  <2> QED
    BY <2>1, <2>2, <2>3
<1> QED
  BY <1>2, <1>3 DEF S

\* The first event of a log that is not empty is the newest.
LEMMA HeadIsNewest ==
  ASSUME NEW b \in Branch, NEW t, Good(t, b), HistorySound(t, b, Mined(b)),
         NEW name, NEW action, NEW since
  PROVE  LET log == EventLog(t, name, action, since)
             S   == Log(t, name, action, since)
         IN  /\ log = << >> <=> S = {}
             /\ log # << >> => /\ Head(log) \in S
                               /\ \A s \in S : s = Head(log) \/ Newer(Head(log), s)
<1> DEFINE S == Log(t, name, action, since)
           log == EventLog(t, name, action, since)
           R == NewerOn(S)
<1>1. S \in SUBSET Served(t)
  BY DEF Log
<1> HIDE DEF S
<1>2. Orders(R, S)
  BY <1>1, NewerOrders
<1>3. log = Enumeration(S, R)
  BY EventLogIs DEF S
<1>4. \A s, q \in S : <<s, q>> \in R <=> Newer(s, q)
  BY DEF NewerOn
<1> HIDE DEF R, log
<1>5. /\ Cardinality(S) \in Nat /\ log \in Seq(S) /\ Len(log) = Cardinality(S)
      /\ \A i \in 1..Cardinality(S) : log[i] \in S /\ Rank(S, R, log[i]) = i - 1
      /\ \A s \in S : Rank(S, R, s) + 1 \in 1..Cardinality(S)
  BY <1>2, <1>3, EnumerationIs
<1>6. log = << >> <=> S = {}
  <2>1. Cardinality(S) = 0 <=> S = {}
    BY <1>2, FS_EmptySet DEF Orders
  <2>2. log = << >> <=> Len(log) = 0
    BY <1>5
  <2> QED
    BY <1>5, <2>1, <2>2
<1>7. ASSUME log # << >>
      PROVE  Head(log) \in S /\ \A s \in S : s = Head(log) \/ Newer(Head(log), s)
  <2>1. Head(log) = log[1] /\ 1 \in 1..Cardinality(S)
    BY <1>5, <1>7
  <2>2. Head(log) \in S /\ Rank(S, R, Head(log)) = 0
    BY <1>5, <2>1
  <2>3. ASSUME NEW s \in S, <<s, Head(log)>> \in R PROVE FALSE
    <3>1. Rank(S, R, s) < Rank(S, R, Head(log)) /\ Rank(S, R, s) \in 0..(Cardinality(S) - 1)
      BY <1>2, <2>2, <2>3, RankGrows
    <3> QED
      BY <1>5, <2>2, <3>1
  <2>4. \A s, q \in S : s = q \/ <<s, q>> \in R \/ <<q, s>> \in R
    BY <1>2 DEF Orders
  <2> QED
    BY <1>4, <2>2, <2>3, <2>4
<1> QED
  BY <1>6, <1>7 DEF S, log

-----------------------------------------------------------------------------
(* One story.                                                              *)

\* The log is joined to the binding each implicit release ended.
LEMMA BindingIsLive ==
  ASSUME NEW b \in Branch, NEW t, Good(t, b), HistorySound(t, b, Mined(b)), NEW i \in t.implicit
  PROVE  \E e \in BindingEvents(t, i) : e.note.nf = i.nf /\ e.note.action # "release"
<1>1. i.at \in Position
  BY RecordTypes
<1>2. PICK r \in LiveBefore(t, i.name, i.at) : r.note.nf = i.nf
  BY DEF HistorySound, Chained, NotesOf
<1>3. /\ r \in t.events /\ r.note.name = i.name /\ r.note.action # "release"
      /\ Before(r.at, i.at)
      /\ \A q \in RecordsOf(t, i.name) : Before(q, i.at) => ~Before(r.at, q)
  BY <1>1, LiveIs DEF HistorySound
<1>4. \A f \in t.events : f.note.name = i.name => f.at \in RecordsOf(t, i.name)
  BY DEF RecordsOf
<1>5. r \in BindingEvents(t, i)
  BY <1>3, <1>4 DEF BindingEvents
<1> QED
  BY <1>2, <1>3, <1>5

\* A record of a name in either log is served at its place.
LEMMA RecordIsServed ==
  ASSUME NEW b \in Branch, NEW t, Good(t, b), HistorySound(t, b, Mined(b)),
         NEW n, NEW p \in RecordsOf(t, n)
  PROVE  \E s \in Served(t) : s.name = n /\ s.at = p
<1>1. CASE \E e \in t.events : e.note.name = n /\ e.at = p
  BY <1>1, ServedIs
<1>2. CASE \E i \in t.implicit : i.name = n /\ i.at = p
  <2>1. PICK i \in t.implicit : i.name = n /\ i.at = p
    BY <1>2
  <2>2. PICK e \in BindingEvents(t, i) : TRUE
    BY BindingIsLive
  <2>3. ReleaseEvent(e, i) \in Served(t) /\ e \in t.events /\ e.note.name = i.name
    BY ServedIs
  <2>4. ReleaseEvent(e, i).name = i.name /\ ReleaseEvent(e, i).at = i.at
    BY <2>3, ServedIs
  <2> QED
    BY <2>1, <2>3, <2>4
<1> QED
  BY <1>1, <1>2 DEF RecordsOf

\* The tip of a name is its newest served event, unless that is a release.
LEMMA TipIsNewest ==
  ASSUME NEW b \in Branch, NEW t, Good(t, b), HistorySound(t, b, Mined(b)),
         NEW n \in Name, NEW h \in Served(t), h.name = n,
         \A s \in Served(t) : s.name = n => s = h \/ Newer(h, s)
  PROVE  /\ h.action = "release" => ReadTip(t, n) = {}
         /\ h.action # "release" => \E e \in t.events : h = NameEvent(e) /\ ReadTip(t, n) = {e}
<1>1. /\ t.names = ImpliedTips(t) /\ Placed(t, Mined(b)) /\ t.names \subseteq t.events
  BY RecordTypes DEF HistorySound
<1>2. h.at \in Position /\ h.at \in RecordsOf(t, n)
  BY ServedFields
<1>3. \A q \in RecordsOf(t, n) : q \in Position /\ ~Before(h.at, q)
  <2> SUFFICES ASSUME NEW q \in RecordsOf(t, n) PROVE q \in Position /\ ~Before(h.at, q)
    OBVIOUS
  <2>1. PICK s \in Served(t) : s.name = n /\ s.at = q
    BY RecordIsServed
  <2>2. q \in Position /\ (s = h \/ Newer(h, s))
    BY <2>1, ServedFields
  <2>3. q = h.at \/ Before(q, h.at)
    BY <2>1, <2>2 DEF Newer
  <2> QED
    BY <1>2, <2>2, <2>3, BeforeAsymmetric, BeforeIrreflexive
<1>4. ASSUME NEW r \in ReadTip(t, n)
      PROVE  h = NameEvent(r) /\ h.action # "release"
  <2>1. r \in t.names /\ r \in t.events /\ r.note.name = n
    BY <1>1 DEF ReadTip
  <2>2. /\ r.note.action # "release"
        /\ \A q \in RecordsOf(t, n) : ~Before(r.at, q)
    BY <1>1, <2>1, TipIs
  <2>3. r.at \in Position /\ r.at \in RecordsOf(t, n)
    BY <2>1, RecordTypes DEF RecordsOf
  <2>4. r.at = h.at
    BY <1>2, <1>3, <2>2, <2>3, BeforeTotal
  <2>5. /\ NameEvent(r) \in Served(t) /\ NameEvent(r).at = h.at /\ NameEvent(r).name = h.name
        /\ NameEvent(r).action = r.note.action
    BY <2>1, <2>4, ServedIs
  <2> QED
    BY <2>2, <2>5, ServedOnce
<1>5. ASSUME h.action # "release"
      PROVE  \E e \in t.events : h = NameEvent(e) /\ e \in ReadTip(t, n)
  <2>1. \A i \in t.implicit : \A e \in BindingEvents(t, i) : ReleaseEvent(e, i).action = "release"
    BY ServedIs
  <2>2. PICK e \in t.events : h = NameEvent(e)
    BY <1>5, <2>1, ServedIs
  <2>3. e.note.name = n /\ e.note.action # "release" /\ e.at = h.at
    BY <1>5, <2>2, ServedIs
  <2>4. e \in ImpliedTips(t)
    BY <1>1, <1>3, <2>3, TipIs
  <2> QED
    BY <1>1, <2>2, <2>3, <2>4 DEF ReadTip
<1>6. \A r, q \in ReadTip(t, n) : r = q
  BY DEF Good, TipsDistinct, ReadTip
<1> QED
  BY <1>4, <1>5, <1>6

\* The API runs over the indexer, whose invariant it keeps.
LEMMA ApiStep == [ApiNext]_apiVars => [Next]_vars
  BY DEF ApiNext, apiVars

\* So the invariant of the indexer holds in every state of the API.
LEMMA ApiExact == ApiSpec => []LInv
<1>1. ApiInit => LInv
  BY InitExact DEF ApiInit
<1>2. LInv /\ [ApiNext]_apiVars => LInv'
  BY ApiStep, NextExact
<1> QED
  BY <1>1, <1>2, PTL DEF ApiSpec

\* The join of `events` finds, for every implicit release, the binding whose
\* nullifier the release stores, so no row is refused as corrupt, and the
\* address it serves is that of the binding the release ended.
THEOREM ReleasesNameTheirBinding == ApiSpec => []ImplicitReleaseNamesItsBinding
<1>1. LInv => ImplicitReleaseNamesItsBinding
  BY LInvIndexes, BindingIsLive DEF Indexed, Sound, ImplicitReleaseNamesItsBinding
<1> QED
  BY <1>1, ApiExact, PTL

\* `resolve` and `events` tell one story of a name: the tip served is the
\* newest event of the name, and there is none if that event is a release.
THEOREM ResolveAndEventsAgree == ApiSpec => []NewestEventIsTheBinding
<1>1. ASSUME LInv PROVE NewestEventIsTheBinding
  <2> DEFINE t == db.tables
             b == db.branch
  <2>1. b \in Branch /\ Good(t, b) /\ HistorySound(t, b, Mined(b))
    BY <1>1, LInvIndexes DEF Indexed, Sound
  <2> HIDE DEF t, b
  <2>2. SUFFICES ASSUME NEW n \in Name
        PROVE  LET story == EventLog(t, n, NoFilter, 0)
               IN  {[name |-> r.name, address |-> r.address, txid |-> r.txid,
                     height |-> r.height, action |-> r.last_action, at |-> Head(story).at] :
                      r \in Resolve(t, n, Default, 0)} =
                   IF story = << >> \/ Head(story).action = "release" THEN {} ELSE {Head(story)}
    BY DEF NewestEventIsTheBinding, t
  <2> DEFINE story == EventLog(t, n, NoFilter, 0)
             S == Log(t, n, NoFilter, 0)
             Same(r) == [name |-> r.name, address |-> r.address, txid |-> r.txid,
                     height |-> r.height, action |-> r.last_action, at |-> Head(story).at]
  <2>3. Resolve(t, n, Default, 0) = {NameRecord(r) : r \in ReadTip(t, n)}
    BY ApiAssumption DEF Resolve, IsListQuery, IsAddressQuery
  <2>4. \A s \in Served(t) : s \in S <=> s.name = n
    <3>1. \A s \in Served(t) : s.height > 0
      <4>1. \A s \in Served(t) : s.height \in 1..Len(b) /\ Len(b) \in Nat
        BY <2>1, ServedFields DEF Branch
      <4> QED
        BY <4>1
    <3>2. n # NoFilter
      BY ApiAssumption
    <3> QED
      BY <3>1, <3>2 DEF Log, Matches
  <2>5. /\ story = << >> <=> S = {}
        /\ story # << >> => /\ Head(story) \in S
                            /\ \A s \in S : s = Head(story) \/ Newer(Head(story), s)
    BY <2>1, HeadIsNewest
  <2>6. S \in SUBSET Served(t)
    BY DEF Log
  <2> HIDE DEF S, story
  <2>7. CASE story = << >>
    <3>1. ReadTip(t, n) = {}
      <4>1. \A r \in ReadTip(t, n) : NameEvent(r) \in Served(t) /\ NameEvent(r).name = n
        <5>1. t.names \subseteq t.events
          BY <2>1, RecordTypes
        <5> QED
          BY <2>1, <5>1, ServedIs DEF ReadTip
      <4> QED
        BY <2>4, <2>5, <2>7, <4>1
    <3>2. Resolve(t, n, Default, 0) = {}
      BY <2>3, <3>1
    <3> QED
      BY <2>7, <3>2 DEF story
  <2>8. CASE story # << >>
    <3> DEFINE h == Head(story)
    <3>1. h \in Served(t) /\ h.name = n /\ \A s \in Served(t) : s.name = n => s = h \/ Newer(h, s)
      BY <2>4, <2>5, <2>6, <2>8
    <3> HIDE DEF h
    <3>2. CASE h.action = "release"
      <4>1. ReadTip(t, n) = {}
        BY <2>1, <3>1, <3>2, TipIsNewest
      <4>2. Resolve(t, n, Default, 0) = {}
        BY <2>3, <4>1
      <4> QED
        BY <2>8, <3>2, <4>2 DEF story, h
    <3>3. CASE h.action # "release"
      <4>1. PICK e \in t.events : h = NameEvent(e) /\ ReadTip(t, n) = {e}
        BY <2>1, <3>1, <3>3, TipIsNewest
      <4>2. Resolve(t, n, Default, 0) = {NameRecord(e)}
        BY <2>3, <4>1
      <4>3. Same(NameRecord(e)) = h
        <5>1. h.at = e.at
          BY <2>1, <4>1, ServedIs
        <5> QED
          BY <4>1, <5>1 DEF NameRecord, NameEvent, h
      <4>4. {Same(r) : r \in Resolve(t, n, Default, 0)} = {h}
        <5> HIDE DEF Same
        <5> QED
          BY <4>2, <4>3
      <4> QED
        BY <2>8, <3>3, <4>4 DEF story, h
    <3> QED
      BY <3>2, <3>3
  <2> QED
    BY <2>7, <2>8
<1> QED
  BY <1>1, ApiExact, PTL

-----------------------------------------------------------------------------
(* Pages.                                                                  *)

\* A page holds the ranks from its offset on, as many as its limit allows.
IsPage(page, S, R, limit, from) ==
  LET n == Cardinality(S)
  IN  /\ ToSet(page) = {s \in S : from <= Rank(S, R, s) /\ Rank(S, R, s) < from + limit}
      /\ Len(page) \in 0..limit
      /\ page = << >> <=> Len(page) = 0
      /\ page # << >> => Head(page) \in S
      /\ from >= n => page = << >>
      /\ from < n => /\ Len(page) > 0 /\ from + Len(page) <= n
                     /\ from + Len(page) = n \/ Len(page) = limit

\* A part of a sequence.
LEMMA PartFacts ==
  ASSUME NEW T, NEW q \in Seq(T), NEW from \in Nat, NEW to \in 0..Len(q), from + 1 <= to
  PROVE  /\ SubSeq(q, from + 1, to) \in Seq(T) /\ Len(SubSeq(q, from + 1, to)) = to - from
         /\ \A i \in 1..(to - from) : SubSeq(q, from + 1, to)[i] = q[from + i]
  OBVIOUS

\* A page of an enumeration is one.
LEMMA PageIs ==
  ASSUME NEW S, NEW R, Orders(R, S), NEW limit \in Nat \ {0}, NEW from \in Nat
  PROVE  /\ Cardinality(S) \in Nat /\ Len(Enumeration(S, R)) = Cardinality(S)
         /\ IsPage(Page(Enumeration(S, R), limit, from), S, R, limit, from)
<1> DEFINE n == Cardinality(S)
           rows == Enumeration(S, R)
           to == IF from + limit < n THEN from + limit ELSE n
           page == Page(rows, limit, from)
           rank == [s \in S |-> Rank(S, R, s)]
<1>1. /\ n \in Nat /\ rows \in Seq(S) /\ Len(rows) = n
      /\ \A i \in 1..n : rows[i] \in S /\ rank[rows[i]] = i - 1
      /\ \A s \in S : rank[s] + 1 \in 1..n /\ rows[rank[s] + 1] = s
  BY EnumerationIs
<1>2. rank \in [S -> Nat]
  BY RankGrows
<1>3. page = SubSeq(rows, from + 1, to)
  BY <1>1 DEF Page
<1> HIDE DEF n, rows, page, rank
<1>4. to \in 0..n /\ to <= from + limit
  BY <1>1
<1>5. CASE from >= n
  <2>1. to = n
    BY <1>1, <1>5
  <2> HIDE DEF to
  <2>2. page = << >> /\ Len(page) = 0
    BY <1>1, <1>3, <1>5, <2>1
  <2>3. ToSet(page) = {}
    BY <2>2 DEF ToSet
  <2>4. {s \in S : from <= rank[s] /\ rank[s] < from + limit} = {}
    BY <1>1, <1>2, <1>5
  <2>5. ToSet(page) = {s \in S : from <= Rank(S, R, s) /\ Rank(S, R, s) < from + limit}
    BY <2>3, <2>4 DEF rank
  <2> QED
    BY <1>1, <1>5, <2>2, <2>5 DEF n, rows, page, IsPage
<1>6. CASE from < n
  <2>1. to > from /\ to <= n /\ (to = n \/ to = from + limit)
    BY <1>1, <1>6
  <2> HIDE DEF to
  <2>2. /\ page \in Seq(S) /\ Len(page) = to - from
        /\ \A i \in 1..(to - from) : page[i] = rows[from + i]
    <3>1. n \in Nat /\ to \in 0..Len(rows) /\ from + 1 <= to
      BY <1>1, <1>4, <2>1
    <3> QED
      BY <1>1, <1>3, <3>1, PartFacts
  <2>3. \A s \in ToSet(page) : s \in S /\ from <= rank[s] /\ rank[s] < from + limit
    <3> SUFFICES ASSUME NEW i \in 1..(to - from)
                 PROVE  page[i] \in S /\ from <= rank[page[i]] /\ rank[page[i]] < from + limit
      BY <2>2 DEF ToSet
    <3>1. from + i \in 1..n /\ from + i <= to
      BY <1>1, <1>4, <2>1
    <3>2. page[i] \in S /\ rank[page[i]] = from + i - 1
      BY <1>1, <2>2, <3>1
    <3> QED
      BY <1>4, <3>1, <3>2
  <2>4. ASSUME NEW s \in S, from <= rank[s], rank[s] < from + limit
        PROVE  s \in ToSet(page)
    <3>1. rank[s] + 1 \in 1..n /\ rows[rank[s] + 1] = s /\ rank[s] \in Nat
      BY <1>1, <1>2
    <3>2. rank[s] + 1 - from \in 1..(to - from)
      <4>1. n \in Nat /\ to \in Nat /\ to <= n /\ rank[s] + 1 <= n /\ rank[s] \in Nat
        BY <1>1, <1>4, <3>1
      <4>2. rank[s] + 1 <= to
        BY <2>1, <2>4, <4>1
      <4> QED
        BY <2>4, <4>1, <4>2
    <3>3. page[rank[s] + 1 - from] = s
      BY <2>2, <3>1, <3>2
    <3> QED
      BY <2>2, <3>2, <3>3 DEF ToSet
  <2>5. ToSet(page) = {s \in S : from <= rank[s] /\ rank[s] < from + limit}
    BY <2>3, <2>4
  <2>6. /\ Len(page) \in 0..limit /\ Len(page) > 0 /\ from + Len(page) <= n
        /\ from + Len(page) = n \/ Len(page) = limit
    BY <1>1, <1>4, <2>1, <2>2
  <2>7. page # << >> /\ Head(page) \in S
    BY <2>2, <2>6
  <2>8. ToSet(page) = {s \in S : from <= Rank(S, R, s) /\ Rank(S, R, s) < from + limit}
    BY <2>5 DEF rank
  <2> HIDE DEF to
  <2> QED
    BY <1>1, <1>6, <2>6, <2>7, <2>8 DEF n, rows, page, IsPage
<1> QED
  BY <1>1, <1>5, <1>6

\* A limit that is applied is positive, and an offset within the range of the
\* cast is applied as it is.
LEMMA Applied ==
  ASSUME NEW l \in Limit, NEW o \in 0..(OffsetModulus - 1)
  PROVE  AppliedLimit(l) \in Nat \ {0} /\ AppliedOffset(o) = o
<1>1. /\ l \in Nat \/ l = Default
      /\ DefaultLimit \in Nat /\ DefaultLimit >= 1 /\ MaxLimit >= 1 /\ MaxLimit \in Int
      /\ OffsetModulus \in Nat \ {0}
  BY ApiAssumption
<1>2. AppliedLimit(l) \in Nat \ {0}
  BY <1>1 DEF AppliedLimit
<1>3. AppliedOffset(o) = o
  BY <1>1 DEF AppliedOffset
<1> QED
  BY <1>2, <1>3

-----------------------------------------------------------------------------
(* What a commit does to the log.                                          *)

\* A rewind drops the events above it and keeps the others as they were.
LEMMA ServedRewound ==
  ASSUME NEW b \in Branch, NEW t, Good(t, b), HistorySound(t, b, Mined(b)), NEW k \in Nat
  PROVE  Served(Rewound(t, k)) = {s \in Served(t) : s.height <= k}
<1> DEFINE u == Rewound(t, k)
<1>1. /\ u.events = {e \in t.events : e.at[1] <= k}
      /\ u.implicit = {i \in t.implicit : i.at[1] <= k}
  BY DEF Rewound
<1> HIDE DEF u
<1>2. ASSUME NEW i \in u.implicit
      PROVE  BindingEvents(u, i) = BindingEvents(t, i)
  <2>1. i \in t.implicit /\ i.at[1] <= k /\ i.at \in Position
    BY <1>1, RecordTypes
  <2>2. ASSUME NEW e \in t.events, Before(e.at, i.at) PROVE e \in u.events
    <3>1. e.at \in Position
      BY RecordTypes
    <3>2. e.at[1] \in Nat /\ i.at[1] \in Nat
      BY <2>1, <3>1 DEF Position
    <3> QED
      BY <1>1, <2>1, <2>2, <3>2 DEF Before
  <2>3. {e \in u.events : e.note.name = i.name /\ Before(e.at, i.at)} =
        {e \in t.events : e.note.name = i.name /\ Before(e.at, i.at)}
    BY <1>1, <2>2
  <2> QED
    BY <2>3 DEF BindingEvents
<1>3. ASSUME NEW s \in Served(u) PROVE s \in Served(t) /\ s.height <= k
  <2>1. CASE \E e \in u.events : s = NameEvent(e)
    BY <1>1, <2>1, ServedIs
  <2>2. CASE \E i \in u.implicit : \E e \in BindingEvents(u, i) : s = ReleaseEvent(e, i)
    <3>1. PICK i \in u.implicit : \E e \in BindingEvents(u, i) : s = ReleaseEvent(e, i)
      BY <2>2
    <3>2. PICK e \in BindingEvents(t, i) : s = ReleaseEvent(e, i)
      BY <1>2, <3>1
    <3>3. i \in t.implicit /\ i.at[1] <= k
      BY <1>1
    <3>4. s \in Served(t) /\ e \in t.events /\ e.note.name = i.name
      BY <3>2, <3>3, ServedIs
    <3>5. s.height = i.at[1]
      BY <3>2, <3>3, <3>4, ServedIs
    <3> QED
      BY <3>3, <3>4, <3>5
  <2> QED
    BY <2>1, <2>2 DEF Served
<1>4. ASSUME NEW s \in Served(t), s.height <= k PROVE s \in Served(u)
  <2>1. CASE \E e \in t.events : s = NameEvent(e)
    <3>1. PICK e \in t.events : s = NameEvent(e)
      BY <2>1
    <3>2. e \in u.events
      BY <1>1, <1>4, <3>1, ServedIs
    <3> QED
      BY <3>1, <3>2 DEF Served
  <2>2. CASE \E i \in t.implicit : \E e \in BindingEvents(t, i) : s = ReleaseEvent(e, i)
    <3>1. PICK i \in t.implicit : \E e \in BindingEvents(t, i) : s = ReleaseEvent(e, i)
      BY <2>2
    <3>2. PICK e \in BindingEvents(t, i) : s = ReleaseEvent(e, i)
      BY <3>1
    <3>3. s.height = i.at[1]
      BY <3>2, ServedIs
    <3>4. i \in u.implicit
      BY <1>1, <1>4, <3>3
    <3>5. e \in BindingEvents(u, i)
      BY <1>2, <3>4
    <3> QED
      BY <3>2, <3>4, <3>5 DEF Served
  <2> QED
    BY <2>1, <2>2, ServedIs
<1> QED
  BY <1>3, <1>4 DEF u

\* The database, its branch and its log.
Sane(d) ==
  /\ d.branch \in Branch /\ Len(d.branch) \in Nat
  /\ Good(d.tables, d.branch) /\ HistorySound(d.tables, d.branch, Mined(d.branch))
  /\ TheTablesOfItsBranch(d)

\* The invariant says so of the committed database.
LEMMA LInvIsSane == LInv => Sane(db)
  BY LInvIndexes DEF Indexed, Sound, Sane, Branch

\* The same of the next state.
LEMMA LInvIsSaneNext == LInv' => Sane(db)'
  BY LInvIsSane, PTL

\* Between two databases the shorter branch of which begins the longer, the
\* log gains events above the shorter one's height, and nothing else changes.
LEMMA LogGrowsAbove ==
  ASSUME NEW d, NEW e, Sane(d), Sane(e), IsPrefix(d.branch, e.branch)
  PROVE  /\ Len(d.branch) <= Len(e.branch)
         /\ Served(d.tables) = {s \in Served(e.tables) : s.height <= Len(d.branch)}
<1> DEFINE k == Len(d.branch)
<1>1. k \in 0..Len(e.branch) /\ d.branch = SubSeq(e.branch, 1, k)
  BY PrefixIsCut DEF Sane
<1>2. d.tables = TablesOf(d.branch) /\ Rewound(e.tables, k) = TablesOf(SubSeq(e.branch, 1, k))
  BY <1>1 DEF Sane, TheTablesOfItsBranch
<1>3. d.tables = Rewound(e.tables, k) /\ k \in Nat
  BY <1>1, <1>2 DEF Sane
<1>4. Served(Rewound(e.tables, k)) = {s \in Served(e.tables) : s.height <= k}
  BY <1>3, ServedRewound DEF Sane
<1> QED
  BY <1>1, <1>3, <1>4 DEF Sane

-----------------------------------------------------------------------------
(* The follower.                                                           *)

\* The log and the listing are shorter than 2^32: an offset that has reached
\* their end is still applied as it is.
LogFits ==
  /\ Cardinality(Served(db.tables)) < OffsetModulus
  /\ Cardinality(db.tables.names) < OffsetModulus

Told(t) == {s \in Served(t) : Matches(s, query.name, query.action)}

Above(t) == {s \in Told(t) : s.height > cursor}

\* The events above the cursor that the traversal has passed are those whose
\* rank is below its offset and that were there when it began.
Followed(t, b) ==
  /\ cursor <= newest /\ newest <= Len(b)
  /\ known \subseteq Told(t)
  /\ {s \in Told(t) : s.height <= cursor} \subseteq known
  /\ ~reading => offset = 0
  /\ offset # 0 =>
       \A s \in Above(t) :
         s.height <= newest /\ Rank(Above(t), NewerOn(Above(t)), s) < offset => s \in known

FollowInv ==
  query.method = "events" =>
    /\ cursor \in Nat /\ newest \in Nat /\ offset \in 0..(OffsetModulus - 1)
    /\ Followed(db.tables, db.branch)

\* A call of `events`: what it returns, and what the client makes of it.
LEMMA ReadPageFollows ==
  ASSUME Sane(db), LogFits, FollowInv, NEW l \in Limit, ReadPage(l), UNCHANGED <<vars, query>>
  PROVE  FollowInv'
<1> DEFINE t == db.tables
           b == db.branch
           A == Above(t)
           R == NewerOn(A)
           n == Cardinality(A)
           limit == AppliedLimit(l)
           log == EventLog(t, query.name, query.action, cursor)
           page == Page(log, limit, offset)
           top == IF offset = 0 /\ page # << >> THEN Head(page).height ELSE newest
           rank == [s \in A |-> Rank(A, R, s)]
<1>1. query.method = "events" /\ query' = query /\ db' = db
  BY DEF ReadPage, vars
<1>2. /\ b \in Branch /\ Len(b) \in Nat /\ Good(t, b) /\ HistorySound(t, b, Mined(b))
  BY DEF Sane
<1>3. /\ cursor \in Nat /\ newest \in Nat /\ offset \in 0..(OffsetModulus - 1) /\ offset \in Nat
      /\ Followed(t, b)
  BY <1>1 DEF FollowInv
<1>4. limit \in Nat \ {0} /\ AppliedOffset(offset) = offset
  BY <1>3, Applied
<1>5. A = Log(t, query.name, query.action, cursor) /\ A \in SUBSET Served(t) /\ A \in SUBSET Told(t)
  BY DEF Above, Told, Log
<1>6. Orders(R, A)
  BY <1>2, <1>5, NewerOrders
<1>7. log = Enumeration(A, R)
  BY <1>5, EventLogIs
<1>8. n \in Nat /\ n < OffsetModulus /\ OffsetModulus \in Nat
  <2>1. IsFiniteSet(Served(t))
    BY <1>2, ServedIsFinite
  <2>2. n <= Cardinality(Served(t)) /\ n \in Nat /\ Cardinality(Served(t)) \in Nat
    BY <1>5, <2>1, FS_Subset, FS_CardinalityType
  <2> QED
    BY <2>2, ApiAssumption DEF LogFits
<1>9. \A s \in A : s.height > cursor /\ s.height \in Nat /\ s.height <= Len(b)
  <2>1. \A s \in A : s.height \in 1..Len(b)
    BY <1>2, <1>5, ServedFields
  <2> QED
    BY <1>2, <2>1 DEF Above
<1> HIDE DEF t, b, A, limit
<1>10. /\ rank \in [A -> Nat] /\ \A s \in A : rank[s] < n
  <2>1. \A s \in A : Rank(A, R, s) \in 0..(n - 1)
    BY <1>6, RankGrows
  <2> QED
    BY <1>8, <2>1
<1>11. /\ Len(log) = n
       /\ ToSet(page) = {s \in A : offset <= Rank(A, R, s) /\ Rank(A, R, s) < offset + limit}
       /\ Len(page) \in 0..limit
       /\ page = << >> <=> Len(page) = 0
       /\ page # << >> => Head(page) \in A
       /\ offset >= n => page = << >>
       /\ offset < n => /\ Len(page) > 0 /\ offset + Len(page) <= n
                        /\ offset + Len(page) = n \/ Len(page) = limit
  <2> HIDE DEF R, log
  <2>1. page = Page(Enumeration(A, R), limit, offset) /\ Len(log) = Len(Enumeration(A, R))
    BY <1>7
  <2> HIDE DEF page
  <2>2. IsPage(page, A, R, limit, offset) /\ Len(log) = n
    BY <1>3, <1>4, <1>6, <2>1, PageIs
  <2> QED
    BY <2>2 DEF IsPage
<1>12. ToSet(page) = {s \in A : offset <= rank[s] /\ rank[s] < offset + limit}
  BY <1>11
<1>13. \A s \in A : s.height <= newest /\ rank[s] < offset => s \in known
  <2>1. offset # 0 => \A s \in A : s.height <= newest /\ rank[s] < offset => s \in known
    BY <1>3 DEF Followed, A, t
  <2> HIDE DEF rank
  <2> QED
    BY <1>3, <1>10, <2>1
<1>14. /\ known' = known \cup ToSet(page)
       /\ IF offset + Len(page) < Len(log)
          THEN /\ offset' = offset + Len(page) /\ newest' = top
               /\ UNCHANGED <<reading, cursor>>
          ELSE /\ reading' = FALSE /\ offset' = 0 /\ newest' = top /\ cursor' = top
       /\ reading
  BY <1>4 DEF ReadPage, t, limit
<1> HIDE DEF log, page, R, n
<1>15. cursor <= top /\ top <= Len(b) /\ top \in Nat
  <2>1. cursor <= newest /\ newest <= Len(b)
    BY <1>3 DEF Followed
  <2>2. page # << >> => /\ Head(page).height > cursor /\ Head(page).height \in Nat
                        /\ Head(page).height <= Len(b)
    BY <1>9, <1>11
  <2> QED
    BY <1>2, <1>3, <2>1, <2>2
<1>16. known' \subseteq Told(t)
  <2>1. ToSet(page) \subseteq A
    BY <1>12
  <2> QED
    BY <1>3, <1>5, <1>14, <2>1 DEF Followed
<1>17. \A s \in A : s.height <= top /\ rank[s] < offset + Len(page) => s \in known'
  <2> SUFFICES ASSUME NEW s \in A, s.height <= top, rank[s] < offset + Len(page)
               PROVE  s \in known'
    OBVIOUS
  <2>1. rank[s] \in Nat /\ Len(page) \in Nat /\ Len(page) <= limit
    BY <1>4, <1>10, <1>11
  <2>2. CASE offset <= rank[s]
    <3>1. rank[s] < offset + limit
      BY <1>3, <1>4, <2>1
    <3> QED
      BY <1>12, <1>14, <2>2, <3>1
  <2>3. CASE rank[s] < offset
    <3>1. top = newest
      BY <1>3, <2>1, <2>3
    <3> QED
      BY <1>13, <1>14, <2>3, <3>1
  <2> HIDE DEF rank
  <2> QED
    BY <1>3, <2>1, <2>2, <2>3
<1> HIDE DEF rank, top
<1>18. Told(t)' = Told(t) /\ t' = t /\ b' = b
  BY <1>1 DEF Told, t, b
<1>19. CASE offset + Len(page) < Len(log)
  <2>1. /\ offset' = offset + Len(page) /\ newest' = top /\ reading' = reading /\ cursor' = cursor
    BY <1>14, <1>19
  <2>2. offset' \in 0..(OffsetModulus - 1)
    BY <1>3, <1>4, <1>8, <1>11, <1>19, <2>1
  <2>3. Above(t)' = A
    BY <1>18, <2>1 DEF Above, A
  <2>4. \A s \in A : s.height <= newest' /\ Rank(A, R, s) < offset' => s \in known'
    BY <1>17, <2>1 DEF rank
  <2>5. {s \in Told(t) : s.height <= cursor} \subseteq known'
    BY <1>3, <1>14 DEF Followed
  <2>6. Followed(t, b)'
    BY <1>14, <1>15, <1>16, <1>18, <2>1, <2>3, <2>4, <2>5 DEF Followed, R
  <2> QED
    BY <1>3, <1>15, <2>1, <2>2, <2>6 DEF FollowInv, t, b
<1>20. CASE ~(offset + Len(page) < Len(log))
  <2>1. reading' = FALSE /\ offset' = 0 /\ newest' = top /\ cursor' = top
    BY <1>14, <1>20
  <2>2. \A s \in A : rank[s] < offset + Len(page)
    BY <1>3, <1>4, <1>8, <1>10, <1>11, <1>20
  <2>3. \A s \in Told(t) : s \in A \/ s.height <= cursor
    <3>1. \A s \in Told(t) : s.height \in 1..Len(b)
      BY <1>2, ServedFields DEF Told
    <3>2. \A s \in Told(t) : s.height > cursor => s \in A
      BY DEF Above, A
    <3> QED
      BY <1>2, <1>3, <3>1, <3>2
  <2>4. {s \in Told(t) : s.height <= top} \subseteq known'
    BY <1>3, <1>14, <1>17, <2>2, <2>3 DEF Followed
  <2>5. Followed(t, b)'
    BY <1>15, <1>16, <1>18, <2>1, <2>4 DEF Followed
  <2> QED
    BY <1>8, <1>15, <2>1, <2>5 DEF FollowInv, t, b
<1> QED
  BY <1>19, <1>20

\* A commit that keeps the branch of the one before it: the traversal goes on.
LEMMA CommitFollows ==
  ASSUME Sane(db), Sane(db'), FollowInv, query' = query, IsPrefix(db.branch, db'.branch),
         query.method = "events", UNCHANGED <<reading, cursor, offset, newest, known>>
  PROVE  FollowInv'
<1> DEFINE t == db.tables
           k == Len(db.branch)
<1>0. PICK u, c : u = db'.tables /\ c = db'.branch
  OBVIOUS
<1>1. Len(c) \in Nat /\ k \in Nat /\ k <= Len(c)
  BY <1>0, LogGrowsAbove DEF Sane
<1>2. Served(t) = {s \in Served(u) : s.height <= k}
  BY <1>0, LogGrowsAbove
<1>3. /\ cursor \in Nat /\ newest \in Nat /\ offset \in 0..(OffsetModulus - 1)
      /\ cursor <= newest /\ newest <= k
  BY DEF FollowInv, Followed
<1>4. \A s \in Served(u) : s.height \in Nat
  <2>1. \A s \in Served(u) : s.height \in 1..Len(c)
    BY <1>0, ServedFields DEF Sane
  <2> QED
    BY <1>1, <2>1
<1>5. Told(t) = {s \in Told(u) : s.height <= k} /\ Told(u) \subseteq Served(u)
  BY <1>2 DEF Told
<1>6. Told(u)' = Told(u) /\ Above(u)' = Above(u)
  BY DEF Told, Above
<1>7. {s \in Told(u) : s.height <= cursor} \subseteq known /\ known \subseteq Told(u)
  <2>1. known \subseteq Told(t) /\ {s \in Told(t) : s.height <= cursor} \subseteq known
    BY DEF FollowInv, Followed
  <2>2. \A s \in Told(u) : s.height \in Nat
    BY <1>4, <1>5
  <2> QED
    BY <1>1, <1>3, <1>5, <2>1, <2>2
<1>8. ASSUME offset # 0, NEW s \in Above(u), s.height <= newest,
             Rank(Above(u), NewerOn(Above(u)), s) < offset
      PROVE  s \in known
  <2> DEFINE S == Above(t)
             T == Above(u)
  <2>1. S = {x \in T : x.height <= k} /\ T \subseteq Served(u)
    BY <1>5 DEF Above
  <2>2. s.height \in Nat /\ s \in S
    BY <1>1, <1>3, <1>4, <1>8, <2>1
  <2>3. IsFiniteSet(T)
    BY <1>0, <2>1, ServedIsFinite, FS_Subset DEF Sane
  <2>4. \A x, y \in S : <<x, y>> \in NewerOn(S) => <<x, y>> \in NewerOn(T)
    BY <2>1 DEF NewerOn
  <2> HIDE DEF S, T
  <2>5. Rank(S, NewerOn(S), s) <= Rank(T, NewerOn(T), s)
        /\ Rank(S, NewerOn(S), s) \in Nat /\ Rank(T, NewerOn(T), s) \in Nat
    BY <2>1, <2>2, <2>3, <2>4, RankOfLarger
  <2>6. Rank(S, NewerOn(S), s) < offset
    BY <1>3, <1>8, <2>5 DEF T
  <2> QED
    BY <1>8, <2>2, <2>6 DEF S, FollowInv, Followed
<1>9. ~reading => offset = 0
  BY DEF FollowInv, Followed
<1>10. Followed(u, c)'
  <2>1. newest <= Len(c)
    BY <1>1, <1>3
  <2> QED
    BY <1>3, <1>6, <1>7, <1>8, <1>9, <2>1 DEF Followed
<1>11. db'.tables = u /\ db'.branch = c
  BY <1>0
<1> QED
  BY <1>3, <1>10, <1>11 DEF FollowInv, Followed, Told, Above

\* Every step keeps the follower's invariant.
LEMMA FollowStep ==
  ASSUME LInv, LInv', LogFits, FollowInv, [ApiNext]_apiVars
  PROVE  FollowInv'
<1>1. Sane(db) /\ Sane(db')
  BY LInvIsSane, LInvIsSaneNext DEF Sane, TheTablesOfItsBranch
<1>2. CASE UNCHANGED apiVars
  BY <1>2 DEF apiVars, vars, client, FollowInv, Followed, Told, Above
<1>3. CASE query.method # "events" /\ query' = query
  BY <1>3 DEF FollowInv
<1>4. CASE ApiNext /\ query.method = "events"
  <2>1. query' = query
    BY <1>4 DEF ApiNext
  <2>2. CASE StartTraversal /\ UNCHANGED vars
    BY <1>4, <2>1, <2>2 DEF StartTraversal, vars, FollowInv, Followed, Told, Above
  <2>3. CASE \E l \in Limit : ReadPage(l) /\ UNCHANGED vars
    BY <1>1, <2>1, <2>3, ReadPageFollows
  <2>4. CASE \E l \in Limit : ListPage(l)
    BY <1>4, <2>4 DEF ListPage
  <2>5. CASE IsPrefix(db.branch, db'.branch) /\ Watch
    <3>1. UNCHANGED <<reading, cursor, offset, newest, known>>
      BY <1>4, <2>5 DEF Watch
    <3> QED
      BY <1>1, <1>4, <2>1, <2>5, <3>1, CommitFollows
  <2>6. CASE StartOver
    <3>1. Len(db'.branch) \in Nat /\ OffsetModulus \in Nat \ {0}
      BY <1>1, ApiAssumption DEF Sane
    <3>2. \A s \in Served(db'.tables) : ~(s.height <= 0)
      <4>1. \A s \in Served(db'.tables) : s.height \in 1..Len(db'.branch)
        BY <1>1, ServedFields DEF Sane
      <4> QED
        BY <3>1, <4>1
    <3>3. reading' = FALSE /\ cursor' = 0 /\ offset' = 0 /\ newest' = 0 /\ known' = {}
      BY <2>6 DEF StartOver
    <3> QED
      BY <3>1, <3>2, <3>3 DEF FollowInv, Followed, Told
  <2> QED
    BY <1>4, <2>2, <2>3, <2>4, <2>5, <2>6 DEF ApiNext, Reader
<1> QED
  BY <1>2, <1>3, <1>4 DEF ApiNext

\* It holds of a client that has not read yet.
LEMMA FollowInit == ApiInit => FollowInv
<1> SUFFICES ASSUME ApiInit PROVE FollowInv
  OBVIOUS
<1>1. /\ cursor = 0 /\ offset = 0 /\ newest = 0 /\ known = {} /\ reading = FALSE
      /\ db = NewDatabase /\ Len(db.branch) = 0 /\ OffsetModulus \in Nat \ {0}
  BY ApiAssumption DEF ApiInit, Init, NewDatabase
<1>2. Served(db.tables) = {}
  BY <1>1 DEF Served, NewDatabase, EmptyTables
<1> QED
  BY <1>1, <1>2 DEF FollowInv, Followed, Told

\* As long as the log is shorter than the range of an offset, a follower that
\* pages through the events above its cursor misses none and invents none:
\* after each traversal it knows every event of its filter up to its cursor,
\* whatever batches, replays and crashes came between its pages.
THEOREM FollowersMissNothing == ApiSpec /\ []LogFits => []FollowerMissesNothing
<1>1. LInv /\ LInv' /\ LogFits /\ FollowInv /\ [ApiNext]_apiVars => FollowInv'
  BY FollowStep
<1>2. FollowInv => FollowerMissesNothing
  BY DEF FollowInv, Followed, Told, FollowerMissesNothing
<1> QED
  BY <1>1, <1>2, FollowInit, ApiExact, PTL DEF ApiSpec

-----------------------------------------------------------------------------
(* The listing.                                                            *)

InOrderOn(S) == {x \in S \X S : InOrder(x[1], x[2])}

RowsOf(t, text) == {r \in {NameRecord(x) : x \in t.names} : text \in {Empty, r.address}}

\* The records of the names are finitely many, one for a name.
LEMMA NameRows ==
  ASSUME NEW b \in Branch, NEW t, Good(t, b), HistorySound(t, b, Mined(b)), NEW text
  PROVE  /\ IsFiniteSet(RowsOf(t, text))
         /\ Cardinality(RowsOf(t, text)) <= Cardinality(t.names)
         /\ Cardinality(RowsOf(t, text)) \in Nat /\ Cardinality(t.names) \in Nat
         /\ \A r \in RowsOf(t, text) : r.name \in Name
         /\ \A r, q \in RowsOf(t, text) : r.name = q.name => r = q
<1> DEFINE T == {NameRecord(x) : x \in t.names}
           g == [x \in t.names |-> NameRecord(x)]
<1>1. IsFiniteSet(t.names) /\ t.names \subseteq t.events
  BY RecordTypes, ServedIsFinite, FS_Subset
<1>2. \A x \in t.names : NameRecord(x).name = x.note.name /\ x.note.name \in Name
  BY <1>1, RecordTypes DEF NameRecord
<1>3. g \in [t.names -> T] /\ \A r \in T : \E x \in t.names : g[x] = r
  OBVIOUS
<1>4. g \in Surjection(t.names, T)
  <2> HIDE DEF g, T
  <2> QED
    BY <1>3 DEF Surjection
<1>5. IsFiniteSet(T) /\ Cardinality(T) <= Cardinality(t.names)
  <2> HIDE DEF g, T
  <2> QED
    BY <1>1, <1>4, FS_Surjection
<1>6. RowsOf(t, text) \in SUBSET T
  BY DEF RowsOf
<1>7. \A r \in T : \E x \in t.names : r = NameRecord(x) /\ r.name = x.note.name /\ r.name \in Name
  BY <1>2
<1>8. \A r, q \in T : r.name = q.name => r = q
  BY <1>7 DEF Good, TipsDistinct
<1> HIDE DEF T, g
<1>9. /\ IsFiniteSet(RowsOf(t, text)) /\ Cardinality(RowsOf(t, text)) <= Cardinality(T)
      /\ Cardinality(RowsOf(t, text)) \in Nat /\ Cardinality(t.names) \in Nat
      /\ Cardinality(T) \in Nat
  BY <1>1, <1>5, <1>6, FS_Subset, FS_CardinalityType
<1> QED
  BY <1>5, <1>6, <1>7, <1>8, <1>9

\* The listing is a total order.
LEMMA InOrderOrders ==
  ASSUME NEW b \in Branch, NEW t, Good(t, b), HistorySound(t, b, Mined(b)), NEW text
  PROVE  Orders(InOrderOn(RowsOf(t, text)), RowsOf(t, text))
<1> DEFINE S == RowsOf(t, text)
<1>1. /\ IsFiniteSet(S)
      /\ \A r \in S : r.name \in Name
      /\ \A r, q \in S : r.name = q.name => r = q
  BY NameRows
<1> HIDE DEF S
<1>2. \A r, q \in S : <<r, q>> \in InOrderOn(S) <=> InsertOrder[r.name] < InsertOrder[q.name]
  BY DEF InOrderOn, InOrder
<1>3. \A n \in Name : InsertOrder[n] \in Nat
  BY ApiAssumption
<1>4. \A r \in S : InsertOrder[r.name] \in Nat
  BY <1>1, <1>3
<1>5. \A r, q \in S : InsertOrder[r.name] = InsertOrder[q.name] => r = q
  BY <1>1, ApiAssumption
<1>6. /\ \A r \in S : <<r, r>> \notin InOrderOn(S)
      /\ \A r, q, s \in S : <<r, q>> \in InOrderOn(S) /\ <<q, s>> \in InOrderOn(S)
                              => <<r, s>> \in InOrderOn(S)
      /\ \A r, q \in S : r = q \/ <<r, q>> \in InOrderOn(S) \/ <<q, r>> \in InOrderOn(S)
  BY <1>2, <1>4, <1>5
<1> QED
  BY <1>1, <1>6 DEF Orders, S

\* What a listing pages through is the enumeration of its records.
LEMMA ListingIs ==
  ASSUME NEW t, NEW text
  PROVE  Listing(t, text) = Enumeration(RowsOf(t, text), InOrderOn(RowsOf(t, text)))
<1> DEFINE S == RowsOf(t, text)
<1>1. \A s \in S : Rank(S, InOrderOn(S), s) = Cardinality({q \in S : InOrder(q, s)})
  <2>1. \A s \in S : Below(S, InOrderOn(S), s) = {q \in S : InOrder(q, s)}
    <3> HIDE DEF S
    <3> QED
      BY DEF Below, InOrderOn
  <2> QED
    BY <2>1 DEF Rank
<1>2. Listing(t, text) = Ranked(S, InOrder)
  BY DEF Listing, RowsOf
<1> HIDE DEF S
<1>3. Ranked(S, InOrder) = Enumeration(S, InOrderOn(S))
  <2> DEFINE g(i) == CHOOSE s \in S : Cardinality({q \in S : InOrder(q, s)}) = i - 1
             h(i) == CHOOSE s \in S : Rank(S, InOrderOn(S), s) = i - 1
  <2>1. Ranked(S, InOrder) = [i \in 1..Cardinality(S) |-> g(i)]
    BY DEF Ranked
  <2>2. Enumeration(S, InOrderOn(S)) = [i \in 1..Cardinality(S) |-> h(i)]
    BY DEF Enumeration
  <2>3. ASSUME NEW i PROVE g(i) = h(i)
    <3>1. \A s \in S : Cardinality({q \in S : InOrder(q, s)}) = i - 1 <=>
                      Rank(S, InOrderOn(S), s) = i - 1
      BY <1>1
    <3> QED
      BY <3>1
  <2> HIDE DEF g, h
  <2> QED
    BY <2>1, <2>2, <2>3
<1> QED
  BY <1>2, <1>3 DEF S

\* The place of a name among some names.
Place(N, n) == Cardinality({m \in N : InsertOrder[m] < InsertOrder[n]})

\* The rank of a record is the place of its name.
LEMMA RankIsPlace ==
  ASSUME NEW S, IsFiniteSet(S), \A r, q \in S : r.name = q.name => r = q,
         NEW N, N = {r.name : r \in S}, NEW s \in S
  PROVE  /\ IsFiniteSet(N)
         /\ Rank(S, InOrderOn(S), s) = Place(N, s.name) /\ Place(N, s.name) \in Nat
<1> DEFINE B == Below(S, InOrderOn(S), s)
           M == {m \in N : InsertOrder[m] < InsertOrder[s.name]}
           g == [r \in B |-> r.name]
           f == [r \in S |-> r.name]
<1>1. B = {r \in S : InsertOrder[r.name] < InsertOrder[s.name]}
  BY DEF Below, InOrderOn, InOrder
<1>2. M = {r.name : r \in B}
  BY <1>1
<1>3. IsFiniteSet(B) /\ Cardinality(B) \in Nat
  <2>1. B \in SUBSET S
    BY <1>1
  <2> QED
    BY <2>1, FS_Subset, FS_CardinalityType
<1>4. /\ \A r, q \in B : r.name = q.name => r = q
  BY <1>1
<1> HIDE DEF B, M
<1>5. g \in Surjection(B, M) /\ g \in Injection(B, M)
  <2>1. g \in [B -> M] /\ \A m \in M : \E r \in B : g[r] = m
    BY <1>2
  <2>2. \A r, q \in B : g[r] = g[q] => r = q
    BY <1>4
  <2>3. DOMAIN g = B
    OBVIOUS
  <2> HIDE DEF g
  <2> QED
    BY <2>1, <2>2, <2>3 DEF Surjection, Injection, IsInjective
<1>6. Cardinality(M) = Cardinality(B)
  <2> HIDE DEF g
  <2> QED
    BY <1>3, <1>5, FS_Surjection
<1>7. IsFiniteSet(N)
  <2>1. f \in [S -> N] /\ \A m \in N : \E r \in S : f[r] = m
    OBVIOUS
  <2> HIDE DEF f
  <2> QED
    BY <2>1, FiniteImage
<1> QED
  BY <1>3, <1>6, <1>7 DEF Rank, Place, B, M

\* Among more names a name has no smaller place.
LEMMA PlaceOfLarger ==
  ASSUME NEW N, NEW M, N \subseteq M, IsFiniteSet(M), NEW n
  PROVE  Place(N, n) <= Place(M, n) /\ Place(N, n) \in Nat /\ Place(M, n) \in Nat
<1> DEFINE X == {m \in N : InsertOrder[m] < InsertOrder[n]}
           Y == {m \in M : InsertOrder[m] < InsertOrder[n]}
<1>1. X \in SUBSET Y /\ Y \in SUBSET M
  OBVIOUS
<1> HIDE DEF X, Y
<1>2. IsFiniteSet(Y) /\ IsFiniteSet(X)
  BY <1>1, FS_Subset
<1>3. Cardinality(X) <= Cardinality(Y) /\ Cardinality(X) \in Nat /\ Cardinality(Y) \in Nat
  BY <1>1, <1>2, FS_Subset, FS_CardinalityType
<1> QED
  BY <1>3 DEF Place, X, Y

\* The names of a listing that its traversal has passed are those whose
\* place is before its offset.
Listed(t) ==
  LET N == NamesMatching(t)
  IN  IF reading
      THEN begun \subseteq N /\ \A n \in begun : Place(N, n) < offset => n \in known
      ELSE begun \subseteq known

ListInv ==
  /\ query.method = "events" => begun = {}
  /\ query.method # "events" =>
       /\ query.method \in {"page", "resolve"} /\ query.text \in Ua \cup {Empty}
       /\ offset \in 0..(OffsetModulus - 1) /\ kept \in BOOLEAN
       /\ ~reading => offset = 0
       /\ kept => Listed(db.tables)

\* The names that match are those of the records of the listing.
LEMMA MatchingNames ==
  ASSUME NEW b \in Branch, NEW t, Good(t, b), HistorySound(t, b, Mined(b)),
         query.method # "events"
  PROVE  /\ NamesMatching(t) = {r.name : r \in RowsOf(t, query.text)}
         /\ IsFiniteSet(NamesMatching(t))
<1> DEFINE S == RowsOf(t, query.text)
           rows == Enumeration(S, InOrderOn(S))
<1>1. Orders(InOrderOn(S), S) /\ IsFiniteSet(S)
  BY InOrderOrders, NameRows
<1> HIDE DEF S
<1>2. /\ rows \in Seq(S) /\ Len(rows) = Cardinality(S) /\ Cardinality(S) \in Nat
      /\ \A i \in 1..Cardinality(S) : rows[i] \in S
      /\ \A s \in S : \E i \in 1..Cardinality(S) : rows[i] = s
  BY <1>1, EnumerationIs
<1>3. ToSet(rows) = S
  <2> HIDE DEF rows
  <2> QED
    BY <1>2 DEF ToSet
<1>4. NamesMatching(t) = {r.name : r \in S}
  <2>1. Listing(t, query.text) = rows
    BY ListingIs DEF S
  <2> QED
    BY <1>3, <2>1 DEF NamesMatching
<1>5. IsFiniteSet(NamesMatching(t))
  <2> DEFINE f == [r \in S |-> r.name]
             N == NamesMatching(t)
  <2>1. f \in [S -> N] /\ \A m \in N : \E r \in S : f[r] = m
    BY <1>4
  <2> HIDE DEF f, N
  <2>2. IsFiniteSet(N)
    BY <1>1, <2>1, FiniteImage
  <2> QED
    BY <2>2 DEF N
<1> QED
  BY <1>4, <1>5 DEF S

\* A call of list_names, reverse_lookup or resolve, and what the client
\* makes of it.
LEMMA ListPageLists ==
  ASSUME Sane(db), LogFits, ListInv, NEW l \in Limit, ListPage(l), UNCHANGED <<vars, query>>
  PROVE  ListInv'
<1> DEFINE t == db.tables
           b == db.branch
           S == RowsOf(t, query.text)
           R == InOrderOn(S)
           N == NamesMatching(t)
           n == Cardinality(S)
           limit == AppliedLimit(l)
           log == Listing(t, query.text)
           page == Page(log, limit, offset)
           over == IF query.method = "resolve" THEN page = << >> ELSE offset + Len(page) >= Len(log)
<1>1. query.method # "events" /\ query' = query /\ db' = db /\ reading
  BY DEF ListPage, vars
<1>2. /\ b \in Branch /\ Good(t, b) /\ HistorySound(t, b, Mined(b))
  BY DEF Sane
<1>3. /\ query.method \in {"page", "resolve"} /\ query.text \in Ua \cup {Empty}
      /\ offset \in 0..(OffsetModulus - 1) /\ offset \in Nat /\ kept \in BOOLEAN
      /\ kept => begun \subseteq N /\ \A m \in begun : Place(N, m) < offset => m \in known
  BY <1>1 DEF ListInv, Listed
<1>4. limit \in Nat \ {0} /\ AppliedOffset(offset) = offset
  BY <1>3, Applied
<1>5. Resolve(t, query.text, l, offset) = page
  BY <1>3, <1>4, ApiAssumption DEF Resolve, IsListQuery, IsAddressQuery
<1>6. /\ IsFiniteSet(S) /\ n \in Nat /\ n < OffsetModulus /\ OffsetModulus \in Nat
      /\ \A r, q \in S : r.name = q.name => r = q
  <2>1. n <= Cardinality(t.names) /\ n \in Nat /\ Cardinality(t.names) \in Nat
    BY <1>2, NameRows
  <2>2. Cardinality(t.names) < OffsetModulus /\ OffsetModulus \in Nat
    BY ApiAssumption DEF LogFits
  <2>3. IsFiniteSet(S) /\ \A r, q \in S : r.name = q.name => r = q
    BY <1>2, NameRows
  <2> HIDE DEF S
  <2> QED
    BY <2>1, <2>2, <2>3
<1>7. N = {r.name : r \in S} /\ IsFiniteSet(N)
  BY <1>1, <1>2, MatchingNames
<1>8. Orders(R, S) /\ log = Enumeration(S, R)
  BY <1>2, InOrderOrders, ListingIs
<1>9. /\ known' = known \cup {r.name : r \in ToSet(page)}
      /\ reading' = ~over
      /\ offset' = IF over THEN 0 ELSE offset + Len(page)
      /\ UNCHANGED <<begun, kept>>
  BY <1>5 DEF ListPage
<1> HIDE DEF t, b, S, N, limit, log
<1>10. \A s \in S : /\ Rank(S, R, s) = Place(N, s.name) /\ Place(N, s.name) \in Nat
                    /\ Place(N, s.name) < n
  <2>1. \A s \in S : Rank(S, R, s) = Place(N, s.name) /\ Place(N, s.name) \in Nat
    BY <1>6, <1>7, RankIsPlace
  <2>2. \A s \in S : Rank(S, R, s) \in 0..(n - 1)
    BY <1>8, RankGrows
  <2> QED
    BY <1>6, <2>1, <2>2
<1> HIDE DEF R
<1>11. IsPage(page, S, R, limit, offset) /\ Len(log) = n
  <2>1. page = Page(Enumeration(S, R), limit, offset) /\ Len(log) = Len(Enumeration(S, R))
    BY <1>8
  <2> HIDE DEF page
  <2> QED
    BY <1>3, <1>4, <1>8, <2>1, PageIs
<1> HIDE DEF page
<1>12. /\ ToSet(page) = {s \in S : offset <= Rank(S, R, s) /\ Rank(S, R, s) < offset + limit}
       /\ Len(page) \in 0..limit /\ Len(page) \in Nat
       /\ page = << >> <=> Len(page) = 0
       /\ offset >= n => page = << >>
       /\ offset < n => /\ Len(page) > 0 /\ offset + Len(page) <= n
                        /\ offset + Len(page) = n \/ Len(page) = limit
  BY <1>4, <1>11 DEF IsPage
<1> HIDE DEF n
<1>13. kept => \A m \in begun : Place(N, m) < offset + Len(page) => m \in known'
  <2> SUFFICES ASSUME kept, NEW m \in begun, Place(N, m) < offset + Len(page)
               PROVE  m \in known'
    OBVIOUS
  <2>1. PICK s \in S : s.name = m
    BY <1>3, <1>7
  <2>2. CASE Place(N, m) < offset
    BY <1>3, <1>9, <2>2
  <2>3. CASE offset <= Place(N, m)
    <3>1. s \in ToSet(page)
      BY <1>3, <1>4, <1>10, <1>12, <2>1, <2>3
    <3> QED
      BY <1>9, <2>1, <3>1
  <2> QED
    BY <1>3, <1>10, <2>1, <2>2, <2>3
<1>14. NamesMatching(t)' = N /\ t' = t
  BY <1>1 DEF NamesMatching, N, t
<1>15. CASE over
  <2>1. reading' = FALSE /\ offset' = 0
    BY <1>9, <1>15
  <2>2. offset + Len(page) >= n
    BY <1>3, <1>6, <1>11, <1>12, <1>15
  <2>3. kept => begun \subseteq known'
    <3> SUFFICES ASSUME kept, NEW m \in begun PROVE m \in known'
      OBVIOUS
    <3>1. PICK s \in S : s.name = m
      BY <1>3, <1>7
    <3>2. Place(N, m) < offset + Len(page)
      BY <1>3, <1>6, <1>10, <1>12, <2>2, <3>1
    <3> QED
      BY <1>13, <3>2
  <2>4. offset' \in 0..(OffsetModulus - 1)
    BY <1>6, <2>1
  <2> QED
    BY <1>1, <1>3, <1>9, <2>1, <2>3, <2>4 DEF ListInv, Listed
<1>16. CASE ~over
  <2>1. reading' = TRUE /\ offset' = offset + Len(page)
    BY <1>9, <1>16
  <2>2. offset' \in 0..(OffsetModulus - 1)
    BY <1>3, <1>6, <1>11, <1>12, <1>16, <2>1
  <2>3. kept => begun \subseteq N /\ \A m \in begun : Place(N, m) < offset' => m \in known'
    BY <1>3, <1>13, <2>1
  <2>4. kept' => Listed(t)'
    BY <1>9, <1>14, <2>1, <2>3 DEF Listed
  <2> QED
    BY <1>1, <1>3, <1>9, <2>1, <2>2, <2>4 DEF ListInv, t
<1> QED
  BY <1>15, <1>16

\* A commit while names are listed: the history notes whether a name left.
LEMMA WatchLists ==
  ASSUME Sane(db), Sane(db'), ListInv, query' = query, Watch
  PROVE  ListInv'
<1>1. PICK u : u = db'.tables
  OBVIOUS
<1>2. offset' = offset /\ reading' = reading
  BY DEF Watch
<1>3. CASE query.method = "events"
  <2>1. begun = {}
    BY <1>3 DEF ListInv
  <2> QED
    BY <1>3, <2>1 DEF ListInv, Watch
<1>4. CASE query.method # "events" /\ ~reading
  <2>1. kept' = TRUE /\ begun' = {}
    BY <1>4 DEF Watch
  <2> QED
    BY <1>2, <1>4, <2>1 DEF ListInv, Listed
<1>5. CASE query.method # "events" /\ reading
  <2> DEFINE N == NamesMatching(db.tables)
             M == NamesMatching(u)
  <2>1. /\ kept \in BOOLEAN /\ offset \in Nat
        /\ kept => begun \subseteq N /\ \A n \in begun : Place(N, n) < offset => n \in known
    BY <1>5 DEF ListInv, Listed
  <2>2. kept' = (kept /\ N \subseteq M) /\ begun' = begun /\ known' = known
    BY <1>1, <1>5 DEF Watch
  <2>3. IsFiniteSet(M)
    BY <1>1, <1>5, MatchingNames DEF Sane
  <2>4. NamesMatching(u)' = M
    BY DEF NamesMatching
  <2> HIDE DEF N, M
  <2>5. kept' \in BOOLEAN /\ (kept' => kept /\ N \subseteq M)
    BY <2>1, <2>2
  <2>6. ASSUME kept'
        PROVE  begun \subseteq M /\ \A n \in begun : Place(M, n) < offset => n \in known
    <3>1. kept /\ N \subseteq M /\ begun \subseteq N
      BY <2>1, <2>5, <2>6
    <3>2. ASSUME NEW n \in begun, Place(M, n) < offset PROVE n \in known
      <4>1. Place(N, n) <= Place(M, n) /\ Place(N, n) \in Nat /\ Place(M, n) \in Nat
        BY <2>3, <3>1, PlaceOfLarger
      <4> QED
        BY <2>1, <3>1, <3>2, <4>1
    <3> QED
      BY <3>1, <3>2
  <2>7. kept' => Listed(u)'
    BY <1>2, <1>5, <2>2, <2>4, <2>6 DEF Listed
  <2>8. db'.tables = u
    BY <1>1
  <2> QED
    BY <1>2, <1>5, <2>5, <2>7, <2>8 DEF ListInv, Listed
<1> QED
  BY <1>3, <1>4, <1>5

\* A listing begins with what matches now.
LEMMA StartLists ==
  ASSUME Sane(db), ListInv, StartTraversal, UNCHANGED <<vars, query>>
  PROVE  ListInv'
<1> DEFINE N == NamesMatching(db.tables)
<1>1. /\ reading' = TRUE /\ begun' = N /\ kept' = TRUE /\ offset' = offset
      /\ query.method # "events" => known' = {}
      /\ ~reading /\ query' = query /\ db' = db
  BY DEF StartTraversal, vars
<1>2. CASE query.method = "events"
  BY <1>1, <1>2 DEF ListInv, NamesMatching
<1>3. CASE query.method # "events"
  <2>1. offset = 0
    BY <1>1, <1>3 DEF ListInv
  <2>2. IsFiniteSet(N)
    BY <1>3, MatchingNames DEF Sane
  <2>3. NamesMatching(db.tables)' = N
    BY <1>1 DEF NamesMatching
  <2> HIDE DEF N
  <2>4. \A n \in N : ~(Place(N, n) < 0)
    BY <2>2, PlaceOfLarger
  <2>5. Listed(db.tables)'
    BY <1>1, <2>1, <2>3, <2>4 DEF Listed
  <2> QED
    BY <1>1, <1>3, <2>1, <2>5 DEF ListInv
<1> QED
  BY <1>2, <1>3

\* Every step keeps the invariant of a listing.
LEMMA ListStep ==
  ASSUME LInv, LInv', LogFits, ListInv, [ApiNext]_apiVars
  PROVE  ListInv'
<1>1. Sane(db) /\ Sane(db')
  BY LInvIsSane, LInvIsSaneNext DEF Sane, TheTablesOfItsBranch
<1>2. CASE UNCHANGED apiVars
  BY <1>2 DEF apiVars, vars, client, ListInv, Listed, NamesMatching
<1>3. CASE ApiNext
  <2>1. query' = query
    BY <1>3 DEF ApiNext
  <2>2. CASE StartTraversal /\ UNCHANGED vars
    BY <1>1, <2>1, <2>2, StartLists
  <2>3. CASE \E l \in Limit : ReadPage(l) /\ UNCHANGED vars
    BY <2>1, <2>3 DEF ReadPage, ListInv
  <2>4. CASE \E l \in Limit : ListPage(l) /\ UNCHANGED vars
    BY <1>1, <2>1, <2>4, ListPageLists
  <2>5. CASE Watch
    BY <1>1, <2>1, <2>5, WatchLists
  <2>6. CASE query.method = "events" /\ StartOver
    BY <2>1, <2>6 DEF StartOver, ListInv
  <2> QED
    BY <1>3, <2>2, <2>3, <2>4, <2>5, <2>6 DEF ApiNext, Reader
<1> QED
  BY <1>2, <1>3

\* It holds of a client that has not read yet.
LEMMA ListInit == ApiInit => ListInv
<1> SUFFICES ASSUME ApiInit PROVE ListInv
  OBVIOUS
<1>1. /\ query \in Query /\ offset = 0 /\ begun = {} /\ kept = TRUE /\ reading = FALSE
      /\ OffsetModulus \in Nat \ {0}
  BY ApiAssumption DEF ApiInit
<1>2. query.method # "events" => query.method \in {"page", "resolve"} /\ query.text \in Ua \cup {Empty}
  BY <1>1, ApiAssumption
<1> QED
  BY <1>1, <1>2 DEF ListInv, Listed

\* As long as the listing is shorter than the range of an offset, a client
\* that pages through the names, by list_names, reverse_lookup or resolve,
\* has at the end every name that matched when it began, if none of those
\* that matched left while it read: names that come, and updates of the
\* records before its offset, open no gap.
THEOREM ListingsHaveNoGap == ApiSpec /\ []LogFits => []ListingHasNoGap
<1>1. LInv /\ LInv' /\ LogFits /\ ListInv /\ [ApiNext]_apiVars => ListInv'
  BY ListStep
<1>2. ListInv => ListingHasNoGap
  BY DEF ListInv, Listed, ListingHasNoGap
<1> QED
  BY <1>1, <1>2, ListInit, ApiExact, PTL DEF ApiSpec
=============================================================================
