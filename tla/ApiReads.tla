------------------------------ MODULE ApiReads ------------------------------
(***************************************************************************)
(* The reads of the API, src/src/jsonrpc/service.rs over the readers of    *)
(* src/src/registry/core.rs, and a client that reads page after page.      *)
(*                                                                         *)
(* A call holds the database lock, so it reads one committed state; the    *)
(* pages of a traversal are read by several calls, and batches and rewinds *)
(* commit between them.  The client is external.  One that follows the     *)
(* events pages through those above its cursor, moves the cursor to the    *)
(* newest event of the first page, and calls again; one that lists names   *)
(* pages from the first name to the last, and starts again.                *)
(***************************************************************************)
EXTENDS Resolver

CONSTANTS
  Ua,             \* unified addresses
  UaOf,           \* the address a name note carries
  AddressShaped,  \* the texts that parse as an address: a name may
  Empty,          \* the empty query
  NoFilter,       \* a filter that is not given: None
  Query,          \* what the client asks for
  Limit,          \* the limits it asks for
  Default,        \* no limit: None
  DefaultLimit,   \* 50
  MaxLimit,       \* 500
  OffsetModulus,  \* 2^32, the range of the applied offset
  InsertOrder,    \* the order of names, and of one transaction's releases
  ActionIndex     \* the index, in its transaction, of the action of a note

Text == Name \cup Ua \cup {Empty}

\* The methods that take a text answer with a page and its total
\* (list_names, reverse_lookup) or with bare records (resolve).
ASSUME ApiAssumption ==
  /\ UaOf \in [Rcm -> Ua] /\ Ua \subseteq AddressShaped
  /\ Name \cap Ua = {} /\ Empty \notin Name \cup AddressShaped
  /\ NoFilter \notin Name \cup Action
  /\ Query \subseteq [method : {"events"}, name : Name \cup {NoFilter}, action : Action \cup {NoFilter}]
                \cup [method : {"page", "resolve"}, text : Ua \cup {Empty}]
  /\ Limit \subseteq Nat \cup {Default} /\ Default \notin Nat
  /\ MaxLimit \in Nat /\ DefaultLimit \in 1..MaxLimit /\ OffsetModulus \in Nat \ {0}
  /\ InsertOrder \in [Name -> Nat]
  /\ \A m, n \in Name : InsertOrder[m] = InsertOrder[n] => m = n
  /\ ActionIndex \in [Rcm -> Nat]

VARIABLES
  query,    \* what the client reads; it never changes
  reading,  \* whether a traversal is under way
  cursor,   \* since_height of the traversal
  offset,   \* the offset it has reached
  newest,   \* the height of the first event of its first page
  known,    \* the events it has been given, or the names of a listing
  begun,    \* history: the names that matched when the listing began
  kept      \* history: whether every matching name stayed since

client  == <<reading, cursor, offset, newest, known, begun, kept>>
apiVars == <<vars, query, client>>

-----------------------------------------------------------------------------
(* The answer of one call, before it is paged.                             *)

Ranked(S, Op(_, _)) ==
  [i \in 1..Cardinality(S) |->
     CHOOSE s \in S : Cardinality({t \in S : Op(t, s)}) = i - 1]

\* The public record of a tip, and the public event of a stored one.
NameRecord(r) ==
  [name |-> r.note.name, address |-> UaOf[r.note.rcm], txid |-> r.txid,
   height |-> r.at[1], last_action |-> r.note.action]

NameEvent(e) ==
  [name |-> e.note.name, address |-> UaOf[e.note.rcm], txid |-> e.txid,
   height |-> e.at[1], action |-> e.note.action, at |-> e.at]

\* Mutant: the join compares heights alone.
BindingEventsOfBlocksBefore(tables, i) ==
  LET before == {e \in tables.events : e.note.name = i.name /\ e.at[1] < i.at[1]}
  IN  {e \in before : \A f \in before : ~Before(e.at, f.at)}

\* The event an implicit release is joined with: the last one of the name
\* before it.
BindingEvents(tables, i) ==
  LET before == {e \in tables.events : e.note.name = i.name /\ Before(e.at, i.at)}
  IN  {e \in before : \A f \in before : ~Before(e.at, f.at)}

\* It is served as a release with the address of that event.
ReleaseEvent(e, i) ==
  [NameEvent(e) EXCEPT !.txid = i.txid, !.height = i.at[1], !.action = "release", !.at = i.at]

\* Mutant: the log is the table of events.
StoredEvents(tables) == {NameEvent(e) : e \in tables.events}

Served(tables) ==
  {NameEvent(e) : e \in tables.events} \cup
  UNION {{ReleaseEvent(e, i) : e \in BindingEvents(tables, i)} : i \in tables.implicit}

\* Newest first; releases of one transaction in the order of their rowids.
Newer(s, t) ==
  \/ Before(t.at, s.at)
  \/ s.at = t.at /\ InsertOrder[s.name] > InsertOrder[t.name]

Matches(s, name, action) == name \in {NoFilter, s.name} /\ action \in {NoFilter, s.action}

EventLog(tables, name, action, since) ==
  Ranked({s \in Served(tables) : s.height > since /\ Matches(s, name, action)}, Newer)

\* Mutant: names are listed from the newest record to the oldest.
NewestFirst(r, q) ==
  r.height > q.height \/ (r.height = q.height /\ InsertOrder[r.name] < InsertOrder[q.name])

InOrder(r, q) == InsertOrder[r.name] < InsertOrder[q.name]

\* list_registrations, and registrations_by_ua.
Listing(tables, text) ==
  Ranked({r \in {NameRecord(t) : t \in tables.names} : text \in {Empty, r.address}}, InOrder)

\* clamp_pagination.  The limit is clamped, the offset cast to 32 bits.
AppliedLimit(l) ==
  IF l = Default THEN DefaultLimit
  ELSE IF l < 1 THEN 1 ELSE IF l > MaxLimit THEN MaxLimit ELSE l

AppliedOffset(o) == o % OffsetModulus

Page(rows, limit, from) ==
  SubSeq(rows, from + 1, IF from + limit < Len(rows) THEN from + limit ELSE Len(rows))

\* classify_query: a text of a name's shape is a name, whatever else it is.
IsListQuery(text)    == text = Empty
IsAddressQuery(text) == text \notin Name /\ text \in AddressShaped

Resolve(tables, text, l, o) ==
  IF IsListQuery(text) \/ IsAddressQuery(text)
  THEN Page(Listing(tables, text), AppliedLimit(l), AppliedOffset(o))
  ELSE {NameRecord(r) : r \in ReadTip(tables, text)}

-----------------------------------------------------------------------------
(* The client.                                                             *)

NamesMatching(tables) ==
  IF query.method = "events" THEN {}
  ELSE {r.name : r \in ToSet(Listing(tables, query.text))}

StartTraversal ==
  /\ ~reading
  /\ reading' = TRUE /\ begun' = NamesMatching(db.tables) /\ kept' = TRUE
  /\ known' = IF query.method = "events" THEN known ELSE {}
  /\ UNCHANGED <<cursor, offset, newest>>

\* One call of `events`.  The traversal is over when the offset has reached
\* the total the page reports.
ReadPage(l) ==
  LET log  == EventLog(db.tables, query.name, query.action, cursor)
      page == Page(log, AppliedLimit(l), AppliedOffset(offset))
      top  == IF offset = 0 /\ page # << >> THEN Head(page).height ELSE newest
  IN  /\ reading /\ query.method = "events"
      /\ known' = known \cup ToSet(page)
      /\ IF offset + Len(page) < Len(log)
         THEN /\ offset' = offset + Len(page) /\ newest' = top
              /\ UNCHANGED <<reading, cursor>>
         ELSE /\ reading' = FALSE /\ offset' = 0 /\ newest' = top /\ cursor' = top
      /\ UNCHANGED <<begun, kept>>

\* One call of list_names or reverse_lookup, or of resolve, whose answer has
\* no total: then the listing is over with an empty page.
ListPage(l) ==
  LET page == Resolve(db.tables, query.text, l, offset)
      over == IF query.method = "resolve" THEN page = << >>
              ELSE offset + Len(page) >= Len(Listing(db.tables, query.text))
  IN  /\ reading /\ query.method # "events"
      /\ known' = known \cup {r.name : r \in ToSet(page)}
      /\ reading' = ~over
      /\ offset' = IF over THEN 0 ELSE offset + Len(page)
      /\ UNCHANGED <<cursor, newest, begun, kept>>

\* Nothing tells a client of a rewind.  A follower is told here, and starts
\* over; a client that lists names is not.
StartOver ==
  /\ reading' = FALSE /\ cursor' = 0 /\ offset' = 0 /\ newest' = 0 /\ known' = {}
  /\ UNCHANGED <<begun, kept>>

\* The history of a listing ends when the index moves on after it.
Watch ==
  /\ IF reading
     THEN /\ kept' = (kept /\ NamesMatching(db.tables) \subseteq NamesMatching(db'.tables))
          /\ UNCHANGED <<begun, known>>
     ELSE /\ kept' = TRUE /\ begun' = {}
          /\ known' = IF query.method = "events" THEN known ELSE {}
  /\ UNCHANGED <<reading, cursor, offset, newest>>

Reader == StartTraversal \/ \E l \in Limit : ReadPage(l) \/ ListPage(l)

ApiInit ==
  /\ Init /\ query \in Query
  /\ reading = FALSE /\ cursor = 0 /\ offset = 0 /\ newest = 0 /\ known = {}
  /\ begun = {} /\ kept = TRUE

ApiNext ==
  /\ UNCHANGED query
  /\ \/ Reader /\ UNCHANGED vars
     \/ Next /\ IF query.method # "events" \/ IsPrefix(db.branch, db'.branch)
                THEN Watch ELSE StartOver

ApiSpec == ApiInit /\ [][ApiNext]_apiVars

-----------------------------------------------------------------------------
(* Properties.                                                             *)

\* A follower misses nothing and invents nothing: whatever was committed
\* between its pages, after a traversal it knows every event of its filter
\* up to its cursor.  New events enter the log above every event that was
\* there, since a commit holds whole blocks, and push later pages towards
\* repeats, never over a gap (events, core.rs:1106; clamp_pagination).
FollowerMissesNothing ==
  query.method = "events" =>
    LET log == {s \in Served(db.tables) : Matches(s, query.name, query.action)}
    IN  /\ known \subseteq log
        /\ ~reading => {s \in log : s.height <= cursor} \subseteq known

\* A listing of names has no gap: if no matching name was released or moved
\* away while it was read, every name that matched when it began is in it.
\* Names are claimed and updated meanwhile; their places in the listing
\* depend on nothing but the name (list_registrations, core.rs:1091, and
\* registrations_by_ua, core.rs:1070).
ListingHasNoGap == ~reading /\ kept => begun \subseteq known

\* What `resolve` answers for a name and the newest event served for it are
\* one record, or both say that the name is free: the names table and the
\* log tell one story at every commit, and no name is taken for an address
\* (resolve, events, classify_query).
NewestEventIsTheBinding ==
  \A n \in Name :
    LET story == EventLog(db.tables, n, NoFilter, 0)
    IN  {[name |-> r.name, address |-> r.address, txid |-> r.txid, height |-> r.height,
          action |-> r.last_action, at |-> Head(story).at] :
           r \in Resolve(db.tables, n, Default, 0)} =
          IF story = << >> \/ Head(story).action = "release" THEN {} ELSE {Head(story)}

\* The log is never refused as corrupt, and an implicit release is served
\* with the address of the binding it ended, the one whose nullifier it
\* stores (the join of events, core.rs:1126, and its check at core.rs:1146).
ImplicitReleaseNamesItsBinding ==
  \A i \in db.tables.implicit :
    \E e \in BindingEvents(db.tables, i) : e.note.nf = i.nf /\ e.note.action # "release"

\* The log only grows: "`events` exposes the append-only log"
\* (service.rs:23).
EventLogAppendOnly == [][Served(db.tables) \subseteq Served(db'.tables)]_db

\* The action index orders the actions of one name in one block: "Index of
\* this action within the block (for ordering when multiple actions for the
\* same name occur in one block)" (records.rs:36).
ActionIndexOrders ==
  \A e, f \in db.tables.events :
    e.note.name = f.note.name /\ e.at[1] = f.at[1] /\ Before(e.at, f.at)
      => ActionIndex[e.note.rcm] < ActionIndex[f.note.rcm]
=============
