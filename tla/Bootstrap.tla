----------------------------- MODULE Bootstrap ------------------------------
(***************************************************************************)
(* Opening the database: Db::open of src/src/registry.rs, which installs   *)
(* the schema (storage.rs), settles whose index the file is, and removes   *)
(* payment notes (core.rs).  None of it runs in one SQL transaction: every *)
(* statement commits by itself, and the process may stop, or the power     *)
(* fail, between any two.  The next process may be another build, with     *)
(* another viewing key, network or birthday.  main.rs decodes the key      *)
(* before, and binds the RPC address after.                                *)
(*                                                                         *)
(* One process uses the file at a time.                                    *)
(***************************************************************************)
EXTENDS Sequences, Naturals

CONSTANTS
  Registry,   \* a viewing key and its network
  Decodable,  \* those whose key decodes and has an Orchard component
  Birthday    \* birthday heights

ASSUME BootstrapAssumption ==
  Birthday \subseteq Nat /\ "none" \notin Registry /\ Decodable \subseteq Registry

\* What a build is compiled with, and what the account row stores.
Config   == [registry : Registry, birthday : Birthday]
Runnable == {c \in Config : c.registry \in Decodable}

NoRow == [registry |-> "none", birthday |-> 0]

VARIABLES
  file,     \* the database file
  durable,  \* what a power loss would leave of it
  pc,       \* where the process is
  build     \* the configuration of the process

vars == <<file, durable, pc, build>>

\* Mutant: the marks come first.
MarkedFirst ==
  <<"application_id", "user_version", "registry_account", "name_events", "names",
    "implicit_releases", "anchor_facts">>

\* SCHEMA_SQL: the tables, an index with its table, then the marks.
SchemaSql ==
  <<"registry_account", "name_events", "names", "implicit_releases", "anchor_facts",
    "application_id", "user_version">>

Marks == {"application_id", "user_version"}

Complete == {SchemaSql[i] : i \in DOMAIN SchemaSql}

(***************************************************************************)
(* A file has                                                              *)
(*   schema    the statements of the schema it holds, or "other" objects   *)
(*   row       the account row                                             *)
(*   synced    whether sync_height is set                                  *)
(*   rows      whether there are events, names, releases or anchor facts   *)
(*   payments  whether an earlier build left payment notes in it           *)
(*   scanned   history: the registries blocks were scanned for             *)
(*   from      history: the height the first scan started from             *)
(***************************************************************************)
File ==
  [schema : SUBSET (Complete \cup {"other"}), row : Config \cup {NoRow},
   synced : BOOLEAN, rows : BOOLEAN, payments : BOOLEAN,
   scanned : SUBSET Registry, from : Nat]

EmptyFile ==
  [schema |-> {}, row |-> NoRow, synced |-> FALSE, rows |-> FALSE, payments |-> FALSE,
   scanned |-> {}, from |-> 0]

\* Left by a program with another schema, or by a build that kept payments.
OtherFile == [EmptyFile EXCEPT !.schema = {"other"}]
EarlierFile(c) ==
  [EmptyFile EXCEPT !.schema = Complete, !.row = c, !.synced = TRUE, !.rows = TRUE,
                    !.payments = TRUE, !.scanned = {c.registry}, !.from = c.birthday]

Init ==
  /\ file \in {EmptyFile, OtherFile} \cup {EarlierFile(c) : c \in Runnable}
  /\ durable = file
  /\ pc = "down" /\ build \in Config

\* A commit; the order of commits survives a power loss, the last may not.
Write(new) == file' = new /\ durable' \in {durable, new}

Keep == UNCHANGED <<file, durable>>

-----------------------------------------------------------------------------
(* install_schema.                                                         *)

\* Mutant: the file is opened before the key is decoded.
StartUndecoded(c) ==
  /\ pc = "down"
  /\ build' = c /\ pc' = "schema"
  /\ Keep

\* A key that does not decode is a panic, and the file is not opened.
Start(c) ==
  /\ pc = "down" /\ c \in Runnable
  /\ build' = c /\ pc' = "schema"
  /\ Keep

Marked == Marks \subseteq file.schema

\* An empty file gets the schema.
BeginInstall ==
  /\ pc = "schema" /\ file.schema = {}
  /\ pc' = "installing"
  /\ UNCHANGED build /\ Keep

\* The next statement of execute_batch.
Install(i) ==
  /\ pc = "installing"
  /\ SchemaSql[i] \notin file.schema
  /\ \A j \in 1..(i - 1) : SchemaSql[j] \in file.schema
  /\ Write([file EXCEPT !.schema = @ \cup {SchemaSql[i]}])
  /\ pc' = (IF i = Len(SchemaSql) THEN "config" ELSE "installing")
  /\ UNCHANGED build

AcceptSchema ==
  /\ pc = "schema" /\ Marked
  /\ pc' = "config"
  /\ UNCHANGED build /\ Keep

RefuseSchema ==
  /\ pc = "schema" /\ file.schema # {} /\ ~Marked
  /\ pc' = "refused"
  /\ UNCHANGED build /\ Keep

-----------------------------------------------------------------------------
(* install_registry_config.                                                *)

\* Mutant: a checkpoint is not taken for a scan.
RowsWereStored == file.rows \/ file.payments

ScanHasStarted == file.synced \/ file.rows \/ file.payments

\* The row is missing, or nothing was scanned: the build's configuration.
StoreConfig ==
  /\ pc = "config"
  /\ file.row = NoRow \/ (file.row # build /\ ~ScanHasStarted)
  /\ Write([file EXCEPT !.row = build])
  /\ pc' = "payments"
  /\ UNCHANGED build

\* Mutant: the whole configuration has to match.
RefuseOtherConfig ==
  /\ pc = "config" /\ file.row # NoRow /\ ScanHasStarted
  /\ file.row # build
  /\ pc' = "refused"
  /\ UNCHANGED build /\ Keep

\* A scanned file of another registry.
RefuseConfig ==
  /\ pc = "config" /\ file.row # NoRow /\ ScanHasStarted
  /\ file.row.registry # build.registry
  /\ pc' = "refused"
  /\ UNCHANGED build /\ Keep

\* The same configuration, or another birthday, which is ignored.
KeepConfig ==
  /\ pc = "config" /\ file.row # NoRow
  /\ file.row = build \/ (ScanHasStarted /\ file.row.registry = build.registry)
  /\ pc' = "payments"
  /\ UNCHANGED build /\ Keep

DropPaymentNotes ==
  /\ pc = "payments"
  /\ Write([file EXCEPT !.payments = FALSE])
  /\ pc' = "open"
  /\ UNCHANGED build

-----------------------------------------------------------------------------
(* What follows.                                                           *)

\* serve_rpc binds its address; when it cannot, the process stops.
ServeRpc ==
  /\ pc = "open"
  /\ pc' = "serving"
  /\ UNCHANGED build /\ Keep

\* A batch, with registry transactions in it or none.  The first one starts
\* at the stored birthday and every one is scanned with the build's key.
CommitBatch(found) ==
  /\ pc = "serving"
  /\ Write([file EXCEPT !.synced  = TRUE,
                        !.rows    = @ \/ found,
                        !.scanned = @ \cup {build.registry},
                        !.from    = IF file.synced THEN @ ELSE file.row.birthday])
  /\ UNCHANGED <<pc, build>>

\* The process ends, by a crash, an error exit or a deployment.
Stop ==
  /\ pc # "down" /\ pc' = "down"
  /\ UNCHANGED build /\ Keep

PowerLoss ==
  /\ file' = durable /\ pc' = "down"
  /\ UNCHANGED <<durable, build>>

\* The operator removes a file that was refused.
RemoveFile ==
  /\ pc = "refused"
  /\ file' = EmptyFile /\ durable' = EmptyFile
  /\ pc' = "down"
  /\ UNCHANGED build

Open == \/ BeginInstall \/ (\E i \in DOMAIN SchemaSql : Install(i))
        \/ AcceptSchema \/ RefuseSchema
        \/ StoreConfig \/ RefuseConfig \/ KeepConfig \/ DropPaymentNotes
        \/ ServeRpc

Next == \/ \E c \in Config : Start(c)
        \/ Open
        \/ \E found \in BOOLEAN : CommitBatch(found)
        \/ Stop \/ PowerLoss \/ RemoveFile

Spec == Init /\ [][Next]_vars

-----------------------------------------------------------------------------
(* Properties.                                                             *)

\* Every variable holds a value of its kind.
TypeOK ==
  /\ file \in File /\ durable \in File
  /\ pc \in {"down", "schema", "installing", "config", "payments", "open", "serving", "refused"}
  /\ build \in Config

\* Whatever stopped earlier openings, a process that serves has every table,
\* no payment notes, and the index of its own registry (Db::open).
ServesItsOwnIndex ==
  /\ pc \in {"config", "payments", "open", "serving"} => Complete \subseteq file.schema
  /\ pc \in {"open", "serving"} => /\ ~file.payments
                                   /\ file.row.registry = build.registry

\* All blocks under a checkpoint were scanned for the registry of the
\* account row and from its birthday, through any change of build: no index
\* mixes two registries or has a gap below its checkpoint (scan_has_started,
\* core.rs:107).
IndexIsOfOneScan ==
  file.synced => file.scanned = {file.row.registry} /\ file.from = file.row.birthday

\* A file with the whole schema is refused only to another registry: a new
\* build with another birthday goes on with the index.
OwnIndexIsNeverRefused ==
  pc = "refused" /\ Complete \subseteq file.schema
    => file.row.registry # build.registry

\* No file ever names a registry whose key does not decode, so that a bad
\* deployment leaves nothing for the next one to refuse ("a bad key panics
\* here and never poisons the registry_account row", main.rs:80).
StoredKeyDecodes ==
  \A f \in {file, durable} : f.row = NoRow \/ f.row.registry \in Decodable
=============================================================================
