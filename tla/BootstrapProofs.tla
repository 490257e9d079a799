-------------------------- MODULE BootstrapProofs ---------------------------
(***************************************************************************)
(* The file that Db::open leaves, for every set of registries and          *)
(* birthdays and any sequence of builds, crashes and power losses.         *)
(***************************************************************************)
EXTENDS Bootstrap, TLAPS

\* What holds of a file at rest, and of what a power loss makes of it.
Sound(f) ==
  /\ Marks \subseteq f.schema => Complete \subseteq f.schema
  /\ f.synced => /\ f.row \in Config
                 /\ f.scanned = {f.row.registry} /\ f.from = f.row.birthday
  /\ ~f.synced => f.scanned = {}
  /\ f.row = NoRow \/ f.row.registry \in Decodable

\* What the process has established when it is past a step.
Progress ==
  /\ pc # "down" => build.registry \in Decodable
  /\ pc \in {"config", "payments", "open", "serving"} => Complete \subseteq file.schema
  /\ pc \in {"payments", "open", "serving"} => /\ file.row \in Config
                                               /\ file.row.registry = build.registry
  /\ pc \in {"open", "serving"} => ~file.payments

IInv == TypeOK /\ Sound(file) /\ Sound(durable) /\ Progress

\* The statements of the schema, as sets.
LEMMA SchemaFacts ==
  /\ Complete = {"registry_account", "name_events", "names", "implicit_releases",
                 "anchor_facts", "application_id", "user_version"}
  /\ Len(SchemaSql) = 7 /\ DOMAIN SchemaSql = 1..7
  /\ \A i \in 1..7 : SchemaSql[i] \in Complete
  /\ SchemaSql[7] = "user_version"
  /\ \A i \in 1..6 : SchemaSql[i] # "user_version"
  /\ Complete = {SchemaSql[i] : i \in 1..7}
<1>1. Len(SchemaSql) = 7 /\ DOMAIN SchemaSql = 1..7
  BY DEF SchemaSql
<1>2. /\ SchemaSql[1] = "registry_account" /\ SchemaSql[2] = "name_events"
      /\ SchemaSql[3] = "names" /\ SchemaSql[4] = "implicit_releases"
      /\ SchemaSql[5] = "anchor_facts" /\ SchemaSql[6] = "application_id"
      /\ SchemaSql[7] = "user_version"
  BY DEF SchemaSql
<1>3. \A i \in 1..7 : i = 1 \/ i = 2 \/ i = 3 \/ i = 4 \/ i = 5 \/ i = 6 \/ i = 7
  OBVIOUS
<1>4. \A i \in 1..6 : i = 1 \/ i = 2 \/ i = 3 \/ i = 4 \/ i = 5 \/ i = 6
  OBVIOUS
<1>5. Complete = {SchemaSql[i] : i \in 1..7}
  BY <1>1 DEF Complete
<1>6. Complete = {"registry_account", "name_events", "names", "implicit_releases",
                  "anchor_facts", "application_id", "user_version"}
  BY <1>2, <1>3, <1>5
<1> QED
  BY <1>1, <1>2, <1>3, <1>4, <1>5, <1>6

\* One more statement of the schema: the marks come with the whole schema.
LEMMA InstallSound ==
  ASSUME NEW f \in File, Sound(f), NEW i \in DOMAIN SchemaSql,
         SchemaSql[i] \notin f.schema,
         \A j \in 1..(i - 1) : SchemaSql[j] \in f.schema,
         NEW g, g = [f EXCEPT !.schema = @ \cup {SchemaSql[i]}]
  PROVE  /\ g \in File /\ Sound(g)
         /\ i = Len(SchemaSql) => Complete \subseteq g.schema
<1>1. i \in 1..7 /\ SchemaSql[i] \in Complete
  BY SchemaFacts
<1>2. /\ g.schema = f.schema \cup {SchemaSql[i]} /\ g.row = f.row /\ g.synced = f.synced
      /\ g.scanned = f.scanned /\ g.from = f.from
  BY DEF File
<1>3. g \in File
  BY <1>1 DEF File
<1>4. i = 7 => Complete \subseteq g.schema
  <2>1. SUFFICES ASSUME i = 7 PROVE \A j \in 1..7 : SchemaSql[j] \in g.schema
    BY SchemaFacts
  <2>2. \A j \in 1..7 : j \in 1..(i - 1) \/ j = i
    BY <2>1
  <2> QED
    BY <1>2, <2>2
<1>5. ASSUME Marks \subseteq g.schema, i # 7 PROVE Complete \subseteq g.schema
  <2>1. "user_version" \in f.schema
    BY <1>1, <1>2, <1>5, SchemaFacts DEF Marks
  <2>2. CASE SchemaSql[i] = "application_id"
    <3>1. i = 6
      BY <1>1, <2>2 DEF SchemaSql
    <3>2. \A j \in 1..7 : j \in 1..(i - 1) \/ j = i \/ j = 7
      BY <3>1
    <3> QED
      BY <1>2, <2>1, <3>2, SchemaFacts
  <2>3. CASE SchemaSql[i] # "application_id"
    BY <1>2, <1>5, <2>1, <2>3 DEF Sound, Marks
  <2> QED
    BY <2>2, <2>3
<1> QED
  BY <1>2, <1>3, <1>4, <1>5, SchemaFacts DEF Sound

\* The first state is a file at rest.
LEMMA InitInv == Init => IInv
<1> SUFFICES ASSUME Init PROVE IInv
  OBVIOUS
<1>1. CASE file = EmptyFile
  BY <1>1, BootstrapAssumption, Zenon
     DEF Init, IInv, TypeOK, File, EmptyFile, Sound, Progress, Marks, NoRow
<1>2. CASE file = OtherFile
  BY <1>2, BootstrapAssumption
     DEF Init, IInv, TypeOK, File, OtherFile, EmptyFile, Sound, Progress, Marks, NoRow
<1>3. CASE \E c \in Runnable : file = EarlierFile(c)
  <2>1. PICK c \in Runnable : file = EarlierFile(c)
    BY <1>3
  <2>2. /\ file.schema = Complete /\ file.row = c /\ file.synced = TRUE
        /\ file.scanned = {c.registry} /\ file.from = c.birthday
    BY <2>1 DEF EarlierFile, EmptyFile
  <2>3. c \in Config /\ c.registry \in Decodable /\ c.birthday \in Nat
    BY <2>1, BootstrapAssumption DEF Config, Runnable
  <2>4. file \in File
    <3>1. {c.registry} \in SUBSET Registry
      BY <2>3 DEF Config
    <3> QED
      BY <2>1, <2>3, <3>1, Zenon DEF EarlierFile, EmptyFile, File
  <2> QED
    BY <2>1, <2>2, <2>3, <2>4 DEF Init, IInv, TypeOK, Sound, Progress
<1> QED
  BY <1>1, <1>2, <1>3 DEF Init

\* A commit of a sound file leaves two sound files.
LEMMA WriteSound ==
  ASSUME TypeOK, Sound(file), Sound(durable), NEW g \in File, Sound(g), Write(g)
  PROVE  /\ file' = g /\ file' \in File /\ durable' \in File
         /\ Sound(file') /\ Sound(durable')
<1>1. file' = g /\ (durable' = durable \/ durable' = g)
  BY DEF Write
<1>2. CASE durable' = durable
  BY <1>1, <1>2 DEF TypeOK, Sound
<1>3. CASE durable' = g
  BY <1>1, <1>3 DEF TypeOK, Sound
<1> QED
  BY <1>1, <1>2, <1>3

\* The batch commit keeps its flags Boolean.
LEMMA FlagsBoolean ==
  ASSUME NEW f \in File, NEW found \in BOOLEAN
  PROVE  (f.rows \/ found) \in BOOLEAN /\ TRUE \in BOOLEAN /\ FALSE \in BOOLEAN
  BY Zenon

\* Every step keeps the invariant.
LEMMA NextInv == IInv /\ [Next]_vars => IInv'
<1> SUFFICES ASSUME IInv, [Next]_vars PROVE IInv'
  OBVIOUS
<1> USE DEF IInv
<1>1. ASSUME NEW c \in Config, Start(c) PROVE IInv'
  BY <1>1 DEF Start, Runnable, Keep, TypeOK, Sound, Progress
<1>2. CASE BeginInstall
  BY <1>2 DEF BeginInstall, Keep, TypeOK, Sound, Progress
<1>3. ASSUME NEW i \in DOMAIN SchemaSql, Install(i) PROVE IInv'
  <2> DEFINE g == [file EXCEPT !.schema = @ \cup {SchemaSql[i]}]
  <2>1. /\ g \in File /\ Sound(g)
        /\ i = Len(SchemaSql) => Complete \subseteq g.schema
    BY <1>3, InstallSound DEF Install, TypeOK
  <2> HIDE DEF g
  <2>2. Write(g)
    BY <1>3 DEF Install, g
  <2>3. /\ file' = g /\ file' \in File /\ durable' \in File
        /\ Sound(file') /\ Sound(durable')
    BY <2>1, <2>2, WriteSound
  <2> QED
    BY <1>3, <2>1, <2>3 DEF Install, TypeOK, Progress
<1>4. CASE AcceptSchema
  BY <1>4 DEF AcceptSchema, Marked, Keep, TypeOK, Sound, Progress
<1>5. CASE RefuseSchema
  BY <1>5 DEF RefuseSchema, Keep, TypeOK, Sound, Progress
<1>6. CASE StoreConfig
  <2> DEFINE g == [file EXCEPT !.row = build]
  <2>1. ~file.synced
    <3>1. CASE file.row = NoRow
      BY <3>1, BootstrapAssumption DEF Sound, NoRow, Config
    <3>2. CASE ~ScanHasStarted
      BY <3>2 DEF ScanHasStarted
    <3> QED
      BY <1>6, <3>1, <3>2 DEF StoreConfig
  <2>2. g \in File /\ g.row = build /\ g.schema = file.schema /\ ~g.synced
        /\ g.scanned = file.scanned
    BY <2>1 DEF TypeOK, File
  <2>3. Sound(g)
    <3>1. build.registry \in Decodable
      BY <1>6 DEF StoreConfig, Progress
    <3> QED
      BY <2>1, <2>2, <3>1 DEF Sound
  <2> HIDE DEF g
  <2>4. Write(g)
    BY <1>6 DEF StoreConfig, g
  <2>5. /\ file' = g /\ file' \in File /\ durable' \in File
        /\ Sound(file') /\ Sound(durable')
    BY <2>2, <2>3, <2>4, WriteSound
  <2> QED
    BY <1>6, <2>2, <2>5 DEF StoreConfig, TypeOK, Progress
<1>7. CASE RefuseConfig
  BY <1>7 DEF RefuseConfig, Keep, TypeOK, Sound, Progress
<1>8. CASE KeepConfig
  <2>1. file.row \in Config /\ file.row.registry = build.registry
    BY <1>8 DEF KeepConfig, TypeOK, File
  <2> QED
    BY <1>8, <2>1 DEF KeepConfig, Keep, TypeOK, Sound, Progress
<1>9. CASE DropPaymentNotes
  <2> DEFINE g == [file EXCEPT !.payments = FALSE]
  <2>1. g \in File
    BY Zenon DEF TypeOK, File
  <2>2. /\ g.row = file.row /\ g.schema = file.schema /\ g.synced = file.synced
        /\ g.scanned = file.scanned /\ g.from = file.from /\ ~g.payments
    BY DEF TypeOK, File
  <2>3. Sound(g)
    BY <2>2 DEF Sound
  <2> HIDE DEF g
  <2>4. Write(g)
    BY <1>9 DEF DropPaymentNotes, g
  <2>5. /\ file' = g /\ file' \in File /\ durable' \in File
        /\ Sound(file') /\ Sound(durable')
    BY <2>1, <2>3, <2>4, WriteSound
  <2> QED
    BY <1>9, <2>2, <2>5 DEF DropPaymentNotes, TypeOK, Progress
<1>10. CASE ServeRpc
  BY <1>10 DEF ServeRpc, Keep, TypeOK, Sound, Progress
<1>11. ASSUME NEW found \in BOOLEAN, CommitBatch(found) PROVE IInv'
  <2> DEFINE first == IF file.synced THEN file.from ELSE file.row.birthday
             g == [file EXCEPT !.synced = TRUE, !.rows = @ \/ found,
                               !.scanned = @ \cup {build.registry}, !.from = first]
  <2>1. /\ file.row \in Config /\ file.row.registry = build.registry
        /\ file.row.registry \in Registry /\ file.row.birthday \in Nat
    BY <1>11, BootstrapAssumption DEF CommitBatch, Progress, Config
  <2>2. first = file.row.birthday /\ first \in Nat
    BY <2>1 DEF Sound
  <2>3. file.scanned \cup {build.registry} = {file.row.registry}
    BY <2>1 DEF Sound
  <2> HIDE DEF first
  <2>4. g \in File
    BY <2>1, <2>2, FlagsBoolean, Zenon DEF TypeOK, File
  <2>5. /\ g.row = file.row /\ g.schema = file.schema /\ g.synced
        /\ g.scanned = {file.row.registry} /\ g.from = file.row.birthday
        /\ g.payments = file.payments
    BY <2>2, <2>3 DEF TypeOK, File
  <2>6. Sound(g)
    BY <2>1, <2>5 DEF Sound
  <2>7. Write(g)
    BY <1>11 DEF CommitBatch, first
  <2> HIDE DEF g
  <2>8. /\ file' = g /\ file' \in File /\ durable' \in File
        /\ Sound(file') /\ Sound(durable')
    BY <2>4, <2>6, <2>7, WriteSound
  <2> QED
    BY <1>11, <2>5, <2>8 DEF CommitBatch, TypeOK, Progress
<1>12. CASE Stop
  BY <1>12 DEF Stop, Keep, TypeOK, Sound, Progress
<1>13. CASE PowerLoss
  BY <1>13 DEF PowerLoss, TypeOK, Sound, Progress
<1>14. CASE RemoveFile
  <2>1. EmptyFile \in File
    BY Zenon DEF EmptyFile, File
  <2>2. Sound(EmptyFile)
    BY DEF EmptyFile, Sound, Marks
  <2> QED
    BY <1>14, <2>1, <2>2 DEF RemoveFile, TypeOK, Progress
<1>15. CASE UNCHANGED vars
  BY <1>15 DEF vars, TypeOK, Sound, Progress
<1> QED
  BY <1>1, <1>2, <1>3, <1>4, <1>5, <1>6, <1>7, <1>8, <1>9, <1>10, <1>11, <1>12, <1>13,
     <1>14, <1>15 DEF Next, Open

\* The invariant holds in every state.
LEMMA Invariance == Spec => []IInv
  BY InitInv, NextInv, PTL DEF Spec

\* Every variable keeps its type.
THEOREM FileTyped == Spec => []TypeOK
<1>1. IInv => TypeOK
  BY DEF IInv
<1> QED
  BY <1>1, Invariance, PTL

\* A process that serves has the whole schema, no payment notes and the
\* index of its own registry, whatever stopped the openings before it.
THEOREM ServesOwn == Spec => []ServesItsOwnIndex
<1>1. IInv => ServesItsOwnIndex
  BY DEF IInv, Progress, ServesItsOwnIndex
<1> QED
  BY <1>1, Invariance, PTL

\* No index mixes two registries or has a gap below its checkpoint.
THEOREM OneScan == Spec => []IndexIsOfOneScan
<1>1. IInv => IndexIsOfOneScan
  BY DEF IInv, Sound, IndexIsOfOneScan
<1> QED
  BY <1>1, Invariance, PTL

\* A file with the whole schema is refused only to another registry.
THEOREM OwnIndexAccepted == Spec => []OwnIndexIsNeverRefused
<1> USE DEF OwnIndexIsNeverRefused
<1>1. Init => OwnIndexIsNeverRefused
  BY DEF Init
<1>2. OwnIndexIsNeverRefused /\ [Next]_vars => OwnIndexIsNeverRefused'
  <2> SUFFICES ASSUME OwnIndexIsNeverRefused, [Next]_vars, pc' = "refused",
                      Complete \subseteq file'.schema
               PROVE  file'.row.registry # build'.registry
    OBVIOUS
  <2>1. CASE RefuseSchema
    BY <2>1, SchemaFacts DEF RefuseSchema, Keep, Marked, Marks
  <2>2. CASE RefuseConfig
    BY <2>2 DEF RefuseConfig, Keep
  <2>3. CASE pc = "refused" /\ UNCHANGED vars
    BY <2>3 DEF vars
  <2> QED
    BY <2>1, <2>2, <2>3 DEF Next, Open, Start, BeginInstall, Install, AcceptSchema,
       StoreConfig, KeepConfig, DropPaymentNotes, ServeRpc, CommitBatch, Stop, PowerLoss,
       RemoveFile, vars
<1> QED
  BY <1>1, <1>2, PTL DEF Spec

\* No build leaves a key that does not decode in the file, nor in what a
\* power loss makes of it.
THEOREM KeyDecodes == Spec => []StoredKeyDecodes
<1>1. IInv => StoredKeyDecodes
  BY DEF IInv, Sound, StoredKeyDecodes
<1> QED
  BY <1>1, Invariance, PTL
=============================================================================
