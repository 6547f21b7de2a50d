----------------------------- MODULE IngestProofs -----------------------------
(***************************************************************************)
(* Proofs about the way of the nodes into the API's database, for any set  *)
(* of nodes, any drop age and any number of errors, crashes and restarts.  *)
(***************************************************************************)
EXTENDS Ingest, TLAPS

-----------------------------------------------------------------------------
(* Types.                                                                  *)

\* The clock never leaves its bound.
LEMMA LaterType ==
  ASSUME clock \in 0 .. MaxTime
  PROVE  Later \in 0 .. MaxTime /\ Later \in Time /\ Later >= clock
  BY IngestAssumption DEF IngestAssumption, Later, Time

\* What the upsert stores of a node is a name.
LEMMA NameType ==
  ASSUME NEW type \in Types
  PROVE  NameOf(type) \in Names
  BY DEF Types, Names, Parsed, NameOf

TablesType ==
  /\ clock \in 0 .. MaxTime
  /\ cdb \in [Ids -> Table!Row \cup {Absent}]
  /\ batch \in [Ids -> Table!Row \cup {Absent}]
  /\ adb \in [Ids -> ApiRow \cup {Absent}]
  /\ wRows \in [Ids -> Types \cup {Absent}]
  /\ wNow \in Time /\ lastCheck \in Time
  /\ seen \in [Ids -> Time] /\ put \in [Ids -> Time]

ProgramType ==
  /\ cFile \in Files /\ aFile \in Files
  /\ wPc \in {"off", "create", "idle", "writing"}
  /\ dPc \in {"down", "create", "read", "stamp", "insert", "sleep", "ended"}
  /\ spoilt \in BOOLEAN /\ errors \in 0 .. MaxErrors /\ crashes \in 0 .. MaxCrashes

LEMMA TypeParts == TypeOK <=> TablesType /\ ProgramType
  BY DEF TypeOK, TablesType, ProgramType

LEMMA InitType == Init => TablesType /\ ProgramType
<1> SUFFICES ASSUME Init PROVE TablesType /\ ProgramType
  OBVIOUS
<1>0. MaxTime \in Nat /\ MaxErrors \in Nat /\ MaxCrashes \in Nat /\ Never \in Time
  BY IngestAssumption DEF IngestAssumption, Time, Never
<1>1. TablesType
  BY <1>0 DEF Init, TablesType, Empty
<1>2. errors \in 0 .. MaxErrors /\ crashes \in 0 .. MaxCrashes
  BY <1>0 DEF Init
<1>3. spoilt \in BOOLEAN
  BY DEF Init
<1>4. QED
  BY <1>1, <1>2, <1>3 DEF Init, ProgramType, Files

LEMMA ProgramTypeStep == ProgramType /\ [Next]_vars => ProgramType'
<1> SUFFICES ASSUME ProgramType, [Next]_vars PROVE ProgramType'
  OBVIOUS
<1>0. MaxErrors \in Nat /\ MaxCrashes \in Nat
  BY IngestAssumption DEF IngestAssumption
<1>1. /\ cFile' \in Files /\ aFile' \in Files
      /\ wPc' \in {"off", "create", "idle", "writing"}
  <2>1. CASE Crawl
    BY <2>1 DEF Crawl, CrawlerStart, CrawlerTable, CommitWrite, WritePanics, CrawlerDies,
                BeginWrite, ProgramType, Files
  <2>2. CASE Daemon
    BY <2>2 DEF Daemon, Read, ReadCut, ReadFails, NoTable, Stamp, Insert, InsertFails, Sleep,
                ProgramType, crawlerVars, Files
  <2>3. CASE Main \/ Drop \/ DropPanics \/ Crash \/ UNCHANGED vars
    BY <2>3 DEF Main, Restart, ApiTable, Drop, DropPanics, Crash, Down, ProgramType,
                crawlerVars, vars, Files
  <2>4. QED
    BY <2>1, <2>2, <2>3 DEF Next
<1>2. dPc' \in {"down", "create", "read", "stamp", "insert", "sleep", "ended"}
  <2>1. CASE Daemon
    BY <2>1 DEF Daemon, Read, ReadCut, ReadFails, NoTable, Stamp, Insert, InsertFails, Sleep,
                Returned, Inserted
  <2>2. CASE Crawl \/ Main \/ Drop \/ DropPanics \/ Crash \/ UNCHANGED vars
    BY <2>2 DEF Crawl, CrawlerStart, CrawlerTable, CommitWrite, WritePanics, CrawlerDies,
                BeginWrite, Main, Restart, ApiTable, Drop, DropPanics, Crash, Down,
                ProgramType, daemonVars, vars
  <2>3. QED
    BY <2>1, <2>2 DEF Next
<1>3. errors' \in 0 .. MaxErrors /\ crashes' \in 0 .. MaxCrashes
  <2>1. CASE Crawl
    BY <1>0, <2>1 DEF Crawl, CrawlerStart, CrawlerTable, CommitWrite, WritePanics,
                      CrawlerDies, BeginWrite, ProgramType, faultVars
  <2>2. CASE Daemon
    BY <1>0, <2>2 DEF Daemon, Read, ReadCut, ReadFails, NoTable, Stamp, Insert, InsertFails,
                      Sleep, ProgramType, faultVars
  <2>3. CASE Main \/ Drop \/ DropPanics \/ Crash \/ UNCHANGED vars
    BY <1>0, <2>3 DEF Main, Restart, ApiTable, Drop, DropPanics, Crash, ProgramType,
                      faultVars, vars
  <2>4. QED
    BY <2>1, <2>2, <2>3 DEF Next
<1>4. spoilt' \in BOOLEAN
  <2>1. CASE Crawl
    BY <2>1 DEF Crawl, CrawlerStart, CrawlerTable, CommitWrite, WritePanics,
                CrawlerDies, BeginWrite, ProgramType, faultVars
  <2>2. CASE Daemon
    BY <2>2 DEF Daemon, Read, ReadCut, ReadFails, NoTable, Stamp, Insert, InsertFails,
                Sleep, ProgramType, faultVars
  <2>3. CASE Main \/ Drop \/ DropPanics \/ Crash \/ UNCHANGED vars
    BY <2>3 DEF Main, Restart, ApiTable, Drop, DropPanics, Crash, ProgramType, faultVars, vars
  <2>4. QED
    BY <2>1, <2>2, <2>3 DEF Next
<1>5. QED
  BY <1>1, <1>2, <1>3, <1>4 DEF ProgramType

LEMMA TablesTypeStep == TablesType /\ [Next]_vars => TablesType'
<1> SUFFICES ASSUME TablesType, [Next]_vars PROVE TablesType'
  OBVIOUS
<1>0. Later \in 0 .. MaxTime /\ Later \in Time
  BY LaterType DEF TablesType
<1>1. CASE Crawl
  <2>1. Empty \in [Ids -> Types \cup {Absent}]
    BY DEF Empty
  <2>2. CASE CrawlerStart \/ CrawlerTable \/ WritePanics \/ CrawlerDies
    BY <2>1, <2>2 DEF CrawlerStart, CrawlerTable, WritePanics, CrawlerDies, TablesType,
                      daemonVars, faultVars
  <2>3. ASSUME NEW set \in [Ids -> Types \cup {Absent}], BeginWrite(set)
        PROVE TablesType'
    BY <1>0, <2>3 DEF BeginWrite, TablesType, daemonVars
  <2>4. CASE CommitWrite
    <3>1. cdb' \in [Ids -> Table!Row \cup {Absent}]
      BY <2>4 DEF CommitWrite, TablesType, Table!Replace, Table!Row
    <3>2. QED
      BY <2>1, <2>4, <3>1 DEF CommitWrite, TablesType, daemonVars
  <2>5. QED
    BY <1>1, <2>2, <2>3, <2>4 DEF Crawl
<1>2. CASE Daemon
  <2>1. ASSUME NEW ids \in SUBSET {id \in Ids : Recent(id)}, Returned(ids),
               UNCHANGED <<clock, crawlerVars, lastCheck, put, adb>>
        PROVE  TablesType'
    <3>1. batch' \in [Ids -> Table!Row \cup {Absent}]
      BY <2>1 DEF Returned, TablesType
    <3>2. seen' \in [Ids -> Time]
      BY <2>1 DEF Returned, Recent, TablesType, Table!Row
    <3>3. QED
      BY <2>1, <3>1, <3>2 DEF TablesType, crawlerVars
  <2>2. CASE Read
    BY <2>1, <2>2 DEF Read
  <2>3. CASE ReadCut
    BY <2>1, <2>3 DEF ReadCut
  <2>4. CASE ReadFails \/ NoTable \/ InsertFails
    BY <2>4 DEF ReadFails, NoTable, InsertFails, TablesType, crawlerVars
  <2>5. CASE Stamp
    BY <1>0, <2>5 DEF Stamp, TablesType, crawlerVars
  <2>6. CASE Sleep
    BY <2>6 DEF Sleep, TablesType, crawlerVars, Empty
  <2>7. CASE Insert
    <3>1. \A id \in Ids : batch[id] # Absent =>
            /\ batch[id] \in Table!Row
            /\ batch[id].now \in Time /\ NameOf(batch[id].e) \in Names
      BY NameType DEF TablesType, Table!Row
    <3>2. adb' \in [Ids -> ApiRow \cup {Absent}]
      BY <1>0, <2>7, <3>1 DEF Insert, Inserted, TablesType, ApiRow
    <3>3. put' \in [Ids -> Time]
      BY <2>7, <3>1 DEF Insert, Inserted, TablesType
    <3>4. QED
      BY <1>0, <2>7, <3>2, <3>3 DEF Insert, Inserted, TablesType, crawlerVars
  <2>8. QED
    BY <1>2, <2>2, <2>3, <2>4, <2>5, <2>6, <2>7 DEF Daemon
<1>3. CASE Main
  BY <1>3, IngestAssumption DEF Main, Restart, ApiTable, TablesType, crawlerVars, Time, Never,
                                IngestAssumption
<1>4. CASE Drop
  BY <1>4 DEF Drop, TablesType, crawlerVars, daemonVars
<1>5. CASE DropPanics \/ Crash
  BY <1>5 DEF DropPanics, Crash, Down, TablesType, crawlerVars, Empty
<1>6. CASE UNCHANGED vars
  BY <1>6 DEF vars, TablesType, crawlerVars, daemonVars
<1>7. QED
  BY <1>1, <1>2, <1>3, <1>4, <1>5, <1>6 DEF Next

\* Type correctness of the ingestion.
THEOREM TypeCorrect == Spec => []TypeOK
  BY InitType, TypeParts, TablesTypeStep, ProgramTypeStep, PTL DEF Spec

-----------------------------------------------------------------------------
(* The tables.                                                             *)

\* While nothing is spoilt a file without its table is in the hands of the
\* program that made the file.
FilesOK ==
  /\ cFile = "missing" => wPc = "off"
  /\ cFile = "empty" <=> wPc = "create"
  /\ aFile = "missing" => dPc = "down"
  /\ aFile = "empty" <=> dPc = "create"
  /\ Running => cFile = "ready" \/ dPc = "read"

FilesInv == ProgramType /\ (spoilt \/ FilesOK)

LEMMA FilesStep == FilesInv /\ [Next]_vars => FilesInv'
<1> SUFFICES ASSUME ProgramType, spoilt \/ FilesOK, [Next]_vars
             PROVE  spoilt' \/ FilesOK'
  BY ProgramTypeStep DEF FilesInv
<1>1. spoilt => spoilt'
  BY DEF Next, Crawl, CrawlerStart, CrawlerTable, CommitWrite, WritePanics, CrawlerDies,
         BeginWrite, Daemon, Read, ReadCut, ReadFails, NoTable, Stamp, Insert, InsertFails,
         Sleep, Main, Restart, ApiTable, Drop, DropPanics, Crash, vars, faultVars
<1> SUFFICES ASSUME FilesOK PROVE spoilt' \/ FilesOK'
  BY <1>1
<1>2. CASE Crawl
  BY <1>2 DEF Crawl, CrawlerStart, CrawlerTable, CommitWrite, WritePanics, CrawlerDies,
              BeginWrite, ProgramType, daemonVars, faultVars, Files, FilesOK, Running
<1>3. CASE Daemon
  BY <1>3 DEF Daemon, Read, ReadCut, ReadFails, NoTable, Stamp, Insert, InsertFails, Sleep,
              Returned, Inserted, ProgramType, crawlerVars, faultVars, Files, FilesOK, Running
<1>4. CASE Main \/ Drop \/ DropPanics \/ Crash
  BY <1>4 DEF Main, Restart, ApiTable, Drop, DropPanics, Crash, Down, ProgramType,
              crawlerVars, daemonVars, faultVars, Files, FilesOK, Running
<1>5. CASE UNCHANGED vars
  BY <1>5 DEF vars, FilesOK, Running, crawlerVars, daemonVars
<1>6. QED
  BY <1>2, <1>3, <1>4, <1>5 DEF Next

\* Started in the order of the README, neither program ever works on a database
\* without its table, whatever crashes, restarts and errors there are.
THEOREM TablesAlwaysThere == Spec => []TablesThere
<1>1. Init => FilesInv
  BY InitType DEF Init, FilesInv, FilesOK, Running
<1>2. FilesInv => TablesThere
  BY DEF FilesInv, FilesOK, ProgramType, Files, TablesThere, Running
<1>3. QED
  BY <1>1, <1>2, FilesStep, PTL DEF Spec

-----------------------------------------------------------------------------
(* What has been read is put.                                              *)

CaughtUp == \A id \in Ids : put[id] >= seen[id]

Held ==
  \A id \in Ids : IF batch[id] = Absent THEN put[id] >= seen[id]
                  ELSE batch[id].now = seen[id]

ReadOK ==
  /\ dPc \in {"down", "create"} => CaughtUp
  /\ errors = 0 /\ aFile = "ready" => IF dPc \in {"stamp", "insert"} THEN Held ELSE CaughtUp

ReadInv == TablesType /\ ProgramType /\ ReadOK

LEMMA ReadStep == ReadInv /\ [Next]_vars => ReadInv'
<1> SUFFICES ASSUME TablesType, ProgramType, ReadOK, [Next]_vars PROVE ReadOK'
  BY TablesTypeStep, ProgramTypeStep DEF ReadInv
<1>1. CASE Crawl \/ Drop \/ UNCHANGED vars
  BY <1>1 DEF Crawl, CrawlerStart, CrawlerTable, CommitWrite, WritePanics, CrawlerDies,
              BeginWrite, Drop, vars, daemonVars, faultVars, ReadOK, CaughtUp, Held
<1>2. CASE Read
  BY <1>2 DEF Read, Returned, Recent, ReadOK, CaughtUp, Held, TablesType, Table!Row, faultVars
<1>3. CASE ReadCut \/ ReadFails
  BY <1>3 DEF ReadCut, ReadFails, Returned, ReadOK, ProgramType
<1>4. CASE NoTable
  BY <1>4 DEF NoTable, ReadOK, CaughtUp
<1>5. CASE Stamp
  <2>1. batch = Empty => (Held => CaughtUp)
    BY DEF Empty, Held, CaughtUp
  <2>2. QED
    BY <1>5, <2>1 DEF Stamp, ReadOK, CaughtUp, Held, faultVars
<1>6. CASE Insert
  <2>1. dPc = "insert" /\ dPc' = "sleep" /\ seen' = seen /\ errors' = errors /\ aFile' = aFile
    BY <1>6 DEF Insert, Inserted, faultVars
  <2>2. \A id \in Ids : put'[id] = IF batch[id] # Absent THEN batch[id].now ELSE put[id]
    BY <1>6 DEF Insert, Inserted
  <2>3. Held => CaughtUp'
    BY <2>1, <2>2 DEF Held, CaughtUp, TablesType, Time, Never
  <2>4. QED
    BY <2>1, <2>3 DEF ReadOK
<1>7. CASE InsertFails
  BY <1>7 DEF InsertFails, ReadOK, ProgramType
<1>8. CASE Sleep
  BY <1>8 DEF Sleep, ReadOK, CaughtUp, faultVars
<1>9. CASE Main
  BY <1>9 DEF Main, Restart, ApiTable, ReadOK, CaughtUp, ProgramType, faultVars, Files
<1>10. CASE DropPanics \/ Crash
  BY <1>10 DEF DropPanics, Crash, Down, ReadOK, CaughtUp, TablesType, Time, Never
<1>11. QED
  BY <1>1, <1>2, <1>3, <1>4, <1>5, <1>6, <1>7, <1>8, <1>9, <1>10 DEF Next, Daemon

\* When the daemon reads again, all it has read before is in the database.
THEOREM ReadAlwaysPut == Spec => []ReadIsPut
<1>1. Init => ReadInv
  BY InitType DEF Init, ReadInv, ReadOK, CaughtUp, Never
<1>2. ReadInv => ReadIsPut
  BY DEF ReadInv, ReadOK, CaughtUp, ReadIsPut
<1>3. QED
  BY <1>1, <1>2, ReadStep, PTL DEF Spec
=============================================================================
