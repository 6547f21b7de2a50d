------------------------------- MODULE Ingest -------------------------------
(***************************************************************************)
(* How nodes get from the crawler's database into the API's: updateNodes   *)
(* (crawler/db.go) writes a round in one transaction, newNodeDeamon        *)
(* (api/main.go) polls with ReadRecentNodes (api/input/crawlerdb.go) and   *)
(* writes with InsertCrawledNodes, dropDeamon removes what is old          *)
(* (api/database.go).  Each program makes its own database at its first    *)
(* start.  They share nothing but the file of the crawler's database; both *)
(* compare readings of the same wall clock.                                *)
(***************************************************************************)
EXTENDS Integers, FiniteSets

CONSTANTS Ids,        \* node identifiers
          Absent,     \* no row
          DropAge,    \* the drop-time flag
          MaxTime,    \* bound on the clock: it stands still from there on
          MaxErrors,  \* bound on the database errors of the API program
          MaxCrashes  \* bound on the crashes of the two programs

ASSUME IngestAssumption ==
  /\ DropAge \in Nat /\ MaxTime \in Nat
  /\ MaxErrors \in Nat /\ MaxCrashes \in Nat

VARIABLES
  clock,     \* the last reading of the wall clock
  cFile,     \* the crawler's database: "missing", "empty" (a file without table), "ready"
  wPc,       \* the crawler: "off", "create", "idle", or "writing", between time.Now and Commit
  wNow,      \* the now of updateNodes
  wRows,     \* its uncommitted rows: the client type of each node
  cdb,       \* the nodes table of the crawler
  aFile,     \* the API's database: as cFile
  dPc,       \* newNodeDeamon: "read", "stamp", "insert", "sleep", "ended";
             \* "down" and "create" before main has started it
  lastCheck, \* its cursor
  batch,     \* the rows it has read
  adb,       \* the nodes table of the API
  seen,      \* the newest row of a node that the daemon has read
  put,       \* the newest row of a node that it has given to the upsert
  spoilt,    \* the API read before the crawler's table was there, or a
             \* program died while it made its table
  errors,    \* database errors so far
  crashes    \* crashes so far

crawlerVars == <<wPc, wNow, wRows, cdb>>
daemonVars  == <<dPc, lastCheck, batch, seen, put>>
faultVars   == <<spoilt, errors, crashes>>
vars == <<clock, cFile, crawlerVars, aFile, daemonVars, adb, faultVars>>

\* time.Time{}
Never == -1
Time == -1 .. MaxTime

\* A reading of the clock is later than every earlier reading.
Later == IF clock < MaxTime THEN clock + 1 ELSE clock

\* ClientType as updateNodes writes it: the name a peer gives itself, "" of a
\* node that was not probed, "NA".  The text of an error, which a failed probe
\* puts there, meets the conditions below as "" does.
Types == {"Geth", "unknown", "NA", ""}
Names == {"geth", "unknown", "na", "", "error string"}

\* The name that ParseVersionString makes of it.
Parsed == [type \in Types |-> CASE type = "Geth" -> "geth"
                                [] type = "NA"   -> "na"
                                [] OTHER         -> type]

\* A variant that stores the type as it is.
Unparsed(type) == type

\* The name InsertCrawledNodes stores; it looks for "NA" in lower-case names.
NameOf(type) == IF Parsed[type] = "NA" THEN "error string" ELSE Parsed[type]

\* The crawler's table: CrawlNodes implements this specification.
Table == INSTANCE NodesTable WITH rows <- cdb, Entries <- Types, Times <- Time

ApiRow == [name : Names, crawled : Time]
Files  == {"missing", "empty", "ready"}
Empty  == [id \in Ids |-> Absent]

Init ==
  /\ clock = 0
  /\ cFile = "missing" /\ wPc = "off" /\ wNow = Never /\ wRows = Empty
  /\ cdb = Empty
  /\ aFile = "missing" /\ dPc = "down" /\ lastCheck = Never /\ batch = Empty
  /\ adb = Empty
  /\ seen = [id \in Ids |-> Never] /\ put = [id \in Ids |-> Never]
  /\ spoilt = FALSE /\ errors = 0 /\ crashes = 0

-----------------------------------------------------------------------------
(* The crawler: crawlNodes makes the table, updateNodes fills it.          *)

\* A variant of CrawlerStart that opens the database before it looks for it.
CrawlerOpens ==
  /\ wPc = "off"
  /\ cFile' = IF cFile = "missing" THEN "empty" ELSE cFile
  /\ wPc' = "idle"
  /\ UNCHANGED <<clock, wNow, wRows, cdb, aFile, daemonVars, adb, faultVars>>

\* A file that is there is taken for a whole database; otherwise the first
\* statement makes the file.
CrawlerStart ==
  /\ wPc = "off"
  /\ cFile' = IF cFile = "missing" THEN "empty" ELSE cFile
  /\ wPc' = IF cFile = "missing" THEN "create" ELSE "idle"
  /\ UNCHANGED <<clock, wNow, wRows, cdb, aFile, daemonVars, adb, faultVars>>

CrawlerTable ==
  /\ wPc = "create"
  /\ cFile' = "ready"
  /\ wPc' = "idle"
  /\ UNCHANGED <<clock, wNow, wRows, cdb, aFile, daemonVars, adb, faultVars>>

\* now := time.Now(), and the transaction with the rows of a round.
BeginWrite(rows) ==
  /\ wPc = "idle"
  /\ clock' = Later
  /\ wPc' = "writing"
  /\ wNow' = clock'
  /\ wRows' = rows
  /\ UNCHANGED <<cFile, cdb, aFile, daemonVars, adb, faultVars>>

CommitWrite ==
  /\ wPc = "writing"
  /\ cFile = "ready"
  /\ Table!Replace(wRows, wNow)
  /\ wPc' = "idle"
  /\ wRows' = Empty
  /\ UNCHANGED <<clock, cFile, wNow, aFile, daemonVars, adb, faultVars>>

\* Without a table Prepare fails, and crawlRound panics.
WritePanics ==
  /\ wPc = "writing"
  /\ cFile # "ready"
  /\ wPc' = "off"
  /\ wRows' = Empty
  /\ UNCHANGED <<clock, cFile, wNow, cdb, aFile, daemonVars, adb, faultVars>>

\* The crawler is killed, or panics over another error of its database: the
\* transaction is rolled back.
CrawlerDies ==
  /\ wPc # "off"
  /\ crashes < MaxCrashes
  /\ crashes' = crashes + 1
  /\ spoilt' = (spoilt \/ wPc = "create")
  /\ wPc' = "off"
  /\ wRows' = Empty
  /\ UNCHANGED <<clock, cFile, wNow, cdb, aFile, daemonVars, adb, errors>>

-----------------------------------------------------------------------------
(* The API program: main makes the table; newNodeDeamon.                   *)

\* A variant of Restart that keeps the cursor of the process that crashed.
RestartAtCursor ==
  /\ dPc = "down"
  /\ aFile' = IF aFile = "missing" THEN "empty" ELSE aFile
  /\ dPc' = IF aFile = "missing" THEN "create" ELSE "read"
  /\ UNCHANGED <<clock, cFile, crawlerVars, lastCheck, batch, seen, put, adb, faultVars>>

\* main.  The cursor is not stored: a new process reads everything again.
Restart ==
  /\ dPc = "down"
  /\ aFile' = IF aFile = "missing" THEN "empty" ELSE aFile
  /\ dPc' = IF aFile = "missing" THEN "create" ELSE "read"
  /\ lastCheck' = Never
  /\ UNCHANGED <<clock, cFile, crawlerVars, batch, seen, put, adb, faultVars>>

ApiTable ==
  /\ dPc = "create"
  /\ aFile' = "ready"
  /\ dPc' = "read"
  /\ UNCHANGED <<clock, cFile, crawlerVars, lastCheck, batch, seen, put, adb, faultVars>>

\* ReadRecentNodes: SELECT ... WHERE Now > lastCheck.
Recent(id) == cdb[id] # Absent /\ cdb[id].now > lastCheck

\* The rows of a set of nodes are read.
Returned(ids) ==
  /\ batch' = [id \in Ids |-> IF id \in ids THEN cdb[id] ELSE Absent]
  /\ seen' = [id \in Ids |-> IF id \in ids THEN cdb[id].now ELSE seen[id]]
  /\ dPc' = "stamp"

Read ==
  /\ dPc = "read"
  /\ cFile = "ready"
  /\ Returned({id \in Ids : Recent(id)})
  /\ UNCHANGED <<clock, cFile, crawlerVars, aFile, lastCheck, put, adb, faultVars>>

\* rows.Next stops at an error and nobody asks rows.Err: what came so far is
\* taken for the whole answer.
ReadCut ==
  /\ dPc = "read"
  /\ cFile = "ready"
  /\ errors < MaxErrors
  /\ errors' = errors + 1
  /\ \E ids \in SUBSET {id \in Ids : Recent(id)} : Returned(ids)
  /\ UNCHANGED <<clock, cFile, crawlerVars, aFile, lastCheck, put, adb, spoilt, crashes>>

\* An error ends the daemon; main waits for the other two and goes on.
ReadFails ==
  /\ dPc = "read"
  /\ cFile = "ready"
  /\ errors < MaxErrors
  /\ errors' = errors + 1
  /\ dPc' = "ended"
  /\ UNCHANGED <<clock, cFile, crawlerVars, aFile, lastCheck, batch, seen, put, adb,
                 spoilt, crashes>>

\* So does a database without the table.  The query makes the file, which the
\* crawler then takes for its database.
NoTable ==
  /\ dPc = "read"
  /\ cFile # "ready"
  /\ cFile' = "empty"
  /\ dPc' = "ended"
  /\ spoilt' = TRUE
  /\ UNCHANGED <<clock, crawlerVars, aFile, lastCheck, batch, seen, put, adb, errors, crashes>>

\* lastCheck = time.Now()
Stamp ==
  /\ dPc = "stamp"
  /\ clock' = Later
  /\ lastCheck' = clock'
  /\ dPc' = IF batch = Empty THEN "sleep" ELSE "insert"
  /\ UNCHANGED <<cFile, crawlerVars, aFile, batch, seen, put, adb, faultVars>>

\* ON CONFLICT DO UPDATE ... WHERE name = excluded.name OR excluded.name != "unknown"
Upserted(id) ==
  \/ adb[id] = Absent
  \/ adb[id].name = NameOf(batch[id].e)
  \/ NameOf(batch[id].e) # "unknown"

\* The rows of a set of nodes are given to the upsert.
Inserted(ids) ==
  /\ clock' = Later
  /\ adb' = [id \in Ids |-> IF id \in ids /\ Upserted(id)
                            THEN [name |-> NameOf(batch[id].e), crawled |-> clock']
                            ELSE adb[id]]
  /\ put' = [id \in Ids |-> IF id \in ids THEN batch[id].now ELSE put[id]]
  /\ dPc' = "sleep"

\* A variant that inserts only nodes the API does not have yet.
InsertNew ==
  /\ dPc = "insert"
  /\ aFile = "ready"
  /\ Inserted({id \in Ids : batch[id] # Absent /\ adb[id] = Absent})
  /\ UNCHANGED <<cFile, crawlerVars, aFile, lastCheck, batch, seen, faultVars>>

Insert ==
  /\ dPc = "insert"
  /\ aFile = "ready"
  /\ Inserted({id \in Ids : batch[id] # Absent})
  /\ UNCHANGED <<cFile, crawlerVars, aFile, lastCheck, batch, seen, faultVars>>

\* Begin, Prepare or Commit fails, Prepare always without a table: the daemon
\* prints the error and goes on.
InsertFails ==
  /\ dPc = "insert"
  /\ \/ aFile # "ready" /\ UNCHANGED errors
     \/ errors < MaxErrors /\ errors' = errors + 1
  /\ dPc' = "sleep"
  /\ UNCHANGED <<clock, cFile, crawlerVars, aFile, lastCheck, batch, seen, put, adb,
                 spoilt, crashes>>

Sleep ==
  /\ dPc = "sleep"
  /\ dPc' = "read"
  /\ batch' = Empty
  /\ UNCHANGED <<clock, cFile, crawlerVars, aFile, lastCheck, seen, put, adb, faultVars>>

-----------------------------------------------------------------------------
(* dropDeamon, and the life of the process.                                *)

Old(id) == adb[id] # Absent /\ adb[id].crawled < clock - DropAge

Running == dPc \notin {"down", "create"}

Drop ==
  /\ Running
  /\ \E id \in Ids : Old(id)
  /\ adb' = [id \in Ids |-> IF Old(id) THEN Absent ELSE adb[id]]
  /\ UNCHANGED <<clock, cFile, crawlerVars, aFile, daemonVars, faultVars>>

\* The process is gone.  All it has read and not written is forgotten.
Down ==
  /\ dPc' = "down"
  /\ batch' = Empty
  /\ seen' = put
  /\ UNCHANGED <<clock, cFile, crawlerVars, aFile, lastCheck, put, adb>>

\* The process is killed, or panics: stmt.Exec in InsertCrawledNodes or
\* dropOldNodes failed.
Crash ==
  /\ dPc # "down"
  /\ crashes < MaxCrashes
  /\ crashes' = crashes + 1
  /\ spoilt' = (spoilt \/ dPc = "create")
  /\ Down
  /\ UNCHANGED errors

\* dropOldNodes without a table: dropDeamon panics.
DropPanics ==
  /\ Running
  /\ aFile # "ready"
  /\ Down
  /\ UNCHANGED faultVars

Crawl ==
  \/ CrawlerStart \/ CrawlerTable \/ CommitWrite \/ WritePanics \/ CrawlerDies
  \/ \E rows \in [Ids -> Types \cup {Absent}] : BeginWrite(rows)

Daemon ==
  Read \/ ReadCut \/ ReadFails \/ NoTable \/ Stamp \/ Insert \/ InsertFails \/ Sleep

Main == Restart \/ ApiTable

Next == Crawl \/ Daemon \/ Main \/ Drop \/ DropPanics \/ Crash

Spec == Init /\ [][Next]_vars

\* The daemon's goroutine is scheduled and the service manager restarts the
\* program.  Nothing is assumed of the crawler.
FairSpec == Spec /\ WF_vars(Daemon) /\ WF_vars(Main)

-----------------------------------------------------------------------------
(* Properties.                                                             *)

\* Types: of the files, the two tables, the batch and the cursor.
TypeOK ==
  /\ clock \in 0 .. MaxTime
  /\ cFile \in Files /\ aFile \in Files
  /\ wPc \in {"off", "create", "idle", "writing"} /\ wNow \in Time
  /\ wRows \in [Ids -> Types \cup {Absent}]
  /\ cdb \in [Ids -> Table!Row \cup {Absent}]
  /\ dPc \in {"down", "create", "read", "stamp", "insert", "sleep", "ended"}
  /\ lastCheck \in Time
  /\ batch \in [Ids -> Table!Row \cup {Absent}]
  /\ adb \in [Ids -> ApiRow \cup {Absent}]
  /\ seen \in [Ids -> Time] /\ put \in [Ids -> Time]
  /\ spoilt \in BOOLEAN /\ errors \in 0 .. MaxErrors /\ crashes \in 0 .. MaxCrashes

\* README: "start the crawler before the API": when the crawler had made its
\* table before the first read, and no program died while it made one, every
\* later step of both finds the table it works on, whatever crashes, restarts
\* and errors there are.
TablesThere ==
  ~spoilt => /\ wPc \in {"idle", "writing"} => cFile = "ready"
             /\ Running => cFile = "ready" \/ dPc = "read"
             /\ Running => aFile = "ready"

\* newNodeDeamon "reads new nodes from the crawler and puts them in the db":
\* when it reads again, all that it has read was put into the database, unless
\* an insert failed or there is no table to insert into.
ReadIsPut ==
  dPc = "read" /\ errors = 0 /\ aFile = "ready" => \A id \in Ids : put[id] >= seen[id]

\* A row that a read can return is given to the upsert, also when the process
\* crashes between the read and the insert, unless an error of a database comes
\* in between, or the API's database was left without its table.
ReadableIsPut ==
  \A id \in Ids, t \in 0 .. MaxTime :
    (dPc = "read" /\ Recent(id) /\ cdb[id].now = t)
      ~> (put[id] >= t \/ errors > 0 \/ aFile = "empty")

\* README: "Data will be moved from the crawler DB to the API DB regularly":
\* the cursor passes a row only after a read has returned it.
NoRowSkipped ==
  \A id \in Ids : cdb[id] # Absent /\ cdb[id].now <= lastCheck
                    => seen[id] >= cdb[id].now
=============================================================================
