----------------------------- MODULE CrawlNodes -----------------------------
(***************************************************************************)
(* crawlNodes and crawlRound (crawler/crawlercmd.go) with updateNodes and  *)
(* createDB (crawler/db.go), the node file (crawler/nodes.go) and listen   *)
(* (crawler/helper.go): rounds that follow each other, the two crawls of a *)
(* round merged into one set, written to the database, then to the node    *)
(* file, and the crashes and restarts between these steps.  A crawl is     *)
(* CrawlContract: what Crawler implements.                                 *)
(***************************************************************************)
EXTENDS NodeSet, FiniteSets

CONSTANTS NoFile,     \* the node file does not exist
          Torn,       \* the node file is truncated, its content not written
          Flags,      \* command lines: whether nodefile, table and addr are given
          Supplied,   \* what a node file may hold before the first start
          Interval,   \* revalidateInterval, in ticks of the clock
          MaxTime,    \* bound on the clock
          MaxChanges, \* for each protocol, bound on the changes of one crawl
          MaxCrashes  \* bound on the crashes

Protocols == {"v4", "v5"}

\* The times in a node file are not later than the first start, at 1.
ASSUME CrawlNodesAssumption ==
  /\ Absent \notin Entry /\ Absent \notin [e : Entry, now : 0 .. MaxTime]
  /\ NilNode \notin Node
  /\ NoFile \notin NodeSets /\ Torn \notin NodeSets /\ NoFile # Torn
  /\ Flags \subseteq [file : BOOLEAN, db : BOOLEAN, addr : BOOLEAN]
  /\ Supplied \subseteq NodeSets
  /\ \A s \in Supplied : \A id \in Ids : s[id] # Absent => s[id].last <= 0
  /\ Interval \in Nat \ {0}
  /\ MaxTime \in Nat \ {0} /\ MaxChanges \in [Protocols -> Nat] /\ MaxCrashes \in Nat

VARIABLES
  flags,   \* the flags of this run, the same after every restart
  pc,      \* where crawlNodes is; "down" after a panic or a kill
  now,     \* the wall clock
  start,   \* the time at which the round at hand began
  v4, v5,  \* c.output of the two crawlers
  left,    \* for each protocol, the changes its crawl may still make
  bound,   \* for each protocol, whether its socket is open
  ended,   \* for each protocol, whether its crawl has returned
  output,  \* the merged set, inputSet of the next round
  dbFile,  \* the database file: "missing", "empty" (no table) or "ready"
  rows,    \* the nodes table: entry and time of the row of a node
  file,    \* the node file: NoFile, Torn or a node set
  saved,   \* when the node file was written; Never for a supplied one
  contact, \* the last time a node answered either crawler, since the start
  crashes  \* the number of crashes

memory  == <<start, v4, v5, left, ended, output, contact>>
disk    == <<dbFile, rows, file, saved>>
vars    == <<flags, pc, now, memory, bound, disk, crashes>>

Empty == [id \in Ids |-> Absent]
NoSocket == [p \in Protocols |-> FALSE]

Table == INSTANCE NodesTable WITH Entries <- Entry, Times <- 0 .. MaxTime

V4 == INSTANCE CrawlContract WITH output <- v4, ended <- ended["v4"],
        Inputs <- NodeSets, Times <- 0 .. MaxTime
V5 == INSTANCE CrawlContract WITH output <- v5, ended <- ended["v5"],
        Inputs <- NodeSets, Times <- 0 .. MaxTime

\* newCrawler copies its input; both crawlers get the same one.
StartRound(set, t) ==
  /\ start' = t
  /\ v4' = set
  /\ v5' = set
  /\ left' = MaxChanges
  /\ ended' = [p \in Protocols |-> FALSE]

Init ==
  /\ flags \in Flags
  /\ pc = "load"
  /\ now = 1 /\ start = 1
  /\ v4 = Empty /\ v5 = Empty /\ output = Empty
  /\ left = [p \in Protocols |-> 0]
  /\ ended = [p \in Protocols |-> FALSE]
  /\ bound = NoSocket
  /\ dbFile = "missing"
  /\ rows = Empty
  /\ file = NoFile \/ (flags.file /\ file \in Supplied)
  /\ saved = Never
  /\ contact = [id \in Ids |-> Never]
  /\ crashes = 0

-----------------------------------------------------------------------------
(* The start of crawlNodes.                                                *)

\* loadNodesJSON if the file exists, then os.Stat on the database: sql.Open
\* and the first statement create the file before createDB has its table.
Load ==
  /\ pc = "load"
  /\ flags.file => file # Torn
  /\ LET set == IF flags.file /\ file # NoFile THEN file ELSE Empty
     IN  /\ output' = set
         /\ StartRound(set, now)
         /\ contact' = [id \in Ids |-> Lookup(set, id).last]
  /\ IF flags.db /\ dbFile = "missing"
     THEN pc' = "create" /\ dbFile' = "empty"
     ELSE pc' = "crawl" /\ UNCHANGED dbFile
  /\ UNCHANGED <<now, bound, rows, file, saved, crashes, flags>>

\* common.LoadJSON fails on a truncated file: panic.
LoadPanics ==
  /\ pc = "load"
  /\ flags.file /\ file = Torn
  /\ pc' = "down"
  /\ UNCHANGED <<now, memory, bound, disk, crashes, flags>>

CreateTable ==
  /\ pc = "create"
  /\ dbFile' = "ready"
  /\ pc' = "crawl"
  /\ UNCHANGED <<now, memory, bound, rows, file, saved, crashes, flags>>

-----------------------------------------------------------------------------
(* crawlRound, discv4 and discv5.                                          *)

\* A variant that gives both crawls the same port also by default.
InUseAlways(p) == \E q \in Protocols \ {p} : bound[q]

\* The two listen on the same address when there is one, on a free port each
\* when there is none.
InUse(p) == flags.addr /\ \E q \in Protocols \ {p} : bound[q]

Listen(p) ==
  /\ pc = "crawl"
  /\ ~bound[p] /\ ~ended[p]
  /\ ~InUse(p)
  /\ bound' = [bound EXCEPT ![p] = TRUE]
  /\ UNCHANGED <<pc, now, memory, disk, crashes, flags>>

\* Time passes between the checks of a crawl, whose length nothing bounds: the
\* timeout counts from the end of the input only.
Tick ==
  /\ pc = "crawl"
  /\ now < MaxTime
  /\ now' = now + 1
  /\ UNCHANGED <<pc, memory, bound, disk, crashes, flags>>

\* A variant that checks every record that an iterator yields.
DueAlways(set, id) == TRUE

\* updateNode skips a node that was checked less than revalidateInterval ago; a
\* longer round comes back to it.
Due(set, id) ==
  set[id] # Absent => set[id].check = Never \/ now - set[id].check >= Interval

\* One change of a crawl, of those its contract allows.  Reports for nodes that
\* were removed meanwhile are left to Crawler (DroppedUntilValid).
Changes(p) ==
  /\ pc = "crawl"
  /\ bound[p] /\ left[p] > 0
  /\ left' = [left EXCEPT ![p] = @ - 1]
  /\ UNCHANGED <<pc, now, start, bound, ended, output, disk, crashes, flags>>

Answered(id) == contact' = [contact EXCEPT ![id] = now]

Crawl4 ==
  /\ Changes("v4")
  /\ UNCHANGED v5
  /\ \/ \E nn \in Node : Due(v4, nn.id) /\ V4!Pass(nn.id, nn, now) /\ Answered(nn.id)
     \/ \E id \in Ids : Due(v4, id) /\ V4!Fail(id, now) /\ UNCHANGED contact
     \/ \E n \in Node, ok \in BOOLEAN :
          v4[n.id] # Absent /\ V4!Note(n, ok) /\ UNCHANGED contact

Crawl5 ==
  /\ Changes("v5")
  /\ UNCHANGED v4
  /\ \/ \E nn \in Node : Due(v5, nn.id) /\ V5!Pass(nn.id, nn, now) /\ Answered(nn.id)
     \/ \E id \in Ids : Due(v5, id) /\ V5!Fail(id, now) /\ UNCHANGED contact
     \/ \E n \in Node, ok \in BOOLEAN :
          v5[n.id] # Absent /\ V5!Note(n, ok) /\ UNCHANGED contact

\* discv4 or discv5 returns, and closes its socket.
EndCrawl(p) ==
  /\ pc = "crawl"
  /\ bound[p]
  /\ bound' = [bound EXCEPT ![p] = FALSE]
  /\ ended' = [ended EXCEPT ![p] = TRUE]
  /\ UNCHANGED <<pc, now, start, v4, v5, left, output, contact, disk, crashes,
                 flags>>

\* A variant that keeps the nodes of the v4 crawl only.
MergedV4Only == [id \in Ids |-> v4[id]]

\* Where both crawls have a node, the v4 entry overwrites the v5 entry.
Merged == [id \in Ids |-> IF v4[id] # Absent THEN v4[id] ELSE v5[id]]

\* A variant that writes the database only where there is no node file.
FileOrDb == IF flags.file THEN "save" ELSE "commit"

AfterMerge == IF flags.db THEN "commit" ELSE "save"

Merge ==
  /\ pc = "crawl"
  /\ \A p \in Protocols : ended[p]
  /\ output' = Merged
  /\ pc' = AfterMerge
  /\ UNCHANGED <<now, start, v4, v5, left, bound, ended, contact, disk, crashes,
                 flags>>

-----------------------------------------------------------------------------
(* updateNodes and writeNodesJSON.                                         *)

\* A variant that replaces the rows of nodes that are not in the set, too.
ReplaceAll(set) == rows' = [id \in Ids |-> [e |-> set[id], now |-> now]]

ReplaceRows(set) == Table!Replace(set, now)

\* A variant that commits every row by itself.
CommitRowByRow ==
  LET row(id) == [e |-> output[id], now |-> now]
      todo    == {id \in Ids : output[id] # Absent /\ rows[id] # row(id)}
  IN  /\ pc = "commit"
      /\ dbFile = "ready"
      /\ IF todo = {} THEN UNCHANGED rows
         ELSE \E id \in todo : rows' = [rows EXCEPT ![id] = row(id)]
      /\ pc' = IF todo = {} THEN "save" ELSE "commit"
      /\ UNCHANGED <<now, memory, bound, dbFile, file, saved, crashes, flags>>

Commit ==
  /\ pc = "commit"
  /\ dbFile = "ready"
  /\ ReplaceRows(output)
  /\ pc' = "save"
  /\ UNCHANGED <<now, memory, bound, dbFile, file, saved, crashes, flags>>

\* The node file is truncated before the new content is written to it.  A
\* round without a node file goes on with the next one.  Two readings of the
\* clock by updateNodes differ, so time passes from a round to the next.
NextRound ==
  /\ now < MaxTime
  /\ now' = now + 1
  /\ StartRound(output, now + 1)
  /\ pc' = "crawl"

Truncate ==
  /\ pc = "save"
  /\ flags.file
  /\ pc' = "write"
  /\ file' = Torn
  /\ UNCHANGED <<now, memory, bound, dbFile, rows, saved, crashes, flags>>

Write ==
  /\ pc = "write"
  /\ NextRound
  /\ file' = output
  /\ saved' = now
  /\ UNCHANGED <<output, contact, bound, dbFile, rows, crashes, flags>>

NoWrite ==
  /\ pc = "save"
  /\ ~flags.file
  /\ NextRound
  /\ UNCHANGED <<output, contact, bound, disk, crashes, flags>>

-----------------------------------------------------------------------------
(* Failures.                                                               *)

Panic ==
  /\ pc' = "down"
  /\ bound' = NoSocket
  /\ UNCHANGED <<now, memory, disk, flags>>

\* listen: the address is in use, and one crawl ends the whole process.
ListenPanics(p) ==
  /\ pc = "crawl"
  /\ ~bound[p] /\ ~ended[p]
  /\ InUse(p)
  /\ Panic
  /\ UNCHANGED crashes

\* updateNodes returns an error (no such table, or an address that the geoip
\* database does not take): the transaction is not committed and the round panics.
CommitFails ==
  /\ pc = "commit"
  /\ \/ dbFile = "empty" /\ UNCHANGED crashes
     \/ crashes < MaxCrashes /\ crashes' = crashes + 1
  /\ Panic

\* The process is killed.
Crash ==
  /\ pc \notin {"down", "load"}
  /\ crashes < MaxCrashes
  /\ crashes' = crashes + 1
  /\ Panic

\* The service manager starts it again, some time later.
Restart ==
  /\ pc = "down"
  /\ pc' = "load"
  /\ now < MaxTime
  /\ now' = now + 1
  /\ UNCHANGED <<memory, bound, disk, crashes, flags>>

\* The bound on the clock is reached.
Bound == pc \in {"write", "save", "down"} /\ now = MaxTime /\ UNCHANGED vars

Next ==
  \/ Load \/ LoadPanics \/ CreateTable
  \/ Crawl4 \/ Crawl5 \/ Tick
  \/ \E p \in Protocols : Listen(p) \/ ListenPanics(p) \/ EndCrawl(p)
  \/ Merge \/ Commit \/ CommitFails
  \/ Truncate \/ Write \/ NoWrite
  \/ Crash \/ Restart \/ Bound

Spec == Init /\ [][Next]_vars

\* The process is scheduled and restarted, and the crawls of a round return
\* (EndsUnlessBlocked in Crawler says when they do).
Fairness ==
  /\ WF_vars(Load \/ LoadPanics \/ CreateTable)
  /\ \A p \in Protocols : WF_vars(Listen(p) \/ ListenPanics(p)) /\ WF_vars(EndCrawl(p))
  /\ WF_vars(Merge)
  /\ WF_vars(Commit \/ CommitFails)
  /\ WF_vars(Truncate \/ Write \/ NoWrite)
  /\ WF_vars(Restart)

FairSpec == Spec /\ Fairness

-----------------------------------------------------------------------------
(* Properties.                                                             *)

Lefts == {l \in [Protocols -> Nat] : \A p \in Protocols : l[p] <= MaxChanges[p]}

\* Types, of the variables of crawlNodes and crawlRound and of the two files.
TypeOK ==
  /\ flags \in Flags
  /\ pc \in {"load", "create", "crawl", "commit", "save", "write", "down"}
  /\ now \in 1 .. MaxTime /\ start \in 1 .. now
  /\ v4 \in NodeSets /\ v5 \in NodeSets /\ output \in NodeSets
  /\ left \in Lefts
  /\ bound \in [Protocols -> BOOLEAN] /\ ended \in [Protocols -> BOOLEAN]
  /\ dbFile \in {"missing", "empty", "ready"}
  /\ rows \in [Ids -> Table!Row \cup {Absent}]
  /\ file \in NodeSets \cup {NoFile, Torn}
  /\ saved \in 0 .. MaxTime \cup {Never}
  /\ contact \in [Ids -> 0 .. MaxTime \cup {Never}]
  /\ crashes \in 0 .. MaxCrashes

\* What crawlNodes wrote to the node file the database held before: a restart
\* never crawls from a set that a crash kept out of the database, and a row
\* that is not newer than the file is the entry of the file.
FileCommitted ==
  flags.db /\ file \in NodeSets /\ saved # Never =>
    \A id \in Ids :
      file[id] # Absent =>
        /\ rows[id] # Absent
        /\ rows[id].now >= saved
        /\ rows[id].now = saved => rows[id].e = file[id]

\* The merge loses no node that has answered in this round, whichever of the
\* two protocols it answered on, unless the answer is older than
\* revalidateInterval: the long round may have asked again, in vain.
AnsweredIsKept ==
  pc \in {"commit", "save", "write"} =>
    \A id \in Ids :
      contact[id] >= start /\ now - contact[id] < Interval => output[id] # Absent

\* Once the crashes stop crawlNodes gets to the end of a round again, unless a
\* crash hit the write of the node file or the creation of the table, and
\* unless the two crawls are told to listen on one address.
ResumesAfterCrash ==
  (/\ pc = "down" /\ crashes = MaxCrashes /\ now < MaxTime
   /\ ~flags.addr /\ file # Torn /\ dbFile # "empty") ~> (pc \in {"save", "write"})

\* The readers of the database find a table that changes by whole rounds only,
\* with times that never go back and rows that never go away, whatever crashes.
TableSpec == Table!TSpec

\* nodes.go, FirstResponse and LastResponse: "These two track the time of last
\* successful contact": the set of a round records the latest contact.
LastResponseIsLatest ==
  pc = "commit" =>
    \A id \in Ids : output[id] # Absent => output[id].last = contact[id]
=============================================================================
