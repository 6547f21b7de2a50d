--------------------------- MODULE CrawlNodesProofs ---------------------------
(***************************************************************************)
(* Proofs about the rounds of the crawler, for any set of nodes, any       *)
(* flags, any length of a round and any number of crashes and restarts.    *)
(***************************************************************************)
EXTENDS CrawlNodes, NodeSetProofs, TLAPS

LEMMA Bounds ==
  /\ MaxTime \in Nat /\ MaxTime >= 1 /\ MaxChanges \in [Protocols -> Nat] /\ MaxCrashes \in Nat
  /\ Interval \in Nat /\ Interval >= 1
  BY CrawlNodesAssumption DEF CrawlNodesAssumption

-----------------------------------------------------------------------------
(* One change of a crawl.                                                  *)

\* What a crawl does to its set and to contact.
Changed(set, new) ==
  \/ \E nn \in Node :
       /\ Due(set, nn.id)
       /\ new = [set EXCEPT ![nn.id] = Passed(Lookup(set, nn.id), nn, now)]
       /\ Answered(nn.id)
  \/ \E id \in Ids :
       LET e == Failed(Lookup(set, id), now) IN
       /\ Due(set, id)
       /\ Lookup(set, id).score > 0
       /\ new = [set EXCEPT ![id] = IF e.score > 0 THEN e ELSE Absent]
       /\ UNCHANGED contact
  \/ \E n \in Node, ok \in BOOLEAN :
       /\ set[n.id] # Absent
       /\ new = [set EXCEPT ![n.id] = Reported(Lookup(set, n.id), n, ok)]
       /\ UNCHANGED contact

LEMMA SameWords ==
  /\ \A set, id : V4!Lookup(set, id) = Lookup(set, id) /\ V5!Lookup(set, id) = Lookup(set, id)
  /\ \A e, n, t : V4!Passed(e, n, t) = Passed(e, n, t) /\ V5!Passed(e, n, t) = Passed(e, n, t)
  /\ \A e, t : V4!Failed(e, t) = Failed(e, t) /\ V5!Failed(e, t) = Failed(e, t)
  /\ \A e, n, ok : /\ V4!Reported(e, n, ok) = Reported(e, n, ok)
                   /\ V5!Reported(e, n, ok) = Reported(e, n, ok)
<1>1. ASSUME NEW set, NEW id
      PROVE  V4!Lookup(set, id) = Lookup(set, id) /\ V5!Lookup(set, id) = Lookup(set, id)
  BY DEF V4!Lookup, V5!Lookup, Lookup, V4!ZeroEntry, V5!ZeroEntry, ZeroEntry,
         V4!Never, V5!Never, Never
<1>2. ASSUME NEW e, NEW n, NEW t
      PROVE  V4!Passed(e, n, t) = Passed(e, n, t) /\ V5!Passed(e, n, t) = Passed(e, n, t)
  BY DEF V4!Passed, V5!Passed, Passed, V4!Never, V5!Never, Never
<1>3. ASSUME NEW e, NEW t
      PROVE  V4!Failed(e, t) = Failed(e, t) /\ V5!Failed(e, t) = Failed(e, t)
  BY DEF V4!Failed, V5!Failed, Failed
<1>4. ASSUME NEW e, NEW n, NEW ok
      PROVE  /\ V4!Reported(e, n, ok) = Reported(e, n, ok)
             /\ V5!Reported(e, n, ok) = Reported(e, n, ok)
  BY DEF V4!Reported, V5!Reported, Reported, V4!ProbeBonus, V5!ProbeBonus, ProbeBonus
<1>5. QED
  BY <1>1, <1>2, <1>3, <1>4

LEMMA CrawlChanges ==
  /\ Crawl4 => Changed(v4, v4') /\ UNCHANGED v5
  /\ Crawl5 => Changed(v5, v5') /\ UNCHANGED v4
<1>1. Crawl4 => Changed(v4, v4') /\ UNCHANGED v5
  <2> SUFFICES ASSUME Crawl4 PROVE Changed(v4, v4')
    BY DEF Crawl4
  <2>1. ASSUME NEW nn \in Node, Due(v4, nn.id), V4!Pass(nn.id, nn, now), Answered(nn.id)
        PROVE  Changed(v4, v4')
    BY <2>1, SameWords DEF V4!Pass, Changed
  <2>2. ASSUME NEW id \in Ids, Due(v4, id), V4!Fail(id, now), UNCHANGED contact
        PROVE  Changed(v4, v4')
    BY <2>2, SameWords DEF V4!Fail, Changed
  <2>3. ASSUME NEW n \in Node, NEW ok \in BOOLEAN, v4[n.id] # Absent, V4!Note(n, ok),
               UNCHANGED contact
        PROVE  Changed(v4, v4')
    BY <2>3, SameWords DEF V4!Note, Changed
  <2>4. QED
    BY <2>1, <2>2, <2>3 DEF Crawl4
<1>2. Crawl5 => Changed(v5, v5') /\ UNCHANGED v4
  <2> SUFFICES ASSUME Crawl5 PROVE Changed(v5, v5')
    BY DEF Crawl5
  <2>1. ASSUME NEW nn \in Node, Due(v5, nn.id), V5!Pass(nn.id, nn, now), Answered(nn.id)
        PROVE  Changed(v5, v5')
    BY <2>1, SameWords DEF V5!Pass, Changed
  <2>2. ASSUME NEW id \in Ids, Due(v5, id), V5!Fail(id, now), UNCHANGED contact
        PROVE  Changed(v5, v5')
    BY <2>2, SameWords DEF V5!Fail, Changed
  <2>3. ASSUME NEW n \in Node, NEW ok \in BOOLEAN, v5[n.id] # Absent, V5!Note(n, ok),
               UNCHANGED contact
        PROVE  Changed(v5, v5')
    BY <2>3, SameWords DEF V5!Note, Changed
  <2>4. QED
    BY <2>1, <2>2, <2>3 DEF Crawl5
<1>3. QED
  BY <1>1, <1>2

\* The last responses in a set are not from the future.
InTime(set, t) == \A id \in Ids : set[id] # Absent => set[id].last <= t

\* A node is in the set, checked when it last answered or later.
Heard(set, id) == set[id] # Absent /\ set[id].check >= contact[id]

\* It is too long ago that a node answered to keep it for that answer.
Silent(id) == contact[id] = Never \/ now - contact[id] >= Interval

\* What a change does: it stays within the types, whoever was heard in the set
\* still is, or has been silent for long, and whoever answers now is heard.
LEMMA ChangeKeeps ==
  ASSUME NEW set \in NodeSets, NEW new, Changed(set, new), now \in 1 .. MaxTime,
         InTime(set, now), contact \in [Ids -> 0 .. MaxTime \cup {Never}]
  PROVE  /\ new \in NodeSets
         /\ InTime(new, now)
         /\ contact' \in [Ids -> 0 .. MaxTime \cup {Never}]
         /\ \A id \in Ids : Heard(set, id) =>
              Silent(id) \/ (new[id] # Absent /\ new[id].check >= contact'[id])
         /\ \A id \in Ids : \/ contact'[id] = contact[id]
                            \/ contact'[id] = now /\ new[id] # Absent /\ new[id].check = now
<1>0. now \in Nat /\ Absent \notin Entry
  BY Bounds, CrawlNodesAssumption DEF CrawlNodesAssumption
<1>1. ASSUME NEW nn \in Node, Due(set, nn.id), Answered(nn.id),
             new = [set EXCEPT ![nn.id] = Passed(Lookup(set, nn.id), nn, now)]
      PROVE  /\ new \in NodeSets
             /\ InTime(new, now)
             /\ contact' \in [Ids -> 0 .. MaxTime \cup {Never}]
             /\ \A id \in Ids : Heard(set, id) =>
                  Silent(id) \/ (new[id] # Absent /\ new[id].check >= contact'[id])
             /\ \A id \in Ids : \/ contact'[id] = contact[id]
                                \/ contact'[id] = now /\ new[id] # Absent /\ new[id].check = now
  <2> DEFINE p == Passed(Lookup(set, nn.id), nn, now)
  <2>1. nn.id \in Ids
    BY DEF Node
  <2>2. p \in Entry
    BY <1>0, <2>1, LookupType, StoredType
  <2>3. p.last = now /\ p.check = now
    BY DEF Passed
  <2>4. contact' = [contact EXCEPT ![nn.id] = now]
    BY <1>1 DEF Answered
  <2>5. new = [set EXCEPT ![nn.id] = p]
    BY <1>1
  <2> HIDE DEF p
  <2>6. \A id \in Ids : new[id] = IF id = nn.id THEN p ELSE set[id]
    BY <2>1, <2>5 DEF NodeSets
  <2>7. new \in NodeSets
    BY <2>2, <2>5 DEF NodeSets
  <2>8. InTime(new, now)
    BY <1>0, <2>3, <2>6 DEF InTime
  <2>9. contact' \in [Ids -> 0 .. MaxTime \cup {Never}]
    <3>1. now \in 0 .. MaxTime
      BY <1>0, Bounds
    <3>2. QED
      BY <2>4, <3>1
  <2>10. QED
    <3>1. \A id \in Ids : id # nn.id => new[id] = set[id] /\ contact'[id] = contact[id]
      BY <2>4, <2>6
    <3>2. new[nn.id] = p /\ p # Absent /\ contact'[nn.id] = now /\ now >= now
      BY <1>0, <2>1, <2>2, <2>4, <2>6
    <3>3. \A id \in Ids : Heard(set, id) => new[id] # Absent /\ new[id].check >= contact'[id]
      BY <2>3, <3>1, <3>2 DEF Heard
    <3>4. \A id \in Ids : \/ contact'[id] = contact[id]
                          \/ contact'[id] = now /\ new[id] # Absent /\ new[id].check = now
      BY <2>3, <3>1, <3>2
    <3>5. QED
      BY <2>7, <2>8, <2>9, <3>3, <3>4
<1>2. ASSUME NEW id0 \in Ids, Due(set, id0), Lookup(set, id0).score > 0, UNCHANGED contact,
             new = [set EXCEPT ![id0] = IF Failed(Lookup(set, id0), now).score > 0
                                        THEN Failed(Lookup(set, id0), now) ELSE Absent]
      PROVE  /\ new \in NodeSets
             /\ InTime(new, now)
             /\ contact' \in [Ids -> 0 .. MaxTime \cup {Never}]
             /\ \A id \in Ids : Heard(set, id) =>
                  Silent(id) \/ (new[id] # Absent /\ new[id].check >= contact'[id])
             /\ \A id \in Ids : \/ contact'[id] = contact[id]
                                \/ contact'[id] = now /\ new[id] # Absent /\ new[id].check = now
  <2> DEFINE f == Failed(Lookup(set, id0), now)
             r == IF f.score > 0 THEN f ELSE Absent
  <2>1. Lookup(set, id0) \in Entry /\ set[id0] # Absent /\ Lookup(set, id0) = set[id0]
    BY <1>2, LookupType DEF Lookup, ZeroEntry
  <2>2. Lookup(set, id0) \in AnyEntry
    BY LookupType
  <2>3. f \in Entry
    <3>1. Lookup(set, id0).n \in Node /\ TRUE \in BOOLEAN
      BY <2>1 DEF Entry
    <3>2. QED
      BY <1>0, <2>1, <2>2, <3>1, StoredType
  <2>4. f.last = set[id0].last
    BY <2>1 DEF Failed, Entry
  <2>5. new = [set EXCEPT ![id0] = r] /\ r \in Entry \cup {Absent}
        /\ (r # Absent => r.last = set[id0].last)
    BY <1>2, <2>3, <2>4
  <2> HIDE DEF f, r
  <2>6. \A id \in Ids : new[id] = IF id = id0 THEN r ELSE set[id]
    BY <2>5 DEF NodeSets
  <2>7. new \in NodeSets
    BY <2>5 DEF NodeSets
  <2>8. InTime(new, now)
    BY <2>1, <2>5, <2>6 DEF InTime
  <2>9. Heard(set, id0) => Silent(id0)
    <3>1. /\ set[id0].check = Never \/ now - set[id0].check >= Interval
          /\ set[id0].check \in Int
      BY <1>2, <2>1 DEF Due, Entry, Time, Never
    <3>2. contact[id0] \in Nat \/ contact[id0] = Never
      BY <1>0
    <3>3. QED
      BY <1>0, <3>1, <3>2, Bounds DEF Heard, Silent, Never
  <2>10. QED
    BY <1>2, <2>6, <2>7, <2>8, <2>9 DEF Heard
<1>3. ASSUME NEW n \in Node, NEW ok \in BOOLEAN, set[n.id] # Absent, UNCHANGED contact,
             new = [set EXCEPT ![n.id] = Reported(Lookup(set, n.id), n, ok)]
      PROVE  /\ new \in NodeSets
             /\ InTime(new, now)
             /\ contact' \in [Ids -> 0 .. MaxTime \cup {Never}]
             /\ \A id \in Ids : Heard(set, id) =>
                  Silent(id) \/ (new[id] # Absent /\ new[id].check >= contact'[id])
             /\ \A id \in Ids : \/ contact'[id] = contact[id]
                                \/ contact'[id] = now /\ new[id] # Absent /\ new[id].check = now
  <2> DEFINE r == Reported(Lookup(set, n.id), n, ok)
  <2>1. n.id \in Ids
    BY DEF Node
  <2>2. Lookup(set, n.id) = set[n.id] /\ set[n.id] \in Entry /\ Lookup(set, n.id) \in AnyEntry
    BY <1>3, <2>1, LookupType
  <2>3. r \in Entry
    BY <1>0, <2>2, StoredType
  <2>4. r.last = set[n.id].last /\ r.check = set[n.id].check
    BY <2>2 DEF Reported, Entry
  <2>5. new = [set EXCEPT ![n.id] = r]
    BY <1>3
  <2> HIDE DEF r
  <2>6. \A id \in Ids : new[id] = IF id = n.id THEN r ELSE set[id]
    BY <2>1, <2>5 DEF NodeSets
  <2>7. new \in NodeSets
    BY <2>3, <2>5 DEF NodeSets
  <2>8. InTime(new, now)
    BY <1>3, <2>4, <2>6 DEF InTime
  <2>9. QED
    BY <1>0, <1>3, <2>3, <2>4, <2>6, <2>7, <2>8 DEF Heard
<1>4. QED
  BY <1>1, <1>2, <1>3 DEF Changed

-----------------------------------------------------------------------------
(* Types, and the times of the sets.                                       *)

SetsType ==
  /\ now \in 1 .. MaxTime /\ start \in 1 .. now
  /\ v4 \in NodeSets /\ v5 \in NodeSets /\ output \in NodeSets
  /\ InTime(v4, now) /\ InTime(v5, now) /\ InTime(output, now)
  /\ contact \in [Ids -> 0 .. MaxTime \cup {Never}]
  /\ \A id \in Ids : contact[id] <= now

\* The node file is from an earlier time than the round at hand.
FileType ==
  /\ file \in NodeSets \cup {NoFile, Torn}
  /\ saved \in 0 .. MaxTime \cup {Never}
  /\ file \in NodeSets => saved < now /\ InTime(file, now - 1)

RunType ==
  /\ flags \in Flags
  /\ pc \in {"load", "create", "crawl", "commit", "save", "write", "down"}
  /\ left \in Lefts
  /\ dbFile \in {"missing", "empty", "ready"}
  /\ rows \in [Ids -> Table!Row \cup {Absent}]
  /\ crashes \in 0 .. MaxCrashes

SocketsType == bound \in [Protocols -> BOOLEAN] /\ ended \in [Protocols -> BOOLEAN]

TypeInv == SetsType /\ FileType /\ RunType /\ SocketsType

LEMMA EmptySet == Empty \in NodeSets /\ \A t : InTime(Empty, t)
  BY DEF Empty, NodeSets, InTime

LEMMA TypeInit == Init => TypeInv
<1> SUFFICES ASSUME Init PROVE TypeInv
  OBVIOUS
<1>1. SetsType
  BY Bounds, EmptySet DEF Init, SetsType, Never
<1>2. FileType
  <2>1. now = 1 /\ saved = Never /\ (file = NoFile \/ file \in Supplied)
    BY DEF Init
  <2>2. file \in Supplied => file \in NodeSets /\ InTime(file, 0)
    BY CrawlNodesAssumption DEF CrawlNodesAssumption, InTime
  <2>3. file \in NodeSets => file \in Supplied
    BY <2>1, CrawlNodesAssumption DEF CrawlNodesAssumption
  <2>4. now - 1 = 0 /\ saved < now
    BY <2>1 DEF Never
  <2>5. QED
    BY <2>1, <2>2, <2>3, <2>4 DEF FileType
<1>3. RunType
  BY Bounds DEF Init, RunType, Empty, Lefts
<1>4. SocketsType
  BY DEF Init, SocketsType, NoSocket
<1>5. QED
  BY <1>1, <1>2, <1>3, <1>4 DEF TypeInv

\* The set that a run starts from is older than the round at hand.
LEMMA LoadedInTime ==
  ASSUME SetsType, FileType, Load
  PROVE  /\ output' \in NodeSets /\ v4' = output' /\ v5' = output'
         /\ InTime(output', now)
         /\ contact' \in [Ids -> 0 .. MaxTime \cup {Never}]
         /\ \A id \in Ids : contact'[id] < now
<1> DEFINE set == IF flags.file /\ file # NoFile THEN file ELSE Empty
<1>0. now \in Nat /\ now <= MaxTime
  BY DEF SetsType
<1>1. /\ output' = set /\ v4' = set /\ v5' = set
      /\ contact' = [id \in Ids |-> Lookup(set, id).last]
  BY DEF Load, StartRound
<1>2. set \in NodeSets /\ \A id \in Ids : set[id] # Absent => set[id].last < now
  <2>1. CASE flags.file /\ file # NoFile
    <3>1. set = file /\ file \in NodeSets /\ InTime(file, now - 1)
      BY <2>1 DEF Load, FileType
    <3>2. \A id \in Ids : file[id] # Absent => file[id].last \in Int
      BY <3>1 DEF NodeSets, Entry, Time, Never
    <3>3. QED
      BY <1>0, <3>1, <3>2 DEF InTime
  <2>2. CASE ~(flags.file /\ file # NoFile)
    BY <2>2, EmptySet DEF Empty
  <2>3. QED
    BY <2>1, <2>2
<1> HIDE DEF set
<1>3. ASSUME NEW id \in Ids
      PROVE  /\ Lookup(set, id).last \in 0 .. MaxTime \cup {Never}
             /\ Lookup(set, id).last < now
  <2>1. CASE set[id] = Absent
    BY <1>0, <2>1 DEF Lookup, ZeroEntry, Never
  <2>2. CASE set[id] # Absent
    BY <1>0, <1>2, <2>2, Bounds DEF Lookup, NodeSets, Entry, Time, Never
  <2>3. QED
    BY <2>1, <2>2
<1>4. InTime(set, now)
  BY <1>0, <1>2 DEF InTime, NodeSets, Entry, Time, Never
<1>5. QED
  BY <1>1, <1>2, <1>3, <1>4

LEMMA LaterInTime ==
  ASSUME NEW set \in NodeSets, NEW t \in Nat, NEW u \in Nat, InTime(set, t), t <= u
  PROVE  InTime(set, u)
<1>1. \A id \in Ids : set[id] # Absent => set[id].last \in Int
  BY DEF NodeSets, Entry, Time, Never
<1>2. QED
  BY <1>1 DEF InTime

LEMMA SetsTypeStep == SetsType /\ FileType /\ [Next]_vars => SetsType'
<1> SUFFICES ASSUME SetsType, FileType, [Next]_vars PROVE SetsType'
  OBVIOUS
<1>0. /\ now \in Nat /\ MaxTime \in Nat
      /\ \A id \in Ids : contact[id] \in Int
  BY Bounds DEF SetsType, Never
<1>1. CASE Load
  <2>1. now' = now /\ start' = now
    BY <1>1 DEF Load, StartRound
  <2>2. /\ output' \in NodeSets /\ v4' = output' /\ v5' = output' /\ InTime(output', now)
        /\ contact' \in [Ids -> 0 .. MaxTime \cup {Never}]
        /\ \A id \in Ids : contact'[id] < now
    BY <1>1, LoadedInTime
  <2>3. \A id \in Ids : contact'[id] \in Int
    BY <1>0, <2>2 DEF Never
  <2>4. QED
    BY <1>0, <2>1, <2>2, <2>3 DEF SetsType
<1>2. CASE Crawl4
  <2>1. Changed(v4, v4') /\ UNCHANGED <<now, start, v5, output>>
    BY <1>2, CrawlChanges DEF Crawl4, Changes
  <2>2. /\ v4' \in NodeSets /\ InTime(v4', now)
        /\ contact' \in [Ids -> 0 .. MaxTime \cup {Never}]
        /\ \A id \in Ids : contact'[id] = contact[id] \/ contact'[id] = now
    BY <2>1, ChangeKeeps DEF SetsType
  <2>3. QED
    BY <1>0, <2>1, <2>2 DEF SetsType
<1>3. CASE Crawl5
  <2>1. Changed(v5, v5') /\ UNCHANGED <<now, start, v4, output>>
    BY <1>3, CrawlChanges DEF Crawl5, Changes
  <2>2. /\ v5' \in NodeSets /\ InTime(v5', now)
        /\ contact' \in [Ids -> 0 .. MaxTime \cup {Never}]
        /\ \A id \in Ids : contact'[id] = contact[id] \/ contact'[id] = now
    BY <2>1, ChangeKeeps DEF SetsType
  <2>3. QED
    BY <1>0, <2>1, <2>2 DEF SetsType
<1>4. CASE Merge
  <2>1. Merged \in NodeSets /\ InTime(Merged, now)
    BY DEF SetsType, Merged, NodeSets, InTime
  <2>2. QED
    BY <1>4, <2>1 DEF Merge, SetsType
<1>5. CASE Write \/ NoWrite
  <2>1. /\ now' = now + 1 /\ now < MaxTime /\ v4' = output /\ v5' = output
        /\ start' = now + 1 /\ UNCHANGED <<output, contact>>
    BY <1>5 DEF Write, NoWrite, NextRound, StartRound
  <2>2. /\ now' \in 1 .. MaxTime /\ now' \in Nat /\ now <= now'
        /\ start' \in 1 .. now'
    BY <1>0, <2>1 DEF SetsType
  <2>3. InTime(output, now')
    BY <1>0, <2>2, LaterInTime DEF SetsType
  <2>4. \A id \in Ids : contact[id] <= now'
    BY <1>0, <2>2 DEF SetsType
  <2>5. QED
    BY <2>1, <2>2, <2>3, <2>4 DEF SetsType
<1>6. CASE Restart \/ Tick
  <2>1. /\ now' \in 1 .. MaxTime /\ now' \in Nat /\ now <= now'
        /\ start' \in 1 .. now'
        /\ UNCHANGED <<v4, v5, output, contact>>
    BY <1>0, <1>6 DEF Restart, Tick, SetsType, memory
  <2>2. InTime(v4, now') /\ InTime(v5, now') /\ InTime(output, now')
    BY <1>0, <2>1, LaterInTime DEF SetsType
  <2>3. \A id \in Ids : contact[id] <= now'
    BY <1>0, <2>1 DEF SetsType
  <2>4. QED
    BY <2>1, <2>2, <2>3 DEF SetsType
<1>7. CASE UNCHANGED <<now, start, v4, v5, output, contact>>
  BY <1>7 DEF SetsType
<1>8. QED
  <2>1. ASSUME NEW p \in Protocols, Listen(p) \/ ListenPanics(p) \/ EndCrawl(p)
        PROVE  UNCHANGED <<now, start, v4, v5, output, contact>>
    BY <2>1 DEF Listen, ListenPanics, EndCrawl, Panic, memory
  <2>2. LoadPanics \/ CreateTable \/ Commit \/ CommitFails \/ Truncate \/ Crash \/ Bound
          => UNCHANGED <<now, start, v4, v5, output, contact>>
    BY DEF LoadPanics, CreateTable, Commit, CommitFails, Truncate, Crash, Bound, Panic,
           memory, vars
  <2>3. UNCHANGED vars => UNCHANGED <<now, start, v4, v5, output, contact>>
    BY DEF vars, memory
  <2>4. QED
    BY <1>1, <1>2, <1>3, <1>4, <1>5, <1>6, <1>7, <2>1, <2>2, <2>3 DEF Next

LEMMA FileTypeStep == SetsType /\ FileType /\ [Next]_vars => FileType'
<1> SUFFICES ASSUME SetsType, FileType, [Next]_vars PROVE FileType'
  OBVIOUS
<1>0. /\ now \in Nat /\ now >= 1 /\ MaxTime \in Nat /\ saved \in Int
      /\ NoFile \notin NodeSets /\ Torn \notin NodeSets
  BY Bounds, CrawlNodesAssumption DEF SetsType, FileType, CrawlNodesAssumption, Never
<1>1. CASE Write
  <2>1. /\ now' = now + 1 /\ now < MaxTime /\ file' = output /\ saved' = now
    BY <1>1 DEF Write, NextRound
  <2>2. QED
    BY <1>0, <2>1 DEF FileType, SetsType
<1>2. CASE Truncate
  BY <1>0, <1>2 DEF Truncate, FileType
<1>3. CASE Restart \/ NoWrite \/ Tick
  <2>1. now' = now + 1 /\ UNCHANGED <<file, saved>>
    BY <1>0, <1>3 DEF Restart, NoWrite, NextRound, Tick, disk
  <2>2. file \in NodeSets => InTime(file, now' - 1)
    BY <1>0, <2>1, LaterInTime DEF FileType
  <2>3. QED
    BY <1>0, <2>1, <2>2 DEF FileType
<1>4. CASE UNCHANGED <<now, file, saved>>
  BY <1>4 DEF FileType
<1>5. QED
  <2>1. ASSUME NEW p \in Protocols, Listen(p) \/ ListenPanics(p) \/ EndCrawl(p)
        PROVE  UNCHANGED <<now, file, saved>>
    BY <2>1 DEF Listen, ListenPanics, EndCrawl, Panic, disk
  <2>2. Load \/ LoadPanics \/ CreateTable \/ Crawl4 \/ Crawl5 \/ Merge \/ Commit
        \/ CommitFails \/ Crash \/ Bound
          => UNCHANGED <<now, file, saved>>
    BY DEF Load, LoadPanics, CreateTable, Crawl4, Crawl5, Changes, Merge, Commit, CommitFails,
           Crash, Bound, Panic, disk, vars
  <2>3. UNCHANGED vars => UNCHANGED <<now, file, saved>>
    BY DEF vars, disk
  <2>4. QED
    BY <1>1, <1>2, <1>3, <1>4, <2>1, <2>2, <2>3 DEF Next

\* What Commit does to a row.
LEMMA CommitRow ==
  ASSUME Commit
  PROVE  rows' = [id \in Ids |-> IF output[id] = Absent THEN rows[id]
                                 ELSE [e |-> output[id], now |-> now]]
  BY DEF Commit, ReplaceRows, Table!Replace

LEMMA RunTypeStep == SetsType /\ RunType /\ [Next]_vars => RunType'
<1> SUFFICES ASSUME SetsType, RunType, [Next]_vars PROVE RunType'
  OBVIOUS
<1>0. MaxCrashes \in Nat /\ MaxChanges \in Lefts
  BY Bounds DEF Lefts
<1>1. CASE \/ Load \/ LoadPanics \/ CreateTable \/ Merge \/ Truncate \/ Restart
           \/ Tick \/ Bound
  BY <1>0, <1>1
  DEF Load, LoadPanics, CreateTable, Merge, AfterMerge, Truncate, Restart, Tick, Bound, StartRound,
      RunType, vars, memory, disk
<1>2. CASE Crawl4 \/ Crawl5
  <2>1. PICK p \in Protocols : Changes(p)
    BY <1>2 DEF Crawl4, Crawl5, Protocols
  <2>2. left' \in Lefts
    BY <1>0, <2>1 DEF Changes, RunType, Lefts
  <2>3. QED
    BY <2>1, <2>2 DEF Changes, RunType, disk
<1>3. ASSUME NEW p \in Protocols, Listen(p) \/ ListenPanics(p) \/ EndCrawl(p) PROVE RunType'
  BY <1>3 DEF Listen, ListenPanics, EndCrawl, Panic, RunType, memory, disk
<1>4. CASE Commit
  <2>1. rows' \in [Ids -> Table!Row \cup {Absent}]
    BY <1>4, CommitRow DEF RunType, SetsType, NodeSets, Table!Row
  <2>2. QED
    BY <1>4, <2>1 DEF Commit, RunType, memory
<1>5. CASE Write \/ NoWrite
  <2>1. left' \in Lefts
    BY <1>0, <1>5 DEF Write, NoWrite, NextRound, StartRound
  <2>2. QED
    BY <1>5, <2>1 DEF Write, NoWrite, NextRound, RunType, disk
<1>6. CASE CommitFails \/ Crash
  BY <1>0, <1>6 DEF CommitFails, Crash, Panic, RunType, memory, disk
<1>7. CASE UNCHANGED vars
  BY <1>7 DEF vars, memory, disk, RunType
<1>8. QED
  BY <1>1, <1>2, <1>3, <1>4, <1>5, <1>6, <1>7 DEF Next

LEMMA SocketsTypeStep == SocketsType /\ [Next]_vars => SocketsType'
<1> SUFFICES ASSUME SocketsType, [Next]_vars PROVE SocketsType'
  OBVIOUS
<1>1. CASE Load \/ Write \/ NoWrite
  BY <1>1 DEF Load, Write, NoWrite, NextRound, StartRound, SocketsType
<1>2. ASSUME NEW p \in Protocols, Listen(p) \/ ListenPanics(p) \/ EndCrawl(p)
      PROVE  SocketsType'
  BY <1>2 DEF Listen, ListenPanics, EndCrawl, Panic, NoSocket, SocketsType, memory
<1>3. CASE \/ LoadPanics \/ CreateTable \/ Crawl4 \/ Crawl5 \/ Merge \/ Commit \/ Truncate
           \/ Restart \/ Tick \/ Bound \/ UNCHANGED vars
  BY <1>3 DEF LoadPanics, CreateTable, Crawl4, Crawl5, Changes, Merge, Commit, Truncate,
              Restart, Tick, Bound, SocketsType, vars, memory
<1>4. CASE CommitFails \/ Crash
  BY <1>4 DEF CommitFails, Crash, Panic, NoSocket, SocketsType, memory
<1>5. QED
  BY <1>1, <1>2, <1>3, <1>4 DEF Next

THEOREM TypeAlways == Spec => []TypeInv
<1>1. TypeInv /\ [Next]_vars => TypeInv'
  BY SetsTypeStep, FileTypeStep, RunTypeStep, SocketsTypeStep DEF TypeInv
<1>2. QED
  BY <1>1, TypeInit, PTL DEF Spec

\* Type correctness of the rounds.
THEOREM TypeCorrect == Spec => []TypeOK
<1>1. TypeInv => TypeOK
  BY DEF TypeInv, SetsType, FileType, RunType, SocketsType, TypeOK
<1>2. QED
  BY <1>1, TypeAlways, PTL

-----------------------------------------------------------------------------
(* The nodes that have answered.                                           *)

\* Whoever has answered in this round and not been silent for long is in the
\* set of one of the crawls, until they are merged, and in the merged set from
\* then on.
KeptInv ==
  /\ pc \in {"create", "crawl"} =>
       \A id \in Ids : contact[id] >= start =>
         Heard(v4, id) \/ Heard(v5, id) \/ Silent(id)
  /\ AnsweredIsKept

\* A change of one crawl keeps who is heard in either of them.
LEMMA ChangeKeepsHeard ==
  ASSUME NEW set \in NodeSets, NEW new, NEW other, Changed(set, new),
         now' = now, now \in 1 .. MaxTime, InTime(set, now),
         contact \in [Ids -> 0 .. MaxTime \cup {Never}],
         NEW id \in Ids, start \in Nat, contact'[id] >= start,
         contact[id] >= start =>
           \/ Heard(set, id) \/ Silent(id)
           \/ other[id] # Absent /\ other[id].check >= contact[id]
  PROVE  \/ new[id] # Absent /\ new[id].check >= contact'[id]
         \/ other[id] # Absent /\ other[id].check >= contact'[id]
         \/ Silent(id)'
<1>1. /\ Heard(set, id) =>
           Silent(id) \/ (new[id] # Absent /\ new[id].check >= contact'[id])
      /\ \/ contact'[id] = contact[id]
         \/ contact'[id] = now /\ new[id] # Absent /\ new[id].check = now
  BY ChangeKeeps
<1>2. CASE contact'[id] = contact[id]
  BY <1>1, <1>2 DEF Silent
<1>3. CASE contact'[id] = now /\ new[id] # Absent /\ new[id].check = now
  BY <1>3
<1>4. QED
  BY <1>1, <1>2, <1>3

LEMMA KeptStep == TypeInv /\ KeptInv /\ [Next]_vars => KeptInv'
<1> SUFFICES ASSUME TypeInv, KeptInv, [Next]_vars PROVE KeptInv'
  OBVIOUS
<1>0. /\ SetsType /\ FileType /\ now \in Nat /\ start \in Nat /\ start <= now
      /\ Interval \in Nat
      /\ \A id \in Ids : contact[id] \in Int
  BY Bounds DEF TypeInv, SetsType, Never
<1>1. CASE Load
  <2>1. \A id \in Ids : contact'[id] < now
    BY <1>0, <1>1, LoadedInTime
  <2>2. \A id \in Ids : contact'[id] \in Int
    BY <1>0, <1>1, LoadedInTime DEF Never
  <2>3. start' = now /\ pc' \in {"create", "crawl"}
    BY <1>1 DEF Load, StartRound
  <2>4. QED
    BY <1>0, <2>1, <2>2, <2>3 DEF KeptInv, AnsweredIsKept
<1>2. CASE Crawl4
  <2>1. Changed(v4, v4') /\ UNCHANGED <<now, start, v5, pc>> /\ pc = "crawl"
    BY <1>2, CrawlChanges DEF Crawl4, Changes
  <2>2. ASSUME NEW id \in Ids, contact'[id] >= start'
        PROVE  (Heard(v4, id) \/ Heard(v5, id) \/ Silent(id))'
    <3>1. contact[id] >= start => \/ Heard(v4, id) \/ Silent(id)
                                  \/ v5[id] # Absent /\ v5[id].check >= contact[id]
      BY <2>1 DEF KeptInv, Heard
    <3>2. QED
      BY <1>0, <2>1, <2>2, <3>1, ChangeKeepsHeard DEF SetsType, Heard
  <2>3. QED
    BY <2>1, <2>2 DEF KeptInv, AnsweredIsKept
<1>3. CASE Crawl5
  <2>1. Changed(v5, v5') /\ UNCHANGED <<now, start, v4, pc>> /\ pc = "crawl"
    BY <1>3, CrawlChanges DEF Crawl5, Changes
  <2>2. ASSUME NEW id \in Ids, contact'[id] >= start'
        PROVE  (Heard(v4, id) \/ Heard(v5, id) \/ Silent(id))'
    <3>1. contact[id] >= start => \/ Heard(v5, id) \/ Silent(id)
                                  \/ v4[id] # Absent /\ v4[id].check >= contact[id]
      BY <2>1 DEF KeptInv, Heard
    <3>2. QED
      BY <1>0, <2>1, <2>2, <3>1, ChangeKeepsHeard DEF SetsType, Heard
  <2>3. QED
    BY <2>1, <2>2 DEF KeptInv, AnsweredIsKept
<1>4. CASE Tick
  <2>1. now' = now + 1 /\ UNCHANGED <<pc, start, v4, v5, contact>> /\ pc = "crawl"
    BY <1>4 DEF Tick, memory
  <2>2. \A id \in Ids : Silent(id) => Silent(id)'
    BY <1>0, <2>1 DEF Silent
  <2>3. QED
    BY <2>1, <2>2 DEF KeptInv, AnsweredIsKept, Heard
<1>5. CASE Merge
  <2>1. \A id \in Ids : Heard(v4, id) \/ Heard(v5, id) => Merged[id] # Absent
    BY DEF Heard, Merged
  <2>2. \A id \in Ids : Silent(id) /\ contact[id] >= start => ~(now - contact[id] < Interval)
    BY <1>0 DEF Silent, Never
  <2>3. QED
    BY <1>5, <2>1, <2>2 DEF Merge, AfterMerge, KeptInv, AnsweredIsKept
<1>6. CASE Write \/ NoWrite
  <2>1. start' = now + 1 /\ contact' = contact
    BY <1>6 DEF Write, NoWrite, NextRound, StartRound
  <2>2. \A id \in Ids : ~(contact'[id] >= start')
    BY <1>0, <2>1 DEF SetsType
  <2>3. QED
    BY <2>2 DEF KeptInv, AnsweredIsKept
<1>7. CASE LoadPanics \/ CommitFails \/ Crash \/ Restart
  BY <1>7 DEF LoadPanics, CommitFails, Crash, Restart, Panic, KeptInv, AnsweredIsKept
<1>8. ASSUME NEW p \in Protocols, Listen(p) \/ ListenPanics(p) \/ EndCrawl(p) PROVE KeptInv'
  BY <1>8 DEF Listen, ListenPanics, EndCrawl, Panic, KeptInv, AnsweredIsKept, Heard,
              Silent, memory
<1>9. CASE CreateTable \/ Commit \/ Truncate \/ Bound \/ UNCHANGED vars
  BY <1>9 DEF CreateTable, Commit, Truncate, Bound, KeptInv, AnsweredIsKept, Heard, Silent,
              memory, vars
<1>10. QED
  BY <1>1, <1>2, <1>3, <1>4, <1>5, <1>6, <1>7, <1>8, <1>9 DEF Next

\* The merge loses no node that answered on either protocol less than
\* revalidateInterval ago, however long the round takes and however the two
\* crawls have changed their copies of the set.
THEOREM AnsweredAlwaysKept == Spec => []AnsweredIsKept
<1>1. Init => KeptInv
  BY DEF Init, KeptInv, AnsweredIsKept
<1>2. KeptInv => AnsweredIsKept
  BY DEF KeptInv
<1>3. QED
  BY <1>1, <1>2, KeptStep, TypeAlways, PTL DEF Spec

-----------------------------------------------------------------------------
(* The database and the node file.                                         *)

\* No row is from a later time, and until the round at hand is committed every
\* row is older; once a round is committed its set is in the
\* table, until the file is written; what the file holds was committed.
DiskInv ==
  /\ \A id \in Ids : rows[id] # Absent =>
       /\ rows[id].now <= now
       /\ pc \in {"load", "create", "crawl", "commit"} => rows[id].now < now
  /\ flags.db /\ pc \in {"save", "write"} =>
       \A id \in Ids : output[id] # Absent => rows[id] = [e |-> output[id], now |-> now]
  /\ FileCommitted

LEMMA RowsNumbered ==
  ASSUME TypeInv, NEW id \in Ids, rows[id] # Absent
  PROVE  rows[id].now \in 0 .. MaxTime
  BY DEF TypeInv, RunType, Table!Row

LEMMA DiskStep == TypeInv /\ DiskInv /\ [Next]_vars => DiskInv'
<1> SUFFICES ASSUME TypeInv, DiskInv, [Next]_vars PROVE DiskInv'
  OBVIOUS
<1>0. /\ now \in Nat /\ saved \in Int /\ (file \in NodeSets => saved < now)
      /\ flags \in Flags /\ output \in NodeSets
      /\ Torn \notin NodeSets
      /\ Absent \notin [e : Entry, now : 0 .. MaxTime]
  BY CrawlNodesAssumption
  DEF TypeInv, SetsType, FileType, RunType, CrawlNodesAssumption, Never
<1>1. CASE Commit
  <2> DEFINE row(id) == [e |-> output[id], now |-> now]
  <2>1. UNCHANGED <<now, output, flags, file, saved>>
    BY <1>1 DEF Commit, memory
  <2>2. \A id \in Ids : rows'[id] = IF output[id] = Absent THEN rows[id] ELSE row(id)
    BY <1>1, CommitRow
  <2>3. \A id \in Ids : output[id] # Absent => row(id) # Absent
    BY <1>0 DEF NodeSets, TypeInv, SetsType
  <2>4. \A id \in Ids : row(id).now = now
    OBVIOUS
  <2> HIDE DEF row
  <2>5. \A id \in Ids : rows'[id] # Absent => rows'[id].now <= now'
    BY <1>0, <2>1, <2>2, <2>4 DEF DiskInv
  <2>6. \A id \in Ids : output'[id] # Absent => rows'[id] = [e |-> output'[id], now |-> now']
    BY <2>1, <2>2 DEF row
  <2>7. FileCommitted'
    <3> SUFFICES ASSUME flags.db, file \in NodeSets, saved # Never, NEW id \in Ids, file[id] # Absent
                 PROVE  /\ rows'[id] # Absent
                        /\ rows'[id].now >= saved
                        /\ rows'[id].now = saved => rows'[id].e = file[id]
      BY <2>1 DEF FileCommitted
    <3>1. CASE output[id] = Absent
      BY <2>2, <3>1 DEF DiskInv, FileCommitted
    <3>2. CASE output[id] # Absent
      BY <1>0, <2>2, <2>3, <2>4, <3>2
    <3>3. QED
      BY <3>1, <3>2
  <2>8. QED
    BY <1>1, <2>5, <2>6, <2>7 DEF Commit, DiskInv
<1>2. CASE Merge
  BY <1>2 DEF Merge, AfterMerge, DiskInv, FileCommitted, disk
<1>3. CASE Truncate
  BY <1>0, <1>3 DEF Truncate, DiskInv, FileCommitted, memory
<1>4. CASE Write
  <2>1. /\ pc = "write" /\ pc' = "crawl" /\ now' = now + 1 /\ file' = output /\ saved' = now
        /\ UNCHANGED <<rows, flags>>
    BY <1>4 DEF Write, NextRound
  <2>2. \A id \in Ids : rows'[id] # Absent => rows'[id].now < now' /\ rows'[id].now <= now'
    BY <1>0, <2>1, RowsNumbered DEF DiskInv
  <2>3. FileCommitted'
    <3> SUFFICES ASSUME flags.db, NEW id \in Ids, output[id] # Absent
                 PROVE  /\ rows[id] # Absent
                        /\ rows[id].now >= now
                        /\ rows[id].now = now => rows[id].e = output[id]
      BY <2>1 DEF FileCommitted
    <3>1. rows[id] = [e |-> output[id], now |-> now]
      BY <2>1 DEF DiskInv
    <3>2. rows[id] \in [e : Entry, now : 0 .. MaxTime]
      BY <3>1 DEF NodeSets, TypeInv, SetsType
    <3>3. QED
      BY <1>0, <3>1, <3>2
  <2>4. QED
    BY <2>1, <2>2, <2>3 DEF DiskInv
<1>5. CASE NoWrite \/ Restart \/ Tick
  <2>1. pc' \in {"crawl", "load"} /\ now' = now + 1 /\ UNCHANGED <<disk, flags>>
    BY <1>0, <1>5 DEF NoWrite, NextRound, Restart, Tick
  <2>2. \A id \in Ids : rows'[id] # Absent => rows'[id].now < now' /\ rows'[id].now <= now'
    BY <1>0, <2>1, RowsNumbered DEF DiskInv, disk
  <2>3. QED
    BY <2>1, <2>2 DEF DiskInv, FileCommitted, disk
<1>6. CASE Load \/ LoadPanics \/ CreateTable \/ CommitFails \/ Crash
  BY <1>6 DEF Load, LoadPanics, CreateTable, CommitFails, Crash, Panic, DiskInv,
              FileCommitted, disk
<1>7. ASSUME NEW p \in Protocols, Listen(p) \/ ListenPanics(p) \/ EndCrawl(p) PROVE DiskInv'
  BY <1>7 DEF Listen, ListenPanics, EndCrawl, Panic, DiskInv, FileCommitted, memory, disk
<1>8. CASE Crawl4 \/ Crawl5 \/ Bound \/ UNCHANGED vars
  BY <1>8 DEF Crawl4, Crawl5, Changes, Bound, DiskInv, FileCommitted, vars, memory, disk
<1>9. QED
  BY <1>1, <1>2, <1>3, <1>4, <1>5, <1>6, <1>7, <1>8 DEF Next

THEOREM DiskAlways == Spec => []DiskInv
<1>1. Init => DiskInv
  BY CrawlNodesAssumption DEF Init, DiskInv, FileCommitted, Empty, CrawlNodesAssumption
<1>2. QED
  BY <1>1, DiskStep, TypeAlways, PTL DEF Spec

\* What the node file holds the database held before, whatever crash hits
\* whichever step of a round.
THEOREM FileAlwaysCommitted == Spec => []FileCommitted
<1>1. DiskInv => FileCommitted
  BY DEF DiskInv
<1>2. QED
  BY <1>1, DiskAlways, PTL

\* The rounds implement what the readers of the database rely on: the table
\* changes by whole rounds only, and no row goes away or back in time.
THEOREM RoundsImplementTable == Spec => TableSpec
<1>1. Init => Table!TInit
  BY DEF Init, Table!TInit, Empty
<1>2. TypeInv /\ DiskInv /\ [Next]_vars => [Table!TNext]_rows
  <2> SUFFICES ASSUME TypeInv, DiskInv, [Next]_vars PROVE [Table!TNext]_rows
    OBVIOUS
  <2>1. CASE Commit
    <3>1. rows' = [id \in Ids |-> IF output[id] = Absent THEN rows[id]
                                  ELSE [e |-> output[id], now |-> now]]
      BY <2>1, CommitRow
    <3>2. now \in 0 .. MaxTime /\ output \in NodeSets
      BY DEF TypeInv, SetsType
    <3>3. \A id \in Ids : output[id] # Absent =>
            [e |-> output[id], now |-> now] \in Table!Row
      BY <3>2 DEF NodeSets, Table!Row
    <3>4. Table!Round(now)
      BY <2>1, <3>1, <3>3 DEF Table!Round, DiskInv, Commit
    <3>5. QED
      BY <3>1, <3>2, <3>4 DEF Table!TNext
  <2>2. CASE UNCHANGED rows
    BY <2>2
  <2>3. Commit \/ UNCHANGED rows
    BY DEF Next, Load, LoadPanics, CreateTable, Crawl4, Crawl5, Changes, Listen, ListenPanics,
           EndCrawl, Tick, Merge, CommitFails, Truncate, Write, NoWrite, Crash, Restart, Bound,
           Panic, disk, vars
  <2>4. QED
    BY <2>1, <2>2, <2>3
<1>3. QED
  BY <1>1, <1>2, TypeAlways, DiskAlways, PTL DEF Spec, TableSpec, Table!TSpec
=============================================================================
