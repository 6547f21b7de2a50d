---------------------------- MODULE CrawlerProofs ----------------------------
(***************************************************************************)
(* Proofs about one crawl round, for every set of nodes and workers, every *)
(* capacity of the queue and every input.                                  *)
(***************************************************************************)
EXTENDS Crawler, NodeSetProofs, TLAPS

-----------------------------------------------------------------------------
(* Entries.                                                                *)

\* What is stored keeps the times in order, when the check is not in the future.
LEMMA StoredInOrder ==
  ASSUME NEW e \in AnyEntry, NEW n \in Node, NEW t \in Nat, NEW now0 \in Nat,
         NEW ok \in BOOLEAN, InOrder(e, now0)
  PROVE  /\ t <= now0 /\ t >= e.check => /\ InOrder(Passed(e, n, t), now0)
                                         /\ InOrder(Failed(e, t), now0)
         /\ InOrder([e EXCEPT !.check = now0], now0)
         /\ InOrder(Reported(e, n, ok), now0)
         /\ InOrder(e, now0 + 1)
<1>1. e.check <= now0 /\ e.first \in Time /\ e.last \in Time /\ e.check \in Time
  BY DEF AnyEntry, InOrder
<1>2. t <= now0 /\ t >= e.check => InOrder(Passed(e, n, t), now0)
  BY <1>1 DEF Passed, InOrder, Time, Never, AnyEntry
<1>3. t <= now0 /\ t >= e.check => InOrder(Failed(e, t), now0)
  BY <1>1 DEF Failed, InOrder, Time, Never, AnyEntry
<1>4. InOrder([e EXCEPT !.check = now0], now0)
  BY <1>1 DEF InOrder, Time, Never, AnyEntry
<1>5. InOrder(Reported(e, n, ok), now0)
  BY <1>1 DEF Reported, InOrder, Time, Never, AnyEntry
<1>6. InOrder(e, now0 + 1)
  BY <1>1 DEF InOrder, Time, Never, AnyEntry
<1>7. QED
  BY <1>2, <1>3, <1>4, <1>5, <1>6

\* The zero entry and every entry of an ordered set are in order.
LEMMA LookupInOrder ==
  ASSUME NEW set \in NodeSets, NEW id \in Ids, NEW t \in Nat,
         set[id] # Absent => InOrder(set[id], t)
  PROVE  InOrder(Lookup(set, id), t)
  BY DEF Lookup, InOrder, ZeroEntry, Never

-----------------------------------------------------------------------------
(* Sequences: what the channels are built from.                            *)

LEMMA AppendProperties ==
  ASSUME NEW S, NEW s \in Seq(S), NEW e \in S
  PROVE  /\ Append(s, e) \in Seq(S)
         /\ Len(Append(s, e)) = Len(s) + 1
         /\ Append(s, e) # <<>>
         /\ Append(s, e)[Len(s) + 1] = e
         /\ \A i \in 1 .. Len(s) : Append(s, e)[i] = s[i]
  OBVIOUS

LEMMA TakeProperties ==
  ASSUME NEW S, NEW s \in Seq(S), s # <<>>
  PROVE  /\ Head(s) \in S /\ Head(s) = s[1]
         /\ Tail(s) \in Seq(S)
         /\ Len(Tail(s)) = Len(s) - 1
         /\ Len(s) > 0
         /\ \A i \in 1 .. Len(s) - 1 : Tail(s)[i] = s[i + 1]
  OBVIOUS

-----------------------------------------------------------------------------
(* The invariant.                                                          *)

\* Every round starts in the invariant.
THEOREM InvInit == Init => Inv
<1> SUFFICES ASSUME Init PROVE Inv
  OBVIOUS
<1> USE CrawlerAssumption, SeqAssumption
<1>1. input \in NodeSets /\ output \in NodeSets
  BY DEF Init
<1>2. TypeOK
  <2>1. todo \subseteq Node
    BY <1>1 DEF Init, Records, NodeSets, Entry
  <2>2. loc \in AnyEntry
    BY DEF Init, ZeroEntry, AnyEntry, Time, Never, Report
  <2>3. doneCh \in Seq(Iters) /\ reqCh \in Seq(Node)
    BY DEF Init
  <2>4. /\ itPc \in [Iters -> {"next", "send", "gone"}]
        /\ itNode \in [Iters -> Node \cup {NilNode}]
    BY DEF Init
  <2>5. /\ wPc \in [Workers -> {"idle", "probe", "store", "done"}]
        /\ wNode \in [Workers -> Node \cup {NilNode}]
        /\ wOk \in [Workers -> BOOLEAN]
    BY DEF Init
  <2>6. armed \in BOOLEAN /\ expired \in BOOLEAN /\ closed \in BOOLEAN
    BY DEF Init
  <2>7. now \in 0 .. MaxTime /\ live \in Int /\ pc = "select"
    BY DEF Init
  <2>8. QED
    BY <1>1, <2>1, <2>2, <2>3, <2>4, <2>5, <2>6, <2>7 DEF TypeOK, Locked
<1>3. HoldersOK /\ LocOK /\ ClosedOK
  BY DEF Init, HoldersOK, LocOK, Locked, ClosedOK
<1>4. LiveOK
  BY DEF Init, LiveOK, Alive, Iters
<1>5. TimesOrdered
  BY DEF Init, TimesOrdered
<1>6. QED
  BY <1>2, <1>3, <1>4, <1>5 DEF Inv

\* An iterator yields a record.
LEMMA YieldInv ==
  ASSUME NEW it \in Iters, NEW n \in Node, Inv, Yield(it, n)
  PROVE  Inv'
<1> USE DEF Inv
<1>1. TypeOK' /\ HoldersOK' /\ LocOK' /\ LiveOK' /\ ClosedOK' /\ TimesOrdered'
  BY DEF Yield, TypeOK, Locked, HoldersOK, LocOK, LiveOK, Alive, Iters,
         ClosedOK, TimesOrdered, runVars, itVars, wVars
<1>2. QED
  BY <1>1

\* A goroutine of an iterator ends and reports: it stays counted until received.
LEMMA FinishInv ==
  ASSUME NEW it \in Iters, Inv, Finish(it)
  PROVE  Inv'
<1> USE DEF Inv
<1>1. TypeOK'
  <2>1. doneCh' \in Seq(Iters)
    BY AppendProperties DEF Finish, TypeOK
  <2>2. QED
    BY <2>1 DEF Finish, TypeOK, Locked, runVars, wVars
<1>4. LiveOK'
  <2>1. Len(doneCh') = Len(doneCh) + 1 /\ Len(doneCh) \in Nat
    BY AppendProperties DEF Finish, TypeOK
  <2>2. Alive(it) = 1 /\ Alive(it)' = 0
    BY DEF Finish, Alive, TypeOK
  <2>3. \A other \in Iters : other # it => Alive(other)' = Alive(other)
    BY DEF Finish, Alive, TypeOK
  <2>4. \A other \in Iters : Alive(other) \in Nat /\ Alive(other)' \in Nat
    BY DEF Alive
  <2>5. live' = live
    BY DEF Finish, runVars
  <2>6. CASE it = "input"
    BY <2>1, <2>2, <2>3, <2>4, <2>5, <2>6 DEF LiveOK, Iters
  <2>7. CASE it = "random"
    BY <2>1, <2>2, <2>3, <2>4, <2>5, <2>7 DEF LiveOK, Iters
  <2>8. QED
    BY <2>6, <2>7 DEF Iters
<1>7. HoldersOK' /\ LocOK' /\ ClosedOK' /\ TimesOrdered'
  BY DEF Finish, HoldersOK, TypeOK, LocOK, Locked, ClosedOK, TimesOrdered,
         runVars, itVars, wVars
<1>8. QED
  BY <1>1, <1>4, <1>7

\* updateNode starts on a record that it received.
LEMMA ReceiveInv ==
  ASSUME NEW it \in Iters, Inv, Receive(it)
  PROVE  Inv'
<1> USE DEF Inv
<1> USE CrawlerAssumption
<1> DEFINE n == itNode[it]
<1>a. n \in Node /\ n.id \in Ids
  BY DEF Receive, HoldersOK, Node
<1>b. now \in Nat /\ output \in NodeSets
  BY DEF TypeOK
<1>c. Lookup(output, n.id) \in AnyEntry
  BY <1>a, <1>b, LookupType
<1> HIDE DEF n
<1>1. TypeOK'
  <2>1. [Lookup(output, n.id) EXCEPT !.check = now] \in AnyEntry
    BY <1>b, <1>c DEF AnyEntry, Time
  <2>2. QED
    BY <1>a, <2>1 DEF Receive, TypeOK, Locked, wVars, n
<1>3. LocOK'
  <2>1. CASE RecentlySeen(output[n.id])
    BY <2>1 DEF Receive, LocOK, Locked, n
  <2>2. CASE ~RecentlySeen(output[n.id])
    <3>1. /\ pc' = "enr" /\ arg' = n /\ UNCHANGED <<output, now>>
          /\ loc' = [Lookup(output, n.id) EXCEPT !.check = now]
      BY <2>2 DEF Receive, n
    <3>2. InOrder(Lookup(output, n.id), now)
      BY <1>a, <1>b, LookupInOrder DEF TimesOrdered
    <3>3. InOrder(loc', now)
      BY <3>1, <3>2, <1>b, <1>c DEF InOrder, AnyEntry, Time, Never
    <3>4. loc'.check = now /\ now \in 0 .. now
      BY <3>1, <1>b, <1>c DEF AnyEntry
    <3>5. QED
      BY <3>1, <3>3, <3>4 DEF LocOK, Locked, InOrder
  <2>3. QED
    BY <2>1, <2>2
<1>4. LiveOK'
  BY DEF Receive, LiveOK, Alive, Iters, TypeOK
<1>7. HoldersOK' /\ ClosedOK' /\ TimesOrdered'
  BY DEF Receive, HoldersOK, TypeOK, ClosedOK, Locked, TimesOrdered, runVars,
         itVars, wVars
<1>8. QED
  BY <1>1, <1>3, <1>4, <1>7

\* The copy of updateNode becomes the entry of a node that answered.
LEMMA ENRPassInv ==
  ASSUME NEW nn \in Node, Inv, ENRPass(nn)
  PROVE  Inv'
<1> USE DEF Inv
<1>a. loc \in AnyEntry /\ now \in Nat /\ loc.check \in 0 .. now /\ InOrder(loc, now)
  BY CrawlerAssumption DEF TypeOK, LocOK, Locked, ENRPass
<1>b. Passed(loc, nn, loc.check) \in Entry
  <2>1. loc.check \in Nat /\ TRUE \in BOOLEAN
    BY <1>a
  <2>2. QED
    BY <2>1, <1>a, StoredType
<1>1. TypeOK'
  <2>1. loc' \in AnyEntry
    BY <1>b DEF ENRPass, Entry, AnyEntry
  <2>2. QED
    BY <2>1 DEF ENRPass, TypeOK, Locked, itVars, wVars
<1>3. LocOK'
  <2> DEFINE e == Lookup(output, arg.id)
             t == loc.check
  <2>1. loc = [e EXCEPT !.check = t]
    BY DEF LocOK, ENRPass
  <2>2. Passed(loc, nn, t) = Passed(e, nn, t)
    <3>1. arg \in Node /\ arg.id \in Ids
      BY DEF TypeOK, Locked, ENRPass, Node
    <3>2. e \in AnyEntry
      BY <3>1, LookupType DEF TypeOK
    <3> HIDE DEF e
    <3>3. loc.score = e.score /\ loc.first = e.first /\ loc.report = e.report
      BY <2>1, <3>2 DEF AnyEntry
    <3>4. QED
      BY <3>3 DEF Passed
  <2>3. InOrder(loc', now)
    <3>1. t \in Nat /\ t <= now /\ t >= loc.check
      BY <1>a
    <3>2. QED
      BY <3>1, <1>a, StoredInOrder DEF ENRPass
  <2>4. loc'.check = t
    BY DEF ENRPass, Passed
  <2>5. /\ pc' = "send" /\ arg' = arg /\ now' = now /\ output' = output
        /\ loc' = Passed(loc, nn, t) /\ nn.id = arg.id
    BY DEF ENRPass
  <2> HIDE DEF t
  <2>6. QED
    BY <1>a, <1>b, <2>2, <2>3, <2>4, <2>5 DEF LocOK, Locked, t, InOrder
<1>7. HoldersOK' /\ LiveOK' /\ ClosedOK' /\ TimesOrdered'
  BY DEF ENRPass, HoldersOK, TypeOK, LiveOK, Alive, Iters, ClosedOK, Locked,
         TimesOrdered, runVars, itVars, wVars
<1>8. QED
  BY <1>1, <1>3, <1>7

\* The copy of a node that did not answer keeps half of its score or goes.
LEMMA ENRFailInv ==
  ASSUME Inv, ENRFail
  PROVE  Inv'
<1> USE DEF Inv
<1>a. loc \in AnyEntry /\ now \in Nat /\ loc.check \in 0 .. now /\ InOrder(loc, now)
  BY CrawlerAssumption DEF TypeOK, LocOK, Locked, ENRFail
<1>d. arg \in Node /\ arg.id \in Ids
  BY DEF TypeOK, Locked, ENRFail, Node
<1>b. loc.check \in Nat /\ TRUE \in BOOLEAN
  BY <1>a
<1>e. Failed(loc, loc.check) \in AnyEntry
  BY <1>a, <1>b, <1>d, StoredType
<1>c. ZeroEntry \in AnyEntry
  BY DEF ZeroEntry, AnyEntry, Time, Never, Report
<1>1. TypeOK'
  <2>1. loc' \in AnyEntry
    BY <1>e, <1>c DEF ENRFail
  <2>2. output' \in NodeSets
    BY DEF ENRFail, TypeOK, NodeSets
  <2>3. QED
    BY <2>1, <2>2 DEF ENRFail, TypeOK, Locked, itVars, wVars
<1>3. LocOK'
  <2> DEFINE e == Lookup(output, arg.id)
             t == loc.check
             keep == Failed(loc, t).score > 0
  <2>1. CASE ~keep
    BY <2>1 DEF ENRFail, LocOK, Locked
  <2>2. CASE keep
    <3>1. /\ pc' = "send" /\ arg' = arg /\ now' = now /\ output' = output
          /\ loc' = Failed(loc, t)
      BY <2>2 DEF ENRFail
    <3>2. e \in AnyEntry /\ (e.score > 0 => e \in Entry)
      BY <1>d, LookupType DEF TypeOK
    <3>3. loc = [e EXCEPT !.check = t]
      BY DEF LocOK, ENRFail
    <3> HIDE DEF e
    <3>4. loc.score = e.score /\ Failed(loc, t) = Failed(e, t)
      BY <3>2, <3>3 DEF AnyEntry, Failed
    <3>5. Failed(e, t).score <= e.score /\ Failed(e, t) \in AnyEntry
      BY <1>b, <1>d, <3>2, StoredType
    <3>6. e.score \in Nat /\ Failed(e, t).score \in Nat
      BY <3>2, <3>5 DEF AnyEntry
    <3>7. e.score > 0 /\ e \in Entry
      BY <2>2, <3>2, <3>4, <3>5, <3>6
    <3>8. Failed(e, t) \in Entry
      BY <1>b, <1>d, <3>2, <3>7, StoredType
    <3>9. InOrder(loc', now)
      <4>1. t \in Nat /\ t <= now /\ t >= loc.check
        BY <1>a
      <4>2. QED
        BY <4>1, <1>a, <1>d, <3>1, StoredInOrder
    <3>10. loc'.check = t
      BY <3>1, <1>a DEF Failed, AnyEntry
    <3> HIDE DEF t
    <3>11. QED
      BY <1>a, <2>2, <3>1, <3>4, <3>7, <3>8, <3>9, <3>10
      DEF LocOK, Locked, e, t, InOrder
  <2>3. QED
    BY <2>1, <2>2
<1>6. TimesOrdered'
  BY DEF ENRFail, TimesOrdered, TypeOK, NodeSets
<1>7. HoldersOK' /\ LiveOK' /\ ClosedOK'
  BY DEF ENRFail, HoldersOK, TypeOK, LiveOK, Alive, Iters, ClosedOK, Locked,
         runVars, itVars, wVars
<1>8. QED
  BY <1>1, <1>3, <1>6, <1>7

\* The copy is stored in the set, its record in the queue.
LEMMA SendInv ==
  ASSUME Inv, Send
  PROVE  Inv'
<1> USE DEF Inv
<1>a. arg \in Node /\ arg.id \in Ids /\ loc \in Entry
  BY DEF TypeOK, Locked, Send, Node, LocOK
<1>1. TypeOK'
  <2>1. reqCh' \in Seq(Node)
    BY <1>a, AppendProperties DEF Send, TypeOK
  <2>2. output' \in NodeSets
    BY <1>a DEF Send, TypeOK, NodeSets
  <2>3. loc' \in AnyEntry
    BY DEF Send, ZeroEntry, AnyEntry, Time, Never, Report
  <2>4. QED
    BY <2>1, <2>2, <2>3 DEF Send, TypeOK, Locked, itVars, wVars
<1>6. TimesOrdered'
  <2>1. InOrder(loc, now)
    BY DEF LocOK, Locked, Send
  <2>2. QED
    BY <1>a, <2>1 DEF Send, TimesOrdered, TypeOK, NodeSets
<1>7. HoldersOK' /\ LocOK' /\ LiveOK' /\ ClosedOK'
  BY DEF Send, HoldersOK, TypeOK, LocOK, Locked, LiveOK, Alive, Iters,
         ClosedOK, runVars, itVars, wVars
<1>8. QED
  BY <1>1, <1>6, <1>7

\* run hears of an iterator that has ended.
LEMMA IterDoneInv ==
  ASSUME Inv, IterDone
  PROVE  Inv'
<1> USE DEF Inv
<1>a. Head(doneCh) \in Iters /\ doneCh' \in Seq(Iters) /\ Len(doneCh') = Len(doneCh) - 1
  BY TakeProperties DEF IterDone, TypeOK
<1>b. Len(doneCh) \in Nat
  BY DEF TypeOK
<1>1. TypeOK'
  BY <1>a, CrawlerAssumption DEF IterDone, TypeOK, Locked, itVars, wVars
<1>4. LiveOK'
  <2>1. live' = live - 1 /\ itPc' = itPc
    BY DEF IterDone, itVars
  <2>2. Alive("input")' = Alive("input") /\ Alive("random")' = Alive("random")
    BY <2>1 DEF Alive
  <2>3. Alive("input") \in Nat /\ Alive("random") \in Nat
    BY DEF Alive
  <2>4. QED
    BY <1>a, <1>b, <2>1, <2>2, <2>3 DEF LiveOK
<1>7. HoldersOK' /\ LocOK' /\ ClosedOK' /\ TimesOrdered'
  BY DEF IterDone, HoldersOK, TypeOK, LocOK, Locked, ClosedOK, TimesOrdered,
         runVars, itVars, wVars
<1>8. QED
  BY <1>1, <1>4, <1>7

\* The timeout ends the loop.
LEMMA TimeoutInv ==
  ASSUME Inv, Timeout
  PROVE  Inv'
<1> USE DEF Inv
<1>1. TypeOK' /\ HoldersOK' /\ LocOK' /\ LiveOK' /\ ClosedOK' /\ TimesOrdered'
  BY DEF Timeout, TypeOK, Locked, HoldersOK, LocOK, LiveOK, Alive, Iters,
         ClosedOK, TimesOrdered, runVars, itVars, wVars
<1>2. QED
  BY <1>1

\* The channels are closed.
LEMMA ShutdownInv ==
  ASSUME Inv, Shutdown
  PROVE  Inv'
<1> USE DEF Inv
<1>1. TypeOK' /\ HoldersOK' /\ LocOK' /\ LiveOK' /\ ClosedOK' /\ TimesOrdered'
  BY DEF Shutdown, TypeOK, Locked, HoldersOK, LocOK, LiveOK, Alive, Iters,
         ClosedOK, TimesOrdered, runVars, itVars, wVars
<1>2. QED
  BY <1>1

\* run waits for the iterators.
LEMMA DrainInv ==
  ASSUME Inv, Drain
  PROVE  Inv'
<1> USE DEF Inv
<1>a. doneCh' \in Seq(Iters) /\ Len(doneCh') = Len(doneCh) - 1
  BY TakeProperties DEF Drain, TypeOK
<1>b. Len(doneCh) \in Nat
  BY DEF TypeOK
<1>1. TypeOK'
  BY <1>a DEF Drain, TypeOK, Locked, itVars, wVars
<1>4. LiveOK'
  <2>1. live' = live - 1 /\ itPc' = itPc
    BY DEF Drain, itVars
  <2>2. Alive("input")' = Alive("input") /\ Alive("random")' = Alive("random")
    BY <2>1 DEF Alive
  <2>3. Alive("input") \in Nat /\ Alive("random") \in Nat
    BY DEF Alive
  <2>4. QED
    BY <1>a, <1>b, <2>1, <2>2, <2>3 DEF LiveOK
<1>7. HoldersOK' /\ LocOK' /\ ClosedOK' /\ TimesOrdered'
  BY DEF Drain, HoldersOK, TypeOK, LocOK, Locked, ClosedOK, TimesOrdered,
         runVars, itVars, wVars
<1>8. QED
  BY <1>1, <1>4, <1>7

\* run returns.
LEMMA ReturnInv ==
  ASSUME Inv, Return
  PROVE  Inv'
<1> USE DEF Inv
<1>1. TypeOK' /\ HoldersOK' /\ LocOK' /\ LiveOK' /\ ClosedOK' /\ TimesOrdered'
  BY DEF Return, TypeOK, Locked, HoldersOK, LocOK, LiveOK, Alive, Iters,
         ClosedOK, TimesOrdered, runVars, itVars, wVars
<1>2. QED
  BY <1>1

\* A worker takes a record from the queue.
LEMMA TakeInv ==
  ASSUME NEW w \in Workers, Inv, Take(w)
  PROVE  Inv'
<1> USE DEF Inv
<1>a. Head(reqCh) \in Node /\ reqCh' \in Seq(Node)
  BY TakeProperties DEF Take, TypeOK
<1>1. TypeOK'
  BY <1>a DEF Take, TypeOK, Locked, runVars, itVars
<1>2. HoldersOK'
  BY <1>a DEF Take, HoldersOK, TypeOK, itVars
<1>7. LocOK' /\ LiveOK' /\ ClosedOK' /\ TimesOrdered'
  BY DEF Take, LocOK, Locked, TypeOK, LiveOK, Alive, Iters, ClosedOK,
         TimesOrdered, runVars, itVars, wVars
<1>8. QED
  BY <1>1, <1>2, <1>7

\* A worker finds the queue closed and empty.
LEMMA QuitInv ==
  ASSUME NEW w \in Workers, Inv, Quit(w)
  PROVE  Inv'
<1> USE DEF Inv
<1>1. TypeOK' /\ HoldersOK' /\ LocOK' /\ LiveOK' /\ ClosedOK' /\ TimesOrdered'
  BY DEF Quit, TypeOK, Locked, HoldersOK, LocOK, LiveOK, Alive, Iters,
         ClosedOK, TimesOrdered, runVars, itVars, wVars
<1>2. QED
  BY <1>1

\* A probe ends.
LEMMA ProbeInv ==
  ASSUME NEW w \in Workers, NEW ok \in BOOLEAN, Inv, Probe(w, ok)
  PROVE  Inv'
<1> USE DEF Inv
<1>1. TypeOK' /\ HoldersOK' /\ LocOK' /\ LiveOK' /\ ClosedOK' /\ TimesOrdered'
  BY DEF Probe, TypeOK, Locked, HoldersOK, LocOK, LiveOK, Alive, Iters,
         ClosedOK, TimesOrdered, runVars, itVars, wVars
<1>2. QED
  BY <1>1

\* A worker applies its report to the entry as it is now.
LEMMA StoreInv ==
  ASSUME NEW w \in Workers, Inv, Store(w)
  PROVE  Inv'
<1> USE DEF Inv
<1> DEFINE n == wNode[w]
          e == Lookup(output, n.id)
<1>a. n \in Node /\ n.id \in Ids
  BY DEF Store, HoldersOK, Node
<1>b. e \in AnyEntry /\ wOk[w] \in BOOLEAN
  BY <1>a, LookupType DEF TypeOK
<1>c. Reported(e, n, wOk[w]) \in Entry
  <2>1. 0 \in Nat
    OBVIOUS
  <2>2. QED
    BY <2>1, <1>a, <1>b, StoredType
<1>d. /\ output' = [output EXCEPT ![n.id] = Reported(e, n, wOk[w])]
      /\ now' = now /\ ~Locked
  BY DEF Store
<1> HIDE DEF n, e
<1>1. TypeOK'
  <2>1. output' \in NodeSets
    BY <1>a, <1>c, <1>d DEF TypeOK, NodeSets
  <2>2. QED
    BY <2>1 DEF Store, TypeOK, Locked, runVars, itVars
<1>6. TimesOrdered'
  <2>1. now \in Nat
    BY CrawlerAssumption DEF TypeOK
  <2>2. InOrder(e, now)
    BY <1>a, <2>1, LookupInOrder DEF TypeOK, TimesOrdered, e
  <2>3. InOrder(Reported(e, n, wOk[w]), now)
    BY <1>a, <1>b, <2>1, <2>2, StoredInOrder
  <2>4. QED
    BY <1>a, <1>d, <2>3 DEF TimesOrdered, TypeOK, NodeSets
<1>7. HoldersOK' /\ LocOK' /\ LiveOK' /\ ClosedOK'
  BY DEF Store, HoldersOK, TypeOK, LocOK, Locked, LiveOK, Alive, Iters,
         ClosedOK, runVars, itVars, wVars
<1>8. QED
  BY <1>1, <1>6, <1>7

\* Time passes: nothing that was in order gets out of it.
LEMMA TickInv ==
  ASSUME Inv, Tick
  PROVE  Inv'
<1> USE DEF Inv
<1>a. now \in Nat /\ now' = now + 1
  BY CrawlerAssumption DEF Tick, TypeOK
<1>1. TypeOK'
  BY CrawlerAssumption DEF Tick, TypeOK, Locked, runVars, itVars, wVars
<1>3. LocOK'
  <2>1. \A e : InOrder(e, now) /\ e.check \in 0 .. now => InOrder(e, now')
    BY <1>a DEF InOrder
  <2>2. UNCHANGED <<output, runVars>>
    BY DEF Tick
  <2>3. 0 .. now \subseteq 0 .. now'
    BY <1>a
  <2>4. QED
    BY <2>1, <2>2, <2>3 DEF LocOK, Locked, runVars
<1>6. TimesOrdered'
  <2>1. output' = output
    BY DEF Tick
  <2>2. \A id \in Ids : output[id] # Absent => output[id] \in Entry
    BY LookupType DEF TypeOK
  <2>3. \A e \in Entry : InOrder(e, now) => InOrder(e, now')
    BY <1>a DEF InOrder, Entry, Time, Never
  <2>4. QED
    BY <2>1, <2>2, <2>3 DEF TimesOrdered
<1>7. HoldersOK' /\ LiveOK' /\ ClosedOK'
  BY DEF Tick, HoldersOK, TypeOK, LiveOK, Alive, Iters, ClosedOK, Locked,
         runVars, itVars, wVars
<1>8. QED
  BY <1>1, <1>3, <1>6, <1>7

\* The timer fires.
LEMMA TimerFiresInv ==
  ASSUME Inv, TimerFires
  PROVE  Inv'
<1> USE DEF Inv
<1>1. TypeOK' /\ HoldersOK' /\ LocOK' /\ LiveOK' /\ ClosedOK' /\ TimesOrdered'
  BY DEF TimerFires, TypeOK, Locked, HoldersOK, LocOK, LiveOK, Alive, Iters,
         ClosedOK, TimesOrdered, runVars, itVars, wVars
<1>2. QED
  BY <1>1

\* Every step of the round keeps the invariant.
THEOREM InvStep == Inv /\ [Next]_vars => Inv'
<1> SUFFICES ASSUME Inv, [Next]_vars PROVE Inv'
  OBVIOUS
<1>1. CASE \E it \in Iters : Iterator(it)
  BY <1>1, YieldInv, FinishInv DEF Iterator
<1>2. CASE Run
  BY <1>2, ReceiveInv, ENRPassInv, ENRFailInv, SendInv, IterDoneInv, TimeoutInv,
     ShutdownInv, DrainInv, ReturnInv DEF Run
<1>3. CASE \E w \in Workers : Worker(w)
  BY <1>3, TakeInv, QuitInv, ProbeInv, StoreInv DEF Worker
<1>4. CASE Tick \/ TimerFires
  BY <1>4, TickInv, TimerFiresInv
<1>5. CASE Terminated \/ UNCHANGED vars
  <2>1. UNCHANGED vars
    BY <1>5 DEF Terminated
  <2>2. QED
    BY <2>1 DEF vars, runVars, itVars, wVars, Inv, TypeOK, Locked, HoldersOK,
                LocOK, LiveOK, Alive, ClosedOK, TimesOrdered
<1>6. QED
  BY <1>1, <1>2, <1>3, <1>4, <1>5 DEF Next

\* The invariant holds in every state of every round.
THEOREM InvAlways == Spec => []Inv
<1>1. Init => Inv
  BY InvInit
<1>2. Inv /\ [Next]_vars => Inv'
  BY InvStep
<1>3. QED
  BY <1>1, <1>2, PTL DEF Spec

-----------------------------------------------------------------------------
(* Consequences of the invariant.                                          *)

\* Every variable keeps its type, whatever the network answers.
THEOREM TypeCorrect == Spec => []TypeOK
  BY InvAlways, PTL DEF Inv

\* The times of an entry agree, although two goroutines write its parts.
THEOREM TimesAlwaysOrdered == Spec => []TimesOrdered
  BY InvAlways, PTL DEF Inv

\* When run returns, every iterator has ended and has been heard of.
LEMMA AllHeardOf ==
  ASSUME Inv, pc = "returned"
  PROVE  doneCh = <<>> /\ \A it \in Iters : itPc[it] = "gone"
<1>1. live = 0 /\ live = Alive("input") + Alive("random") + Len(doneCh)
  BY DEF Inv, ClosedOK, LiveOK
<1>2. Alive("input") \in {0, 1} /\ Alive("random") \in {0, 1} /\ Len(doneCh) \in Nat
  BY DEF Alive, Inv, TypeOK
<1>3. Alive("input") = 0 /\ Alive("random") = 0 /\ Len(doneCh) = 0
  BY <1>1, <1>2
<1>4. doneCh = <<>>
  BY <1>3 DEF Inv, TypeOK
<1>5. QED
  BY <1>3, <1>4 DEF Alive, Iters

\* No goroutine of the round can panic by sending on a closed channel.
THEOREM NeverSendsOnClosed == Spec => []NoSendOnClosed
<1>1. Inv => NoSendOnClosed
  <2> SUFFICES ASSUME Inv PROVE NoSendOnClosed
    OBVIOUS
  <2>1. closed => ~Locked
    BY DEF Inv, ClosedOK, Locked
  <2>2. QED
    BY <2>1, AllHeardOf DEF NoSendOnClosed
<1>2. QED
  BY <1>1, InvAlways, PTL

\* The set that run returns is final, and no request was left behind in it.
THEOREM ReturnsQuiescent == Spec => []Quiescent
<1>1. Inv => Quiescent
  <2> SUFFICES ASSUME Inv, pc = "returned" PROVE Quiescent
    BY DEF Quiescent
  <2>1. \A w \in Workers : wPc[w] = "done"
    BY DEF Inv, ClosedOK
  <2>2. reqCh = <<>>
    BY <2>1, CrawlerAssumption DEF Inv, ClosedOK
  <2>3. QED
    BY <2>1, <2>2, AllHeardOf DEF Quiescent
<1>2. QED
  BY <1>1, InvAlways, PTL

-----------------------------------------------------------------------------
(* Accepted nodes are probed.                                              *)

\* An entry without client information that this round made or changed, as
\* NoForgottenNode speaks of it.
Pending(id) ==
  output[id] # Absent /\ output[id].report = "none" /\ output[id] # input[id]

\* A record that is in the queue or in a worker's hands stays on its way when
\* neither the queue loses it nor a worker puts it down.
LEMMA StaysOnItsWay ==
  ASSUME NEW id \in Ids, UNCHANGED <<reqCh, wNode>>,
         \A w \in Workers : wPc[w] \in {"probe", "store"}
                              => wPc'[w] \in {"probe", "store"}
  PROVE  Queued(id) \/ InHand(id) => Queued(id)' \/ InHand(id)'
  BY DEF Queued, InHand

\* The set that the round was given is only recorded.
LEMMA InputKept == [Next]_vars => input' = input
  BY DEF Next, vars, Iterator, Yield, Finish, Run, Receive, ENRPass, ENRFail,
         Send, IterDone, Timeout, Shutdown, Drain, Return, Worker, Take, Quit,
         Probe, Store, Tick, TimerFires, Terminated

\* Every step keeps NoForgottenNode.
LEMMA NoForgottenStep ==
  ASSUME Inv, NoForgottenNode, [Next]_vars
  PROVE  NoForgottenNode'
<1> SUFFICES ASSUME NEW id \in Ids, Pending(id)'
             PROVE  Queued(id)' \/ InHand(id)'
  BY DEF NoForgottenNode, Pending
<1>a. Pending(id) => Queued(id) \/ InHand(id)
  BY DEF NoForgottenNode, Pending
<1>b. output \in NodeSets /\ reqCh \in Seq(Node)
  BY DEF Inv, TypeOK
<1>c. input' = input
  BY InputKept
<1>1. CASE Send
  <2>1. arg \in Node
    BY <1>1 DEF Inv, TypeOK, Send, Locked
  <2>2. /\ reqCh' = Append(reqCh, arg) /\ UNCHANGED <<wPc, wNode>>
        /\ output' = [output EXCEPT ![arg.id] = loc]
    BY <1>1 DEF Send, wVars
  <2>3. CASE arg.id = id
    <3>1. Len(reqCh') = Len(reqCh) + 1 /\ reqCh'[Len(reqCh) + 1] = arg
          /\ Len(reqCh) \in Nat
      BY <1>b, <2>1, <2>2, AppendProperties
    <3>2. Len(reqCh) + 1 \in 1 .. Len(reqCh')
      BY <3>1
    <3>3. QED
      BY <2>3, <3>1, <3>2 DEF Queued
  <2>4. CASE arg.id # id
    <3>1. Pending(id)
      BY <1>b, <1>c, <2>1, <2>2, <2>4 DEF Pending, NodeSets
    <3>2. Queued(id) => Queued(id)'
      <4>1. Len(reqCh') = Len(reqCh) + 1 /\ Len(reqCh) \in Nat
            /\ \A i \in 1 .. Len(reqCh) : reqCh'[i] = reqCh[i]
        BY <1>b, <2>1, <2>2, AppendProperties
      <4>2. 1 .. Len(reqCh) \subseteq 1 .. Len(reqCh')
        BY <4>1
      <4>3. QED
        BY <4>1, <4>2 DEF Queued
    <3>3. InHand(id) => InHand(id)'
      BY <2>2 DEF InHand
    <3>4. QED
      BY <1>a, <3>1, <3>2, <3>3
  <2>5. QED
    BY <2>3, <2>4
<1>2. ASSUME NEW w \in Workers, Take(w) PROVE Queued(id)' \/ InHand(id)'
  <2>1. /\ wPc[w] = "idle" /\ wPc' = [wPc EXCEPT ![w] = "probe"]
        /\ wNode' = [wNode EXCEPT ![w] = Head(reqCh)]
        /\ reqCh # <<>> /\ reqCh' = Tail(reqCh) /\ output' = output
    BY <1>2 DEF Take
  <2>2. /\ Head(reqCh) = reqCh[1] /\ Len(reqCh') = Len(reqCh) - 1
        /\ Len(reqCh) \in Nat
        /\ \A i \in 1 .. Len(reqCh) - 1 : reqCh'[i] = reqCh[i + 1]
    BY <1>b, <2>1, TakeProperties
  <2>3. wPc'[w] = "probe" /\ wNode'[w] = reqCh[1]
    BY <2>1, <2>2 DEF Inv, TypeOK
  <2>4. InHand(id) => InHand(id)'
    BY <2>1 DEF InHand, Inv, TypeOK
  <2>5. ASSUME NEW i \in 1 .. Len(reqCh), reqCh[i].id = id
        PROVE  Queued(id)' \/ InHand(id)'
    <3>1. CASE i = 1
      BY <2>3, <2>5, <3>1 DEF InHand
    <3>2. CASE i # 1
      <4>1. i - 1 \in 1 .. Len(reqCh') /\ reqCh'[i - 1] = reqCh[i]
        BY <2>2, <2>5, <3>2
      <4>2. QED
        BY <2>5, <4>1 DEF Queued
    <3>3. QED
      BY <3>1, <3>2
  <2>6. QED
    BY <1>a, <1>c, <2>1, <2>4, <2>5 DEF Pending, Queued
<1>3. ASSUME NEW w \in Workers, Store(w) PROVE Queued(id)' \/ InHand(id)'
  <2>1. /\ wNode[w] \in Node /\ wNode[w].id \in Ids
        /\ output' = [output EXCEPT ![wNode[w].id] =
                        Reported(Lookup(output, wNode[w].id), wNode[w], wOk[w])]
        /\ wPc' = [wPc EXCEPT ![w] = "idle"]
        /\ wNode' = [wNode EXCEPT ![w] = NilNode]
        /\ reqCh' = reqCh
    BY <1>3 DEF Store, Inv, HoldersOK, Node
  <2>2. wNode[w].id # id
    <3>1. Lookup(output, wNode[w].id) \in AnyEntry
      BY <1>b, <2>1, LookupType
    <3>2. Reported(Lookup(output, wNode[w].id), wNode[w], wOk[w]).report # "none"
      BY <3>1 DEF Reported, AnyEntry
    <3>3. QED
      BY <1>b, <2>1, <3>2 DEF Pending, NodeSets
  <2>3. Pending(id)
    BY <1>b, <1>c, <2>1, <2>2 DEF Pending, NodeSets
  <2>4. InHand(id) => InHand(id)'
    BY <2>1, <2>2 DEF InHand, Inv, TypeOK
  <2>5. Queued(id) => Queued(id)'
    BY <2>1 DEF Queued
  <2>6. QED
    BY <1>a, <2>3, <2>4, <2>5
<1>4. ASSUME NEW w \in Workers, Quit(w) \/ \E ok \in BOOLEAN : Probe(w, ok)
      PROVE  Queued(id)' \/ InHand(id)'
  <2>1. UNCHANGED <<output, reqCh, wNode>>
    BY <1>4 DEF Quit, Probe
  <2>2. \A v \in Workers : wPc[v] \in {"probe", "store"}
                             => wPc'[v] \in {"probe", "store"}
    BY <1>4 DEF Quit, Probe, Inv, TypeOK
  <2>3. QED
    BY <1>a, <1>c, <2>1, <2>2, StaysOnItsWay DEF Pending
<1>5. CASE ENRFail
  <2>1. UNCHANGED <<reqCh, wPc, wNode>>
    BY <1>5 DEF ENRFail, wVars
  <2>2. Pending(id)
    BY <1>5, <1>b, <1>c DEF ENRFail, Pending, NodeSets
  <2>3. QED
    BY <1>a, <2>1, <2>2, StaysOnItsWay
<1>6. ASSUME UNCHANGED <<output, reqCh, wPc, wNode>>
      PROVE  Queued(id)' \/ InHand(id)'
  BY <1>a, <1>c, <1>6, StaysOnItsWay DEF Pending
<1>7. CASE Run
  <2>1. CASE \/ \E it \in Iters : Receive(it)
             \/ \E nn \in Node : ENRPass(nn)
             \/ IterDone \/ Timeout \/ Shutdown \/ Drain \/ Return
    BY <2>1, <1>6 DEF Receive, ENRPass, IterDone, Timeout, Shutdown, Drain,
                      Return, wVars
  <2>2. QED
    BY <1>7, <1>1, <1>5, <2>1 DEF Run
<1>8. CASE \E it \in Iters : Iterator(it)
  BY <1>8, <1>6 DEF Iterator, Yield, Finish, wVars
<1>9. CASE Tick \/ TimerFires \/ Terminated \/ UNCHANGED vars
  BY <1>9, <1>6 DEF Tick, TimerFires, Terminated, vars, wVars
<1>10. CASE \E w \in Workers : Worker(w)
  BY <1>10, <1>2, <1>3, <1>4 DEF Worker
<1>11. QED
  BY <1>7, <1>8, <1>9, <1>10 DEF Next

\* No accepted node is forgotten: as long as an entry that the round has
\* touched has no client information, its record waits for a worker or is in
\* the hands of one.
THEOREM NoNodeForgotten == Spec => []NoForgottenNode
<1>1. Init => NoForgottenNode
  BY DEF Init, NoForgottenNode
<1>2. Inv /\ NoForgottenNode /\ [Next]_vars => NoForgottenNode'
  BY NoForgottenStep
<1>3. QED
  BY <1>1, <1>2, InvAlways, PTL DEF Spec

-----------------------------------------------------------------------------
(* A node without a score is gone.                                         *)

\* What updateNode stores has a score.
LEMMA SendHasScore == Inv /\ Send => loc.score > 0
<1> SUFFICES ASSUME Inv, Send PROVE loc.score > 0
  OBVIOUS
<1> DEFINE e == Lookup(output, arg.id)
<1>1. e \in AnyEntry
  BY LookupType DEF Inv, TypeOK, Locked, Send, Node
<1> HIDE DEF e
<1>2. \/ \E nn \in Node : loc = Passed(e, nn, loc.check)
      \/ loc.score > 0
  BY DEF Inv, LocOK, Send, e
<1>3. ASSUME NEW nn \in Node, loc = Passed(e, nn, loc.check)
      PROVE  loc.score > 0
  <2>1. loc.score = e.score + 1
    BY <1>3 DEF Passed
  <2>2. QED
    BY <1>1, <2>1 DEF AnyEntry
<1>4. QED
  BY <1>2, <1>3

\* A report leaves a node without a score only if it had none, and then with
\* the check that it had, or with none at all.
LEMMA ReportKeepsScore ==
  ASSUME NEW e \in AnyEntry, NEW n \in Node, NEW ok \in BOOLEAN,
         Reported(e, n, ok).score = 0
  PROVE  e.score = 0 /\ Reported(e, n, ok).check = e.check
  BY DEF Reported, AnyEntry, ProbeBonus

\* Every step keeps RemovedAtZero.
LEMMA RemovedAtZeroStep ==
  ASSUME Inv, RemovedAtZero, [Next]_vars
  PROVE  RemovedAtZero'
<1>a. input' = input /\ output \in NodeSets
  BY InputKept DEF Inv, TypeOK
<1>1. CASE Send
  <2>1. output' = [output EXCEPT ![arg.id] = loc] /\ loc.score > 0
    BY <1>1, SendHasScore DEF Send
  <2>2. QED
    BY <1>a, <2>1 DEF RemovedAtZero, NodeSets
<1>2. CASE ENRFail
  BY <1>2, <1>a DEF ENRFail, RemovedAtZero, NodeSets
<1>3. ASSUME NEW w \in Workers, Store(w) PROVE RemovedAtZero'
  <2> DEFINE n == wNode[w]
             e == Lookup(output, n.id)
  <2>1. n \in Node /\ n.id \in Ids /\ wOk[w] \in BOOLEAN
    BY <1>3 DEF Store, Inv, TypeOK, HoldersOK, Node
  <2>2. output' = [output EXCEPT ![n.id] = Reported(e, n, wOk[w])]
    BY <1>3 DEF Store
  <2>3. e \in AnyEntry
    BY <1>a, <2>1, LookupType
  <2>4. e.score = 0 => \/ e.check = Never
                       \/ input[n.id] # Absent /\ input[n.id].score = 0
    BY <2>1 DEF RemovedAtZero, Lookup, ZeroEntry
  <2> HIDE DEF n, e
  <2>5. Reported(e, n, wOk[w]).score = 0
          => e.score = 0 /\ Reported(e, n, wOk[w]).check = e.check
    BY <2>1, <2>3, ReportKeepsScore
  <2>6. QED
    BY <1>a, <2>1, <2>2, <2>4, <2>5 DEF RemovedAtZero, NodeSets
<1>4. ASSUME output' = output PROVE RemovedAtZero'
  BY <1>a, <1>4 DEF RemovedAtZero
<1>5. CASE Run
  <2>1. CASE \/ \E it \in Iters : Receive(it)
             \/ \E nn \in Node : ENRPass(nn)
             \/ IterDone \/ Timeout \/ Shutdown \/ Drain \/ Return
    BY <2>1, <1>4 DEF Receive, ENRPass, IterDone, Timeout, Shutdown, Drain,
                      Return
  <2>2. QED
    BY <1>5, <1>1, <1>2, <2>1 DEF Run
<1>6. CASE \E w \in Workers : Worker(w)
  <2>1. ASSUME NEW w \in Workers,
               Take(w) \/ Quit(w) \/ \E ok \in BOOLEAN : Probe(w, ok)
        PROVE  output' = output
    BY <2>1 DEF Take, Quit, Probe
  <2>2. QED
    BY <1>6, <1>3, <1>4, <2>1 DEF Worker
<1>7. CASE \/ \E it \in Iters : Iterator(it)
           \/ Tick \/ TimerFires \/ Terminated \/ UNCHANGED vars
  BY <1>7, <1>4 DEF Iterator, Yield, Finish, Tick, TimerFires, Terminated, vars
<1>8. QED
  BY <1>5, <1>6, <1>7 DEF Next

\* A node that lost its score in failed checks is gone, unless a worker put it
\* back, and then as a node that was never checked.
THEOREM AlwaysRemovedAtZero == Spec => []RemovedAtZero
<1>1. Init => RemovedAtZero
  BY DEF Init, RemovedAtZero
<1>2. Inv /\ RemovedAtZero /\ [Next]_vars => RemovedAtZero'
  BY RemovedAtZeroStep
<1>3. QED
  BY <1>1, <1>2, InvAlways, PTL DEF Spec

-----------------------------------------------------------------------------
(* The round implements its contract.                                      *)

\* The contract speaks of entries as the round does.
LEMMA SameWords ==
  /\ Contract!Node = Node
  /\ \A set, id : Contract!Lookup(set, id) = Lookup(set, id)
  /\ \A e, n, t : Contract!Passed(e, n, t) = Passed(e, n, t)
  /\ \A e, t : Contract!Failed(e, t) = Failed(e, t)
  /\ \A e, n, ok : Contract!Reported(e, n, ok) = Reported(e, n, ok)
<1>1. Contract!Node = Node
  BY DEF Contract!Node, Node
<1>2. ASSUME NEW set, NEW id PROVE Contract!Lookup(set, id) = Lookup(set, id)
  BY DEF Contract!Lookup, Lookup, Contract!ZeroEntry, ZeroEntry,
         Contract!Never, Never
<1>3. ASSUME NEW e, NEW n, NEW t PROVE Contract!Passed(e, n, t) = Passed(e, n, t)
  BY DEF Contract!Passed, Passed, Contract!Never, Never
<1>4. ASSUME NEW e, NEW t PROVE Contract!Failed(e, t) = Failed(e, t)
  BY DEF Contract!Failed, Failed
<1>5. ASSUME NEW e, NEW n, NEW ok
      PROVE  Contract!Reported(e, n, ok) = Reported(e, n, ok)
  BY DEF Contract!Reported, Reported, Contract!ProbeBonus, ProbeBonus
<1>6. QED
  BY <1>1, <1>2, <1>3, <1>4, <1>5

\* Every step of a round is one atomic check or one atomic report applied to
\* the set as it is at that moment, although a check spans a network call and
\* a wait for the queue: what the lock is for.
THEOREM RoundImplementsContract == Spec => ContractSpec
<1>1. Init => Contract!CInit
  BY DEF Init, Contract!CInit
<1>2. Inv /\ [Next]_vars => [Contract!CNext]_Contract!cvars
  <2> SUFFICES ASSUME Inv, [Next]_vars
               PROVE  [Contract!CNext]_Contract!cvars
    OBVIOUS
  <2> USE DEF Contract!CNext, Contract!cvars
  <2>a. output \in NodeSets /\ now \in 0 .. MaxTime
    BY DEF Inv, TypeOK
  <2>1. CASE Send
    <3> DEFINE e == Lookup(output, arg.id)
               t == loc.check
    <3>1. /\ output' = [output EXCEPT ![arg.id] = loc]
          /\ pc # "returned" /\ pc' # "returned"
      BY <2>1 DEF Send
    <3>2. arg \in Node /\ arg.id \in Ids /\ t \in 0 .. MaxTime
      BY <2>1, <2>a, CrawlerAssumption
      DEF Inv, TypeOK, LocOK, Locked, Send, Node
    <3>3. \/ \E nn \in Node : nn.id = arg.id /\ loc = Passed(e, nn, t)
          \/ e.score > 0 /\ loc = Failed(e, t) /\ loc.score > 0
      BY <2>1 DEF Inv, LocOK, Send
    <3> HIDE DEF t
    <3>4. CASE \E nn \in Node : nn.id = arg.id /\ loc = Passed(e, nn, t)
      <4>1. PICK nn \in Node : nn.id = arg.id /\ loc = Passed(e, nn, t)
        BY <3>4
      <4>2. Contract!Pass(nn.id, nn, t)
        BY <3>1, <4>1, SameWords DEF Contract!Pass
      <4>3. QED
        BY <3>1, <3>2, <4>2, SameWords DEF Contract!Change
    <3>5. CASE e.score > 0 /\ loc = Failed(e, t) /\ loc.score > 0
      <4>1. Contract!Fail(arg.id, t)
        BY <3>1, <3>5, SameWords DEF Contract!Fail
      <4>2. QED
        BY <3>1, <3>2, <4>1 DEF Contract!Change
    <3>6. QED
      BY <3>3, <3>4, <3>5
  <2>2. CASE ENRFail
    <3> DEFINE e == Lookup(output, arg.id)
               t == loc.check
    <3>1. arg \in Node /\ arg.id \in Ids /\ t \in 0 .. MaxTime /\ t \in Nat
      BY <2>2, <2>a, CrawlerAssumption
      DEF Inv, TypeOK, LocOK, Locked, ENRFail, Node
    <3>2. pc # "returned" /\ pc' # "returned"
      BY <2>2 DEF ENRFail
    <3>3. CASE output' = output
      BY <3>2, <3>3
    <3>4. CASE output' # output
      <4>1. /\ loc.score > 0 /\ ~(Failed(loc, t).score > 0)
            /\ output' = [output EXCEPT ![arg.id] = Absent]
        BY <2>2, <3>4 DEF ENRFail
      <4>2. e \in AnyEntry
        BY <2>a, <3>1, LookupType
      <4>3. loc = [e EXCEPT !.check = t]
        BY <2>2 DEF Inv, LocOK, ENRFail
      <4> HIDE DEF e
      <4>4. loc.score = e.score /\ Failed(loc, t) = Failed(e, t)
        BY <4>2, <4>3 DEF AnyEntry, Failed
      <4> HIDE DEF t
      <4>5. e.score > 0 /\ ~(Failed(e, t).score > 0)
        BY <4>1, <4>4
      <4>6. Contract!Fail(arg.id, t)
        BY <4>1, <4>5, SameWords DEF Contract!Fail, e
      <4>7. QED
        BY <3>1, <3>2, <4>6 DEF Contract!Change
    <3>5. QED
      BY <3>3, <3>4
  <2>3. ASSUME NEW w \in Workers, Store(w) PROVE Contract!CNext
    <3>1. wNode[w] \in Node /\ wOk[w] \in BOOLEAN
      BY <2>3 DEF Inv, TypeOK, HoldersOK, Store
    <3>2. pc # "returned" /\ pc' = pc
      BY <2>3 DEF Inv, ClosedOK, Store, runVars
    <3>3. output' = [output EXCEPT ![wNode[w].id] =
                       Reported(Lookup(output, wNode[w].id), wNode[w], wOk[w])]
      BY <2>3 DEF Store
    <3>4. Contract!Note(wNode[w], wOk[w])
      BY <3>3, SameWords DEF Contract!Note
    <3>5. QED
      BY <3>1, <3>2, <3>4, SameWords DEF Contract!Change
  <2>4. CASE Return
    BY <2>4 DEF Return, Contract!End
  <2>5. CASE UNCHANGED output /\ (pc' = pc \/ {pc, pc'} \cap {"returned"} = {})
    BY <2>5
  <2>6. CASE Run
    <3>1. CASE \/ \E it \in Iters : Receive(it)
               \/ \E nn \in Node : ENRPass(nn)
               \/ IterDone \/ Timeout \/ Shutdown \/ Drain
      BY <3>1, <2>5 DEF Receive, ENRPass, IterDone, Timeout, Shutdown, Drain
    <3>2. QED
      BY <2>6, <3>1, <2>1, <2>2, <2>4 DEF Run
  <2>7. CASE \E w \in Workers : Worker(w)
    <3>1. ASSUME NEW w \in Workers,
                 Take(w) \/ Quit(w) \/ \E ok \in BOOLEAN : Probe(w, ok)
          PROVE  UNCHANGED <<output, pc>>
      BY <3>1 DEF Take, Quit, Probe, runVars
    <3>2. QED
      BY <2>7, <3>1, <2>3, <2>5 DEF Worker
  <2>8. CASE \/ \E it \in Iters : Iterator(it)
             \/ Tick \/ TimerFires \/ Terminated \/ UNCHANGED vars
    BY <2>8, <2>5 DEF Iterator, Yield, Finish, Tick, TimerFires, Terminated,
                      vars, runVars
  <2>9. QED
    BY <2>6, <2>7, <2>8 DEF Next
<1>3. QED
  BY <1>1, <1>2, InvAlways, PTL DEF Spec, ContractSpec, Contract!CSpec
=============================================================================
