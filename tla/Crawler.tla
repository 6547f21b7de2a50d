------------------------------- MODULE Crawler -------------------------------
(***************************************************************************)
(* One crawl round: crawler.run, runIterator, getClientInfoLoop and        *)
(* updateNode of crawler/crawl.go, as goroutines that share the node set   *)
(* under c.RWMutex and exchange nodes over the channels c.ch (unbuffered), *)
(* c.reqCh (ReqCap slots) and doneCh (one slot for each iterator).         *)
(*                                                                         *)
(* The run goroutine is the only one that blocks while it holds the lock   *)
(* (updateNode calls RequestENR and sends on reqCh inside it); a worker's  *)
(* critical section never blocks, so it is one step, taken when the run    *)
(* goroutine does not hold the lock.  For the same reason receiving from   *)
(* c.ch and acquiring the lock are one step.                               *)
(***************************************************************************)
EXTENDS NodeSet, Sequences

CONSTANTS Workers,    \* the goroutines that run getClientInfoLoop
          Inputs,     \* the node sets a round may start from
          ReqCap,     \* capacity of reqCh (1024 in newCrawler)
          Interval,   \* revalidateInterval, in ticks of the clock
          HasTimeout, \* whether the timeout flag is above 0
          MaxTime     \* bound on the clock

\* First and last response are set together, by checks that are not later than
\* the last check, and nothing lies in the future of t.
InOrder(e, t) ==
  /\ e.first = Never <=> e.last = Never
  /\ e.first <= e.last /\ e.last <= e.check /\ e.check <= t

\* A round starts from the output of an earlier one, or from a file that holds it.
ASSUME CrawlerAssumption ==
  /\ Absent \notin Entry
  /\ NilNode \notin Node
  /\ Inputs \subseteq NodeSets
  /\ \A s \in Inputs : \A id \in Ids : s[id] # Absent => InOrder(s[id], 0)
  /\ Workers # {}
  /\ ReqCap \in Nat \ {0}
  /\ Interval \in Nat \ {0}
  /\ HasTimeout \in BOOLEAN
  /\ MaxTime \in Nat

VARIABLES
  input,    \* the set the round was given (newCrawler's input); history only
  output,   \* c.output
  now,      \* the wall clock
  pc,       \* where the run goroutine is
  arg,      \* n, the argument of updateNode
  loc,      \* node, updateNode's copy of the entry
  todo,     \* the records the input iterator still has to yield
  itPc,     \* where the goroutine of an iterator is
  itNode,   \* it.Node() of an iterator that is sending
  doneCh,   \* iterators whose goroutine has ended, not yet received
  live,     \* liveIters
  armed,    \* timeoutCh is timeoutTimer.C
  expired,  \* timeoutTimer has fired
  reqCh,    \* records waiting for a worker
  closed,   \* c.closed and reqCh are closed
  wPc,      \* where a worker is
  wNode,    \* the record a worker holds
  wOk       \* the outcome of a worker's getClientInfo

runVars  == <<pc, arg, loc, live, armed, closed>>
itVars   == <<todo, itPc, itNode>>
wVars    == <<wPc, wNode, wOk>>
vars     == <<input, output, now, expired, doneCh, reqCh,
              runVars, itVars, wVars>>

Iters == {"input", "random"}

\* The records of a node set; nodeSet.nodes() sorts them, the order is free here.
Records(set) == {set[id].n : id \in {i \in Ids : set[i] # Absent}}

\* updateNode holds the lock while it waits for the record and for the queue.
Locked == pc \in {"enr", "send"}

Init ==
  /\ input \in Inputs
  /\ output = input
  /\ now = 0
  /\ pc = "select"
  /\ arg = NilNode
  /\ loc = ZeroEntry
  /\ todo = Records(output)
  /\ itPc = [it \in Iters |-> "next"]
  /\ itNode = [it \in Iters |-> NilNode]
  /\ doneCh = <<>>
  /\ live = 2
  /\ armed = FALSE
  /\ expired = FALSE
  /\ reqCh = <<>>
  /\ closed = FALSE
  /\ wPc = [w \in Workers |-> "idle"]
  /\ wNode = [w \in Workers |-> NilNode]
  /\ wOk = [w \in Workers |-> FALSE]

-----------------------------------------------------------------------------
(* runIterator.  Next of the input iterator yields each record once, Next  *)
(* of the discovery iterator yields any record or ends; after Close both   *)
(* return false.                                                           *)

Yield(it, n) ==
  /\ itPc[it] = "next"
  /\ ~closed
  /\ it = "input" => n \in todo
  /\ todo' = IF it = "input" THEN todo \ {n} ELSE todo
  /\ itPc' = [itPc EXCEPT ![it] = "send"]
  /\ itNode' = [itNode EXCEPT ![it] = n]
  /\ UNCHANGED <<input, output, now, expired, doneCh, reqCh, runVars, wVars>>

\* A variant that sends without watching c.closed.
FinishOnNext(it) ==
  /\ itPc[it] = "next" /\ (closed \/ it = "random" \/ todo = {})
  /\ itPc' = [itPc EXCEPT ![it] = "gone"]
  /\ itNode' = [itNode EXCEPT ![it] = NilNode]
  /\ doneCh' = Append(doneCh, it)
  /\ UNCHANGED <<input, output, now, expired, reqCh, runVars, todo, wVars>>

\* The goroutine ends, on a false Next or on c.closed, and reports to doneCh.
Finish(it) ==
  /\ \/ itPc[it] = "next" /\ (closed \/ it = "random" \/ todo = {})
     \/ itPc[it] = "send" /\ closed
  /\ itPc' = [itPc EXCEPT ![it] = "gone"]
  /\ itNode' = [itNode EXCEPT ![it] = NilNode]
  /\ doneCh' = Append(doneCh, it)
  /\ UNCHANGED <<input, output, now, expired, reqCh, runVars, todo, wVars>>

-----------------------------------------------------------------------------
(* run: the select loop and updateNode.                                    *)

RecentlySeen(e) == e # Absent /\ e.check # Never /\ now - e.check < Interval

\* n := <-c.ch, then updateNode(n) up to the request of the record.
Receive(it) ==
  LET n == itNode[it]
      e == output[n.id]
  IN  /\ pc = "select"
      /\ itPc[it] = "send"
      /\ itPc' = [itPc EXCEPT ![it] = "next"]
      /\ itNode' = [itNode EXCEPT ![it] = NilNode]
      /\ IF RecentlySeen(e)
         THEN UNCHANGED <<pc, arg, loc>>
         ELSE /\ pc' = "enr"
              /\ arg' = n
              /\ loc' = [Lookup(output, n.id) EXCEPT !.check = now]
      /\ UNCHANGED <<input, output, now, expired, doneCh, reqCh, live, armed,
                     closed, todo, wVars>>

\* A variant that reads the clock again when the record arrives.
ENRPassLater(nn) ==
  /\ pc = "enr"
  /\ nn.id = arg.id
  /\ pc' = "send"
  /\ loc' = [Passed(loc, nn, loc.check) EXCEPT !.last = now]
  /\ UNCHANGED <<input, output, now, expired, doneCh, reqCh, arg, live, armed,
                 closed, itVars, wVars>>

\* The record arrives: the entry waits for a slot of reqCh to be stored.
ENRPass(nn) ==
  /\ pc = "enr"
  /\ nn.id = arg.id
  /\ pc' = "send"
  /\ loc' = Passed(loc, nn, loc.check)
  /\ UNCHANGED <<input, output, now, expired, doneCh, reqCh, arg, live, armed,
                 closed, itVars, wVars>>

\* A variant that removes a node only when its score is below 0.
ENRFailKeepZero ==
  LET keep == loc.score > 0
  IN  /\ pc = "enr"
      /\ pc'  = IF keep THEN "send" ELSE "select"
      /\ loc' = IF keep THEN Failed(loc, loc.check) ELSE ZeroEntry
      /\ arg' = IF keep THEN arg ELSE NilNode
      /\ UNCHANGED <<input, output, now, expired, doneCh, reqCh, live, armed,
                     closed, itVars, wVars>>

\* No answer: skip a node without a score, halve the score of another one
\* and remove it from the output when nothing is left.
ENRFail ==
  LET half == Failed(loc, loc.check)
      keep == half.score > 0
  IN  /\ pc = "enr"
      /\ pc'  = IF keep THEN "send" ELSE "select"
      /\ loc' = IF keep THEN half ELSE ZeroEntry
      /\ arg' = IF keep THEN arg ELSE NilNode
      /\ output' = IF loc.score > 0 /\ ~keep
                   THEN [output EXCEPT ![arg.id] = Absent] ELSE output
      /\ UNCHANGED <<input, now, expired, doneCh, reqCh, live, armed, closed,
                     itVars, wVars>>

\* A variant that skips the request of a probe when the queue is full.
SendOrSkip ==
  /\ pc = "send"
  /\ reqCh' = IF Len(reqCh) < ReqCap THEN Append(reqCh, arg) ELSE reqCh
  /\ output' = [output EXCEPT ![arg.id] = loc]
  /\ pc' = "select"
  /\ arg' = NilNode
  /\ loc' = ZeroEntry
  /\ UNCHANGED <<input, now, expired, doneCh, live, armed, closed, itVars,
                 wVars>>

\* c.reqCh <- n blocks while the channel is full; then the entry is stored.
Send ==
  /\ pc = "send"
  /\ Len(reqCh) < ReqCap
  /\ reqCh' = Append(reqCh, arg)
  /\ output' = [output EXCEPT ![arg.id] = loc]
  /\ pc' = "select"
  /\ arg' = NilNode
  /\ loc' = ZeroEntry
  /\ UNCHANGED <<input, now, expired, doneCh, live, armed, closed, itVars,
                 wVars>>

\* it := <-doneCh
IterDone ==
  /\ pc = "select"
  /\ doneCh # <<>>
  /\ armed' = (armed \/ (Head(doneCh) = "input" /\ HasTimeout))
  /\ doneCh' = Tail(doneCh)
  /\ live' = live - 1
  /\ pc' = IF live - 1 <= 0 THEN "closing" ELSE "select"
  /\ UNCHANGED <<input, output, now, expired, reqCh, arg, loc, closed, itVars,
                 wVars>>

\* <-timeoutCh
Timeout ==
  /\ pc = "select"
  /\ armed /\ expired
  /\ pc' = "closing"
  /\ UNCHANGED <<input, output, now, expired, doneCh, reqCh, arg, loc, live,
                 armed, closed, itVars, wVars>>

-----------------------------------------------------------------------------
(* run after the loop.                                                     *)

\* close(c.closed); close(c.reqCh); it.Close() for every iterator
Shutdown ==
  /\ pc = "closing"
  /\ closed' = TRUE
  /\ pc' = "drain"
  /\ UNCHANGED <<input, output, now, expired, doneCh, reqCh, arg, loc, live,
                 armed, itVars, wVars>>

\* A variant that takes the report and does not count it.
DrainUncounted ==
  /\ pc = "drain"
  /\ live > 0
  /\ doneCh # <<>>
  /\ doneCh' = Tail(doneCh)
  /\ UNCHANGED <<input, output, now, expired, reqCh, pc, arg, loc, live, armed,
                 closed, itVars, wVars>>

\* for ; liveIters > 0; liveIters-- { <-doneCh }
Drain ==
  /\ pc = "drain"
  /\ live > 0
  /\ doneCh # <<>>
  /\ doneCh' = Tail(doneCh)
  /\ live' = live - 1
  /\ UNCHANGED <<input, output, now, expired, reqCh, pc, arg, loc, armed,
                 closed, itVars, wVars>>

\* Variants that do not wait for the iterators, or for the workers.
ReturnBeforeIterators ==
  /\ pc = "drain"
  /\ \A w \in Workers : wPc[w] = "done"
  /\ pc' = "returned"
  /\ UNCHANGED <<input, output, now, expired, doneCh, reqCh, arg, loc, live,
                 armed, closed, itVars, wVars>>

ReturnBeforeWorkers ==
  /\ pc = "drain"
  /\ live = 0
  /\ pc' = "returned"
  /\ UNCHANGED <<input, output, now, expired, doneCh, reqCh, arg, loc, live,
                 armed, closed, itVars, wVars>>

\* c.Wait(); close(c.ch); return c.output
Return ==
  /\ pc = "drain"
  /\ live = 0
  /\ \A w \in Workers : wPc[w] = "done"
  /\ pc' = "returned"
  /\ UNCHANGED <<input, output, now, expired, doneCh, reqCh, arg, loc, live,
                 armed, closed, itVars, wVars>>

-----------------------------------------------------------------------------
(* getClientInfoLoop.                                                      *)

Take(w) ==
  /\ wPc[w] = "idle"
  /\ reqCh # <<>>
  /\ wPc' = [wPc EXCEPT ![w] = "probe"]
  /\ wNode' = [wNode EXCEPT ![w] = Head(reqCh)]
  /\ reqCh' = Tail(reqCh)
  /\ UNCHANGED <<input, output, now, expired, doneCh, runVars, itVars, wOk>>

\* The channel is closed and drained.
Quit(w) ==
  /\ wPc[w] = "idle"
  /\ closed /\ reqCh = <<>>
  /\ wPc' = [wPc EXCEPT ![w] = "done"]
  /\ UNCHANGED <<input, output, now, expired, doneCh, reqCh, runVars, itVars,
                 wNode, wOk>>

\* getClientInfo returns.
Probe(w, ok) ==
  /\ wPc[w] = "probe"
  /\ wPc' = [wPc EXCEPT ![w] = "store"]
  /\ wOk' = [wOk EXCEPT ![w] = ok]
  /\ UNCHANGED <<input, output, now, expired, doneCh, reqCh, runVars, itVars,
                 wNode>>

\* A variant that does not look the entry up again under the lock.
StoreAnew(w) ==
  LET n == wNode[w]
  IN  /\ wPc[w] = "store"
      /\ ~Locked
      /\ output' = [output EXCEPT ![n.id] = Reported(ZeroEntry, n, wOk[w])]
      /\ wPc' = [wPc EXCEPT ![w] = "idle"]
      /\ wNode' = [wNode EXCEPT ![w] = NilNode]
      /\ wOk' = [wOk EXCEPT ![w] = FALSE]
      /\ UNCHANGED <<input, now, expired, doneCh, reqCh, runVars, itVars>>

\* The critical section: c.Lock() to c.Unlock().
Store(w) ==
  LET n == wNode[w]
  IN  /\ wPc[w] = "store"
      /\ ~Locked
      /\ output' = [output EXCEPT
                      ![n.id] = Reported(Lookup(output, n.id), n, wOk[w])]
      /\ wPc' = [wPc EXCEPT ![w] = "idle"]
      /\ wNode' = [wNode EXCEPT ![w] = NilNode]
      /\ wOk' = [wOk EXCEPT ![w] = FALSE]
      /\ UNCHANGED <<input, now, expired, doneCh, reqCh, runVars, itVars>>

-----------------------------------------------------------------------------
(* The environment: the clock and the timer started by run.                *)

Tick ==
  /\ pc # "returned"
  /\ now < MaxTime
  /\ now' = now + 1
  /\ UNCHANGED <<input, output, expired, doneCh, reqCh, runVars, itVars,
                 wVars>>

TimerFires ==
  /\ ~expired
  /\ expired' = TRUE
  /\ UNCHANGED <<input, output, now, doneCh, reqCh, runVars, itVars, wVars>>

\* A round that has returned does nothing more.
Terminated == pc = "returned" /\ UNCHANGED vars

Iterator(it) == (\E n \in Node : Yield(it, n)) \/ Finish(it)

Run ==
  \/ \E it \in Iters : Receive(it)
  \/ \E nn \in Node : ENRPass(nn)
  \/ ENRFail
  \/ Send
  \/ IterDone
  \/ Timeout
  \/ Shutdown
  \/ Drain
  \/ Return

Worker(w) ==
  \/ Take(w)
  \/ Quit(w)
  \/ \E ok \in BOOLEAN : Probe(w, ok)
  \/ Store(w)

Next ==
  \/ \E it \in Iters : Iterator(it)
  \/ Run
  \/ \E w \in Workers : Worker(w)
  \/ Tick
  \/ TimerFires
  \/ Terminated

Spec == Init /\ [][Next]_vars

-----------------------------------------------------------------------------
(* Fairness.  Every goroutine is scheduled; RequestENR and getClientInfo   *)
(* return, both run under deadlines; the timer fires; the input iterator   *)
(* is a finite slice and a closed iterator returns.  Strong fairness where *)
(* Go gives more: a waiting sender of c.ch is served in FIFO order, select *)
(* chooses at random among its ready cases, and a starving sync.RWMutex    *)
(* hands the lock to the goroutine that waits for it.                      *)

Fairness ==
  /\ WF_vars(Iterator("input"))
  /\ WF_vars(closed /\ Finish("random"))
  /\ \A it \in Iters : SF_vars(Receive(it))
  /\ WF_vars(ENRFail \/ \E nn \in Node : ENRPass(nn))
  /\ WF_vars(Send)
  /\ SF_vars(IterDone)
  /\ SF_vars(Timeout)
  /\ WF_vars(Shutdown \/ Drain \/ Return)
  /\ \A w \in Workers :
       /\ WF_vars(Take(w))
       /\ WF_vars(Quit(w))
       /\ WF_vars(\E ok \in BOOLEAN : Probe(w, ok))
       /\ SF_vars(Store(w))
  /\ WF_vars(TimerFires)

FairSpec == Spec /\ Fairness

-----------------------------------------------------------------------------
(* Properties.                                                             *)

\* Types: of the crawler struct, of the locals of run and updateNode, and of
\* the goroutines' states; updateNode always works on the record of a node.
TypeOK ==
  /\ input \in NodeSets /\ output \in NodeSets
  /\ now \in 0 .. MaxTime
  /\ pc \in {"select", "enr", "send", "closing", "drain", "returned"}
  /\ Locked => arg \in Node
  /\ loc \in AnyEntry
  /\ todo \subseteq Node
  /\ itPc \in [Iters -> {"next", "send", "gone"}]
  /\ itNode \in [Iters -> Node \cup {NilNode}]
  /\ doneCh \in Seq(Iters)
  /\ live \in Int
  /\ armed \in BOOLEAN /\ expired \in BOOLEAN /\ closed \in BOOLEAN
  /\ reqCh \in Seq(Node)
  /\ wPc \in [Workers -> {"idle", "probe", "store", "done"}]
  /\ wNode \in [Workers -> Node \cup {NilNode}]
  /\ wOk \in [Workers -> BOOLEAN]

\* No goroutine sends on a closed channel, which would panic: once reqCh is
\* closed updateNode is not running any more, and run closes c.ch (Return)
\* only when no iterator goroutine is left to send on it.
NoSendOnClosed ==
  /\ closed => ~Locked
  /\ pc = "returned" => \A it \in Iters : itPc[it] = "gone"

\* run returns a finished set: no request is left in the queue and no worker
\* is left to change the map that crawlRound then reads without the lock.
Quiescent ==
  pc = "returned" => /\ reqCh = <<>> /\ doneCh = <<>>
                     /\ \A w \in Workers : wPc[w] = "done"

\* A worker has taken the record of this node and has not stored its report.
InHand(id) ==
  \E w \in Workers : wPc[w] \in {"probe", "store"} /\ wNode[w].id = id

Queued(id) == \E i \in 1 .. Len(reqCh) : reqCh[i].id = id

\* An accepted node is never forgotten: an entry without client information
\* is on its way to a worker, or is the one that came with the input, which
\* no check of this round has touched.
NoForgottenNode ==
  \A id \in Ids :
    output[id] # Absent /\ output[id].report = "none"
      => Queued(id) \/ InHand(id) \/ output[id] = input[id]

\* Halving leads to removal: an entry with no score left is one that a worker
\* put back after the removal, as if never checked, or the round was given it
\* without a score, and nobody keeps a node that has lost its score.
RemovedAtZero ==
  \A id \in Ids :
    output[id] # Absent /\ output[id].score = 0
      => \/ output[id].check = Never
         \/ input[id] # Absent /\ input[id].score = 0

\* The times of an entry agree with each other and with the clock, also in
\* an entry that a worker put back after updateNode had removed the node.
TimesOrdered == \A id \in Ids : output[id] # Absent => InOrder(output[id], now)

-----------------------------------------------------------------------------
(* The inductive invariant.                                                *)

\* A goroutine that is about to pass a record on has one.
HoldersOK ==
  /\ \A it \in Iters : itPc[it] = "send" => itNode[it] \in Node
  /\ \A w \in Workers : wPc[w] \in {"probe", "store"} => wNode[w] \in Node

\* Nobody changes the entry of arg while updateNode works on its copy.
LocOK ==
  LET e == Lookup(output, arg.id)
      t == loc.check
  IN  /\ Locked => InOrder(loc, now) /\ t \in 0 .. now
      /\ pc = "enr" => loc = [e EXCEPT !.check = t]
      /\ pc = "send" =>
           /\ loc \in Entry
           /\ \/ \E nn \in Node : nn.id = arg.id /\ loc = Passed(e, nn, t)
              \/ e.score > 0 /\ loc = Failed(e, t) /\ loc.score > 0

Alive(it) == IF itPc[it] = "gone" THEN 0 ELSE 1

\* liveIters counts the iterators that run has not heard of.
LiveOK == live = Alive("input") + Alive("random") + Len(doneCh)

\* What is closed stays closed, and a worker leaves only a closed, empty queue.
ClosedOK ==
  /\ closed <=> pc \in {"drain", "returned"}
  /\ pc = "returned" => live = 0 /\ \A w \in Workers : wPc[w] = "done"
  /\ \A w \in Workers : wPc[w] = "done" => closed /\ reqCh = <<>>

\* The invariant that the proofs of the round rest on: what updateNode
\* decided on before the network call and the full queue still holds when
\* it stores, and the bookkeeping of the shutdown is exact.
Inv == TypeOK /\ HoldersOK /\ LocOK /\ LiveOK /\ ClosedOK /\ TimesOrdered

-----------------------------------------------------------------------------

\* crawlNodes' timeout flag: once the input is revalidated and the timer has
\* fired, the round ends.
TimeoutEndsRound == (armed /\ expired) ~> (pc = "returned")

\* updateNode waits for a slot of reqCh while it holds the lock that every
\* worker needs before it can empty a slot.
Blocked ==
  /\ pc = "send" /\ Len(reqCh) = ReqCap
  /\ \A w \in Workers : wPc[w] = "store"

\* The full queue is the only thing that can keep the round from ending.
EndsUnlessBlocked ==
  <>[]Blocked \/ ((armed /\ expired) ~> (pc = "returned"))

\* newCrawler: "Any nodes that fail validation will be dropped from output
\* during the run": a node that is not in the output comes into it only by
\* passing a check.
DroppedUntilValid ==
  [][\A id \in Ids : output[id] = Absent /\ output'[id] # Absent
        => output'[id].last # Never]_vars

\* Every step of the round is an atomic check or an atomic report of
\* CrawlContract, or changes nothing the contract speaks of.
Contract == INSTANCE CrawlContract
              WITH Times <- 0 .. MaxTime, ended <- pc = "returned"

ContractSpec == Contract!CSpec
=============================================================================
