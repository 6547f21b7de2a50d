------------------------------ MODULE Handshake ------------------------------
(***************************************************************************)
(* getClientInfo (crawler/handshake.go) as the workers of a crawl run it:  *)
(* each dials a peer, exchanges Hello and Status, and returns.  What they  *)
(* share, also across the two crawls of a round, is the global _status,    *)
(* which getStatus and readStatus change without a lock.  The read or the  *)
(* write of a pointer or of a field is one step, and anything may happen   *)
(* between two steps.  A Status stays reachable for whoever holds it, so   *)
(* every one that was created is kept in a sequence and the global is the  *)
(* index of one.  What the peer says in its Hello is in ClientName.        *)
(***************************************************************************)
EXTENDS Integers, Sequences, FiniteSets

CONSTANTS Workers,  \* goroutines that probe
          Versions, \* eth versions that a peer may advertise
          Ours,     \* ourHighestProtoVersion: the newest one that writeHello offers
          TDs,      \* total difficulties that a peer may announce
          HasNode,  \* whether the nodeURL flag is set
          MaxHeight,\* bound on the chain of the node at nodeURL
          MaxProbes \* bound on the probes of each worker

ASSUME HandshakeAssumption ==
  /\ IsFiniteSet(Workers)
  /\ Versions \subseteq Nat \ {0} /\ Ours \in Nat \ {0}
  /\ TDs \subseteq Nat
  /\ HasNode \in BOOLEAN /\ MaxHeight \in Nat /\ MaxProbes \in Nat

VARIABLES
  created, \* every Status that getStatus has created
  status,  \* _status, 0 for nil
  height,  \* height of the chain of the node at nodeURL
  pc,      \* where a worker is in getClientInfo
  version, \* conn.negotiatedProtoVersion
  header,  \* the header a worker got from the node
  clash,   \* another worker came between while this one was at the head of _status
  mine,    \* the Status that getStatus returned to it
  td,      \* the TD in the Status of its peer
  probes   \* how often it has dialled

shared == <<created, status, height>>
locals == <<version, header, mine, td>>
vars   == <<shared, clash, pc, locals, probes>>

\* ProtocolVersion, TD, and the heights that Head and ForkID were made from.
Status == [version : 1 .. Ours, td : TDs \cup {0},
           head : 0 .. MaxHeight, fork : 0 .. MaxHeight]

Steps == {"idle", "dial", "hello", "nil?", "create", "node", "setHead", "setFork",
          "take", "write", "readStatus", "compare", "setTD"}

Init ==
  /\ created = <<>> /\ status = 0 /\ height = 0
  /\ clash = [w \in Workers |-> FALSE]
  /\ pc = [w \in Workers |-> "idle"]
  /\ version = [w \in Workers |-> 0] /\ header = [w \in Workers |-> 0]
  /\ mine = [w \in Workers |-> 0] /\ td = [w \in Workers |-> 0]
  /\ probes = [w \in Workers |-> 0]

Goes(w, from, to) == pc[w] = from /\ pc' = [pc EXCEPT ![w] = to]

\* getClientInfo returns; its locals are gone.
Return(w) ==
  /\ pc' = [pc EXCEPT ![w] = "idle"]
  /\ version' = [version EXCEPT ![w] = 0]
  /\ header' = [header EXCEPT ![w] = 0]
  /\ mine' = [mine EXCEPT ![w] = 0]
  /\ td' = [td EXCEPT ![w] = 0]
  /\ UNCHANGED <<clash, probes>>

-----------------------------------------------------------------------------
(* dial, writeHello and readHello.                                         *)

Dial(w) ==
  /\ probes[w] < MaxProbes
  /\ Goes(w, "idle", "dial")
  /\ probes' = [probes EXCEPT ![w] = @ + 1]
  /\ UNCHANGED <<shared, clash, locals>>

Dialled(w) == Goes(w, "dial", "hello") /\ UNCHANGED <<shared, clash, locals, probes>>

\* A variant without the deadlines for the Status.
FailsEarly(w) ==
  /\ pc[w] \in {"dial", "hello", "nil?"}
  /\ Return(w)
  /\ UNCHANGED shared

\* Deadline, disconnect, or a message that is not the expected one.
Fails(w) ==
  /\ pc[w] \in {"dial", "hello", "nil?", "write", "readStatus"}
  /\ Return(w)
  /\ UNCHANGED shared

\* A variant that goes beyond what we offer.
NegotiatedAny(vs, v) == \A u \in vs : u <= v

\* negotiateEthProtocol: the highest advertised version that is not above ours,
\* whether we offer it or not.
Negotiated(vs, v) == v <= Ours /\ \A u \in vs : u <= Ours => u <= v

Agreed(w, v) ==
  /\ Goes(w, "hello", "nil?")
  /\ version' = [version EXCEPT ![w] = v]
  /\ UNCHANGED <<shared, clash, header, mine, td, probes>>

\* A variant that only listens to a peer without a common eth version.
HelloListens(w) ==
  \/ Goes(w, "hello", "readStatus") /\ UNCHANGED <<shared, clash, locals, probes>>
  \/ \E vs \in SUBSET Versions : \E v \in vs : Negotiated(vs, v) /\ Agreed(w, v)

\* The Hello of the peer; without a common version nothing more is asked.
Hello(w) ==
  \E vs \in SUBSET Versions :
    \/ \E v \in vs : Negotiated(vs, v) /\ Agreed(w, v)
    \/ /\ pc[w] = "hello"
       /\ \A v \in vs : v > Ours
       /\ Return(w)
       /\ UNCHANGED shared

-----------------------------------------------------------------------------
(* getStatus.                                                              *)

AfterCreate == IF HasNode THEN "node" ELSE "take"

\* A variant that creates a Status for every version it is asked for.
CheckNilOrVersion(w) ==
  /\ Goes(w, "nil?", IF status = 0 \/ created[status].version # version[w]
                     THEN "create" ELSE AfterCreate)
  /\ UNCHANGED <<shared, clash, locals, probes>>

\* if _status == nil
CheckNil(w) ==
  /\ Goes(w, "nil?", IF status = 0 THEN "create" ELSE AfterCreate)
  /\ UNCHANGED <<shared, clash, locals, probes>>

\* A worker that has a header and has not finished with the Status.
AtHead(w) == pc[w] \in {"setHead", "setFork"}

\* Those at the head, when another worker gets a header too or creates a Status.
Disturbs == [v \in Workers |-> clash[v] \/ AtHead(v)]

\* &Status{...}, with the version of the connection at hand.
NewStatus(w) == [version |-> version[w], td |-> 0, head |-> 0, fork |-> 0]

Create(w) ==
  /\ Goes(w, "create", AfterCreate)
  /\ created' = Append(created, NewStatus(w))
  /\ status' = Len(created')
  /\ clash' = Disturbs
  /\ UNCHANGED <<height, locals, probes>>

\* The node is asked each time: lastStatusUpdate is never set.  On an error
\* _status is returned as it is.
AskNode(w) ==
  \/ /\ Goes(w, "node", "setHead")
     /\ header' = [header EXCEPT ![w] = height]
     /\ clash' = [Disturbs EXCEPT ![w] = \E v \in Workers \ {w} : AtHead(v)]
     /\ UNCHANGED <<shared, version, mine, td, probes>>
  \/ Goes(w, "node", "take") /\ UNCHANGED <<shared, clash, locals, probes>>

SetHead(w) ==
  /\ Goes(w, "setHead", "setFork")
  /\ created' = [created EXCEPT ![status].head = header[w]]
  /\ UNCHANGED <<status, height, clash, locals, probes>>

\* A variant that takes the node's newest block for the fork ID.
SetForkNow(w) ==
  /\ Goes(w, "setFork", "take")
  /\ created' = [created EXCEPT ![status].fork = height]
  /\ UNCHANGED <<status, height, clash, locals, probes>>

SetFork(w) ==
  /\ Goes(w, "setFork", "take")
  /\ created' = [created EXCEPT ![status].fork = header[w]]
  /\ UNCHANGED <<status, height, clash, locals, probes>>

\* return _status
Take(w) ==
  /\ Goes(w, "take", "write")
  /\ mine' = [mine EXCEPT ![w] = status]
  /\ UNCHANGED <<shared, clash, version, header, td, probes>>

-----------------------------------------------------------------------------
(* conn.Write and readStatus.                                              *)

Write(w) == Goes(w, "write", "readStatus") /\ UNCHANGED <<shared, clash, locals, probes>>

ReadStatus(w, t) ==
  /\ Goes(w, "readStatus", "compare")
  /\ td' = [td EXCEPT ![w] = t]
  /\ UNCHANGED <<shared, clash, version, header, mine, probes>>

\* msg.TD.Cmp(_status.TD) > 0; a Disconnect is sent and the probe is over.
Compare(w) ==
  \/ /\ Goes(w, "compare", "setTD")
     /\ td[w] > created[status].td
     /\ UNCHANGED <<shared, clash, locals, probes>>
  \/ /\ pc[w] = "compare"
     /\ td[w] <= created[status].td
     /\ Return(w)
     /\ UNCHANGED shared

SetTD(w) ==
  /\ pc[w] = "setTD"
  /\ created' = [created EXCEPT ![status].td = td[w]]
  /\ Return(w)
  /\ UNCHANGED <<status, height>>

\* The chain of the node grows.
Grow ==
  /\ HasNode
  /\ height < MaxHeight
  /\ height' = height + 1
  /\ UNCHANGED <<created, status, clash, pc, locals, probes>>

\* What a worker does on its own.
Computes(w) ==
  \/ CheckNil(w) \/ Create(w) \/ SetHead(w) \/ SetFork(w) \/ Take(w)
  \/ Write(w) \/ Compare(w) \/ SetTD(w)

\* What it waits for.
Waits(w) ==
  \/ Dialled(w) \/ Hello(w) \/ AskNode(w) \/ \E t \in TDs : ReadStatus(w, t)

Probe(w) == Dial(w) \/ Computes(w) \/ Waits(w) \/ Fails(w)

Next == Grow \/ \E w \in Workers : Probe(w)

Spec == Init /\ [][Next]_vars

\* Goroutines are scheduled and deadlines expire; neither a peer nor the node at
\* nodeURL has to answer.
FairSpec ==
  Spec /\ \A w \in Workers : WF_vars(Computes(w)) /\ WF_vars(Fails(w))

-----------------------------------------------------------------------------
(* Properties.                                                             *)

\* Types, of the globals and of the locals of getClientInfo.
TypeOK ==
  /\ created \in Seq(Status)
  /\ status \in 0 .. Len(created)
  /\ height \in 0 .. MaxHeight
  /\ clash \in [Workers -> BOOLEAN]
  /\ pc \in [Workers -> Steps]
  /\ version \in [Workers -> 0 .. Ours]
  /\ header \in [Workers -> 0 .. MaxHeight]
  /\ mine \in [Workers -> 0 .. Len(created)]
  /\ td \in [Workers -> TDs \cup {0}]
  /\ probes \in [Workers -> 0 .. MaxProbes]

\* readStatus uses _status without a check and conn.Write encodes what
\* getStatus returned: neither is ever nil, whoever got there first.
NeverNil ==
  \A w \in Workers :
    /\ pc[w] \in {"setHead", "setFork", "take", "readStatus", "compare", "setTD"}
         => status # 0
    /\ pc[w] = "write" => mine[w] # 0

\* Workers that find _status nil at the same time each create one: no more
\* than there are workers, and the newest is the one that is used.
OneEach == Len(created) <= Cardinality(Workers) /\ status = Len(created)

\* getStatus sets Head and ForkID one after the other, for all workers and from a
\* header that may be old by then.  An update that no other worker came between,
\* with a header or a Status of its own, takes neither of them back and leaves
\* both at the same block, whatever the updates before it did.  (Two that overlap
\* may leave them apart or take them back, a second Create takes them to genesis.)
HeadsInOrder ==
  [][\A w \in Workers :
       AtHead(w) /\ pc'[w] # pc[w] /\ ~clash[w] =>
         /\ created'[status].head >= created[status].head
         /\ created'[status].fork >= created[status].fork
         /\ pc[w] = "setFork" => created'[status].head = created'[status].fork]_vars

\* getClientInfo runs under deadlines: a probe ends, whatever the peer does,
\* unless it is left with the node at nodeURL, which is asked without one.
EndsUnlessAtNode ==
  \A w \in Workers : <>[](pc[w] = "node") \/ (pc[w] # "idle" ~> pc[w] = "idle")

\* readStatus, "Set correct TD if received TD is higher": the TD of a Status
\* only ever rises.
TDNeverLowered ==
  [][\A i \in 1 .. Len(created) : created'[i].td >= created[i].td]_vars
=============================================================================
