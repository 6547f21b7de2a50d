--------------------------- MODULE HandshakeProofs ---------------------------
(***************************************************************************)
(* Proofs about the workers that share _status, for every finite set of    *)
(* workers, all versions and total difficulties, with and without a node;  *)
(* and about the names that peers send them, for every client that keeps   *)
(* to the custom.                                                          *)
(***************************************************************************)
EXTENDS MCHandshake, ListProofs, FiniteSetTheorems

-----------------------------------------------------------------------------
(* The sequence of the Status values.                                      *)

\* A new Status is the last one, and the others stay as they are.
LEMMA AppendStatus ==
  ASSUME NEW s \in Seq(Status), NEW x \in Status
  PROVE  /\ Append(s, x) \in Seq(Status)
         /\ Len(Append(s, x)) = Len(s) + 1
         /\ Append(s, x)[Len(s) + 1] = x
  OBVIOUS

\* An assignment to a field changes that one Status.
LEMMA SetStatus ==
  ASSUME NEW s \in Seq(Status), NEW i \in 1 .. Len(s), NEW x \in Status
  PROVE  /\ [s EXCEPT ![i] = x] \in Seq(Status)
         /\ Len([s EXCEPT ![i] = x]) = Len(s)
         /\ [s EXCEPT ![i] = x][i] = x
  OBVIOUS

-----------------------------------------------------------------------------
(* Type correctness and nil.                                               *)

\* Where a worker relies on _status being there.
Relies == {"node", "setHead", "setFork", "take", "write", "readStatus", "compare", "setTD"}

NilOK ==
  /\ status = Len(created)
  /\ \A w \in Workers : pc[w] \in Relies => status # 0
  /\ \A w \in Workers : pc[w] = "write" => mine[w] # 0
  /\ \A w \in Workers : pc[w] \in {"nil?", "create"} => version[w] # 0

NilInv == TypeOK /\ NilOK

THEOREM NilInit == Init => NilInv
<1> SUFFICES ASSUME Init PROVE NilInv
  OBVIOUS
<1> USE HandshakeAssumption
<1>1. TypeOK
  <2>1. created \in Seq(Status) /\ Len(created) = 0
    BY DEF Init
  <2>2. pc \in [Workers -> Steps]
    BY DEF Init, Steps
  <2>3. /\ version \in [Workers -> 0 .. Ours] /\ header \in [Workers -> 0 .. MaxHeight]
        /\ td \in [Workers -> TDs \cup {0}] /\ probes \in [Workers -> 0 .. MaxProbes]
    BY DEF Init
  <2>4. status \in 0 .. Len(created) /\ mine \in [Workers -> 0 .. Len(created)]
    BY <2>1 DEF Init
  <2>5. height \in 0 .. MaxHeight
    BY DEF Init, HandshakeAssumption
  <2>6. clash \in [Workers -> BOOLEAN]
    BY DEF Init
  <2>7. QED
    BY <2>1, <2>2, <2>3, <2>4, <2>5, <2>6 DEF TypeOK
<1>2. NilOK
  BY DEF Init, NilOK, Relies
<1>3. QED
  BY <1>1, <1>2 DEF NilInv

\* A worker that returns relies on nothing.
LEMMA ReturnKeeps ==
  ASSUME NilInv, NEW w \in Workers, Return(w), UNCHANGED shared
  PROVE  NilInv'
<1>0. TypeOK /\ HandshakeAssumption
  BY HandshakeAssumption DEF NilInv
<1>1. TypeOK'
  <2>1. pc' \in [Workers -> Steps]
    BY <1>0 DEF TypeOK, Return, Steps
  <2>2. /\ version' \in [Workers -> 0 .. Ours] /\ header' \in [Workers -> 0 .. MaxHeight]
        /\ td' \in [Workers -> TDs \cup {0}] /\ probes' \in [Workers -> 0 .. MaxProbes]
    BY <1>0 DEF TypeOK, Return, HandshakeAssumption
  <2>3. created' \in Seq(Status) /\ status' \in 0 .. Len(created')
        /\ height' \in 0 .. MaxHeight /\ clash' \in [Workers -> BOOLEAN]
    BY <1>0 DEF TypeOK, shared, Return
  <2>4. mine' \in [Workers -> 0 .. Len(created')]
    BY <1>0 DEF TypeOK, Return, shared
  <2>5. QED
    BY <2>1, <2>2, <2>3, <2>4 DEF TypeOK
<1>2. NilOK'
  BY DEF NilInv, TypeOK, NilOK, Return, shared, Relies
<1>3. QED
  BY <1>1, <1>2 DEF NilInv

\* So does one that goes on while _status stays as it is.
LEMMA GoesKeeps ==
  ASSUME NilInv, NEW w \in Workers, NEW from, NEW to \in Steps, Goes(w, from, to),
         UNCHANGED <<created, status, height, mine>>, clash' \in [Workers -> BOOLEAN],
         version' \in [Workers -> 0 .. Ours], header' \in [Workers -> 0 .. MaxHeight],
         td' \in [Workers -> TDs \cup {0}], probes' \in [Workers -> 0 .. MaxProbes],
         to \in Relies => status # 0, to # "write",
         to \in {"nil?", "create"} => version'[w] # 0,
         \A v \in Workers \ {w} : version'[v] = version[v]
  PROVE  NilInv'
<1>1. TypeOK'
  BY DEF NilInv, TypeOK, Goes
<1>2. NilOK'
  <2>1. \A v \in Workers : pc'[v] = IF v = w THEN to ELSE pc[v]
    BY DEF NilInv, TypeOK, Goes
  <2>2. QED
    BY <2>1 DEF NilInv, NilOK
<1>3. QED
  BY <1>1, <1>2 DEF NilInv

\* So does one that sets a field of the current Status and goes on.
LEMMA FieldKeeps ==
  ASSUME NilInv, NEW w \in Workers, NEW from \in Relies, NEW to \in Relies \ {"write"},
         Goes(w, from, to), NEW x \in Status, created' = [created EXCEPT ![status] = x],
         UNCHANGED <<status, height, clash, locals, probes>>
  PROVE  NilInv'
<1>1. status \in 1 .. Len(created) /\ created \in Seq(Status)
  BY DEF NilInv, TypeOK, NilOK, Goes
<1>2. created' \in Seq(Status) /\ Len(created') = Len(created)
  BY <1>1, SetStatus
<1>3. TypeOK'
  BY <1>2 DEF NilInv, TypeOK, Goes, locals, Relies, Steps
<1>4. NilOK'
  BY <1>1, <1>2 DEF NilInv, TypeOK, NilOK, Goes, locals, Relies
<1>5. QED
  BY <1>3, <1>4 DEF NilInv

THEOREM NilStep == NilInv /\ [Next]_vars => NilInv'
<1> SUFFICES ASSUME NilInv, [Next]_vars PROVE NilInv'
  OBVIOUS
<1> USE HandshakeAssumption
<1>0. created \in Seq(Status) /\ status \in Nat /\ status = Len(created)
  BY DEF NilInv, TypeOK, NilOK
<1>1. ASSUME NEW w \in Workers, Dial(w) PROVE NilInv'
  <2>1. probes' \in [Workers -> 0 .. MaxProbes]
    BY <1>1 DEF Dial, NilInv, TypeOK
  <2>2. QED
    BY <1>1, <2>1, GoesKeeps DEF Dial, NilInv, TypeOK, shared, locals, Steps, Relies
<1>2. ASSUME NEW w \in Workers, Dialled(w) PROVE NilInv'
  BY <1>2, GoesKeeps DEF Dialled, NilInv, TypeOK, shared, locals, Steps, Relies
<1>3. ASSUME NEW w \in Workers, Fails(w) PROVE NilInv'
  BY <1>3, ReturnKeeps DEF Fails
<1>4. ASSUME NEW w \in Workers, Hello(w) PROVE NilInv'
  <2>1. PICK vs \in SUBSET Versions :
          \/ \E v \in vs : Negotiated(vs, v) /\ Agreed(w, v)
          \/ Return(w) /\ UNCHANGED shared
    BY <1>4 DEF Hello
  <2>2. ASSUME NEW v \in vs, Negotiated(vs, v), Agreed(w, v) PROVE NilInv'
    <3>1. v \in 1 .. Ours
      BY <2>2 DEF Negotiated, HandshakeAssumption
    <3>2. version' \in [Workers -> 0 .. Ours] /\ version'[w] # 0
          /\ \A u \in Workers \ {w} : version'[u] = version[u]
      BY <2>2, <3>1 DEF Agreed, NilInv, TypeOK
    <3>3. QED
      BY <2>2, <3>2, GoesKeeps DEF Agreed, NilInv, TypeOK, shared, Steps, Relies
  <2>3. QED
    BY <2>1, <2>2, ReturnKeeps
<1>5. ASSUME NEW w \in Workers, CheckNil(w) PROVE NilInv'
  <2>0. version[w] # 0
    BY <1>5 DEF CheckNil, Goes, NilInv, NilOK
  <2>1. CASE status = 0
    BY <1>5, <2>0, <2>1, GoesKeeps DEF CheckNil, NilInv, TypeOK, shared, locals, Steps, Relies
  <2>2. CASE status # 0
    BY <1>5, <2>2, GoesKeeps
    DEF CheckNil, AfterCreate, NilInv, TypeOK, shared, locals, Steps, Relies
  <2>3. QED
    BY <2>1, <2>2
<1>6. ASSUME NEW w \in Workers, Create(w) PROVE NilInv'
  <2>1. NewStatus(w) \in Status
    <3>1. version[w] \in 1 .. Ours
      BY <1>6 DEF Create, Goes, NilInv, NilOK, TypeOK
    <3>2. QED
      BY <3>1 DEF NewStatus, Status
  <2>2. created' \in Seq(Status) /\ status' = Len(created') /\ status' # 0
        /\ Len(created') >= Len(created)
    BY <1>0, <1>6, <2>1, AppendStatus DEF Create
  <2>3. TypeOK'
    BY <1>6, <2>2 DEF Create, Disturbs, AtHead, Goes, AfterCreate, NilInv, TypeOK, locals, Steps
  <2>4. NilOK'
    BY <1>6, <2>2 DEF Create, Goes, AfterCreate, NilInv, NilOK, TypeOK, locals, Relies
  <2>5. QED
    BY <2>3, <2>4 DEF NilInv
<1>7. ASSUME NEW w \in Workers, AskNode(w) PROVE NilInv'
  <2>1. pc[w] = "node" /\ status # 0
    BY <1>7 DEF AskNode, Goes, NilInv, NilOK, Relies
  <2>2. CASE Goes(w, "node", "setHead")
    <3>1. header' \in [Workers -> 0 .. MaxHeight] /\ clash' \in [Workers -> BOOLEAN]
      BY <1>7, <2>2 DEF AskNode, Disturbs, AtHead, NilInv, TypeOK, shared, locals
    <3>2. QED
      BY <1>7, <2>1, <2>2, <3>1, GoesKeeps
      DEF AskNode, NilInv, TypeOK, shared, locals, Steps, Relies
  <2>3. CASE Goes(w, "node", "take") /\ UNCHANGED <<shared, clash, locals, probes>>
    BY <2>1, <2>3, GoesKeeps DEF NilInv, TypeOK, shared, locals, Steps, Relies
  <2>4. QED
    BY <1>7, <2>2, <2>3 DEF AskNode
<1>8. ASSUME NEW w \in Workers, SetHead(w) \/ SetFork(w) PROVE NilInv'
  <2>1. status \in 1 .. Len(created) /\ created[status] \in Status
        /\ header[w] \in 0 .. MaxHeight
    BY <1>0, <1>8 DEF SetHead, SetFork, Goes, NilInv, NilOK, TypeOK, Relies
  <2>2. [created[status] EXCEPT !.head = header[w]] \in Status
        /\ [created[status] EXCEPT !.fork = header[w]] \in Status
    BY <2>1 DEF Status
  <2>3. CASE SetHead(w)
    BY <2>2, <2>3, FieldKeeps DEF SetHead, Relies
  <2>4. CASE SetFork(w)
    BY <2>2, <2>4, FieldKeeps DEF SetFork, Relies
  <2>5. QED
    BY <1>8, <2>3, <2>4
<1>9. ASSUME NEW w \in Workers, Take(w) PROVE NilInv'
  <2>1. status # 0
    BY <1>9 DEF Take, Goes, NilInv, NilOK, Relies
  <2>2. TypeOK'
    BY <1>9 DEF Take, Goes, NilInv, TypeOK, shared, Steps
  <2>3. NilOK'
    BY <1>9, <2>1 DEF Take, Goes, NilInv, NilOK, TypeOK, shared, Relies
  <2>4. QED
    BY <2>2, <2>3 DEF NilInv
<1>10. ASSUME NEW w \in Workers, Write(w) PROVE NilInv'
  <2>1. status # 0
    BY <1>10 DEF Write, Goes, NilInv, NilOK, Relies
  <2>2. QED
    BY <1>10, <2>1, GoesKeeps DEF Write, NilInv, TypeOK, shared, locals, Steps, Relies
<1>11. ASSUME NEW w \in Workers, NEW t \in TDs, ReadStatus(w, t) PROVE NilInv'
  <2>1. status # 0 /\ td' \in [Workers -> TDs \cup {0}]
    BY <1>11 DEF ReadStatus, Goes, NilInv, NilOK, TypeOK, Relies
  <2>2. QED
    BY <1>11, <2>1, GoesKeeps DEF ReadStatus, NilInv, TypeOK, shared, Steps, Relies
<1>12. ASSUME NEW w \in Workers, Compare(w) PROVE NilInv'
  <2>1. status # 0
    BY <1>12 DEF Compare, Goes, NilInv, NilOK, Relies
  <2>2. CASE Goes(w, "compare", "setTD") /\ UNCHANGED <<shared, clash, locals, probes>>
    BY <2>1, <2>2, GoesKeeps DEF NilInv, TypeOK, shared, locals, Steps, Relies
  <2>3. QED
    BY <1>12, <2>2, ReturnKeeps DEF Compare
<1>13. ASSUME NEW w \in Workers, SetTD(w) PROVE NilInv'
  <2>1. status \in 1 .. Len(created) /\ created[status] \in Status
        /\ td[w] \in TDs \cup {0}
    BY <1>0, <1>13 DEF SetTD, NilInv, NilOK, TypeOK, Relies
  <2>2. [created[status] EXCEPT !.td = td[w]] \in Status
    BY <2>1 DEF Status
  <2>3. created' \in Seq(Status) /\ Len(created') = Len(created)
    BY <1>0, <1>13, <2>1, <2>2, SetStatus DEF SetTD
  <2>4. TypeOK'
    BY <1>13, <2>3 DEF SetTD, Return, NilInv, TypeOK, Steps
  <2>5. NilOK'
    BY <1>13, <2>1, <2>3 DEF SetTD, Return, NilInv, NilOK, TypeOK, Relies
  <2>6. QED
    BY <2>4, <2>5 DEF NilInv
<1>14. CASE Grow
  BY <1>14 DEF Grow, NilInv, NilOK, TypeOK, locals
<1>15. CASE UNCHANGED vars
  BY <1>15 DEF vars, shared, locals, NilInv, NilOK, TypeOK
<1>16. QED
  BY <1>1, <1>2, <1>3, <1>4, <1>5, <1>6, <1>7, <1>8, <1>9, <1>10, <1>11, <1>12, <1>13,
     <1>14, <1>15 DEF Next, Probe, Computes, Waits

\* The invariant holds in every state that the workers can reach.
THEOREM NilAlways == Spec => []NilInv
  BY NilInit, NilStep, PTL DEF Spec

\* Type correctness of the handshake.
THEOREM TypeCorrect == Spec => []TypeOK
<1>1. NilInv => TypeOK
  BY DEF NilInv
<1>2. QED
  BY <1>1, NilAlways, PTL

\* No worker ever uses a Status that is not there, whoever creates and replaces
\* it when.
THEOREM NeverUsesNil == Spec => []NeverNil
<1>1. NilInv => NeverNil
  BY DEF NilInv, NilOK, NeverNil, Relies
<1>2. QED
  BY <1>1, NilAlways, PTL

-----------------------------------------------------------------------------
(* One Status each.                                                        *)

\* The workers that found _status nil and have not replaced it yet.
Creators == {w \in Workers : pc[w] = "create"}

\* Each of them adds one Status, and nobody joins them once there is one.
Room == Len(created) + Cardinality(Creators) <= Cardinality(Workers)

LEMMA CreatorsFinite ==
  /\ IsFiniteSet(Creators) /\ Cardinality(Creators) \in Nat
  /\ Cardinality(Workers) \in Nat
  /\ Cardinality(Creators) <= Cardinality(Workers)
<1>1. Creators \subseteq Workers
  BY DEF Creators
<1>2. IsFiniteSet(Workers)
  BY HandshakeAssumption DEF HandshakeAssumption
<1>3. IsFiniteSet(Creators) /\ Cardinality(Creators) <= Cardinality(Workers)
  BY <1>1, <1>2, FS_Subset
<1>4. QED
  BY <1>2, <1>3, FS_CardinalityType

\* A step that neither creates a Status nor sends a worker to create one.
LEMMA OthersLeaveRoom ==
  ASSUME NilInv, Room, Len(created') = Len(created),
         \A w \in Workers : pc'[w] = "create" => pc[w] = "create"
  PROVE  Room'
<1>1. Creators' \subseteq Creators
  BY DEF Creators
<1>2. Cardinality(Creators') <= Cardinality(Creators) /\ Cardinality(Creators') \in Nat
  BY <1>1, CreatorsFinite, FS_Subset, FS_CardinalityType
<1>3. Len(created) \in Nat
  BY DEF NilInv, TypeOK
<1>4. QED
  BY <1>2, <1>3, CreatorsFinite DEF Room

THEOREM RoomStep == NilInv /\ NilInv' /\ Room /\ [Next]_vars => Room'
<1> SUFFICES ASSUME NilInv, NilInv', Room, [Next]_vars PROVE Room'
  OBVIOUS
<1>0. pc \in [Workers -> Steps] /\ created \in Seq(Status) /\ status = Len(created)
  BY DEF NilInv, NilOK, TypeOK
<1>1. ASSUME NEW w \in Workers, CheckNil(w) PROVE Room'
  <2>1. CASE status = 0
    <3>1. Len(created') = 0
      BY <1>0, <1>1, <2>1 DEF CheckNil, shared
    <3>2. Creators' \subseteq Workers
      BY DEF Creators
    <3>3. Cardinality(Creators') <= Cardinality(Workers) /\ Cardinality(Creators') \in Nat
      BY <3>2, HandshakeAssumption, FS_Subset, FS_CardinalityType DEF HandshakeAssumption
    <3>4. QED
      BY <3>1, <3>3, CreatorsFinite DEF Room
  <2>2. CASE status # 0
    BY <1>0, <1>1, <2>2, OthersLeaveRoom DEF CheckNil, Goes, AfterCreate, shared
  <2>3. QED
    BY <2>1, <2>2
<1>2. ASSUME NEW w \in Workers, Create(w) PROVE Room'
  <2>1. Len(created') = Len(created) + 1 /\ Len(created) \in Nat
    BY <1>0, <1>2 DEF Create
  <2>2. w \in Creators /\ Creators' = Creators \ {w}
    BY <1>0, <1>2 DEF Create, Goes, AfterCreate, Creators
  <2>3. Cardinality(Creators') = Cardinality(Creators) - 1
    BY <2>2, CreatorsFinite, FS_RemoveElement
  <2>4. QED
    BY <2>1, <2>3, CreatorsFinite DEF Room
<1>3. ASSUME NEW w \in Workers, SetHead(w) \/ SetFork(w) \/ SetTD(w) PROVE Room'
  <2>1. Len(created') = Len(created)
    BY <1>0, <1>3 DEF SetHead, SetFork, SetTD
  <2>2. \A v \in Workers : pc'[v] = "create" => pc[v] = "create"
    BY <1>0, <1>3 DEF SetHead, SetFork, SetTD, Goes, Return
  <2>3. QED
    BY <2>1, <2>2, OthersLeaveRoom
<1>4. ASSUME NEW w \in Workers,
             Dial(w) \/ Dialled(w) \/ Fails(w) \/ Hello(w) \/ AskNode(w) \/ Take(w)
               \/ Write(w) \/ (\E t \in TDs : ReadStatus(w, t)) \/ Compare(w)
      PROVE Room'
  <2>1. created' = created
    BY <1>4 DEF Dial, Dialled, Fails, Hello, Agreed, AskNode, Take, Write, ReadStatus,
                Compare, shared
  <2>2. \A v \in Workers : pc'[v] = "create" => pc[v] = "create"
    BY <1>0, <1>4 DEF Dial, Dialled, Fails, Hello, Agreed, AskNode, Take, Write, ReadStatus,
                      Compare, Goes, Return
  <2>3. QED
    BY <2>1, <2>2, OthersLeaveRoom
<1>5. CASE Grow \/ UNCHANGED vars
  BY <1>5, OthersLeaveRoom DEF Grow, vars, shared
<1>6. QED
  BY <1>1, <1>2, <1>3, <1>4, <1>5 DEF Next, Probe, Computes, Waits

\* However many workers find _status nil at once, each creates at most one, and
\* the newest is the one in use.
THEOREM NoMoreThanOneEach == Spec => []OneEach
<1>1. Init => Room
  <2> SUFFICES ASSUME Init PROVE Room
    OBVIOUS
  <2>1. Creators = {}
    BY DEF Init, Creators
  <2>2. Len(created) = 0 /\ Cardinality(Creators) = 0
    BY <2>1, FS_EmptySet DEF Init
  <2>3. QED
    BY <2>2, CreatorsFinite DEF Room
<1>2. NilInv /\ Room => OneEach
  BY CreatorsFinite DEF NilInv, NilOK, TypeOK, Room, OneEach
<1>3. QED
  BY <1>1, <1>2, RoomStep, NilAlways, PTL DEF Spec

-----------------------------------------------------------------------------
(* Head and ForkID.                                                        *)

ForkNow == created[status].fork
HeadNow == created[status].head

\* Whoever is at the head with another one has been disturbed; an undisturbed one
\* has a header that is no older than what is in use, and no header is newer than
\* the node.
HeadInv ==
  /\ \A v, w \in Workers : AtHead(v) /\ AtHead(w) /\ v # w => clash[w]
  /\ \A w \in Workers : AtHead(w) => header[w] <= height
  /\ \A w \in Workers : AtHead(w) /\ ~clash[w] =>
       /\ HeadNow <= header[w] /\ ForkNow <= header[w]
       /\ pc[w] = "setFork" => HeadNow = header[w]
  /\ status # 0 => HeadNow <= height /\ ForkNow <= height

LEMMA Heights ==
  ASSUME NEW x \in Status
  PROVE  x.head \in Nat /\ x.fork \in Nat
<1>1. x.head \in 0 .. MaxHeight /\ x.fork \in 0 .. MaxHeight
  BY DEF Status
<1>2. QED
  BY <1>1, HandshakeAssumption DEF HandshakeAssumption

\* What a step does that leaves the head alone.
LEMMA HeadAlone ==
  ASSUME HeadInv, status' = status, clash' = clash, height' >= height,
         height \in Nat, height' \in Nat, header \in [Workers -> Nat],
         status # 0 => /\ ForkNow' = ForkNow /\ HeadNow' = HeadNow
                       /\ ForkNow \in Nat /\ HeadNow \in Nat,
         \A w \in Workers : AtHead(w) => status # 0,
         \A w \in Workers : AtHead(w)' => pc'[w] = pc[w] /\ header'[w] = header[w]
  PROVE  HeadInv'
<1>1. \A w \in Workers : AtHead(w)' => AtHead(w)
  BY DEF AtHead
<1>2. \A v, w \in Workers : AtHead(v)' /\ AtHead(w)' /\ v # w => clash'[w]
  BY <1>1 DEF HeadInv
<1>3. \A w \in Workers : AtHead(w)' => header'[w] <= height'
  <2>1. \A w \in Workers : AtHead(w) => header[w] <= height /\ header[w] \in Nat
    BY DEF HeadInv
  <2>2. QED
    BY <1>1, <2>1
<1>4. \A w \in Workers : AtHead(w)' /\ ~clash'[w] =>
        /\ HeadNow' <= header'[w] /\ ForkNow' <= header'[w]
        /\ pc'[w] = "setFork" => HeadNow' = header'[w]
  BY <1>1 DEF HeadInv
<1>5. status' # 0 => HeadNow' <= height' /\ ForkNow' <= height'
  BY DEF HeadInv
<1>6. QED
  BY <1>2, <1>3, <1>4, <1>5 DEF HeadInv

THEOREM HeadStep == NilInv /\ NilInv' /\ HeadInv /\ [Next]_vars => HeadInv'
<1> SUFFICES ASSUME NilInv, NilInv', HeadInv, [Next]_vars PROVE HeadInv'
  OBVIOUS
<1>0. /\ pc \in [Workers -> Steps] /\ created \in Seq(Status) /\ status = Len(created)
      /\ height \in Nat /\ height' \in Nat /\ clash \in [Workers -> BOOLEAN]
      /\ header \in [Workers -> 0 .. MaxHeight] /\ header \in [Workers -> Nat]
  BY HandshakeAssumption DEF NilInv, NilOK, TypeOK, HandshakeAssumption
<1>a. \A w \in Workers : AtHead(w) => status # 0
  BY DEF AtHead, NilInv, NilOK, Relies
<1>b. status # 0 => created[status] \in Status /\ ForkNow \in Nat /\ HeadNow \in Nat
  <2>1. status # 0 => created[status] \in Status
    BY <1>0
  <2>2. QED
    BY <2>1, Heights DEF ForkNow, HeadNow
<1>1. ASSUME NEW w \in Workers, Create(w) PROVE HeadInv'
  <2>1. \A v \in Workers : AtHead(v)' <=> AtHead(v)
    BY <1>0, <1>1 DEF Create, Goes, AfterCreate, AtHead
  <2>2. ForkNow' = 0 /\ HeadNow' = 0
    BY <1>0, <1>1 DEF Create, NewStatus, ForkNow, HeadNow
  <2>3. /\ \A v \in Workers : AtHead(v) => clash'[v]
        /\ header' = header /\ height' = height
    BY <1>1 DEF Create, Disturbs, locals
  <2>4. QED
    BY <1>0, <2>1, <2>2, <2>3 DEF HeadInv
<1>2. ASSUME NEW w \in Workers, AskNode(w), Goes(w, "node", "setHead") PROVE HeadInv'
  <2>1. /\ header' = [header EXCEPT ![w] = height]
        /\ clash' = [Disturbs EXCEPT ![w] = \E v \in Workers \ {w} : AtHead(v)]
        /\ UNCHANGED <<created, status, height>>
    BY <1>0, <1>2 DEF AskNode, Goes, shared
  <2>2. /\ AtHead(w)' /\ pc'[w] = "setHead"
        /\ \A v \in Workers \ {w} : AtHead(v)' <=> AtHead(v)
    BY <1>0, <1>2 DEF Goes, AtHead
  <2>3. clash'[w] = (\E v \in Workers \ {w} : AtHead(v))
    BY <2>1 DEF Disturbs
  <2>4. \A v \in Workers \ {w} : AtHead(v) => clash'[v]
    BY <2>1 DEF Disturbs
  <2>5. header'[w] = height /\ \A v \in Workers \ {w} : header'[v] = header[v]
    BY <1>0, <2>1
  <2>6. status # 0 /\ HeadNow' = HeadNow /\ ForkNow' = ForkNow /\ HeadNow <= height /\ ForkNow <= height
    BY <1>2, <2>1 DEF Goes, NilInv, NilOK, Relies, HeadInv, HeadNow, ForkNow
  <2>7. \A u, v \in Workers : AtHead(u)' /\ AtHead(v)' /\ u # v => clash'[v]
    BY <2>2, <2>3, <2>4
  <2>8. \A v \in Workers : AtHead(v)' => header'[v] <= height'
    BY <1>0, <2>1, <2>2, <2>5 DEF HeadInv
  <2>9. \A v \in Workers : AtHead(v)' /\ ~clash'[v] =>
          /\ HeadNow' <= header'[v] /\ ForkNow' <= header'[v]
          /\ pc'[v] = "setFork" => HeadNow' = header'[v]
    BY <2>2, <2>4, <2>5, <2>6
  <2>10. QED
    BY <2>1, <2>6, <2>7, <2>8, <2>9 DEF HeadInv
<1>3. ASSUME NEW w \in Workers, SetHead(w) \/ SetFork(w) PROVE HeadInv'
  <2>1. AtHead(w) /\ status \in 1 .. Len(created) /\ header[w] \in Nat
        /\ created[status] \in Status
    BY <1>0, <1>3, <1>a, <1>b DEF SetHead, SetFork, Goes, AtHead
  <2>2. header[w] <= height /\ HeadNow <= height /\ ForkNow <= height
    BY <2>1 DEF HeadInv
  <2>3. /\ header' = header /\ clash' = clash /\ height' = height /\ status' = status
        /\ \A v \in Workers \ {w} : pc'[v] = pc[v]
    BY <1>0, <1>3 DEF SetHead, SetFork, Goes, locals
  <2>4. \A v \in Workers \ {w} : AtHead(v)' <=> AtHead(v)
    BY <2>3 DEF AtHead
  <2>5. \A v \in Workers \ {w} : AtHead(v) => clash[v]
    BY <2>1 DEF HeadInv
  <2>6. \A u, v \in Workers : AtHead(u)' /\ AtHead(v)' /\ u # v => clash'[v]
    BY <2>1, <2>3, <2>4 DEF HeadInv
  <2>7. \A v \in Workers : AtHead(v)' => header'[v] <= height'
    BY <2>1, <2>3, <2>4 DEF HeadInv
  <2>8. CASE SetHead(w)
    <3>1. ForkNow' = ForkNow /\ HeadNow' = header[w]
      BY <1>0, <2>1, <2>8 DEF SetHead, ForkNow, HeadNow, Status
    <3>2. ~clash[w] => ForkNow <= header[w]
      BY <2>1 DEF HeadInv
    <3>3. QED
      BY <1>b, <2>1, <2>2, <2>3, <2>4, <2>5, <2>6, <2>7, <3>1, <3>2 DEF HeadInv
  <2>9. CASE SetFork(w)
    <3>1. ForkNow' = header[w] /\ HeadNow' = HeadNow
      BY <1>0, <2>1, <2>9 DEF SetFork, ForkNow, HeadNow, Status
    <3>2. ~AtHead(w)'
      BY <1>0, <2>9 DEF SetFork, Goes, AtHead
    <3>3. QED
      BY <2>1, <2>2, <2>3, <2>4, <2>5, <2>6, <2>7, <3>1, <3>2 DEF HeadInv
  <2>10. QED
    BY <1>3, <2>8, <2>9
<1>4. ASSUME NEW w \in Workers, SetTD(w) PROVE HeadInv'
  <2>1. status # 0 => ForkNow' = ForkNow /\ HeadNow' = HeadNow
    BY <1>0, <1>4, <1>b DEF SetTD, ForkNow, HeadNow, Status
  <2>2. \A v \in Workers : AtHead(v)' => pc'[v] = pc[v] /\ header'[v] = header[v]
    BY <1>0, <1>4 DEF SetTD, Return, AtHead
  <2>3. QED
    BY <1>0, <1>4, <1>a, <1>b, <2>1, <2>2, HeadAlone DEF SetTD, Return
<1>5. ASSUME NEW w \in Workers,
             \/ Dial(w) \/ Dialled(w) \/ Fails(w) \/ Hello(w) \/ CheckNil(w) \/ Take(w)
             \/ Write(w) \/ (\E t \in TDs : ReadStatus(w, t)) \/ Compare(w)
             \/ AskNode(w) /\ Goes(w, "node", "take")
      PROVE HeadInv'
  <2>1. UNCHANGED shared /\ clash' = clash
    BY <1>0, <1>5 DEF Dial, Dialled, Fails, Hello, Agreed, CheckNil, Take, Write,
                      ReadStatus, Compare, AskNode, Goes, Return, shared
  <2>2. \A v \in Workers : AtHead(v)' => pc'[v] = pc[v] /\ header'[v] = header[v]
    BY <1>0, <1>5 DEF Dial, Dialled, Fails, Hello, Agreed, CheckNil, AfterCreate, Take,
                      Write, ReadStatus, Compare, AskNode, Goes, Return, AtHead, locals
  <2>3. QED
    BY <1>0, <1>a, <1>b, <2>1, <2>2, HeadAlone DEF shared, ForkNow, HeadNow
<1>6. CASE Grow \/ UNCHANGED vars
  <2>1. height' >= height /\ UNCHANGED <<created, status, clash, pc, header>>
    BY <1>0, <1>6 DEF Grow, vars, shared, locals
  <2>2. QED
    BY <1>0, <1>a, <1>b, <2>1, HeadAlone DEF ForkNow, HeadNow, AtHead
<1>7. QED
  <2>1. ASSUME NEW w \in Workers, AskNode(w) PROVE HeadInv'
    BY <1>2, <1>5, <2>1 DEF AskNode
  <2>2. QED
    BY <1>1, <1>3, <1>4, <1>5, <1>6, <2>1 DEF Next, Probe, Computes, Waits

\* An update of Head and ForkID that no other worker came between takes neither
\* back and leaves both at the same block, whatever happened before it and
\* however many workers there are.
THEOREM HeadsStayInOrder == Spec => HeadsInOrder
<1>1. Init => HeadInv
  BY DEF Init, HeadInv, AtHead
<1>2. NilInv /\ HeadInv /\ [Next]_vars =>
        [\A w \in Workers :
           AtHead(w) /\ pc'[w] # pc[w] /\ ~clash[w] =>
             /\ created'[status].head >= created[status].head
             /\ created'[status].fork >= created[status].fork
             /\ pc[w] = "setFork" => created'[status].head = created'[status].fork]_vars
  <2> SUFFICES ASSUME NilInv, HeadInv, Next, NEW w \in Workers,
                      AtHead(w), pc'[w] # pc[w], ~clash[w]
               PROVE  /\ created'[status].head >= created[status].head
                      /\ created'[status].fork >= created[status].fork
                      /\ pc[w] = "setFork" => created'[status].head = created'[status].fork
    OBVIOUS
  <2>0. /\ pc \in [Workers -> Steps] /\ created \in Seq(Status) /\ status \in 1 .. Len(created)
        /\ header[w] \in Nat
    BY HandshakeAssumption DEF NilInv, NilOK, TypeOK, Relies, AtHead, HandshakeAssumption
  <2>1. SetHead(w) \/ SetFork(w)
    <3>1. \A v \in Workers : Probe(v) => v = w
      BY <2>0 DEF Probe, Computes, Waits, Dial, Dialled, Fails, Hello, Agreed, CheckNil,
         Create, AskNode, SetHead, SetFork, Take, Write, ReadStatus, Compare, SetTD,
         Goes, Return
    <3>2. ~Grow
      BY DEF Grow
    <3>3. Probe(w)
      BY <3>1, <3>2 DEF Next
    <3>4. QED
      BY <2>0, <3>3 DEF Probe, Computes, Waits, Dial, Dialled, Fails, Hello, Agreed,
         CheckNil, Create, AskNode, Take, Write, ReadStatus, Compare, SetTD,
         Goes, Return, AtHead
  <2>2. created[status] \in Status /\ ForkNow \in Nat /\ HeadNow \in Nat
    <3>1. created[status] \in Status
      BY <2>0
    <3>2. QED
      BY <3>1, Heights DEF ForkNow, HeadNow
  <2>3. /\ HeadNow <= header[w] /\ ForkNow <= header[w]
        /\ pc[w] = "setFork" => HeadNow = header[w]
    BY DEF HeadInv
  <2>4. CASE SetHead(w)
    <3>1. created'[status] = [created[status] EXCEPT !.head = header[w]] /\ pc[w] = "setHead"
      BY <2>0, <2>4 DEF SetHead, Goes
    <3>2. created'[status].head = header[w] /\ created'[status].fork = created[status].fork
      BY <2>2, <3>1 DEF Status
    <3>3. QED
      BY <2>2, <2>3, <3>1, <3>2 DEF HeadNow, ForkNow
  <2>5. CASE SetFork(w)
    <3>1. created'[status] = [created[status] EXCEPT !.fork = header[w]] /\ pc[w] = "setFork"
      BY <2>0, <2>5 DEF SetFork, Goes
    <3>2. created'[status].fork = header[w] /\ created'[status].head = created[status].head
      BY <2>2, <3>1 DEF Status
    <3>3. QED
      BY <2>2, <2>3, <3>1, <3>2 DEF HeadNow, ForkNow
  <2>6. QED
    BY <2>1, <2>4, <2>5
<1>3. QED
  BY <1>1, <1>2, HeadStep, NilAlways, PTL DEF Spec, HeadsInOrder

-----------------------------------------------------------------------------
(* Names: what the parts of a name are.                                    *)

Tokens == Words \cup DOMAIN Value \cup {"/", "-", "."}

\* The number of a version, as the texts between its dots.
NumberParts(number) == [i \in DOMAIN number |-> <<number[i]>>]

VersionParts(number, pieces) == <<Join(NumberParts(number), ".")>> \o pieces

\* The texts without separators, as SplitUndoesJoin has them.
LEMMA WithoutSeps ==
  /\ Without({"/"}) = Seq(Tokens \ {"/"})
  /\ Without({"/", "-"}) = Seq((Tokens \ {"/"}) \ {"-"})
  /\ DOMAIN Value \subseteq ((Tokens \ {"/"}) \ {"-"}) \ {"."}
  /\ Words \subseteq ((Tokens \ {"/"}) \ {"-"}) \ {"."}
  /\ Words \cap DOMAIN Value = {}
<1>1. /\ "/" \notin Words \cup DOMAIN Value /\ "-" \notin Words \cup DOMAIN Value
      /\ "." \notin Words \cup DOMAIN Value /\ Words \cap DOMAIN Value = {}
  BY ClientNameAssumption DEF ClientNameAssumption
<1>2. Tokens \ {"/", "-"} = (Tokens \ {"/"}) \ {"-"}
  OBVIOUS
<1>3. Without({"/"}) = Seq(Tokens \ {"/"}) /\ Without({"/", "-"}) = Seq(Tokens \ {"/", "-"})
  BY DEF Without, Tokens
<1>4. QED
  BY <1>1, <1>2, <1>3 DEF Tokens

\* A version comes apart at its "-", and its number at its dots.
LEMMA VersionSplits ==
  ASSUME NEW number \in Seq(DOMAIN Value), Len(number) # 0,
         NEW pieces \in Seq(Without({"/", "-"}))
  PROVE  LET parts == VersionParts(number, pieces)
             text == Join(parts, "-")
         IN  /\ text \in Seq(Tokens \ {"/"}) /\ text # <<>> /\ Split(text, "-") = parts
             /\ Len(parts) = Len(pieces) + 1 /\ parts[1] = Join(NumberParts(number), ".")
             /\ \A i \in 1 .. Len(pieces) : parts[i + 1] = pieces[i]
             /\ Split(Join(NumberParts(number), "."), ".") = NumberParts(number)
<1> DEFINE T == Tokens \ {"/"}
           numbers == NumberParts(number)
           first == Join(numbers, ".")
           parts == VersionParts(number, pieces)
<1>1. pieces \in Seq(Seq(T \ {"-"}))
  BY WithoutSeps
<1>2. "-" \in T /\ "." \in T \ {"-"}
  BY DEF Tokens
<1>3. numbers \in Parts((T \ {"-"}) \ {"."}) /\ numbers \in Parts(T \ {"-"})
  <2>1. \A x \in DOMAIN Value : <<x>> \in Seq((T \ {"-"}) \ {"."}) /\ <<x>> \in Seq(T \ {"-"})
    <3>1. \A x \in DOMAIN Value : x \in (T \ {"-"}) \ {"."} /\ x \in T \ {"-"}
      BY WithoutSeps
    <3> HIDE DEF T
    <3>2. QED
      BY <3>1
  <2> HIDE DEF T
  <2>2. /\ numbers \in Seq(Seq((T \ {"-"}) \ {"."})) /\ numbers \in Seq(Seq(T \ {"-"}))
        /\ Len(numbers) = Len(number)
    <3>1. DOMAIN number = 1 .. Len(number) /\ \A i \in DOMAIN number : number[i] \in DOMAIN Value
      OBVIOUS
    <3>2. QED
      BY <2>1, <3>1 DEF NumberParts
  <2> HIDE DEF numbers
  <2>3. QED
    BY <2>2, SomeParts
<1> HIDE DEF T, numbers
<1>4. Split(first, ".") = numbers /\ first \in Seq(T \ {"-"})
  BY <1>2, <1>3, SplitUndoesJoin, JoinType
<1>5. first # <<>>
  <2>1. numbers[1] = <<number[1]>>
    BY DEF numbers, NumberParts
  <2>2. numbers # << <<>> >>
    BY <2>1
  <2>3. QED
    BY <1>2, <1>3, <2>2, JoinNotEmpty
<1>6. parts = <<first>> \o pieces
  BY DEF VersionParts, numbers
<1> HIDE DEF first, parts
<1>7. /\ parts \in Parts(T \ {"-"}) /\ Len(parts) = Len(pieces) + 1 /\ parts[1] = first
      /\ \A i \in 1 .. Len(pieces) : parts[i + 1] = pieces[i]
  BY <1>1, <1>4, <1>6, PartsBefore
<1>8. Split(Join(parts, "-"), "-") = parts
  BY <1>2, <1>7, SplitUndoesJoin
<1>9. parts \in Parts(T)
  <2>1. \A s \in Seq(T \ {"-"}) : s \in Seq(T)
    OBVIOUS
  <2>2. parts \in Seq(Seq(T \ {"-"})) /\ parts # <<>>
    BY <1>7 DEF Parts
  <2>3. parts \in Seq(Seq(T))
    BY <2>1, <2>2
  <2>4. QED
    BY <2>2, <2>3 DEF Parts
<1>10. Join(parts, "-") \in Seq(T)
  BY <1>2, <1>9, JoinType
<1>11. Join(parts, "-") # <<>>
  <2>1. parts # << <<>> >>
    BY <1>5, <1>7
  <2>2. QED
    BY <1>2, <1>7, <2>1, JoinNotEmpty
<1>12. QED
  BY <1>4, <1>7, <1>8, <1>10, <1>11 DEF T, first, numbers, parts

\* A system and its architecture come apart at the "-".
LEMMA SystemSplits ==
  ASSUME NEW os \in Seq(Without({"/", "-"})), Len(os) # 0
  PROVE  Join(os, "-") \in Seq(Tokens \ {"/"}) /\ Split(Join(os, "-"), "-") = os
<1> DEFINE T == Tokens \ {"/"}
<1>1. os \in Seq(Seq(T \ {"-"}))
  BY WithoutSeps
<1>2. "-" \in T
  BY DEF Tokens
<1> HIDE DEF T
<1>3. os \in Parts(T \ {"-"})
  BY <1>1, SomeParts
<1>4. os \in Parts(T)
  <2>1. \A s \in Seq(T \ {"-"}) : s \in Seq(T)
    OBVIOUS
  <2>2. os \in Seq(Seq(T))
    BY <1>1, <2>1
  <2>3. QED
    BY <2>2, SomeParts
<1>5. QED
  BY <1>2, <1>3, <1>4, SplitUndoesJoin, JoinType DEF T

\* A language of the custom, its text, and what a parser makes of this.
LanguageCustomary(before, name, dash, number, after) ==
  /\ before \in Seq(Words \cup {"-"}) /\ name \in Words /\ dash \in {<<>>, <<"-">>}
  /\ number \in Seq(Numeric) /\ number # <<>>
  /\ after \in Seq(Tokens \ {"/"})
  /\ after = <<>> \/ Head(after) \notin Numeric

LanguageOf(before, name, dash, number, after) ==
  before \o <<name>> \o dash \o number \o after

LanguageIs(language, name, number) ==
  language = [name |-> ToLower(<<name>>), version |-> number]

\* Where the parts of a language are in its text.
LanguageSpelt(text, before, name, dash, number) ==
  LET k == Len(before) + 1 + Len(dash)
      n == Len(number)
  IN  /\ text \in Seq(Tokens \ {"/"}) /\ k + n <= Len(text)
      /\ \A i \in 1 .. Len(before) : text[i] = before[i]
      /\ text[Len(before) + 1] = name
      /\ \A i \in 1 .. Len(dash) : text[Len(before) + 1 + i] = dash[i]
      /\ \A i \in 1 .. n : text[k + i] = number[i]
      /\ k + n < Len(text) => text[k + n + 1] \notin Numeric

\* The parts of the text of a language, one after the other.
LEMMA LanguageParts ==
  ASSUME NEW before, NEW name, NEW dash, NEW number, NEW after,
         LanguageCustomary(before, name, dash, number, after)
  PROVE  LanguageSpelt(LanguageOf(before, name, dash, number, after), before, name, dash, number)
<1> DEFINE T == Tokens \ {"/"}
           word == <<name>>
           s1 == before \o word
           s2 == s1 \o dash
           s3 == s2 \o number
           k == Len(before) + 1 + Len(dash)
           n == Len(number)
           text == s3 \o after
<1>0. /\ before \in Seq(Words \cup {"-"}) /\ name \in Words /\ dash \in {<<>>, <<"-">>}
      /\ number \in Seq(Numeric) /\ number # <<>>
      /\ after \in Seq(Tokens \ {"/"})
      /\ after = <<>> \/ Head(after) \notin Numeric
  BY DEF LanguageCustomary
<1>0a. dash \in Seq({"-"})
  <2>1. <<>> \in Seq({"-"}) /\ <<"-">> \in Seq({"-"})
    OBVIOUS
  <2>2. dash = <<>> \/ dash = <<"-">>
    BY <1>0
  <2>3. QED
    BY <2>1, <2>2
<1>1. before \in Seq(T) /\ word \in Seq(T) /\ dash \in Seq(T) /\ number \in Seq(T) /\ after \in Seq(T)
  <2>1. Words \cup {"-"} \subseteq T /\ Numeric \subseteq T /\ {"-"} \subseteq T
    BY WithoutSeps DEF Tokens, Numeric
  <2> HIDE DEF T
  <2>2. after \in Seq(T)
    BY <1>0 DEF T
  <2>3. before \in Seq(T)
    BY <1>0, <2>1
  <2>4. dash \in Seq(T)
    BY <1>0a, <2>1
  <2>5. number \in Seq(T)
    BY <1>0, <2>1
  <2>6. word \in Seq(T)
    BY <1>0, <2>1
  <2>7. QED
    BY <2>2, <2>3, <2>4, <2>5, <2>6
<1> HIDE DEF T
<1> USE <1>0, <1>0a
<1>2. Len(word) = 1 /\ word[1] = name
  OBVIOUS
<1> HIDE DEF word, s1
<1>3. /\ s1 \in Seq(T) /\ Len(s1) = Len(before) + Len(word) /\ Len(before) \in Nat
      /\ \A i \in 1 .. Len(before) : s1[i] = before[i]
      /\ \A i \in 1 .. Len(word) : s1[Len(before) + i] = word[i]
  BY <1>1, Concat DEF s1
<1> HIDE DEF s2
<1>4. /\ s2 \in Seq(T) /\ Len(s2) = Len(s1) + Len(dash) /\ Len(dash) \in Nat
      /\ \A i \in 1 .. Len(s1) : s2[i] = s1[i]
      /\ \A i \in 1 .. Len(dash) : s2[Len(s1) + i] = dash[i]
  <2>1. s1 \in Seq(T) /\ dash \in Seq(T)
    BY <1>1, <1>3
  <2>2. QED
    BY <2>1, Concat DEF s2
<1> HIDE DEF s3
<1>5. /\ s3 \in Seq(T) /\ Len(s3) = Len(s2) + n /\ n \in Nat
      /\ \A i \in 1 .. Len(s2) : s3[i] = s2[i]
      /\ \A i \in 1 .. n : s3[Len(s2) + i] = number[i]
  <2>1. s2 \in Seq(T) /\ number \in Seq(T)
    BY <1>1, <1>4
  <2>2. QED
    BY <2>1, Concat DEF s3
<1> HIDE DEF text
<1>6. /\ text \in Seq(T) /\ Len(text) = Len(s3) + Len(after) /\ Len(after) \in Nat
      /\ \A i \in 1 .. Len(s3) : text[i] = s3[i]
      /\ \A i \in 1 .. Len(after) : text[Len(s3) + i] = after[i]
  <2>1. s3 \in Seq(T) /\ after \in Seq(T)
    BY <1>1, <1>5
  <2>2. QED
    BY <2>1, Concat DEF text
<1>7. Len(s1) = Len(before) + 1 /\ Len(s2) = k /\ Len(s3) = k + n /\ k \in Nat
  BY <1>2, <1>3, <1>4, <1>5
<1>8. k + n <= Len(text)
  BY <1>5, <1>6, <1>7
<1>9. ASSUME NEW i \in 1 .. Len(before) PROVE text[i] = before[i]
  BY <1>3, <1>4, <1>5, <1>6, <1>7
<1>10. text[Len(before) + 1] = name
  <2>1. s1[Len(before) + 1] = name
    BY <1>2, <1>3
  <2>2. Len(before) + 1 \in 1 .. Len(s1) /\ Len(before) + 1 \in 1 .. Len(s2) /\ Len(before) + 1 \in 1 .. Len(s3)
    BY <1>3, <1>4, <1>5, <1>7
  <2>3. QED
    BY <1>4, <1>5, <1>6, <2>1, <2>2
<1>11. ASSUME NEW i \in 1 .. Len(dash) PROVE text[Len(before) + 1 + i] = dash[i]
  <2>1. Len(before) \in Nat /\ Len(dash) \in Nat /\ n \in Nat
    BY <1>3, <1>4, <1>5
  <2> DEFINE j == Len(before) + 1 + i
  <2>2. j \in 1 .. k /\ j \in 1 .. k + n
    BY <2>1
  <2>3. s2[j] = dash[i]
    BY <1>4, <1>7
  <2> HIDE DEF j, k, n
  <2>4. QED
    BY <1>5, <1>6, <1>7, <2>2, <2>3 DEF j
<1>12. ASSUME NEW i \in 1 .. n PROVE text[k + i] = number[i]
  <2>1. k + i \in 1 .. Len(s3)
    BY <1>5, <1>7
  <2>2. s3[k + i] = number[i]
    BY <1>5, <1>7
  <2>3. QED
    BY <1>6, <2>1, <2>2
<1>13. ASSUME k + n < Len(text) PROVE text[k + n + 1] \notin Numeric
  <2>1. Len(after) > 0
    BY <1>5, <1>6, <1>7, <1>13
  <2>2. Len(<<>>) = 0
    OBVIOUS
  <2>3. after # <<>> /\ Head(after) = after[1]
    BY <1>1, <2>1, <2>2
  <2>4. text[Len(s3) + 1] = after[1]
    BY <1>6, <2>1
  <2>5. QED
    BY <1>7, <2>3, <2>4
<1>14. text = before \o <<name>> \o dash \o number \o after
  BY DEF text, s3, s2, s1, word
<1> HIDE DEF k, n
<1>15. QED
  BY <1>6, <1>8, <1>9, <1>10, <1>11, <1>12, <1>13, <1>14 DEF T, k, n, LanguageSpelt, LanguageOf

\* The parser of languages finds the first number and the word before it.
LEMMA LanguageFound ==
  ASSUME NEW T, NEW text \in Seq(T), NEW number \in Seq(Numeric), number # <<>>,
         NEW k \in Nat, k + Len(number) <= Len(text),
         NEW at \in 1 .. k, text[at] \in Words, k = at \/ (k = at + 1 /\ text[k] = "-"),
         \A i \in 1 .. k : text[i] \notin Numeric,
         \A i \in 1 .. Len(number) : text[k + i] = number[i],
         k + Len(number) < Len(text) => text[k + Len(number) + 1] \notin Numeric
  PROVE  ParseLanguage(text) = [name |-> ToLower(<<text[at]>>), version |-> number]
<1> DEFINE n == Len(number)
           numeric == {i \in DOMAIN text : text[i] \in Numeric}
           ends == {i \in numeric : i + 1 \notin numeric}
           word == IF k + 1 > 1 /\ text[(k + 1) - 1] = "-" THEN (k + 1) - 2 ELSE (k + 1) - 1
<1>1. n \in Nat \ {0} /\ Len(text) \in Nat /\ DOMAIN text = 1 .. Len(text)
  OBVIOUS
<1>2. \A i \in 1 .. n : number[i] \in Numeric
  OBVIOUS
<1>3. \A i \in k + 1 .. k + n : text[i] \in Numeric
  <2> TAKE i \in k + 1 .. k + n
  <2>1. i - k \in 1 .. n /\ i = k + (i - k)
    BY <1>1
  <2>2. text[k + (i - k)] = number[i - k]
    BY <2>1
  <2>3. QED
    BY <1>2, <2>1, <2>2
<1>4. numeric \in SUBSET Nat /\ k + 1 \in numeric /\ \A i \in numeric : k + 1 <= i
  <2>1. k + 1 \in DOMAIN text /\ k + 1 \in k + 1 .. k + n
    BY <1>1
  <2>2. ASSUME NEW i \in numeric PROVE k + 1 <= i
    BY <1>1
  <2>3. QED
    BY <1>1, <1>3, <2>1, <2>2
<1>5. Min(numeric) = k + 1 /\ numeric # {}
  <2> HIDE DEF numeric
  <2>1. QED
    BY <1>4, MinIs
<1>6. \A i \in k + 1 .. k + n : i \in numeric
  BY <1>1, <1>3
<1>7. k + n + 1 \notin numeric
  BY <1>1
<1>8. ends \in SUBSET Nat /\ k + n \in ends /\ \A i \in ends : k + n <= i
  <2> HIDE DEF numeric
  <2>1. k + n \in k + 1 .. k + n /\ (k + n) + 1 = k + n + 1
    BY <1>1
  <2>2. ASSUME NEW i \in ends PROVE k + n <= i
    <3>1. i \in Nat /\ k + 1 <= i /\ i + 1 \notin numeric
      BY <1>4
    <3>2. ~ (i + 1 \in k + 1 .. k + n)
      BY <1>6, <3>1
    <3>3. QED
      BY <1>1, <3>1, <3>2
  <2>3. QED
    BY <1>4, <1>6, <1>7, <2>1, <2>2
<1>9. Min(ends) = k + n
  <2> HIDE DEF ends
  <2>1. QED
    BY <1>8, MinIs
<1>10. word = at
  <2>1. "-" \notin Words
    BY ClientNameAssumption DEF ClientNameAssumption
  <2>2. (k + 1) - 1 = k /\ (k + 1) - 2 = k - 1 /\ k + 1 > 1
    OBVIOUS
  <2>3. QED
    BY <2>1, <2>2
<1>11. SubSeq(text, k + 1, k + n) = number
  <2> DEFINE sub == SubSeq(text, k + 1, k + n)
  <2>1. sub \in Seq(T) /\ Len(sub) = n
    BY <1>1
  <2>2. \A i \in 1 .. n : sub[i] = text[k + i]
    BY <1>1
  <2> HIDE DEF sub
  <2>3. \A i \in 1 .. n : sub[i] = number[i]
    BY <2>2
  <2>4. sub = [i \in 1 .. n |-> sub[i]] /\ number = [i \in 1 .. n |-> number[i]]
    BY <2>1
  <2>5. sub = number
    BY <2>3, <2>4
  <2>6. QED
    BY <2>5 DEF sub
<1>12. ParseLanguage(text) =
         IF numeric = {} THEN [name |-> <<>>, version |-> <<>>]
         ELSE LET end == IF Min(numeric) > 1 /\ text[Min(numeric) - 1] = "-"
                         THEN Min(numeric) - 2 ELSE Min(numeric) - 1
              IN  [name    |-> IF end > 0 /\ text[end] \in Words
                               THEN ToLower(<<text[end]>>) ELSE <<>>,
                   version |-> SubSeq(text, Min(numeric), Min(ends))]
  BY DEF ParseLanguage
<1>13. at > 0
  OBVIOUS
<1> HIDE DEF numeric, ends, n
<1>14. QED
  BY <1>5, <1>9, <1>10, <1>11, <1>12, <1>13

\* The text of a language of the custom gives its name and its version.
LEMMA LanguageParses ==
  ASSUME NEW before, NEW name, NEW dash, NEW number, NEW after,
         LanguageCustomary(before, name, dash, number, after)
  PROVE  LET text == LanguageOf(before, name, dash, number, after)
         IN  /\ text \in Seq(Tokens \ {"/"})
             /\ LanguageIs(ParseLanguage(text), name, number)
<1>0. /\ before \in Seq(Words \cup {"-"}) /\ name \in Words /\ dash \in {<<>>, <<"-">>}
      /\ number \in Seq(Numeric) /\ number # <<>>
      /\ after \in Seq(Tokens \ {"/"})
      /\ after = <<>> \/ Head(after) \notin Numeric
  BY DEF LanguageCustomary
<1> DEFINE T == Tokens \ {"/"}
           text == before \o <<name>> \o dash \o number \o after
           k == Len(before) + 1 + Len(dash)
           at == Len(before) + 1
<1> USE <1>0
<1>2. /\ text \in Seq(T) /\ k + Len(number) <= Len(text)
      /\ \A i \in 1 .. Len(before) : text[i] = before[i]
      /\ text[at] = name
      /\ \A i \in 1 .. Len(dash) : text[at + i] = dash[i]
      /\ \A i \in 1 .. Len(number) : text[k + i] = number[i]
      /\ k + Len(number) < Len(text) => text[k + Len(number) + 1] \notin Numeric
  <2>1. LanguageSpelt(LanguageOf(before, name, dash, number, after), before, name, dash, number)
    BY LanguageParts
  <2>2. QED
    BY <2>1 DEF LanguageOf, LanguageSpelt
<1> HIDE DEF text, T
<1>3. Len(before) \in Nat /\ \A i \in 1 .. Len(before) : before[i] \in Words \cup {"-"}
  OBVIOUS
<1>4. Len(dash) = 0 \/ (Len(dash) = 1 /\ dash[1] = "-")
  OBVIOUS
<1>5. at \in 1 .. k /\ k \in Nat
  BY <1>3, <1>4
<1>6. k = at \/ (k = at + 1 /\ text[k] = "-")
  <2>1. Len(dash) = 0 => k = at
    BY <1>3
  <2>2. Len(dash) = 1 => k = at + 1 /\ 1 \in 1 .. Len(dash)
    BY <1>3
  <2>3. QED
    BY <1>2, <1>4, <2>1, <2>2
<1>7. Numeric \cap (Words \cup {"-"}) = {}
  BY ClientNameAssumption DEF ClientNameAssumption, Numeric
<1>8. ASSUME NEW i \in 1 .. k PROVE text[i] \notin Numeric
  <2>1. i \in 1 .. Len(before) \/ i = at \/ i = k
    <3>1. Len(before) \in Nat
      BY <1>3
    <3>2. k = at \/ k = at + 1
      BY <1>6
    <3> HIDE DEF k
    <3>3. QED
      BY <3>1, <3>2
  <2>2. i \in 1 .. Len(before) => text[i] \in Words \cup {"-"}
    BY <1>2, <1>3
  <2> HIDE DEF at, k
  <2>3. QED
    BY <1>2, <1>6, <1>7, <2>1, <2>2
<1>9. ParseLanguage(text) = [name |-> ToLower(<<text[at]>>), version |-> number]
  <2> HIDE DEF at, k
  <2>1. text[at] \in Words
    BY <1>2
  <2>2. QED
    BY <1>2, <1>5, <1>6, <1>8, <2>1, LanguageFound
<1>10. QED
  BY <1>2, <1>9 DEF text, T, LanguageOf, LanguageIs

\* The number of a version keeps its first three parts.
Numbers(number) == [i \in 1 .. 3 |-> IF i <= Len(number) THEN Value[number[i]] ELSE 0]

LEMMA NumberParses ==
  ASSUME NEW number \in Seq(DOMAIN Value), Len(number) \in 1 .. 4
  PROVE  ParseVersionNumber(Join(NumberParts(number), ".")) = Numbers(number)
<1> DEFINE s == NumberParts(number)
<1>1. Split(Join(s, "."), ".") = s
  <2>1. <<>> \in Seq(Without({"/", "-"}))
    OBVIOUS
  <2>2. \A k \in 1 .. 4 : k # 0
    OBVIOUS
  <2>3. QED
    BY <2>1, <2>2, VersionSplits
<1>2. Len(s) = Len(number) /\ \A i \in 1 .. Len(number) : s[i] = <<number[i]>>
  BY DEF NumberParts
<1> HIDE DEF s
<1>3. ASSUME NEW i \in 1 .. Len(number)
      PROVE  Atoi(s[i]) = Value[number[i]]
  <2>1. number[i] \in DOMAIN Value
    OBVIOUS
  <2>2. Len(<<number[i]>>) = 1 /\ <<number[i]>>[1] = number[i]
    OBVIOUS
  <2>3. s[i] = <<number[i]>>
    BY <1>2
  <2>4. QED
    BY <2>1, <2>2, <2>3 DEF Atoi
<1>4. ParseVersionNumber(Join(s, ".")) =
        [i \in 1 .. 3 |-> IF i <= Len(s) /\ Len(s) <= 4 THEN Atoi(s[i]) ELSE 0]
  BY <1>1 DEF ParseVersionNumber
<1>5. ASSUME NEW i \in 1 .. 3
      PROVE  (IF i <= Len(s) /\ Len(s) <= 4 THEN Atoi(s[i]) ELSE 0)
               = (IF i <= Len(number) THEN Value[number[i]] ELSE 0)
  <2>1. i <= Len(number) => i \in 1 .. Len(number)
    OBVIOUS
  <2>2. QED
    BY <1>2, <1>3, <2>1
<1>6. QED
  BY <1>4, <1>5 DEF Numbers, s

\* The parser of versions finds number, tag, build and date.
LEMMA VersionParses ==
  ASSUME NEW number \in Seq(DOMAIN Value), Len(number) \in 1 .. 4,
         NEW pieces \in Seq(Without({"/", "-"})), Len(pieces) <= 7
  PROVE  LET v == ParseVersion(Join(VersionParts(number, pieces), "-"))
             n == Len(pieces)
             P(i) == IF i <= n THEN pieces[i] ELSE <<>>
         IN  /\ v.number = Numbers(number)
             /\ n <= 3 => v.tag = P(1) /\ v.build = P(2) /\ v.date = P(3)
             /\ n > 3 => /\ v.build = pieces[n - 1] /\ v.date = pieces[n]
                         /\ v.tag = FlattenSeq(SubSeq(pieces, 1, n - 3))
<1> DEFINE s == VersionParts(number, pieces)
           text == Join(s, "-")
           n == Len(pieces)
           long == n + 1 \in 5 .. 8
           tag == IF long THEN FlattenSeq(SubSeq(s, 2, (n + 1) - 3))
                  ELSE IF n + 1 \in 2 .. 4 THEN s[2] ELSE <<>>
           build == IF long THEN s[(n + 1) - 1] ELSE IF n + 1 \in 3 .. 4 THEN s[3] ELSE <<>>
           date == IF long THEN s[n + 1] ELSE IF n + 1 = 4 THEN s[4] ELSE <<>>
<1>1. /\ Split(text, "-") = s /\ Len(s) = n + 1
      /\ s[1] = Join(NumberParts(number), ".")
      /\ \A i \in 1 .. n : s[i + 1] = pieces[i]
  <2>1. Len(number) # 0
    OBVIOUS
  <2>2. QED
    BY <2>1, VersionSplits
<1>2. n \in Nat
  OBVIOUS
<1> DEFINE v == ParseVersion(text)
<1>3. v = [number |-> ParseVersionNumber(s[1]), tag |-> tag, build |-> build, date |-> date]
  <2>1. v = [number |-> IF n + 1 <= 8 THEN ParseVersionNumber(s[1]) ELSE <<0, 0, 0>>,
             tag |-> tag, build |-> build, date |-> date]
    BY <1>1 DEF ParseVersion
  <2>2. n + 1 <= 8
    BY <1>2
  <2> HIDE DEF v, tag, build, date
  <2>3. QED
    BY <2>1, <2>2
<1>4. v.number = Numbers(number)
  BY <1>1, <1>3, NumberParses
<1>5. v.tag = tag /\ v.build = build /\ v.date = date
  BY <1>3
<1> HIDE DEF v
<1>6. CASE n <= 3
  <2>1. ~ long
    BY <1>6
  <2>2. tag = IF n + 1 \in 2 .. 4 THEN s[2] ELSE <<>>
    BY <2>1
  <2>3. n >= 1 => 1 \in 1 .. n /\ s[1 + 1] = pieces[1]
    BY <1>1, <1>2
  <2>4. n >= 2 => 2 \in 1 .. n /\ s[2 + 1] = pieces[2]
    BY <1>1, <1>2
  <2>5. n >= 3 => 3 \in 1 .. n /\ s[3 + 1] = pieces[3]
    BY <1>1, <1>2
  <2> HIDE DEF n, s
  <2>6. tag = IF 1 <= n THEN pieces[1] ELSE <<>>
    BY <1>2, <1>6, <2>2, <2>3
  <2>7. build = IF 2 <= n THEN pieces[2] ELSE <<>>
    BY <1>2, <1>6, <2>1, <2>4
  <2>8. date = IF 3 <= n THEN pieces[3] ELSE <<>>
    BY <1>2, <1>6, <2>1, <2>5
  <2>9. QED
    BY <1>4, <1>5, <1>6, <2>6, <2>7, <2>8 DEF n, v, text, s
<1>7. CASE n > 3
  <2>1. long
    BY <1>2, <1>7
  <2>2. n - 1 \in 1 .. n /\ n \in 1 .. n /\ (n + 1) - 1 = n
    BY <1>2, <1>7
  <2>3. s[(n - 1) + 1] = pieces[n - 1] /\ s[n + 1] = pieces[n]
    BY <1>1, <2>2
  <2>4. date = pieces[n]
    BY <2>1, <2>3
  <2>5. build = pieces[n - 1]
    <3>1. (n + 1) - 1 = (n - 1) + 1
      BY <1>2
    <3> HIDE DEF n, s
    <3>2. QED
      BY <2>1, <2>3, <3>1
  <2>6. SubSeq(s, 2, (n + 1) - 3) = SubSeq(pieces, 1, n - 3)
    <3> DEFINE m == n - 3
               a == SubSeq(s, 2, (n + 1) - 3)
               b == SubSeq(pieces, 1, n - 3)
    <3>1. m \in Nat /\ m <= n /\ (n + 1) - 3 = m + 1 /\ DOMAIN s = 1 .. n + 1
      BY <1>1, <1>2, <1>7
    <3> HIDE DEF s
    <3>2. a = [i \in 1 .. m |-> s[i + 1]]
      BY <1>2, <3>1
    <3>3. b = [i \in 1 .. m |-> pieces[i]]
      BY <1>2, <3>1
    <3>4. \A i \in 1 .. m : s[i + 1] = pieces[i]
      BY <1>1, <1>2
    <3> HIDE DEF a, b, m
    <3>5. a = b
      BY <3>2, <3>3, <3>4
    <3>6. QED
      BY <3>5 DEF a, b
  <2>7. tag = FlattenSeq(SubSeq(pieces, 1, n - 3))
    BY <2>1, <2>6
  <2>8. QED
    BY <1>4, <1>5, <1>7, <2>4, <2>5, <2>7 DEF v, text, s
<1>8. QED
  BY <1>2, <1>6, <1>7

ColumnsAre(row, type, labels, release, system, language) ==
  /\ row.type = type /\ row.version = release
  /\ row.os = system /\ row.go = language
  /\ row.desc = Described(labels)

\* Where the reader of a Hello finds the columns of a name that it can split.
ColumnsAt(parts, type, labels, release, system, language) ==
  /\ parts[1] = type
  /\ \/ /\ Len(parts) = 4 /\ Len(labels) = 0
        /\ parts[2] = release /\ parts[3] = system /\ parts[4] = language
     \/ /\ Len(parts) = 5 /\ Len(labels) = 1 /\ parts[2] = labels[1]
        /\ parts[3] = release /\ parts[4] = system /\ parts[5] = language
     \/ /\ Len(parts) = 6 /\ Len(labels) = 2 /\ parts[3] = labels[1]
        /\ parts[2] = release /\ parts[5] = system /\ parts[6] = language

LEMMA ReadsColumns ==
  ASSUME NEW name, NEW type, NEW labels, NEW release, NEW system, NEW language,
         ColumnsAt(Split(name, "/"), type, labels, release, system, language)
  PROVE  ColumnsAre(ReadName(name), type, labels, release, system, language)
<1> DEFINE parts == Split(name, "/")
           row == ReadName(name)
           double == parts[3] \o <<"/">> \o parts[3]
<1>1. row = CASE Len(parts) = 4 -> Columns(parts[1], <<>>, parts[2], parts[3], parts[4])
              [] Len(parts) = 5 -> Columns(parts[1], parts[2], parts[3], parts[4], parts[5])
              [] Len(parts) = 6 -> Columns(parts[1], double, parts[2], parts[5], parts[6])
              [] OTHER -> Columns(name, <<>>, <<>>, <<>>, <<>>)
  BY DEF ReadName
<1> HIDE DEF parts, row, double
<1>2. CASE Len(parts) = 4
  BY <1>1, <1>2 DEF ColumnsAt, ColumnsAre, Columns, Described, parts, row
<1>3. CASE Len(parts) = 5
  BY <1>1, <1>3 DEF ColumnsAt, ColumnsAre, Columns, Described, parts, row
<1>4. CASE Len(parts) = 6
  <2>1. Len(labels) = 2 /\ parts[1] = type /\ parts[2] = release
        /\ parts[3] = labels[1] /\ parts[5] = system /\ parts[6] = language
    BY <1>4 DEF ColumnsAt, parts
  <2>2. row = Columns(parts[1], double, parts[2], parts[5], parts[6])
    BY <1>1, <1>4
  <2>3. double = Described(labels)
    BY <2>1 DEF double, Described
  <2>4. QED
    BY <2>1, <2>2, <2>3 DEF ColumnsAre, Columns, row
<1>5. QED
  BY <1>2, <1>3, <1>4 DEF ColumnsAt, parts

\* A name comes apart at its "/", and its columns are those that it was made of,
\* with any number of labels.
NameOf(type, labels, release, system, language) ==
  LET behind == <<system, language>> IN
  Join(IF Len(labels) = 1 THEN <<type, labels[1], release>> \o behind
       ELSE <<type, release>> \o labels \o behind, "/")

LEMMA NameSplits ==
  ASSUME NEW type \in Seq(Tokens \ {"/"}), NEW labels \in Seq(Seq(Tokens \ {"/"})),
         NEW release \in Seq(Tokens \ {"/"}), NEW system \in Seq(Tokens \ {"/"}),
         NEW language \in Seq(Tokens \ {"/"}), Len(labels) <= 2
  PROVE  ColumnsAre(ReadName(NameOf(type, labels, release, system, language)),
                    type, labels, release, system, language)
<1> DEFINE S == Seq(Tokens \ {"/"})
           pair == <<type, release>>
           three == <<type, labels[1], release>>
           front == pair \o labels
           parts == IF Len(labels) = 1 THEN three \o <<system, language>>
                    ELSE front \o <<system, language>>
<1> HIDE DEF S
<1>1. type \in S /\ release \in S /\ system \in S /\ language \in S /\ labels \in Seq(S)
  BY DEF S
<1>2. Len(labels) \in Nat /\ \A i \in 1 .. Len(labels) : labels[i] \in S
  BY <1>1
<1>3. Len(labels) = 0 \/ Len(labels) = 1 \/ Len(labels) = 2
  <2>1. \A k \in Nat : k <= 2 => k = 0 \/ k = 1 \/ k = 2
    OBVIOUS
  <2>2. QED
    BY <1>2, <2>1
<1>4. ASSUME Len(labels) = 1
      PROVE  parts \in Seq(S) /\ ColumnsAt(parts, type, labels, release, system, language)
  <2>1. 1 \in 1 .. 1 /\ 3 \in 1 .. 3
    OBVIOUS
  <2>2. labels[1] \in S
    BY <1>2, <1>4, <2>1
  <2>3. three \in Seq(S) /\ Len(three) = 3 /\ three[1] = type /\ three[3] = release
       /\ three[2] = labels[1]
    BY <1>1, <2>2
  <2>4. parts = three \o <<system, language>>
    BY <1>4
  <2> HIDE DEF three, parts
  <2>5. /\ parts \in Seq(S) /\ Len(parts) = Len(three) + 2
        /\ \A i \in 1 .. Len(three) : parts[i] = three[i]
        /\ parts[Len(three) + 1] = system /\ parts[Len(three) + 2] = language
    <3>1. three \in Seq(S) /\ system \in S /\ language \in S
      BY <1>1, <2>3
    <3>2. QED
      BY <2>4, <3>1, PairBehind
  <2>6. parts \in Seq(S) /\ ColumnsAt(parts, type, labels, release, system, language)
    BY <1>4, <2>3, <2>5 DEF ColumnsAt
  <2>7. QED
    BY <2>6
<1>5. ASSUME Len(labels) # 1
      PROVE  parts \in Seq(S) /\ ColumnsAt(parts, type, labels, release, system, language)
  <2>1. pair \in Seq(S) /\ Len(pair) = 2 /\ pair[1] = type /\ pair[2] = release
    BY <1>1
  <2>2. parts = front \o <<system, language>>
    BY <1>5
  <2> HIDE DEF pair, front, parts
  <2>3. /\ front \in Seq(S) /\ Len(front) = Len(pair) + Len(labels)
        /\ \A i \in 1 .. Len(pair) : front[i] = pair[i]
        /\ \A i \in 1 .. Len(labels) : front[Len(pair) + i] = labels[i]
    <3>1. pair \in Seq(S) /\ labels \in Seq(S)
      BY <1>1, <2>1
    <3>2. QED
      BY <3>1, Concat DEF front
  <2>4. /\ \/ Len(front) = 2 /\ Len(labels) = 0
           \/ Len(front) = 4 /\ Len(labels) = 2 /\ front[3] = labels[1]
        /\ front[1] = type /\ front[2] = release
    <3>1. 1 \in 1 .. 2 /\ 2 \in 1 .. 2
      OBVIOUS
    <3>2. front[1] = type /\ front[2] = release
      BY <2>1, <2>3, <3>1
    <3>3. Len(front) = 2 + Len(labels)
      BY <2>1, <2>3
    <3>4. 2 + 0 = 2 /\ 2 + 2 = 4
      OBVIOUS
    <3>5. Len(labels) = 0 \/ Len(labels) = 2
      BY <1>3, <1>5
    <3>6. ASSUME Len(labels) = 2 PROVE front[3] = labels[1]
      <4>1. 1 \in 1 .. 2 /\ 2 + 1 = 3
        OBVIOUS
      <4>2. QED
        BY <2>1, <2>3, <3>6, <4>1
    <3>7. QED
      BY <3>2, <3>3, <3>4, <3>5, <3>6
  <2>5. /\ parts \in Seq(S) /\ Len(parts) = Len(front) + 2
        /\ \A i \in 1 .. Len(front) : parts[i] = front[i]
        /\ parts[Len(front) + 1] = system /\ parts[Len(front) + 2] = language
    <3>1. front \in Seq(S) /\ system \in S /\ language \in S
      BY <1>1, <2>3
    <3>2. QED
      BY <2>2, <3>1, PairBehind
  <2>6. parts \in Seq(S) /\ ColumnsAt(parts, type, labels, release, system, language)
    <3>1. CASE Len(front) = 2
      <4>1. Len(parts) = 4 /\ parts[1] = type /\ parts[2] = release
        BY <2>4, <2>5, <3>1
      <4>2. parts[3] = system /\ parts[4] = language
        BY <2>5, <3>1
      <4>3. QED
        BY <2>4, <2>5, <3>1, <4>1, <4>2 DEF ColumnsAt
    <3>2. CASE Len(front) = 4
      <4>1. Len(parts) = 6 /\ parts[1] = type /\ parts[2] = release
        BY <2>4, <2>5, <3>2
      <4>2. parts[5] = system /\ parts[6] = language
        BY <2>5, <3>2
      <4>3. parts[3] = labels[1] /\ Len(labels) = 2
        BY <2>4, <2>5, <3>2
      <4>4. QED
        BY <2>5, <4>1, <4>2, <4>3 DEF ColumnsAt
    <3>3. QED
      BY <2>4, <3>1, <3>2
  <2>7. QED
    BY <2>6
<1>6. parts \in Seq(S) /\ ColumnsAt(parts, type, labels, release, system, language)
  BY <1>4, <1>5
<1> HIDE DEF parts
<1>7. Split(Join(parts, "/"), "/") = parts
  <2>1. "/" \in Tokens
    BY DEF Tokens
  <2>2. parts \in Seq(Seq(Tokens \ {"/"})) /\ Len(parts) # 0
    BY <1>6 DEF S, ColumnsAt
  <2>3. parts \in Parts(Tokens \ {"/"})
    BY <2>2, SomeParts
  <2>4. QED
    BY <2>1, <2>3, SplitUndoesJoin
<1> DEFINE name == Join(parts, "/")
<1>8. ColumnsAre(ReadName(name), type, labels, release, system, language)
  <2> HIDE DEF name
  <2>1. ColumnsAt(Split(name, "/"), type, labels, release, system, language)
    BY <1>6, <1>7 DEF name
  <2>2. QED
    BY <2>1, ReadsColumns
<1>9. QED
  BY <1>8 DEF parts, NameOf

\* The parser of systems finds the system and the architecture.
LEMMA SystemParses ==
  ASSUME NEW os \in Seq(Without({"/", "-"})), Len(os) \in 1 .. 2
  PROVE  ParseOS(Join(os, "-")) =
           [os |-> ToLower(os[1]),
            architecture |-> IF Len(os) = 2 THEN ToLower(os[2]) ELSE <<>>]
<1>1. \A k \in 1 .. 2 : k # 0 /\ k <= 2
  OBVIOUS
<1>2. Split(Join(os, "-"), "-") = os
  BY <1>1, SystemSplits
<1>3. QED
  BY <1>1, <1>2 DEF ParseOS

\* The API's row of a client that keeps to the custom has what its name was made of.
LEMMA ClientKnown ==
  ASSUME NEW c \in Clients
  PROVE  /\ Knows(ParseVersionString(ReadName(NameText(c))), c)
         /\ ReadName(NameText(c)).desc = Described(c.labels)
<1> DEFINE type == c.type
           labels == c.labels
           number == c.number
           pieces == c.pieces
           os == c.os
           before == c.lang.before
           word == c.lang.name
           dash == c.lang.dash
           digits == c.lang.version
           after == c.lang.after
           release == VersionText(c)
           system == Join(os, "-")
           language == LanguageText(c.lang)
           row == ReadName(NameText(c))
           parsed == ParseVersionString(row)
           v == ParseVersion(release)
<1>0. Customary(c)
  BY ClientNameAssumption DEF ClientNameAssumption
<1>1. /\ type \in Seq(Tokens \ {"/"})
      /\ labels \in Seq(Seq(Tokens \ {"/"})) /\ Len(labels) <= 2
      /\ number \in Seq(DOMAIN Value) /\ Len(number) \in 1 .. 4
      /\ pieces \in Seq(Without({"/", "-"})) /\ Len(pieces) <= 7
      /\ os \in Seq(Without({"/", "-"})) /\ Len(os) \in 1 .. 2
  <2>1. Without({"/"}) = Seq(Tokens \ {"/"})
    BY WithoutSeps
  <2>2. QED
    BY <1>0, <2>1 DEF Customary
<1>2. LanguageCustomary(before, word, dash, digits, after)
  <2>1. Without({"/"}) = Seq(Tokens \ {"/"})
    BY WithoutSeps
  <2>2. QED
    BY <1>0, <2>1 DEF Customary, LanguageCustomary
<1>3. release = Join(VersionParts(number, pieces), "-")
  BY DEF VersionText, VersionParts, NumberParts
<1>4. language = LanguageOf(before, word, dash, digits, after)
  BY DEF LanguageText, LanguageOf
<1>5. NameText(c) = NameOf(type, labels, release, system, language)
  BY DEF NameText, NameOf
<1>6. /\ parsed.name = ToLower(row.type) /\ parsed.version = ParseVersion(row.version)
      /\ parsed.error = (row.version # <<>> /\ ParseVersion(row.version).number = <<0, 0, 0>>)
      /\ parsed.os = ParseOS(row.os) /\ parsed.language = ParseLanguage(row.go)
  BY DEF ParseVersionString
<1>7. Knows(parsed, c) =
        ( /\ parsed.name = ToLower(type)
          /\ KnowsVersion(parsed.version, c)
          /\ parsed.error <=> \A i \in 1 .. 3 : parsed.version.number[i] = 0
          /\ <<parsed.os.os, parsed.os.architecture>> =
               <<ToLower(os[1]), IF Len(os) = 2 THEN ToLower(os[2]) ELSE <<>> >>
          /\ LanguageIs(parsed.language, word, digits))
  BY DEF Knows, LanguageIs
<1>8. KnowsVersion(v, c) =
        LET n == Len(pieces)
            P(i) == IF i <= n THEN pieces[i] ELSE <<>>
        IN  /\ \A i \in 1 .. 3 : v.number[i] = IF i <= Len(number) THEN Value[number[i]] ELSE 0
            /\ IF n <= 3 THEN v.tag = P(1) /\ v.build = P(2) /\ v.date = P(3)
               ELSE /\ v.build = P(n - 1) /\ v.date = P(n)
                    /\ v.tag = FlattenSeq(SubSeq(pieces, 1, n - 3))
  BY DEF KnowsVersion, Piece
<1> HIDE DEF type, labels, number, pieces, os, before, word, dash, digits, after,
             release, system, language, row, parsed, v
<1>9. release \in Seq(Tokens \ {"/"}) /\ release # <<>>
  <2>1. \A k \in 1 .. 4 : k # 0
    OBVIOUS
  <2>2. QED
    BY <1>1, <1>3, <2>1, VersionSplits
<1>10. system \in Seq(Tokens \ {"/"})
  <2>1. \A k \in 1 .. 2 : k # 0
    OBVIOUS
  <2>2. QED
    BY <1>1, <2>1, SystemSplits DEF system
<1>11. /\ language \in Seq(Tokens \ {"/"})
       /\ LanguageIs(ParseLanguage(language), word, digits)
  BY <1>2, <1>4, LanguageParses
<1>12. /\ row.type = type /\ row.version = release /\ row.os = system /\ row.go = language
       /\ row.desc = Described(labels)
  <2>1. ColumnsAre(row, type, labels, release, system, language)
    BY <1>1, <1>5, <1>9, <1>10, <1>11, NameSplits DEF row
  <2>2. QED
    BY <2>1 DEF ColumnsAre
<1>13. /\ v.number = Numbers(number)
       /\ KnowsVersion(v, c)
  <2> DEFINE n == Len(pieces)
             P(i) == IF i <= n THEN pieces[i] ELSE <<>>
  <2>1. /\ v.number = Numbers(number)
        /\ n <= 3 => v.tag = P(1) /\ v.build = P(2) /\ v.date = P(3)
        /\ n > 3 => /\ v.build = pieces[n - 1] /\ v.date = pieces[n]
                    /\ v.tag = FlattenSeq(SubSeq(pieces, 1, n - 3))
    BY <1>1, <1>3, VersionParses DEF v
  <2>2. \A i \in 1 .. 3 : v.number[i] = IF i <= Len(number) THEN Value[number[i]] ELSE 0
    BY <2>1 DEF Numbers
  <2>3. n \in Nat
    BY <1>1
  <2> HIDE DEF n
  <2>4. n > 3 => n - 1 <= n /\ n <= n
    BY <2>3
  <2>5. n <= 3 \/ n > 3
    BY <2>3
  <2>6. QED
    BY <1>8, <2>1, <2>2, <2>4, <2>5 DEF n
<1>14. parsed.error <=> \A i \in 1 .. 3 : parsed.version.number[i] = 0
  <2> DEFINE zeros == [i \in 1 .. 3 |-> 0]
  <2>1. zeros = <<0, 0, 0>>
    OBVIOUS
  <2>2. Numbers(number) = zeros <=> \A i \in 1 .. 3 : Numbers(number)[i] = 0
    BY DEF Numbers
  <2> HIDE DEF zeros
  <2>3. QED
    BY <1>6, <1>9, <1>12, <1>13, <2>1, <2>2 DEF v
<1>15. parsed.os = [os |-> ToLower(os[1]),
                    architecture |-> IF Len(os) = 2 THEN ToLower(os[2]) ELSE <<>>]
  BY <1>1, <1>6, <1>12, SystemParses DEF system
<1>16. QED
  BY <1>6, <1>7, <1>11, <1>12, <1>13, <1>14, <1>15 DEF v, parsed, row, labels

\* Of the name of every client that keeps to the custom, whatever its words, its
\* numbers and the lengths of its parts, readHello's columns and
\* ParseVersionString's row have what NamesRecognised says: all but the fourth
\* number, the piece third from behind of four and more, and the second label.
THEOREM NamesAlwaysRecognised == Spec => []NamesRecognised
<1>1. \A c \in Clients : /\ Knows(ParseVersionString(ReadName(NameText(c))), c)
                         /\ ReadName(NameText(c)).desc = Described(c.labels)
  BY ClientKnown
<1>2. NamesRecognised
  BY <1>1 DEF NamesRecognised
<1>3. QED
  BY <1>2, PTL
=============================================================================
