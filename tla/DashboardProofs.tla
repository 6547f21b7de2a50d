---------------------------- MODULE DashboardProofs ----------------------------
(***************************************************************************)
(* Proofs about the dashboard's handlers and their cache, for any number   *)
(* of concurrent requests, any filters and any parts.                      *)
(***************************************************************************)
EXTENDS Dashboard, TLAPS

-----------------------------------------------------------------------------
(* The order of the parts.                                                 *)

\* Both orders are of parts, and go on with one.
LEMMA Orders ==
  ASSUME NEW q \in Queries
  PROVE  GetOrder(q) \in Seq(Parts) /\ GetOrder(q) # <<>>
         /\ AddOrder \in Seq(Parts) /\ AddOrder # <<>>
         /\ Plain[1] \in Parts /\ AddOrder[1] \in Parts
<1>1. Plain \in Seq(Parts) /\ Plain # <<>> /\ Len(Plain) \in Nat \ {0}
  BY DashboardAssumption DEF DashboardAssumption, Parts
<1>2. <<"co">> \in Seq(Parts) /\ <<"v">> \in Seq(Parts) /\ <<"v", "co">> \in Seq(Parts)
      /\ <<>> \in Seq(Parts)
  BY DEF Parts
<1>3. GetOrder(q) \in Seq(Parts) /\ Len(GetOrder(q)) > 0
  BY <1>1, <1>2 DEF GetOrder
<1>4. AddOrder \in Seq(Parts) /\ Len(AddOrder) > 0
  BY <1>1, <1>2 DEF AddOrder
<1>5. QED
  BY <1>1, <1>3, <1>4

\* What follows a part in a sequence is a part, unless it is the last one.
LEMMA FollowingType ==
  ASSUME NEW s \in Seq(Parts), NEW part, \E i \in DOMAIN s : s[i] = part, part # Last(s)
  PROVE  Following(s, part) \in Parts /\ \E i \in DOMAIN s : s[i] = Following(s, part)
<1> DEFINE i == CHOOSE i \in DOMAIN s : s[i] = part
<1>1. i \in DOMAIN s /\ s[i] = part
  OBVIOUS
<1>2. i \in 1 .. Len(s) /\ i # Len(s)
  BY <1>1 DEF Last
<1>3. 1 + i \in DOMAIN s /\ s[1 + i] \in Parts
  BY <1>2
<1>4. QED
  BY <1>3 DEF Following

-----------------------------------------------------------------------------
(* Types.                                                                  *)

\* A handler is at a part of the order it goes through.
OnItsWay(h) ==
  /\ phase[h] = "get" => \E i \in DOMAIN GetOrder(query[h]) : GetOrder(query[h])[i] = at[h]
  /\ phase[h] = "add" => \E i \in DOMAIN AddOrder : AddOrder[i] = at[h]

Counted ==
  /\ version \in Nat /\ events \in Nat /\ version <= events /\ events <= MaxEvents
  /\ dropAt \in 0 .. version

Typed ==
  /\ cache \in [Key -> Answer \cup {Absent}]
  /\ carried \in BOOLEAN
  /\ phase \in [Handlers -> {"idle", "get", "add"}]
  /\ at \in [Handlers -> Parts]
  /\ query \in [Handlers -> Queries]
  /\ res \in [Handlers -> [Parts -> Answer]]

TypeInv == Counted /\ Typed /\ \A h \in Handlers : OnItsWay(h)

LEMMA NoResultType == NoResult \in [Parts -> Answer]
  BY DEF NoResult, Answer

LEMMA KeyType ==
  ASSUME NEW part \in Parts, NEW q \in Queries
  PROVE  GetKey(part, q) \in Key /\ StoreKey(part, q) \in Key
<1>1. \A p \in Parts : Sql(p, q) \in SqlTexts
  BY DEF Sql, SqlTexts
<1>2. "v" \in Parts
  BY DEF Parts
<1>3. QED
  BY <1>1, <1>2 DEF GetKey, StoreKey, Key

LEMMA AnswerType ==
  ASSUME Counted, NEW part \in Parts, NEW q \in Queries
  PROVE  [part |-> part, query |-> q, version |-> version] \in Answer
  BY DashboardAssumption DEF Counted, Answer, Queried, DashboardAssumption

LEMMA TypeInit == Init => TypeInv
<1> SUFFICES ASSUME Init PROVE TypeInv
  OBVIOUS
<1>0. NoQuery \in Queries /\ Plain[1] \in Parts
  BY DashboardAssumption, Orders DEF NoQuery, DashboardAssumption
<1>1. Counted
  BY DashboardAssumption DEF Init, Counted, DashboardAssumption
<1>2. Typed
  BY <1>0, NoResultType DEF Init, Typed
<1>3. QED
  BY <1>1, <1>2 DEF Init, OnItsWay, TypeInv

LEMMA CountedStep == Counted /\ [Next]_vars => Counted'
<1> SUFFICES ASSUME Counted, [Next]_vars PROVE Counted'
  OBVIOUS
<1>0. MaxEvents \in Nat
  BY DashboardAssumption DEF DashboardAssumption
<1>1. ASSUME NEW h \in Handlers, Handler(h) PROVE Counted'
  BY <1>0, <1>1 DEF Handler, Request, Hit, Miss, Got, Add, Counted, cacheVars
<1>2. CASE DropCache \/ Ingested \/ \E k \in Key : Evict(k)
  BY <1>0, <1>2 DEF DropCache, Ingested, Evict, Disturbed, Counted, cacheVars
<1>3. CASE UNCHANGED vars
  BY <1>3 DEF vars, cacheVars, Counted
<1>4. QED
  BY <1>1, <1>2, <1>3 DEF Next

\* An answer that a handler gets leaves it where it should be.
LEMMA GotType ==
  ASSUME TypeInv, NEW h \in Handlers, NEW answer \in Answer, Got(h, answer)
  PROVE  Typed' /\ \A g \in Handlers : OnItsWay(g)'
<1> DEFINE order == GetOrder(query[h])
<1>0. query[h] \in Queries /\ at[h] \in Parts /\ order \in Seq(Parts)
      /\ \E i \in DOMAIN order : order[i] = at[h]
  BY Orders DEF TypeInv, Typed, OnItsWay, Got
<1>1. res' \in [Handlers -> [Parts -> Answer]]
  BY <1>0 DEF Got, TypeInv, Typed
<1>2. UNCHANGED <<cache, carried, query>>
  BY DEF Got, cacheVars
<1>3. CASE at[h] = Last(order)
  <2>1. phase' = [phase EXCEPT ![h] = "add"] /\ at' = [at EXCEPT ![h] = AddOrder[1]]
    BY <1>3 DEF Got
  <2>2. AddOrder[1] \in Parts /\ 1 \in DOMAIN AddOrder
    BY <1>0, Orders
  <2>3. Typed'
    BY <1>1, <1>2, <2>1, <2>2 DEF TypeInv, Typed
  <2>4. \A g \in Handlers : OnItsWay(g)'
    BY <1>2, <2>1, <2>2 DEF TypeInv, Typed, OnItsWay
  <2>5. QED
    BY <2>3, <2>4
<1>4. CASE at[h] # Last(order)
  <2>1. phase' = phase /\ at' = [at EXCEPT ![h] = Following(order, at[h])]
    BY <1>4 DEF Got
  <2>2. Following(order, at[h]) \in Parts
        /\ \E i \in DOMAIN order : order[i] = Following(order, at[h])
    BY <1>0, <1>4, FollowingType
  <2>3. Typed'
    BY <1>1, <1>2, <2>1, <2>2 DEF TypeInv, Typed
  <2>4. \A g \in Handlers : OnItsWay(g)'
    BY <1>2, <2>1, <2>2 DEF TypeInv, Typed, OnItsWay, Got
  <2>5. QED
    BY <2>3, <2>4
<1>5. QED
  BY <1>3, <1>4

LEMMA TypeStep == TypeInv /\ [Next]_vars => TypeInv'
<1> SUFFICES ASSUME TypeInv, [Next]_vars
             PROVE  Typed' /\ \A g \in Handlers : OnItsWay(g)'
  BY CountedStep DEF TypeInv
<1>0. Counted /\ Typed /\ \A g \in Handlers : OnItsWay(g)
  BY DEF TypeInv
<1>1. ASSUME NEW h \in Handlers, NEW q \in Queries, Request(h, q)
      PROVE  Typed' /\ \A g \in Handlers : OnItsWay(g)'
  <2>1. Plain[1] \in Parts /\ 1 \in DOMAIN GetOrder(q) /\ GetOrder(q)[1] = Plain[1]
    BY DashboardAssumption, Orders DEF DashboardAssumption, GetOrder
  <2>2. Typed'
    BY <1>0, <1>1, <2>1, NoResultType DEF Request, Typed, cacheVars
  <2>3. \A g \in Handlers : OnItsWay(g)'
    BY <1>0, <1>1, <2>1 DEF Request, Typed, OnItsWay
  <2>4. QED
    BY <2>2, <2>3
<1>2. ASSUME NEW h \in Handlers, Hit(h) \/ Miss(h)
      PROVE  Typed' /\ \A g \in Handlers : OnItsWay(g)'
  <2>1. at[h] \in Parts /\ query[h] \in Queries
    BY <1>0 DEF Typed
  <2>2. Cached(h) \in Answer \cup {Absent}
    BY <1>0, <2>1, KeyType DEF Cached, Typed
  <2>3. \E answer \in Answer : Got(h, answer)
    BY <1>0, <1>2, <2>1, <2>2, AnswerType DEF Hit, Miss
  <2>4. QED
    BY <2>3, GotType
<1>3. ASSUME NEW h \in Handlers, Add(h)
      PROVE  Typed' /\ \A g \in Handlers : OnItsWay(g)'
  <2>1. at[h] \in Parts /\ query[h] \in Queries /\ res[h][at[h]] \in Answer
    BY <1>0 DEF Typed
  <2>2. cache' \in [Key -> Answer \cup {Absent}]
    BY <1>0, <1>3, <2>1, KeyType DEF Add, Typed
  <2>3. carried' \in BOOLEAN
    BY <1>0, <1>3 DEF Add, Typed
  <2>4. CASE at[h] = Last(AddOrder)
    <3>1. Plain[1] \in Parts /\ NoQuery \in Queries
      BY DashboardAssumption, Orders DEF NoQuery, DashboardAssumption
    <3>2. Typed'
      BY <1>0, <1>3, <2>2, <2>3, <2>4, <3>1, NoResultType DEF Add, Typed
    <3>3. \A g \in Handlers : OnItsWay(g)'
      BY <1>0, <1>3, <2>4 DEF Add, Typed, OnItsWay
    <3>4. QED
      BY <3>2, <3>3
  <2>5. CASE at[h] # Last(AddOrder)
    <3>1. at' = [at EXCEPT ![h] = Following(AddOrder, at[h])] /\ UNCHANGED <<phase, query, res>>
      BY <1>3, <2>5 DEF Add
    <3>2. Following(AddOrder, at[h]) \in Parts
          /\ \E i \in DOMAIN AddOrder : AddOrder[i] = Following(AddOrder, at[h])
      BY <1>0, <1>3, <2>1, <2>5, FollowingType, Orders DEF Add, OnItsWay
    <3>3. Typed'
      BY <1>0, <2>2, <2>3, <3>1, <3>2 DEF Typed
    <3>4. \A g \in Handlers : OnItsWay(g)'
      BY <1>0, <1>3, <3>1, <3>2 DEF Add, Typed, OnItsWay
    <3>5. QED
      BY <3>3, <3>4
  <2>6. QED
    BY <2>4, <2>5
<1>4. CASE DropCache
  <2>1. cache' \in [Key -> Answer \cup {Absent}]
    BY <1>4 DEF DropCache
  <2>2. carried' \in BOOLEAN
    BY <1>4 DEF DropCache, UnderWay
  <2>3. QED
    BY <1>0, <1>4, <2>1, <2>2 DEF DropCache, Typed, OnItsWay
<1>5. ASSUME NEW k \in Key, Evict(k) PROVE Typed' /\ \A g \in Handlers : OnItsWay(g)'
  <2>1. cache' \in [Key -> Answer \cup {Absent}]
    BY <1>0, <1>5 DEF Evict, Typed
  <2>2. QED
    BY <1>0, <1>5, <2>1 DEF Evict, Typed, OnItsWay
<1>6. CASE Ingested \/ UNCHANGED vars
  BY <1>0, <1>6 DEF Ingested, vars, cacheVars, Typed, OnItsWay
<1>7. QED
  BY <1>1, <1>2, <1>3, <1>4, <1>5, <1>6 DEF Next, Handler

THEOREM TypeAlways == Spec => []TypeInv
  BY TypeInit, TypeStep, PTL DEF Spec

\* Type correctness of the dashboard.
THEOREM TypeCorrect == Spec => []TypeOK
<1>1. TypeInv => TypeOK
  BY DashboardAssumption DEF TypeInv, Counted, Typed, TypeOK, DashboardAssumption
<1>2. QED
  BY <1>1, TypeAlways, PTL

-----------------------------------------------------------------------------
(* Answers.                                                                *)

\* What came of a query for this part with this text (and, of the languages, for
\* the same columns); from after the last drop, unless that fell into a request.
Right(a, part, where, versions) ==
  a # NoAnswer => /\ a.part = part /\ Where[a.query] = where
                  /\ part = "l" => (a.query \in Named <=> versions)
                  /\ ~carried => a.version >= dropAt

RightFor(a, part, q) == Right(a, part, Where[q], q \in Named)

CacheRight ==
  \A k \in Key : cache[k] # Absent => Right(cache[k], k.prefix, k.sql.where, k.sql.versions)
ResRight   == \A h \in Handlers, p \in Parts : RightFor(res[h][p], p, query[h])
IdleEmpty  == \A h \in Handlers : phase[h] = "idle" => res[h] = NoResult

RightInv == CacheRight /\ ResRight /\ IdleEmpty

LEMMA RightInit == Init => RightInv
  BY DEF Init, RightInv, CacheRight, ResRight, IdleEmpty, RightFor, Right, NoResult

\* A right answer that a handler gets keeps everything right.
LEMMA GotRight ==
  ASSUME TypeInv, RightInv, NEW h \in Handlers, NEW answer, Got(h, answer),
         RightFor(answer, at[h], query[h])
  PROVE  RightInv'
<1>0. /\ phase \in [Handlers -> {"idle", "get", "add"}] /\ at[h] \in Parts
      /\ res \in [Handlers -> [Parts -> Answer]]
  BY DEF TypeInv, Typed
<1>1. UNCHANGED <<cache, carried, dropAt, query>>
  BY DEF Got, cacheVars
<1>2. res' = [res EXCEPT ![h][at[h]] = answer]
  BY DEF Got
<1>3. CacheRight'
  BY <1>1 DEF RightInv, CacheRight, Right
<1>4. ResRight'
  BY <1>0, <1>1, <1>2 DEF RightInv, ResRight, RightFor, Right
<1>5. IdleEmpty'
  <2>1. phase'[h] # "idle" /\ \A g \in Handlers \ {h} : phase'[g] = phase[g]
    BY <1>0 DEF Got
  <2>2. QED
    BY <1>0, <1>2, <2>1 DEF RightInv, IdleEmpty
<1>6. QED
  BY <1>3, <1>4, <1>5 DEF RightInv

LEMMA RightStep == TypeInv /\ RightInv /\ [Next]_vars => RightInv'
<1> SUFFICES ASSUME TypeInv, RightInv, [Next]_vars PROVE RightInv'
  OBVIOUS
<1>0. /\ cache \in [Key -> Answer \cup {Absent}]
      /\ phase \in [Handlers -> {"idle", "get", "add"}]
      /\ at \in [Handlers -> Parts] /\ query \in [Handlers -> Queries]
      /\ res \in [Handlers -> [Parts -> Answer]]
      /\ version \in Nat /\ dropAt \in 0 .. version
  BY DEF TypeInv, Typed, Counted
<1>1. ASSUME NEW h \in Handlers, NEW q \in Queries, Request(h, q) PROVE RightInv'
  BY <1>0, <1>1 DEF Request, RightInv, CacheRight, ResRight, IdleEmpty, RightFor, Right,
                    NoResult, cacheVars
<1>2. ASSUME NEW h \in Handlers, Hit(h) PROVE RightInv'
  <2>1. GetKey(at[h], query[h]) \in Key
    BY <1>0, KeyType
  <2> DEFINE key == GetKey(at[h], query[h])
  <2>2. key.prefix = at[h] /\ key.sql.where = Where[query[h]]
        /\ key.sql.versions = (at[h] = "l" /\ query[h] \in Named)
    BY DEF GetKey, Sql
  <2>3. Right(Cached(h), key.prefix, key.sql.where, key.sql.versions)
    BY <1>2, <2>1 DEF Hit, Cached, RightInv, CacheRight
  <2> HIDE DEF key
  <2>4. RightFor(Cached(h), at[h], query[h])
    BY <2>2, <2>3 DEF RightFor, Right
  <2>5. QED
    BY <1>2, <2>4, GotRight DEF Hit
<1>3. ASSUME NEW h \in Handlers, Miss(h) PROVE RightInv'
  <2>1. RightFor([part |-> at[h], query |-> query[h], version |-> version], at[h], query[h])
    BY <1>0 DEF RightFor, Right
  <2>2. QED
    BY <1>3, <2>1, GotRight DEF Miss
<1>5. ASSUME NEW h \in Handlers, Add(h) PROVE RightInv'
  <2> DEFINE key == StoreKey(at[h], query[h])
  <2>1. /\ key \in Key /\ key.prefix = at[h] /\ key.sql.where = Where[query[h]]
        /\ at[h] = "l" => key.sql.versions = (query[h] \in Named)
    BY <1>0, KeyType DEF StoreKey, Sql
  <2>2. Right(res[h][at[h]], at[h], Where[query[h]], query[h] \in Named)
    BY <1>0 DEF RightInv, ResRight, RightFor
  <2>3. cache' = [cache EXCEPT ![key] = res[h][at[h]]] /\ UNCHANGED <<carried, dropAt>>
    BY <1>5 DEF Add
  <2>4. CacheRight'
    <3> HIDE DEF key
    <3> QED
      BY <1>0, <2>1, <2>2, <2>3 DEF RightInv, CacheRight, Right
  <2>5. ResRight' /\ IdleEmpty'
    <3>1. CASE at[h] = Last(AddOrder)
      BY <1>0, <1>5, <2>3, <3>1 DEF Add, RightInv, ResRight, IdleEmpty, RightFor, Right, NoResult
    <3>2. CASE at[h] # Last(AddOrder)
      BY <1>5, <2>3, <3>2 DEF Add, RightInv, ResRight, IdleEmpty, RightFor, Right
    <3>3. QED
      BY <3>1, <3>2
  <2>6. QED
    BY <2>4, <2>5 DEF RightInv
<1>6. CASE DropCache
  <2>1. CacheRight' /\ IdleEmpty'
    BY <1>6 DEF DropCache, RightInv, CacheRight, IdleEmpty
  <2>2. UNCHANGED <<res, query>>
    BY <1>6 DEF DropCache
  <2>3. carried' = UnderWay
    BY <1>6 DEF DropCache
  <2>4. ResRight'
    <3>1. CASE UnderWay
      BY <2>2, <2>3, <3>1 DEF RightInv, ResRight, RightFor, Right
    <3>2. CASE ~UnderWay
      BY <2>2, <3>2 DEF UnderWay, RightInv, ResRight, IdleEmpty, RightFor, Right, NoResult
    <3>3. QED
      BY <3>1, <3>2
  <2>5. QED
    BY <2>1, <2>4 DEF RightInv
<1>7. ASSUME NEW k \in Key, Evict(k) PROVE RightInv'
  BY <1>0, <1>7 DEF Evict, RightInv, CacheRight, ResRight, IdleEmpty, RightFor, Right
<1>8. CASE Ingested \/ UNCHANGED vars
  BY <1>8 DEF Ingested, vars, cacheVars, RightInv, CacheRight, ResRight, IdleEmpty,
                 RightFor, Right
<1>9. QED
  BY <1>1, <1>2, <1>3, <1>5, <1>6, <1>7, <1>8 DEF Next, Handler

THEOREM RightAlways == Spec => []RightInv
  BY RightInit, RightStep, TypeAlways, PTL DEF Spec

\* No interleaving of requests, evictions and drops shows a dashboard what came of a
\* query for another part or with another text than its own.
THEOREM AlwaysOwnAnswers == Spec => []OwnAnswers
<1>1. RightInv => OwnAnswers
  BY DEF RightInv, ResRight, RightFor, Right, OwnAnswers, Sql
<1>2. QED
  BY <1>1, RightAlways, PTL

\* Only a request that a drop fell into puts an older answer into the cache.
THEOREM NeverStaleUnlessCarried == Spec => []NoStaleUnlessCarried
<1>1. RightInv => NoStaleUnlessCarried
  BY DEF RightInv, CacheRight, Right, NoStaleUnlessCarried
<1>2. QED
  BY <1>1, RightAlways, PTL

-----------------------------------------------------------------------------
(* The versions.                                                           *)

\* The filters with one name whose text is not mistaken for that of others.
Asking == {q \in Named : Unmistakable(q)}

\* What has the text of one of them is one of them.
LEMMA AskingByText ==
  ASSUME NEW q \in Asking, NEW r \in Queries, Where[r] = Where[q]
  PROVE  r \in Asking
<1>1. r \in Named
  BY DEF Asking, Unmistakable
<1>2. Unmistakable(r)
  BY DEF Asking, Unmistakable
<1>3. QED
  BY <1>1, <1>2 DEF Asking

\* No nil is under the keys of the versions that these ask for, and whoever asks has
\* got something else.
VersionsInv ==
  /\ \A h \in Handlers : phase[h] = "add" /\ query[h] \in Asking => res[h]["v"] # NoAnswer
  /\ \A q \in Asking : cache[GetKey("v", q)] # NoAnswer

\* The versions come last where they are asked for.
LEMMA VersionsLast ==
  ASSUME NEW q \in Named
  PROVE  Last(GetOrder(q)) = "v"
<1> DEFINE s == Plain \o <<"co">>
<1>1. s \in Seq(Parts)
  <2>1. Plain \in Seq(Parts) /\ <<"co">> \in Seq(Parts)
    BY DashboardAssumption DEF DashboardAssumption, Parts
  <2>2. QED
    BY <2>1
<1>2. GetOrder(q) = s \o <<"v">>
  BY DEF GetOrder
<1> HIDE DEF s
<1>3. Len(s \o <<"v">>) = Len(s) + 1 /\ (s \o <<"v">>)[Len(s) + 1] = "v"
  BY <1>1
<1>4. QED
  BY <1>2, <1>3 DEF Last

\* An answer that is one for the versions keeps the invariant.
LEMMA GotVersions ==
  ASSUME TypeInv, VersionsInv, NEW h \in Handlers, NEW answer, Got(h, answer),
         at[h] = "v" /\ query[h] \in Asking => answer # NoAnswer
  PROVE  VersionsInv'
<1>0. /\ phase \in [Handlers -> {"idle", "get", "add"}] /\ at[h] \in Parts /\ "v" \in Parts
      /\ res \in [Handlers -> [Parts -> Answer]]
  BY DEF TypeInv, Typed, Parts
<1>1. /\ UNCHANGED <<cache, query>> /\ res' = [res EXCEPT ![h][at[h]] = answer]
      /\ phase[h] = "get" /\ \A g \in Handlers \ {h} : phase'[g] = phase[g]
  BY <1>0 DEF Got, cacheVars
<1>2. \A g \in Handlers \ {h} : res'[g] = res[g]
  BY <1>0, <1>1
<1>3. ASSUME phase'[h] = "add", query[h] \in Asking PROVE res'[h]["v"] # NoAnswer
  <2>1. at[h] = "v"
    BY <1>0, <1>1, <1>3, VersionsLast DEF Got, Asking
  <2>2. res'[h]["v"] = answer
    BY <1>0, <1>1, <2>1
  <2>3. QED
    BY <1>3, <2>1, <2>2
<1>4. QED
  BY <1>1, <1>2, <1>3 DEF VersionsInv

LEMMA VersionsStep == TypeInv /\ VersionsInv /\ [Next]_vars => VersionsInv'
<1> SUFFICES ASSUME TypeInv, VersionsInv, [Next]_vars PROVE VersionsInv'
  OBVIOUS
<1>0. /\ cache \in [Key -> Answer \cup {Absent}]
      /\ phase \in [Handlers -> {"idle", "get", "add"}]
      /\ at \in [Handlers -> Parts] /\ query \in [Handlers -> Queries]
      /\ res \in [Handlers -> [Parts -> Answer]]
      /\ \A q \in Asking : q \in Queries /\ GetKey("v", q) \in Key
  BY DashboardAssumption, KeyType DEF TypeInv, Typed, Parts, Asking, DashboardAssumption
<1>1. ASSUME NEW h \in Handlers, NEW q \in Queries, Request(h, q) PROVE VersionsInv'
  BY <1>0, <1>1 DEF Request, VersionsInv, cacheVars
<1>2. ASSUME NEW h \in Handlers, Hit(h) PROVE VersionsInv'
  BY <1>2, GotVersions DEF Hit, Cached, VersionsInv
<1>3. ASSUME NEW h \in Handlers, Miss(h) PROVE VersionsInv'
  <2> DEFINE answer == [part |-> at[h], query |-> query[h], version |-> version]
  <2>1. answer # NoAnswer
    <3>1. version \in 0 .. MaxEvents
      BY DashboardAssumption DEF TypeInv, Counted, DashboardAssumption
    <3>2. answer \in Queried
      BY <1>0, <3>1 DEF Queried
    <3>3. QED
      BY <3>2, NoAnswerAssumption DEF NoAnswerAssumption
  <2> HIDE DEF answer
  <2>2. Got(h, answer)
    BY <1>3 DEF Miss, answer
  <2>3. QED
    BY <2>1, <2>2, GotVersions
<1>5. ASSUME NEW h \in Handlers, Add(h) PROVE VersionsInv'
  <2> DEFINE key == StoreKey(at[h], query[h])
  <2>1. /\ cache' = [cache EXCEPT ![key] = res[h][at[h]]] /\ phase[h] = "add"
    BY <1>5 DEF Add
  <2>2. ASSUME NEW q \in Asking PROVE cache'[GetKey("v", q)] # NoAnswer
    <3>1. CASE key = GetKey("v", q)
      <4>1. at[h] = "v" /\ Where[query[h]] = Where[q]
        BY <3>1 DEF StoreKey, GetKey, Sql
      <4>2. cache'[GetKey("v", q)] = res[h]["v"]
        BY <1>0, <2>1, <3>1, <4>1
      <4>3. query[h] \in Asking
        BY <1>0, <4>1, AskingByText
      <4>4. QED
        BY <2>1, <4>2, <4>3 DEF VersionsInv
    <3>2. CASE key # GetKey("v", q)
      <4>1. cache'[GetKey("v", q)] = cache[GetKey("v", q)]
        BY <1>0, <2>1, <3>2
      <4>2. QED
        BY <2>2, <4>1 DEF VersionsInv
    <3>3. QED
      BY <3>1, <3>2
  <2>3. ASSUME NEW g \in Handlers, phase'[g] = "add", query'[g] \in Asking
        PROVE  res'[g]["v"] # NoAnswer
    <3>1. CASE at[h] = Last(AddOrder)
      BY <1>0, <1>5, <2>3, <3>1 DEF Add, VersionsInv
    <3>2. CASE at[h] # Last(AddOrder)
      BY <1>5, <2>3, <3>2 DEF Add, VersionsInv
    <3>3. QED
      BY <3>1, <3>2
  <2>4. QED
    BY <2>1, <2>2, <2>3 DEF VersionsInv
<1>6. CASE DropCache
  <2>1. \A q \in Asking : cache'[GetKey("v", q)] = Absent
    BY <1>0, <1>6 DEF DropCache
  <2>2. UNCHANGED <<phase, query, res>>
    BY <1>6 DEF DropCache
  <2>3. QED
    BY <2>1, <2>2, NoAnswerAssumption DEF VersionsInv, NoAnswerAssumption
<1>7. ASSUME NEW k \in Key, Evict(k) PROVE VersionsInv'
  BY <1>0, <1>7, NoAnswerAssumption DEF Evict, VersionsInv, NoAnswerAssumption
<1>8. CASE Ingested \/ UNCHANGED vars
  BY <1>8 DEF Ingested, vars, cacheVars, VersionsInv
<1>9. QED
  BY <1>1, <1>2, <1>3, <1>5, <1>6, <1>7, <1>8 DEF Next, Handler

\* The nil of versions that were not asked for, which every request stores, is
\* never shown to a request that asks for them, unless the one that stored it has
\* the same text.
THEOREM VersionsAlwaysAnswered == Spec => []VersionsAnswered
<1>1. Init => VersionsInv
  <2> SUFFICES ASSUME Init PROVE VersionsInv
    OBVIOUS
  <2>1. \A q \in Asking : GetKey("v", q) \in Key
    BY DashboardAssumption, KeyType DEF Parts, Asking, DashboardAssumption
  <2>2. QED
    BY <2>1, NoAnswerAssumption DEF Init, VersionsInv, NoAnswerAssumption
<1>2. VersionsInv => VersionsAnswered
  BY DEF VersionsInv, VersionsAnswered, Asking
<1>3. QED
  BY <1>1, <1>2, VersionsStep, TypeAlways, PTL DEF Spec
=============================================================================
