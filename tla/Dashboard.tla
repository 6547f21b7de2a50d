------------------------------ MODULE Dashboard ------------------------------
(***************************************************************************)
(* The dashboard handlers and their cache (api/api/api.go): concurrent     *)
(* calls of handleDashboard, each a sequence of cachedOrQuery calls and a  *)
(* storeCache, and dropCacheLoop, which swaps the cache.  The answer to a  *)
(* query is the version of the database it was computed from; filters stay *)
(* abstract (Filters has what addFilterArgs does with them), but for the   *)
(* text that toQuery makes of each, which two of them may have in common.  *)
(***************************************************************************)
EXTENDS Integers, FiniteSets, Sequences

CONSTANTS Handlers,   \* concurrent requests
          Queries,    \* filters a request can carry
          Named,      \* those with exactly one name in their own text
          Where,      \* the text of the WHERE of each, its values pasted in
          Plain,      \* the parts that every request gets, before the countries:
                      \* clients, languages, systems, all got and stored alike
          NoAnswer,   \* nil, for a part that was not asked for
          Absent,     \* no cache entry
          MaxEvents   \* bound on all that disturbs the requests

ASSUME DashboardAssumption ==
  /\ Queries # {} /\ Named \subseteq Queries /\ DOMAIN Where = Queries
  /\ Plain \in Seq(STRING) /\ Plain # <<>>
  /\ MaxEvents \in Nat

VARIABLES
  version, \* the version of the nodes table
  cache,   \* a.cache: the answer under each key
  dropAt,  \* the version of the database at the last drop
  carried, \* the last drop fell into a request, whose answers may outlive it
  events,  \* new versions, drops and evictions so far
  phase,   \* where a handler is: "idle", "get" or "add"
  at,      \* the part it is about to get, or to add to the cache
  query,   \* its filter
  res      \* the parts of its result

cacheVars == <<cache, dropAt, carried>>
vars      == <<version, cacheVars, events, phase, at, query, res>>

\* The parts of a result; "co" are the countries, "v" the versions.
Parts == {Plain[i] : i \in DOMAIN Plain} \cup {"co", "v"}

\* The text of the query for a part.  With one name in the filter, the query for
\* the languages asks for their versions too.
Sql(part, q) ==
  [part |-> part, where |-> Where[q], versions |-> part = "l" /\ q \in Named]

SqlTexts == [part : Parts, where : {Where[q] : q \in Queries}, versions : BOOLEAN]

\* A key is a prefix and the text of a query.
Key == [prefix : Parts, sql : SqlTexts]

\* What came of a query: the answer, or, if the query failed or its rows ended early
\* (only rows.Err would tell), nil or a part of it.  Nobody tells them apart.
Queried == [part : Parts, query : Queries, version : 0 .. MaxEvents]

Answer == Queried \cup {NoAnswer}

ASSUME NoAnswerAssumption == NoAnswer # Absent /\ NoAnswer \notin Queried

\* result{}, and the locals of a handler before a request and after it.
NoResult == [p \in Parts |-> NoAnswer]
NoQuery  == CHOOSE q \in Queries : TRUE

\* A variant whose keys leave the filter out.
PrefixOnly(part, q) == [prefix |-> part, sql |-> Sql(part, NoQuery)]

\* The key that cachedOrQuery asks for.
GetKey(part, q) == [prefix |-> part, sql |-> Sql(part, q)]

\* The key that storeCache stores a part under: the countries go under the
\* query for the versions.
StoreKey(part, q) == [prefix |-> part, sql |-> Sql(IF part = "co" THEN "v" ELSE part, q)]

Init ==
  /\ version = 0
  /\ cache = [k \in Key |-> Absent]
  /\ dropAt = 0
  /\ carried = FALSE
  /\ events = 0
  /\ phase = [h \in Handlers |-> "idle"]
  /\ at = [h \in Handlers |-> Plain[1]]
  /\ query = [h \in Handlers |-> NoQuery]
  /\ res = [h \in Handlers |-> NoResult]

-----------------------------------------------------------------------------
(* handleDashboard.                                                        *)

Request(h, q) ==
  /\ phase[h] = "idle"
  /\ phase' = [phase EXCEPT ![h] = "get"]
  /\ at' = [at EXCEPT ![h] = Plain[1]]
  /\ query' = [query EXCEPT ![h] = q]
  /\ res' = [res EXCEPT ![h] = NoResult]
  /\ UNCHANGED <<version, cacheVars, events>>

\* A variant that never gets the versions.
NoVersions(q) == Plain \o <<"co">>

\* The parts in the order that handleDashboard gets them, the versions only
\* for a filter with one name, and in the order that storeCache adds them.
GetOrder(q) ==
  Plain \o <<"co">> \o (IF q \in Named THEN <<"v">> ELSE <<>>)
AddOrder == Plain \o <<"v", "co">>

Last(s) == s[Len(s)]
Following(s, part) == s[1 + (CHOOSE i \in DOMAIN s : s[i] = part)]

\* A part has its answer; the handler goes on to the next one, or to
\* storeCache.
Got(h, answer) ==
  LET order == GetOrder(query[h]) IN
  /\ phase[h] = "get"
  /\ res' = [res EXCEPT ![h][at[h]] = answer]
  /\ IF at[h] = Last(order)
     THEN /\ phase' = [phase EXCEPT ![h] = "add"]
          /\ at' = [at EXCEPT ![h] = AddOrder[1]]
     ELSE /\ at' = [at EXCEPT ![h] = Following(order, at[h])]
          /\ UNCHANGED phase
  /\ UNCHANGED <<version, cacheVars, query>>

Cached(h) == cache[GetKey(at[h], query[h])]

\* cachedOrQuery: a hit.
Hit(h) == Cached(h) # Absent /\ Got(h, Cached(h)) /\ UNCHANGED events

\* A variant that takes the missing entry for the answer.
MissKept(h) ==
  /\ Cached(h) = Absent
  /\ Got(h, Cached(h))
  /\ UNCHANGED events

\* cachedOrQuery: a miss.  If clientQuery fails, the error is printed and the handler
\* goes on with what it has.
Miss(h) ==
  /\ Cached(h) = Absent
  /\ Got(h, [part |-> at[h], query |-> query[h], version |-> version])
  /\ UNCHANGED events

\* storeCache adds every part, also one that came from the cache, one that was
\* not asked for and one whose query failed; after the last one the result is
\* sent.  a.cache is read anew for each: a drop may come in between.
Add(h) ==
  /\ phase[h] = "add"
  /\ cache' = [cache EXCEPT ![StoreKey(at[h], query[h])] = res[h][at[h]]]
  /\ IF at[h] = Last(AddOrder)
     THEN /\ phase' = [phase EXCEPT ![h] = "idle"]
          /\ at' = [at EXCEPT ![h] = Plain[1]]
          /\ query' = [query EXCEPT ![h] = NoQuery]
          /\ res' = [res EXCEPT ![h] = NoResult]
     ELSE /\ at' = [at EXCEPT ![h] = Following(AddOrder, at[h])]
          /\ UNCHANGED <<phase, query, res>>
  /\ UNCHANGED <<version, dropAt, carried, events>>

-----------------------------------------------------------------------------
(* The others.                                                             *)

UnderWay == \E h \in Handlers : phase[h] # "idle"

\* One more of what disturbs the requests.
Disturbed == events < MaxEvents /\ events' = events + 1

\* A variant that goes on with the old cache.
DropNothing ==
  /\ Disturbed
  /\ dropAt' = version
  /\ UNCHANGED <<version, cache, carried, phase, at, query, res>>

\* dropCacheLoop: a.cache = c.
DropCache ==
  /\ Disturbed
  /\ cache' = [k \in Key |-> Absent]
  /\ dropAt' = version
  /\ carried' = UnderWay
  /\ UNCHANGED <<version, phase, at, query, res>>

\* The LRU cache is full: any entry may go.
Evict(k) ==
  /\ Disturbed
  /\ cache[k] # Absent
  /\ cache' = [cache EXCEPT ![k] = Absent]
  /\ UNCHANGED <<version, dropAt, carried, phase, at, query, res>>

\* The daemons of the API program change the nodes table (Ingest).
Ingested ==
  /\ Disturbed
  /\ version' = version + 1
  /\ UNCHANGED <<cacheVars, phase, at, query, res>>

Handler(h) ==
  \/ \E q \in Queries : Request(h, q)
  \/ Hit(h) \/ Miss(h) \/ Add(h)

Next ==
  \/ \E h \in Handlers : Handler(h)
  \/ DropCache
  \/ \E k \in Key : Evict(k)
  \/ Ingested

Spec == Init /\ [][Next]_vars

-----------------------------------------------------------------------------
(* Properties.                                                             *)

\* Types, of api.go's Api (23-32) and of what handleDashboard has at hand.
TypeOK ==
  /\ version \in 0 .. MaxEvents
  /\ cache \in [Key -> Answer \cup {Absent}]
  /\ dropAt \in 0 .. MaxEvents /\ carried \in BOOLEAN
  /\ events \in 0 .. MaxEvents
  /\ phase \in [Handlers -> {"idle", "get", "add"}]
  /\ at \in [Handlers -> Parts]
  /\ query \in [Handlers -> Queries]
  /\ res \in [Handlers -> [Parts -> Answer]]

\* cachedOrQuery and storeCache share their keys: what a dashboard shows in a part
\* is what came of the query for that part with its own text, whatever other
\* requests store meanwhile.  (Filters with the same text get each other's.)
OwnAnswers ==
  \A h \in Handlers, p \in Parts :
    res[h][p] # NoAnswer => Sql(res[h][p].part, res[h][p].query) = Sql(p, query[h])

\* No filter with the same text has another number of names in it.
Unmistakable(q) == \A r \in Queries : Where[r] = Where[q] => (r \in Named <=> q \in Named)

\* storeCache adds the nil of versions that were not asked for: a dashboard for one
\* name never shows it, but what came of a query for the versions, unless a filter
\* with the same text, but not one name, can have left the nil under its key.
VersionsAnswered ==
  \A h \in Handlers :
    phase[h] = "add" /\ query[h] \in Named /\ Unmistakable(query[h])
      => res[h]["v"] # NoAnswer

\* dropCacheLoop, "Drop the cache every 2 minutes": what came of a query before the
\* last drop, also of one that failed, is served only if that drop fell into a
\* request, which may have taken it before the drop and stored it after it.
NoStaleUnlessCarried ==
  ~carried =>
    \A k \in Key : cache[k] \notin {Absent, NoAnswer} => cache[k].version >= dropAt
=============================================================================
