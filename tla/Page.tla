-------------------------------- MODULE Page --------------------------------
(***************************************************************************)
(* The page (frontend/src/pages/Home.tsx) with the drawer for its filters  *)
(* (organisms/Filtering.tsx).  Groups of conditions are arrays that are    *)
(* changed in place and that the page, the drawer and the known nodes of   *)
(* config.ts may share: heap has the arrays, and filters and edit refer to *)
(* them.  React runs the effects of a change before the next event, so     *)
(* that a new URL, the filters read from it and the request for their data *)
(* are one step; answers come in any order.  Filters has the functions on  *)
(* conditions, and what the API makes of a request.                        *)
(***************************************************************************)
EXTENDS Filters, FiniteSets

CONSTANTS Ops,       \* operators that the user chooses
          Typed,     \* values that the user types
          Drills,    \* what a click sets: a sequence of names and values
          Known,     \* knownNodesFilter
          NoSearch,  \* a URL without ?filter=
          Links,     \* URLs that the page is opened with
          MaxGroups, \* bound on the groups in the drawer
          MaxItems,  \* bound on the conditions of a group
          MaxEdits,  \* bound on the edits in the drawer
          MaxAsked   \* bound on the requests, and on the URLs gone through

Refs == 1 .. Len(Known) + 3 * MaxGroups

ASSUME PageAssumption ==
  /\ Ops \subseteq Operators /\ Typed \subseteq Texts \ {<<>>}
  /\ Drills \subseteq Seq((Whole \ {<<>>}) \X Texts)
  /\ MaxGroups \in Nat /\ MaxItems \in Nat /\ MaxEdits \in Nat
  /\ MaxAsked \in Nat \ {0}
  /\ Known \in Seq(Seq(Condition)) /\ FilterCount(Known) # 0 /\ Len(Known) <= MaxGroups
  /\ \A u \in Links \ {NoSearch} : u \in Seq(Seq(Texts)) /\ Len(u) <= MaxGroups

VARIABLES
  heap,    \* the array that each reference stands for
  url,     \* location.search
  past,    \* the URLs before it
  filters, \* filters of Home
  edit,    \* editFilters of Filtering
  tags,    \* uniqueFilters of Filtering
  drawer,  \* the drawer is open
  edits,   \* number of edits in it so far
  asked,   \* number of requests so far
  pending, \* the requests under way: their number and URL
  data     \* the request whose answer is shown

vars == <<heap, url, past, filters, edit, tags, drawer, edits,
          asked, pending, data>>

NoData == [nr |-> 0, of |-> <<>>]

KnownRefs == [i \in DOMAIN Known |-> i]

\* The groups behind references, and the heap with groups behind them.
At(h, refs) == [i \in DOMAIN refs |-> h[refs[i]]]

Put(h, refs, groups) ==
  [r \in Refs |-> IF r \in ToSet(refs)
                  THEN groups[CHOOSE i \in DOMAIN refs : refs[i] = r] ELSE h[r]]

\* References that nothing has; it does not matter which.
Free(n) ==
  CHOOSE refs \in [1 .. n -> Refs \ ToSet(KnownRefs \o filters \o edit)] :
    IsInjective(refs)

\* What nobody refers to any more is collected.
Store(h) ==
  heap' = [r \in Refs |-> IF r \in ToSet(KnownRefs \o filters' \o edit')
                          THEN h[r] ELSE <<>>]

\* The first effect of Home: the filters of a URL, or else the known nodes.
FallsBack(u) ==
  \/ u = NoSearch
  \/ ~Readable(u)
  \/ FilterCount(FromUrl(u)) = 0

Wanted(u) == IF FallsBack(u) THEN Known ELSE FromUrl(u)

\* A variant without the deep clone.
RefsShared(u) ==
  IF FallsBack(u) THEN KnownRefs
  ELSE [i \in DOMAIN Wanted(u) |-> Len(Known) + i]

\* They are new arrays: JSON.parse, or the deep clone of the known nodes.
RefsOf(u) == [i \in DOMAIN Wanted(u) |-> Len(Known) + i]

Init ==
  /\ url \in Links
  /\ past = <<>>
  /\ filters = RefsOf(url) /\ edit = RefsOf(url)
  /\ heap = Put([r \in Refs |-> IF r \in DOMAIN Known THEN Known[r] ELSE <<>>],
                RefsOf(url), Wanted(url))
  /\ tags = Tags(Wanted(url))
  /\ drawer = FALSE /\ edits = 0
  /\ asked = 1
  /\ pending = <<[nr |-> 1, of |-> ToUrl(Wanted(url))]>>
  /\ data = NoData

-----------------------------------------------------------------------------
(* Navigation.                                                             *)

\* A variant that keeps filters which already say what the URL says.
ShowIfOther(u, h, groups) ==
  /\ url' = u
  /\ IF u = url \/ At(h, filters) = Wanted(u)
     THEN /\ edit' = groups
          /\ UNCHANGED <<filters, tags, asked, pending>>
          /\ Store(h)
     ELSE /\ asked < MaxAsked
          /\ filters' = RefsOf(u) /\ edit' = RefsOf(u)
          /\ Store(Put(h, RefsOf(u), Wanted(u)))
          /\ tags' = Tags(Wanted(u))
          /\ asked' = asked + 1
          /\ pending' = Append(pending, [nr |-> asked', of |-> ToUrl(Wanted(u))])

\* The effects of a URL: the effect of Home on location.search sets the filters,
\* the one on filters fetches, the one of Filtering takes the filters over for
\* editing.  The URL that was there before has none: the drawer keeps groups.
Show(u, h, groups) ==
  /\ url' = u
  /\ IF u = url
     THEN /\ edit' = groups
          /\ UNCHANGED <<filters, tags, asked, pending>>
          /\ Store(h)
     ELSE /\ asked < MaxAsked
          /\ filters' = RefsOf(u) /\ edit' = RefsOf(u)
          /\ Store(Put(h, RefsOf(u), Wanted(u)))
          /\ tags' = Tags(Wanted(u))
          /\ asked' = asked + 1
          /\ pending' = Append(pending, [nr |-> asked', of |-> ToUrl(Wanted(u))])

\* onFiltersChanged: history.push
Push(h, refs, groups) ==
  /\ Len(past) < MaxAsked
  /\ Show(ToUrl(At(h, refs)), h, groups)
  /\ past' = Append(past, url)

Back ==
  /\ past # <<>>
  /\ past' = Front(past)
  /\ Show(Last(past), heap, edit)
  /\ UNCHANGED <<drawer, edits, data>>

\* The three onClicked: drilldownFilter changes the groups of filters in place.
\* "Other" changes nothing.
Drill(settings) ==
  LET h == Put(heap, filters, [i \in DOMAIN filters |-> Drilled(heap[filters[i]], settings)])
      kept == Kept(At(h, filters))
  IN
  /\ ~drawer
  /\ data # NoData
  /\ \A i \in DOMAIN filters : Len(h[filters[i]]) <= MaxItems
  /\ Push(h, [i \in DOMAIN kept |-> filters[kept[i]]], edit)
  /\ UNCHANGED <<drawer, edits, data>>

\* removeUniqueFilter: the tag goes from all groups, which may leave some empty.
RemoveTag(tag) ==
  LET without == [i \in DOMAIN edit |->
                    Only(heap[edit[i]],
                         {c \in ToSet(heap[edit[i]]) :
                            c = Undefined \/ ~TagTakes(tag, c.name)})]
      refs == Free(Len(edit))
      h == Put(heap, refs, without)
  IN
  /\ ~drawer
  /\ data # NoData
  /\ tag \in tags
  /\ Push(h, refs, refs)
  /\ UNCHANGED <<drawer, edits, data>>

-----------------------------------------------------------------------------
(* The drawer.                                                             *)

Open ==
  /\ ~drawer
  /\ data # NoData
  /\ drawer' = TRUE
  /\ UNCHANGED <<heap, url, past, filters, edit, tags, edits, asked, pending, data>>

Edits(refs, h) ==
  /\ drawer
  /\ edits < MaxEdits
  /\ edits' = edits + 1
  /\ edit' = refs
  /\ UNCHANGED <<url, past, filters, tags, drawer, asked, pending, data>>
  /\ Store(h)

\* addFilter, with and without a group.
AddGroup ==
  /\ Len(edit) < MaxGroups
  /\ Edits(edit \o Free(1), Put(heap, Free(1), <<<<Undefined>>>>))

\* A variant that does not copy the group.
AddInPlace(i) ==
  /\ Len(heap[edit[i]]) < MaxItems
  /\ Edits(edit, [heap EXCEPT ![edit[i]] = Append(@, Undefined)])

AddCondition(i) ==
  /\ Len(heap[edit[i]]) < MaxItems
  /\ Edits([edit EXCEPT ![i] = Free(1)[1]],
           Put(heap, Free(1), <<Append(heap[edit[i]], Undefined)>>))

\* removeFilter, with and without a condition.
RemoveGroup(i) == Edits(RemoveAt(edit, i), heap)

RemoveCondition(i, j) ==
  IF Len(heap[edit[i]]) = 1 THEN RemoveGroup(i)
  ELSE Edits([edit EXCEPT ![i] = Free(1)[1]],
             Put(heap, Free(1), <<RemoveAt(heap[edit[i]], j)>>))

\* saveFilter changes the group in place.
SaveCondition(i, j, c) == Edits(edit, [heap EXCEPT ![edit[i]][j] = c])

\* onCancel, also when the drawer is closed in another way.
Cancel ==
  /\ drawer
  /\ drawer' = FALSE
  /\ edit' = filters
  /\ UNCHANGED <<url, past, filters, tags, edits, asked, pending, data>>
  /\ Store(heap)

\* A variant that leaves conditions in that were never saved.
AppliedRaw(groups) ==
  LET full == Only(groups, ToSet(groups) \ {<<>>})
  IN  [i \in DOMAIN Kept(full) |-> full[Kept(full)[i]]]

\* onApply: the conditions that were saved, without empty and repeated groups.
Applied(groups) ==
  LET defined == [i \in DOMAIN groups |-> Defined(groups[i])]
      full == Only(defined, ToSet(defined) \ {<<>>})
  IN  [i \in DOMAIN Kept(full) |-> full[Kept(full)[i]]]

Apply ==
  LET groups == Applied(At(heap, edit))
      refs == Free(Len(groups))
  IN
  /\ drawer
  /\ drawer' = FALSE
  /\ Push(Put(heap, refs, groups), refs, refs)
  /\ UNCHANGED <<edits, data>>

ClearAll ==
  /\ drawer
  /\ drawer' = FALSE
  /\ Push(heap, <<>>, <<>>)
  /\ UNCHANGED <<edits, data>>

-----------------------------------------------------------------------------
(* The answers.                                                            *)

\* setData: whatever comes is shown.
Answer(k) ==
  /\ data' = pending[k]
  /\ pending' = RemoveAt(pending, k)
  /\ UNCHANGED <<heap, url, past, filters, edit, tags, drawer, edits, asked>>

\* fetch fails, or the answer is no JSON.
FetchFails(k) ==
  /\ pending' = RemoveAt(pending, k)
  /\ UNCHANGED <<heap, url, past, filters, edit, tags, drawer, edits, asked, data>>

\* What the user can save in the place of a condition: a name or an operator that
\* is not chosen stays (but a condition that a link has without a name).
Conditions(old) ==
  [name : Names \cup (IF old = Undefined THEN {} ELSE {old.name} \ {<<>>}), value : Typed,
   op : Ops \cup (IF old = Undefined THEN {} ELSE {old.op})]

Navigate ==
  \/ Back
  \/ \E settings \in Drills : Drill(settings)
  \/ \E tag \in tags : RemoveTag(tag)

Drawer ==
  \/ Open \/ Cancel \/ Apply \/ ClearAll \/ AddGroup
  \/ \E i \in DOMAIN edit :
       \/ AddCondition(i) \/ RemoveGroup(i)
       \/ \E j \in DOMAIN heap[edit[i]] :
            \/ RemoveCondition(i, j)
            \/ \E c \in Conditions(heap[edit[i]][j]) : SaveCondition(i, j, c)

Server == \E k \in DOMAIN pending : Answer(k) \/ FetchFails(k)

Next == Navigate \/ Drawer \/ Server

Spec == Init /\ [][Next]_vars

-----------------------------------------------------------------------------
(* Properties.                                                             *)

\* Types; the filters of Home hold saved conditions only.
TypeOK ==
  /\ heap \in [Refs -> Seq(Condition \cup {Undefined})]
  /\ \A i \in DOMAIN filters : Undefined \notin ToSet(heap[filters[i]])
  /\ filters \in Seq(Refs) /\ edit \in Seq(Refs)
  /\ tags \subseteq Texts
  /\ drawer \in BOOLEAN /\ edits \in 0 .. MaxEdits
  /\ asked \in 1 .. MaxAsked
  /\ Len(pending) <= asked
  /\ data.nr \in 0 .. asked

\* Home, "Deep clone since we are mutating it": the list of known nodes stays
\* what it is, whatever the drawer and the charts change in place.
KnownUntouched == At(heap, KnownRefs) = Known

\* generateQueryStringFromFilterGroups and generateFilterGroupsFromQueryString:
\* if names and values are plain text, the page never pushes a URL that it cannot
\* read, and that would show the known nodes in place of the filters applied.
\* Nothing escapes other text: with a ":" or "&" in a value, it can happen.
PushedIsReadable == past # <<>> /\ url \notin Links /\ PlainUrl(url) => Readable(url)

\* The effects on location.search and on filters: the answer to the newest
\* request is an answer for the filters in the URL, also when filters were
\* changed in place and not applied.
NewestIsOfUrl ==
  /\ data.nr = asked => data.of = ToUrl(Wanted(url))
  /\ \A k \in DOMAIN pending :
       pending[k].nr = asked => pending[k].of = ToUrl(Wanted(url))

\* addFilterArgs against the drawer's words "and" and "or": for every request on
\* names of the drawer and plain values, the API has a query that the database
\* accepts, and it counts the nodes that the page means.
Offered(u) ==
  /\ PlainUrl(u)
  /\ \A i \in DOMAIN u : \A j \in DOMAIN u[i] :
       Read(u[i][j]).name \in Names /\ Read(u[i][j]).value \in Values

CountsWhatIsMeant ==
  \A k \in DOMAIN pending :
    LET u == pending[k].of IN
    Offered(u) =>
      /\ QueryOk(u)
      /\ \A node \in Node : Selected(u, node) <=> Meant(FromUrl(u), node)
=============================================================================
