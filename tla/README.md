# node-crawler in TLA+

A verification project for the Opera node crawler: TLA+ modules for the crawler,
the API program, their databases and the page, TLC configurations that check them on small
instances, and proofs that TLAPS checks for every instance.

The repository has three programs:

- **crawler** (`src/crawler`): discovers nodes with discv4 and discv5, checks that they
  live, probes them over TCP, and writes what it found to a SQLite file, round after round;
- **API program** (`src/api`): polls that file, keeps a database of its own of parsed
  client versions, and serves counts over HTTP through a cache;
- **frontend** (`src/frontend`): a single page that asks the API for counts under filters.

They interact through data only: the crawler's database file, the API's database, and HTTP.

## 1. Inventory

| Component | State | Operations | Hard behaviour | What makes it correct |
|---|---|---|---|---|
| Node set (`nodes.go`) | a map from identifier to entry: record, score, three times, client information | check passed, check failed, probe reported, load, save | entry copied, used later | the times agree; the score counts checks |
| Crawl round (`crawl.go`) | the output set under a lock, channels `ch`, `reqCh`, `doneCh`, `closed`, the timer | `run`, `runIterator`, `updateNode`, `getClientInfoLoop` | 35 goroutines; blocking inside the critical section; close while sending; a worker's late result | no send on a closed channel; the set is finished when returned; nothing lost; the round ends; every change is one atomic check or report |
| Rounds (`crawlercmd.go`, `db.go`, `nodes.go`, `helper.go`) | the input of the next round, database, node file, a socket per crawl | `crawlNodes`, `crawlRound`, merge, `updateNodes`, `createDB`, `listen` | two crawls of the same input, on the same address; a crash between any two steps; truncated file | the file never holds what the database does not; nobody who has just answered is lost; the table changes by whole rounds; the crawler comes back |
| Handshake (`handshake.go`, `connection.go`) | the connection; the globals `_status` and `lastStatusUpdate` | `dial`, Hello, `negotiateEthProtocol`, `getStatus`, Status | globals shared by 64 workers without a lock; a node that does not answer | never nil; the TD only rises; head and fork ID belong together; a probe ends |
| Ingestion (`main.go`, `database.go`, `crawlerdb.go`) | the cursor `lastCheck`, the batch, two databases | create both tables, poll, insert, drop | clocks compared across transactions of two programs; who makes which file first; errors; restarts | no row lost; tables are there when used |
| Dashboard (`api/api.go`) | the LRU cache, one result per request | get each part, store all parts, drop the cache | concurrent requests, drop in the middle, failing queries | answers match the text they were asked with; nothing outlives the drop |
| Filters (`api/api.go`, `FilterUtils.ts`) | none | filter to URL and back, tags, drill-down, URL to SQL | keys that are not valid, empty groups, conditions not saved yet, text that the URL does not escape | the same nodes are meant on both sides |
| Names of clients (`handshake.go`, `vparser.go`) | none | split a name into columns, parse the columns | odd numbers of parts, dashes and dots | what a peer says is in the API's row |
| Page (`Home.tsx`, `Filtering.tsx`) | the URL and its history, filters, the drawer's copy of them, data, fetches in flight | navigate, click on a chart or a tag, edit, apply, cancel, fetch, show | arrays shared and changed in place; answers out of order | the page asks for what its URL says and can read every URL it makes of plain text |
| Data shaping (`DataMassager.ts`) | none | small counts into "Other", unknown counts, errors apart | two lists made of one | every node is counted once, or is known to be lost |
| Start-up, logging, ENR helpers, deployment, presentation | configuration | | | not modelled: I/O and layout |

## 2. Modules

`NodeSet` is data only and is extended by the modules that handle entries.

**`NodeSet`** One entry is `nodeJSON` with the fields the program decides on. `Passed` and
`Failed` are what `updateNode` does with the result of `RequestENR`; `Reported` is what a
worker does with the result of `getClientInfo`. Client information and the error reason are
always assigned together and are one field, `report`; names, addresses and error texts are
abstracted.

**`CrawlContract`** What a round promises: one entry changes at a time, by a whole check
(`Pass`, `Fail`) or a whole report (`Note`) applied to the entry as it is at that moment;
after `End` nothing changes. It is the abstract specification of a crawl.

**`Crawler`** One round in detail. `pc` is the run goroutine: `select` (the loop), `enr` and
`send` (inside `updateNode`, holding the lock), `closing`, `drain`, `returned`. `itPc` are
the goroutines of the input and the discovery iterator, `wPc` those of the workers. `ch` is
unbuffered, so that receiving is one step of sender and receiver; `reqCh` and `doneCh` are
sequences. A worker's critical section cannot block and is one step, taken when the run
goroutine does not hold the lock (`Locked`). `loc` is `updateNode`'s copy of the entry,
which it stores only after the network call and the send. `input` is history: the set that the
round was given, with which `NoForgottenNode` tells an entry that no check of the round has touched
from one that was accepted and not probed.

**`CrawlNodes`** The rounds around it. Both crawls are instances of `CrawlContract`, which
`Crawler` implements (see 5), so that the modules compose: `Crawler` answers for what
happens inside a crawl, `CrawlNodes` for what happens between crawls. A crash is possible
at every step; the file system keeps `dbFile`, `rows` and `file`. The transaction of
`updateNodes` is atomic; the write of the node file is a truncation and a write. `flags`, chosen
at the start, says whether there is a node file, a database and a listening address (`--nodefile`,
`--table`, `--addr`). `bound` says which of the two crawls has its socket open: with an address
they need the same one, and `ListenPanics` is the second one finding it in use. The node file may be
there before the first start, put there by the user (`Supplied`). A crawl makes a bounded number
of changes (`MaxChanges`). Time passes within a crawl (`Tick`): its length has no bound, since the timeout counts only
after the input has been gone through, and the commands of the README give it the 10 minutes of
`revalidateInterval`. A node is `Due` again once that interval is over, also in the same round, may
fail the second check, and is removed although it answered. `AnsweredIsKept` therefore speaks of
answers that are not older than the interval, and says that neither crawl nor merge loses one.
`start` is the time at which the round began. Two behaviours of a crawl are left to `Crawler`: a
report for a node that was removed, and a round that does not end.

**`NodesTable`** What the crawler's table promises its readers: it changes by whole rounds, the
rows a round writes have its time, which is later than that of any row before, so that no round
comes in several parts, and no row goes away. `CrawlNodes` is proved to implement it (`TableSpec`,
see 5), and `Ingest` has it as its crawler's table: its `CommitWrite` replaces any set of rows, so
that what holds of `Ingest` holds with the real crawler behind it, whatever the crawler crashes
between.

**`Handshake`** `getClientInfo` for workers that share `_status`. Every read or write of the
global, and every message, is a step of its own; a data race on a pointer is an interleaving
of such steps. The Status values themselves are a sequence, because a worker may hold one
that has been replaced. A peer may fail, disconnect or send something else at each message, and
it advertises any set of versions, of which `Negotiated` picks one. `head` and `fork` are the
heights of the blocks that `Head` and `ForkID` were made from, set in two steps. An update of the head
goes from the answer of the node to the second of these steps (`AtHead`). `clash` says of a worker in
it whether another one has got a header, set a head or replaced the Status meanwhile (`Disturbs`): its update may then
take the head back, as the code lets it. With its next probe a worker starts anew.

**`ClientName`** Pure operators: the name of a peer's Hello split into columns by `readHello`
(`ReadName`), and the columns parsed by `ParseVersionString`. A text is a sequence of tokens,
words, numbers and the separators; the "v" before a version, `TrimLeft`ed by the parser, is left
out. `ParseVersionNumber` reads the first three of up to four numbers; the chains of
`fallthrough` are ranges of the number of parts. The second half is the reference: what a client
is that keeps to the custom (`Customary`), how it puts its name together (`NameText`), and what
every column says that comes of it: the description (`Described`), the version with tag, build
and date (`KnowsVersion`), and the rest (`Knows`). Of a name with two labels, and of a version with
more than three pieces, the code loses one; the reference says which. `Clients` is a constant, any set of such clients. Two words never
stand next to each other in front of a language, since in a text they are one word.

**`Ingest`** The two programs from their first start. The crawler looks for its file, makes the
table if there is no file (`CrawlerStart`, `CrawlerTable`), and then writes rounds as seen from
outside (clock reading, commit). `main` does the same for the API's database (`Restart`,
`ApiTable`) and starts the polling daemon, with its two steps between read and insert, and the
drop daemon. SQLite makes a file at the first statement of any program: `cFile` and `aFile` are
"missing", "empty" (a file without a table) or "ready", and the API's first query can make the
crawler's file (`NoTable`). `ReadCut` is an answer whose end nobody checks (`rows.Err`). Both
programs read the same clock, and each reading is later than all earlier ones; a clock that is
set back is not modelled. The database stores times as text and compares text; in one fixed time
zone this is the order of time, which is what the model has. `Types` are the four kinds of
ClientType that the conditions tell apart; the error texts that a failed probe stores behave as
"" does. `seen` and `put` are history, `spoilt` too: it marks what the statement about the order
of starting exempts.

**`Dashboard`** Requests as sequences of `cachedOrQuery` steps followed by the `Add` steps of
`storeCache`. What comes of a query (`Queried`) is the version of the database it was computed from,
together with the part and the filter it answers; it stands for the nil of a failed query and for a
list cut short, too, which the code does not tell from an answer. A key is a prefix and the text that
`toQuery` makes of the query. The values of the filter are pasted into it, so that filters may have
their text in common (`Where`): `[["name:geth)  AND (os_name = linux"]]` and
`[["name:geth","os_name:linux"]]` do. Whether a filter has one name in it is counted in its own text
before it is parsed (`Named`), so that of two filters with the same text one may be asked for its
versions and the other not: `\u006eame` in JSON is a name, and is not counted. `StoreKey` keeps the
key that `storeCache` uses for the countries, which differs from the one that `cachedOrQuery` asks
for: countries are never found in the cache. `Plain` are the parts that every request gets before the
countries; the languages are asked for with their versions if there is one name. What happens
besides the requests (a drop, an eviction, a new version of the database) is counted against
`MaxEvents`. `dropAt` is the version of the database at the last drop, and `carried` says that this
drop fell into a request.

**`Filters`** Pure operators, for both ends of a dashboard request. A text is a sequence of characters
(`Chars`), or of longer pieces where nothing depends on what is in them: "version_", an operator, a
name. `Unescape` is what a piece of a URL stands for, a space for "+". A condition is a record;
`Written` joins it with ":", and `Undefined` stands for what JavaScript leaves undefined. Nothing
is escaped: `Cutters` end the parameter of the URL, and `Pieces` is what `split(":")` finds in the
unescaped text (`Split` and `Join` of `Sublists`). On the page's side: writing and reading the URL
(`ToUrl`, `CanRead`, `Readable`, `FromUrl`), counting, removing repeated groups (`Kept`, with the
hash that ignores operators and pastes names and values together), tags (`Tags`, `TagTakes`),
drill-down, and `Meant`: the nodes that the drawer describes with its words "and" and "or". On the
API's side: `Unmarshals`, `Comp`, `ValidKey`, the text of the WHERE as far as it decides whether the
database accepts it (`Text`, `QueryOk`), and `Selected`, the nodes it counts. `Rank` is the order of
the values in the database. A filter without conditions makes the API write `FROM nodes FALSE`,
where SQLite reads the lone `FALSE` as another name of the table: it counts all nodes.

`Plain` are the texts without separators, cutters and escapes. Properties that need them say so
(`PlainUrl`); other texts are in the model, and the user types them (`Typed`). Left out: quotation
marks and backslashes in a value, which end a string of the JSON; "|" in one, at which the tags
split; a "%" that begins no escape, which only the API rejects; and that what stands behind a "#" is
not in `location.search`, so that two URLs that differ there only are different ones in the model. A
piece that `split` does not find is undefined in the code and empty here; the code treats both
alike. Where two different numbers of one part of the version are common to all groups, the code's
tag shows the last one; the model has the tag without its value.

**`Sublists`** `Only`, what JavaScript's `filter` keeps of a list: `Filters`, `Page` and
`DataMassager` are built from it. The test is a set, so that lemmas about it can be cited. `Split`
is Go's `strings.Split`, from which the parsers of `ClientName` are built, and `Join` puts the
names of its reference together. All are recursive functions, about which the provers can reason.

**`Page`** `Home` and its drawer. The groups of conditions are JavaScript arrays that are changed
in place, and the page, the drawer and `knownNodesFilter` may share them: `heap` is a small heap
of such arrays, `filters` and `edit` are sequences of references into it, and `Store` frees what
nobody refers to. Conditions are values: two arrays that share a condition object after a copy
differ from two that do not only in edits that the next URL overwrites. React runs the effects of
a changed URL before the next event, so that `Show` sets the filters, hands them to the drawer and
sends the request in one step. Requests are numbered; answers come in any order or not at all.
`Back` is the browser's button. Text that is being typed is not state; of the names and values a
user can save, `Conditions` has all, for values out of `Typed`. A link is any list of lists of texts.

**`DataMassager`** Pure operators for what the page makes of a list of counts: the first `Top`
names, "Other", the unknown count, errors apart from clients (`Named`, `Others`). `null` in the
answer is the empty list, as which it is treated. `CountsOnce` says of one list that its nodes are
counted once, but for those whose error comes behind the first `Top` errors (`Beyond`), which are
lost; `MCPage` asks it of all short lists.

The `MC...` modules instantiate these for TLC. The `...Proofs` modules hold the theorems about the
module they are named after. `ListProofs` is about the operators on lists, those of `Sublists` and of
the community modules; `PageProofs` builds on it, for the page and for `Filters` and `DataMassager`,
and so does `HandshakeProofs`, for `Handshake` and `ClientName`.

Definitions introduced by "A variant" in a comment are deliberate mistakes: plausible bugs
of the code in the place of the definition that follows. No specification uses them; putting
one in the place of the real definition makes the property it is meant for fail, which shows
that the property depends on that piece of code.

## 3. Runs

Bounds are constants with `Max` in their name, or sizes of constant sets. Each module has one
configuration for what holds of it (`Crawler` has two) and one for each statement of
the repository that it contradicts.

| Configuration | Question and properties | Instance | States |
|---|---|---|---|
| `MCCrawler.cfg` | Is a round safe, and a sequence of whole checks and reports? `NoSendOnClosed`, `Quiescent`, `NoForgottenNode`, `RemovedAtZero`, `TimesOrdered`, `ContractSpec`, `TypeOK` | 2 nodes, 2 workers, queue of 2, clock 0..1, 4 inputs (empty; one good node; a good and a never probed node; a node without score that a worker put back); workers symmetric | 1,061,144 |
| `MCCrawlerBlocks.cfg` | Is the full queue the only thing that can keep a round from ending after its timeout (`EndsUnlessBlocked`)? Does the inductive invariant of the proofs hold (`Inv`)? | 1 node, 1 worker, queue of 1, clock 0..2 | 28,026 |
| `MCCrawlNodes.cfg` | Do node file, database and set agree through rounds and crashes? And may readers rely on `NodesTable`? `FileCommitted`, `AnsweredIsKept`, `ResumesAfterCrash`, `TableSpec`, `TypeOK` | 2 nodes, with and without node file, database and address, with and without a node file from before; clock 1..3, a node due again after 2, 2 changes per v4 crawl and 1 per v5 crawl, 1 crash | 3,258,400 |
| `MCHandshake.cfg` | Do workers that share `_status` stay clear of nil, create it a bounded number of times, and keep head and fork ID together? What can keep a probe from ending? Are names understood? `NeverNil`, `OneEach`, `HeadsInOrder`, `EndsUnlessAtNode`, `NamesRecognised`, `TypeOK` | 2 workers, 2 probes each, 3 advertised protocol versions, one of them too new, a node with 2 heights; 17,280 names | 719,808 |
| `MCIngest.cfg` | Does what the crawler commits arrive, and are the tables there? `ReadIsPut`, `ReadableIsPut`, `TablesThere`, `TypeOK` | 1 node, 4 client types, clock 0..5, rows dropped after 1, 1 error, 1 crash of either program | 516,768 |
| `MCDashboard.cfg` | Does every request get what was asked with its own text, and does a drop remove what is old? `OwnAnswers`, `VersionsAnswered`, `NoStaleUnlessCarried`, `TypeOK` | 2 requests at a time, symmetric, 3 filters: one by itself and two with the same text, only one of which is counted as having one name; 1 part before the countries (the languages), 2 events (drops, evictions, new versions of the database) | 5,054,383 |
| `MCPage.cfg` | Does the page ask for what its URL says, whatever is changed in place, does the API count what the page means, and do the charts count it once? `KnownUntouched`, `PushedIsReadable`, `NewestIsOfUrl`, `CountsWhatIsMeant`, `CountedOnce`, `TypeOK` | 6 URLs to start from, 3 names, 2 values of nodes, 3 typed ones (one with ":", one with "&"), at most 2 groups of 2 conditions, 2 edits, 2 requests; all lists of up to 4 of 7 names with counts 1..2, `Top` 2 | 358,157 |

What the properties exempt is in the model all the same, and each exemption is as small as we could
make it. `ReadIsPut` and `ReadableIsPut` speak of runs up to the first database error: after one the
code does not deliver (an insert that fails is only printed, with the cursor moved already). `ResumesAfterCrash` speaks of crashes that leave the files
whole, without a listening address. `TablesThere` exempts what `spoilt` marks: a read of the API
before the crawler has its table, and a program that dies while it makes one. `HeadsInOrder` exempts
the update that another worker disturbs, and no other one. `NoStaleUnlessCarried` exempts what a
drop into a request leaves, until a drop that falls into none. `VersionsAnswered` exempts a filter
whose text another filter with another number of names has. `PushedIsReadable` and
`CountsWhatIsMeant` are about URLs of plain text, the latter on names of the drawer.
`NamesRecognised` and `CountedOnce` are about operators without state; they are evaluated in the
initial state of the run that lists them.

Why the bounds are enough. In a round everything happens to one identifier at a time: one
node shows each race between `updateNode` and the workers, the second one shows that they do
not disturb each other and fills the queue; two workers are the fewest that can hold requests
for the same node, and the inputs cover the kinds of entry (none, with score, without score,
never probed). Two readings of the clock tell a recently checked node from a due one; the
third one of `MCCrawlerBlocks.cfg` lets a node become due again after the workers have
answered. A queue of one place fills with the first request, so that one worker is enough to
block it; the same configuration with two workers and one more clock value gives the same
answers in 368,043 states. What the small instances cannot say about more workers, nodes and
longer queues, the theorems of 5 say for the safety properties. Two concurrent requests
suffice for the cache, because every key belongs to one part of one text; two events let a
new version of the database and a drop, or two drops, fall between any two of their steps; the
clients and the systems go the same way as the languages, without their second form. For
the page, two groups of two conditions are the fewest that have repeated groups, common
conditions and ANDs; two edits change a group in place and then copy it, or add a condition and
save it; two requests are the fewest that can be answered out of order. For the ingestion, rows of different nodes are
independent, and the clock has room for two rounds around two polls and for a row to grow old.
Names have all the numbers of parts that the two switches on them tell apart, up to the
eighth piece of a version. Lists of four are longer by two than the two names shown, and long
enough for three errors and a client. Two rounds with a crash between any two steps show the node file and
the database of one round as the input of the next; three readings of the clock let a node become
due again within a round, or from one to the next. Two changes let a crawl check a node twice, with
another result; one is enough for the other crawl to have an entry of its own to merge; two nodes
tell a table that changes by rounds from one that changes by rows.

A round may stop, having returned or having blocked on the full queue, and a worker of
`Handshake` stops after its last probe; a page whose first request failed shows "Loading data..."
for ever. The configurations of `Crawler`, `Handshake` and `Page` switch the deadlock check off.
All others keep it.

### Where code and documentation disagree

These configurations check one statement of the repository each, and TLC finds it violated.

| Configuration | Property | Statement | What happens |
|---|---|---|---|
| `MCCrawlerFullQueue.cfg` | `TimeoutEndsRound` | `crawlercmd.go:77` "Timeout for the crawling in a round" | `crawl.go:259`: the queue is full, `updateNode` waits for a slot with the lock held, all workers wait for the lock. The round never ends. |
| `MCCrawlerDropped.cfg` | `DroppedUntilValid` | `crawl.go:80` nodes that fail "will be dropped from output during the run" | `crawl.go:215`: a worker that was probing the node puts it back. |
| `MCCrawlNodesMerge.cfg` | `LastResponseIsLatest` | `nodes.go:45` "the time of last successful contact" | `crawlercmd.go:179`: the v4 entry overwrites the v5 entry, also when only discv5 had contact. |
| `MCHandshakeTD.cfg` | `TDNeverLowered` | `handshake.go:233` "Set correct TD if received TD is higher" | `handshake.go:235`: compare and set of two workers interleave; the lower TD stays. |
| `MCIngestSkips.cfg` | `NoRowSkipped` | `README.md:56` data "will be moved ... regularly" | `main.go:66`, `db.go:22`: a round stamped before and committed after the poll is never read. |

More is visible in the definitions themselves and needs no search:

- `Reported`: a successful probe adds ten to the score, where `nodes.go:42` says that it is
  "incremented by one every time the node passes a check" (`crawl.go:214`);
- `InsertFails`: the cursor has moved before the insert, and an error of the insert is only printed
  (`main.go:69`): its rows are not read again until the crawler writes them anew;
- `ParseVersionString`: the tag of a version keeps its case, where `vparser_test.go:76` expects "rc1"
  of `besu/v21.7.0-RC1/...`; the test calls the parser with one argument, which it no longer takes,
  and does not compile (`NamesRecognised` has the tag as the code has it);
- `ReadFails`: one failed read ends the daemon, and the program goes on without it (`main.go:64`);
- `Due`: a round that is longer than `revalidateInterval` may remove a node that answered in it
  (`crawl.go:228`; the README's commands make both 10 minutes);
- `Miss`: a failed query leaves nil, which `storeCache` stores as the answer until the
  next drop (`api.go:137`), and so does a list that an error cuts short (`api.go:216`);
- `Sql`: filters with the same text share keys and answers (`api.go:153`), and if only one of them
  is counted as having one name (`api.go:172`), the other one leaves nil where it looks for versions;
- `Add`: `storeCache` stores every part anew, also one that was taken from the cache before a
  drop; an answer that is asked for around every drop is never computed again (`api.go:158`).
  `carried` marks this, and `NoStaleUnlessCarried` says that nothing else outlives a drop;
- `Written`: nothing is escaped on the way into the URL. A typed value with ":" reads as a value with an
  operator, or not at all, "&" and "#" cut the URL, "+" and "%" change the value; the page then
  shows the known nodes or other ones (`FilterUtils.ts:22`, `Filtering.tsx:70`);
- `Tags`: a condition on the tag, build or date of a version has no tag on the page, and removing the tag
  "version" removes it too (`FilterUtils.ts:135`, `Filtering.tsx:262`);
- `SaveCondition`: saving changes a group in place that `Home` may share, and `Cancel` does not
  undo it; the next click on a chart takes the edit along (`Filtering.tsx:253`);
- `Hash`, `SetValue`: groups that differ in operators only count as repeated, and a click on a
  client keeps the operator of the condition it sets, "not" included (`FilterUtils.ts:86`, `159`);
- `Answer`: a late answer to an earlier request replaces the newer one (`Home.tsx:72`);
- `ListenPanics`: with `--addr` both crawls of a round listen on the same address, and the second
  one panics (`helper.go:49`; `crawlercmd.go:86` calls it "Listening address");
- `NoTable`: when the API reads first, its query makes the crawler's file, which `crawlNodes`
  takes for a database with a table; `README.md:57` says to start the crawler first, but a read
  between the start and `createDB` still ends the daemon (`crawlercmd.go:116`, `main.go:64`);
- `Types`: a node that was not probed has an empty type, which the WHERE lets overwrite a
  recognised name (`database.go:65`); `NameOf` looks for "NA" where the parser has made it "na"
  (`database.go:72`), so that the error text is never stored;
- `ReadName`: of a name with six parts the description is the third part twice (`handshake.go:169`).
  The parser makes columns of every name, where `vparser_test.go:136` expects nil for names with labels;
- `ParseVersion`: of a version with five and more parts the third from behind is in no field
  (`vparser.go:89`);
- `getErrors`: kinds of errors beyond the eleventh are added up in a variable that nobody reads
  (`DataMassager.ts:84`);
- `QueryOk`: a condition on a name that `validateKey` drops leaves its AND behind, and `country` is
  a valid key without a column; the database rejects both (`api.go:84`, `241`).

## 4. Fairness

*Crawler.* Goroutines are scheduled. Weak fairness where an enabled step stays enabled;
strong fairness where Go promises more: a waiting sender on an unbuffered channel is served in
order, `select` chooses among ready cases at random, and `sync.RWMutex` does not starve a
waiting writer. `RequestENR` and `getClientInfo` return, because they run under deadlines; for
`getClientInfo` this holds only without the `nodeURL` flag, since `getStatus` calls the node
without a deadline. The discovery iterator may yield for ever; nothing is assumed of it before
it is closed.

*Handshake.* What a worker computes is scheduled, and `Fails` is: each dial, read and write is
under a deadline. Neither a peer nor the node at nodeURL has to answer; for the latter there is no
deadline, which `EndsUnlessAtNode` makes visible.

*CrawlNodes.* The process is scheduled and restarted; crawls return, which `Crawler` shows for
a queue that does not fill. *Ingest.* The daemon is scheduled and the process restarted
(`Restart=on-failure` in the README's unit file); nothing is assumed of the crawler.

## 5. Proofs

`CrawlerProofs` proves for all values of the constants that satisfy `SeqAssumption` and
`CrawlerAssumption`: any identifiers, any set of workers that is not empty, any queue
capacity from 1 on, any inputs whose times are in order, any bound on the clock.

- `InvAlways`: `Spec => []Inv` (`MCCrawlerBlocks.cfg` checks `Inv`). `Inv` is inductive; `InvInit` and `InvStep` are its two
  halves, with one lemma per action. Its parts:
  - `TypeOK`;
  - `HoldersOK`: whoever is about to pass a record on has one;
  - `LocOK`: while `updateNode` holds the lock, its copy is the entry with a new check time,
    then with a whole check applied. This carries what it decided on across the network call;
  - `LiveOK`: `liveIters` equals the iterators that are alive or whose report waits in
    `doneCh`. `live = 0` therefore means that no iterator is left;
  - `ClosedOK`: closed exactly from the shutdown on; a worker leaves only a closed, empty queue;
  - `TimesOrdered`.
- `TypeCorrect`, `TimesAlwaysOrdered`: parts of it.
- `NeverSendsOnClosed`, `ReturnsQuiescent`: from `LiveOK` and `ClosedOK`; neither is
  inductive alone, as they speak of the end and need the count that leads to it. At least one
  worker is needed for the second: with none, requests would be left in the queue.
- `AlwaysRemovedAtZero`: `SendHasScore` says that what `Send` stores has a score left, and
  `ReportKeepsScore` that a report takes none away.
- `NoNodeForgotten`: an induction of its own on top of `Inv`. The entry that `Send` stores and
  the request that it queues appear in the same step; `StaysOnItsWay` says that a request goes
  from queue to worker and is not lost on the way.
- `RoundImplementsContract`: `Spec => ContractSpec`. Each action is a check, a report, the
  end, or a stutter; `LocOK` is what makes `Send` a check of the entry as it is then.

`NodeSetProofs` has the two lemmas about entries that `CrawlerProofs` and `CrawlNodesProofs`
share. The other proofs, each for all values of the constants under the module's assumption:

`CrawlNodesProofs` (any flags, any number of rounds, changes and crashes). `TypeInv` adds to the
types that no time in a set is from the future, and that the node file is not newer than the
round. `CrawlChanges` says that a step of either crawl is one change of its set, `ChangeKeeps` and
`ChangeKeepsHeard` what a change leaves alone: who answered less than `Interval` ago stays in the set.

- `AnsweredAlwaysKept`: from `KeptInv`. Until the merge, who answered in this round is in one of the
  two sets, with a check that is no older than the answer: `Fail` cannot remove the entry before the
  node is due again. `start` separates these answers from those that came with the input.
- `FileAlwaysCommitted`: from `DiskInv`. Between commit and write the table has the set as it
  is; a row that changes later is newer than the file. `FileCommitted` alone does not say what
  is in the table when the file is written.
- `RoundsImplementTable`: only `Commit` changes the rows, and `DiskInv` has every row from an
  earlier round.

`HandshakeProofs` (any finite set of workers).

- `NeverUsesNil`: from `NilInv`: once a worker has passed `CheckNil`, or has created a Status, there
  is one. It includes that a worker on its way to create one has a version.
- `NoMoreThanOneEach`: `Room` counts the Status values together with the workers that found
  none; nobody joins these once there is one.
- `HeadsStayInOrder`: `HeadInv`. A worker at the head that nobody has disturbed is the last one
  there, and its header lies between the head in use and the height of the node (`HeadAlone`).

`IngestProofs` (any nodes, any number of errors, crashes and restarts).

- `TablesAlwaysThere`: `FilesOK`: unless something is spoilt, a file without a table is in the
  hands of the program that made it.
- `ReadAlwaysPut`: `ReadOK`: from the read to the insert what is not put is in the batch (`Held`); a
  process that is gone has forgotten the rest.

`DashboardProofs` (any number of requests, filters and parts).

- `AlwaysOwnAnswers`, `NeverStaleUnlessCarried`: `RightInv` says of every entry of the cache and
  every part of a result what text it was asked with, and that it is from after the last drop unless
  `carried`. Filters with the same text are not told apart, and need not be. An idle handler holds no answers, which is why a drop between requests carries none.
- `VersionsAlwaysAnswered`: `VersionsInv`. A request with one name gets the versions last
  (`VersionsLast`), so that it has them when it starts to store; under the text of such a filter no nil
  is stored if every filter with this text has one name (`AskingByText`).

`ListProofs` (any lists). What the operators on lists return is proved by induction over the length
of a list. The library's induction theorems take an operator as their parameter, which the provers
cannot instantiate; `NatSet` says the same with a set in its place, and is proved from the
well-foundedness of `<` on the naturals. `Recursion` derives from it that a function that is
defined by recursion has the values that its definition says, `Recursive` names such a definition,
and `OnlyDef`, `FlattenDef`, `SplitDef` and `JoinDef` are its cases, and `TotalDef` in
`PageProofs`.

- `SplitUndoesJoin`: `strings.Split` gives back any parts that do not have the separator in them.
  `SplitAppend` says what one more token does to the parts (`Cut`), `SplitRun` what a run of tokens
  without a separator does; the theorem is an induction over the parts.

`HandshakeProofs` again, about names (any words and numbers, any set `Clients` of clients that keep
to the custom). `NamesAlwaysRecognised` is `Spec => []NamesRecognised`: not for the names of the
instance only, but for every number, piece, label, system and language.

- `VersionSplits`, `SystemSplits` and `NameSplits` undo the three levels of `Join` in a name, and
  `NumberParses`, `VersionParses`, `SystemParses` and `ReadsColumns` follow the code's switches on
  the number of parts. Of a version with five parts and more, the third from behind is in no
  column, and the tag is exactly what stands before it, joined.
- `LanguageParses`: the first number in the text of a language is its version. `LanguageParts` says
  where each part is in the text, and `LanguageFound` that the parser's two minima are the
  two ends of the number, by `MinIs`.
- `ClientKnown` puts these together for one client.

Assumed of the constants (`ClientNameAssumption`): words and numbers differ from each other and
from the separators, and every client is `Customary`: no part has the separator of its level, or of
a level above, in it, a version has at most four numbers and seven pieces, a name at most two
labels, and what stands behind the version of a language does not begin with a number. The code
makes no claim about other names.

`PageProofs`, about `Filters` and `DataMassager` (any values of conditions, any number of names that
a list shows).

- `UrlRoundTrip`: the page can read the URL of any groups of conditions with plain names and values,
  and reads these groups. `WrittenText` says what is in the text of a condition, `PlainRead` that
  decoding changes nothing of a plain one and that `SplitUndoesJoin` applies to it.
- `ApiSelectsWhatIsMeant`: for a request of plain text on names of the drawer that has a condition in
  it, `QueryOk` holds and `Selected` and `Meant` say the same of every node. `SameComparison` compares
  the two tables of operators, `InnerAll` says that no condition is left out. Without any condition
  the API counts all nodes, and the drawer describes none; the page never asks that (`AskedType`).
- `MassagerCountsOnce`: every list of counts is counted once, but for the errors that are lost.
  `FirstAndBeyond` splits a list where it is cut. `TotalSplit`: what is in a list by
  name and what is not add up to it; `ShownTotal`: "Other" has what is cut off.

`PageProofs`, about the page (any known nodes that have a condition, any links, any number of
groups, edits, clicks and requests). `InductiveInvariant` is `Spec => []Inv`, with one lemma per
action. What the run checks is not inductive: `KnownUntouched` needs to know who refers to which
array, and `PushedIsReadable` which arrays have conditions that are not saved. The parts of `Inv`:

- `GroupsOK`: the filters of the page and the groups of the drawer are never arrays of the known
  nodes (`Own`); the page's groups have saved conditions only, and so have the drawer's while it is
  closed. A click changes the page's groups in place, which with a closed drawer may be those of the
  drawer; an edit changes those of an open drawer in place, or copies them first. `PutSaved` and
  `NewArray` are the two cases. `FreeType` says, by counting, that a copy always finds a free reference: the
  model's heap is no smaller than the program's;
- `UrlsOK`: every URL, also in the history, is a link or one that the page made of saved conditions.
  `WantedType`: the groups of such a URL are saved ones, at most `MaxGroups`, and not all empty;
- `RequestsOK`: every request has a condition in it, and none has a higher number than the newest;
- `NewestIsOfUrl`, which needs only the last part.

`PushedStaysReadable` needs besides that the text of a saved condition, if it is plain, has a name or a
value in it (`SavedReadable`). From the invariant follow `TypeCorrect`, `KnownStaysUntouched`, `PushedStaysReadable`, `NewestStaysOfUrl`, and
with the theorems about `Filters` and `DataMassager` `RequestsCountWhatIsMeant` and
`ListsCountOnce`. Before its proof `Inv` was checked with TLC on the instance of `MCPage.cfg`.

Assumed of the constants (`FiltersAssumption`, `PageAssumption`): ":" is a character and stands for
itself; operators and the names of the drawer are plain texts, and "country" is none of these names;
the values of nodes are texts and have an order; typed values are not empty (`saveFilter`), and are
any texts otherwise; the list of known nodes has a condition in it, as that of `config.ts` has, and is
no longer than `MaxGroups`; links are lists of lists of texts, as `JSON.parse` gives them or the page
takes them for no filter. That "version" is a character is assumed too, since the provers do not
know it of a literal.

Model-checked only: all liveness (TLAPS has no rule for the fairness needed here, nor for
`ENABLED`): `EndsUnlessBlocked`, `ResumesAfterCrash`, `EndsUnlessAtNode`, `ReadableIsPut`; and the
properties of the violation runs. Every other property that a passing run checks is a theorem.

## 6. Not modelled, and the plan

Left out for good: wire formats and cryptography, discovery protocols (their results are
nondeterministic), logging and flags parsing, geoip, layout of the page. `nodeSet.add`,
`topN` and `verify` have no caller. `setup.go`, most of `helper.go` and `enr.go` are start-up,
keys and decoding by go-ethereum; `DataProcessor.ts`, `FilterRunner.ts` and `SortedMap.ts` are used
by their own tests only.

What could follow:

1. `Ingest`: several nodes in one batch, of which the statement fails in the middle, which
   panics today (`Crash`).
2. Composition: `Page` over the answers of `Dashboard`, and `Crawler` with a probe that does not
   return because of the node at nodeURL.
3. `ClientName` for names that do not keep to the custom: which columns and fields such a name still
   fills, of which the repository says nothing so far.
