# mgnx: specifications and proofs

mgnx crawls the BitTorrent DHT for infohashes, fetches the metadata of the
torrents behind them, classifies and stores them in PostgreSQL, keeps their
seeder counts up to date with tracker scrapes and serves them over Torznab.
This directory holds TLA+ models of its stateful parts, the TLC runs that check
them on small instances, and TLAPS proofs of the safety properties the runs check,
for instances of every size. All paths below are relative to `src/`.

    tlc -config MCRoutingTable.cfg MCRoutingTable     one run
    tlapm RoutingTableProofs.tla                      the proofs about one module

`PROJECT.json` lists the runs, which lines of the source every definition
models (`map`), the hazards the properties are for, and one faulty variant of
the model per property that the property detects (the definitions commented
"Faulty variant" in the modules; no specification uses them).

## 1. The system

    other nodes          trackers                    PostgreSQL      operator
        |  UDP               | UDP                       |              |
    +---v------------------+ |   +-----------+   +-------v-------+      |
    | DHT server           | |   | indexer   |-->| torrents,     |<-----+ API,
    |  routing table       | |   |  workers  |   | files, ...    |<-----+ index
    |  transactions        | |   +-----^-----+   +-------^-------+        command
    |  query workers       | |         |                 |
    |  peer store, limiter | |     discovered            |
    +---^--------------^---+ |     (channel)             |
        | queries      | events ------+                  |
    +---+------+   +---+------------+ |   +--------------+--+
    | crawlers |-->| discovery      |-+   | scraper, dead   |
    |          | q | workers        |     | detector        |
    +----------+   +----------------+     +-----------------+

Everything runs in one process, as goroutines that share memory and channels;
the index command is a second process on the same database, and the terminal
interface a third one that speaks to the HTTP API.

| part | source | state | operations | hard about it |
|---|---|---|---|---|
| Routing table | `dht/table` | sorted buckets, each with its nodes, replacement cache and depth | `Insert` (with splits), `MarkSuccess`, `MarkFailure`, `Closest` | long sequences of calls: splits, evictions and promotions must agree about where an ID is |
| Transactions | `dht/server/transaction.go`, `pkg/cache`, `send` in `server.go` | counter, map of transactions in flight, one channel each | `New`, `Complete`, `deliver`, the sweeper | a late answer races the timeout; key reuse; two-phase cleanup; a caller with no deadline |
| Inbound queries | `dht/server/server.go`, `token.go` | queue, query workers, outbound queue, two secrets | `handle*`, `respond`, `rotate`, `Validate` | queued queries see a later secret; concurrent announces |
| Peer store | `dht/server/peerstore.go` | map, list, index, cached sample | `Add`, `Get`, `Sample`, prune | three structures to keep in step; stale sample |
| Limiter | `dht/server/limiter.go` | map of token buckets | `Allow`, cleanup | check-then-act on a shared cache |
| Bootstrap | `dht/server/bootstrap.go`, `Start` in `server.go` | shortlist of nodes with `queried` flags | pings, seeds, rounds, bucket refresh | goroutines of a round share one shortlist; answers name ever new nodes |
| Crawler | `dht/crawler/crawler.go`, `heaps.go` | ready heap, cooldown heap, `inFlight` map of time stamps | fill, query, account, prune, rotate | a node is in a heap and in a map by different rules |
| Discovery workers | `dht/crawler/discovery.go` | shortlist, queried set, collected peers | iterative `get_peers`, `Emit` | answers in any order |
| Filter | `dht/filter` | two Bloom filters | `SeenOrAdd`, `Rotate` | shared by all crawlers and the server while it rotates |
| Metadata fetch | `metadata/fetch.go` | one TCP connection | handshakes, pieces, hash | a peer that sends anything, or nothing |
| Indexer workers | `indexer/worker.go` | a result channel per infohash; the database | lookup, fetch from several peers, upsert, files, classify | fetches race for one result; five statements without a transaction |
| Index command | `indexer/index.go` | a page of rows | classify again, update | writes back what it read long ago |
| Scraper, dead detector | `scrape/worker.go` | a batch, a list of candidates | select, scrape, apply; select, mark | the same |
| Tracker client | `scrape/client.go` | connection id, results so far | connect, scrape in batches, failover | answers matched by position over UDP |
| File watcher | `gluetun/file.go` | settled values, watches | settle, watch | a change between read and watch, or one no watch sees |
| API, Torznab | `api`, `service` | none | reads; set state, delete | the two writes race all of the above |
| Terminal interface | `tui/model`, `pkg/torznab` | active view, list page, detail, dialogue | keys, commands and their answers | an answer meets whatever view is open by then |
| Classifier | `classify` | none | text to verdict | none here |
| Process | `cmd/serve.go`, `dht/system.go` | one context, one group of goroutines | start, fail, signal, stop | every goroutine has to see the end, whoever caused it |
| Metrics, configuration | `recorder`, `logger`, `config`, ... | none | | none here |

What makes each of them correct is stated in section 3, with the run that
checks it.

## 2. The modules

| module | models | composes |
|---|---|---|
| `NodeRegistry` | what the routing table promises: the nodes it knows and their failures | |
| `RoutingTable` | `dht/table` | implements `NodeRegistry` |
| `RoutingTableProofs` | its invariants and its refinement of `NodeRegistry` | extends `RoutingTable` |
| `Transactions` | `send`, read, write and sweep of outbound queries | uses `NodeRegistry` for the table |
| `InboundQueries` | the query workers and the token manager | |
| `PeerStore`, `IPLimiter` | one part each | |
| `Crawler` | the heaps and the map of one crawler | |
| `SampleQueue` | from samples, and announces, through filter and queue to the indexer | |
| `Lookup` | one discovery worker | |
| `TorrentLifecycle` | a torrent row and all of its writers | |
| `IndexPaging` | the pages of the index command over a changing table | |
| `MetadataFetch` | one fetch of an info dictionary from one peer | |
| `PeerRace` | an indexer worker and the fetches of its infohashes | extends `MetadataFetch` |
| `TrackerScrape` | one call of the tracker client | |
| `GluetunFiles` | the files of the VPN sidecar, their reader and their watcher | |
| `Bootstrap` | how the DHT server fills its table when it starts | |
| `Serve` | the process from its files to its exit | extends `GluetunFiles` and `Bootstrap` |
| `Tui` | the terminal interface and the requests it makes | |

`TransactionsProofs` and `InboundQueriesProofs` extend the module they are named after.
Each of the others is about two modules that share no variable:
`ServerTablesProofs` about `PeerStore` and `IPLimiter`, `TorrentLifecycleProofs` about
`TorrentLifecycle` and `IndexPaging`, `DiscoveryProofs` about `Lookup` and
`SampleQueue`, `FetchProofs` about `PeerRace` and `TrackerScrape`, and
`CommandProofs` about the two programs, `Serve` and `Tui`. Of such a pair one module
prefixes its names (`SampleSpec`, `ScrapeSpec`, `TuiSpec`, ...).

`MC*` modules give a specification finite constants. What an atomic step is
follows from the code: an operation that holds one mutex throughout is one
action (`PeerStore`, `MarkFailure`), every SQL statement is one action, an
operation made of several locked accesses is one action per access
(`IPLimiter.Find/Size/Set/Take`, `Transactions.Add/Look/Register` for `New`, the
sweeper, `SweepVisit` reading `done` without the transaction's lock), and a channel
operation is one action.

**RoutingTable.** `buckets` is `rt.buckets`, with `min`, `max`, `depth`,
`nodes` and `cache` as in the code; `max = 0` is the code's zero ID, the end of
the keyspace. The loop of `insert` is one action per way an iteration ends
(`InsertUpdates`, `InsertAppends`, `InsertSplits`, `InsertUpdatesCache`,
`InsertCaches`, `InsertDrops`), and `inserting` is the ID of the call that holds
`rt.mu` meanwhile, so nothing else runs. An ID is a number; `Span[d]` is the
number of IDs that share a prefix of `d` bits, so a split at bit `d` is an
addition. `Closest` and the other reads change nothing and are left out.

**Transactions.** `pc` is the caller in `send`; `response` its channel, with
"overdue" for open and past the timeout; `cache` the map; `sweeper`, `toVisit`,
`toDelete`, `current` the cleanup of `pkg/cache` with the callback of
`NewTxnManager`. `size` is the number of keys, 2^32 in the code and one of
`KeySpaces` here, so that the counter wraps. `New` draws a key, looks it up and
registers it in three accesses, so two callers may hold one key: `lapped` records the
callers whose key was drawn again while they were inside `New`. The read loop answers (`Read`) before it updates the table
(`Record`). `Settle` is what the crawler does with a result. The module calls
the operators of `NodeRegistry` for what a call does to the table, which is what
`RoutingTable` is shown to implement.

**InboundQueries.** `worker` holds the step and query of each query worker. The
handler of `announce_peer` is broken up where it takes a lock: token, store,
filter, channel, answer. Secrets are numbered, so a token is the address and
the number of the secret it was made from, and its hash has no collisions. The store
is a set of pairs: `AddPeer` may store the peer, refuse it because the infohash is full
or evict the oldest infohash for it, and `Forget` drops any peers at any time. The
filter has its two tiers and rotates (`Turn`); `acceptedAt` and `events` record in which
turn it let an announce past.
Queries that have no effect on this state (`ping`, `find_node`,
`sample_infohashes`, malformed ones) are the one kind "other".

**PeerStore.** `entries`, `order`, `index`, `cache` are `entries`,
`insertOrder`, `orderIndex` and the cached sample. Time stamps are ages. `Without` is
what the loop of `pruneExpired` leaves of the list.

**IPLimiter.** `clients` is the cache; `Collect` and `Delete` are the two phases
of its cleanup. A bucket refills only when its address has been silent for the
cleanup's ttl, which is how its window is defined.

**Crawler.** `ready`, `cooldown` and `batch` are bags, since a node may be
pushed again while an item of it waits; `seen` is the code's `inFlight` map with
the age of every time stamp. Distances and yields are left out: a pop takes any
items and a trim keeps any, which allows whatever the random target of the code
makes nearest.

**SampleQueue.** The two tiers are sets; `Refuse` may refuse any sample, which
is a false positive or a hit. `sending` is the sample accepted and on its way to
the channel. Announces enter the same filter and go to the same indexer.

**Lookup.** A node is its rank by distance. `learned` and `told` record what the
responses of the lookup named, and `asked` counts the queries sent to each node; the
code's own `queried` is a variable beside it.

**TorrentLifecycle.** `rows` is the table `torrents` reduced to the columns its
writers read and write: the state, and four flags for seeders, `scrape_at` and
`last_seen`. `batch`, `reread` and `doomed` hold what the scraper, the index
command and the dead detector read earlier and have yet to write back. The
verdict of the classifier and the counts of a tracker are nondeterministic. `overruled`
records the rows that the API wrote or whose state the index command changed.

**IndexPaging.** `stored` is the table as a set of infohashes; `lasting` names those
that were there ever since the count. What the command does with a row is
`Reclassify` of `TorrentLifecycle`.

**MetadataFetch, PeerRace.** A fetch is where it stands in the protocol, the
piece it asked for last and what it has assembled, which is counted in units of
the true dictionary and `Spoiled` once it differs from it. The peer sends any
message in any state. `PeerRace` adds the goroutine per peer, the errgroup limit
(`Spawn`), the rate limiter (`AwaitToken`), the channel of one, its closer and the
contexts; fetches of an earlier infohash run on while the worker is at the next.

**TrackerScrape.** A result pairs the infohash it is filed under with the one the
tracker counted, which the code cannot compare. `network` holds the answers on
their way to the socket of the tracker being asked; reading one may leave a
duplicate behind.

**GluetunFiles, Bootstrap, Serve.** A file is its content, whether a watch sees
it and whether an event waits. The sidecar writes in place, or renames another
file over it. A node of `Bootstrap` is its rank in distance; `adding` is what a
goroutine of a round found missing in the shortlist (`get`) and has yet to set, and
the routing table is only whether it holds a node; `named` and `asked` record what
answers named and whom a round sent a query. `Serve` puts both under
`main`, the place of `RunE`, with `running` for the services in the group and
`cancelled` for its context. A configuration without crawler has no DHT system;
that is `Serve` without the steps of `Bootstrap`, and is left out.

**Tui.** `screen` is `activeView` with the state of the detail view or the dialogue,
`list` the list model, `connecting` the `loading` of the configuration model, and `cmds` what each running command is: a request on its
way to the server, or the message it will send. `ServerAnswers` is the server with its
handler, or a timeout before or after it acted; `Deliver` and `Key` are `Update`.

## 3. The runs

All runs pass. The disagreements of the code with its own comments that section 5
lists first are what `BadMeansFailedQueries`, `OpenMeansRegistered`, `SettledStatesStay`
and `ChangesAreNoticed` make room for.

`TypeOK` (`SampleTypeOK`, `ScrapeTypeOK`, `TuiTypeOK`) is the type invariant of each
module. It is a property of its own in
`routing_table`, where it is also proved, and elsewhere a conjunct of one
property of the module.

**routing_table** (5-bit keyspace, buckets of two, threshold two, own ID 0 and
IDs 0, 8..12). The far IDs share one bucket that comes to exist by two splits and
then overflows into its cache and beyond, so one `Insert` splits twice, and all
six endings, eviction with and without promotion, and pruning of a cached node
happen. Our own ID is among the peers, since the code admits it. One bucket that
overflows suffices: buckets influence each other only by splits.
`OneEntryPerNode`,
`EntriesAreFound` (the binary search finds the bucket an entry is in),
`CandidatesWaitBehindFullBuckets`, `InsertReturns` (the loop ends), and
`ImplementsRegistry`: under the mapping of every stored ID to its failure count
the table is a `NodeRegistry`, so no split, promotion or newcomer loses a node
or touches a count.

**transactions** (two queries to one node, the first one a crawler's, one key or
two, outbound queue of one, threshold three). `ClosedOnceAndCharged` (a channel
is closed once, a caller the sweeper releases finds the failure counted, and no
sweep counts it twice), `OpenMeansRegistered` (an open transaction is in the map
under its key, which key reuse between the sweeper's scan and its delete could
break; `Overrun` excepts two transactions that have one key because the counter ran
through all of them while one of their callers was inside `New`),
`BadMeansFailedQueries` and `QueriesEnd` (every caller returns, unless overrun and out
of the map, and every transaction leaves the map). Two queries
are enough to fill the queue and to have a sweep in progress on one while the other
registers; with one key the counter wraps onto a key in flight, and onto one that the
other caller has drawn and not registered, which is the excepted case. The two
queries reach threshold three only if the crawler's one is charged twice and the
other one once.

**inbound** (two addresses, one infohash, two workers, queues of one, two
rotations of the secret or of the filter together, `MaxTicks`). `TokensLastTwoWindows`: a token is accepted if and
only if it was made for the address in the current or the previous window at the
time it is handled. `AnnouncesAreSound`: two events of one infohash come from
announces that the filter let past at least two of its rotations apart, although a
worker may hold an announce for as long between the filter and the channel, and the
store names only addresses that had been handed a token. Two rotations are the fewest
that make a token too old, and the fewest that make the filter forget.

**server_tables** (the peer store with three infohashes, room for two, two peers and
a ttl of two ticks; the limiter with two workers, three addresses, room for one and
a burst of one). The two share no state, so a behaviour moves one of them.
`OrderMatchesEntries` (map, list and index name the same infohashes, each
once), `ServedPeersAreLive`, `SampledWasStored` (a cached sample lags by less
than its lifetime): one infohash above the limit makes every insertion of the
third an eviction. `Allow` is not atomic, so its two limits can be exceeded;
`RacesAreBounded` says by how much: a burst per worker and one for the cleanup,
and one address per worker beyond the first.

**crawler** (two nodes with up to two items each, a batch of two, two failures).
`LostNodesReturn`: a node that a trim or a new target drops from the heap while
the map still names it becomes eligible again. `CooledNodesArePromoted`. The
smallest caps and periods (`MaxSeen` 1, a new target every second iteration, pruning
every third) make pruning, with its stale list of keys, and rotation happen
together and apart.

**sample_queue** (three goroutines of two crawlers, two infohashes, one worker,
queues of one). `AcceptedOncePerTwoRotations`: with rotations at any moment an
infohash accepted by one sampler or announce is not accepted by a sampler again
before the second rotation. `ResponseIsWorkedOff`: a batch ends even if no
worker ever takes anything from the queue.

**lookup** (five nodes, shortlist of two, batches of two, four iterations).
`ShortlistIsNearest`: between rounds the shortlist is the nearest nodes of all
the lookup has heard of, though it is trimmed round by round; `NearestAskedOnce`: no
node is sent a second query, and a lookup that ends because all are queried has sent
one to each of the nearest it heard of; `AllPeersEmitted`. Five nodes fill the shortlist twice over, so nodes are
trimmed, named again and asked in an order that is not the order they were
heard of.

**lifecycle** (one torrent, two indexer workers, scraper, dead detector, index
command and API; and, in behaviours of its own, a pass of the index command over
six infohashes in pages of two with three changes). `FilesStoredOnce`: files of a torrent are stored once although
two workers fetched it. `ActiveIsVouchedFor`: a torrent is active only if some
tracker reported seeders or the API said so. `SettledStatesStay`: a rejected torrent
stays rejected, and one the scraper activated stays active or dead, until the API
writes the row, or the index command writes one that was rejected or that changed
after its page was read; nothing is said of the torrent after that. One torrent is enough because
every statement names one infohash and every property is about one row; the
batches and pages are the only coupling, and they only hold rows back.
`PassMissesFew`: each insertion or deletion during a pass makes it miss at most one
torrent that is there all the time, and only an insertion makes it see one twice.
Three pages and three changes let the changes fall before, on and behind the
borders and at the end that the count fixed.

**metadata** (two infohashes, up to three peers of which at most two are asked, one
or two at a time; a dictionary of two units in pieces of one, claimed sizes up to
one above the limit). `ResultIsTheTorrents` (whatever peers sent, in whatever
pieces), `NothingMeansAllFailed` (no result is lost between dispatch, channel
and closing), `ClosedWhenAllReturned` (nobody can send on a closed channel),
`ProcessReturns` (a silent or babbling peer holds a worker up only until a
deadline). The second infohash makes fetches of the first outlive its call.

**tracker** (two trackers, three torrents in batches of two).
`CountsBelongToTorrents` (late duplicates and short answers never file a count
under another torrent), `SilentOnlyWithoutSeeders` (the result is the whole answer of
one tracker, and without seeders only if no complete answer named one),
`ScrapeReturns`. The second batch is a short one, so answers differ in length,
and the second tracker is what is left to fail over to.

**serve** (two files with one valid content, a network of three nodes of which the
two closest are sought, answers that name up to two, one seed, rounds of two, warm
threshold two, the health server and the indexer). `ChangesAreNoticed` (between settling, start-up and
watching no change is missed, unless no watch can see it), `NearestWereAsked` and
`AskedOnce` (concurrent goroutines of a round neither leave out one of the two
closest of all the nodes that answers named, by a history of the queries sent, nor
take a mark back), `StartsAndStops` (the rounds end although
answers name any nodes; and a failure, a signal or a changed file ends the process). One
valid content is enough because a change to another one and a change to one that
does not parse are compared in the same way; one server of each kind because
services do not interact except through the context. The API server is the
health server started later, so `Servers` is empty here.

**tui** (two torrents, a page of two, two commands at once, two states, two filters,
two pages). `ShownStateWasReal` (an answer about one torrent is never shown as the state of
another) and `NothingIsAwaitedInVain` (no view comes to say it is loading when nothing is
under way, with two exceptions, section 5: the list after a deletion, and the
configuration view opened as it was left, connecting). Two commands are what it
takes for answers to overtake each other and for one to meet the view that another
opened.

Symmetry is used in `inbound` (workers, addresses), `server_tables` (infohashes,
peers, workers, buckets) and `tui` (command slots): none of them checks a liveness
property, and no `CHOOSE` and no constant tells the permuted values apart. `serve`,
`metadata`, `tracker` and `tui` may stop, so they do not check for deadlock: the process
exits, the call returns, the worker has no further event, the interface is closed.

### Fairness

| module | fair | because |
|---|---|---|
| `RoutingTable` | `InsertStep` | the goroutine holds the mutex and has nothing to wait for |
| `Transactions` | the sweeper; the timeout; `Enqueue`, `Receive` | a ticker, the clock, and a goroutine whose step is enabled; no answer is ever owed |
| `SampleQueue` | each sampler | a goroutine whose timer or channel is ready; the discovery workers are not fair |
| `Crawler` | `Fill`, `Reseed`, `Tally`, `Tick` | one loop; a query returns by `QueriesEnd` of `Transactions` |
| `PeerRace` | the worker's steps, `FetchEnds`, `Return`, `Close` | goroutines run, tokens are granted, every connection has a deadline; no peer owes a message, and no further event need come |
| `TrackerScrape` | `Client` | one goroutine whose reads have a deadline; no answer is owed |
| `Serve` | `RunE`, `Watch`, `BootStep`, `SystemFails`, `SystemStops`, each service's stop | goroutines that watch the context or whose queries return by `QueriesEnd`; no failure, signal or change of a file is owed |
| others | none | no liveness property |

`LostNodesReturn` has "iterations keep happening" as its premise, since an
empty batch does not count as an iteration (section 5).

## 4. The proofs

Each theorem holds for every value of the constants that satisfies the module's
assumptions; where it names a property, a run of section 3 shows it on a small
instance.

| module | theorem | states |
|---|---|---|
| `RoutingTableProofs` | `TypeCorrect` | `[]TypeOK` |
| | `PartitionHolds` | `[]Partition`: bucket bounds tile the keyspace |
| | `OneEntry` | `[]OneEntryPerNode` |
| | `EntriesFound` | `[]EntriesAreFound` |
| | `CandidatesWait` | `[]CandidatesWaitBehindFullBuckets` |
| | `CapacityHolds` | `[]Capacity`: no list outgrows the bucket size |
| | `NoBadNode` | `[]NoBadNodeStored` |
| | `NoSplitTooDeep` | `[]NoSplitPastLastBit`: the split index stays inside the ID |
| | `RegistryImplemented` | `ImplementsRegistry` |
| `TransactionsProofs` | `OpenIsRegistered` | `[]OpenMeansRegistered` |
| | `ClosedOnce` | `[]ClosedOnceAndCharged` |
| | `BadOnlyByFailures` | `BadMeansFailedQueries` |
| `InboundQueriesProofs` | `AnnouncesSound` | `[]AnnouncesAreSound` |
| | `TokensLast` | `TokensLastTwoWindows` |
| `ServerTablesProofs` | `ListMatchesMap` | `[]OrderMatchesEntries` |
| | `OnlyLivePeersServed` | `[]ServedPeersAreLive` |
| | `OnlyStoredSampled` | `[]SampledWasStored` |
| | `LimiterRacesBounded` | `[]RacesAreBounded` |
| `DiscoveryProofs` | `NothingNearerIsLost` | `[]ShortlistIsNearest` |
| | `EveryPeerEmitted` | `[]AllPeersEmitted` |
| | `NearestAreAskedOnce` | `[]NearestAskedOnce` |
| | `AcceptedOnce` | `AcceptedOncePerTwoRotations` |
| `TorrentLifecycleProofs` | `FilesOnceForEveryTorrent` | `[]FilesStoredOnce` |
| | `ActiveWasVouchedFor` | `[]ActiveIsVouchedFor` |
| | `SettledTorrentsStay` | `SettledStatesStay` |
| | `PassesMissFew` | `[]PassMissesFew` |
| `FetchProofs` | `ResultIsTheDictionary` | `[]ResultIsTheTorrents` |
| | `GivenUpOnlyWhenAllFailed` | `[]NothingMeansAllFailed` |
| | `NoSendOnClosed` | `[]ClosedWhenAllReturned` |
| | `CountsFiledRight` | `[]CountsBelongToTorrents` |
| | `SilentWithoutSeeders` | `[]SilentOnlyWithoutSeeders` |
| `CommandProofs` | `ChangesNoticed` | `[]ChangesAreNoticed` |
| | `NearestNodesAsked` | `[]NearestWereAsked` |
| | `NodesAskedOnce` | `AskedOnce` |
| | `ShownStatesWereReal` | `[]ShownStateWasReal` |
| | `LoadingEnds` | `NothingIsAwaitedInVain` |

The properties without `[]` are action properties (`AcceptedOncePerTwoRotations` with
the type invariant beside it), except `ImplementsRegistry`,
which is the specification of `NodeRegistry` under the refinement mapping (it has
no fairness).

### Assumptions

Those of the modules, which TLC evaluates with every run. Most say that sizes
and limits are numbers, positive where the code would not start or would divide by
zero otherwise. `RoutingTable`'s `KeyspaceAssumption` (`Span[W] = 1` and each span is
twice the next) makes `Span[d]` equal to 2^(W-d) without exponentiation.
`IPLimiter` assumes finitely many workers and rate limiters, as the bounds are
numbers of them. `Tui` assumes that `Listing` names no torrent twice, as the infohash is
the primary key of the table (`db/schema/migrations/000001_init_schema.up.sql`);
`SampleQueue` that `None` is no infohash. Time, queues, keys and rotations stay bounded by the
constants that bound them in the runs, but by any value of these.

### The inductive invariants

None of the properties is inductive. Each module names its inductive invariant `IInv`
(`LimiterIInv`, `StoreIInv`, `PagingIInv`, `SampleIInv`, `ScrapeIInv`, `ServeIInv`, `TuiIInv`
where two modules share a proof module),
with a lemma per action that it is kept and the theorems as consequences.
All of them were model-checked on the instances of the runs before they were proved.

**RoutingTable.** That an entry is found needs the buckets to tile the keyspace;
that an ID has one entry needs an append to a bucket with room to know that its
cache is empty; that in turn needs evictions to promote, and the lists to stay within
the bucket size because `IsFull` compares with `=`. `IInv` is

* `TypeOK`,
* `Tiled`: bucket `i+1` starts where bucket `i` ends (`min + Span[depth]`), the
  first starts at 0 and the last ends at `Span[0]`; stated also for pairs `i < j`,
  since the step from neighbours to pairs would be an induction;
* `InOrder` of every bucket by itself: `max` agrees with `min` and `depth`, both
  lists are within bounds, in range, without repetition or bad nodes, disjoint,
  and a non-empty cache implies a full bucket without our own ID.

`ListsChange` and `OneBucketChanges` reduce an action that changes one bucket to
`InOrder` of the new bucket; there is one lemma per action above them.
`HalvesInOrder` and `SplitTiles` are the split. `PartitionHolds`
counts the IDs of a bucket as the interval they form. For `RegistryImplemented` the
table is read as the set of its entries: an action either leaves that set alone (a
split, by `KeptExtracts` of both halves; a dropped newcomer) or replaces the entries of
one ID, and since an ID has one entry that is an action of the registry on its count.

**Transactions.** `IInv` ties the map to the transactions in it (`CacheMatchesKeys`,
`OpenRegistered`) and the sweeper's local state to both: the keys it has still to
visit are registered, those it will delete belong to transactions that are done
(`SweepKeys`), and between visit and close the entry cannot disappear
(`SweepCurrent`). Without the latter a key reused after the scan could be deleted
from under a new transaction. `New` needs two facts more: callers inside it hold
different keys (`DrawnOnce`), and a key one of them found free is free still
(`FoundIsFree`), in both cases unless one of the two has been lapped; so a registration
replaces an entry only where `Overrun` says so, and from then on both have that key for
good. `FailuresCovered` bounds each failure count by the failed
queries since the last refresh, counted once for the sweeper and once more for the
crawler, which is what `BadMeansFailedQueries` charges a step with.

**InboundQueries.** `QueuesOK` says that tokens in any queue, in any worker's hands or
with a client were made from a secret up to the current one; with `SecretsOK`
(the two secrets are the latest two) comparing secrets is comparing windows.
`FilterOK` says that what was accepted in this turn is in the active tier and what was
accepted in the one before in the previous tier, and that of the acceptances of an infohash
which workers and events hold any two are two turns apart; `EventsOK` carries that to
the events. `StoreOK` is that for the address of every peer stored or about to be a
token had reached a client; by `QueuesOK` an announce carries such a token or a forged one.

**PeerStore.** `StoreIInv` is in five parts: `EntriesOK` (no infohash without a peer,
limits), `ListOK` (the list has the keys of map and index, each once), `HistoryOK`,
`CacheOK` and `OutputsOK` (a stored age never trails the announcement's; a cached
sample was stored within its age). `Prune` needs `Without` to keep a list free of
repetitions, which is an argument about ranks.

**IPLimiter.** What an address has been allowed, plus the tokens in the buckets of
use to it, plus a burst for each worker that missed and may make another bucket, does
not grow (`Bounded`). It must be split by whether the address is `Unsettled`
(silent, condemned or not cached): only then can the cleanup or the first worker add a
burst. `RoomForCreators` counts workers between `Size` and `Set` against the limit.

**Lookup.** While the lookup runs its shortlist is `Nearest` of some set `heard` with
`learned = heard \cup newNodes` (`NearestSoFar`). The merge is `TrimmingLosesNothing`: the
nearest `k` of `Nearest(k, A) \cup B` are those of `A \cup B`, from `NearestCount` (there
are exactly `k`, as ranks form an interval) and `TrimmedIsBehind`. `AskedOnce` ties the
count to the marks: a node was sent one query if it is marked and none otherwise.

**TorrentLifecycle.** `IInv` states for every torrent nobody overruled that one worker at
most holds its insert (`HeldOnce`) and its row is pending meanwhile; that scraper and
detector hold only rows that have left "pending" (`ReadSettled`), so a late
classification cannot meet them; and that states read earlier are vouched for
like those stored (`ActiveVouched`). Of the index command `ReclassifyKeeps` shows that a
state which had settled on its page is written back as it was read, so a row changes only
if it is no longer what was read, or was rejected.

**IndexPaging.** `PagingIInv` adds to the property, while a pass runs, what the pass will
miss or see twice: the unseen torrents before the border of the pages fetched are at
most as many as rows were deleted, those seen that lie behind it at most as many as
were inserted, and the table has grown by insertions less deletions. A change moves
all rows behind it by one place, so one row crosses the border (`PlacesDiffer`,
`OneMore`); at the end `FewBehind` counts the rows behind the last page.

**PeerRace.** `FetchesOK` says what a fetch that is done has assembled, `AskedInOrder` which
peers of an infohash have been asked, `ResultKept` that the result of a fetch that
returned is in the channel or received, `ClosedOK` that nothing is left to send.
`NothingMeansAllFailed` follows as the channel can be drained only by the worker.

**TrackerScrape.** Answers on the network to batch `b` count a prefix of batch `b`
(`AnswersOK`), whatever batch is read by then; results are in the order of the infohashes
and belong to earlier batches (`FiledOK`). The arithmetic of the batches is
`BatchIs`, from the rounding of `NumBatches`.

**SampleQueue.** `FilterRemembers`: what was accepted since the last rotation is in the
active tier, what was accepted since the one before in one of the two. A rotation moves
one into the other, and a sample is accepted only if neither tier knows it, in one
step under the filter's lock.

**Serve.** `FilesIInv` strengthens `ChangesAreNoticed` by what the code's order provides:
`WatchFiles` starts after every file has settled, and the files it has yet to compare
were there when their watch was added, so that a rename cannot have taken the watched
inode away meanwhile. `BootIInv` is about the rounds: what a goroutine has read as missing
in the shortlist (`adding`) contains no node that was asked or is being asked. Hence a late
write of a goroutine takes no mark back (`AskedOnce`). `HeardOK` ties the shortlist to the
histories: what was named is in it or in a goroutine's hands, and what is marked or
pending was sent a query; so when a round is over and nothing is left to query, the
nearest of all nodes named have been (`NearestAsked`). `NearestOfSome` is the lemma that
there is always a nearest node to go on with. `StartedInOrder` ties both to the place
of `RunE`.

**Tui.** `CmdsOK` says of every command on its way what it may still do to a view: the state
in an answer is one the server had (`had`), a request names a torrent, a page is no longer
than the page size. With it `ScreenOK` holds whichever view an answer meets. `ListOK` keeps
the cursor on a row: `RemoveTorrent` (`tui/model/list.go:78`) moves it to the last row,
which would be row -1 if the page held a torrent twice and lost both. That is what
`Listing` without repetitions is assumed for; `KeepsDistinct` and `PageOf` carry it
through filter and page. `Keep`, the filter, is a recursive function, and what it returns is
shown by induction over the prefixes of the list. `Induct` states the induction about
a set of numbers and proves it by a least counterexample (`WFMin`), since the library's own rule
takes a predicate. For `NothingIsAwaitedInVain` each action has, with the invariant, what
it leaves awaited (`TuiKept`); the configuration view has lemmas of its own
(`ConfigStep`), as only three actions touch it.

### What is only model-checked

* Liveness: `InsertReturns`, `QueriesEnd`, `LostNodesReturn`, `CooledNodesArePromoted`,
  `ResponseIsWorkedOff`, `ProcessReturns`, `ScrapeReturns` and `StartsAndStops`. The
  prover does not handle fairness and `ENABLED`. Every other property of a run is proved.
* `Crawler` has no theorem. Its properties are liveness and the type invariant beside it,
  which bounds the cardinality of a bag; that is a recursive function of a set, and the
  libraries prove nothing about it.

## 5. Where the code differs from what it says

* **A crawler's failed query counts twice.** The sweeper marks the node of a query
  that timed out, `dht/server/transaction.go:66`, and closes the channel; `send`
  returns an error and the crawler marks the node again,
  `dht/crawler/crawler.go:317`. A node is evicted after half of the consecutive
  failed queries `dht/table/node.go:61` speaks of. `BadMeansFailedQueries` counts
  a crawler's query twice, and no other.
* **The index command demotes torrents.** It reads the state with a page
  (`indexer/index.go:56`) and writes it back unconditionally (`:106`), so a
  torrent activated in between returns to the old state, against
  `indexer/index.go:118`. It demotes a torrent an operator rejected or activated in the
  same way. `SettledStatesStay` excepts the rows that changed after their page was read;
  and the rejected ones, which the command means to decide again.
* **A transaction's key is not always its own.** `New` promises "a unique 4-byte ID"
  (`dht/server/transaction.go:82`), but looks the key up and registers it in two accesses
  (`:89`, `:99`). If a caller is held up inside `New` while the counter is drawn from
  2^32 times, another may draw, find and register the same key; one of the two then is no
  longer in the map, nobody completes or sweeps it, and if its caller is the crawler it
  waits for ever. `OpenMeansRegistered` and `QueriesEnd` except these two
  transactions (`Overrun`), and no other.
* **A file that is replaced is not noticed.** `gluetun/file.go:164` speaks of any
  change of the files; a rename over a watched file raises no event on the inode
  that is watched, and a file that is missing when the watches are added is never
  watched. `ChangesAreNoticed` excepts both.

Behaviour of the code the models show and the properties above allow for:

* The dead detector marks what it selected, without looking again
  (`scrape/worker.go:253`): a torrent scraped with seeders in between becomes dead.
* A failure between `UpsertTorrentPending` and `UpdateTorrentClassified`
  (`indexer/worker.go:192`) leaves a pending row no worker returns to.
* A sample the previous tier knows is not entered in the active one
  (`dht/filter/filter.go:38`), so what the filter remembers counts from the
  acceptance and not from the last sight.
* `pruneStaleInFlight` sorts keys it has just deleted (`dht/crawler/crawler.go:408`
  to `:420`), so the map may stay above its cap for an iteration.
* A node pushed twice before it is popped may be queried while another item of it
  cools down (`dht/crawler/crawler.go:430`).
* An empty batch is no iteration (`dht/crawler/crawler.go:283`), so nothing is
  pruned while both heaps are empty.
* A pass of the index command misses torrents that others' deletions move to a page
  it has read (`indexer/index.go:52`), as many as `PassMissesFew` allows.
* The limiter's size and burst can be exceeded by what `RacesAreBounded` bounds
  (`dht/server/limiter.go:61`, `:69`).
* An announce to an infohash with all the peers it may have is acknowledged and stores no
  peer (`dht/server/peerstore.go:57`), and the filter lets an infohash past again once it
  has rotated twice (`dht/filter/filter.go:44`), also while a worker still holds the
  earlier announce.
* A query that finds the outbound queue full leaves its transaction behind
  (`dht/server/server.go:712`); the sweeper then charges a node nobody contacted.
* A tracker that answers one batch and not the next is treated as unreachable
  (`scrape/client.go:117`), although it may have named seeders.
* `serve` returns without an error whatever ended it (`cmd/serve.go:192`), and an end
  by SIGTERM before `signal.Notify` (`:184`) is one without shutdown. `Shutdown` of
  the HTTP servers is not waited for, so requests in flight are cut off
  (`api/server.go:78`).
* In the terminal interface an answer is handled by the view it meets
  (`tui/model/app.go:140`). The list says it is loading for ever when its answer came
  in another view and the list is then shown by a deletion (`:134`), which fetches
  nothing. Two pages fetched one after the other may arrive the other way round
  (`list.go:114`). The configuration view, once told to connect (`config.go:62`), keeps
  saying so whenever it is opened: after it has connected, which opens the list and does
  not reset it (`app.go:126`), and after a refusal that met another view.
  `NothingIsAwaitedInVain` excepts it when it is opened so. An answer about the torrent
  shown that was overtaken by loading it anew shows a state it no longer has. To set the state of a deleted torrent is acknowledged
  (`api/torrents.go:76`). The key q quits while a host is typed (`app.go:93`).

## 6. What is not modelled

Counters, logging, the health report and the reading of the configuration: no state
the properties depend on. The classifier, Torznab output, search and statistics:
pure functions of text or pure reads. `gluetun/client.go`: two requests without
state. A watcher that cannot be created (`fsnotify.NewWatcher`), which fails the
start or the watching of the files at once. Of the terminal interface: rendering, texts,
the type filter, the cursor of the state picker (any state may be chosen), and the change
of server when it connects to another host: there is one server. Of the scraper: scrape history and its pruning. BEP-42 checks, encodings, distances and
addresses are choices of the environment in the modules above. Restarts keep
the database and nothing else; `Abandon`, `ReindexFails` and `ScrapeFails` are
also what a restart does to the writers' local state. The modules above are checked
each by itself, except where section 2 says that one extends or uses another.

## 7. Plan

Modules: what becomes of the pending rows a crash leaves behind
(`indexer/worker.go:192`), and the scrape history.

Proofs: every safety and action property of the runs is proved. What is left is the type
invariant of `Crawler`, which needs facts about the cardinality of bags, and the
composition of `Transactions` with `RoutingTable` in place of `NodeRegistry`.
