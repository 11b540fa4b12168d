# metaso-p2p: TLA+ models, model checks and proofs

metaso-p2p indexes MetaID pins from several chains into Pebble, aggregates them
(chats, profiles, published content, skill services), serves them over HTTP,
keeps Socket.IO connections of clients and shares presence with other nodes.
This directory models the parts of it that run concurrently or must survive a
crash, checks them with TLC on small instances and proves the central safety
properties with TLAPS for every instance.

    cd tla
    tlc -workers 2 -config MCIndexer.cfg MCIndexer     # a run
    tlapm IndexerProofs.tla                            # a proof module

`PROJECT.json` lists the runs, the mutants, the source lines every definition
stands for, the hazards and the theorems.

## 1. The system

| Part | State | Operations | Hard because |
| --- | --- | --- | --- |
| Indexing engine (`internal/indexer`) | `lastHeight` per chain, stored height, `mempoolSeen` | catch-up, scan loop, mempool poll, restore | crash between routing and storing, failing node calls, deduplication before delivery |
| Registry (`internal/aggregator`) | list of aggregators | `RouteBlockPin`, `RouteMempoolPin` | the scan and the mempool goroutine call the aggregators at the same time; errors are dropped |
| Published content | record, `pin_to_source`, identity index | create, modify, revoke; backfill; list; replay | four goroutines, several Pebble writes per pin, redelivery |
| Skill service | service record, `pin_to_source`, indexes, ratings, aggregate | create, modify, revoke, rate; list; detail | as above, and a read-modify-write counter |
| Group chat, private chat | groups, members, messages, counters | join, leave, message, moderation | no deduplication, counters, bounded notify channel |
| User info, cache | profiles under metaids and aliases, indexes, two cache levels | pins, backfill, requests with remote completion | read-modify-write without a lock, cache fills that race invalidation, a namespace that is not open after a restart, ids that change under a stored record |
| Notify | blocked chats | read-modify-write of a list | lost updates |
| Bot homepage | none | composes the other aggregators for a read | merges answers about several ids of one bot, read while pins are being stored |
| Presence endpoints (`internal/socket/presence.go`) | none | local and global list, stats, online check | merges live connections with remote snapshots |
| Connection layer (`internal/socket`) | `connections`, sockets | `onConnection`, `Add`, `Remove`, cleanup, `Shutdown`, push | synchronous callbacks, locks, eviction |
| Federation (`internal/federation`) | peers, snapshots, failures | discovery, pull, snapshot | two loops over one store, remote clocks, restarts, backoff |
| Registry publisher (`internal/federation`) | status, the registry pin on the chain | renew, build with a fee loop, broadcast | lost answers, failures in a row against a validity that runs out |
| Chain adapters, address codec | none | parsing | byte-level decoding |
| Process (`cmd/metaso-p2p`) | | start and stop order | goroutines that outlive the store |

The engine calls the aggregators synchronously from two goroutines per process
(scan and mempool poll); a backfill is a third and the replay of published content
a fourth. Aggregators share the store but
no locks. Push events go from aggregators through channels to the connection
layer. Federation reads the local presence of the connection layer and adds the
snapshots of remote nodes to the global list.

What makes the parts correct: the engine loses no block and delivers at least
once; an aggregator ends where the chain is whatever the order of the deliveries,
and a repeated delivery changes nothing; the connection layer tracks exactly the
open devices and keeps the newest up to the limit; the global list shows only
nodes that were recently heard of and are registered, and only newer snapshots
replace older ones; a node that keeps running stays registered; and what a read
answers agrees with the records it is made from, whoever is writing them.

## 2. Modules

| Module | Models | Runs | Proofs |
| --- | --- | --- | --- |
| `SocketServer` | `socket/manager.go`, `socket/server.go` | `socket_devices`, `socket_live`, `socket_shutdown` | `SocketServerProofs` |
| `Federation` | `federation/{store,puller,discovery,snapshot}.go` | `federation` | `FederationProofs` |
| `GlobalPresence` (extends `Federation`) | merge and reads of presence: `federation/store.go`, `socket/presence.go`, `bothomepage/presence.go` | `federation` | |
| `Publisher` | `federation/{publisher,mvc_tx,metalet_client,service}.go` | `publisher` | `FederationProofs` |
| `LogConsumer` | the abstract specification of the engine | through `Indexer` | |
| `Indexer` | `indexer/engine.go` | `indexer`, `indexer_skip` | `IndexerProofs` |
| `PinFeed` | what an aggregator sees of the engine and of a backfill | through the next eight | |
| `PublishedContent` (extends `PinFeed`) | `publishedcontent/{process,db,backfill,replay}.go` | `content` | `PublishedContentProofs` |
| `ContentSections` (extends `PublishedContent`) | `publishedcontent/list.go` and the sections of `bothomepage/build.go` | `content` | |
| `SkillService` (extends `PinFeed`) | `skillservice/{process,db,rating}.go` | `skill` | `SkillServiceProofs` |
| `SkillCatalog` (extends `SkillService`) | `skillservice/{list,detail}.go` and the service section of the homepage | `skill` | |
| `ChatLog` (extends `PinFeed`) | messages of `groupchat` and `privatechat`, the notify channel, a paging client | `chat` | `ChatLogProofs` |
| `ChatHomes` (extends `ChatLog`) | the lists of conversations and channels | `chat` | `ChatLogProofs` |
| `GroupMembers` (extends `PinFeed`) | members and roles of `groupchat/{process,db_group}.go`, the targets of a message and the notify channel | `group` | `GroupMembersProofs` |
| `UserInfo` (extends `PinFeed`) | `userinfo/{module,remote,backfill}.go`, `cache/cache.go`, `storage/pebble.go` | `profile` | `UserInfoProofs` |

`MC...` modules give the constants their values. Definitions named in a comment
as "Mutant of D" are D with a plausible bug; they are used by no specification
and show that a property can fail.

### SocketServer

`tracked` is the manager's map, flattened; `addedAt` is the order of `Add`, which
is the order of `ConnectedAt` because both are taken under `m.mu`. `sock` is the
library's view of a connection. The library calls the "disconnect" handler in the
goroutine that disconnects, so `runner[s]` names the goroutine that is inside the
handler of `s` and `Remove` is the step it waits for. A critical section of the
manager is one action; the exception is `DisconnectAll`, which calls back into
the handlers while it holds the lock, and therefore has `lock` and one action per
connection. The clock and a close by a client may come at any moment.

### Federation

One node with its two loops. Each `Store` method is one action, so the loops
interleave between them: a peer may be removed while it is pulled, a page may be
old when its nodes are upserted. Points in time are kept as the time left until
them; `Tick` lowers all of them. The registry, the remote clock (`skew`), remote
restarts and other pullers (`ServeOther`) are the environment. A failed, late or
malformed response is `PullFails`; parsing and signatures are part of it.

### GlobalPresence

The reads are operators over the state of `Federation`: an HTTP request copies the
active snapshots under the store's lock and sees one state of them; the local
connections are constant. `AddObservation` folds the observations into one entry per user and
device type; sorting, paging, the scope of a request and the homepage's look-up of
a bot follow. The items of a snapshot depend on its sequence, so users appear and
disappear as snapshots are replaced, expire and start over.

### Publisher

The renewal goroutine, with the ticker (one tick waits in its channel), the age of
the clock reading from which `validUntil` was computed, and the wallet service,
whose answers may fail or be lost after the transaction was accepted. The fee loop
signs once per action, with another size each time; every input is signed again, so
nothing bounds how often the size grows, and the attempts can run out.

### LogConsumer

What the engine promises: an at-least-once consumer of a growing log, with a
cursor, a stored cursor and restarts. `Indexer` maps `lastHeight` to the cursor,
`persisted` to the stored cursor, and its history of routed and failed blocks to
delivered and missing entries.

### Indexer

One chain. `CatchPinsFails` is any error of the node; `FinishHeight` may lose the
write of the height, since `persistHeight` only logs the error. A crash keeps
Pebble and loses the rest. `done` and `failed` are history.

### PinFeed

An aggregator's view of its callers: which goroutine may call with which pin
next, and what a restart repeats. `pos`, `queue` and `backfill` advance when a
call returns, so a crash in the middle of a call makes the scan repeat the pin.
`late` is history: some pin was mined while the mempool goroutine still had it.
A pin that stays unconfirmed is polled again once `mempoolDedupeTTL` is over, up to
`MaxPolls` times. In PublishedContent and SkillService it then has the same time as
before, in ChatLog any poll time.
Blocks that the engine skips (`indexer_skip`) are not part of this view.

### PublishedContent and SkillService

One logical record with the pins that concern it; records share no keys. A call
loads the record, computes its successor (`Process...`, pure operators) and then
does its Pebble writes one action at a time, in the order of the code. A pin's
time is the block's time or, from the mempool, the current time; so a time is the
pair of the pin and whether it came from the mempool, and index keys are such
times. The replay of PublishedContent begins once per process, at the height that a
binary search over the block times gives, ends at the height of the chain when it
began and passes over blocks that it cannot read (`skipped`); for it a block is one
pin. In SkillService a rating is stored, and then added to the aggregate by a
read and a write.

`ContentSections` and `SkillCatalog` are the reads over that record and a few
constant other records: the list of one identity with hidden records and stale
index entries, the merge of the lists of a publisher's ids into a homepage section,
and the catalog with its filters, sort orders (`sort.SliceStable` as the insertion
sort it is for short lists), cursor, homepage list with late provider aliases and
lookup by any pin. The homepage request that adds a missing index entry is a pair
of actions of SkillService, since it writes.

### ChatLog

The two chat packages store and page messages with the same algorithm; `kind`
says which one is meant, and only `collect...Messages` differs: privatechat drops
later copies of a message, groupchat does not. The key of a message is its time
and pin. The time from the mempool is any member of `Times`: the node's clock and
the header times of blocks need not agree, and a poll after a restart gives a new
one. Lists are sets of keys with an order; a page is the set of messages whose
rank lies in the window. Every HTTP request reads one Pebble iterator and is one
action; between requests anything may happen, a restart included. The client is
the environment: it sends back the cursor or timestamp of the last answer, or one
more than the largest index.

### GroupMembers

One group. A handler is a sequence of reads and writes (`Handler`), each of them
one action, so that the two goroutines interleave between a read and the write
that uses it. The member and the role of a user are different records, as in the
code; `IsAdmin`, `IsListedAdmin` and `IsBlocked` are what the API makes of them: the
member list goes through the member records, so a user with a role who was never in
the group is not in it. The message of a chat pin is in ChatLog; here its handler ends
with the list of members to whom it goes. `notifyCh` is the channel to the socket
server with its capacity `NotifyCap`: `SendNotifyEvent` drops an event when it is
full, `RouteNotifyEvent` is the server's goroutine, and a crash loses what waits.
`notified` and `lost` are pairs of a user and a pin, so that one push does not stand
for two messages.

### ChatHomes

The lists of conversations over the state of ChatLog. Groups and channels show the
largest key; the private lists scan the log by themselves, without recognising
copies of a message. A channel is listed because its pin was stored or because
messages name it.

### UserInfo

The profile of one user: a field holds the pin it came from. The scan and the
backfill write it, requests read it through the LRU and Pebble and may complete it
from a remote service that has indexed some earlier part of the chain. Every Pebble
write, every cache level and the remote answer is a step of its own. `open` says
whether this process has opened the cache's namespace; `DeleteByPrefix` does
nothing before that.

The user has three ids: metaid, global metaid and address. `own` is what the pins of
the chain carry as metaid: the real one, or the address, as on MVC, Dogecoin and
OPCAT; the pins of a backfill have the real one. `stored` has a record per id. A
completion gives the profile the ids of the remote answer (`MergeUserProfiles`), and
the profile is then saved under that metaid and, for a request by another id, under
that id too (`NeedsAlias`); a pin loads the record of its own metaid, saves under the
metaid that this record has and invalidates the cache entry of its own. The index
entries are checked against the record they lead to, with a scan when it does not
match (`FindProfile`). It is assumed that every pin has an address and every remote
answer both metaids; the ids of an answer are any of `RemoteIds`.

`excused` and `causes` are history. `excused` has the keys whose last save left the
cache as it was: it overlapped another call, was cut short by a crash, met a cache
that was not open, or was made for a pin with another metaid than the profile has.
`causes` records three things for good: a save under the pins' metaid of a profile
that was not made from the record there ("overwritten"), a profile with another metaid
under that key ("renamed"), and a save of a profile with other ids than the pins have
("foreign").

## 3. Runs

Passing runs, with the distinct states TLC finds:

* `socket_devices` (DeviceLimit, NewestSurvive, ClosedIsBeingRemoved; 181,642):
  three devices of one user with limit two and one handshake without metaid,
  eviction, closes, timeouts and a shutdown in every order. Three devices are
  enough for an eviction while another one is under way; users and types do not
  share state. Symmetry over the devices (safety only).
* `socket_live` (ClosedIsForgotten, EvictedIsDisconnected, SilentIsDisconnected):
  limit one, so two evictions can be under way; no shutdown, no symmetry.
* `federation` (GlobalListIsExact, VisibleIsRecent, SequenceMonotone,
  RegisteredIsSeen, RevokedDisappears; 132,786): one node whose clock may be one
  unit ahead, time to live 1, sequence bound 2, backoff 1 to 2, request timeout 1.
  The time to live is shorter than the backoff and as long as a request may take,
  so a snapshot can expire in flight and a node can restart while its last snapshot
  is valid. Peers share nothing but the order of the pull loop. For the global list
  there are a user on both nodes with two local connections, one who leaves the
  remote node, and a bot on this node that remote users push off the first page.
* `publisher` (StaysRegistered, FeeIsPaid, RegisteredAgain; 18,181): a validity of four
  intervals as in the default configuration, a publication of up to a quarter of an
  interval, two failures in a row, a crash, a wallet that cannot always pay for the
  largest of three sizes, and three attempts, so that they do run out (20 in the code).
* `indexer` (NoBlockLost, SeenIsRouted, CatchesUp, ImplementsLog; 55,073): a block
  with two pins of one transaction, an empty block and one with a single pin; one
  crash at any point; any number of failing calls and lost writes. The temporal
  formula ImplementsLog is the specification of LogConsumer under the mapping.
* `content` (Converges, ReplayRepairs, IndexIsCurrent, SectionIsHonest; 1,704,926):
  a create with two modifies (the second one of the first), with a modify and a
  revoke, or with a revoke and a modify that has no payload; scan and mempool together, scan and replay together, one of the scan, the
  backfill and the replay alone; one crash. Block times go back once, and any block
  the replay asks for may fail. The publisher has three more records, one hidden and
  one that only his address leads to, and a section holds fewer than he can have.
* `skill` (ServiceConverges, ListedUnderCurrent, RatedAtMostOnce, ReadersAgree,
  RevokeIsTerminal; 2,139,441, over three minutes): two modifies, the last one
  disabling the service; a revoke and a modify of it; a modify and a rating of the
  second version; a body that cannot be decoded and a grade out of range; a modify
  and a revoke that both name the create (ServiceConverges does not speak of these);
  a create that cannot be decoded. Scan and mempool, or the scan alone; one crash, or
  a modify that is polled twice. Three more services, of two providers and
  on two chains; a page holds one less than the provider can have.
* `chat` (CursorPagesComplete, TimePagesComplete, IndexedIsSeen, PushedIsListed,
  ListedOnce, HomeShowsNewest; 1,837,491): pages of one message. With the mempool
  goroutine two messages, which may be stored four times or more; with the scan
  alone three messages, two of them in one block, or messages of a channel with a
  channel pin and a pin that cannot be decoded. Poll times before and between the
  block times; a notify channel of one event; one crash where a single goroutine
  runs. `MCInit` pairs the chains with the goroutines and fixes the room that is
  read.
* `group` (RolesConverge, MembersConverge, NotifiedIsApplied, MessageReachesMembers;
  1,794,012): nine chains of three or four pins on three users, one of which creates
  the group again after its maker was blocked, and one in which the users an admin
  pin names never join; two messages of one sender; scan and mempool (chains of
  three), or the scan alone; a notify channel of one event, so that it can be full; a
  message polled twice, or one crash.
* `profile` (StaleIsExplained, PinsAreKept, StoredIsFound; 3,988,790): pins that carry
  the metaid and pins that carry the address; a name that changes while avatar and key
  are missing, an avatar and a key that complete the profile, a registration, a role
  that a backfill goes through as well, a pin of another path; one request goroutine
  beside the scan with two requests of any kind, in both modes that ask the remote
  service; one crash. Beside the backfill there is one request and no crash. The
  answers of the remote service have the real ids.

Deadlock is not checked where the system may stop: after a shutdown, or when the
whole bounded chain has been delivered.

Runs that show a disagreement between the code and what its comments, tests or
docs say (`findings` in PROJECT.json has the quotes):

* `socket_shutdown`: `DisconnectAll` holds `m.mu` while the disconnect handler it
  triggers waits for `m.mu`; `Shutdown` never returns once a connection has its
  handlers.
* `indexer_skip`: a block whose `CatchPins` failed is passed for good as soon as a
  later one succeeds.

Conditions in passing properties say where the code stops giving the guarantee:
`Converges` and `ServiceConverges` need every pin to have left the mempool
goroutine before it is mined (`~late`), `ServiceConverges` also that there was no
crash and that each version has at most one successor, mined
after it (`Linear`); `Converges` speaks of the scan alone or with the mempool goroutine. With one
goroutine `AsChain` compares the whole record with the chain; with two it says what
the last pin of the chain decides, since a revoke or a payload in the middle can be
lost (section 5); the index and rating properties need a single writer. `RolesConverge` and
`MembersConverge` name the users for whom two goroutines cannot lose an update: a
user whose role one pin writes, and one whom no admin pin names; the latter also
needs `~late`, since a join that is handled after a later leave undoes it.
`ReplayRepairs` speaks of a replay alone or with the scan and needs a replay that
could read every block and a chain that has not grown since it began. `SectionIsHonest` and `ReadersAgree` speak of the time between
calls and before a crash; with two goroutines the former promises a correct part of
the section and a correct `hasMore`, since duplicate index entries use up the limit
of a scan. `ListedUnderCurrent` says that the service is listed and found only before
a crash, and that it is listed under one time only with one goroutine.
`MessageReachesMembers` accounts for what a full channel dropped or a crash found in
it. The three properties of `profile` name the saves after which they say nothing
(UserInfo in section 2): `PinsAreKept` those that overwrote or renamed the record,
whether by overlapping calls, by a request that worked on an old cached profile (a save
before the cache was opened, or one cut short, leaves such a profile) or by a request
under whose id there was no record; `StoredIsFound` those that changed an id.

### Bounds

`MaxTime`, `MaxSeq`, `MaxSkew`, `MaxCrashes`, `MaxDelay`, `ReqTimeout`, `LongSilent`,
`MaxPolls`, `MaxRequests` and the lengths of the chains are bounds of the models, each
named where it is used. A node whose sequence reaches `MaxSeq` must restart, so the bound stops no
behaviour.

### Fairness

* SocketServer: weak fairness of every goroutine of the process that is not
  blocked (the Go scheduler). Clients, the clock and the operator promise nothing.
* Federation: time and both loops go on (tickers). Strong fairness that the
  registry lists a node and that a node which is asked answers in time; any number
  of failures may come in between. Without it nothing could be said of a node that
  never answers.
* Indexer: the goroutines go on; a block that is asked for again and again is
  returned again and again.
* Publisher: the loop, the wallet's answers (good or bad, after their timeouts) and
  time go on. Strong fairness that the wallet lists enough outputs, that the
  broadcast is reached and that it is accepted and answered, and that some publication
  finds its size before the attempts run out: RegisteredAgain says what happens once an
  outage is over.

The modules on PinFeed have safety properties only: their calls end by themselves
and wait for nobody, so what they reach is stated for the moment when all pins have
been routed.

## 4. Proofs

TLAPS proves, for every value of the constants that satisfies the named
assumptions (the type invariants, `TypeCorrect`, are proved and not among the
runs):

* `SocketServerProofs`: type correctness, DeviceLimit, NewestSurvive, ClosedIsBeingRemoved,
  for any finite set of connections, any users and types, any positive limits
  (`SockAssumption`, `LimitAssumption`, `TimeAssumption`). The invariant adds
  `Bookkeeping`, which ties the position of `onConnection` to the rest: only
  connections past `Add` are tracked or listed as stale, `addedAt` is below
  `added`, handlers exist only for a connection that is being served, a goroutine
  inside a handler means that the connection has closed, and a victim is past
  `Add`. `AddFits`, `DropFits` and `ReplaceFits` are the counting lemmas: below the
  limit one more fits, a connection less still fits, and at the limit one leaves
  for the one that comes.
* `FederationProofs`: type correctness, VisibleIsRecent, SequenceMonotone, for any number of
  nodes and any timing (`FederationAssumption`). `StoredIsRecent` and
  `ResponseIsRecent` say that the time left of a snapshot and the silence of its
  node add up to at most the time to live and the skew, in the store and in
  flight; `StillNewer` says that what `validateSnapshot` found is still true when
  the snapshot is stored, because the puller is the only writer of snapshots and
  discovery only removes them. VisibleIsRecent is not inductive without the
  response in flight, SequenceMonotone not without `StillNewer`.
  The module also has the theorems about Publisher: type correctness,
  StaysRegistered, FeeIsPaid, for every validity, interval, request time, fee rate,
  balance and finite set of sizes. `PublisherAssumption` has the inequality that the
  defaults satisfy and that the theorem rests on: the intervals and requests of
  `MaxFails` failed publications and of the one that follows fit into the validity.
  `LeaseOK` says how much of the lease is left at every point of the loop when f
  publications have failed (`Slack(f)`); `TickerOK` is needed because a slow request
  uses up part of the next interval. `FeeOK` says what the attempts are used up on:
  each one raises the fee past a size that it did not cover, so there are no more
  attempts than sizes that the fee covers (`RaiseCovers`). Nothing is assumed of the
  number of sizes or of attempts.
* `IndexerProofs`: type correctness, NoBlockLost, SeenIsRouted, ImplementsLog, for any chain, start height,
  deduplication time and number of crashes (`IndexerAssumption`).
  `PersistedIsCovered` says that the stored height is as good as the one in
  memory, `ScanProgress` that between `lastHeight` and `h` there are only failed
  heights and that a block with no pin left is done. `EngineImplementsLog` is the
  refinement: `Log!Init` follows from `Init`, and under the inductive invariant
  every step is a step of LogConsumer or a stutter (`StepImplementsLog`). A failing
  `CatchPins` is a Miss, routing the last pin of a block a Deliver, finishing a
  block an Acknowledge, a crash a Restart. The invariant is needed at Acknowledge:
  ScanProgress gives that everything between the cursor and the block has been
  delivered or reported, and `WithinTip` that the block is part of the log.
* `PublishedContentProofs`: type correctness, IndexIsCurrent, Converges, ReplayRepairs,
  for any chains, block times, payloads, sets of goroutines and crashes. For
  IndexIsCurrent, with each kind of goroutine alone, the invariant says of each write
  of `saveRecord` what the index can hold while it is at that write
  (`SaveInProgress`), and that only a goroutine that runs calls. For the other two,
  `Placed(r, n)` says that a version r is not older than the n-th pin: a confirmed one
  has such a pin as its current one, a pending one none of the first n. `ScanPlaced`
  keeps the record and what the scan is about to write as new as the pins that the
  scan has written; a write of the mempool goroutine does no harm because `FeedOK` has
  its pin beyond what is mined. `ReplayPlaced` is the same beside a replay. It is not
  inductive without `ScanFirst`: between writing a record and mapping its pin the scan
  leaves a moment in which the replay can ignore a version that names that pin, and
  then the record must still be the one that the scan wrote. `ScanMapped` says that
  what the scan has passed can be named, hence that the scan ignores nothing but the
  create pin of a confirmed record (`IgnoredFacts`). With one goroutine `AloneOK`
  gives the current pin, the hidden flag and the payload each *some* position from
  the passed ones on (`Folded`), since a crash sets the goroutine back behind what is
  stored. `FindsFirstBlock` is what the binary search `findHeightAtOrAfter` computes:
  a block of the range and, if the blocks at or after the time asked for are not
  followed by an earlier one, the first of them. Type correctness and the replay of
  every block rest on it.
  `RecordIsFound` is what SectionIsHonest needs of the store: with any goroutines,
  before a crash and between two calls, the record is listed under its present sort
  key and its current pin leads to it. One goroutine may delete the entry that another
  has just written; `ReadsOK` says that it is then about to write the record and an
  entry of its own.
* `SkillServiceProofs`: type correctness with any goroutines; ServiceConverges, for
  linear chains of any length, with the scan alone or beside the mempool;
  ListedUnderCurrent, whose first half holds with any goroutines; RatedAtMostOnce and
  the action property RevokeIsTerminal with one. `SaveOK` says
  that until the record is written a call has seen it as it is, so that a computed
  successor of a revoked service is revoked (`RevokedStays`); `RatingOK` that while a
  rating is stored and not yet counted the aggregate lacks one. A crash at that
  point leaves the aggregate one short for good, which the inequality allows.
  For ServiceConverges, `RecordAt(m)` says that the record is what the first *m* pins
  make of it, for some *m* that the scan has not passed, and that a pin which names
  one of those versions finds the service at the latest when a running call returns
  (`Settled`); `Writes` that a call about to write the record has the successor of the
  stored version. From `FeedOK`, that until a pin is late the mempool goroutine works
  on pins that are not mined, follow the two facts that matter: the goroutines are
  never both about to write (`OneSaves`: it would be with the same pin), and the scan
  never drops a pin because the `pin_to_source` entry of its target is still to be
  written (`IgnoredKeeps`). What the recursive reading `ChainVersion` of the chain
  gives is shown first: it exists, a version does not come back (`VersionConstant`),
  and on a linear chain a pin follows the version it names (`LinearNext`).
  `ReadersFindCurrent` is the part of ReadersAgree that depends on the saves and not
  on how a list is folded: with any goroutines, before a crash and between two calls,
  the index entry and the two mappings of the stored version exist, so that the
  homepage and the lookup by pin find it. Its invariant `ReadsOK` says that what a
  reader needs is there or that a call is about to add it or to replace the record
  (`EntryPending`).
* `ChatLogProofs`: type correctness, and every property of the run `chat`, for any chains,
  messages, rooms, times, page size and capacity. The server counts pages by rank,
  the number of newer keys; `RankBijection` says that ranks number the keys of a
  finite set without gaps and `PageFull` what a page of ranks covers. `CursorOK` says
  that a message which the client has still to see is listed at or behind its
  cursor: new messages only push it further back. A backdated copy moves it forward,
  which is why `backdated` is in the property. `TimeOK` is the same for timestamps,
  and `IndexOK` says with one goroutine that a message about to be stored has a larger
  index than all listed ones. HomeShowsNewest follows from the type invariant and the
  finiteness of the log: the scans of the lists find the greatest element of a
  finite order.
* `GroupMembersProofs`: type correctness, RolesConverge, MembersConverge,
  MessageReachesMembers, NotifiedIsApplied, for any chains, users, lists of named
  users and number of crashes. Nothing in the stored state says how far the chain has
  been read, and a crash sets the scan back behind what is stored; so the invariant
  says that a stored record is what the pins up to *some* position from `pos` on give
  it (`MembershipOK`, `FlagsOK`, and `MessagesOK` for what was pushed), and at the end
  the only such position is the whole chain. `CallOK` ties what is left of a call to
  the handler of its pin, and `StepFits` says which step came before a write.
  `RolesOK` and `MembersOK` give every flag a pin that set it, in the store and in
  what a goroutine has read. `MessagesOK` speaks of pushed, lost and waiting events
  together; the channel may have any capacity. `Loaded` says that with one goroutine
  what was read is still true when it is written; with two, the conditions of the properties make
  `RolePinDone` and `AtMostOne` enough for roles, and for members `FeedOK` says that
  until a pin is late the mempool goroutine works on pins that are not mined, so that
  the scan handles all of them again, in order.
* `UserInfoProofs`: type correctness, StoredIsFound, StaleIsExplained, PinsAreKept, for
  any chain, fields, modes, remote ids and number of requests. `CallsOK` says where a
  call is going to save and which cache entry it removes then. Each property has an
  invariant of its own on top of it. `IndexOK` for StoredIsFound: until a save is
  "foreign", every record and what is being saved has the ids of the pins, an index
  entry leads to their record, and a copy under an alias exists only where both entries
  do, so that a scan, which could meet the alias, is never needed then. `StaleOK` for
  StaleIsExplained: of a key that is not excused, the cache entries are the stored
  profile or a call that is alone has still to remove them (`Pending`), and what a call
  is about to put into the cache is that profile (`CopyFresh`). `KeptOK` for
  PinsAreKept: the record has of every field a mined pin that is at least as new as
  those the scan has written (`Kept`), and what a call is about to save keeps what the
  call has read (`Derived`), which is still the record as long as nothing is
  "overwritten". A completion fills only empty fields, the avatar aside (`MergeType`).

The proofs assume of the constants only what the ASSUMEs of the modules say, and TLC
evaluates those on every run. `FeedAssumption` says that a chain is a non-empty
sequence of pins; `PublishedAssumption` that the pins of a published record are
different, that the first one creates it and that each later one modifies or revokes
an earlier one, as a pin can only name a pin that exists; `SkillAssumption` that the
pins of a service are different and that only the first creates it; `UserInfoAssumption` that the scan goroutine always runs, as it does
in the process, and that the absence of a profile is not a profile; `GroupAssumption`
that a chain begins with the pin that creates the group and that the package is called
by the scan and mempool goroutines only, since it has no backfill. "With one
goroutine" is `Cardinality(writers) = 1` in the property itself and not an
assumption.

Where an argument needs induction over numbers (a finite set has a greatest key, a
field has a last pin), the proof takes a least counterexample instead, from the
well-foundedness of `<` on the natural numbers (`LeastExists`, `BoundExists`,
`LastExists`). The binary search of PublishedContent is a recursive function, that is a
function chosen to satisfy its equation. `SearchExists` shows that there is one: if
not, there is a least length of ranges on which no function satisfies the equation,
and one for shorter ranges extends to it (`OneMore`). What it finds is shown in the
same way, and so is what ChainVersion of SkillService computes (`VersionExists`,
`VersionPlace`).

Only model-checked:

* the liveness properties: fairness and ENABLED are out of the prover's reach;
* GlobalListIsExact, SectionIsHonest, ReadersAgree: what the folds and sorts of
  GlobalPresence, ContentSections and SkillCatalog compute for every input needs
  induction over sequences, which the installed provers do not do; TLC compares them
  with reference definitions in every reachable state. Of ReadersAgree
  and SectionIsHonest, what the readers find in the store is proved
  (`ReadersFindCurrent`, `RecordIsFound`).

## 5. Observations without a run

Met while modelling; each follows from the code and is stated here so that the
conditions in the properties can be understood.

* `socket/server.go:134` and `:142`: a connection that closes between `Add` and
  the registration of its "disconnect" handler is never removed; the cleanup
  disconnects it in vain. ClosedIsBeingRemoved therefore speaks of connections
  with handlers.
* `federation/puller.go:262`: a `generatedAt` in the future is accepted, so a node
  whose clock is ahead stays visible for the time to live and its skew
  (VisibleIsRecent has the skew for this reason).
* `federation/puller.go:228`: a pull that ends after `RemovePeer` stores a snapshot
  for a peer that is gone; `activeSnapshots` hides it unless the peer comes back.
* `federation/discovery.go:176`: `maxPeers` cuts the page just read; peers of
  earlier pages stay.
* `indexer/engine.go:222`: a crash between routing a block and storing its height
  makes the engine route the block again.
* `indexer/engine.go:302`: deduplication is by transaction, so of a mempool
  transaction with several pins only the first is routed (the rest come with the
  block).
* The engine has no handling of chain reorganisations.
* `publishedcontent/backfill.go:80`: MANAPI lists the newest pin first; modify and
  revoke pins come before their create and are dropped.
* `publishedcontent/replay.go:84`: a replay hands old versions to a record that has a
  newer one, and `processModify` does not compare them. Until the replay reaches the
  newest version readers see an old one; if a block cannot be read, or a version is
  mined and scanned after the replay began, the old one stays.
* `cmd/metaso-p2p/publishedcontent_replay.go:147`: the binary search needs block times
  that do not go back; otherwise it can begin behind a block of the lookback.
* `publishedcontent/process.go:121`: a confirmed pin does not replace a pending version
  of another pin, and nothing of it is merged into that version. When a later modify
  was pending while a revoke was confirmed and is then confirmed itself, the record is
  visible again, where the same pins in the order of the chain leave it hidden; a
  payload of the earlier pin is lost in the same way. A test
  (`TestConfirmedRevokePreservesNewerPendingMempoolModify`) fixes what is kept
  (AsChain says less with two goroutines for this reason).
* Two goroutines on one published record: a scan that loaded the record before a
  write of the backfill or the replay and writes after it undoes that write. A replay
  comes to the last pin afterwards, so the current pin is right in the end, but a
  revoke in the middle of the chain can be lost; a backfill ends with the oldest pin
  and can leave an old version.
* Two goroutines that save one published record leave two index entries, where
  `docs/superpowers/specs/2026-06-09-bot-homepage-v2-design.md:778` asks for no
  duplicates. A homepage section drops the copy, but the copy counts against the
  limit of `scanIdentity` and can push other records out; `hasMore` is then set
  (SectionIsHonest).
* `publishedcontent/process.go:59`: a mempool pin delivered after its block marks
  the record as pending again, and nothing confirms it (`late`).
* `publishedcontent/process.go:44`: after a crash between the record and its index
  entries the repeated create is ignored and the record stays unlisted.
  IndexIsCurrent is a subset relation for this reason.
* `skillservice/process.go:156`: after a crash between `saveService` and
  `mapPinToSource` the repeated modify no longer names the current version and is
  skipped; the next version cannot be resolved and the chain of versions stops
  (ServiceConverges and the first half of ListedUnderCurrent speak of the time before
  a crash for this reason).
* `skillservice/process.go:122`, `:178`: a modify or revoke must name the current version.
  The API document (`docs/specs/2026-05-28-bot-hub-skill-service-aggregation-api.md:129`)
  asks that it name the create pin, says at `:325` that the previous version is not the
  normative form, and at `:136` that a service is hidden when its latest operation is a
  revoke. After a modify, a revoke written as the document asks is skipped, and the
  service stays visible; of several modifies that name the create pin only the first
  counts. A test (`TestProcessServiceModify_StaleTargetIgnored`) fixes the behaviour of
  the code. ServiceConverges speaks of chains in which no version is named twice, and
  takes no side.
* `skillservice/process.go:123`: of two pins that name the same version the first one
  delivered wins, and the mempool can deliver them otherwise than the chain has them:
  a service that the blocks alone leave modified can end revoked, on one node and not
  on another (`Linear` leaves these chains out as well).
* `skillservice/rating.go:248`, `:117`: two goroutines lose one of two ratings or
  count one twice, where `docs/specs/2026-05-28-bot-hub-skill-service-aggregation-api.md:346`
  asks that a rating pin be counted once (RatedAtMostOnce needs one goroutine).
* A crash between the service record and its indexes hides the service from the
  lists until its next version.
* `skillservice/list.go`: a descending sort negates the comparison, so services
  with equal keys come in reverse order; every order lists the same services.
* `skillservice/detail.go`: with a chain in the request any version resolves, without
  one only the first and the current pin.
* `skillservice/rating.go:102`: a rating of a service that is not indexed yet is
  stored and never added; a crash between storing and adding has the same effect.
* `groupchat/db_chat.go:119`: the key of a message has its time, so a message that
  comes from the mempool and from its block is stored, listed and pushed twice.
* `groupchat/db_chat.go:131`: two goroutines may give two messages one index, and a
  message that is delivered again gets a new one; the "continuous message index"
  (`db_chat.go:161`) then has a duplicate or a gap, and a client that follows it
  can miss a message (IndexedIsSeen needs one goroutine).
* `docs/GOAL_DRIVEN.md:165` wants the newest 20 messages, newest first, for
  `startIndex=0`; `groupchat/db_chat.go:161` returns the messages from that index on, in
  rising order, as the contract document and the tests have it. IndexedIsSeen follows
  the code.
* `groupchat/notify.go:19`: an event is dropped with a log line when the channel is full;
  events in it are lost when the process stops. The message is stored, and nobody is
  told of it later.
* `groupchat/db_group.go:160`: the member list goes through member records, so an admin
  who never joined is an admin by `GetGroupUserRole` and not in the list.
* `groupchat/db_chat.go:488`: messages of one block share a time; a client that
  follows `nextTimestamp` loses those behind a page boundary.
* `privatechat/db.go:230`: when the block's time is earlier than the poll's, the
  listed copy moves to an older place and a client with an offset cursor can skip
  the next message (`backdated`).
* `groupchat/process.go:592`: the transaction id is part of the key and the pin id
  is not, so of two messages to a group in one transaction one is kept.
* `groupchat/process.go:335`: one event is returned for all users that an admin or
  block pin names; only the last is told, where `docs/GOAL_DRIVEN.md:167` promises
  it to the users concerned.
* `groupchat/process.go:546`: `memberCount` changes on every delivery of a join or
  leave (mempool and block count twice), and not when a chat adds the sender.
* `groupchat/process.go:162`: a create pin whose payload names a group that exists
  resets its count and the member and role records of its maker, and so unblocks a
  maker whom a block pin named (`BlockedAt`).
* `groupchat/process.go:325`, `:367`: a member or role record read before, and
  written after, the other goroutine's write brings a member back or loses a flag.
* `groupchat/db_group.go:182`: the role's `isRemoved`, which nothing sets, hides
  that a user with a role has left. A blocked user can join and chat.
* `privatechat/db.go:287` and `groupchat/db_chat.go:652`: the private lists do not
  recognise copies, so a block copy with a later time can make the preview show a
  message that is not the room's last; among equal times the preview has the
  smallest key and the room the largest (HomeShowsNewest states what is left).
* Blocked users still send and receive group messages: nothing in the handler of a
  message reads the block flag.
* `privatechat/process.go:134`: a block pin is only logged; `docs/GOAL_DRIVEN.md:201`
  wants it in the list of blocked chats.
* `storage/pebble.go:108`: `Delete` and `DeleteByPrefix` do nothing while the
  namespace is not open; after a restart a pin that changes a profile before the
  first request leaves the old one in the second cache level, which has no time to
  live.
* `userinfo/module.go:134`: an init pin saves the profile and invalidates nothing.
* `userinfo/remote.go:223`: a completion gives a profile the remote ids. On MVC, where a
  pin carries the address as metaid (`chain/mvc/indexer.go:123`), calls one after the
  other are then enough to lose sight of pins: a name pin makes a record under the
  address; a request or lookup by that id completes it,
  saves it under the remote metaid and leaves an alias under the address; the next name
  pin loads the alias, saves under the remote metaid and invalidates the entry of the
  address. From then on requests by the address's id read the alias with the old name,
  and each later pin starts from that alias again, so that it undoes the fields of the
  pins in between. A completion by address saves under the remote metaid only and the
  pins go on under the address; the real global metaid then finds a record that they no
  longer update. `userinfo/module.go:198` says "Invalidate cache for this user"; the
  test of it (`module_test.go:595`) has pins with a metaid of their own.
* `userinfo/remote.go`: a request by an id that has no record saves what the remote
  service answers over whatever is under the answer's metaid, so a service that lags
  behind takes fields back without any overlap ("overwritten").
* `userinfo/remote.go`: a completion that was read before a pin and saved after it
  undoes the pin; a remote avatar wins even when it is older; the copy under an
  alias is not updated by later pins; the entry from the metaid to the address is
  read nowhere.
* The userinfo backfill goes from the newest pin to the oldest and leaves the oldest
  role.
* `federation/publisher.go`: with the default 24 hours and 6 hours a registration
  survives two failed renewals in a row and not three
  (`docs/superpowers/specs/2026-06-02-federated-presence-design.md:109`).
  `PublisherAssumption` has the inequality.
* `federation/mvc_tx.go:148`: the fee grows with every attempt, so each failed attempt met a
  larger size than all before it. Every input is signed anew and signatures differ in
  length, so a wallet with many outputs has more sizes than the 20 attempts; that
  they run out is then improbable, not impossible, and the publication fails.
* `federation/discovery.go`: a revoke pin is honoured only when it carries a complete
  and valid node payload.
* `socket/manager.go:200`: the local online list is paged over a Go map, whose order
  changes from request to request; pages may repeat or omit users. The global list
  is sorted.
* `bothomepage/presence.go`: the homepage reads the first 100 entries of the global
  list; a bot that is only on a remote node and further down is "unknown".
* `socket/server.go:335`: nothing reads the channel that `PushChannel` returns,
  although its comment says that messages sent to it are broadcast.
* `aggregator/notify/module.go`: two requests that change one user's list of blocked
  chats at the same time lose one change; a read that fails is taken for an empty
  list.
* `cmd/metaso-p2p/main.go`: `idxEngine.Stop` does not wait for the goroutines
  before the store is closed.

## 6. Not modelled, and the plan

Not modelled for good:

* script and transaction parsing of the chain adapters, the wallet's JSON,
  signatures, the address codec, configuration and the router: pure I/O,
  cryptography, byte-level decoding or stateless wiring. The engine sees blocks of
  pins and errors; a bad signature is a failed pull.
* the notify aggregator: one list per user, read, changed and written back by two
  HTTP handlers without a lock. Nothing else touches it, and beyond the lost update
  named above there is no behaviour to check.
* the wiring and start order of the process: `Shutdown` of the connection layer is in
  SocketServer, the replay goroutine in PublishedContent, and for the store a stop at
  any point is a crash, which every module has.
* in modelled components: the parsing of registry pins, profiles added to presence
  rows, the JSON of the APIs, join histories by alias, communities, search, identity
  aliases of private chats, paging of the backfills.

Planned, in this order:

1. Refinement: an abstract record that changes in one step, which PublishedContent
   and SkillService implement with one writer; `Indexer` implements the delivery that
   `PinFeed` promises (with the skipped blocks made explicit).
2. The parts of GlobalListIsExact that need no fold: every row has a witness in a
   snapshot that is visible, hence recent.
