# apt-p2p in TLA+

apt-p2p is a proxy for apt. It takes an HTTP request for a Debian file, finds
the file's hash in the mirror's index, looks the hash up in its own cache and
in a Kademlia DHT, and downloads the file in pieces from other peers and from
the mirror, checking each piece against its hash. This directory holds TLA+
modules of its parts, TLC runs that check them on small instances, and proofs
for TLAPS. Paths of sources are relative to the repository's root.

Everything runs in one process on Twisted's reactor: a handler runs to its end
before the next one starts, except for `_load` of the packages cache and the
hashing of files, which run in threads. Hence an action of a module is normally
a whole handler; what interleaves is the order in which delayed calls,
datagrams, HTTP responses, timers and threads come back.

Abstract promises tie the parts together. `RequestOnce` says what it means
that a Deferred is concluded exactly once; the UDP requests (`KRPC`), the HTTP
connections (`Peer`), the DHT facade (`DHT`) and the whole of a request of apt
(`AptP2P`) are each shown to implement it, and each takes it, as an
environment, from the parts below.

## Inventory

| Part | Source | State | Operations | What is hard | What makes it correct |
|---|---|---|---|---|---|
| UDP requests | `apt_p2p_Khashmir/krpc.py` | a table of transactions per address; per request three delayed calls | request, resend, time out, receive, stop | answers lost, doubled, late; timers racing answers; callbacks inside `stop()` | each Deferred fires once and in time |
| Routing table | `apt_p2p_Khashmir/ktable.py`, `node.py` | buckets of nodes, last seen, failures | insert, see, fail, invalidate, find; split and merge | long sequences of splits and merges; restart | buckets partition the IDs, are ordered by last sight, and lookups find what is there |
| DHT operations | `apt_p2p_Khashmir/actions.py` | found, queried, answered, failed, outstanding nodes; results | start, schedule, response, failure | late answers of dropped requests, failing nodes | one final result, thorough, bounded number of stores |
| DHT node | `apt_p2p_Khashmir/khashmir.py`, `db.py` | pings under way, token secrets, stored values | ping, join, insert, checkpoint, answer requests | pings, re-pings and stale nodes replacing each other; token lifetime | a ping per node at a time, tokens accepted as long as promised |
| DHT facade | `apt_p2p_Khashmir/DHT.py` | joined, joining, outstanding joins, pending lookups | join, leave, get, store | parallel bootstraps, retries racing leave | join ends once, every lookup is answered |
| DHT manager | `apt_p2p/DHTManager.py` | hashes to refresh, a timer | join, store, refresh | timer and completion both continue | every due hash is announced, none twice at a time |
| File download | `apt_p2p/PeerManager.py` | pieces, peers on the list, outstanding requests, errors | find hashes, start, request, response, piece done or failed | counters over seven handlers, damage, dropped peers | only verified data is served, nothing lost or doubled, an end |
| HTTP connections | `apt_p2p/HTTPDownloader.py` | queue, sent requests, busy/pipeline flags | submit, connect, complete, lose | lost connections with requests in the pipeline | each request concluded once, the queue never forgotten |
| Streams | `apt_p2p/Streams.py` | what is available to the reader | write, read, make available, close | reader and writer close in any order | the reader gets all there is, and an end |
| Packages cache | `apt_p2p/AptPackages.py` | loaded, loading, pending unload, timer | load, unload, find, file updated | the loading thread, chained Deferreds, failures | fresh answers, nobody forgotten |
| Mirror manager | `apt_p2p/MirrorManager.py` | a dictionary of packages caches | find, update | - | - |
| Cache manager, cache database | `apt_p2p/CacheManager.py`, `db.py` | files, hashes, refresh times; a scan | save, scan, hash, expire | a chain of asynchronous steps that may each fail | what is in the database is on the disk, with its hash |
| Main program | `apt_p2p/apt_p2p.py` | requests under way | request, freshness check, lookup, download, save | two requests for one file | every request is answered |
| HTTP server | `apt_p2p/HTTPServer.py`, `policies.py` | throttled streams | serve, throttle | timers over shared token buckets | bandwidth limit kept, no stream starves |
| Hashes, statistics, configuration, utilities | `Hash.py`, `stats.py`, `apt_p2p_conf.py`, `util.py`, `bencode.py`, ... | - | - | - | - |

The parts call each other through Deferreds. The main program asks the
packages cache for a hash, the DHT facade for peers, the file download for the
file and the cache manager to save it. The facade starts DHT operations, which
send UDP requests through the DHT node; answers and failures are reported to
the routing table, and the node pings whom the table wants to replace.

## Modules

| Module | Models | Proofs | Runs |
|---|---|---|---|
| `RequestOnce` | what callers are promised | - | implemented by four modules |
| `KRPC` | client half of `krpc.py` | `KRPC_proofs` | `KRPC_once` |
| `KTable` | the routing table of `ktable.py`, lookups in it, its saving and loading | `KRPC_proofs`, `SetLemmas` | `KTable_small` |
| `Khashmir` | pings and the upkeep of contacts in `khashmir.py` | `Khashmir_proofs` | `Khashmir_pings` |
| `KhashmirStore` | tokens, checkpoints, stored values, long responses | `Khashmir_proofs`, `SetLemmas` | `KhashmirStore_life` |
| `Action` | `actions.py` | `Action_proofs`, `SetLemmas` | `Action_search` |
| `DHT` | `DHT.py` | `DHT_proofs` | `DHT_calls` |
| `FileDownload` | `PeerManager.py` | `FileDownload_proofs`, `SetLemmas` | `FileDownload_all` |
| `Peer` | `HTTPDownloader.py` | `FileDownload_proofs` | `Peer_queue` |
| `AptPackages` | `AptPackages.py` | `AptP2P_proofs` | `AptPackages_load` |
| `Save` | saving a download: `CacheManager.py`, `Streams.py`, `Hash.py` | `Sharing_proofs` | `Save_stream` |
| `Sharing` | scan, database, announcements: `CacheManager.py`, `db.py`, `DHTManager.py`, `HTTPServer.py` | `Sharing_proofs` | `Sharing_files` |
| `AptP2P` | a request through all parts: `apt_p2p.py`, `HTTPServer.py`, `MirrorManager.py`, `CacheManager.py` | `AptP2P_proofs` | `AptP2P_requests` |

Each `MC` module instantiates its namesake for TLC.

### RequestOnce and KRPC

`RequestOnce` is what callers of `KRPC.sendRequest` rely on: a request is made
once, is pending, and is concluded once, with an answer, an error, a timeout or
a notice that the protocol was stopped, and under fairness it is concluded. A
call may be refused at once, one event may conclude several requests (a lost
connection, a lookup that several callers share), and callbacks may make new
ones (`ConcludeAndIssue`).

`KRPC` is the client half of `krpc.py`. Per address (`Conns`) it has the table
`tids` and `stopped`; per request (`Reqs`, each with a transaction ID of its
own) the delayed calls `laterSend`, `laterNextTimeout`, `laterFinalTimeout`,
the resend `delay`, and what its Deferred was fired with. A delayed call is the
number of time units left, or `Off`; `Tick` lets time pass; a call may be late
by `MaxLate`, and calls run in the order of their times (`Due`). `Receive`
stands for any datagram with the ID of a request, from any address, at any time
after a datagram was written, any number of times: UDP loses, doubles and
delays. Loss needs no action; a datagram that never comes is lost.

`stopProtocol` and `stop()` are split at the callbacks they run: `StopConn`
takes the snapshot of the table, `StopErrback` errbacks a request, during which
callers' callbacks may make new requests (`inCallback`), `StopFinish` clears
the table. Meanwhile the reactor runs nothing else (`ReactorFree`).
`Reentrant` says whether such a callback may ask the very node that is being
stopped; see the known disagreements below.

`elapsed` is the wall clock's distance from the request's start. The code uses
`datetime.now()`, which may jump; the model's clock does not.

### KTable

The table is a sequence of buckets, each a range of IDs with a sequence of
nodes. The operators follow the methods: `AddNode`, `Split`, `MergedBucket` of
`KBucket`; `BucketIndex`, `MergeBucket`, `WithoutNode`, `Inserted` of `KTable`,
with the chain of splits before an insertion apart (`SplitFor`). What the code
does by recursion or in a loop is a recursive function here. Actions are the
calls that `khashmir.py` makes, and `Restart`: the last checkpoint's table is
loaded by a new process. `answer` records what an insertion was and returned,
for properties of one step. `FindNodes` changes nothing. It fills its result up
from the buckets next to the target's and may pass over closer nodes in farther
ones; `FindNodesReliable` states what callers can rely on nevertheless. The
exclusive or of two IDs (`Distance`) is a recursion over their bits, of which
TLC checks that it is the community modules' (`DistanceIsXor` of `MCKTable`), and
sorting gives a node the place behind those that are closer. The clock counts insertions; TLC's view keeps only
the order it induces. `TableIsSound` gathers what makes the table one: its
buckets partition the IDs, are ordered by last sight, and only those that hold
the own ID or its sibling's are split.

### Khashmir and KhashmirStore

`khashmir.py` is modelled in two modules, as its two halves share no state.

`Khashmir` has one bucket that is full or not (what splitting does is the
subject of `KTable`) and `pinging`, which holds for a node a Deferred
(`"sent"`), a delayed call (`"later"`) or nothing. Whoever wants a node pinged
while it is being pinged shares the Deferred: `waiters` are the errbacks added
to it, each a `_staleNodeHandler` for a newcomer, and `rePings` says whether a
`rePing` was added too. When a ping fails,
its errbacks run one after the other (`failing`, `handlers`) within one event of
the reactor, and each inserts a node, which may start other pings. An answer
from another node than the one that was asked, to a ping or to any other request,
counts as a failure of the latter, which is taken from the table before
(`checkSender` in `knode.py`). The tests for staleness are abstracted: a
node may become stale, and a delayed ping may run, at any time.

`KhashmirStore` has the secrets, the tokens that hosts hold, the values of one
key, and a clock of intervals. Secrets are lost in a crash, values are not.
A token is known by the place of its secret in the list; `Checkpoint` pushes a
secret in front of it. `FirstGuess` and `Corrected` are the arithmetic of
`_sendResponse`, on lengths: the guess as if all values were equally long, and
the loops that correct it upwards and then downwards.

### Action

A node is its distance from the target. `kind` is `find` (FindNode and
FindValue), `get` or `store`. `Schedule` is `schedule()`, part of every
handler. The loop over the sorted nodes is given in closed form by `LookedAt`:
the loop comes to all nodes up to the first behind which the requests
(`SentUpTo`) or the results are enough (`StopsAt`). `Awaited` is the side effect of
`getNodesToProcess`: a search forgets requests to nodes that are not among the
closest any more; their answers remain in flight and are still taken. For
`get` and `store` the initial nodes are anything a search can have returned.

### DHT

Calls of `join`, `getValue` and `storeValue` have a Deferred each (`status`).
Bootstrap nodes and the searches that they lead to are counted: an answer that
comes after `leave()`, or during a later join, counts down that join's
`outstandingJoins` as it does in the code, below zero if need be. `JoinComplete`
may find the join already ended, or not yet ready to end. `Rejoin` is the
delayed call of a join that found nobody. Callers of one key share a lookup
(`retrieving`), which first searches for nodes that have values (`finding`,
`FindEnds`) and then gets them in parts (`lookups`, `retrieved`). The keys and
values of a storage are pairs, and `storing` names the one caller of each.

`Leave` closes Khashmir's database (`open`), which nothing opens again. What is
under way goes on, but a lookup that is still searching for nodes raises an
exception when it has found them and is never heard of again; its key stays in
`retrieving`, so that later callers wait with the others. `LookupEnds` runs the
callbacks of those who waited: calls of `getValue` that these make (`more`) for
the same key are put on a list that is deleted afterwards (`"dropped"`).
`Told` maps a call that is refused by an exception or a failed Deferred to
`RequestOnce`'s `"stopped"`.

### FileDownload

A download knows `complete` (a piece is free, done, or being fetched from a
site), `sitelist` (peers to be asked next), `outstanding`, `errors` per peer,
`nextFinish` (the prefix offered to the HTTP client). `GetPieces` is the
loop that ends nearly every handler and is part of each action. The lookup of
the piece hashes comes first: known at once, from the DHT, or from the peers;
the hash requests to peers share the counter with the piece requests.
`LookupRaises` are the exceptions in this that nobody handles (`raised`), after
which nothing goes on; `late` says that a hash request failed when
`startDownload` had reset the counter. The connections are the environment: a request is answered with a good, wrong or
404 response or fails; a response ends with the right data, with damaged data,
or breaks off. The HTTP client may close the stream at any time. Ranks and the
order of dictionaries are abstracted to any choice.

Two details follow the code where one may not expect it. If a piece is done
when no stream exists, the code fails with an AttributeError after
`completePieces` and `nextFinish` have been changed; `GotPiece` has that case.
A file that is closed asks for nothing more, but answers keep coming in.

### Peer

`Peer` has the queue of requests to one site, the flags that `processQueue`
looks at (`connecting`, `closed`, `busy`, `pipeline`, `peer_outstanding`), the number
of `callLater(0, processQueue)` that are pending, and the protocol of the
current connection: the requests it holds (`inRequests`), whether the first
one's response is being read, and `readPersistent`. What `twisted.web2` does
with these is modelled from the methods that the code overrides and the
callbacks it gets (`clientBusy`, `clientIdle`, `clientPipelining`,
`clientGone`). A connection may be refused, lost or told to close at any
moment, and a response may announce that the connection persists, may be
pipelined, or ends. The `except` branch of `processQueue` (which names undefined
variables) is left out: the assertions that could lead there are implied by the
conditions before it (`CanSend`).

### AptPackages

The index files are a version number, raised by `FileUpdated`. A call of
`_load` is a job: `LoadReads` (the thread reads the list), `LoadEnds` (it has
loaded, found nothing, or raised), then the reactor runs `doneLoading`
(`LoadAgain`, `DoneLoading`) or, after an exception, nothing but the errbacks
(`LoadFailed`). Chaining a second Deferred to the first leaves None as the
second's result; those who called `load()` during a second load therefore get
an empty hash (`late`). `jobs` is a sequence so that two loads at a time could
be seen if the code allowed them. The unload timer may fire at any time.

### Save

`Save` follows the downloads of one URL through `save_file`, any of which may
begin while others go on: the data comes in lengths that
have nothing to do with pieces or with what apt reads at a time, is hashed in
pieces (`Update`, `Digest`), possibly decompressed, and made available to the
stream that apt reads (`Read`, `Close`), which may wait for data (`deferred`).
The end comes as `SaveCompletes`, with the right hash, a wrong one or none to
compare, or as `StreamFails`. Writer and reader share a file object, so that
closing one closes the other's (`open`). Files have names: a stream that
is closed late removes whatever is at the path then (`AtPath`). `row` is what
the database says of the path: the download that was hashed and the file that
was there when its size was recorded. `during` remembers which downloads began
while a download received its data. A HashObject with a SHA1 hash has no piece
hashes if the file is one piece; `NotSHA1` are the downloads whose expected
hash is of another kind.

### Sharing

`Sharing` is about what a peer promises to others: that a file it has recorded,
and that has not changed since, has the hash it is shared under, and that the
hashes it shares are announced in the DHT. It does not promise that a file whose
hash it announces is still there, as nobody looks (see the known
disagreements). Its state is the disk, the tables `files` and `hashes`, the
files that are being saved, the scan (`scan.step` says what it waits for: a
thread or a storage), the list of hashes to refresh, and the storages under way,
with who started them. `RefreshFiles` is called by the timer and by the end of
each refreshing storage, so that there are two chains over one list.

Files change at any time: those of the user behind the program's back
(`Change`), those of the cache by downloads and requests. `SaveFile` replaces
what is at a path even if it is being saved; `save` is how far the latest saving
is, and `older` the paths for which earlier ones go on. When one of these ends,
it records whatever is at the path (`SaveComplete`), or removes it (`SaveError`,
`Remove`). A decompressed file is hashed in a thread and recorded later
(`DecWritten`, `DecHashed`), as are the files of a scan. A row is `late` if its
file was changed or replaced between being hashed and being recorded; for such
rows nothing can be promised, until the file changes again. `clash` notes that a
hash was stored while it was still being stored, which `DHT.storeValue` answers
with an exception.

### AptP2P

`AptP2P` composes the parts by their promises: each call that the workflow makes
(`MirrorManager.findHash`, `check_freshness`, the DHT, the download from
peers, the mirror) ends some day, well or not, and requests for the same or for
different URLs interleave at each of these points. `stage` is what a request
waits for. What the requests share is the cache: `cached` is the row of a path
if its file has not changed since, with the content whose hash the row has (`of`)
and the content that is there; `holder` is the request whose download's file is
at the path. A request may remove what another is writing (`GetResp`,
`SaveFile`), after which the other's end finds none, and fails, or somebody
else's file, and records that under its own hash (`Recorded`, content `Other`)
until that file grows (`GotData`), if it does. The response of a failed download
(`removing`) removes what is at the path when it is closed (`Close`).
Package files have the same hash at all mirrors; index files have versions, and
the mirror may replace them at any time. A response that is not a file has the
content `None`.

## Runs

Every run passes. A run's properties are stated, in words and in TLA+, at the
end of its module.

| Run | Properties | Bounds | Distinct states |
|---|---|---|---|
| `KRPC_once` | `PendingIsYoung`, `OnceSpec` | 2 addresses, 2 requests, timeout 3, first resend after 1, lateness 1 | 988,438 |
| `KTable_small` | `TableIsSound`, `FindNodesReliable`, `InsertContract` | IDs of 4 bits, buckets of 2, six nodes on both sides of the own ID | 17,197 |
| `FileDownload_all` | `OneTransferPerPiece`, `ServedIsVerified`, `GivesUpLast`, `DownloadConcludes` | 2 pieces, 2 peers and the mirror, 2 requests at a time, 2 errors | 429,493 |
| `Action_search` | `SearchIsThorough`, `ShortfallIsExhausted`, `NeverOverstores`, `ActionEnds` | 5 nodes, K = 3, 2 requests at a time, 2 stores, 2 values | 48,153 |
| `AptPackages_load` | `OneLoadAtATime`, `WaitersGetFresh`, `EveryoneIsAnswered` | 3 lookups, 3 versions of the indexes | 28,383 |
| `Peer_queue` | `PendingIsHeld`, `NeverForgotten`, `OnceSpec` | 4 requests, at most 5 scheduled looks at the queue | 39,820 |
| `Khashmir_pings` | `OnePingPerNode`, `FailedIsWatched`, `FailedIsSettled` | 2 nodes, a bucket of 1, 2 failures, 2 callbacks waiting | 10,818 |
| `KhashmirStore_life` | `TokenLifetime`, `NothingOutdated`, `ReplyIsLongest` | a host, 3 values of lengths 3, 4 and 5, intervals of 1 to 2 | 152,081 |
| `DHT_calls` | `NothingForgotten`, `OnceSafety`, `CallsEnd` | 2 joins, lookups and storages each, of 1 key and 1 pair, 2 bootstrap nodes, 3 contacts, 2 searches | 630,176 |
| `Sharing_files` | `DatabaseIsSound`, `NeverStoredTwice`, `DueIsAnnounced`, `ScanIsFinite` | a cache file and a user's file, 2 hashes | 254,388 |
| `Save_stream` | `EndIsComplete`, `PiecesAreWhole`, `RowIsTrue`, `FailedIsRemoved`, `ReadsAreAnswered` | 2 downloads of 2 units, pieces and reads of 1 unit, one with another hash than SHA1 | 1,477,248 |
| `AptP2P_requests` | `MirrorIsLast`, `CacheIsRight`, `OnceSpec` | 3 requests, 2 mirrors of a package, 1 index with 2 versions | 695,800 |

Why the bounds are enough.

* `KRPC`: timers allow two resends before the final timeout and all orders of
  the three calls; two requests at one address and one at each are both
  possible. The proofs cover the rest.
* `KTable`: four levels of splits, a full table on the own side and one on the
  other, merges that cascade.
* `FileDownload`: with two of everything a peer can be requeued while another
  holds the other piece, the mirror comes in late, and the limit of requests
  binds; a third peer would be symmetric.
* `Action`: more nodes than K and more K than requests, so that requests are
  dropped and come back.
* `AptPackages`: three lookups wait for the first load, the second and neither.
* `Peer`: four requests are one being read, one or two behind it in the
  pipeline, and the rest in the queue of a connection that is lost.
* `Khashmir`: two nodes for one place, so that a stale node and its
  newcomer can change roles, and a node's ping serves a newcomer and a
  delayed ping at once. `MaxWaiting` binds only what others send.
* `KhashmirStore`: three secrets fit into six ticks; of the three lengths any
  one, two or three values may or may not fit, and one pair fills a packet to
  its last byte.
* `DHT`: while two contacts of a left join are out the next join is made; with
  `MaxContacts` 3 one of them can still be out, so that its answer counts for
  the new join. The bound on searches delays a contact's end, and so never
  loses one; one key, as keys do not meet. The proofs cover all numbers.
* `Sharing`: the two files take the two ways files enter the database, and may
  have the same content, so that a hash has rows of both kinds. The number of
  downloads to the one path is not bounded.
* `Save`: the second download may begin before, while and after the first one
  streams, fails, is saved or is read; two units and pieces of one unit let data
  come in one or two portions, at the end of a piece and across it. One of the
  two downloads has a hash of another kind than SHA1.
* `AptP2P`: three requests are needed for one to replace what another writes
  while a third asks for it. The proofs cover all numbers.

Deadlock is checked in `KRPC_once`, `KTable_small` and `Sharing_files`. The
others may stop: requests, calls and downloads are finite in number, and a
cache, queue or node that nobody asks any more has nothing to do.

Type invariants are not among the runs' properties: they are theorems, for every
module. That of `Peer` is the first part of its invariant.

## Fairness

* `KRPC`: weak fairness of the clock, of the delayed calls together, and of a
  `stop()` in progress: the reactor runs. Nobody has to answer.
* `FileDownload`: weak fairness of `Progress`, all answers together: as long as
  any request or response is out, one of them ends (`Peer` shows it).
  `DownloadConcludes` further assumes that damage and broken transfers do not
  go on for ever, as the code would retry for ever, and it does not promise the
  end of a download whose lookup of piece hashes raised an exception.
* `Action`: weak fairness of `Next`: the reactor calls `goWithNodes`, and some
  request in flight is concluded. `RequestOnce` promises more, of each request.
* `AptPackages`: weak fairness of `Loading`: the thread pool and the reactor go
  on with a load. Nobody has to ask.
* `Khashmir`: weak fairness of what the reactor runs, and of the end of each
  ping, which `KRPC` promises. A delayed ping may be put off by a sent one, which
  ends as well.
* `DHT`: contacts, searches, both phases of lookups and storages end (`KRPC`,
  `Action`), if only, for the search of a lookup after `leave()`, in an
  exception; delayed calls run. A join of a node that is no bootstrap node may be
  retried for ever, and callers of a lookup that outlives the database wait for
  ever: `CallsEnd` promises the end of neither.
* `Peer`: `processQueue` is run, `connectTCP` ends (it has a timeout), a
  connection that owes a response gets on or is lost. The strong fairness of
  sending says that connections which are made and lost again before
  `processQueue` comes to send anything do not follow each other for ever; only
  a refused connection costs a request its place (`connectionError`).
* `Sharing`: the timer and the scan go on, and each storage ends (`DHT`).
* `Save`: the mirror's or peer's stream ends or fails some day, and the thread
  ends. Apt need not read.
* `AptP2P`: each call that a request waits for ends (the liveness properties of
  `AptPackages`, `DHT`, `FileDownload` and `Peer`). As these say, that holds of a
  node that does not leave the DHT, which the program never does, and of
  downloads whose lookup of piece hashes raises no exception.
* `KTable` and `KhashmirStore` have no liveness property.

## Proofs

All proofs are checked by TLAPS, for any values of the constants that satisfy
the named assumptions of the modules (`TimesAssumption`, `ActionAssumption`,
`DHTAssumption` and so on): finite sets where sizes are taken, positive limits,
and names that are not each other's.

`KRPC_proofs` proves for any sets of addresses and requests, any timeout, delay
and lateness, the safety properties of `KRPC` and that its safety part
implements that of `RequestOnce`. The properties are not inductive. That
the Deferred fires once needs that a transaction in a table is pending
(`OutstandingIsTimed`, but only outside the table a `stop()` is about to
clear), that it is in no other table (`OwnTable`), that the firing count agrees
with the outcome (`FiredIsConcluded`), and for requests not made yet that they
have left no trace (`Untouched`). A running `stop()` needs `StopLoop`: what it
has still to errback is pending and in the table. The time bound follows from
`FinalTimeoutClock`: the final timeout counts down what `elapsed` counts up.
`StopIsComplete` and `GivenUpInTime` assume `~Reentrant`, and have to.

Its second half is about `KTable`, for any length of an ID, capacity of a bucket
and set of nodes: type correctness, `TableIsSound`, `InsertContract`,
`FindNodesReliable` and `RestartForgets`. `TableIsSound` is not inductive: that equal neighbours are
siblings, and so may be merged, is lost unless the sizes of all buckets
are tied to the one that holds the own ID. `TableInv` says so (`IsTable`): every
range is a block that halvings of the ID space lead to, whose parent holds the
own ID (`IsRange`), and the innermost one is as small as the number of buckets
says. From this it follows that only the two innermost buckets are equally
large neighbours (`OneTwinPair`), that a split keeps all this (`SplitOnce`), that
a merge does (`MergeOnce`), and that after a merge only the merged bucket may
have a neighbour to merge with (`MinimalBut`), which is why going on with that
one is enough (`MergeChain`). The order by last sight is a matter of sorted lists
(`Lists`), kept by adding, removing, splitting and merging them. As the
smallest bucket that holds the own ID has room for one other node, which must be
the new one, "Hash Table is FULL" is never answered (`NeverFull`).

`FindNodesReliable` follows from `TableInv` and from what distances are. The
leading bits of two distances from one ID are equal if and only if the leading
bits of the two IDs are (`SameLeading`), and where they are not they decide
which distance is smaller (`LeadingDecides`). So no two nodes are equally far
(`DistancesDiffer`), and, the range of a bucket being the IDs with some leading
bits (`BlockLeading`), its nodes are closer to an ID of that range than all
others (`BlockIsClose`). The places that sorting gives are all different and
there are as many as nodes, so that each is taken (`SortsByDistance`).

What the chains and loops compute is proved by an induction on numbers up to a
bound, which is itself proved (`UpTo`); it serves to show that the recursive
functions exist, too.

`AptP2P_proofs` proves of `AptPackages`, for any number of lookups and of index
changes, type correctness, `OneLoadAtATime`, `StaleIsUnloaded` and the action property
`WaitersGetFresh`. The invariant relates `loading` to the one job there is
(`LoadingIsTheJob`), the cache to what that job has read (`JobAndCache`), and
`loading_unload` to an index change the job has missed (`JobAndVersion`); a
failed load leaves nothing loaded (`FailedIsUnloaded`), and a cache that no job
will replace is up to date (`IdleIsFresh`).

`Action_proofs` proves every safety property of `Action`, for any finite
set of nodes, K, numbers of concurrent requests, stores and values. The first
invariant, `BookInv`, is about the bookkeeping: the nodes waited for are in
flight, queried and promise what `outstanding_results` says, which is a
cardinality (`Promised`), so that adding and dropping requests is counting of
disjoint finite sets. The second, `EndInv`, adds what the end of an action
rests on: a request that was given up is not among the closest nodes while
nobody has failed (`GivenUpIsFar`), a node that a retrieval or storage has asked
has answered, failed or is waited for (`AskedIsKnown`), and stores and requests
under way fit under the number wanted (`StoreBooks`). `AlwaysWaits`
(`NeverStuck`) is stated under `RETRIEVE_VALUES # 0`.

`FileDownload_proofs` proves type correctness, `OneTransferPerPiece` and
`ServedIsVerified`, for any peers, number of pieces and limits. In its invariant
`completePieces` and the transfers under way determine each other
(`Transfers`), the lookup ends once and before the first transfer
(`LookupEndsOnce`), and the pieces before `nextFinish` are done and, where
hashes are known, verified (`DoneIsVerified`). `GetPiecesStep` is proved once
for the loop that ends the handlers, from whatever the handler has made of its
variables, and `HandlerStep` turns it into one obligation per handler.

`GivesUpLast` needs more (`GiveUpInv`): that `outstanding`, which seven
handlers add to and subtract from, is the number of requests under way, that no
site has two of them or has one and is on the list at once, and that before the
mirror was added the list and the requests together are no fewer than
`MIN_DOWNLOAD_PEERS` (`Counted`). Each handler's change of the counter is
matched with its change of the set of requests, the loop of `getPieces` with
an injection from the requests made to the sites taken off the list; a download
that has given up stays without requests (`GaveUpInv`). Where the piece hashes
are asked from peers, the reset of the counter is right as long as no hash
request that was out then fails: the invariant, like the property, leaves out
only downloads in which one did (`late`; see the known disagreements).

Its second half is about `Peer`, for any set of requests: type correctness,
`PendingIsHeld`, `NeverForgotten` and that the safety part of `Peer` implements
`RequestOnce`'s. `Books` says that the queue and what the protocol has not
answered divide the pending requests, each once; `Connection` how the flags of
the peer and of its protocol go together, which decides whether another
`processQueue` will come.

`Khashmir_proofs` proves of `Khashmir`, for any sets of nodes and newcomers,
K and MAX_FAILURES, type correctness, `OnePingPerNode` and `FailedIsWatched`. In
its invariant a ping is under way exactly for the nodes that `pinging` has as
sent, and only theirs have errbacks (`Pings`); a node in the bucket that has
failed is in `pinging`, unless its answer is about to be entered or the node has
shut down (`Watched`); errbacks are run while there is one to run.
`InsertNodeStep`, `SendPingStep` and `NodeFailedStep` are proved once for the
calls that several actions make.

Of `KhashmirStore` it proves, for any values, lengths, limits and intervals,
type correctness, `TokenLifetime`, `NothingOutdated` and `ReplyIsLongest`. The
first two follow from when the next checkpoint is due: a token's place in
the list of secrets bounds its age from both sides by whole intervals and the
time left (`AgeFits`), and a value is never older than KEY_EXPIRE at the last
checkpoint (`ValuesFit`). A crash is covered by what is known of the tokens of
an earlier process, and by the clock until the first checkpoint. `ReplyIsLongest`
is arithmetic: the length of the list grows with each value (`ListGrows`), the
guess is some number of values below all (`GuessInRange`), and from
any such number the loops end at the last that fits (`CorrectedIsLongest`).

`DHT_proofs` proves, for any numbers of calls, keys, pairs and bootstrap nodes,
type correctness, `NothingForgotten`, and `OnceSafety`: every step of `DHT`
maps to a step of `RequestOnce`, or none, under `Told`. `NothingForgotten` is
nearly inductive, the database being open or closed; what it lacks is
`OneWaitEach`: a lookup's caller waits for one key and a storage's for one pair. The three kinds of calls share only
`status`, and for each there is a lemma that the other kinds' steps leave its
part of the invariant alone.

`Sharing_proofs` proves, for any files and hashes, type correctness,
`DatabaseIsSound` and `NeverStoredTwice`. The invariant has four parts. Only
hashes that are due wait in the list to be refreshed, and only fresh ones are
being stored (`AnnounceInv`): that is what keeps the two chains apart. It rests
on `BecomesDue`, which lets no hash become due while it is being stored:
KEY_REFRESH is hours. The scan hashes only files that no download writes to
(`ScanInv`). What is at a path to which the latest download still writes is
partial or nothing (`WriteInv`), so that only a late row can fit it. A row's hash
is in the table and, if the file is as it was, is that of its content, unless
the row is late (`TableInv`).

Its second half proves of `Save`, for any downloads, any sizes of portions,
pieces and reads, type correctness, `EndIsComplete`, `PiecesAreWhole`,
`FailedIsRemoved` and `RowIsTrue`. The invariant is about one download at a time
(`Fits`): its stream never offers more than its hasher has seen, its end has been
read only if all that is available has, and a stream that failed is one that
will remove its file. What is at the path while a download streams is its own
file, or none, or that of a download that began meanwhile (`RowInv`).

`AptP2P_proofs` proves, for any requests, URLs and versions, type correctness,
`MirrorIsLast`, the action property `CacheIsRight`, and that the safety part of
`AptP2P` implements `RequestOnce`'s. The invariant says at which stages a request
has an answer and at which its hash is known (`StageInv`), that a wrong file is
only ever sent under a known hash (`AnswerInv`), which is why none is kept, and
that the cache holds, under a hash, what mirrors had or the file that another
download put there (`CacheInv`).

`SetLemmas` holds what these proofs need of `Min`, `Max` and `Cardinality`. The
library's `Min` and `Max` are choices; that a finite nonempty set of integers
has a least element is proved without induction over data, from the library's
theorem that the strict inclusion of finite sets is well founded.

Only model-checked are

* all liveness: the fairness part of every `OnceSpec`, `DownloadConcludes`,
  `ActionEnds`, `EveryoneIsAnswered`, `FailedIsSettled`, `CallsEnd`,
  `DueIsAnnounced`, `ScanIsFinite`, `ReadsAreAnswered`. TLAPS has no proof rule
  for fairness here;
* that `Distance` is the exclusive or, which is a definition: TLC compares the
  two for the IDs of the run.

Two components share a proof module where they belong to the same part of the
program. One module then extends both, and so the definitions of one of the two
have a prefix (`Peer`, `Save`, `Packages`, `Store`, `Table`).

## Known disagreements

Where the code does not do what its documentation says, the modules follow the
code. These are the places that came up; the properties above hold in
spite of them, or say where they do not.

* `krpc.py:575`, "Cancel all pending requests": `stop()` errbacks a snapshot of
  the transactions and clears the table afterwards. A request that a
  callback makes to the same address in between is neither sent nor concluded.
  With `Reentrant = TRUE` TLC finds `StopConcludes` violated.
* `ktable.py:232`: after a split `insertNode` calls itself without `contacted`,
  and so adds a node that nobody has heard from, against its docstring
  (`ktable.py:180`). `Inserted` has it so.
* `khashmir.py:150`, "Load the previous routing table nodes": the nodes are
  inserted as not contacted, which adds none of them. `Restart` of `KTable`
  has it so, and `RestartForgets` proves that the loaded table is empty.
* `PeerManager.py:49`, "the number of requests to peers currently
  outstanding": `startDownload` resets the number to 0 while requests for piece
  hashes may be out, whose failures are subtracted later. The number is too small
  from then on, and the download may give up with requests out. `GivesUpLast`
  excepts the downloads where that happened (`late`).
* `PeerManager.py:193`: where the lookup of piece hashes in the DHT failed, the
  log message names a variable that does not exist. That exception, and those at
  lines 183 and 276 if the value found is not a dictionary of a string, are
  handled by nobody: "Continue without the piece hashes" (line 195) is not
  reached, or the request stays counted, and the HTTP client may wait for
  ever (`LookupRaises`, which `DownloadConcludes` excepts).
* `interfaces.py:36`, "a deferred that will fire with the stored values": the
  Deferred of `getValue` never fires if the node leaves before the lookup has
  found its nodes, because `khashmir.py:482` reads a database that `shutdown` has
  closed. Nor does that of any later call, after a rejoin: one for the same key
  waits for the lookup that was lost, one for another key is lost in the same
  way. The program never leaves; the tests of `DHT.py` do. Nor does the
  Deferred of a call for the same key fire that is made in a callback of a
  lookup (`DHT.py:271`), as the list it is put on is deleted.
* `PeerManager.py:407`, "After 3 errors in a row, drop the peer": a peer whose
  pieces are damaged or whose responses break off is counted, but not dropped.
* `apt-p2p.conf:95`, "Setting this to 0 will try and get all values": with
  `RETRIEVE_VALUES = 0` the assertion in `actions.py:366` fails and nothing is
  asked for.
* `AptPackages.py:132`, "otherwise it is None": after a load that raised an
  exception `loading` keeps the failed Deferred, and the cache is never loaded
  again. `EveryoneIsAnswered` does not show that: a failure is an answer.
* `krpc.py:499`: a response that can be shortened to exactly the limit fails
  the assertion there and is answered with an error. `ReplyIsLongest` says so.
* `HTTPDownloader.py:182`, "so that we don't loop indefinitely": a connection
  that is made and lost at once fails no request, and the peer connects again
  at once (see the fairness of `Peer`).
* `CacheManager.py:139`: a file that vanishes while it is hashed leaves an
  exception nobody handles. The scan ends there (`"died"` in `Sharing`).
* `Streams.py:150`: a stream that apt closes early has closed the file before
  it is told to remove it; the incomplete file stays until the next request for
  it or the next scan. `FailedIsRemoved` excepts streams that were closed.
* `TODO.md:42`, "When another request comes in for a file already being
  downloaded, the new request should wait for the old one to finish": it does
  not. Two downloads of one URL write to one path, and the second removes the
  file of the first. When the first ends it records the second's partial file
  under its own hash (`CacheManager.py:235`). The record fits the file until that
  grows; if the second's stream was closed in between, the file never grows and
  is not removed either, and is served from the cache and shared. `Save`,
  `Sharing` and `AptP2P` all have these interleavings: `RowIsTrue` allows a row of
  a download's own hash and the file of one that began meanwhile (`during`),
  `RowsAreTrue` makes no promise of rows recorded after the file was replaced
  (`late`), and `CacheIsRight` allows such a file (`Other`) to be sent. All else
  that they state holds for any number of downloads at a time.
* `db.py:240`, "If the file has changed or is missing, it is removed from the
  table": `expiredHashes` reads the sizes and times of the files and does not
  look at them. Hashes of files that changed or vanished are announced until
  somebody asks for the file, or a scan or a restart finds it
  (`ExpiredHashes` goes by the rows alone; `DueIsAnnounced` is about rows).

## Not modelled

* Token buckets for the bandwidth of uploads (`policies.py`) and `UploadStream`:
  arithmetic on real time, on which only the speed of uploads depends.
* Wire formats, HTTP parsing, statistics, the forms of hashes, configuration
  and logging: they hold no state that other parts wait for.
* `refreshTable` and the estimate of the number of nodes: they start searches
  or read the table, and keep nothing.
* The tables of the cache database for DNS names and statistics.
* The ranking of peers and the order of dictionaries are any choice; the
  backoff of joins is any delay.
* `AptPackages` is the cache of one mirror. The configuration of `apt_pkg`, which
  is global and which the caches of all mirrors set, is not modelled.
* Empty files in `Save`: one that is expected to have a hash of another kind than
  SHA1 gets the hash of one empty piece (`Hash.py:191`).
