# Verification of Revolt.c

Revolt.c is a C client library for the Revolt chat service: a WebSocket client
written on top of libcurl's connect-only handles, an event loop with callbacks,
a small HTTP/REST layer that fetches objects, and the containers and JSON
wrappers these need.  This directory holds TLA+ models of its core, TLC
configurations that check them on small instances, and TLAPS proofs of the
properties that hold for every value of the constants.

The repository has no tests.  What its functions are meant to do is taken from
their callers, from the playground program, and from comments.

## 1. Inventory

| component | source | state | operations |
|---|---|---|---|
| connection `RevoltcWS` | `lib/core/websocket.c` | `hnd`, `connected` | connect, send, recv, disconnect, delete |
| frame reader | `websocket.c` 503-646 | none between calls; in a call `buf`, `needed`, `nrecv` | `revoltc_ws_recv` |
| handshake | `websocket.c` 100-278, 322-350 | in a call the response buffer, `nrecv`, `needed` | `ws_handshake` |
| header codec, masking | `websocket.c` 398-498, 648-762; `util.c` 4-45 | none; in a call the buffer of a frame | serialize, deserialize, mask, send |
| URL helpers | `websocket.c` 16-98 | none | scheme, host, path of a URL |
| event loop `RevoltWS` | `lib/ws.c` | message stack `tx`, `tx_count`; callbacks; token | connect, disconnect, send, set_on, poll |
| client `Revolt` | `lib/client.c` | `running` | init, run, stop, cleanup |
| playground | `playground/main.c` | two threads | queue, spawn, stop, join, cleanup |
| hash map | `core/types_hashmap.c` | chains in buckets, `count` | new, get, insert (grows), remove, delete |
| LRU cache | `core/types_lru_cache.c` | a list threaded through a hash map | new, get, put (evicts), delete |
| JSON wrappers | `core/json_cjson.c`, `core/json_yyjson.c` | a chain of child wrappers | parse, get, child, delete |
| HTTP, REST, fetch | `core/http.c`, `rest.c`, `fetch.c` | request and response buffers | one blocking request per call |
| data models | `data_models/*.c` | the fetched objects | new from JSON, delete |
| errors, utilities, hashes | `error.c`, `core/util.c`, `hash.h` | none | byte order, string copies, names |
| gateway events | `include/revolt/events.h` | none | declarations only |

How they interact.  The application fills callbacks and queues messages, starts
`revolt_run` on a thread of its own and calls `revolt_stop` from the main one;
`running` is the only datum the two threads share while the loop runs.
`revolt_run` connects and authenticates, then calls `revolt_ws_poll` until it
fails or `running` is cleared.  A poll sends at most one queued message,
receives at most one frame, and dispatches it: `on_close` disconnects, calls
back and disconnects again, `on_ping` answers before it calls back, the others
only call back.  A lost connection or a frame the codec refuses makes poll
disconnect, reconnect and authenticate again.  Everything reaches the peer
through one curl handle, which `revoltc_ws_connect` creates and
`revoltc_ws_disconnect` cleans up.  The LRU cache keeps its list nodes as values
of a hash map.  The HTTP side shares nothing with the loop but the token: a fetch
builds a request, waits for it, parses the body into JSON wrappers and copies
what it needs out of them into an object that the application deletes later.

What is hard here:
 - the run thread, the main thread and the peer interleave at every call;
 - the connection may be lost at any point, a write may be short, an
   allocation may fail, and most results of a disconnect are ignored;
 - bytes arrive in pieces, and the reader keeps nothing between two calls;
 - a handle must be neither lost while it is open nor used after its cleanup;
 - the end of the answer to the upgrade is looked for without knowing its length,
   and the frames the peer sends at once come right behind it;
 - a look into a JSON wrapper deletes the wrapper the look before it returned,
   and any allocation of a fetch may fail with half an object built;
 - every new connection must be authenticated before anything else goes out.

What makes each component correct:
 - connection: `connected` tells the truth about `hnd`, no live connection is
   ever lost, nothing follows a CLOSE, a freed handle is not touched;
 - frame reader: every frame is handed over once and in order, a call uses up
   the bytes of one frame and returns when the frame is complete;
 - handshake: `connected` only behind a complete answer that upgrades, nothing
   behind that answer is taken;
 - header codec: the peer decodes what the caller asked for, and a part of a
   header is never taken for the whole;
 - event loop: Authenticate first, pongs answer pings on their own connection,
   a message is sent at most once and lost only when the run says so or with the
   client, a stop ends the loop, the loop goes on sending while messages wait;
 - client: the object is not used after cleanup, join returns after stop;
 - hash map and LRU cache: a key that was inserted is found, an evicted entry is
   the least recently used one, each node is released once;
 - fetch, JSON wrappers, data models: nothing is used after it is freed or freed
   twice, what is not freed is known, an object that was fetched holds its document.

## 2. Plan

Most important behaviour first; what is done is marked *done*.

 1. `Websocket`: the connection at frame granularity with the peer; the
    operations are parameterised by their result so that a caller can take one
    as one of its own steps.  *done*
 2. `EventLoop` composes `Websocket` with `ws.c`, `client.c` and the two threads;
    `EventLoopProps` holds its properties; `Outbox` is the abstract
    specification of the message stack that it implements.  *done*
 3. `WebsocketProofs`: an inductive invariant and the safety properties of
    `Websocket`.  *done*
 4. `FrameReader`: the byte-level read loop; `FrameReaderProps`: it implements
    `revoltc_ws_recv` of `Websocket`; `FrameReaderProofs`.  *done*
 5. `HashMap`, implementing the abstract `Dictionary`, and `HashMapProofs`;
    `LruCache` on a `Dictionary`, implementing `RecentlyUsed`, the abstract list
    of entries in order of use, and `LruCacheProofs`.  *done*
 6. `HeaderCodec` and `FrameWriter`: headers as bytes in both directions and the
    buffer a frame is sent from.  *done*
 7. `Handshake`: the loop that looks for the end of the answer; `Session` composes
    it with `FrameWriter` and implements connect and send of `Websocket`;
    `SessionProofs` is about all of it, the codec included.  *done*
 8. `Heap`, `JsonTree`, `Fetch`: who owns which memory on every path of a failure;
    `Cursor` is what the JSON wrappers promise; `FetchProps`, `FetchProofs`.  *done*
 9. `EventLoopProofs`: the loop is a caller `Websocket` allows, so that its
    theorems carry over, what the loop writes, and which pings it answers.  *done*
10. `ReadingProofs`: what is read of a document.  *done*

## 3. The models

### Websocket

One `RevoltcWS`, the curl handles it opens and the peer at the other end of
each.  A frame is a record `[op, data]`.

| model | code |
|---|---|
| `hnd`, `connected` | `ws->hnd`, `ws->connected` |
| `hs[h]` | life of a curl handle: unused, raw (made, not upgraded), up, eof (closed or reset by the peer), freed |
| `wire[h]` | frames written, each with whether all its bytes went out |
| `srv[h]`, `pos[h]`, `half[h]`, `insync[h]` | complete frames from the peer, how many are consumed, whether a further one is partly there, whether the reader is at a frame boundary |
| `revoltc_ws_connect` | 322-350; a failed attempt keeps its handle in `hnd`, the next overwrites it |
| `revoltc_ws_send`, `ws_send_raw` | 404-498; whole, short (`SEND`) or not at all |
| `revoltc_ws_recv` | 562-646 in one step: a frame, nothing, or an error |
| `revoltc_ws_disconnect`, `revoltc_ws_delete` | 316-320, 352-396 |
| `ServerBegins`, `ServerSends`, `ServerDrops` | the peer; it may drop the connection in the middle of a frame |

When the two parts of one header arrive separately the reader may swallow bytes
of the following frame (`OverRead`) and from then on takes payload for headers
(`ReadGarbage`).  Both are behaviours of the code, found first in the byte-level
module, and the frame-level module allows them: what is checked and proved of
it holds in spite of them.

### EventLoop

`pc` is the place of the run thread.  It stops before each call into
`Websocket` and before each access to `running`, so the peer and the main thread
act between any two of them; a receive or a send is one step because nothing
the other thread does is visible inside it.  `revolt_ws_poll` is the sequence
`tx` (send one), `rx` (receive one), `dispatch`, `callback`, `close2`, and the
recovery `drop_parse`, `drop`, `reconnect`, `reauth`.  A callback may queue a
message or call `revolt_stop`.  The main thread fills slots and queues messages,
spawns, stops, joins, and either runs again or cleans up.

A message is a number in the order in which `revolt_ws_send` accepted it; the
stack is a sequence whose end is the top.

### FrameReader

The loop of `revoltc_ws_recv` over a stream of frames whose bytes arrive in
pieces of any size.  A byte has no value; a frame has a header of 2, 4 or 10
bytes and a payload, and the reader learns from the bytes read so far which
frame they begin.  `needed`, `nrecv` (as `taken - start`) and the two bytes the
loop adds per round are those of the code.  When a call begins in the middle of
a frame its bytes look like any frame (`guess`).

`FrameReaderProps` maps this onto `Websocket`: the frames begun become `srv` and
`half`, and each call must return what `revoltc_ws_recv` of `Websocket` allows
at the moment it returns, also when it returns at once; what happens in between
is a step of the peer or not seen.  `SameFrames` says that both modules speak of
the same frames.  This check is why `Websocket` lets a frame be refused
before its payload has come.

### HeaderCodec and FrameWriter

`HeaderCodec` has no state: `serialize_header` and `deserialize_header` as functions
between a record of numbers and a sequence of bytes, with the shifts and masks of
the code as division and remainder.  What the code leaves unwritten is a value of
its own: `Unread` stands for the key of a short masked header that was decoded
from its first two bytes.

`FrameWriter` is `revoltc_ws_send` at byte level.  `sending` holds the buffer of the
call in progress (header, one byte of the payload after masking, and whether all
of it went out), `reach` how far into the buffer the call has written, `wire` what
the peer got.  `revoltc_ws_mask` lays the mask over one byte; that the length it is
given is a header too long shows in `Reach`.  `Xor` is the exclusive or of two bytes bit
by bit, so that it can be reasoned about.

### Handshake and Session

`Handshake` is `revoltc_ws_connect` with its blocking calls.  A byte of the answer
is a CR, an LF or the name of the line it belongs to; a URL is a sequence of its
parts.

| model | code |
|---|---|
| `url`, `request` | the URL, and host and path the request is sent for (16-98, 125-166) |
| `stream`, `there`, `answer` | what the peer sends, how much of it has come, where its answer ends; frames may follow at once (`Early`) |
| `at` | idle, alloc, recv, check, done: the calls of `ws_handshake` that may fail |
| `nrecv`, `needed`, `buf_size`, `buf` | the variables of the loop (205-261); `buf` also says whether it was freed |
| `short` | history: a read brought less than it was asked for |
| `Recv`, `More` | 234-261: one read, and how many bytes more to ask for, judged from the last three |
| `Check` | 263-278, `http_header_valid` |

`Session` is `Handshake` followed by any number of calls of `FrameWriter`, on one
thread.  It maps both onto `Websocket`: when a call returns it has done what
`revoltc_ws_connect` or `revoltc_ws_send` says there, and nothing is seen of it
before.

### HashMap

An array of buckets is a function from `0 .. n - 1` to sequences of entries, the
head of a chain first, so that a new node goes to the front and a lookup takes
the first entry of its key.  `revoltc_hash_map_insert` does not look for the key:
a key may have several entries.  When three quarters of the buckets are counted
as used it replaces the array first; that loop moves one node per step
(`GrowMove`), since an allocation may fail at each of them.  A failure leaves the
old array in place without the nodes that were moved: they are lost
(`types_hashmap.c` 191-232).  `count` follows the code, which never lowers it on
removal, so it may exceed the number of entries.

`Dictionary` says what callers get: a set of entries, of which `Get` and `Remove`
take any with the key, and an insertion that fails may cost entries.  While the
array is being replaced the entries are those of both arrays.

### LruCache

Nodes have addresses, `cell` holds what is at each, `live` says which are in use.
`head`, `tail` and the links change write by write as in `lru_cache_move_to_head`
(`CellsWithHead`).  The hash map is an instance of `Dictionary`, which `HashMap`
implements; a step makes one call to it at most, so a put of a new key takes up
to three steps: the lookup with the new node (`revoltc_lru_cache_put`), the
insertion (`PutInserts`, `PutFails`), and the eviction (`PutEvicts`).  `delete` is
a loop.  An access to a node that was freed, or to the node at `NULL`, ends the
behaviour (`crashed`).

`failed`, `keyless` and `latest` are history: how many insertions failed, which keys
belong to a node that could not get its copy of the key, and what was put last
for each key.  `RecentlyUsed` says what the cache is as long as nothing has
failed: the list of entries by last use, of at most `capacity`.

### Heap, JsonTree, Cursor

`Heap` has the blocks in use, how many allocations may still fail, and the
`misuse` so far: a block freed twice, one used after it was freed, a pointer
followed that was never written.  `Memory` changes all three in one step.

`JsonTree` has the wrappers of `json_cjson.c` and `json_yyjson.c`, each with the value
it stands for and its one child.  A value is the path that leads to it.  A look
(`revoltc_json_child`) first deletes the child of the look before it, with all
behind it, so a wrapper the caller still holds may be gone.  The parsers are
external; they return a document or fail.

`Cursor` is the promise: reading goes along one line of values, each a part of the
one before or its successor in an array, and a new look gives up what was behind.

### Fetch

The application of `playground/main.c` 49-75: client, fetch of a user or a channel,
and deletion.  `at` names the function that runs next; a function that calls no
other modelled one is one step, its allocations fail in any combination
(`MayFail`).  The request goes through `write_callback` once per piece of header and
body.  `field`, `value`, `bits` and `count` are the members of the objects that own
memory or hold an enumerator, a permission mask or a number of relations.  A field
that was not written is `WILD`.  The comparisons of names are modelled by the letters
the code looks at, so that two names it cannot tell apart are told apart by nothing.
The relations of a user are numbered (`Relation(i)`); the elements of an array have
names of their own in the paths (`DocumentsAssumption`), as values that lie at
different places are different.
`FetchProps` states what may be left in memory at the end, what the objects must
hold, and that the wrappers read the document as `Cursor` says.  It also says what
answers the server gives (`SchemaAssumption`): strings, names and numbers where the
deserialisers look for them, and names of the right enumeration.  An answer outside of
it is read without harm to memory, but not in full: what no field is for is dropped,
and names are taken for others with the same letter.  Channels of unknown type are
refused, so nothing is asked of them.

## 4. The runs

Times are with two workers.

| run | states | shows |
|---|---|---|
| `websocket` | 0.1 M | any order of operations, two handles, failing allocations, split headers: `ConnectionHeld`, `CloseIsLast`, `OnlyCurrentTouched` |
| `loop_session` | 0.5 M | two runs over two connections: `AuthBeforeTraffic`, `AuthOncePerRun`, `PartialFrameEnds`, `LostAcrossRunsOnly`, `DeleteReleases`, and that every step is one `Websocket` allows its caller (`UsesWebsocket`) |
| `loop_outbox` | 2.4 M | two messages, queued before a run or by a ping's callback, two different pings, two runs, failing allocations: `PongsAnswerPings` (the order of the pongs), `AtMostOnce`, and the stack implements `Outbox` |
| `loop_liveness` | 0.33 M | room for two of three messages: types, `StopHonoured`, `KeepsSending`, `CloseEndsRun` |
| `loop_join` | | violation: a stop that comes early is overwritten |
| `loop_stack` | | violation: the limit counts entries, the allocation bytes |
| `reader_split` | 0.7 M | any pieces, failures: a frame whose header comes whole is kept (`WholeFrameKept`), a call does what `Websocket` says of it, and returns if the peer completes its frames |
| `reader_skips` | | violation: a header in two parts loses the next frame |
| `hash_map` | 0.5 M | three keys, two with the same bucket in every even array, failing allocations: `FindsKey`, `LoadBounded`, and the map implements `Dictionary` |
| `lru_cache` | 79 k | three keys, room for two, failing allocations: `WellLinked`, `NoDangling`, `LatestFound`, `SizeBounded`, and the cache implements `RecentlyUsed` until something fails |
| `session` | 0.35 M | five URLs, four answers in any pieces, with and without early frames, then one frame of every length of header: `NothingSwallowed`, `UpgradedBehindAnswer`, `RequestNamesUrl`, `PeerReadsFrame`, `PartIsInsufficient`, `ShortFrameStaysInside`, `ConnectReturns`, and connect and send implement `Websocket` |
| `fetch` | 0.48 M | users and channels that are complete, lack parts or are something else, two failing allocations anywhere: `NothingDangles`, `UnwrittenOnlyUnparsed`, `NothingElseLeaks`, `ReadsDocument`, and the wrappers implement `Cursor` |

Bounds.  `MaxWire`, `MaxServed`: frames per connection and direction; two
suffice for one to follow a partial or swallowed one.  `loop_session` and
`loop_liveness` take one frame from the peer per connection, which is enough for their
properties.  The order of pongs needs two pings and messages queued between them:
`loop_outbox` has both, on one connection and over two runs; that no pong crosses over
to a connection that replaces its own is proved (`PongsAnswerPingsThm`, for any
number of connections and pings).  `Handles`: two, so that one replaces another while
traces of the first remain; one in `loop_outbox`, where a message must not go out
again in the second run.  `MaxMsgs`, `TxSize`: two
messages show the order and the limit of the stack; with three, and room for two, the
oldest may be overtaken twice, the second time by a message that a callback queued
while it waited (`loop_liveness`); `loop_stack` uses the real 128.  `MaxRuns`: two,
since what a run leaves behind meets the next one.
`MaxNeeded`: the bytes the reader asks for while a header is incomplete; 12 is
more than the longest header, and the code would go on to any number; at 256 the
buffer grows, which needs no model of its own since growing by `realloc` and
failing to grow are there for large payloads.  Payloads have one or two bytes:
the reader compares lengths only, and the proofs hold for all of them.

`HashMap.cfg` scales the sizes of the code down: `MinBuckets` 2 for 16,
`DoublesUpTo` 2 for 1024, `HalvesUpTo` 3 for 16384, so that an array may double,
grow by half and grow by a quarter within `MaxInserts` = 4 insertions;
`MaxBuckets` limits what a caller asks for.  `LruCache.cfg` has `MinCapacity` 2 for
8; with `MaxFailed` = 1 four nodes are enough, two in the cache, one that is left
over and one that is put before an eviction.  The proofs of both do not depend
on these numbers.

`Session.cfg` has answers of 15 to 19 bytes with lines of one to three, so
`FirstNeeded` and `FirstSize` are 6 and 12 where the library has 100 and 256: the
first read asks for less than any answer has, and the buffer must grow for each.
What `More` returns depends on the last three bytes only, so short lines meet all
its cases.  `PayloadMax` is `2^31 - 1`, the largest integer TLC has; the proofs take
any limit up to `2^63 - 1`.  One frame (`MaxSent`) is enough, since nothing but
`connected` is kept between two calls; its lengths are those around 125, 126, 65535
and 65536.

`Fetch.cfg` lets two allocations fail, so that one may fail on the path another
failure has led to; `MaxChunks` = 2 pieces of header and body each show the growth
of a response; numbers are scaled down with `MaxI64` = 7.  The documents lack each
part the code asks for in turn; two relations (`MostRelations`) are enough for the
second of them to delete the wrapper of the first.

Symmetry is used for handles, and for keys, values and nodes of the cache, in
runs without liveness; keys of the hash map are not alike, as their hashes
differ.  `Websocket.cfg`, `HashMap.cfg`, `LruCache.cfg`, `Session.cfg` and `Fetch.cfg` turn
deadlock checking off because the caller stops when it has deleted the object, sent
its frames or left the program.

Fairness.  The run thread is scheduled by the operating system, so it goes on
whenever it is not inside a call that may block, and a join completes once the
thread has left (`WF_vars(Running /\ ~Stalled)`, `WF_vars(MainJoin)`).  There is
no fairness for connecting, for the peer, for the user who stops, or for a
receive that has lost its place or waits inside a frame: the code does not bound
these.  The liveness properties state what they need as a premise,
`NetworkReturns`.  `KeepsSending` says that the loop as a whole goes on sending, so
the stack drains when nothing more is queued.  It does not say that each message
has its turn, which is not true of the code: the newest is sent first
(`ws.c` 238-250), and a callback that queues a message for every frame received keeps
the oldest waiting for as long as frames come.  In `FrameReader` the reader alone is fair; `CallReturns` has
the premise that the peer completes the frames it begins.  In `Session` connect goes
on as long as curl reports no error (`WF_svars(Connecting /\ GoesOn)`): it is the
caller's own thread, but no error is owed to it, so `ConnectReturns` cannot be
satisfied by giving up.

## 5. Findings

 - `JoinReturns` (`client.c:57`): a `revolt_stop` between the spawn and the end of
   the first authentication is overwritten by `running = TRUE`.
 - `StackFits` (`ws.c:27`): the stack has 128 bytes, its guard allows 128
   entries of 24 bytes.
 - `NoFrameLost` (`websocket.c:608`): two bytes more are asked for per round even
   if those asked for before have not come, so a header in two parts costs the
   frame behind it.

Met on the way and kept as exceptions in the properties, since no line of the
repository claims otherwise: a fragment with a `/` right behind the host is taken
for the path (`RequestNamesUrl`); the first two bytes of a short masked header are
decoded without a key (`PartIsInsufficient`); the mask of a frame over 125 bytes ends
behind the buffer (`ShortFrameStaysInside`); `INT64_MAX + 1` is let through
(`ReadsDocument`); four kinds of blocks are never freed (`NothingElseLeaks`).

## 6. The proofs

`WebsocketProofs` proves, for every set of handles, frames and payloads and
without the bounds of the runs: `WsTypeOK`, `ConnectionHeld`,
`OnlyCurrentTouched`, `CloseIsLast`, `ControlWithinLimit`, `DeleteReleases`.
Types are inductive alone.  `ConnectionHeld` needs in addition that a failed
handle in `hnd` is raw and never freed; lemma `HandleStep` says once what any
step does to `hnd`, `connected` and `hs`, and lemma `WireStep` what it does to
`wire` (one frame appended, on the current upgraded handle, and a CLOSE only
together with the cleanup).  The others follow from these two.  They rest on the
assumptions of `Websocket` on its constants, such as that the close status codes
are not over the limit for control frames.

`FrameReaderProofs` proves types for all streams, and `WholeFrameKept`:
a frame whose header arrives whole is handed over once, in order, or refused.  The
invariant `Exact` adds to the types: the frames are laid out one after the other
(`Stream`), the reader stands
within the frame it has begun (`Bounds`), and while it is in step it never asks
for more than the header it is in or the frame whose header it has seen
(`InStep`).  Without `Bounds` a call that begins at the end of the stream could
not be told from one that begins inside a frame.  `Exact` was checked with TLC
before it was proved.

It also proves `ImplementsRecv` under the same generality.  To `Exact` the
invariant `Followed` adds what a reader out of step keeps to as well: each frame
begun has its first byte, and the frames used up end at or before the byte the
reader has come to.  A call that returns a frame has seen a whole one by `Exact`; one
that went past the end of a split header is an `OverRead` of `Websocket`, and what
a reader out of step returns is a `ReadGarbage`, which may use up any frame whose end
it has passed.

`HashMapProofs` proves types and `FindsKey` for every hash function, every number of
keys and all thresholds of growth.  The invariant is `MapInv`: in each of the two
arrays every entry is in the bucket its key hashes to for the length of that
array (`InPlace`).  `FindsKey` alone is not inductive, since it says nothing of the
array that is being filled.  A lookup returns the first entry of its key; that
there is a first one comes from the well-foundedness of the natural numbers.

`LoadBounded` holds if an array that grows gains two buckets at least (`GrowsByTwo`),
as with the 16, 1024 and 16384 of the library; growing from 4 to 5 would break it.
The run has smaller thresholds, so as to see all three kinds of growth, and too few
insertions to come to that.  The invariant `LoadInv` follows the entries of both
arrays, not `count`: after a failed grow the count may be above three quarters.

`ImplementsDictionary`: the map is a `Dictionary` whatever allocations fail, with all
entries of both arrays as its state.  The invariant is `DictInv`: no entry is in two
places, neither twice in a chain nor in both arrays, since each is inserted with a
value that was not given before.  Without it a removal could leave a second copy
behind.  While grow moves nodes the dictionary stutters, and an insertion that
fails in the middle of it costs what was not yet moved back, as `Dictionary`
allows.

`LruCacheProofs` proves all properties of the cache for all keys, values and
nodes, every capacity, and whatever allocations fail.  The invariant `LruInv` has
four parts.  `ListInv`: some enumeration of the nodes in use agrees with `head`,
`tail` and both links of each node (`ListOf`); during delete only the forward links
are left.  `SizeInv`: what is counted and what failed, at each step of a put.
`MapInv`: a key has one entry at most (`Single`), which `NoDangling` needs, for
otherwise an eviction could leave a second entry of its key behind; in the
middle of a put the new head holds the key that comes next.  The lemmas
`PushList`, `MoveList`, `DropList` and `PopListing` say of any list what the three writes
to it do; `HeadCells`, `NewCells` and `CutCells` compute the links that the code's
assignments leave.
`ImplementsRecentlyUsed` needs two things more.  There is one list only that the links
describe (`OneList`), so that what is `Listed` can be followed through a step.  And as
long as nothing has failed the map refers to every node but the one a put is about to
insert (`Covered`): a key that is not found has no node, and the node evicted is the
last entry.  A put shows when the map has taken its node, or when the tail has gone.

`SessionProofs` begins with the handshake.  It proves `NothingSwallowed`, for every
answer, every first size and every way the bytes may come: from bytes that do not end
the answer its end is at least `More` away (`EndFarEnough`), so `needed` never passes
it as long as reads are not short (`NotBeyond`).
`UpgradedBehindAnswer` rests on `OneEnd`, that no bytes sent behind the answer look
like a second end of one, as in the run: with short reads the loop may pass the first.
`RequestNamesUrl` holds for every URL: the code cuts the sequence of parts at the
first separator of a kind (`FirstIs`), and lemmas `UrlParts` and `Cut` say where that is in
a URL of scheme, host, path and what follows.

The codec comes next: for all headers with a 32-bit key and all
lengths below `2^63`, `deserialize_header` returns what `serialize_header` was given
(`DecodesWhatWasEncoded`), and every proper part is insufficient, but for the one
exception above (`PartsAreInsufficient`).  `PeerReadsFrame`, `PartIsInsufficient` and
`ShortFrameStaysInside` follow for all frames a caller may send.  Their invariant
`WriterInv` says that the frame in the buffer and those on the wire are what
`Buffered` made of a frame whose header could be encoded, and that `reach` is
that of the frame in the buffer.  That the peer gets each byte back rests on
`XorTwice`, proved bit by bit.  `ImplementsWebsocket` needs `ReturnInv` besides: a frame
is sent behind a handshake only, and `sent` changes only when a call returns.  The
theorems assume of the caller's frames what the C types allow (`OutgoingAssumption`),
that a CLOSE is sent by `revoltc_ws_disconnect` alone and lengths are within
`PayloadMax` (`CallersFrames`).

`EventLoopProofs` rests on one fact: every step of the loop, the client, the threads
and the peer is a step that `Websocket` allows or leaves the connection alone
(`UsesWebsocketThm`).  Its side conditions are that the object is freed by
`revolt_cleanup` only, when the run thread is out (`Order`), and that queued frames,
pongs and the token may be sent (`LoopTypes`).  With it all theorems about `Websocket`
hold of the loop; `DeleteReleases` is one of them.  The rest is about what is written:
`StepAdds` says that a step leaves `wire` alone or adds one CLOSE, token, queued message
or pong, and from which place of the run thread.
 - `AuthBeforeTraffic` and `PartialFrameEnds`: while the thread polls on an open
   connection a whole token is on it (`PollsAuthed`) and its last frame went out
   whole or is a pong (`PollsWhole`).
 - `AtMostOnce`: the messages on the stack ascend (`Sorted`), what is on any wire was
   accepted before (`WrittenKnown`), and no message is in two places
   (`MessagesApart`).
 - `ImplementsOutbox`: `MessageStep` sorts steps into those that accept, take the
   newest, discard, or touch no message; each is a step of `Outbox` or none.
   `Outbox` may discard what waits only with the client: `DeletedStep` says that only
   `revolt_cleanup` ends it and that stack and result stay as they are after that.
 - `LostAcrossRunsOnly`: while the thread is in the loop, `hnd` is no failed attempt
   (`HoldsNoFailure`), so a connect loses a handle only as the first of a run.
 - `AuthOncePerRun`: without allocation failures poll reconnects only when it is
   not connected, thus to a fresh handle without a token (`Fresh`), and the first
   connect of a run finds one token less than runs (`AuthsBound`).

 - `PongsAnswerPings`: the answers on the current connection belong to pings read
   from it, one each, in the order of the pings (`AnswersNow`), and a ping that still
   waits to be dispatched comes after all that are answered (`PingDue`).  A new handle
   has nothing on it (`Blank`), a reader that is out of step makes no claim, and a pong
   the application queues is no answer.

`FetchProofs` proves that no block is freed twice or used after it was freed
(`NothingDangles`), that only an object whose document was never parsed is unwritten
(`UnwrittenOnlyUnparsed`) and that all blocks are freed in the end but the known four
(`NothingElseLeaks`), for all documents, any number of pieces, relations and failing
allocations.  The invariant `FetchInv` has these parts.  `PlaceInv`: at each place, which
function runs for which object and what it has so far.  `DocInv` and
`WrapperInv`: the wrappers a deserialiser holds are in use and stand for the part of
the document it believes, `child` leads from each wrapper in use to one made later
(`Linked`).  `FieldInv`: each field is NULL, unwritten, or points to
a block that bears the name of its object.  `UnsetInv`: which fields are empty
still, and which stay empty for a channel of a given type.  `LiveInv`: what is in use at a
place is enough for all that will be freed; `AccountInv`, the converse: every block
in use belongs to something that will free it (`Given`) or is one of the known
four (`Lost`).  `WrittenInv`: no field is wild behind the first function of a
deserialiser.  A look deletes only wrappers behind the one it looks into
(`ChildLooks`), which nobody holds any more.  A call through a null or unwritten
pointer ends the behaviour; there only `Stopped` is claimed.

`ImplementsCursor` adds that what a look does to the wrappers is a cut in the line of
values (`LineCut`): the line up to the wrapper stays, then comes the new value or
nothing.  Each look of the deserialisers (`StepReads`) asks for a part of its
wrapper's value or for the element behind it in an array.

`ReadingProofs` proves `ReadsDocument` for every set of answers that keeps to the schema.
`ReadInv` says, from each place of the code on, what has been read by then:
the fields of a part hold a copy of the string at their path, or NULL if there is none
or an allocation has failed (`Holds`); an enumerator is what its name means, unless
the copy of the name failed (`Means`); a number in range has its value
(`NumberRead`).  Lemma `Kept` says which fields each action leaves alone, and
`StepSpends` that failures never become less, so that what was read stays so.
That no string is held twice follows from names: copies are named after the path of
their string (`CopiesApart`), paths of fields differ (`PathsDiffer`), and a field
holds a copy from its own path only (`HeldFrom`).
`FoundInv` adds that relations are in their places: `user_id` of the next one is a name
that is not in use (`NextIdNew`), so its first copy is not taken for a second.
Only the last step, from these invariants to `ReadsDocument`, makes use of the schema
(`SchemaHolds`); of numbers it takes that `MaxI64` is a natural number
(`MaxI64Assumption`).  TLC checked `ReadInv` and `FoundInv` on the instance of `Fetch.cfg`
before they were proved.

Every safety property, action property and refinement that a run finds to hold is
proved.  Only model-checked are the liveness properties, which are out of the
prover's reach: `StopHonoured`, `KeepsSending`, `CloseEndsRun`, `CallReturns` and
`ConnectReturns`.

## 7. What is not modelled

 - In the handshake: a field table of 128 entries whose bound counts bytes; answers
   whose lines end in LF alone; an empty line in front, which leaves a null pointer in
   the table; a space in the host; the terminator written one byte behind the bytes
   read.
 - Lengths above `INT64_MAX` in `Websocket`, where a payload is short or long
   (`TooLong`); `HeaderCodec` has that check.
 - `revoltc_hash_map_grow` with a factor out of range (`INVAL`; `insert` passes 1, 0.5
   or 0.25) and a number of buckets beyond 32 bits.
 - What memory holds after an over-run: the stack of `ws.c` past its fifth entry,
   and `mask` (websocket.c 398-402), whose length is header plus payload.
 - Failure of the unchecked allocations in `revoltc_ws_recv` (payload).
 - Frames the peer masks: `revoltc_ws_deserialize_header` accepts a short one
   without its key.
 - The callbacks `open` and `SEND_...`, which nothing dispatches, and callbacks
   that do more than queue a message or stop.
 - `revolt_ws_send` from a second thread while the loop runs: nothing in the code
   makes it safe, and the playground queues before it spawns.
 - An LRU cache with a `free_fn`: eviction hands the list node, not the value, to
   it and frees the node again.  The hash map's own `free_fn` is modelled
   (`freed`).
 - What the program does after the cache has touched a freed node.
 - In the JSON wrappers: integers, doubles and flags, which touch no wrapper, and
   what the libraries convert numbers to (`json_cjson.c` 194: a literal true).
 - In the data models: plain numbers and flags.
 - A failing `curl_slist_append`, after which a request goes out without its token.
 - Names of error codes; the hash functions themselves (the map is modelled for
   every function); the debug printout of the map.
 - What the callbacks of the playground print.
 - `events.h`, which declares events no code dispatches, the vendored headers, and
   build files.
