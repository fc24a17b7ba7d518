# ultracache in TLA+

ultracache is a memcached-like cache server and its client library, talking a
protocol of its own over UDP. This directory holds TLA+ modules translated
from `src/ultracache/`, TLC runs that check them on small instances, and
proofs, checked by TLAPS for every value of the constants, of the central facts
about the heap, the cache in it, the queue between the threads, the receiving
threads, the calls of the clients and the life of the server.

File names below are those of `src/ultracache/` (and of this directory for
`.tla` and `.cfg`). Run TLC with `tlc -config <run>.cfg <module>.tla` and the
prover with `tlapm <module>Proofs.tla`.

## 1. The system

### Components, their state and their operations

| component | state | operations | what makes it correct |
|---|---|---|---|
| `Heap` | arena, offset of what was never used, `HEAP_ALLOC_BITS * HEAP_ALLOC_SLOTS` free lists by size class | `alloc` (recycle a block of a large enough class, or carve one), `free` | blocks never overlap; a block has one owner; a request is refused only when nothing fits; `free` always finds a class |
| `Hash`, `Cache` | bins of singly linked items that live in heap blocks; the next cas stamp; the time | `get set add replace append prepend cas incr decr del version` | a chain holds a key once and no freed item; an operation affects its key alone, `append` and `add` excepted; values stay inside their blocks; stamps identify contents; nothing leaks |
| `JQueue`, `JThreadQueue`, `JCondition` | ring with two wrapping cursors, mutex, condition | `PostItem`, `WaitForItem` (and five operations nobody calls) | FIFO, nothing lost or given twice, nobody sleeps beside an item |
| `Packet`, `PacketWriter`, `PacketReader` | list of packets; sequence number, packets left, bytes so far | writing integers and blocks, `send`; `put`, `copyToBuffer` | what is read is what was written; parts are never taken for a whole |
| `Server`, receiving | `m_rmap`: node and request id to partial `Request`; a spinlock; `m_rxQueue` | `rxThread`, one per CPU, on one socket | whole requests, each in one place, each served once |
| `Server`, serving | the cache; `m_txQueue` | `main` takes requests one at a time (`decodeRequest`), `txThread`s send responses | every synchronous request gets the response its command promises |
| `Client` | request id, error, one `PacketReader` per call | the ten calls, synchronous or asynchronous; `getMulti`, `readMulti` | a call returns its own response, and returns at all |
| `Server` lifecycle | `m_bIsRunning`, threads, the socket | start, `shutdown`, poison `NULL`s, joins | everybody ends, and `main` last |
| allocators (`JAllocator`) | free lists of packets, requests, responses | `Alloc`, `Free`, leak assert | nothing leaked, nothing freed twice |
| `ByteStream` | a buffer and an offset | `read` and the integers | throws at the end and nowhere else |
| `TimeProvider` | the time the cache reads | `update` | how stale a value may be served |
| `Spinlock`, `JThread`, sockets, configuration | - | - | - |

They interact as follows. A client's call writes a request into datagrams; rx
threads put datagrams into the `Request` found in the shared map and post
whole requests to `m_rxQueue`; the main thread alone touches the cache and the
heap and posts a `Response` to `m_txQueue`; tx threads send responses, packet
by packet, with no lock between them; the client reads packets until one does
not fit or the response is complete. Shared state between threads is: the map
(spinlock, left before `put`), the two queues (mutex and condition), the
packet and request allocators (spinlock).

### What is hard

- *Interleavings*: rx threads on one map after its lock is released, tx
  threads on one socket, takers of a queue between signal and wake-up.
- *The network*: datagrams lost, duplicated, overtaken; late responses.
- *Timeouts*: a call that gives up, and its response during the next call.
- *Long legal sequences*: recycling blocks, growing, moving and unlinking
  items with a remembered predecessor, lazy expiry.
- *Limits*: full heap, full queue, wrapping cursors, request ids and sequence
  numbers, packets filled to the last byte.

`PROJECT.json` lists the hazards at their lines, with the properties that
cover each, or the reason why none does yet.

## 2. Modules

Each action is one operation, handler or critical section of the code, with
the same order of guards and assignments. Names are those of the source where
there is one.

- **`HeapOps`**: `Heap.cpp` as operators on a record `[offset, size, free]`.
  `HeapAlloc` is `alloc`: `Carve` (`allocFromBase`) and, when the arena is used
  up, `Recycle` (`allocFromFree`, `unlinkEntry`); `HeapFree` is `free`,
  `FreeAsserts` its assert; `Class` is the arithmetic that finds the list of a
  size. `SlotsAssumption` says that the slots of a size divide it, as powers of
  two do. **`Heap`**: a client of it that allocates and frees. **`MCHeap`**:
  sizes for TLC. **`HeapProofs`**: theorems.
- **`Cache`**: `Hash.cpp` and `Cache.cpp` on top of `HeapOps`. An item is a
  record at the address of its block, with its link to the next one; `Chain`
  follows the links, and `Find` returns the item and `previous`. Every
  operation is one action, because only the main thread calls the cache, and
  ends with `Update` (`TimeProvider::update`, which `main` calls after a
  request has been served); `Tick` lets the clock run between two requests.
  `GrowAndReplace` is `growAndReplace`, with its shortcut when the block is
  large enough; `Discard` what `get`, `add` and others do with an expired item;
  `crashed` tells that a NULL was dereferenced, that the assert of `Heap::free`
  failed, or that an `append` of a long value to a short one reached back into
  the header of the item; nothing is said of the program from then on. An
  `append` that moves an item and whose data are longer than the old value
  writes the first of them over the end of the key (`Cache.cpp:307`). The
  client chooses these bytes, so `Overwritten` lets the item bear any key
  afterwards, its own, another of its bin, one of another bin, or one that no
  client uses (`Garbled`); `Append_` follows each. The history variable
  `spelled` collects the keys that were written this way.
  **`CacheContract`**: what the
  operations promise, a map from keys to items with a possible loss to expiry
  and to a full heap. **`MCCache`**: keys and two bins, so that keys collide or
  do not. **`CacheProofs`**: theorems. `Chain`, `Number` and `PowerOfBase` are
  recursive functions, not recursive operators, so that they can be proved
  about.
- **`JQueue`**: the ring, cursors modulo `CursorRange`. **`JThreadQueue`**:
  `PostItem`, `WaitForItem` up to its wait, and what follows a wake-up; the
  condition follows POSIX, spurious wake-ups included. **`Fifo`**: the
  abstract queue it implements, under `items <- ItemsOf(queue)`; its `SafeSpec`
  is the part without fairness. The length divides the range of the cursors
  (`JQueueAssumption`), as it must for a ring whose cursors wrap.
  **`JThreadQueueProofs`**: theorems. The run uses `JThreadQueue` itself.
- **`Packets`**: `PacketWriter` (`Payloads`, `Datagrams`) and `PacketReader`
  (`Put`) as operators. A datagram carries ghost fields `message, index, of`
  that no code reads.
- **`ByteStream`**: the bytes of a request. `RequestWrites` is what the calls
  of `Client.cpp` write, field by field, integers low byte first; `Decode` is
  what `decodeRequest` reads with a `ByteStream`, which throws at its end.
- **`Receive`**: rx threads, map, queue and main thread; the network loses
  (`Lossy`), duplicates (at most `MaxCopies`) and reorders (`Reorder`). A step
  ends where a lock is taken or released or shared memory is touched without
  one: `Find` (under the lock), `Deref` (`iter->second` after it),
  `PutPacket`, `EraseComplete`, `PostRequest`. `corrupt` tells that freed
  memory was used; nothing is said of the program from then on. Two history
  variables are sets of request ids: `lost` has those of which the network has
  lost, duplicated or reordered a packet, `raced` those of which two threads
  have had packets at the same time; a request whose id is in neither is
  `Calm`.
  **`MCReceive`**: requests that arrive whole, that are cut in two and that
  fill a packet; their ids are different, or two of them the same.
  **`ReceiveProofs`**: theorems.
- **`PacketPool`**: the free list of packets, and threads that make lists of
  packets and delete them. The destructor of `PacketReader` and `put` delete a
  packet and then read its successor (`Drop`, `DropNext`), `copyToBuffer` and
  `send` the other way round (`Keep`). **`PacketPoolProofs`**: theorems.
  **`BasicFacts`**: facts about what occurs in sequences, least members of
  sets, powers of two and positions in a matrix, which the modules of proofs
  share.
- **`Requests`**: `Made` gives the request every call of `Client.cpp` sends
  and the replies it has a case for; `Serve` what `decodeRequest` makes of the
  request: the new item and the reply, or `NoReply`. The cache is reduced here
  to the item of a key, as `Cache` describes it, at a fixed time and without
  collisions.
- **`Client`**: clients, the network, the main thread, the tx threads. A call
  is `StartCall` up to its wait, then `ReceivePacket` per packet
  (`waitForPacket`, `readResponse`, and what the call makes of a complete
  response in `FinishCall` or `FinishMulti`) or `Timeout`; `Disconnect` and
  `Connect` come between calls. **`MCClient`**: the calls of each run.
  **`ClientProofs`**: theorems.
- **`Lifecycle`**: `main`, `rxThread`, `txThread` and `shutdown` from the start
  of the threads to the joins. All that an rx thread does with a datagram is
  one step, `RxHandle`, with the outcomes `Receive` has in detail. The objects
  of the three allocators are counted. `closeWakes` is what the platform
  decides: whether `SocketClose` wakes a thread inside `recvfrom` (it does on
  Windows and does not on Linux). **`LifecycleProofs`**: theorems.

`HeapOps` is composed into `Cache` and `Heap`; `Packets` and `ByteStream` into
`Receive`; `Packets` and `Requests` into `Client`. Between `Receive` and
`Client` the cut is the queue `m_rxQueue`: `Receive` shows what reaches it,
`Client` starts from requests that reach it whole, in any order, possibly twice
or never.

## 3. Runs

Deadlock is not checked where the system may rest: no datagram on its way, no
call left, the bound on operations reached, or an assert has failed.

### Runs that pass

| run | instance | what it shows |
|---|---|---|
| `heap_small` | arena 44, 4 x 2 lists, sizes that share a slot, neighbour slots and rows, and one too large to be freed | `Exclusive`, `NotHandedOutTwice`, `RefusedOnlyWhenFull` over every sequence of allocations and frees |
| `cache_memory` | three keys in one bin and one in another, a small arena that fills up, blocks too large to be freed, every operation, values of no, two and three bytes (appended to the empty value, two bytes reach back over the key and three over the header), clock up to 2; 225,240 states | `ChainsSound`; `ItemsInTheirBlocks`: growing, moving and rewriting a value never writes behind its block; `OthersKept`: an operation keeps the other keys, except an `add` over an expired item that others follow, which loses them, and except the keys in `spelled`; `LeaksWhere`: a block is lost only by an `incr` or `decr` that moves, a `cas` of an absent key, and an `add` that cuts a chain |
| `cache_contract` | two keys in one bin, every operation but `append` | `KeepsContract`: refinement of `CacheContract`; `StampNamesContent`: two contents never share a stamp; `StaleOnlyAfterPause`: an expired value is served only when it expired after the request before |
| `queue` | length 4, cursors modulo 8, three takers, two items | `NoLostWakeup`; `ImplementsFifo`: refinement of `Fifo`, the liveness of its takers included |
| `rx_one` | one rx thread, requests of one and two packets, a request id used again, loss, one duplicate, any order, a limit of 12 bytes; 113,000 states | `ServesWholeRequests`, which includes that what is served fits in the buffer; `OnePlace`, `MemorySafe`; `FailureHasCause`: the server gives up a request only for what the network did to packets with its id, or because it is too long; `ServedAsWritten`, with a `cas` of two packets |
| `rx_many` | two rx threads, a `set` that arrives whole, one that is cut in two, a `cas` that fills its only packet, each with an id of its own, any order, no loss; 17,000 states | `OnePlace`, `MemorySafe` up to the first race; `FailureHasCause`, for each id apart; `ServedAsWritten`: what the server executes is what was called for; `ServedExactlyOnce`, a liveness property of each request whose own packets come in order and to one thread at a time |
| `rpc_rough` | one client with two sockets, every call of the API, `getMulti` of two keys, responses of two packets, keys too long, a full cache, loss, one duplicate, any order, timeouts | `AnswerIsOwn` across the wrap of request ids and across sockets; `AbortsWhere`: the client aborts in three places only; `CallsReturn`, liveness |
| `rpc_calm` | one client with four calls, two tx threads, every synchronous call and an asynchronous `set`, `getMulti` of two keys, any order, no loss, no timeout, one socket; 20,273 states | `CallsAnswered`, liveness: every call but `version` returns with its response; `MultiAnswersAll` |
| `life` | two rx and two tx threads, two datagrams of any of six kinds, `shutdown` at any moment, both platforms | `NothingRunsAfterReturn`: when `main` has returned nothing happens but the post of a `shutdown` that it has overtaken; `Accounted`; `StopEnds` and `TxThreadsEnd`, liveness |
| `pool` | two threads, four packets, two of them preallocated | `InOnePlace`, `DeletesItsOwn`, up to the first packet that is constructed while its successor was still to be read |

The bounds are enough for the interesting cases to occur: the arena of
`heap_small` holds three or four blocks, so lists are used, searched upwards
and exhausted; three colliding keys are the least that give an item a
predecessor and a successor; the range of the cursors is a multiple of the
length, as 2^32 is of 2^20, and the cursors wrap; the first request id is the
last one before the wrap and the sequence number at the end of its range; two
takers can be woken while a third takes the item; with packets of twelve bytes
and a header of four (`rx_one`), a `set` and a `cas` need two packets, the
first of them filled to the last byte, and an `incr` arrives whole; with
packets of eighteen (`rx_many`) a `set` arrives whole too, another needs two
packets, and a `cas` fills exactly one; two threads of each kind are the least
that can take each other's `NULL`; four packets are enough for the two threads
to exhaust the free list and to allocate more. The keys of `cache_memory` that
share a bin are symmetric. Its `VIEW` leaves the last answer out: what an
operation does depends on the rest of the state, the invariants do not speak of
the answer, and the action properties only of the one a step gives. `MaxCas`,
`MaxTime`, `MaxCopies`, `MaxCalls`, `MaxSockets` and `MaxDatagrams` are the
named bounds of otherwise unbounded counters. Keys are model values, payloads
short sequences: the code compares and copies them and does nothing else with
them, `incr` and `decr` excepted, whose conversions are modelled with `Base`
digits and numbers of at most `UINT64_STRING_LENGTH` of them, and the integers
of a request, which `ByteStream` takes apart into bytes below `ByteRange` and
puts together again.

Several properties are stated with the exceptions the code has, so that they
say exactly how far it can be relied on: `OthersKept`, `LeaksWhere`,
`AbortsWhere`, `FailureHasCause`, `StaleOnlyAfterPause` and `Accounted` name
every place, `ChainsSound` and `OthersKept` leave out the keys in `spelled` and
no others, `ServedAsWritten` says what becomes of a request that fills a
packet, and `CacheContract` says that `cas` of an absent key reports success
and stores nothing, and that an expiration given for a key that is present is
taken as a time. `Requests` and `Client` have the rest as the code has it:
`cas` is sent as a `SET`; the response to `version` is made and not posted; the
reply to `incr` carries the increment; a late response makes the next call
return as if it had timed out; `append` to an item that moves overwrites the
end of the old value, and perhaps of the key. Each is described at its
definition.

Some consequences that the properties make visible:

- A packet is filled as if it had no header, and `recvfrom` cuts off what is
  too long. So a full packet loses its last bytes, and every packet of a longer
  request but the last one is full; the `ByteStream` throws at its end, and the
  request is dropped without an answer. The exception is a `cas`, which is read as a `set`
  with eight bytes less, exactly what one full packet loses. With one full
  packet it is executed: as it was called for when that is its only packet, and
  when another follows, with the right key and length, and with data put
  together from the wrong bytes.
- A request can fail although nothing has happened to its own packets. When a
  client comes to use an id again whose earlier request is still unfinished in
  `m_rmap`, `put` starts over and keeps the size it has counted
  (`PacketReader.cpp:32`), and may find the new request too long. So
  `FailureHasCause` can only speak of the packets with the same request id.
- An `append` can turn one key into another. A chain can then hold a key twice,
  so that a `del` of it uncovers the older item, or an item in a bin where it is
  not found.
- A race is not rare: two packets of one request in two threads are enough.
  What follows ranges from a "Packet loss!" that was none to the use of a
  `Request` another thread has deleted; the models stop there.
- At the end of the process the leak assert of `JAllocator` fails if anything
  was queued, partly received or refused, or if anybody asked for the version.
- On Linux the server may need one more datagram per rx thread to end.

### Runs that disagree with the source

In each, TLC finds what an assertion of the source says to be violated by the
code as it is. `PROJECT.json` quotes the lines.

| run | property | what happens |
|---|---|---|
| `heap_real` | `NeverAborts` | with the real constants, freeing an item of the longest value fails the assert of `Heap::free` |
| `life_leaks` | `NothingLeaks` | the leak assert of `JAllocator` fails after a stop: refused packets, unfinished or queued requests, and the response to `version` are never deleted |

The Makefile defines no `NDEBUG`, so asserts are live.

### Fairness

- `JThreadQueue!FairSpec`: a taker that can take the mutex and go on does.
  Nobody has to post, and no spurious wake-up has to come.
- `Receive!FairSpec`: rx threads and the main thread are scheduled (they are
  OS threads in endless loops). No client has to send, and the network owes
  nothing: `ServedExactlyOnce` speaks of requests that were sent and whose
  packets it has not lost, duplicated or reordered.
- `Client!ClientFair`: a waiting client reads what is there or `poll` times
  out, which the OS guarantees; the server and the network owe nothing.
  `FairSpec` adds that the server's threads are scheduled.
- `Lifecycle!FairSpec`: every thread that can run does, and `shutdown` is
  finished once it was called. Nobody has to call it, and no datagram has to
  arrive: a thread inside `recvfrom` may stay there.

Weak fairness is enough everywhere: no step is enabled and disabled again by
others for ever, except for takers of the queue, where `NoLostWakeup` is what
makes it enough.

## 4. Proofs

- `HeapProofs`, from `HeapAssumption`, `SlotsAssumption` and
  `RequestsAssumption` alone, so for every arena, alignment, header size and
  shape of the free lists: `HeapTypeCorrect`, `HeapExclusive`,
  `HeapNotHandedOutTwice`, `HeapRefusedOnlyWhenFull`. The inductive invariant
  is `IInv == TypeOK /\ Exclusive /\ NotHandedOutTwice`. The two safety parts
  are not inductive by themselves: carving keeps blocks apart only because all
  of them lie below the offset (part of `Exclusive`); recycling keeps a block
  in one place only because lists hold no block twice and none that is held;
  and a recycled block is large enough only because `Fits` compares sizes that
  `TypeOK` says are recorded. The lemmas `PushProperties` and
  `RemoveAtProperties` say what linking and unlinking do to a list,
  `AlignBound` that rounding does not shrink, `MinIsMember` that the search
  picks an existing class. `NeverAborts` is no theorem: `heap_real` refutes it.
  `RefusedOnlyWhenFull` needs a second invariant, `NothingLost`: a block that
  nobody holds is `Reusable`, on the list of its own class. With the lemma that
  `Class` is monotone in the size, a free block that is large enough lies at or
  above the class the search starts at. It is here that `SlotsAssumption` is
  needed, and that sizes are below 2^30, where `logh` ends
  (`RequestsAssumption`; the length of a value has 20 bits).
- `CacheProofs`, from `HeapAssumption` and `CacheAssumption`: `CacheTypes`
  (`TypeOK`), `ChainsStaySound` (`ChainsSound`) and `ItemsKeepTheirBlocks`
  (`ItemsInTheirBlocks`), for any keys, hash function, bins, values, arena and
  order of the operations; then what clients find and which memory is lost,
  below. None of the three is inductive, and `Chain`, which they speak of,
  follows pointers through items that a step is about to relink. So the
  inductive invariant `CacheInv` says that there are sequences `ch`, one per
  bin, with `Sound(Strange, cache, ch)`: `Store` (the heap is in order,
  `HeapOK`; every item is in a block that is not free and is large enough; its
  stamp is below the next), `Shape` (bins and `next` pointers lead along `ch`,
  and no address is in it twice) and `Keyed` (an item is in the chain of its
  key, and a key has one, unless the key is `Strange`: in `spelled`, or
  `Garbled`). The lemmas have the set of such keys as a parameter, `Odd`; with
  the empty one they are about a cache without `append`. `ChainIs` shows that
  the pointers then lead where `ch` says, so `Find` returns an item and its
  predecessor in `ch` (`FindPosition`). Each private operation of `Cache.cpp`
  is a lemma about what it does to `ch`: `UnlinkSound`, `LinkSound`,
  `FreeSound`, `PutSound`, `GrowSound`, `InsertSound`, `DiscardSound`;
  `AllocProperties` and `FreeProperties` are what they need of the heap.
  `GrowSound` is the one that depends on the order in the code: the copy takes
  the place of the old item only because that is unlinked before
  (`GrowUnlinkLast`, the other order, is the mutant). Linking where a search
  has ended may cut off the rest of the chain (`add` over an expired item);
  `Spliced` allows for it.

  The theorems about contents are `OthersAreKept` (`OthersKept`), `StampsName`
  (`StampNamesContent`), `StaleOnlyAfterAPause` (`StaleOnlyAfterPause`) and the
  refinement: `CacheKeepsContract` (`KeepsContract`) for a cache without
  `append`, and for the whole cache `AppendAloneBreaksContract`: every step
  that is not an `append` is a step of `CacheContract`, also after an `append`
  that left a value the contract does not allow (one that moves the item puts
  the data at the wrong place, `MisplacedAppend`), as long as none has written
  another key (`spelled = {}`): after one that has, a `del` may uncover an
  older item. They use the same sequences. `ContentsOf` reads the content of a
  key off the item that bears it (`HasItem`), which `OneItem` says is the only
  one unless the key is strange, so an operation is described by the one key it
  makes a new content for (`Becomes`, `Lessens`) and by what it leaves of the
  rest (`OtherContents`). Every private operation has a lemma of that form
  (`InsertDone`, `RewriteDone`, `DiscardDone`, `RemoveDone`, `RefuseDone`,
  `AddOverDone`), and every public one ends in `Serves`: the new state is
  `Sound` again and the step is one of the contract's (`GetServed` to
  `CountServed`). `StampsName` needs no exception for strange keys: all items,
  found or covered by another with the same key, have stamps of their own
  (`Distinct`), because a step changes one item at most and gives it the next
  stamp (`OneStamped`); so a key that is uncovered or rewritten has another
  stamp. That a value survives being moved rests on `HeapOK`: the block it is
  copied to is free or newly carved, so it holds no item, and the copy is made
  before the old block is freed.

  `LeaksAreThere` (`LeaksWhere`) accounts for every block, from
  `SlotsAssumption` and the additional `ArenaSize <= 2^30`: there `logh` of
  every size has a list (`ClassExists`), so whatever the heap gives back can be
  found again (`FreeReturns`). `Traded` says which block a step took from the
  free ones and which it returned; `OnlyOld` and `AllOld` say which item came
  into the chains and which went. Where the two agree nothing is lost
  (`TradeLosesNothing`). Each operation either shows that they agree
  (`Balanced`) or is one of the three that `LeaksWhere` names. A crash leaves
  the cache as it was, and ends it.
- `JThreadQueueProofs`, from `JQueueAssumption` and `JThreadQueueAssumption`:
  `QueueTypeCorrect` and `QueueNoLostWakeup` for any number of takers.
  `NoLostWakeup` is inductive together with `TypeOK`; the counting argument is
  in how each step changes `Cardinality(Woken)` and the count of items: a post
  adds one to both while somebody sleeps, a resuming taker takes one from both
  or finds the queue empty, and a taker goes to sleep only when the count is
  zero. `QueueImplementsFifo`: every step of the ring is a step of `Fifo` under
  the refinement mapping or leaves it unchanged, with the cursors wrapping,
  from the additional `CursorRange % Length = 0`.
- `ClientProofs`, from `ClientAssumption` and `PacketsAssumption`:
  `AnswersAreOwn` and `FewAnswersAreOwn` (`AnswerIsOwn`), for any number of
  clients, tx threads and calls, any range of request ids, any loss,
  duplication, order and delay. A request id is used again after `RidRange - 1`
  calls, so the first theorem has the condition `[]Prompt`: no packet on its
  way is that old. The second replaces it by a bound on the calls. The
  inductive invariant is `CallsInv`: what is on its way bears an id that is as
  old as its call or older (`InFlightOK`; older, because a call that finds no
  socket takes a number and no id), the handles of `getMulti` are the latest
  ids in order (`HandlesOK`), and what a reader has taken is young and has its
  id (`ReadersOK`). `AbortsAreKnown` and `FewAbortsAreKnown` (`AbortsWhere`): a
  reply finds a call that has a case for it. The invariant is `CallsInv` and
  `RepliesOK`: a request that bears the number of the call its client waits for
  has that call, a response is one the server gives to it (`RequestKnown`,
  `ResponseKnown`; `ServeAnswers` goes through `decodeRequest`, command by
  command), and a reader in the middle of a response has packets of hits only
  (`ReaderOfHits`), because every other response is one packet. How a response
  is cut (`ResponsePayloads`) is proved from the definition of the writer, not
  assumed: a response is no write or one, so the fold ends after a step. The
  proof showed that a response need not have several packets to be too short,
  as an earlier form of `AbortsWhere` had it: the writer fills a packet as if
  it had no header, and `recvfrom` cuts off what does not fit, so a value of
  `BufferSize - HeaderLength + 1` bytes is enough.
- `ReceiveProofs`, from `ReceiveAssumption`, for any number of rx threads, any
  messages and whatever the network does: `ReceiveTypeCorrect`,
  `RacesAreTheOnlyDanger` (`MemorySafe`) and `RequestsInOnePlace` (`OnePlace`).
  Their inductive invariant is `Safe`: the types, `MemorySafe`, and, unless
  there has been a race, `Owned`. `Owned` says where a `Request` is (`Placed`:
  in the map, the queue or a thread, nowhere twice, and in one of them unless
  it is deleted), that two threads that look something up or have it have
  packets of different keys (`Alone`), and that a thread that has found a
  `Request` and not taken it out of the map still finds it there (`Found`).
  `OnePlace` is not inductive alone: `Erase` empties the right entry only
  because of `Found`, and `Found` survives the steps of others only because of
  `Alone`. `FailuresHaveCauses` (`FailureHasCause`) rests on a second
  invariant, `Ordered`, for each request id that is `Calm`, whatever happens to
  others: the packets of a request are on their way in the order they were cut
  (`NetOrder`), what the server has of a request is exactly the packets before
  the next one (`AtRest`), and so is what a thread is about to put (`InHand`).
  It holds per id because the map, and so every step of a thread, touches the
  entry of one id only. The proof showed that `FailureHasCause` has to name a
  third cause, a request longer than `MaxRequestSize`, and that after such a
  failure the packets that follow fail as well. `OnlyWholeRequestsAreServed`
  and `OneThreadServesWholeRequests` (`ServesWholeRequests`) hold on every
  network. Their invariant is `Filled`: an entry of the map is new or has the
  first packets of one request in order and waits for the next (`Partial`),
  what is posted, queued or served has all of them (`Full`), and every packet
  is one that was sent (`Genuine`). The premise is `Tellable`: the packets of
  requests with one id differ in their sequence numbers. The code makes that
  likely, not certain: every writer starts at `rand ()` (`PacketWriter.cpp`),
  and two requests with one id whose numbers coincide could be mixed if packets
  of them are lost. `rx_one` has two requests with one id and different
  numbers. `ReceiveAssumption` says of every request that it is cut into at
  least one packet, which are sequences of bytes, and that a first sequence
  number is in its range; what the fold in `Payloads` computes is induction
  over data, so it is assumed here and evaluated by TLC on every instance.
- `LifecycleProofs`, from `LifecycleAssumption`, for any number of threads and
  datagrams and any moment of the stop: `LifecycleTypeCorrect`,
  `NothingElseLeaks` (`Accounted`) and `ReturnIsLast`
  (`NothingRunsAfterReturn`). Type correctness says that no counter is taken
  below zero, so it needs `Accounted`, which makes each counter a sum over what
  exists; together with `JobServed` (main has a request exactly while it serves
  one) this is the inductive invariant `Books`. `Joined` says which threads
  have ended at which turn of the join loop. `ReturnIsLast` is an action
  property: with every thread ended and the flag cleared, the only action that
  is left is the post of a `shutdown` that `main` has overtaken
  (`Server.cpp:569-570`), so a caller must not destroy the server before that
  has returned as well.
- `PacketPoolProofs`, from `PacketPoolAssumption`, for any number of threads
  and packets: `PacketPoolTypeCorrect`, `PacketsInOnePlace` (`InOnePlace`) and
  `PacketPoolDeletesItsOwn` (`DeletesItsOwn`). The inductive invariant is
  `PoolInv`: the types and, unless there has been a race, `Sound`, which has
  three parts. `Placed` is `InOnePlace` taken apart by place, in terms of what
  occurs in a sequence. `Shaped` says that the packets of a list are chained by
  their `next` and that `m_head`, `m_tail` and the position of a loop point
  where they should, for each line of the code. `Stale` says that a deleted
  packet whose `next` is still to be read has at most been allocated again, and
  neither constructed nor linked: with it a loop that deletes first and reads
  afterwards (`DropNext`) still follows its own list.

`BasicFacts` has the facts about what occurs in a sequence, what pushing and
removing does to it, about the least member of a set, the highest bit of a
number and the cells of a matrix, that several of these rest on. Where a proof
needs induction over data (the recursive functions of `Cache`, the sums of
`Receive`), it takes the least counterexample (`LeastMember`), or shows a
function with the wanted values and that no other fits the definition
(`Iterates`).

Only model-checked: all liveness properties (`ServedExactlyOnce`,
`CallsReturn`, `CallsAnswered`, `StopEnds`, `TxThreadsEnd`, the fair part of
`ImplementsFifo`) and with them everything that needs `ENABLED`; what the
folds of `Packets` and `ByteStream` compute for every input, which would need
induction over data, and with it `ServedAsWritten`; and `TypeOK` and
`MultiAnswersAll` of `Client`.

## 5. What is not modelled

- **What follows a race.** With two rx threads on one request the code reads
  `iter->second` and calls `put` after it has left the lock. `Receive` has these
  as steps of their own and marks the moment (`raced`); what two `put`s make of
  one `PacketReader` when they overlap is undefined and not modelled. The same
  holds for `PacketPool` once a packet was constructed too early.
- **`m_bIsRunning`** is read and written without a lock; it is `volatile`, and
  the model takes a read to return the last write.
- **The case CAS of `decodeRequest`** beyond what it reads: no call of
  `Client.cpp` sends it. `Cas` of `Cache` is modelled.
- **The pointers a call returns.** `get` and `readMulti` return a pointer into
  `m_buffer`, which the next call overwrites; no property speaks of values
  after a call.
- **More than 32 CPUs**: the arrays of threads have 32 entries (`Server.h`) and
  nothing checks it; the number of threads is a constant here.
- **Unused operations**: `PushEnd`, `PopBegin`, `PollForItem`, `StopQueue`,
  `StartQueue` of the queues, the writes of `ByteStream`; the `bAsync` argument of
  the cache's operations, which they ignore.
- **The lock primitives**: a critical section is one step. `Spinlock.cpp` is
  an atomic exchange and the mutex of `JCondition.h` that of the OS; they are
  taken as what they promise.
- **Hash function, printing, sockets' options, the start-up of `main`, tests,
  benchmark**: no state that the properties are about. The hash is a constant,
  any function will do. `tests.cpp` and `benchmark.cpp` are read for what they
  say of the program.

## 6. Plan

All parts of the program that have state of their own are modelled. What would
come next:

1. `MultiAnswersAll` and the types of `Client`.
2. The composition of `Receive` and `Client` for asynchronous writes of one
   client: which orders are possible.
