# Verification of the low-latency market data pipeline

TLA+ models of the UDP market data pipeline in this repository: IEX DEEP
segments arrive as datagrams, a receive thread filters them into a
single-producer single-consumer ring, a drain thread turns them into order
books and prints the best bid and ask. The models are translated from the C
sources; paths below are relative to the repository root.

* [1. The system](#1-the-system)
* [2. The modules and how they correspond to the code](#2-the-modules-and-how-they-correspond-to-the-code)
* [3. The runs](#3-the-runs)
* [4. Bounds](#4-bounds)
* [5. Fairness](#5-fairness)
* [6. What is proved](#6-what-is-proved)
* [7. Where documents and code disagree](#7-where-documents-and-code-disagree)
* [8. What is not modelled](#8-what-is-not-modelled)
* [9. Plan](#9-plan)

`PROJECT.json` holds the machine-readable side: the components, the runs, a
mutation for every property, the lines each definition translates, the
hazards, the findings and the theorems.

## 1. The system

```
 replay sender --UDP--> receive thread --ring--> drain thread --> BBO lines
                        rx_stage.c      SPSC     deep_decode, symtab, book
                        rx_framer                rx_main.c
```

| Component | Source | State | Operations | What makes it correct |
|---|---|---|---|---|
| Ring, cached indices | `include/ll/spsc_queue_cached.h` | `head`, `tail` (atomic words), `cached_head`, `cached_tail`, the slots | `push`, `pop`, `push_begin`/`push_commit`, `pop_begin`/`pop_end` | messages arrive whole, once, in order; no unordered accesses to a slot; stale copies of an index are harmless; neither side is stuck |
| Rings, nopad and padded | `spsc_queue_nopad.h`, `spsc_queue_padded.h` | the same without cached copies | `push`, `pop` | the same |
| Receive stage | `src/net/rx_stage.c` | `expected_seq`, `pending_flags`, counters | one call per datagram, one pass of the loop per block | every message counted in one way; every loss visible downstream; the socket is never kept waiting |
| Live pipeline | `src/net/rx_main.c` | the ring, `g_rx_done`, symbol table, books | receive thread, drain thread, join | the output is the reference's for what was pushed; nothing is left in the ring at exit; the join returns |
| Order book | `src/book/book.c` | per symbol and side `n[]` and a sorted array; counters | `book_apply`, `book_bbo` | a price map whose best level is first; what happens when a side is full |
| Reversed book | `bench/book_rev.c` | the same, best last | the same; `reset` between replays | agrees with `book.c` after every update |
| Symbol table | `src/deep/symtab.c` | open-addressing slots, names, count | `ll_symtab_intern` | indices dense, stable, one per symbol; the probe ends |
| Free list pool | `include/ll/mempool_freelist.h` | `free_head` (atomic), `next` of each slot | `alloc`, `free` by compare-and-swap | no slot handed out twice or lost |
| Index stack pools | `mempool_indexstack.h`, `mempool_percore.h` | `free_idx`, `top` per core | `alloc`, `free` | the same |
| Pool beside a ring | `test/bench/slot_vs_index.c` | pool, ring of indices | produce, consume | no pool place is reused before it was read |
| Reference server | `test/udp/udp_deep_server.c` | `expected_seq`, counters | receive loop, final verdict | counts like the receive stage; the verdict means what it says |
| Offline pipeline | `src/book/book_offline.c` | framer, ring, books, one thread | block by block through a capture, drained after every packet | the same lines as the live pipeline |
| BBO reference | `test/book/bbo_reference.py` | dictionaries | apply, best | is the reference |
| Capture readers, replay sender | `book_offline.c`, `bench/book_layout_bench.c`, `test/udp/udp_replay_send.c` | the position in the file | peel the UDP payload out of a packet | all three take the same bytes |
| Ring and layout benches | `bench/spsc_variants_bench.c`, `bench/book_layout_bench.c` | the rings, the books | push and pop until it succeeds; replay after replay | end; nothing of the last replay shows |
| Parsers, dump, demos | `test/parse/`, `test/demo/` | files | | |

How they interact. The threads of the live pipeline share two things, the ring
and the flag `g_rx_done`, both C11 atomics with release stores and acquire
loads. Everything else (framer, counters of the receive stage on one side;
symbol table, books on the other) belongs to one thread. The pools are shared
by whoever uses them; the free list is the only other lock-free structure.

What is hard here:

* *Interleavings under a weak memory order.* Each side of the ring decides on
  an old copy of the other's index. The flag and the tail are two words: seeing
  one must imply seeing the other.
* *Unreliable delivery.* Datagrams are lost, repeated, reordered and cut; the
  gap mark travels with the next message that is really pushed.
* *Limits.* Ring full in mid-segment (drop newest), book side full (drop worst
  level), symbol table full (skip), pool empty, indices that wrap.
* *Reuse.* A slot given back too early, an entry above `n[]`, the levels of the
  last replay, a freed node that returns to the list with the same index (ABA).
* *Damage.* An update may be lost by the network, by a cut, or by a full ring,
  and take the end of an event with it. What the books show then must still be
  the newest of what did arrive.
* *Termination.* The last push between an empty pop and the test of the flag.

Nothing is persisted and nothing is retried, so there is no crash recovery to
model: a crash of the process loses everything it held.

## 2. The modules and how they correspond to the code

| Module | Role | Source |
|---|---|---|
| `BoundedFifo` | abstract: a queue of bounded length | promise of the rings |
| `SpscQueue`, `MCSpscQueue` | the three rings, load by load, and the threads of their bench | `spsc_queue_*.h`, `spsc_variants_bench.c` |
| `Wire` | segments, blocks, and where a datagram may end | `iex_deep_wire.h` |
| `RxFramer` | the receive stage and the network before it | `rx_stage.c` |
| `UdpServer` | the reference server | `udp_deep_server.c` |
| `Receivers`, `MCReceivers` | both on the same datagrams | |
| `Capture` | a pcapng file and what its readers take from it | `book_offline.c`, `book_layout_bench.c`, `udp_replay_send.c` |
| `DeepDecode` | what both pipelines share: decode, table, line | `deep_decode.h`, `book_bbo` |
| `LivePipeline` | the receive stage, the drain thread, shutdown | `rx_main.c` |
| `OfflinePipeline` | one thread: packet, messages, drain | `book_offline.c`, `rx_stage.c` |
| `Pipelines`, `MCLivePipeline` | both pipelines on one capture | |
| `BookTypes` | keys and counters every form of the book shares | `book.h` |
| `PriceBook` | abstract: a bounded price map | promise of both books |
| `BookSet` | the state of the array books, `memmove`, `reset` | `book.h`, `book_layout_bench.c` |
| `OrderBook` | sorted arrays, best first | `book.c` |
| `BookRev`, `BookLayouts` | best last, and the two in lockstep | `book_rev.c`, `book_layout_bench.c` |
| `SymNames` | abstract: names in order of appearance | promise of the table |
| `SymTab` | open addressing | `symtab.c` |
| `Pool` | abstract: a set of slots, each with at most one holder | promise of the pools |
| `Freelist` | lock-free list, load by load | `mempool_freelist.h` |
| `IndexStack` | per-core stacks | `mempool_percore.h`, `mempool_indexstack.h` |
| `PoolQueue` | pool places used in ring order | `slot_vs_index.c` |
| `SpscQueue_proofs`, `Books_proofs`, `SymTab_proofs`, `Freelist_proofs`, `IndexStack_proofs`, `PoolQueue_proofs`, `Receive_proofs` | theorems about the modules above (section 6) | |
| `Facts` | lemmas these share: remainders, least and greatest elements, counting, induction on a set | |

Composition: `LivePipeline` extends `RxFramer`, so that its receive thread is the
whole receive stage, datagrams, gaps, filter and drops included; it instantiates
`PriceBook` for its books (what `OrderBook` is shown to implement) and `SymNames`'
promise for its table, and uses the ring at the level `SpscQueue` establishes: a
push is one step, and a load of the other index returns some store not older
than one already known. `Receivers` adds the reference server to the receive
stage. `Pipelines` runs the offline pipeline and then the live one on the same
capture; `BookLayouts` runs both layouts of the book on the same updates.

A definition whose comment begins with "Fault:" is a plausible bug in the
definition that follows it. No specification uses it. Section 3 names for every
property the fault that breaks it, and `PROJECT.json` pairs them.

### SpscQueue

Each index word is its modification order, a sequence of stores `[val, view]`.
`head` and `tail` are the last values. A thread may read, from the other's
word, the store it saw last or any later one (`obsHead`, `obsTail`); so a load
may be arbitrarily stale but never goes back. A release store carries as its
view how many slot uses precede it; the acquire load that reads it adds the
view to the reader's (`viewP`, `viewC`). The slots are plain memory, filled and
read word by word, and `lastWrite`/`lastRead` remember who touched a slot last,
so that `DataRaceFree` can say that each access is ordered after the other
side's. `Inc` and `Distance` wrap at `IndexMod`, as `size_t` does.

| Code | Action |
|---|---|
| `push_begin`, full test on `cached_head` passes | `PushBeginCached` |
| `push_begin`, reload of `head`, slot or `NULL` | `PushBeginRefresh` |
| caller's writes to the slot | `FillWord` |
| `push_commit` | `PushCommit` |
| slot given up without a commit | `PushAbandon` |
| `pop_begin`, empty test on `cached_tail` passes | `PopBeginCached` |
| `pop_begin`, reload of `tail`, slot or `NULL` | `PopBeginRefresh` |
| caller's reads | `ReadWord` |
| `pop_end` | `PopEnd` |

`push` and `pop` by value do the same accesses in the same order.

`variant` says which ring is built. "plain" is that of `spsc_queue_nopad.h` and
`spsc_queue_padded.h`, which differ in alignment only: every call loads the
other index (`PushBeginRefresh`, `PopBeginRefresh` without the test of a cached
value before them), and no slot is lent, so none is given up. The producer and
the consumer are those of `spsc_variants_bench.c`: each repeats a call until it
succeeds.

### RxFramer, UdpServer, Receivers

`Feed` (`Wire`) is what the exchange sent; any segment may arrive at any time, any
number of times, and cut at any byte from the end of the header on (`Cut`,
`Arrivals`): that is loss, repetition, reordering and truncation at once. How
many blocks are intact, and whether the length prefix of the next one is there
without its body, follows from the lengths of the wire format. `Segment` is the
part of `rx_framer_segment` before the block loop, with the sequence check;
`Filter`, `Push`, `DropFull` and `EndSegment` are the ways a pass of the loop can
go; `Timeout` is the end of the receive loop, which any failure of `recvfrom`
brings about. `Pop` is the other thread, which may stop for ever. The blocks are
kinds ("plu", "short", "admin") because all the stage looks at is the type byte
and the length. `Receivers` gives every datagram to `UdpServer` too, whose
handler is one step (it pushes nothing and shares nothing).

### Capture

A file is a sequence of blocks and a size: the last block may not be all there.
`AllThere` is the end condition of the loop over the blocks; `HasPayload` and
`PayloadLen` are `parse_frame`: VLAN tags, the header lengths, the padding of short
frames and the captured length decide what is left of a segment (`Datagram`).
`PayloadAt` is what the offline reader and the bench frame of a block. The sender has
code of its own for this (`SentLen`), and another captured length: libpcap's
(`caplen`), where the readers of the file take that of a simple packet block from the
block's length (`CapLen`), padding included. `Sent` are the packets it sends; it
leaves empty payloads out. The blocks are well-formed (`CaptureAssumption`), and
their padding has the value of the bytes it stands for.

### LivePipeline

`Stage` is a step of the receive thread in `rx_stage_run`, that is an action of
`RxFramer`; the datagrams are those the sender sends of the capture, cut to the receive
buffer (`Received`, `Incoming`), each lost, repeated or out of place. `RxDone` raises the flag. The drain loop is `Look`, then
either `Decode`, `PopEnd`, `Apply`, `Emit`, or `NotDone`/`SeeDone` and `SecondLook`, in
the order of `rx_main.c`: the slot is given back before the book is touched.
`g_rx_done` may be read as 0 although it is set; reading 1 sets `mustSee` to the
newest tail, which is what the acquire of that load gives. `wanted` is the
`--symbol` filter: all symbols, or one. `--bbo` is taken as given.

### OfflinePipeline, Pipelines

One thread, so one action is enabled at a time. `Pass` and `Frame` are a turn of
the loop over the blocks, without and with messages; `Message` is a turn of the block
loop of `rx_framer_segment`, which drops an update when the ring is full, and
`EndSegment` its end; `Skip` and `Update` are a turn of `drain`. `Ready` is where
`parse_frame` has returned: the packet is framed and, since `drain` runs until the
ring is empty, everything taken was popped. The ring is its history, as in
`RxFramer`; the thread always knows both of its ends. The flags of a slot and the
counters that only the report prints are left out.
The programs share nothing, so the offline one may run first; what it printed is
then there to compare with. `PipelinesInit` and `PipelinesNext` only put the two
together and translate no code of their own.

### OrderBook, BookRev, PriceBook

`level[b]` is the whole array, dead entries included; `n[b]` is the count, and
`Move` is `memmove`. Every branch of `book_apply` is an action with its
counters. `reference` is the dictionary book fed with the same updates. The
mapping to `PriceBook` reads the first `n[b]` entries as a map. `BookRev` is the
same with the best price last, and `BookLayouts` steps both with each update,
as the bench does. `SetReset` is the bench's `reset`: counts and counters go to
zero and the levels of the last replay stay in the arrays.

### SymTab

`hash` is any function from symbols to slots, chosen at the start: `sym_hash` is
one of them. `Probe` is where linear probing stops. The assumption
`MaxSymbols < Slots` (9216 < 16384 in the code; tables of other sizes are not
built) is what ends a probe, and it makes the last `return` of
`ll_symtab_intern`, after a full turn, unreachable. The key of eight zero bytes,
which marks an empty slot, may be looked up like any other: it finds an empty
slot and gets index 0 (`SymNames!Zero`), and nothing else changes.

### Freelist, IndexStack, Pool, PoolQueue

In `Freelist` each load, store and compare-and-swap is a step, a weak
compare-and-swap may fail for no reason, and a load that returns an old value is
one made earlier. `out` counts the holders of a slot. `IndexStack` is one stack
per core; with one core it is `mempool_indexstack.h`. Both map to `Pool`.
`PoolQueue` has no allocator: message *i* uses place `pool_index(i)`, and only
the ring's room protects it.

## 3. The runs

Twelve runs; `tlc -config <cfg> <module>` in this directory repeats one.

**spsc** (`MCSpscQueue.cfg`). Nine two-word messages through four slots with an
index of eight values, cached and plain ring, every staleness of both loads,
pushes given up at any point.

| Property | Says | Broken by |
|---|---|---|
| `TypeOK` | indices stay in `size_t`, slots hold whole messages | `IncNoWrap` |
| `DataRaceFree` | every slot access is ordered after the other side's last | `RelaxedStore` |
| `WholeInOrder` | what was popped is a prefix of what was pushed | `LooksFullLate` |
| `CacheConservative` | a cached index errs on the safe side | `PopBeginUnchecked` |
| `FifoSpec` | the ring implements `BoundedFifo` | `SlotOfHalf` |
| `CommittedIsDelivered` | every committed message is delivered | `PopBeginNoRefresh` |
| `ProducerGetsSlot` | a producer that keeps trying gets a slot | `PushBeginNoRefresh` |

**receivers** (`MCReceivers.cfg`). Up to four datagrams out of five segments,
ring of two slots.

| Property | Says | Broken by |
|---|---|---|
| `TypeOK` | in particular seen <= pops <= pushes | `HeadLoadsEager` |
| `OnlyUpdates` | a pushed message is an update under its own number | `SlotSeqOfSegment` |
| `EveryMessageCounted` | filtered + pushed + dropped = messages | `DropUncounted` |
| `UnflaggedMeansArrived` | without the mark nothing is missing between two pushed messages that the receiver did not see itself | `PendingAnew` |
| `FlagsNeedGaps` | never more marks than gaps | `PendingKept` |
| `GapCountExact` | `gap_msgs` is the exact loss while nothing came late | `NextSeqLate` |
| `SameCounts` | receive stage and server count alike | `NextSeqKept` |
| `ContiguousIfQuiet` | no gap, no reorder: everything between first and last taken, once | `LateUnseen` |
| `NeverWaits` | a segment is taken to its end though the consumer stops | `DropFullWaits` |

**live_pipeline** (`MCLivePipeline.cfg`). A capture of five updates of three
symbols in three segments, one that lacks the end of the last, or one that has
the first segment twice, sent over a network that delivers up to three datagrams;
ring of two, table of two, two levels
a side, all symbols or one wanted; the receive buffer just holds the longest
segment; the same capture through the offline pipeline.

| Property | Says | Broken by |
|---|---|---|
| `SlotIntact` | the slot being read holds what was pushed there | `HeadLoadsEager` |
| `LinesFollowReference` | the printed lines are the reference's for the updates pushed, whatever the network did, unless a level was lost to overflow | `SizeFromSlot` |
| `DamageConfined` | unless a reorder or an overflow was counted, a level whose newest update did arrive shows exactly it, whatever else was lost | `IsReorderNever` |
| `DrainedAtExit` | at exit the receive thread is done and the ring empty | `AfterDoneExit` |
| `SameAsOffline` | without a drop, a reorder on either side or a mark, and with the first update received, the lines are the first of the offline pipeline's; with all updates also the same books and symbols | `SentLenUncut` |
| `OfflineDropsNone` | the offline pipeline drops no update for a full ring, as each drain leaves nothing for the next packet | `ReadyEager` |
| `JoinReturns` | the drain thread ends, once the datagrams do | `DrainedInverted` |

**books** (`BookLayouts.cfg`). Five updates over four prices, two sizes, three
levels, both sides, both layouts, with resets in between.

| Property | Says | Broken by |
|---|---|---|
| `TypeOK` | never more than `BOOK_MAX_LEVELS` live levels | `FullNever` |
| `SortedFromBest` | live levels strictly sorted, best first | `KeyUnsigned` |
| `MissingOnlyByOverflow` | a live level is the reference's, and no more levels are missing than were counted as overflow | `DroppedUncounted` |
| `DropKeepsBest` | dropping a level never makes the best price of that step worse | `KeyUnsigned` |
| `Mirrored` | the layouts are mirror images with equal counters | `CloseUpTwice` |
| `PriceBookSpec` | `book.c` implements `PriceBook`, over resets too | `ClearedOneSide` |

**symtab**: `TypeOK`, `ProbeEnds` (a probe always meets the key or an empty
slot), `OneSlotPerSymbol` (no symbol twice, each under its own index), `NamesSpec`
(implements `SymNames`, the zero key included), for all 256 hash functions; broken
by `AllGivenLate`, `PlaceInOrder` and `ProbeNoChain`.

**freelist**: one allocating and three freeing threads. `TypeOK`, `OnePlace`
(every slot is in the list once, or held once, or in transit), `PoolSpec`.
Broken by `AllocLoadUnchecked`, `FreeRetryUnlinked`, `AllocTakeBlind`.

**index_stack**: `OnePlace`, `PoolSpec`, for two cores of three slots. Broken by
`FreeInPlace`, `AllocAbove`.

**pool_queue**: `InFlightIntact` (a place in flight holds its message),
`ReadInOrder`, for both walks of the pool. Broken by `PushBeginBlind`,
`PoolIndexHalf`.

Four runs expect a violation and show a disagreement (section 7):
**order_book_overflow**, **rx_framer_cuts**, **freelist_two_allocators**,
**udp_server_lossless**.

Runs that say `CHECK_DEADLOCK FALSE` have a real end: the two of the books when the
`MaxApplied` updates of all replays are spent, `receivers` and its two companions because both
programs end at the idle timeout.

## 4. Bounds

* Ring: four slots, and nine messages that take it twice round and wrap the
  eight values of the index once. Messages one lap apart differ in both words,
  so any mixture of two laps shows. 15 148 states.
* Receivers: four datagrams hold a first one, a loss, a repetition or late
  arrival, and the one after it; the feed has a heartbeat, a segment of no
  updates (through which a pending mark has to survive) and updates behind
  other messages. 260 826 states.
* Pipelines: three datagrams are enough for the whole capture in order, or for a
  loss, a repetition, a late one or a packet of another protocol between two
  others. The ring of two overflows within a segment when the drain thread
  sleeps. The five updates contain an insertion before the best and its deletion
  (so that an older level becomes the best again), events of two updates whose
  last one may be lost, and a symbol the table refuses. Of the files one has
  VLAN tags, padding, another protocol and a torn last block, another lacks a
  segment's end, and the third has a segment twice: the offline pipeline counts a
  reorder and applies its updates twice, the live one may get it once, and neither
  is wrong. This is why `SameAsOffline` asks for no reorder on the offline side
  either. A packet has up to two updates, as many as the ring has slots. 116 060
  states.
* Books: three levels and four prices let one arrive at the front, in the
  middle and at the end of a full side; five updates, with resets anywhere
  between them, fill a side and overflow it twice, or fill, reset and refill
  over old levels. 201 173 states. The bound counts updates over all replays.
* Symbol table: four slots, at most three entries, four symbols and the zero
  key: chains of three, wrap-around, and a refusal. `MaxDrops` bounds the counter
  only. 97 792 states.
* Free list: three slots allow the shortest ABA (read the head and its
  successor; two others are taken, the first returned); the four threads are
  those of one producer and its consumers.
* Pools: three slots a core. Pool queue: capacity two, pool of sixteen places,
  thirty-five messages, so the stride goes round the pool more than twice.

## 5. Fairness

* `SpscQueue!FairSpec`: both threads run on cores of their own and spin, so a
  call that can complete does (weak fairness of each action), and a store that
  stays the newest is in the end the one a repeated load returns (weak fairness
  of the two reloads *with the newest store*, C11 7.17.3p16). Giving a slot up
  is never forced.
* `Pipelines!PipelinesSpec`: the offline program runs to its end; of the live
  one (`LivePipeline!LiveFairness`), weak fairness of each thread. Strong fairness of
  `SeeDone` and of the look that loads the newest tail, because the
  loop visits these loads again and again and passes on between them; this is
  the same eventual visibility. The datagrams come to an end (`MaxArrivals`): while
  they keep coming the receive thread rightly goes on, and so does the join.
* `Receivers!BothSpec`: weak fairness of `TakeApart`, the receive thread inside
  a segment. Nothing is assumed of the network or of the consumer: `NeverWaits`
  holds with a consumer that has stopped.

The other specifications check safety only and state no fairness.

## 6. What is proved

Every invariant of every passing run is a theorem, for every value of the
constants; so are the five refinements and the action property of the books, and
two refinements more, by which the parts of the pipelines keep their promises there.
The proofs are in eight modules, checked by `tlapm`:

| Module | About | Theorems that state a property of a run | Inductive invariant |
|---|---|---|---|
| `SpscQueue_proofs` | the rings | `TypeCorrect`, `NoDataRace`, `DeliveredInOrder`, `CachesAreSafe`, `ImplementsFifo`; `HandedOverIntact` besides | `IndInv` |
| `Books_proofs` | `book.c`, and the reversed book beside it | `BookTyped`, `BookSorted`, `BookAgrees`, `BookDropKeepsBest`, `BookRefines`, `LayoutsMirror` | `BookInv`, `RevInv` |
| `SymTab_proofs` | the symbol table | `TableTyped`, `TableProbeEnds`, `TableOneSlot`, `TableIsNames` | `TableInv` |
| `Freelist_proofs` | the lock-free list, one thread allocating | `FreelistTyped`, `FreelistOnePlace`, `FreelistIsPool` | `FreeInv` |
| `IndexStack_proofs` | the stacks | `StackOnePlace`, `StackIsPool` | `StackInv` |
| `PoolQueue_proofs` | the pool walked in ring order | `QueueInFlightIntact`, `QueueReadsInOrder`; `QueueTyped` besides | `QueueInv` |
| `Receive_proofs` | receive stage, reference server, live and offline pipeline | `StageTyped`, `StageOnlyUpdates`, `StageCounts`, `StageMarksLosses`, `StageMarksGaps`, `StageGapsExact`; `BothCountTheSame`, `BothQuietContiguous`; `LiveSlotIntact`, `LiveDrained`, `LiveLines`, `LiveDamage`; `OfflineNeverDrops`, `LiveSameAsOffline`; `LiveRingIsFifo`, `PipelineBooks` besides | `StageInv`, `BothInv`, `LiveInv`, `ShownInv`, `OffInv`, `SameInv` |
| `Facts` | lemmas the others cite: remainders, least and greatest elements, images and counting, induction on a set | | |

That each inductive invariant is one is a theorem of its own (`BookInvariant`,
`TableInvariant`, `FreelistInvariant`, `StackInvariant`, `QueueInvariant`,
`StageInvariant`, `BothInvariant`, `LiveInvariant`, `ShownInvariant`, `OfflineInvariant`,
`SameInvariant`). A step lemma has one step for each action; where a module has
several actions that differ in little, they are first reduced to a few kinds of
step.

### Assumptions

They are `ASSUME`s of the modules, which TLC evaluates in the runs.

| Assumption | Says | Why the code justifies it |
|---|---|---|
| `CapacityAssumption`, `ItemsAssumption` | the capacity divides the range of `size_t`, quotient at least two; messages are messages | power-of-two `_Static_assert` |
| `BookAssumption` | prices are integers, sizes of live levels positive, at least one level | `book.h`; size 0 deletes |
| `TableAssumption` | fewer symbols than slots, key 0 is no symbol | 9216 < 16384 |
| `FreelistAssumption`, `StackAssumption` | at least one slot; the end mark is no slot | the pools' fixed sizes, `NIL` |
| `PoolAssumption`, `StrideAssumption` | the stride has an inverse modulo the size of the pool | `slot_vs_index.c:57-60`: stride 5, pool a power of two |
| `FeedAssumption` | segments are numbered in ascending order without overlap | what the exchange sends |
| `StageAssumption` | at least one slot in the ring | `rx_stage.h` |
| `PayloadAssumption` | an update has the types of `deep_plu_t`; at least one level a side | `deep_decode.h`, `book.h` |
| `CaptureAssumption` | blocks are not shorter than their headers and what they hold, simple ones padded to words | well-formed files only (section 8) |
| `BufferAssumption` | the receive buffer has a length | `rx_stage.c:146` |
| `RingAssumption` | no packet has more updates than the ring has slots | an Ethernet frame holds 45 updates of 32 bytes, the ring 1024 (`rx_stage.h`); only the offline pipeline relies on it |

`Freelist_proofs` adds to these, as a hypothesis of each theorem, that one thread
allocates (`OneAllocator`). It is necessary: with two, TLC finds a slot with two
holders (`freelist_two_allocators`). The number of freeing threads is any.

`LiveSameAsOffline` has a hypothesis, too: that both pipelines get the same bytes of
each packet (`SameBytes`). It says two things. No payload is longer than the
2048 bytes of the receive buffer, beyond which `recvfrom` cuts a datagram that the
offline reader frames whole: an Ethernet frame is not. And the captured length of
the file's readers is libpcap's; where it is not, TLC finds different lines
(section 7, a packet captured in part). Both conditions are about the capture, and no other theorem
needs them. `ReceivedIsRead` derives from them that the two translations, `SentLen`
of the sender and `PayloadLen` of the reader, agree.

### Why the properties need more to be inductive

*Ring.* `WholeInOrder` says nothing of the slots, and `CacheConservative` speaks of
wrapped numbers. `IndInv` adds to the type invariant

* `StoresNumbered`: the *k*-th store of an index word holds *k* - 1 modulo the
  range and carries the view *k* - 1, and each cached index is the store its
  thread saw last: this turns index words into ordinals;
* `Positions`: `obsHead <= Popping <= obsTail <= Pushing <= obsHead + Capacity`,
  strict where a slot is borrowed: the whole of the algorithm;
* `SlotsHold`: the slots in flight, the words written, the words read and the
  messages received are those of the list;
* `LastAccesses`: the last access to a slot belongs to it and is not newer than
  what the other side must have seen.

Two ordinals less than `Capacity` apart use different slots (`SlotForGapStrict`)
and the wrapped distance of two ordinals is their difference (`DistanceIndexAt`), so
the full and empty tests mean what they say (`FullTest`, `EmptyTest`). In the
refinement a commit is `Send`, `pop_end` is `Receive`, every other action a stutter.

*Book.* Order alone survives an insertion only if the place found by the scan is
between its neighbours; that the *right* levels are there needs the reference.
`BookInv` joins `SortedFromBest` with `Agrees` (a live level is the reference's, so
nothing is stale, whatever lies above `n[b]`) and `Accounted` (the levels missing
are not more than the overflows counted). The lemmas say what the array
is after an insertion, an overwrite and a deletion, dead entries included, as the
map `PriceBook` works on. `RevInv` needs no more than `BookInv`: entry *i* of one
layout is entry `n - 1 - i` of the other, and the scans stop at mirrored places.

*Symbol table.* `OneSlotPerSymbol` is not inductive: a probe could stop at an empty
slot before the symbol's own. `NoHoles` says that from the home of a symbol to its
slot no place is empty, which interning keeps because it fills the first empty
place and nothing is ever removed. `ProbeEnds` then follows by counting: an
empty slot is left because entries have different indices below `MaxSymbols`.

*Free list.* Here the list is defined by following links, and a proof has to know
that it ends. `IsList` says that a chain without repetition leads from the head
to `NIL`; `Places`, that each slot is in the list, held, or in one free's hands;
`Relies`, what a thread may count on between its load and its compare-and-swap. The
one that matters is the allocator's: the head it read is still in the list *with
the successor it read*. Frees only put slots in front of it, and no other thread
takes one, so a head that compares equal is the same head: this is where ABA is
excluded, and where a second allocator breaks the proof.

*Stacks, pool queue.* Below `top` the entries are distinct and, with the slots
handed out, are all slots. In the pool queue the ring holds the places of the
messages in flight; fewer than `8 * Cap` apart, they are different places because
the stride can be cancelled (`Facts!ModCancel`).

*Receive stage.* `StageInv` adds to the six properties `RealUpdates` (each push is
an update of a framed segment), `Fresh` (before the first segment nothing is
known), `LastArrived` (behind the last push nothing is missing unless a mark is
pending: the link between one push and the next) and `AllBehind` (framed segments
lie before `expected_seq` while nothing came late: `GapCountExact` has to know that
a new segment is not counted twice). Every action is one of three kinds of step:
a segment begins, an update is pushed, or neither (`Begins`, `Puts`, `Else`).
They are proved for any datagram the wire format allows, so that
the pipeline, whose datagrams come from a capture, needs no second proof
(`LiveRunsStage`).

*Stage and server.* The server counts a segment in one step, the stage block by
block; `Paired` says that the server is ahead by exactly what the stage has still to
take out of the current segment. `Taken` says that while both counters are zero,
the segments taken end just before `expected_seq` and have no hole.

*Live pipeline.* `LiveInv` adds to `StageInv` what each thread knows of the other
(`Drains`): `pops <= cachedTail <= mustSee <= Len(pushes)`, never more than `Capacity`
beyond what the receive thread has seen given back, and that in the second look
`mustSee` is everything. `SlotIntact` and `DrainedAtExit` follow. `ShownInv` adds
`LinesInv`: at every place of the drain loop the symbol table, the decoded update,
the books and the lines are those of the updates popped, each with the one
update it lacks there (`LinesAt`); and `InOrder`: while nothing came late, the
updates are pushed in the exchange's order, and so the newest to arrive is the
newest. What the reference shows is developed first as a theory of a fixed list
of updates, without state (`Table`, `BooksShow`, `Shown`, and what one more update
does to each); the pushes of a state are one such list, and a push only extends
it.

*Offline pipeline.* `OfflineDropsNone` needs the room that is left: `OffInv` says that
what is in the ring and what is still to come of the packet fit together
(`Reading`), which holds when a packet begins because the ring is then empty. It
also says that the updates taken are exactly those of the packets read
(`AllTaken`), in ascending order while no packet came late (`FileInOrder`).

*Both pipelines.* `SameInv` rests on two facts. The first is that equal updates give
equal output. It is not stated with a recursive definition of the output of a list
of updates but with a history: `Follows` says that there is a sequence of states, one
before each update, that leads from the start through what the offline
pipeline popped (`Trace`), and that the live one is at the state after its own last
pop, or between two of them as its place in the drain loop says (`LiveAt`), as long
as its updates are the first ones of the file. The offline steps write the trace,
the live ones walk along it. That a turn has one outcome is `AppliedOnce`; the
conflict it has to exclude is a full side, where either the new level or the worst
one stays.
The second is that the updates are the same: `Arrived` says that everything pushed
comes from a datagram of the file, and that while nothing was dropped an update of
a framed segment is missing only if the capture cut it off in one of the
datagrams, or if it is still to come. `SameUpdates` puts this together with
`OffInv` and `InOrder`, by induction on the updates popped: both sequences ascend and
begin alike, a jump of the live one over an update of the file would leave a mark
(`UnflaggedMeansArrived`) or an update that arrived and was not pushed.

*The parts in the whole.* The pipelines use a ring and books at the level of their
specifications. Two theorems say that these specifications hold there: `LiveRingIsFifo`
that the pushes and pops of the two threads, each on an old index of the other,
are a behaviour of `BoundedFifo`, which `ImplementsFifo` proves of the ring's code;
`PipelineBooks` that what both pipelines do to their books is a behaviour of
`PriceBook`, which `BookRefines` proves of `book.c`.

### Only model-checked

* Liveness: `CommittedIsDelivered`, `ProducerGetsSlot`, `NeverWaits`, `JoinReturns`. Liveness
  under fairness is out of the prover's reach.
* What `BytesThrough` adds up (`MapThenSumSet`, recursive in the library): the proofs
  never use its value, only that `AllThere` and `Sent` mean the same blocks.

The hypotheses "no overflow" in `LinesFollowReference` and `DamageConfined` and "no
reorder" in `GapCountExact`, `DamageConfined` and `SameAsOffline` are part of the
properties, not of the proofs: section 7 shows what an overflow does, and a late
segment moves `expected_seq` back.

## 7. Where documents and code disagree

* **Overflow of a book** (`order_book_overflow`, `OverflowHarmless`).
  `src/book/book.c:58` and `docs/CODE_GUIDE.md:118-119` say that dropping the
  worst level leaves the BBO unaffected. At that step it does (`DropKeepsBest`);
  after the better levels are deleted the dropped one is missing, and the best
  price shown is worse than the feed's or absent.
* **Truncated segments** (`rx_framer_cuts`, `CutsCounted`). `rx_stage.h:17` says
  `truncated` counts segments given up because a block was cut. A datagram that
  ends before a block, or inside its length prefix, ends the loop at
  `rx_stage.c:100` uncounted.
* **A packet captured in part** (`SameAsOffline`; not one of the runs: with
  `Files <- SnappedFile` in `MCLivePipeline.cfg`, TLC reports it violated).
  `book_offline.c:126` says that a cut capture is taken by its actual bytes, and
  `rx_main.c:10-13` that the live lines can be compared with the offline ones and
  differ only as far as `dropped_full`. Of a simple packet block the offline reader
  takes `blen - 16` bytes (`book_offline.c:196`), the padding among them. When the
  snapshot length cuts the last byte off an update, the live pipeline gives the
  update up and the offline one applies it: the byte is the highest of the price
  (`iex_deep_wire.h`), 0 like the padding. Only the counter `truncated` differs.
* **Several allocators** (`freelist_two_allocators`, `NeverTwoHolders`).
  `mempool_freelist.h:12-16` allows several threads to allocate and free, and
  accepts ABA for buffers that are not freed twice. With two allocating threads
  and no double free, one slot ends up with two holders. One allocator is safe
  (`freelist`).
* **Lossless verdict** (`udp_server_lossless`, `LosslessIfQuiet`).
  `udp_deep_server.c:174-175` reports lossless reception when gaps and reorders
  are zero. Losses before the first segment seen, after the last, or at the end
  of a cut one leave both at zero. What the two zeros do show is
  `ContiguousIfQuiet`.

## 8. What is not modelled

* The three DEEP parsers of `test/parse/` and the dump: sequential copies of the
  walk `Capture` models, without state a property could be about
  (`deep_decode.h:4-6` says what the pipeline kept of them). Malformed captures: the
  assumption of `Capture` excludes blocks shorter than their own headers, where the
  code reads beyond them (`book_layout_bench.c:111`).
* The timing of the benches, `tsc.h`, `sched_util.h` (affinity, priority):
  measurement, no state a property is about.
* Demos: illustrations of stdio, casts and packing.
* Reading of the command line, report printing and its counters, latency
  recording of `rx_main.c`: they read state the models have and change none.
* Values of fields (`deep_decode.h` apart from what it keeps and refuses): updates
  are records; the length rules of the wire that decide a block's kind are kept.
* A slot given back to the pool of another core (`mempool_percore.h:11-12` leaves that
  to the caller, and no caller does it), and packets with more updates than the ring has
  slots (`RingAssumption`).
* Undefined behaviour outside the feed's range: `sign * price` at `INT64_MIN`
  (`book.c:27`), listed as a hazard with the reason.

## 9. Plan

Done, in this order: the rings and their proofs, order book and the two layouts
with resets, wire format and receive stage, reference server, capture readers and
sender, live pipeline on top of the receive stage, offline pipeline, symbol table,
pools; then the theorems of section 6 about books, table, pools, receive stage,
server, live pipeline, offline pipeline and the two compared. What is left of the
code is listed in section 8.

What is left to prove: that a plain ring never refuses a push or a pop that the
newest index would allow; and the liveness properties, once the provers reach them.
