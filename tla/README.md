# Verification of the DCE market-data subscribers

TLA+ models of the four programs of this repository that receive the quotes of
the DCE multicast feed (group 239.239.239.8) and print them, and of the code
that comes with them: the helpers in `utils.cpp` and the parts of the Onload
headers under `EF_VI/include` that have algorithms of their own. TLC
configurations check them on small instances. TLAPS proofs cover, for every
size, the four clients and the abstract specification they implement, the locks
and reference counts of Onload, its accept queue and its non-blocking packet
pool, and the tables its control plane shares.

## The system

| Part | Source | Module |
| --- | --- | --- |
| EF_VI receive path: buffer pool, RX ring, event queue, `init()`, event loop | `EF_VI/mc_client_efvi.cpp`, `.h`, `main.cpp` | `EfviRx`, proofs in `EfviProofs` |
| EF_VI client: the same with `handle_pkt()` and the feed | `EF_VI/mc_client_efvi.cpp` | `EfviClient`, proofs in `EfviProofs` |
| Raw-socket client | `RAWSOCK/dce-sub-raw-socket.c` | `RawSocketClient`, proofs in `RawSocketProofs` |
| ExaNIC client | `EXANIC/dce-sub-exanic.c` | `ExanicClient`, proofs in `ExanicProofs` |
| UDP socket client | `dce-sub-socket.c` | `UdpSocketClient`, proofs in `UdpSocketProofs` |
| The loop body the four share (IP-ID check, `memset`, decoding, absent prices, line printed) | all four, copied | `QuoteLine`, lemmas in `SubscriberProofs` |
| Output records | `normal_udp.h` | `QuoteLine` |
| Decoder `packet_handler_full`, `packet_handler_payload` | binary libraries | external, in `QuoteLine` |
| The network and the feed | not in the repository | external, in `QuoteLine` |
| What every client promises | - | `Subscriber` (abstract), proofs in `SubscriberProofs` |
| Filter parser | `EF_VI/utils.cpp` | `FilterSpec` |
| Socket and address helpers | `EF_VI/utils.cpp` | `SocketHelpers` |
| Iterator over a batch of events | `etherfabric/internal/evq_rx_iter.h` | `EvqRxIter` |
| Onload locks | `onload/ul/rwlock.h`, `onload/eplock.h`, `onload/ul/wqlock.h` | `RwLock` (in `OnloadCounts`), `EpLock`, `WqLock` (in `OnloadWords`); proofs in `OnloadCountsProofs`, `OnloadWordsProofs` |
| Reference counts of a stack | `onload/tcp_helper_ref.h` | `StackRef`, in `OnloadCounts` |
| Packets: non-blocking pool, allocation, queues and reserve | `ci/internal/ip.h` | `NonbPool` (in `OnloadQueues`, proofs in `OnloadQueuesProofs`), `PktAlloc`, `PktQueue` |
| Queues between a producer and a consumer | `ci/internal/ip.h` | `UdpRecvQ`; `AcceptQ` (in `OnloadQueues`, proofs in `OnloadQueuesProofs`) |
| Auxiliary buffers, ready lists; checksum ids; clock conversions | `ci/internal/ip.h` | `AuxMem`, `CrcIds`, `TimeConv` |
| Control plane tables and forwarding rows | `cplane/cplane.h`, `cplane/mib.h` | `CpVerlock`, `FwdRow`, in `OnloadWords` |
| ci tools: lists, ring buffers, distributed queue | `ci/tools/dllist.h`, `fifo.h`, `distq.h` | `DlList`, `Fifo`, `DistQ` |
| The rest of the Onload headers, `addgroup`, build files | `EF_VI/include`, binaries, makefiles | not modelled |

The modules of the clients build on one another:

    Backlog ---- RawSocketClient, ExanicClient, UdpSocketClient --\
               /                                                   \
    QuoteLine ------ Subscriber ------------------------------------ MCClients
               \                                                   /
    EfviRx ----- EfviClient ----------------------------------------
                                          each client  =>  Subscriber

    RwLock, StackRef -------------------- OnloadCounts --\
    EpLock, WqLock, CpVerlock, FwdRow --- OnloadWords ----\
    AcceptQ, NonbPool ------------------- OnloadQueues ---- MCOnloadShared
    UdpRecvQ ---------------------------------------------/

The others stand alone, as the code they model does: the header of one calls
little of another. `OnloadCounts`, `OnloadWords` and `OnloadQueues` put parts
side by side that share no state, and state the properties that the runs check
and the theorems prove. `MC*` modules give the instances for TLC; `EfviRx` needs none. Modules
named `*Proofs` hold theorems and lemmas only, and the invariants they need.
Definitions named `Mut_...` are faulty variants of the definition that follows them, used to show
that the properties notice such faults, and are no part of any specification.

### EfviRx

`pc` is where the one thread of `MarketDataThread_EFVI` is: `open`, `alloc`,
`memreg`, `fill`, `filter` in `init()`, then `refill`, `poll` and `handle` in
`event_loop_low_latency()`. `free_pkt_bufs` is the linked list of free buffers,
its head first, and `free_pkt_bufs_n` the count the code keeps beside it. `ring`
holds the ids of the descriptors that were added and not yet removed, `posted` how many
of them the adapter knows; `evq` is the queue of receive events, whose i-th
belongs to the i-th descriptor; `evs` is the local array of `poll_evq`. `mem`
says which frame each buffer holds and `handled` lists the frames `handle_pkt`
was called with.

`refill_rx_ring` is one action: the adapter sees the new descriptors only at
the push that ends it. `poll_evq` is split, because the adapter works on while
a batch is handled: `Poll` takes the batch, `HandleRx`, `HandleRxDiscard` and
`HandleScatter` handle one event each. The adapter's steps are `NicReceive`,
`NicDrop` (no descriptor) and `NicOtherEvent` (an event type `poll_evq` only
logs). Failing `TRY` and `TEST` macros abort the process (`aborted`).
From `ef_vi` the model takes that events come in descriptor order, that
`ef_vi_receive_init` refuses a descriptor when the ring is full (the code
ignores the result, and so does the model: such a buffer would be lost), and
that pushes happen in multiples of `PushGranule`.

### QuoteLine and the clients

A frame is the *shape* the clients can tell apart (interface, ethertype, group,
UDP, size, message, absent prices) and its number in the feed, of which the
IP-ID is the remainder modulo `IpIds`. Datagrams may be lost before they reach
the port. `output_data` is three parts, each tagged with the frame last decoded
into it, so that a line that shows bytes of an earlier frame is noticed. The
decoder may leave parts of its record unwritten.

Each client module has one action per call of its `main()`, a failing variant,
and the kernel or adapter beside it: a bounded receive queue for the sockets, a
circular buffer that overtakes a slow reader for the ExaNIC (`Backlog` has
their size and the number of frames that arrive). The four copies of the code
from `memset` to the printed line are one definition in the model. They agree
line by line, the thirteen tests for absent prices included; a field missed in
one copy only would be a difference between that file and `ZeroedPrices`, to be
seen in the source and not in a run.

`Subscriber` is the promise. Its one step of the program picks any later frame
among those wanted and appends one line to what is printed: that frame, nothing
stale, no absent price, a warning exactly when the IP-ID does not follow the
last. Each client's `ImplementsSubscriber` is this specification with `Wanted`
set to what the client's own tests accept; the UDP client checks no IP-ID and
reports any datagram to its port.

### Helpers of EF_VI programs

`FilterSpec` follows `filter_parse` through its `strtok()` calls: a text is the
word before the colon and a sequence of fields, each of one kind; `remainder` is
what the next call will see, and `consume_parameter` is used at each of its
calls. The reference is a grammar, stated without reference to tokens cut off.
It is the strict one, in which a VLAN is a number; the texts outside it that the
code accepts all the same are named one by one in `Tolerated`.
`ef_filter_spec_set_*` and `ci_hostport_to_sockaddr` are external; without a
host the code gives the latter NULL, which ends the process. `SocketHelpers` has
one action per library call of `mk_socket`, `getaddrinfo_storage`, `parse_host`,
`sock_get_ifindex` and `get_ipaddr_of_intf`, every outcome of it (a failing
`getsockname()` ends the process), and `held`, what is still to be closed or
freed. `EvqRxIter` makes one turn of the loop of `ef_vi_evq_rx_iter_next` a step
and compares what its caller is given with the packets of the batch, whose ids
may be 0.

The EF_VI client calls `filter_parse` once, with `"sniff"`
(`mc_client_efvi.cpp:278`), a text of the grammar without fields; `EfviRx` has
the outcomes of that call in its step `filter`. No client calls the others.

### Onload: code that threads or processes share

* `RwLock`. `val` is `writer` and `readers`; the reader's two flags are
  `is_reader` and `reading_now`. The reader's fast path, without mutex, is one
  action per access; so are the sections under the mutex that touch what the
  fast path touches. The wait and wake functions of `rwlock.c` are external and
  do what the header's comments ask: an unlock wakes a waiting writer when the
  last reader leaves.
* `EpLock`. `lock` is the set of bits of the word. A loop around a
  compare-and-swap is one action, its last turn; `ef_eplock_try_unlock`, which
  tries once, is a read and a swap. `owed` remembers the jobs left behind.
* `WqLock`. The word with the lock bit, the wake-up bit and the head of the list of
  jobs, `next` the links. Every swap is an action of its own. The slow
  paths are external: they take the batch, run it and wake one sleeper.
* `StackRef`. `oo_thr_ref_get` takes the levels from the base up, one atomic
  increment each, and rolls back; `oo_thr_ref_drop` drops them from the top.
* `NonbPool`. One action per access to the head word or to a link, so that a
  packet can leave and come back between a read and the swap. `pool` is the
  head with its tag. The tag has 32 bits in the code and does not wrap within
  `MaxFrees`. `stack` is the stack the swaps build, as the properties see it.
* `UdpRecvQ`. The adder under the stack lock, the taker under the socket lock,
  and the packets an application keeps. Counters wrap at `CounterMod`. `order`
  and `freed` are there for the properties.
* `AcceptQ`. Put and get lists at link level, with the putter's swap and count
  apart. The count read without lock may be -1 for a moment: the putter counts
  after its swap. `queue` is the queue in the order of arrival, as the
  properties see it; no guard but "this socket is free" reads it.
* `CpVerlock`. Two copies of the tables, the version, a server that rewrites the
  copy not in use field by field and then publishes it, and five lookups, which
  stand for the seven of the header (the IPv6 forms are the IPv4 ones over
  another table). `truths` collects the answers that were right at some
  time during the call, and `retried` says whether a scan was given up: only
  then may a lookup return what no table said (see Findings).
* `FwdRow`. A row with two copies of its data, clients that resolve, look up and
  confirm with a remembered version, and the server. The server never
  publishes a version with a bad ifindex. The call that confirms a row may fail,
  which the code ignores (`cplane.h:164`), after clearing the flag: that
  confirmation is lost unless the server asks again.

### Onload: code with one caller at a time

* `PktQueue`: `ci_ip_queue_*` over links that keep their old values, and
  `reserved_pktbufs`.
* `PktAlloc`: sets of packets with a free list each, allocation for receive and
  transmit, reference counts, kept packets. The slow allocation, the freeing and
  new sets are external.
* `AuxMem`: buffers by use with their limits, and the ready and post-poll lists
  as sequences (their links are those of `DlList`). More buffers and epoll are
  external.
* `CrcIds`: the pool of checksum ids and their release on acknowledgement, after
  a failed send and when the queue is dropped, with checksums that span packets.
  `twice` has the ids that a dropped queue gave back more than once; calls
  after that are not followed. How payloads get ids is external.
* `DlList`: every call at link level, with a loop that may remove the link it is
  at. `Fifo`: `ci_fifo` and `ci_fifo2` side by side. `DistQ`: both ends with their
  stale views of the other's index, with and without retransmit. The writer's
  copy of the last index it has published has any value until it first publishes
  one, as `ci_distq_tx_init` leaves it unset. In `DlList` a link that is on no list is removed
  again only by `remove_safe`: the plain removal of such a link is an error of
  the caller that the header does not handle.
* `TimeConv`: both conversions with integers of given widths.

## Runs

| Run | Checks | Shows |
| --- | --- | --- |
| `efvi_rx` | `TypeOK`, `BuffersConserved`, `FramesIntact`, `HandledInOrder`, `RefillTestsAgree`, `RingStaysFull`, `DropsOnlyUnderBacklog` | the buffer cycle is sound in every interleaving with the adapter |
| `clients` | `TypeOK`, `ImplementsSubscriber`, `ForeignOnlyBeforeBind`, `GapReporting` | each of the four clients is a `Subscriber` (the UDP client one without IP-ID check); frames of other interfaces that the raw socket reports are those queued before `bind()`; what a warning means, and that silence hides only losses of a multiple of `IpIds` |
| `raw_promisc` | `PromiscuousInLoop`, **violated** | see Findings |
| `udp_abnormal_size` | `AbnormalNotDecoded`, **violated** | see Findings |
| `onload_shared` | nine, below | the parts that threads or processes share, in every interleaving |
| `calls` | nine, below | the parts with one caller at a time, under every sequence of calls |
| `progress` | `EveryFrameHandled`, `InitTerminates`, `QueueServed`, `CatchesUp`, `NobodyWaitsForEver` | what must eventually happen: stored frames and queued datagrams are handled, the ExaNIC client gets past everything, also after an overrun, `init()` ends, write locks and lookups return, jobs left to a holder are done |
| `cp_stale` | `ReturnsWhatWasTrue`, **violated** | see Findings |
| `crc_ids_freed` | `IdsFreedOnce`, **violated** | see Findings |
| `evq_rx_iter_zero` | `ZeroAtTheEnd`, **violated** | see Findings |
| `filter_vlan` | `InvalidVlanRefused`, **violated** | see Findings |
| `time_conv_wrap` | `DoesNotWrap`, **violated** | see Findings |

`clients`, `onload_shared`, `calls` and `progress` each check several small models. The parts
share no state, so nothing is gained by interleaving them: the variable `part`
(`client` in `clients`) says which one moves in a behaviour and the others rest in one initial state.
The properties of parts at rest hold trivially. Each property gathers those of
the same kind from the parts' modules, where they are defined and explained:

| Run | Property | Made of |
| --- | --- | --- |
| `onload_shared` | `ReadersAndWriters` | `RwLock` `Exclusion`, `WritersCounted`, `NoLostWakeup` |
| | `LocksExclude` | `EpLock` `OneHolder`; `WqLock` `Exclusive` |
| | `NothingForgotten` | `EpLock` `NoJobForgotten`, `NoSleeperForgotten`; `WqLock` `JobsKept`; `FwdRow` `RefreshNotLost` |
| | `ReferencesOrdered` | `StackRef` `HigherNotAbove`, `NoOverflow`, `ReleasedInOrder` |
| | `AcceptedInOrder` | `AcceptQ` `Fifo`, `CountInStep` |
| | `PoolIsAStack` | `NonbPool` `LinksSpellStack`, `PacketsConserved` |
| | `DatagramsInOrder` | `UdpRecvQ` `NotReapedEarly`, `FreedOnce`, `TakenInOrder`, `CountersAgree` |
| | `OnlySnapshots` (action property) | `CpVerlock` `SnapshotStep`, `FwdRow` `ValidStep`, `BadIfindexMeansOldVersion` |
| `calls` | `QueuesFollowContent` | `PktQueue` `LinksFollowContent`, `ReserveIsExact` |
| | `ResourcesAccountedFor` | `PktAlloc` `FreeOrHeld`, `TxWithinLimit`; `AuxMem` `BuffersAccountedFor`; `CrcIds` `IdsAccountedFor` |
| | `PressureSparesRx` (action property) | `PktAlloc` `SparesRx` |
| | `ListsIntact` | `DlList` `LinkedBothWays`, `LoopVisitsEach`; `AuxMem` `NoFreedLink` |
| | `BuffersInOrder` | `Fifo` `BothHoldTheItems`, `CountsAreExact`; `DistQ` `InOrder`, `CountsAreSafe` |
| | `FiltersParsed` | `FilterSpec` `AcceptsTheGrammar`, `MeansWhatItSays` |
| | `HelpersCleanUp` | `SocketHelpers` `NothingLeftOpen`, `FirstThatFits` |
| | `MatchesReference` | `EvqRxIter` `GivesThePackets`; `TimeConv` `NonZeroKept`, `ThereAndBack` |
| `progress` | `NobodyWaitsForEver` | `RwLock` `LockWriteReturns`; `EpLock` `JobsGetDone`; `WqLock` `JobsAreRun`; `CpVerlock` `LookupReturns` |

Each of these conjuncts has a faulty variant of the code (`Mut_...`) that
violates it.

### Bounds

* `efvi_rx`: six buffers, refill, poll and push of two, eight frames: one for each
  buffer and a batch more, so that a buffer posted twice would be written twice. The pool
  is filled by a call of `refill_rx_ring` that goes twice round its do-while
  and by one that goes once, every buffer can be used and the first used again,
  the ring can be exhausted, and polled batches can be short or full.
* `clients`: three IP-IDs, so that four frames wrap the ID; a queue or buffer of
  two frames, so that it overflows; one datagram lost upstream; for EF_VI two
  buffers and batches of one, so that four frames go round twice (the sizes that
  matter to the ring are those of `efvi_rx`). The frames have the sizes of the
  payloads the guide names, 28 and 62 bytes, and sizes at the limits of the
  clients' tests; each client meets the shapes that it tells apart. `Subscriber`
  runs there by itself as well, with up to three datagrams lost, so that a loss
  of exactly one turn of the ID, the silent one, occurs.
* `onload_shared`: four threads at the read-write lock (a writer, a waiting
  writer, a reader in its fast path and a sleeping one can meet), three at the
  other locks and three holders of references, of which the last one meets the
  limit `MaxRef` of two; two threads and three packets in the pool, with five
  returns, so that a packet comes back under a pending swap; three datagrams,
  one of two buffers, and three connections, with counters modulo eight that
  wrap after a few turns; two rows, two updates and one field write for each in
  the tables, which is enough for a torn row and for a scan given up twice; two
  clients and two updates of a forwarding row.
* `calls`: two sockets with two queues and three packets; two sets of three and
  two packets, with limits below the total so that pressure occurs; four
  auxiliary buffers in batches of two; three checksum ids; two lists with three links; ring
  buffers of four (indices modulo 16, so that they wrap) and of six (stamps
  modulo seven); texts of up to four fields; batches of up to four events over
  a ring of four, with an id 0 among the ids. `TimeConv` scales 2^32, 2^64, 1000 and 2^10 down to 64, 4096,
  7 and 8, keeping the relations between them that `WidthAssumption` states.
* `progress`: the ring of `efvi_rx` with four frames (`MaxOther` is below the
  poll batch, since `Poll` leaves open in which order ignored events come),
  the other clients with a queue or buffer of two and three frames, three
  threads at the locks (two at `WqLock`), one row in the tables.

### Fairness

The client thread of EF_VI and the loop of the ExaNIC client poll and never
block, so a step of the program is eventually taken: `WF_vars(Client)`,
`WF_vars(Main)`. The socket clients block only while nothing is queued, when
`Recv` is disabled; the same weak fairness fits them. Nothing is assumed of the
adapter, the kernel, the network or of calls failing.

Of the locks: a thread inside a call of `RwLock` that waits for a mutex or a
condition variable gets it if it is free again and again (strong fairness,
`Proceed`), which is what a mutex that starves nobody gives; readers are assumed
to unlock. The holder of an `EpLock` unlocks in the end (weak fairness); nothing
is assumed of the threads that set flags. In `WqLock` threads take their steps
(weak) and the holder, whose swap others can make fail, unlocks in the end
(strong). A lookup in `CpVerlock` takes its steps (weak); that the server
stops changing the tables is the bound `MaxVersion`.

Deadlock checking is on everywhere: `ProcessEnded`, `Ended`, `Done`, `PoolEnds`
and `IterEnds` let a part stutter in the states where it may stop, and so do the
abstract subscriber, which may end at any time, and `CrcIds` after a double
release.

## Proofs

Eight modules hold theorems. All are about every value of the constants that the
named assumptions of the modules admit; what those demand is said below. An
invariant of a run is seldom inductive alone: each proof finds a stronger one,
shows that the initial states satisfy it and that every action preserves it, with
a lemma for each kind of step, and ends in one temporal step.

| Module | Theorem | States |
| --- | --- | --- |
| `EfviProofs` | `TypeCorrect`, `Conservation`, `Intact`, `InOrder`, `RingFull`, `RefillTests` | `Spec => []` of `TypeOK`, `BuffersConserved`, `FramesIntact`, `HandledInOrder`, `RingStaysFull`, `RefillTestsAgree` of `EfviRx` |
| | `Drops` | the action property `DropsOnlyUnderBacklog` |
| | `Implements` | `EfviClient` implements `Subscriber` |
| `RawSocketProofs` | `TypeCorrect`, `Foreign`, `Implements` | `TypeOK`, `ForeignOnlyBeforeBind`, the refinement |
| `ExanicProofs` | `TypeCorrect`, `Implements` | `TypeOK`, the refinement |
| `UdpSocketProofs` | `TypeCorrect`, `Implements` | `TypeOK`, the refinement |
| `SubscriberProofs` | `SubInductive`, `Gaps` | its invariant, `GapReporting`; also the lemmas on what the clients share |
| `OnloadCountsProofs` | `ReadWrite`, `References` | `ReadersAndWriters`, `ReferencesOrdered` |
| `OnloadQueuesProofs` | `Accepted`, `PoolAtomic` | `AcceptedInOrder`, `PoolIsAStack` |
| `OnloadWordsProofs` | `Exclude`, `Remembered`, `Snapshots` | `LocksExclude`, `NothingForgotten`, the action property `OnlySnapshots` |

The properties of the clients are proved for each in its own module; the run
`clients` has them side by side, as the parts of `TypeOK`, `ImplementsSubscriber`,
`ForeignOnlyBeforeBind` and `GapReporting` of `MCClients`. All other theorems
but `SubInductive` state the very definition that a run checks.

So what a gap warning means is proved of the programs, not only of the
abstract one: a client implements `Subscriber`, and `Gaps` holds of that.

### The EF_VI receive path

Assumptions: the pool holds at least one refill batch (a default VI has 511
descriptors; below 31 the fill loop of `init()` would not end); a refill batch
is a multiple of the push granule (16 and 8); a poll batch is at most a refill
batch (16 and 16).

The argument rests on `Cycle`, the sequence of the batch's buffers, then the
ring's, then the pool's. `refill_rx_ring` and `Poll` move a boundary and leave
`Cycle` as it is (`SplitJoin`, `RefillEffect`, `PollStep`); freeing the first
buffer of the batch moves one element back (`RotateDistinct`, `HandleSteps`). So
`Cycle` stays a permutation of the buffers, which gives conservation, and the
adapter's next buffer is a place of `Cycle` with no unread frame in it, which
gives `FramesIntact` (`NicReceiveStep`).

None of the invariants is inductive alone. `IInv` adds `LevelInv`, what each
step of the thread leaves for the next (after a refill less than a batch is
free; between a poll and the refill, less than two; every descriptor pushed,
nothing received before the filter), and `OrderInv`, that handled, polled and
queued frames follow one another.

### The clients and Subscriber

Assumptions: at least two IP-IDs, frames of the shapes of `QuoteLine`, a receive
queue or buffer of at least one frame.

The first part of `SubscriberProofs` has the facts about the code the four
clients copy. The main one is `PrintedLine`: since `output_data` is zeroed before the decoder runs,
the line shows nothing of an earlier frame, whatever part of its record
the decoder leaves out.

Each client then needs two facts of its own invariant: what it handles next came
later than the last frame printed, and `prev_ip_id` is the IP-ID of that one.
For the sockets the first says that the queue is in order and ahead of the lines
(`QueueAhead`); for the ExaNIC that the read position only moves forward, also
when the adapter overtakes it (`ReadsAhead`); for EF_VI it follows from `IInv`
above: the buffer of the next event still holds the frame the event was raised
for, and frames are handled in order. `StepSimulation` shows each step to be one
of `Subscriber` or a stutter. The raw socket's invariant also says which
frames came before `bind()` (`OursSinceBind`).

`SubInv`, in the second part: frames arrive with growing numbers, lines are
about later and later frames, and a warning is exactly the test on consecutive IP-IDs
(`WarnedExactly`). What this says of the numbers is arithmetic modulo `IpIds`,
done once in `Remainder` and `Successor`.

### The locks and reference counts

Assumptions: finitely many threads at the read-write lock and finitely many
holders of references, because they are counted; `MaxRef` at least 1; the names of
bits and of nobody differ from the others. The parts share no variable, so
`CountsSteps` and `WordsSteps` split a step of the whole, and each part has its
own invariant.

* `RwInv`. A reader that a writer does not see would break exclusion, so `RwFlag`
  says what the flag promises from the moment a
  writer sets it: nobody registers any more, and who is registered is reading,
  on its way out, or about to be thrown out by the writer that holds the mutex;
  a writer past that point has found nobody registered. `RwPlace` ties
  `reading_now`, the mutex and the write lock to the places in the code,
  `RwCounted` the two counts to the sets they count, and `RwSleeper` says who will wake a
  sleeper. `RwOthers` is what a step of one thread may do to the others, and
  `RwOthersKept` shows once that this keeps their part of the invariant.
* `EpInv` is `OneHolder` in terms of places, the two properties about jobs and
  sleepers, and `EpReadClean`: the word that `ef_eplock_try_unlock` is about to
  swap out had no flag of a job when it was read.
* `WqInv`. `JobsKept` follows links; its proof needs that no list comes
  back to a job that is queued. `Linked(f, j)` is the least set closed under the
  links `f`; `LinkedFacts` and `LinkedFrame` say how it unfolds along a link and
  that links outside it do not matter, which replaces the induction along the
  list.
  `WqPlaces` says that a job about to be queued is linked in front of the list
  that was read and is not queued itself.
* `RefInv`. Each count is the number of those who have the level
  (`RefsCounted`), and a level that nobody has has been released once or is
  being released by just one holder (`ReleaseOnce`).

`NoJobForgotten` was made stronger by its proof: the flags in `todo` must belong
to a thread that serves them, which its comment had always said.

### The accept queue and the packet pool

Assumptions: the counters of the accept queue have some modulus; the end of a
list is neither a socket nor a packet. Nothing is assumed of how many threads,
sockets and packets there are.

Both parts change lists by compare-and-swap on their heads, and both properties
say that following the links gives a given sequence. The sequences `queue` and
`stack` are state of the models, so the properties speak of the link of each
place in turn, and no walk along the list has to be proved by induction.

* `AccInv` is `Fifo` with `AccPlaces` and `AccCounted`. `Fifo` divides `queue` by
  two places: up to the first is what `ci_tcp_acceptq_get_swizzle` has still to
  turn round, from there to the second the get list, after it the put list.
  Each step moves a boundary (`GrabStep`, `ReverseStep`) or changes one end of
  the queue (`PutSteps`, `TakeStep`, `PutBackStep`, `TailSteps`). `AccPlaces` says
  that the socket a thread is about to link in is on no list, which is why its
  link may be written before the swap (`LinkOffQueue`), and that nothing is
  taken from an empty list. `CountInStep` is about remainders;
  `AccCounted` says that the counters differ by what was counted and a multiple of
  the modulus, which the steps preserve (`CounterMoves`, `DifferenceMoves`).
* `PoolInv` is the property with `PoolTypes`, `PoolTaker` and `PoolGiver`. A swap in
  `ci_netif_pkt_alloc_nonb` installs a successor that was read without a lock,
  perhaps after the packet had left the pool. `PoolTaker` says why it
  is right when the swap succeeds: a packet comes back to the pool only with a
  higher tag, so if the tag is the one read and the packet is there, it has been
  there all the time and its link has not changed. The proof uses only that a
  tag does not come back, which holds of the 32-bit field until it wraps.
  `PoolGiver` says that a list on its way back is linked, that its tail points
  to the head that was read, and that its packets have no references. `PoolJoined`
  and `PoolSpelled` are about putting such a list in front of the stack.

### The tables of the control plane

Assumptions: 0, which marks a free row, is no address, interface or port; there is
an interface; the bad ifindex is none of the interfaces.

`CpInv`: as long as the version is the one read at the start, the copy being
scanned is not written, so what the scan has come by holds of it now
(`CpScan`): the rows before the present one are in use and do not match
(`Scanned`, `LlapScanned`), the row at hand matches (`Matched`), and at the end
`found` is the answer of that copy. `UsedRows`, `AnswerNone` and the other
`Answer` lemmas connect the loops with the definition of the answer, for
tables of any length. A lookup by port that hits a free row returns its ifindex,
0, which is the answer too, since no later row is in use. An update makes the version
differ from the one read for good, and then nothing need be known.

`Snapshots` speaks of what a lookup returns, not only of what its last scan
found. `CpResult` says what the result holds between scans: nothing until a row
matches, and after a scan that was given up what that scan left (`LeftOver`).
So the result of a lookup that was not retried is the answer of one version of
the tables. That of a retried one is too, or it is a failure of
`oo_cp_find_llap`, or a result of another lookup whose last scan found nothing:
the two cases in which a result is not set again.

`FwdInv`: the version a client remembers is not later than the current one, the
copy in use never has a bad ifindex (`ActiveGood`), what a client has copied
under a version that is still current is what the row holds (`CopiesCurrent`),
and at the assertion of `cplane.h` 190 the versions differ (`VersionsPast`).

### Only model-checked

* Liveness: the properties of `progress`. Fairness and ENABLED are beyond the
  prover.
* `DatagramsInOrder` (`UdpRecvQ`): a datagram has several buffers, and the
  counters add up the buffers of all datagrams of a queue. What such a sum is
  needs induction over data, which the prover cannot do.
* `calls`: most of its references are recursive definitions or grammars over
  finite sets of inputs, for which the check of all inputs is the natural one.
  The lists of `DlList` and `PktQueue`, the reserve, which is a sum over the
  queues, and the ring buffers of `Fifo` and `DistQ` are checked under every
  sequence of calls of the bounds, and not proved.
* `TypeOK` of `onload_shared`: the parts proved have their types in their
  invariants; the conjunction of all nine parts includes the unproved ones.

## Findings

* `raw_promisc`: the second `ioctl` of the raw-socket client, commented as
  setting promiscuous mode (`RAWSOCK/dce-sub-raw-socket.c:62`), is
  `SIOCGIFFLAGS` again. It reads the flags; the mode is never set. The client
  then depends on the group having been joined by other means, as the guide's
  `addgroup` does.
* `udp_abnormal_size`: `cnt<20 && cnt>144` (`dce-sub-socket.c:68`) is never
  true, so the branch that reports an abnormal payload size is dead and every
  datagram is decoded.
* `cp_stale`: `oo_cp_find_ipif_by_ip` "Returns 1 if found, 0 otherwise"
  (`cplane/cplane.h:322`), but `rc` is set to 0 only before the version lock
  (`cplane.h:338`). A scan that is given up because the tables changed leaves
  its 1 behind, and the call returns it even if the next scan finds nothing. The
  other lookups initialise their results in the same place.
* `crc_ids_freed`: the cleanup of a dropped queue frees an id that is "newly
  allocated" (`ci/internal/ip.h:2974`), but `prev_id` starts afresh in every
  packet (`ip.h:2976`), so an id of a checksum that spans packets and is no
  longer current is released once for each.
* `evq_rx_iter_zero`: `ef_vi_evq_rx_iter_next` "Returns 0 if all
  descriptors/events have been processed" (`evq_rx_iter.h:32`) and otherwise the
  request id (`:74`), which may be 0 too.
* `filter_vlan`: `consume_parameter` takes `vid=x` for 0 (`utils.cpp:37`, `atoi`),
  where line 22 promises NULL for an invalid argument.
* `time_conv_wrap`: a time above 2^32 microseconds wraps (`ci/internal/ip.h:5394`),
  where the list at 5369 says that big values must not.
* `ci_fifo2` holds as many items as its buffer, one more than its comment
  (`ci/tools/fifo.h:140`) and its user (`ci/internal/ip.h:2901`) say; `CountsAreExact`
  in the run `calls` has the code's capacity.

Also met, without a run:

* the comment on the early return of `refill_rx_ring` calls the ring empty where
  it is full (`mc_client_efvi.cpp:165`); `handle_pkt` takes a frame to start six
  bytes before `rx_ptr`, which the models follow; the three clients that look at
  headers refuse frames of about the minimum size, with limits of 64 and 66 bytes;
* `mk_socket` keeps the result of `getaddrinfo` when `socket()` or `op()` fails
  (`utils.cpp:401`); `NothingLeftOpen` speaks of sockets and interface lists;
* `oo_rwlock_try_write` asserts `val` to be 0 (`onload/ul/rwlock.h:233`) after it
  has set a flag in it, and `cp_llap_find_row` asserts that its argument is not
  bad (`cplane/mib.h:899`), which a caller that is about to retry can break
  (`cplane.h:405`): both only in debug builds.

## Not modelled

* The bytes of a record and the text of a line; only where they come from.
* The decoder: a binary. It is a choice over what it may write.
* `gen_time[12]` and `contract_id[8]` printed with `%s`: whether the decoder
  terminates them is not visible in the repository.
* The spinning `main()` of the EF_VI program, which touches no shared state.
* `sock_put_int`, `sock_get_int`, `parse_interface`: single library calls.
* The rest of `EF_VI/include`. The tree has some 93,000 lines, of which about
  7,500 are bodies of inline functions. Most of the rest defines registers,
  options, counters, protocol headers and prototypes. Of the bodies, those with
  state and control of their own are the modules above. The others read or set one
  field, convert one representation into another, check assertions, or call
  functions whose source is not in the repository (the driver, the Onload
  library, the control plane server): a model of them would be a model of code
  that cannot be read here. So the share of all lines that is modelled is small,
  and stays so; of the programs' own sources nearly all is modelled.
* Within modelled parts: destroying an `oo_rwlock` and the end of a thread that
  is registered with one; growing a `ci_fifo`, `ci_udp_recv_q_drop` and
  `ci_distq_ack_wr_reset`, whose counterparts (an external function, and a reader
  that starts anew) are not in the repository; `oo_p_dllink_concurrent_add`,
  because what the traversal it races with leaves in the head of the list is
  not to be seen from the repository.
* Memory ordering: steps of the shared models are interleaved as if memory were
  sequentially consistent. The headers place barriers for the orders the models
  rely on; that the barriers suffice is not checked.

## Plan

1. Proofs for every size about `DistQ` and `Fifo`, whose invariants relate
   indices and contents without links.
2. `DlList` and the lists of `PktQueue`, link by link as in `AcceptQ`.
3. `FreeList`: the pool of `EfviRx` at pointer level (`next`, head, count),
   refining the sequence `free_pkt_bufs`.
