------------------------------- MODULE EfviRx -------------------------------
(***************************************************************************)
(* The receive path of the EF_VI client (EF_VI/mc_client_efvi.cpp): the    *)
(* pool of DMA packet buffers, the RX descriptor ring shared with the      *)
(* adapter, the event queue, and the thread that first runs init() and     *)
(* then event_loop_low_latency().  What handle_pkt() does with the bytes   *)
(* of a frame is left to EfviClient; here a frame is a number.             *)
(*                                                                         *)
(* A buffer moves  free pool -> ring -> (DMA) -> event -> batch -> pool.   *)
(* Two actors run concurrently: the client thread, and the adapter, which  *)
(* writes frames into the descriptors submitted to it.                     *)
(***************************************************************************)
EXTENDS Integers, Sequences

CONSTANTS RxCapacity,         \* ef_vi_receive_capacity(): 511 on a default VI
          FillSlack,          \* the 15 in "capacity - 15"
          REFILL_BATCH_SIZE,  \* 16
          EV_POLL_BATCH_SIZE, \* 16
          PushGranule,        \* adapters take descriptors in multiples of 8
          MaxFrames,          \* bound: frames that arrive in a behaviour
          MaxOther            \* bound: events of a type the client ignores

cfg_max_fill == RxCapacity - FillSlack

Mut_pkt_bufs_n == RxCapacity
pkt_bufs_n     == cfg_max_fill

Mut_refill_level_late    == cfg_max_fill - 2 * REFILL_BATCH_SIZE
Mut_refill_level_endless == cfg_max_fill
refill_level == cfg_max_fill - REFILL_BATCH_SIZE
refill_min   == cfg_max_fill \div 2

Bufs   == 0 .. pkt_bufs_n - 1
Frames == 1 .. MaxFrames

(* The descriptor ring must have room for one refill batch: with fewer     *)
(* than 31 descriptors the loop of init() that fills the ring never ends.  *)
ASSUME RingAssumption ==
  /\ RxCapacity \in Nat /\ FillSlack \in Nat
  /\ REFILL_BATCH_SIZE \in Nat \ {0}
  /\ RxCapacity - FillSlack >= REFILL_BATCH_SIZE
ASSUME BatchAssumption ==
  /\ EV_POLL_BATCH_SIZE \in Nat \ {0}
  /\ PushGranule \in Nat \ {0}
  /\ REFILL_BATCH_SIZE % PushGranule = 0
  /\ EV_POLL_BATCH_SIZE <= REFILL_BATCH_SIZE
ASSUME BoundAssumption == MaxFrames \in Nat /\ MaxOther \in Nat

(* EF_EVENT_TYPE_RX with SOP and without CONT, EF_EVENT_TYPE_RX of a       *)
(* fragment of a jumbo, EF_EVENT_TYPE_RX_DISCARD.                          *)
RxKinds == {"RX", "RX_SCATTER", "RX_DISCARD"}
RxEvent == [kind : RxKinds, frame : Frames]
PolledEvent == [kind : RxKinds, frame : Frames, rq_id : Bufs]

VARIABLES
  pc,              \* where the client thread is
  free_pkt_bufs,   \* the free pool, a LIFO list: its head is the next popped
  free_pkt_bufs_n, \* the pool's own count
  registered,      \* ef_memreg_alloc done, every efvi_addr set
  filtered,        \* ef_vi_filter_add done: the adapter delivers to this VI
  ring,            \* descriptors added and not removed, oldest first
  posted,          \* how many of them have been pushed to the adapter
  evq,             \* RX events not polled yet; the i-th is about ring[i]
  otherEvs,        \* queued events of other types
  evs,             \* the polled events poll_evq has still to handle
  mem,             \* the frame in each buffer (0: none yet)
  wire,            \* frames that reached the port (frame k is the k-th)
  handled          \* frames passed to handle_pkt; n_rx_pkts is its length

poolVars == <<free_pkt_bufs, free_pkt_bufs_n>>
vars == <<pc, poolVars, registered, filtered, ring, posted, evq, otherEvs,
          evs, mem, wire, handled>>

InitPcs == {"open", "alloc", "memreg", "fill", "filter"}
LoopPcs == {"refill", "poll", "handle"}

TypeOK ==
  /\ pc \in InitPcs \cup LoopPcs \cup {"aborted"}
  /\ free_pkt_bufs \in Seq(Bufs)
  /\ free_pkt_bufs_n \in Nat
  /\ registered \in BOOLEAN
  /\ filtered \in BOOLEAN
  /\ ring \in Seq(Bufs)
  /\ posted \in 0 .. Len(ring)
  /\ evq \in Seq(RxEvent)
  /\ Len(evq) <= posted
  /\ otherEvs \in 0 .. MaxOther
  /\ evs \in Seq(PolledEvent)
  /\ mem \in [Bufs -> 0 .. MaxFrames]
  /\ wire \in 0 .. MaxFrames
  /\ handled \in Seq(0 .. MaxFrames)

Init ==
  /\ pc = "open"
  /\ free_pkt_bufs = << >> /\ free_pkt_bufs_n = 0
  /\ registered = FALSE /\ filtered = FALSE
  /\ ring = << >> /\ posted = 0
  /\ evq = << >> /\ otherEvs = 0 /\ evs = << >>
  /\ mem = [b \in Bufs |-> 0]
  /\ wire = 0 /\ handled = << >>

-----------------------------------------------------------------------------
(* ef_vi, modelled from its use. *)

(* ef_vi_receive_fill_level(): added - removed. *)
fill_level == Len(ring)

(* ef_vi_receive_init() refuses a descriptor when the ring is full.        *)
Accepted(descriptors) ==
  IF Len(descriptors) <= RxCapacity THEN descriptors
                                    ELSE SubSeq(descriptors, 1, RxCapacity)

(* ef_vi_receive_push() submits the new descriptors in multiples of the    *)
(* granule and keeps the remainder for a later push.                       *)
Pushed(added) == added - ((added - posted) % PushGranule)

-----------------------------------------------------------------------------
(* init() *)

(* calloc of the resources, driver, protection domain and VI. *)
OpenVi ==
  /\ pc = "open"
  /\ pc' = "alloc"
  /\ UNCHANGED <<poolVars, registered, filtered, ring, posted, evq, otherEvs,
                 evs, mem, wire, handled>>

(* mmap, or posix_memalign when there are no huge pages, and the loop that *)
(* pushes buffer 0, 1, ... on the pool: the last one is popped first.      *)
AllocPktBufs ==
  /\ pc = "alloc"
  /\ free_pkt_bufs' = [i \in 1 .. pkt_bufs_n |-> pkt_bufs_n - i]
  /\ free_pkt_bufs_n' = pkt_bufs_n
  /\ pc' = "memreg"
  /\ UNCHANGED <<registered, filtered, ring, posted, evq, otherEvs, evs, mem,
                 wire, handled>>

RegisterMemory ==
  /\ pc = "memreg"
  /\ registered' = TRUE
  /\ pc' = "fill"
  /\ UNCHANGED <<poolVars, filtered, ring, posted, evq, otherEvs, evs, mem,
                 wire, handled>>

(* filter_parse("sniff") and ef_vi_filter_add; init() returns. *)
AddFilter ==
  /\ pc = "filter"
  /\ filtered' = TRUE
  /\ pc' = "refill"
  /\ UNCHANGED <<poolVars, registered, ring, posted, evq, otherEvs, evs, mem,
                 wire, handled>>

(* A TRY or TEST of init() fails and aborts the process, or a bad filter   *)
(* specification makes it exit(1).                                         *)
InitFails ==
  /\ pc \in {"open", "alloc", "memreg", "filter"}
  /\ pc' = "aborted"
  /\ UNCHANGED <<poolVars, registered, filtered, ring, posted, evq, otherEvs,
                 evs, mem, wire, handled>>

-----------------------------------------------------------------------------
(* refill_rx_ring() *)

RefillReturnsFalse ==
  \/ fill_level > refill_level
  \/ free_pkt_bufs_n < REFILL_BATCH_SIZE

(* The condition of the do-while after k rounds of the loop. *)
RefillAgain(k) ==
  /\ fill_level + REFILL_BATCH_SIZE * k < refill_min
  /\ free_pkt_bufs_n - REFILL_BATCH_SIZE * k >= REFILL_BATCH_SIZE

(* k rounds: each pops a batch off the pool and adds its descriptors; one  *)
(* push at the end.  The result of ef_vi_receive_init is ignored: a buffer *)
(* whose descriptor is refused is in neither the pool nor the ring.        *)
Mut_RefillRounds(k) ==
  LET n == REFILL_BATCH_SIZE * k IN
  /\ ring' = Accepted(ring \o SubSeq(free_pkt_bufs, 1, n))
  /\ free_pkt_bufs' = SubSeq(free_pkt_bufs, n + 1, Len(free_pkt_bufs))
  /\ free_pkt_bufs_n' = free_pkt_bufs_n - n
  /\ posted' = posted
RefillRounds(k) ==
  LET n == REFILL_BATCH_SIZE * k IN
  /\ ring' = Accepted(ring \o SubSeq(free_pkt_bufs, 1, n))
  /\ free_pkt_bufs' = SubSeq(free_pkt_bufs, n + 1, Len(free_pkt_bufs))
  /\ free_pkt_bufs_n' = free_pkt_bufs_n - n
  /\ posted' = Pushed(Len(ring'))

refill_rx_ring ==
  \/ /\ RefillReturnsFalse
     /\ UNCHANGED <<poolVars, ring, posted>>
  \/ /\ ~RefillReturnsFalse
     /\ \E k \in 1 .. pkt_bufs_n :
          /\ \A j \in 1 .. k - 1 : RefillAgain(j)
          /\ ~RefillAgain(k)
          /\ RefillRounds(k)

(* One turn of "while (fill_level <= refill_level) refill_rx_ring(res)". *)
FillRing ==
  /\ pc = "fill"
  /\ fill_level <= refill_level
  /\ refill_rx_ring
  /\ UNCHANGED <<pc, registered, filtered, evq, otherEvs, evs, mem, wire,
                 handled>>

RingFilled ==
  /\ pc = "fill"
  /\ fill_level > refill_level
  /\ pc' = "filter"
  /\ UNCHANGED <<poolVars, registered, filtered, ring, posted, evq, otherEvs,
                 evs, mem, wire, handled>>

(* The first call of the event loop's body. *)
Mut_Refill ==
  /\ pc = "refill"
  /\ refill_rx_ring
  /\ pc' = IF RefillReturnsFalse THEN "refill" ELSE "poll"
  /\ UNCHANGED <<registered, filtered, evq, otherEvs, evs, mem, wire, handled>>
Refill ==
  /\ pc = "refill"
  /\ refill_rx_ring
  /\ pc' = "poll"
  /\ UNCHANGED <<registered, filtered, evq, otherEvs, evs, mem, wire, handled>>

-----------------------------------------------------------------------------
(* poll_evq() *)

(* ef_eventq_poll takes up to a batch of events off the queue and removes  *)
(* their descriptors.  o of the n_ev events are of a type that poll_evq    *)
(* only logs; as that changes nothing they are dropped at once.            *)
Poll ==
  /\ pc = "poll"
  /\ \E n \in 0 .. Len(evq), o \in 0 .. otherEvs :
       /\ n + o <= EV_POLL_BATCH_SIZE
       /\ n + o = EV_POLL_BATCH_SIZE \/ (n = Len(evq) /\ o = otherEvs)
       /\ evs' = [i \in 1 .. n |-> [kind  |-> evq[i].kind,
                                    frame |-> evq[i].frame,
                                    rq_id |-> ring[i]]]
       /\ evq' = SubSeq(evq, n + 1, Len(evq))
       /\ ring' = SubSeq(ring, n + 1, Len(ring))
       /\ posted' = posted - n
       /\ otherEvs' = otherEvs - o
       /\ pc' = IF n = 0 THEN "refill" ELSE "handle"
  /\ UNCHANGED <<poolVars, registered, filtered, mem, wire, handled>>

Mut_pkt_buf_free(b) ==
  /\ free_pkt_bufs' = <<b>> \o free_pkt_bufs
  /\ free_pkt_bufs_n' = free_pkt_bufs_n - 1
pkt_buf_free(b) ==
  /\ free_pkt_bufs' = <<b>> \o free_pkt_bufs
  /\ free_pkt_bufs_n' = free_pkt_bufs_n + 1

Mut_NextEvent ==
  /\ evs' = evs
  /\ pc' = IF Len(evs) = 1 THEN "refill" ELSE "handle"
NextEvent ==
  /\ evs' = Tail(evs)
  /\ pc' = IF Len(evs) = 1 THEN "refill" ELSE "handle"

(* TEST passes; handle_rx: handle_pkt reads the buffer, which is freed. *)
HandleRx ==
  /\ pc = "handle"
  /\ Head(evs).kind = "RX"
  /\ handled' = Append(handled, mem[Head(evs).rq_id])
  /\ pkt_buf_free(Head(evs).rq_id)
  /\ NextEvent
  /\ UNCHANGED <<registered, filtered, ring, posted, evq, otherEvs, mem, wire>>

Mut_HandleRxDiscard_leak ==
  /\ pc = "handle"
  /\ Head(evs).kind = "RX_DISCARD"
  /\ NextEvent
  /\ UNCHANGED <<poolVars, registered, filtered, ring, posted, evq, otherEvs,
                 mem, wire, handled>>
Mut_HandleRxDiscard_twice ==
  /\ pc = "handle"
  /\ Head(evs).kind = "RX_DISCARD"
  /\ free_pkt_bufs' = <<Head(evs).rq_id, Head(evs).rq_id>> \o free_pkt_bufs
  /\ free_pkt_bufs_n' = free_pkt_bufs_n + 2
  /\ NextEvent
  /\ UNCHANGED <<registered, filtered, ring, posted, evq, otherEvs, mem, wire,
                 handled>>
HandleRxDiscard ==
  /\ pc = "handle"
  /\ Head(evs).kind = "RX_DISCARD"
  /\ pkt_buf_free(Head(evs).rq_id)
  /\ NextEvent
  /\ UNCHANGED <<registered, filtered, ring, posted, evq, otherEvs, mem, wire,
                 handled>>

(* TEST(SOP && !CONT) fails: the process aborts. *)
HandleScatter ==
  /\ pc = "handle"
  /\ Head(evs).kind = "RX_SCATTER"
  /\ pc' = "aborted"
  /\ UNCHANGED <<poolVars, registered, filtered, ring, posted, evq, otherEvs,
                 evs, mem, wire, handled>>

-----------------------------------------------------------------------------
(* The adapter. *)

(* A frame is written into the oldest submitted descriptor without one. *)
NicReceive ==
  /\ filtered /\ pc # "aborted"
  /\ wire < MaxFrames
  /\ Len(evq) < posted
  /\ mem' = [mem EXCEPT ![ring[Len(evq) + 1]] = wire + 1]
  /\ \E kind \in RxKinds :
       evq' = Append(evq, [kind |-> kind, frame |-> wire + 1])
  /\ wire' = wire + 1
  /\ UNCHANGED <<pc, poolVars, registered, filtered, ring, posted, otherEvs,
                 evs, handled>>

(* No descriptor is left: the frame is lost. *)
NicDrop ==
  /\ filtered /\ pc # "aborted"
  /\ wire < MaxFrames
  /\ Len(evq) = posted
  /\ wire' = wire + 1
  /\ UNCHANGED <<pc, poolVars, registered, filtered, ring, posted, evq,
                 otherEvs, evs, mem, handled>>

(* An event that carries no frame (EF_EVENT_TYPE_RESET and the like). *)
NicOtherEvent ==
  /\ filtered /\ pc # "aborted"
  /\ otherEvs < MaxOther
  /\ otherEvs' = otherEvs + 1
  /\ UNCHANGED <<pc, poolVars, registered, filtered, ring, posted, evq, evs,
                 mem, wire, handled>>

-----------------------------------------------------------------------------
(* The process has ended: nothing happens any more. *)
ProcessEnded == pc = "aborted" /\ UNCHANGED vars

Client == \/ OpenVi \/ AllocPktBufs \/ RegisterMemory
          \/ FillRing \/ RingFilled \/ AddFilter \/ InitFails
          \/ Refill \/ Poll
          \/ HandleRx \/ HandleRxDiscard \/ HandleScatter

Nic == NicReceive \/ NicDrop \/ NicOtherEvent

Next == Client \/ Nic \/ ProcessEnded

Spec == Init /\ [][Next]_vars

(* The client is a thread of its own that never blocks: it keeps taking    *)
(* steps.  Nothing is assumed of the adapter.                              *)
FairSpec == Spec /\ WF_vars(Client)

-----------------------------------------------------------------------------
(* Properties *)

BatchIds == [i \in 1 .. Len(evs) |-> evs[i].rq_id]

(* Every buffer, in the order in which the adapter will next write it. *)
Cycle == BatchIds \o ring \o free_pkt_bufs

Distinct(s) == \A i, j \in 1 .. Len(s) : s[i] = s[j] => i = j

BuffersExist == pc \notin {"open", "alloc", "aborted"}

(* Buffers are neither leaked nor freed twice: from the loop that fills    *)
(* the pool on, each of the pkt_bufs_n buffers is in exactly one of the    *)
(* free pool, the ring and the batch of polled events, and the pool's      *)
(* count is its length, so refill_rx_ring never pops a NULL head.          *)
BuffersConserved ==
  BuffersExist =>
    /\ Len(Cycle) = pkt_bufs_n
    /\ Distinct(Cycle)
    /\ free_pkt_bufs_n = Len(free_pkt_bufs)

(* The adapter never overwrites a frame that handle_pkt has yet to read:   *)
(* the buffer named by a queued or polled event holds that event's frame.  *)
FramesIntact ==
  /\ \A i \in 1 .. Len(evs) : mem[evs[i].rq_id] = evs[i].frame
  /\ \A i \in 1 .. Len(evq) : mem[ring[i]] = evq[i].frame

(* handle_pkt sees each received frame at most once and in the order of    *)
(* arrival, also across batches: its IP-ID check relies on that.           *)
HandledInOrder ==
  \A i, j \in 1 .. Len(handled) : i < j => handled[i] < handled[j]

(* The two tests of refill_rx_ring's early return agree whenever the event *)
(* loop gets there: the ring is full exactly when the pool cannot give a   *)
(* batch, so the ring is never left short by the second test.              *)
RefillTestsAgree ==
  pc \in {"fill", "refill"} =>
    (fill_level > refill_level <=> free_pkt_bufs_n < REFILL_BATCH_SIZE)

(* Once init() has returned the ring always holds all but one refill and   *)
(* one poll batch of the buffers, every descriptor in it registered for    *)
(* DMA and pushed to the adapter.                                          *)
RingStaysFull ==
  /\ pc \in LoopPcs =>
       fill_level > pkt_bufs_n - REFILL_BATCH_SIZE - EV_POLL_BATCH_SIZE
  /\ posted = fill_level
  /\ ring # << >> => registered

(* A frame is lost for want of a descriptor only under a backlog of nearly *)
(* the whole ring of unread frames, never because the refill came late.    *)
DropsOnlyUnderBacklog ==
  [][NicDrop => Len(evq) > pkt_bufs_n - REFILL_BATCH_SIZE - EV_POLL_BATCH_SIZE
    ]_vars

(* What the steps of the client thread establish for one another: the      *)
(* inductive strengthening of the invariants above, with OrderInv.         *)
LevelInv ==
  /\ pc \in {"open", "alloc"} => ring = << >> /\ free_pkt_bufs = << >>
  /\ pc \in LoopPcs \cup {"fill", "filter"} => registered
  /\ ring # << >> => registered
  /\ pc \in InitPcs => ~filtered
  /\ pc \in LoopPcs => filtered
  /\ ~filtered => evq = << >> /\ evs = << >>
  /\ pc \in InitPcs \cup {"refill", "poll"} => evs = << >>
  /\ pc = "handle" => evs # << >>
  /\ posted = Len(ring)
  /\ pc \in {"filter", "poll"} => Len(free_pkt_bufs) < REFILL_BATCH_SIZE
  /\ pc \in {"refill", "handle"} =>
       Len(evs) + Len(free_pkt_bufs) < REFILL_BATCH_SIZE + EV_POLL_BATCH_SIZE

(* Frames handled, then polled, then queued are in the order of arrival. *)
OrderInv ==
  /\ HandledInOrder
  /\ \A i, j \in 1 .. Len(evs) : i < j => evs[i].frame < evs[j].frame
  /\ \A i, j \in 1 .. Len(evq) : i < j => evq[i].frame < evq[j].frame
  /\ \A i \in 1 .. Len(handled), j \in 1 .. Len(evs) :
       handled[i] < evs[j].frame
  /\ \A i \in 1 .. Len(handled), j \in 1 .. Len(evq) :
       handled[i] < evq[j].frame
  /\ \A i \in 1 .. Len(evs), j \in 1 .. Len(evq) : evs[i].frame < evq[j].frame
  /\ \A i \in 1 .. Len(handled) : handled[i] <= wire
  /\ \A i \in 1 .. Len(evs) : evs[i].frame <= wire
  /\ \A i \in 1 .. Len(evq) : evq[i].frame <= wire

IInv == TypeOK /\ BuffersConserved /\ FramesIntact /\ LevelInv /\ OrderInv

Pending(f) ==
  /\ pc # "aborted"
  /\ \/ \E i \in 1 .. Len(evs) : evs[i].frame = f
     \/ \E i \in 1 .. Len(evq) : evq[i].frame = f

(* Every frame the adapter stored is handled or discarded, unless a jumbo  *)
(* aborts the process first.                                               *)
EveryFrameHandled == \A f \in Frames : Pending(f) ~> ~Pending(f)

(* init() ends: the loop that fills the ring terminates, and the client    *)
(* enters its event loop or gives up.                                      *)
InitTerminates == <>(pc \in LoopPcs \cup {"aborted"})
=============================================================================
