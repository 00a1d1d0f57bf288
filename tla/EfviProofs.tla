----------------------------- MODULE EfviProofs -----------------------------
(***************************************************************************)
(* Proofs about the EF_VI client, for every ring capacity and every batch  *)
(* size the assumptions allow, and for all traffic.                        *)
(*                                                                         *)
(* The receive path (EfviRx): apart from handling an event, no step        *)
(* changes Cycle, the sequence of all buffers in the order batch, ring,    *)
(* pool; handling an event moves the first buffer of the batch to the      *)
(* front of the pool.  So Cycle stays a permutation of the buffers, which  *)
(* makes the buffer the adapter writes distinct from every buffer that     *)
(* holds an unread frame.                                                  *)
(*                                                                         *)
(* The client as a whole (EfviClient) is a Subscriber: the receive path's  *)
(* invariant says that the buffer of the next event still holds that       *)
(* event's frame, and that this frame is later than every frame handled;   *)
(* the last frame printed is one of those, and prev_ip_id is its IP-ID.    *)
(***************************************************************************)
EXTENDS EfviClient, SubscriberProofs

-----------------------------------------------------------------------------
(* Sequences.  The few facts about them that the buffers need are proved   *)
(* here: every theorem of a library is carried by each step that follows.  *)

(* An element of a sequence, such as a frame of handled, is of its type. *)
LEMMA Element ==
  ASSUME NEW S, NEW s \in Seq(S), NEW n \in 1 .. Len(s)
  PROVE  s[n] \in S
OBVIOUS

(* Sequences with the same elements are equal. *)
LEMMA SameElements ==
  ASSUME NEW S, NEW s \in Seq(S), NEW t \in Seq(S),
         Len(s) = Len(t), \A i \in 1 .. Len(s) : s[i] = t[i]
  PROVE  s = t
OBVIOUS

(* What joining two sequences, say the ring and the pool, gives. *)
LEMMA Joined ==
  ASSUME NEW S, NEW s \in Seq(S), NEW t \in Seq(S)
  PROVE  /\ s \o t \in Seq(S)
         /\ Len(s \o t) = Len(s) + Len(t)
         /\ \A i \in 1 .. Len(s) + Len(t) :
              (s \o t)[i] = IF i <= Len(s) THEN s[i] ELSE t[i - Len(s)]
OBVIOUS

(* Batch, ring and pool may be joined in either order. *)
LEMMA JoinedInAnyOrder ==
  ASSUME NEW s \in Seq(Bufs), NEW t \in Seq(Bufs), NEW u \in Seq(Bufs)
  PROVE  (s \o t) \o u = s \o (t \o u)
<1>1. /\ s \o t \in Seq(Bufs) /\ t \o u \in Seq(Bufs)
      /\ (s \o t) \o u \in Seq(Bufs) /\ s \o (t \o u) \in Seq(Bufs)
  BY Joined
<1>2. /\ Len((s \o t) \o u) = Len(s) + Len(t) + Len(u)
      /\ Len(s \o (t \o u)) = Len(s) + Len(t) + Len(u)
  BY <1>1
<1>3. \A i \in 1 .. Len((s \o t) \o u) : ((s \o t) \o u)[i] = (s \o (t \o u))[i]
  BY <1>1, <1>2
<1> QED  BY <1>1, <1>2, <1>3, SameElements, Zenon

(* The whole of a sequence. *)
LEMMA Whole ==
  ASSUME NEW S, NEW s \in Seq(S)
  PROVE  SubSeq(s, 1, Len(s)) = s
OBVIOUS

-----------------------------------------------------------------------------
(* The receive path *)


(* A multiple of a refill batch is a multiple of the push granule, so      *)
(* ef_vi_receive_push leaves no descriptor behind.                         *)
LEMMA BatchesArePushed ==
  ASSUME NEW k \in Nat
  PROVE  (REFILL_BATCH_SIZE * k) % PushGranule = 0
<1> DEFINE q == REFILL_BATCH_SIZE \div PushGranule
<1>1. q \in Nat /\ REFILL_BATCH_SIZE = PushGranule * q
  BY RingAssumption, BatchAssumption
<1> HIDE DEF q
<1>2. REFILL_BATCH_SIZE * k = PushGranule * (q * k)
  BY <1>1, BatchAssumption
<1>3. q * k \in Nat
  BY <1>1
<1>4. \A m \in Nat : (PushGranule * m) % PushGranule = 0
  BY BatchAssumption
<1> QED  BY <1>2, <1>3, <1>4

(* Splitting a sequence in two and joining the parts changes nothing. *)
LEMMA SplitJoin ==
  ASSUME NEW S, NEW s \in Seq(S), NEW n \in 0 .. Len(s)
  PROVE  SubSeq(s, 1, n) \o SubSeq(s, n + 1, Len(s)) = s
<1> DEFINE a == SubSeq(s, 1, n)
           b == SubSeq(s, n + 1, Len(s))
<1>1. /\ a \in Seq(S) /\ Len(a) = n /\ \A i \in 1 .. n : a[i] = s[i]
      /\ b \in Seq(S) /\ Len(b) = Len(s) - n
      /\ \A i \in 1 .. Len(s) - n : b[i] = s[i + n]
  OBVIOUS
<1> HIDE DEF a, b
<1>2. /\ a \o b \in Seq(S)
      /\ Len(a \o b) = Len(a) + Len(b)
      /\ \A i \in 1 .. Len(a) + Len(b) :
           (a \o b)[i] = IF i <= Len(a) THEN a[i] ELSE b[i - Len(a)]
  <2>1. a \in Seq(S) /\ b \in Seq(S)
    BY <1>1
  <2> QED  BY <2>1, Joined, Zenon
<1> DEFINE j == a \o b
<1>3. /\ j \in Seq(S) /\ Len(j) = Len(a) + Len(b)
      /\ \A i \in 1 .. Len(a) + Len(b) : j[i] = IF i <= Len(a) THEN a[i] ELSE b[i - Len(a)]
  BY <1>2, Zenon
<1> HIDE DEF j
<1>4. Len(s) \in Nat /\ n \in Nat /\ Len(a) + Len(b) = Len(s)
  BY <1>1
<1>5. ASSUME NEW i \in 1 .. Len(s) PROVE j[i] = s[i]
  <2>1. CASE i <= n
    BY <1>1, <1>3, <1>4, <2>1
  <2>2. CASE ~(i <= n)
    <3>1. i - n \in 1 .. Len(s) - n /\ (i - n) + n = i
      BY <1>4, <2>2
    <3> QED  BY <1>1, <1>3, <1>4, <2>2, <3>1
  <2> QED  BY <2>1, <2>2
<1>6. j = s
  BY <1>3, <1>4, <1>5, SameElements, Zenon
<1> QED  BY <1>6, Zenon DEF a, b, j

(* What is left of a sequence when its first n elements are taken. *)
LEMMA Dropped ==
  ASSUME NEW S, NEW s \in Seq(S), NEW n \in 0 .. Len(s)
  PROVE  /\ SubSeq(s, n + 1, Len(s)) \in Seq(S)
         /\ Len(SubSeq(s, n + 1, Len(s))) = Len(s) - n
         /\ \A i \in 1 .. Len(s) - n :
              i + n \in 1 .. Len(s) /\ SubSeq(s, n + 1, Len(s))[i] = s[i + n]
OBVIOUS

(* Moving the first element of a sequence of distinct elements further     *)
(* back, as pkt_buf_free does to Cycle, keeps them distinct.               *)
LEMMA RotateDistinct ==
  ASSUME NEW S, NEW s \in Seq(S), NEW t \in Seq(S), NEW b \in S,
         Distinct(<<b>> \o (s \o t))
  PROVE  Distinct(s \o (<<b>> \o t))
<1> DEFINE old == <<b>> \o (s \o t)
           new == s \o (<<b>> \o t)
           n   == Len(s) + Len(t) + 1
           at(i) == IF i <= Len(s) THEN i + 1
                    ELSE IF i = Len(s) + 1 THEN 1 ELSE i
<1>1. <<b>> \in Seq(S) /\ Len(<<b>>) = 1 /\ <<b>>[1] = b
  OBVIOUS
<1>2. s \o t \in Seq(S) /\ <<b>> \o t \in Seq(S)
  BY <1>1
<1>3. Len(old) = n /\ Len(new) = n
  BY <1>1, <1>2
<1>4. \A i \in 1 .. n : old[i] = IF i = 1 THEN b ELSE (s \o t)[i - 1]
  BY <1>1, <1>2
<1>5. \A i \in 1 .. n - 1 : (s \o t)[i] = IF i <= Len(s) THEN s[i] ELSE t[i - Len(s)]
  OBVIOUS
<1>6. \A i \in 1 .. Len(t) + 1 : (<<b>> \o t)[i] = IF i = 1 THEN b ELSE t[i - 1]
  BY <1>1
<1>7. \A i \in 1 .. n : new[i] =
         IF i <= Len(s) THEN s[i] ELSE (<<b>> \o t)[i - Len(s)]
  BY <1>1, <1>2
<1> HIDE DEF old, new
<1>8. \A i \in 1 .. n : at(i) \in 1 .. n /\ new[i] = old[at(i)]
  <2> SUFFICES ASSUME NEW i \in 1 .. n
               PROVE  at(i) \in 1 .. n /\ new[i] = old[at(i)]
    OBVIOUS
  <2>1. CASE i <= Len(s)
    <3> HIDE DEF n
    <3>1. Len(s) \in Nat /\ Len(t) \in Nat /\ n = Len(s) + Len(t) + 1
      BY DEF n
    <3>2. i \in Int /\ i >= 1 /\ i + 1 \in 1 .. n /\ i + 1 # 1 /\ i \in 1 .. n - 1
      BY <3>1, <2>1
    <3>3. at(i) = i + 1 /\ new[i] = s[i]
      BY <2>1, <1>7
    <3>4. old[i + 1] = s[i]
      BY <2>1, <3>2, <1>4, <1>5
    <3> QED  BY <3>2, <3>3, <3>4
  <2>2. CASE i = Len(s) + 1
    BY <2>2, <1>4, <1>6, <1>7
  <2>3. CASE i > Len(s) + 1
    <3> DEFINE j == i - Len(s)
    <3>a. Len(s) \in Nat /\ Len(t) \in Nat /\ i \in Int
      OBVIOUS
    <3>b. j \in 1 .. Len(t) + 1 /\ j # 1 /\ ~(i <= Len(s)) /\ i # 1
          /\ i - 1 \in 1 .. n - 1 /\ ~(i - 1 <= Len(s)) /\ (i - 1) - Len(s) = j - 1
      BY <2>3, <3>a
    <3> HIDE DEF j, n
    <3>1. new[i] = t[j - 1]
      <4>1. new[i] = (<<b>> \o t)[j]
        BY <3>b, <1>7 DEF j
      <4> QED  BY <4>1, <3>b, <1>6
    <3>2. old[i] = t[j - 1]
      <4>1. old[i] = (s \o t)[i - 1]
        BY <3>b, <1>4
      <4> QED  BY <4>1, <3>b, <1>5
    <3> QED  BY <2>3, <3>1, <3>2
  <2> QED  BY <2>1, <2>2, <2>3
<1>9. \A i, j \in 1 .. n : at(i) = at(j) => i = j
  OBVIOUS
<1>10. \A i, j \in 1 .. n : old[i] = old[j] => i = j
  BY <1>3 DEF Distinct, old
<1> HIDE DEF at, n
<1>11. \A i, j \in 1 .. n : new[i] = new[j] => i = j
  BY <1>8, <1>9, <1>10
<1> QED  BY <1>3, <1>11 DEF Distinct, new

-----------------------------------------------------------------------------
(* The levels init() computes from the ring's capacity are numbers, and a  *)
(* refill batch fits in the pool.                                          *)
LEMMA ConstantTypes ==
  /\ pkt_bufs_n \in Nat \ {0}
  /\ cfg_max_fill = pkt_bufs_n
  /\ pkt_bufs_n >= REFILL_BATCH_SIZE
  /\ pkt_bufs_n <= RxCapacity
  /\ refill_level = pkt_bufs_n - REFILL_BATCH_SIZE
  /\ refill_level \in Nat
  /\ refill_min \in Nat
BY RingAssumption DEF pkt_bufs_n, cfg_max_fill, refill_level, refill_min

(* Where the buffers of the batch and of the ring are in Cycle. *)
LEMMA CycleShape ==
  ASSUME TypeOK
  PROVE  /\ BatchIds \in Seq(Bufs)
         /\ Len(BatchIds) = Len(evs)
         /\ Cycle = BatchIds \o (ring \o free_pkt_bufs)
         /\ Cycle \in Seq(Bufs)
         /\ Len(Cycle) = Len(evs) + Len(ring) + Len(free_pkt_bufs)
         /\ \A i \in 1 .. Len(evs) : Cycle[i] = evs[i].rq_id
         /\ \A i \in 1 .. Len(ring) : Cycle[Len(evs) + i] = ring[i]
<1>1. evs \in Seq(PolledEvent) /\ ring \in Seq(Bufs) /\ free_pkt_bufs \in Seq(Bufs)
  BY DEF TypeOK
<1>2. \A i \in 1 .. Len(evs) : evs[i].rq_id \in Bufs
  <2>1. \A i \in 1 .. Len(evs) : evs[i] \in PolledEvent
    BY <1>1
  <2> QED  BY <2>1 DEF PolledEvent
<1>3. BatchIds \in Seq(Bufs) /\ Len(BatchIds) = Len(evs)
  BY <1>1, <1>2 DEF BatchIds
<1>4. \A i \in 1 .. Len(evs) : BatchIds[i] = evs[i].rq_id
  BY DEF BatchIds
<1> HIDE DEF BatchIds
<1>5. Cycle = BatchIds \o (ring \o free_pkt_bufs)
  BY <1>1, <1>3, JoinedInAnyOrder, Zenon DEF Cycle
<1>6. ring \o free_pkt_bufs \in Seq(Bufs)
      /\ Len(ring \o free_pkt_bufs) = Len(ring) + Len(free_pkt_bufs)
      /\ \A i \in 1 .. Len(ring) : (ring \o free_pkt_bufs)[i] = ring[i]
  BY <1>1
<1>7. Cycle \in Seq(Bufs)
      /\ Len(Cycle) = Len(evs) + Len(ring) + Len(free_pkt_bufs)
  <2>1. Cycle \in Seq(Bufs) /\ Len(Cycle) = Len(BatchIds) + Len(ring \o free_pkt_bufs)
    BY <1>3, <1>5, <1>6, Joined, Zenon
  <2> QED  BY <1>1, <1>3, <1>6, <2>1
<1>8. \A i \in 1 .. Len(evs) : Cycle[i] = evs[i].rq_id
  BY <1>1, <1>3, <1>4, <1>5, <1>6
<1>9. \A i \in 1 .. Len(ring) : Cycle[Len(evs) + i] = ring[i]
  BY <1>1, <1>3, <1>5, <1>6
<1> QED  BY <1>3, <1>5, <1>7, <1>8, <1>9

(* A call of refill_rx_ring moves the first n buffers of the pool to the   *)
(* end of the ring, all accepted and all pushed; it leaves less than a     *)
(* batch in the pool if there was less than two.                           *)
LEMMA RefillEffect ==
  ASSUME TypeOK, BuffersConserved, LevelInv, pc \in {"fill", "refill"},
         refill_rx_ring
  PROVE  \E n \in 0 .. Len(free_pkt_bufs) :
           /\ ring' = ring \o SubSeq(free_pkt_bufs, 1, n)
           /\ free_pkt_bufs' = SubSeq(free_pkt_bufs, n + 1, Len(free_pkt_bufs))
           /\ free_pkt_bufs_n' = free_pkt_bufs_n - n
           /\ posted' = Len(ring) + n
           /\ Len(free_pkt_bufs) < 2 * REFILL_BATCH_SIZE =>
                Len(free_pkt_bufs) - n < REFILL_BATCH_SIZE
<1> DEFINE B == REFILL_BATCH_SIZE
<1>1. ring \in Seq(Bufs) /\ free_pkt_bufs \in Seq(Bufs)
  BY DEF TypeOK
<1>2. free_pkt_bufs_n = Len(free_pkt_bufs)
  BY DEF BuffersConserved, BuffersExist
<1>3. evs = << >> /\ posted = Len(ring)
  BY DEF LevelInv, InitPcs
<1>4. Len(ring) + Len(free_pkt_bufs) = pkt_bufs_n
  <2>1. Len(Cycle) = pkt_bufs_n
    BY DEF BuffersConserved, BuffersExist
  <2>2. Len(evs) = 0
    BY <1>3
  <2> QED  BY <1>1, <2>1, <2>2, CycleShape
<1>5. CASE RefillReturnsFalse
  <2>1. UNCHANGED <<poolVars, ring, posted>>
    BY <1>5 DEF refill_rx_ring
  <2>2. Len(free_pkt_bufs) < B
    BY <1>1, <1>2, <1>4, <1>5, ConstantTypes, RingAssumption
       DEF RefillReturnsFalse, fill_level
  <2>3. ring \o SubSeq(free_pkt_bufs, 1, 0) = ring
    BY <1>1
  <2>4. SubSeq(free_pkt_bufs, 1, Len(free_pkt_bufs)) = free_pkt_bufs
    BY <1>1, Whole, Zenon
  <2> WITNESS 0 \in 0 .. Len(free_pkt_bufs)
  <2> QED  BY <1>1, <1>2, <1>3, <2>1, <2>2, <2>3, <2>4, RingAssumption DEF poolVars
<1>6. CASE ~RefillReturnsFalse
  <2>1. PICK k \in 1 .. pkt_bufs_n :
          /\ \A j \in 1 .. k - 1 : RefillAgain(j)
          /\ ~RefillAgain(k)
          /\ RefillRounds(k)
    BY <1>6 DEF refill_rx_ring
  <2> DEFINE n == B * k
  <2>2. k \in Nat /\ k >= 1 /\ B \in Nat /\ B >= 1 /\ n \in Nat
    BY ConstantTypes, RingAssumption
  <2>3. Len(free_pkt_bufs) >= B
    BY <1>2, <1>6, <1>1, RingAssumption DEF RefillReturnsFalse
  <2>4. n <= Len(free_pkt_bufs)
    <3>1. CASE k = 1
      BY <3>1, <2>2, <2>3
    <3>2. CASE k > 1
      <4>1. RefillAgain(k - 1)
        BY <3>2, <2>1, <2>2
      <4>2. free_pkt_bufs_n - B * (k - 1) >= B
        BY <4>1 DEF RefillAgain
      <4>3. B * (k - 1) = n - B
        BY <2>2
      <4> QED  BY <4>2, <4>3, <1>1, <1>2, <2>2
    <3> QED  BY <3>1, <3>2, <2>2
  <2>5. Len(free_pkt_bufs) < 2 * B => Len(free_pkt_bufs) - n < B
    <3> SUFFICES ASSUME Len(free_pkt_bufs) < 2 * B
                 PROVE  k = 1
      BY <1>1, <2>2
    <3>1. ASSUME k > 1 PROVE FALSE
      <4>1. RefillAgain(1)
        BY <3>1, <2>1, <2>2
      <4> QED  BY <4>1, <1>1, <1>2, <2>2 DEF RefillAgain
    <3> QED  BY <3>1, <2>2
  <2> DEFINE added == ring \o SubSeq(free_pkt_bufs, 1, n)
  <2>6. added \in Seq(Bufs) /\ Len(added) = Len(ring) + n
    BY <1>1, <2>2, <2>4
  <2>7. Len(added) <= RxCapacity
    BY <1>1, <1>4, <2>2, <2>4, <2>6, ConstantTypes, RingAssumption
  <2>8. ring' = added
    BY <2>1, <2>7, Zenon DEF RefillRounds, Accepted
  <2>9. posted' = Len(ring) + n
    <3>1. posted' = Len(added) - ((Len(added) - posted) % PushGranule)
      BY <2>1, <2>8, Zenon DEF RefillRounds, Pushed
    <3>2. Len(added) - posted = n
      BY <1>1, <1>3, <2>2, <2>6
    <3>3. n % PushGranule = 0
      BY <2>2, BatchesArePushed
    <3> HIDE DEF n, added
    <3> QED  BY <3>1, <3>2, <3>3, <2>2, <2>6, <1>1
  <2>10. free_pkt_bufs' = SubSeq(free_pkt_bufs, n + 1, Len(free_pkt_bufs))
         /\ free_pkt_bufs_n' = free_pkt_bufs_n - n
    BY <2>1 DEF RefillRounds
  <2> HIDE DEF n
  <2>11. n \in 0 .. Len(free_pkt_bufs)
    BY <2>2, <2>4, <1>1
  <2> QED  BY <2>5, <2>8, <2>9, <2>10, <2>11, Zenon
<1> QED  BY <1>5, <1>6, Zenon

(* The frames of the three sequences are numbers of frames. *)
LEMMA FrameNumbers ==
  ASSUME TypeOK
  PROVE  /\ \A i \in 1 .. Len(handled) : handled[i] \in Int
         /\ \A i \in 1 .. Len(evs) : evs[i] \in PolledEvent /\ evs[i].frame \in Int
         /\ \A i \in 1 .. Len(evq) : evq[i] \in RxEvent /\ evq[i].frame \in Int
<1>1. \A i \in 1 .. Len(handled) : handled[i] \in 0 .. MaxFrames
  <2>1. handled \in Seq(0 .. MaxFrames)
    BY DEF TypeOK
  <2> QED  BY <2>1, Element, Zenon
<1>2. \A i \in 1 .. Len(evs) : evs[i] \in PolledEvent
  <2>1. evs \in Seq(PolledEvent)
    BY DEF TypeOK
  <2> QED  BY <2>1
<1>3. \A i \in 1 .. Len(evq) : evq[i] \in RxEvent
  <2>1. evq \in Seq(RxEvent)
    BY DEF TypeOK
  <2> QED  BY <2>1
<1>4. \A e \in PolledEvent : e.frame \in Int
  BY BoundAssumption DEF PolledEvent, Frames
<1>5. \A e \in RxEvent : e.frame \in Int
  BY BoundAssumption DEF RxEvent, Frames
<1> QED  BY <1>1, <1>2, <1>3, <1>4, <1>5, BoundAssumption

-----------------------------------------------------------------------------
(* One lemma for each way a step can disturb the invariant. *)

(* The constructor leaves empty pool, ring and queues. *)
LEMMA InitEstablishes == Init => IInv
<1> SUFFICES ASSUME Init PROVE IInv
  OBVIOUS
<1>1. TypeOK
  <2>1. mem \in [Bufs -> 0 .. MaxFrames]
    BY BoundAssumption DEF Init
  <2>2. ring = << >> /\ posted = 0 /\ free_pkt_bufs = << >> /\ evq = << >>
        /\ evs = << >> /\ handled = << >>
    BY DEF Init
  <2>3. posted \in 0 .. Len(ring) /\ Len(evq) <= posted
    BY <2>2
  <2>4. free_pkt_bufs_n = 0 /\ otherEvs = 0 /\ wire = 0 /\ pc = "open"
        /\ registered \in BOOLEAN /\ filtered \in BOOLEAN
    BY Zenon DEF Init
  <2> QED  BY <2>1, <2>2, <2>3, <2>4, BoundAssumption DEF TypeOK, InitPcs
<1>2. LevelInv
  BY DEF Init, LevelInv, InitPcs, LoopPcs
<1> QED
  BY <1>1, <1>2 DEF Init, IInv, BuffersConserved, BuffersExist, FramesIntact,
                    OrderInv, HandledInOrder

(* Steps that leave buffers, events and frames alone. *)
LEMMA QuietSteps ==
  ASSUME IInv,
         \/ OpenVi \/ RegisterMemory \/ AddFilter \/ InitFails \/ RingFilled
         \/ HandleScatter \/ NicDrop \/ NicOtherEvent \/ UNCHANGED vars
  PROVE  IInv'
<1> USE DEF IInv
<1>1. UNCHANGED <<poolVars, ring, posted, evq, evs, mem, handled>>
  BY DEF OpenVi, RegisterMemory, AddFilter, InitFails, RingFilled,
         HandleScatter, NicDrop, NicOtherEvent, vars
<1>2. TypeOK'
  <2>1. /\ pc' \in InitPcs \cup LoopPcs \cup {"aborted"}
        /\ registered' \in BOOLEAN /\ filtered' \in BOOLEAN
    BY Zenon DEF TypeOK, OpenVi, RegisterMemory, AddFilter, InitFails, RingFilled,
           HandleScatter, NicDrop, NicOtherEvent, vars, InitPcs, LoopPcs
  <2>2. wire' \in 0 .. MaxFrames
    BY BoundAssumption DEF TypeOK, OpenVi, RegisterMemory, AddFilter, InitFails,
       RingFilled, HandleScatter, NicDrop, NicOtherEvent, vars
  <2>3. otherEvs' \in 0 .. MaxOther
    BY BoundAssumption DEF TypeOK, OpenVi, RegisterMemory, AddFilter, InitFails,
       RingFilled, HandleScatter, NicDrop, NicOtherEvent, vars
  <2> QED  BY <1>1, <2>1, <2>2, <2>3 DEF TypeOK, poolVars
<1>3. Cycle' = Cycle
  BY <1>1 DEF Cycle, BatchIds, poolVars
<1>4. BuffersConserved'
  BY <1>1, <1>3
     DEF BuffersConserved, BuffersExist, Distinct, OpenVi, RegisterMemory, AddFilter,
         InitFails, RingFilled, HandleScatter, NicDrop, NicOtherEvent, vars, poolVars
<1>5. FramesIntact'
  BY <1>1 DEF FramesIntact
<1>6. LevelInv'
  <2>1. CASE RingFilled
    <3>1. Len(ring) + Len(free_pkt_bufs) = pkt_bufs_n
      <4>1. Len(evs) = 0
        BY <2>1 DEF RingFilled, LevelInv, InitPcs
      <4> QED  BY <4>1, <2>1, CycleShape
                  DEF RingFilled, BuffersConserved, BuffersExist, TypeOK
    <3>2. Len(free_pkt_bufs) < REFILL_BATCH_SIZE
      BY <3>1, <2>1, ConstantTypes, RingAssumption DEF RingFilled, fill_level, TypeOK
    <3> QED  BY <1>1, <3>2, <2>1 DEF RingFilled, LevelInv, InitPcs, LoopPcs, poolVars
  <2>2. CASE OpenVi \/ RegisterMemory \/ InitFails
    BY <1>1, <2>2
       DEF LevelInv, OpenVi, RegisterMemory, InitFails, InitPcs, LoopPcs, poolVars
  <2>3. CASE AddFilter
    <3>1. Len(evs) + Len(free_pkt_bufs) < REFILL_BATCH_SIZE + EV_POLL_BATCH_SIZE
      BY <2>3, RingAssumption, BatchAssumption DEF AddFilter, LevelInv, TypeOK, InitPcs
    <3> QED  BY <1>1, <2>3, <3>1 DEF AddFilter, LevelInv, InitPcs, LoopPcs, poolVars
  <2>4. CASE HandleScatter \/ NicDrop \/ NicOtherEvent \/ UNCHANGED vars
    <3>1. CASE HandleScatter
      BY <1>1, <3>1 DEF LevelInv, HandleScatter, InitPcs, LoopPcs, poolVars
    <3>2. CASE NicDrop
      BY <1>1, <3>2 DEF LevelInv, NicDrop, InitPcs, LoopPcs, poolVars
    <3>3. CASE NicOtherEvent
      BY <1>1, <3>3 DEF LevelInv, NicOtherEvent, InitPcs, LoopPcs, poolVars
    <3>4. CASE UNCHANGED vars
      BY <1>1, <3>4 DEF LevelInv, vars, InitPcs, LoopPcs, poolVars
    <3> QED  BY <2>4, <3>1, <3>2, <3>3, <3>4
  <2> QED  BY <2>1, <2>2, <2>3, <2>4
<1>7. OrderInv'
  <2>1. wire' \in Nat /\ wire \in Nat /\ wire <= wire'
    <3>1. wire' = wire \/ wire' = wire + 1
      BY Zenon DEF OpenVi, RegisterMemory, AddFilter, InitFails,
         RingFilled, HandleScatter, NicDrop, NicOtherEvent, vars
    <3>2. wire \in Nat
      BY BoundAssumption DEF TypeOK
    <3> QED  BY <3>1, <3>2
  <2>2. \A n \in Int : n <= wire => n <= wire'
    BY <2>1
  <2>3. /\ \A i \in 1 .. Len(handled) : handled[i] <= wire'
        /\ \A i \in 1 .. Len(evs) : evs[i].frame <= wire'
        /\ \A i \in 1 .. Len(evq) : evq[i].frame <= wire'
    BY <2>2, FrameNumbers, Zenon DEF OrderInv
  <2> QED  BY <1>1, <2>3 DEF OrderInv, HandledInOrder
<1> QED  BY <1>2, <1>4, <1>5, <1>6, <1>7

(* The loop of init() that puts every buffer on the pool. *)
LEMMA AllocStep ==
  ASSUME IInv, AllocPktBufs
  PROVE  IInv'
<1> USE DEF IInv
<1> DEFINE f == [i \in 1 .. pkt_bufs_n |-> pkt_bufs_n - i]
<1>1. /\ pc = "alloc" /\ pc' = "memreg" /\ free_pkt_bufs' = f
      /\ free_pkt_bufs_n' = pkt_bufs_n
      /\ UNCHANGED <<registered, filtered, ring, posted, evq, otherEvs, evs, mem,
                     wire, handled>>
  BY DEF AllocPktBufs
<1>2. ring = << >> /\ evs = << >> /\ ~filtered
  BY <1>1 DEF LevelInv, InitPcs
<1>3. \A i \in 1 .. pkt_bufs_n : pkt_bufs_n - i \in Bufs
  BY ConstantTypes DEF Bufs
<1>4. f \in Seq(Bufs) /\ Len(f) = pkt_bufs_n
  BY <1>3, ConstantTypes
<1>5. TypeOK'
  BY <1>1, <1>4, ConstantTypes DEF TypeOK, InitPcs
<1>6. Cycle' = f
  <2>1. BatchIds' = << >>
    BY <1>1, <1>2 DEF BatchIds
  <2>2. Cycle' = << >> \o << >> \o f
    BY <1>1, <1>2, <2>1 DEF Cycle
  <2> HIDE DEF f
  <2> QED  BY <1>4, <2>2
<1>7. Distinct(f)
  <2>1. \A i \in 1 .. pkt_bufs_n : f[i] = pkt_bufs_n - i
    OBVIOUS
  <2> HIDE DEF f
  <2> QED  BY <1>4, <2>1, ConstantTypes DEF Distinct
<1>8. BuffersConserved'
  <2> HIDE DEF f
  <2> QED  BY <1>1, <1>4, <1>6, <1>7 DEF BuffersConserved, Distinct
<1>9. FramesIntact' /\ OrderInv'
  BY <1>1 DEF FramesIntact, OrderInv, HandledInOrder
<1>10. LevelInv'
  BY <1>1, <1>2 DEF LevelInv, InitPcs, LoopPcs
<1> QED  BY <1>5, <1>8, <1>9, <1>10

(* refill_rx_ring, called by init() and by the event loop. *)
LEMMA RefillSteps ==
  ASSUME IInv, FillRing \/ Refill
  PROVE  IInv'
<1> USE DEF IInv
<1>1. /\ pc \in {"fill", "refill"} /\ refill_rx_ring
      /\ UNCHANGED <<registered, filtered, evq, otherEvs, evs, mem, wire, handled>>
      /\ (pc = "fill" /\ pc' = "fill") \/ (pc = "refill" /\ pc' = "poll")
  BY DEF FillRing, Refill
<1>2. PICK n \in 0 .. Len(free_pkt_bufs) :
        /\ ring' = ring \o SubSeq(free_pkt_bufs, 1, n)
        /\ free_pkt_bufs' = SubSeq(free_pkt_bufs, n + 1, Len(free_pkt_bufs))
        /\ free_pkt_bufs_n' = free_pkt_bufs_n - n
        /\ posted' = Len(ring) + n
        /\ Len(free_pkt_bufs) < 2 * REFILL_BATCH_SIZE =>
             Len(free_pkt_bufs) - n < REFILL_BATCH_SIZE
  BY <1>1, RefillEffect, Zenon
<1> DEFINE new  == SubSeq(free_pkt_bufs, 1, n)
           left == SubSeq(free_pkt_bufs, n + 1, Len(free_pkt_bufs))
<1>3. ring \in Seq(Bufs) /\ free_pkt_bufs \in Seq(Bufs)
  BY DEF TypeOK
<1>4. /\ new \in Seq(Bufs) /\ Len(new) = n
      /\ left \in Seq(Bufs) /\ Len(left) = Len(free_pkt_bufs) - n
  BY <1>3
<1>5. new \o left = free_pkt_bufs
  BY <1>3, SplitJoin, Zenon
<1>6. ring' = ring \o new /\ free_pkt_bufs' = left
  BY <1>2
<1> HIDE DEF new, left
<1>7. /\ ring' \in Seq(Bufs) /\ Len(ring') = Len(ring) + n
      /\ \A i \in 1 .. Len(ring) : ring'[i] = ring[i]
  <2>1. /\ ring' \in Seq(Bufs) /\ Len(ring') = Len(ring) + Len(new)
        /\ \A i \in 1 .. Len(ring) + Len(new) :
             ring'[i] = IF i <= Len(ring) THEN ring[i] ELSE new[i - Len(ring)]
    BY <1>3, <1>4, <1>6, Joined, Zenon
  <2> QED  BY <2>1, <1>3, <1>4
<1>8. free_pkt_bufs_n = Len(free_pkt_bufs)
  BY <1>1 DEF BuffersConserved, BuffersExist
<1>9. free_pkt_bufs_n' = Len(free_pkt_bufs') /\ free_pkt_bufs_n' \in Nat
  BY <1>2, <1>3, <1>4, <1>6, <1>8
<1>10. posted = Len(ring) /\ evs = << >> /\ registered
  BY <1>1 DEF LevelInv, InitPcs, LoopPcs
<1>11. TypeOK'
  <2>1. posted' \in 0 .. Len(ring') /\ Len(evq') <= posted'
    <3>1. Len(evq) \in Nat /\ Len(evq) <= Len(ring) /\ Len(ring) \in Nat
      BY <1>3, <1>10 DEF TypeOK
    <3>2. evq' = evq /\ posted' = Len(ring) + n /\ Len(ring') = Len(ring) + n
      BY <1>1, <1>2, <1>7
    <3>3. n \in Nat
      BY <1>2, <1>3
    <3> HIDE DEF IInv
    <3> QED  BY <3>1, <3>2, <3>3
  <2>2. pc' \in InitPcs \cup LoopPcs \cup {"aborted"}
    BY <1>1 DEF InitPcs, LoopPcs
  <2> QED  BY <1>1, <1>4, <1>6, <1>7, <1>9, <2>1, <2>2 DEF TypeOK
<1>12. Cycle' = Cycle
  <2>1. (ring \o new) \o left = ring \o (new \o left)
    <3>1. ring \in Seq(Bufs) /\ new \in Seq(Bufs) /\ left \in Seq(Bufs)
      BY <1>3, <1>4
    <3> HIDE DEF IInv
    <3> QED  BY <3>1, JoinedInAnyOrder, Zenon
  <2>2. Cycle = BatchIds \o (ring \o free_pkt_bufs)
    BY CycleShape
  <2>3. BatchIds' = BatchIds
    BY <1>1 DEF BatchIds
  <2>4. Cycle' = BatchIds' \o (ring' \o free_pkt_bufs')
    <3>1. BatchIds' \in Seq(Bufs) /\ free_pkt_bufs' \in Seq(Bufs)
      BY <2>3, <1>4, <1>6, CycleShape
    <3>2. (BatchIds' \o ring') \o free_pkt_bufs' = BatchIds' \o (ring' \o free_pkt_bufs')
      BY <1>7, <3>1, JoinedInAnyOrder, Zenon
    <3> QED  BY <3>2 DEF Cycle
  <2> QED  BY <1>5, <1>6, <2>1, <2>2, <2>3, <2>4, Zenon
<1>13. BuffersConserved'
  BY <1>1, <1>9, <1>12 DEF BuffersConserved, BuffersExist, Distinct
<1>14. FramesIntact'
  <2>1. \A i \in 1 .. Len(evq) : i \in 1 .. Len(ring)
    BY <1>3 DEF TypeOK
  <2> QED  BY <1>1, <1>7, <2>1 DEF FramesIntact
<1>15. LevelInv'
  <2>1. pc' = "poll" => Len(free_pkt_bufs') < REFILL_BATCH_SIZE
    <3> SUFFICES ASSUME pc = "refill"
                 PROVE  Len(free_pkt_bufs') < REFILL_BATCH_SIZE
      BY <1>1
    <3>1. Len(free_pkt_bufs) < REFILL_BATCH_SIZE + EV_POLL_BATCH_SIZE
      BY <1>3, <1>10 DEF LevelInv
    <3>2. Len(free_pkt_bufs) < 2 * REFILL_BATCH_SIZE
      BY <3>1, <1>3, RingAssumption, BatchAssumption
    <3> QED  BY <3>2, <1>2, <1>4, <1>6
  <2> QED  BY <1>1, <1>2, <1>7, <1>10, <2>1 DEF LevelInv, InitPcs, LoopPcs
<1>16. OrderInv'
  BY <1>1, Zenon DEF OrderInv, HandledInOrder
<1> QED  BY <1>11, <1>13, <1>14, <1>15, <1>16

(* The adapter writes a frame: its buffer is none of those that hold a     *)
(* frame still to be read.                                                 *)
LEMMA NicReceiveStep ==
  ASSUME IInv, NicReceive
  PROVE  IInv'
<1> USE DEF IInv
<1> DEFINE q == Len(evq) + 1
           w == wire + 1
<1>1. /\ filtered /\ pc # "aborted" /\ wire < MaxFrames /\ Len(evq) < posted
      /\ mem' = [mem EXCEPT ![ring[q]] = w]
      /\ wire' = w
      /\ UNCHANGED <<pc, poolVars, registered, filtered, ring, posted, otherEvs,
                     evs, handled>>
  BY DEF NicReceive
<1>2. PICK kind \in RxKinds : evq' = Append(evq, [kind |-> kind, frame |-> w])
  BY DEF NicReceive
<1>3. ring \in Seq(Bufs) /\ evq \in Seq(RxEvent) /\ evs \in Seq(PolledEvent)
      /\ mem \in [Bufs -> 0 .. MaxFrames] /\ wire \in 0 .. MaxFrames
      /\ posted \in 0 .. Len(ring)
  BY DEF TypeOK
<1>4. w \in Frames /\ w \in 0 .. MaxFrames /\ q \in 1 .. Len(ring) /\ w \in Int
  BY <1>1, <1>3, BoundAssumption DEF Frames
<1>5. ring[q] \in Bufs
  BY <1>3, <1>4
<1> DEFINE e == [kind |-> kind, frame |-> w]
<1>6. e \in RxEvent /\ e.frame = w
  BY <1>2, <1>4 DEF RxEvent
<1>7. /\ evq' \in Seq(RxEvent) /\ Len(evq') = q
      /\ \A i \in 1 .. Len(evq) : evq'[i] = evq[i]
      /\ evq'[q] = e
  <2> HIDE DEF e
  <2> QED  BY <1>2, <1>3, <1>6 DEF e
<1>8. BuffersExist
  BY <1>1 DEF BuffersExist, LevelInv, InitPcs
<1>9. Cycle' = Cycle
  BY <1>1 DEF Cycle, BatchIds, poolVars
<1>10. BuffersConserved'
  BY <1>1, <1>9 DEF BuffersConserved, BuffersExist, Distinct, poolVars
<1>11. /\ Cycle[Len(evs) + q] = ring[q]
       /\ Len(Cycle) \in Nat /\ Len(evs) \in Nat
       /\ Len(evs) + Len(ring) <= Len(Cycle)
  <2>1. Len(free_pkt_bufs) \in Nat /\ Len(evs) \in Nat /\ Len(ring) \in Nat
    BY DEF TypeOK
  <2>2. Len(Cycle) = Len(evs) + Len(ring) + Len(free_pkt_bufs)
    BY CycleShape
  <2>3. Cycle[Len(evs) + q] = ring[q]
    BY <1>4, CycleShape, Zenon
  <2> QED  BY <2>1, <2>2, <2>3
<1>q. /\ q \in Nat \ {0} /\ q <= Len(ring) /\ Len(evq) = q - 1
      /\ Len(ring) \in Nat /\ Len(evs) \in Nat /\ Len(Cycle) \in Nat
      /\ Len(evs) + Len(ring) <= Len(Cycle)
  <2>1. Len(ring) \in Nat /\ Len(evq) \in Nat
    BY <1>3
  <2> QED  BY <2>1, <1>4, <1>11
<1>d. \A i, j \in 1 .. Len(Cycle) : Cycle[i] = Cycle[j] => i = j
  BY <1>8 DEF BuffersConserved, Distinct
<1>12. \A i \in 1 .. Len(evs) : evs[i].rq_id # ring[q]
  <2> SUFFICES ASSUME NEW i \in 1 .. Len(evs)
               PROVE  evs[i].rq_id # ring[q]
    OBVIOUS
  <2>1. Cycle[i] = evs[i].rq_id
    BY CycleShape
  <2>2. i \in 1 .. Len(Cycle) /\ Len(evs) + q \in 1 .. Len(Cycle) /\ i # Len(evs) + q
    <3> HIDE DEF IInv, q
    <3> QED  BY <1>q
  <2> HIDE DEF IInv, q
  <2> QED  BY <1>d, <1>11, <2>1, <2>2
<1>13. \A i \in 1 .. Len(evq) : i \in 1 .. Len(ring) /\ ring[i] # ring[q]
  <2> SUFFICES ASSUME NEW i \in 1 .. Len(evq)
               PROVE  i \in 1 .. Len(ring) /\ ring[i] # ring[q]
    OBVIOUS
  <2>1. i \in 1 .. Len(ring) /\ i # q
    BY <1>3, <1>4
  <2>2. Cycle[Len(evs) + i] = ring[i]
    BY <2>1, CycleShape
  <2>3. /\ Len(evs) + i \in 1 .. Len(Cycle) /\ Len(evs) + q \in 1 .. Len(Cycle)
        /\ Len(evs) + i # Len(evs) + q
    <3> HIDE DEF IInv, q
    <3> QED  BY <1>q, <2>1
  <2> HIDE DEF IInv, q
  <2> QED  BY <1>d, <1>11, <2>1, <2>2, <2>3, Zenon
<1>14. /\ mem' \in [Bufs -> 0 .. MaxFrames] /\ mem'[ring[q]] = w
       /\ \A b \in Bufs : b # ring[q] => mem'[b] = mem[b]
  <2> HIDE DEF w, q
  <2> QED  BY <1>1, <1>3, <1>4, <1>5, Zenon
<1>15. TypeOK'
  <2>1. Len(evq') <= posted'
    BY <1>1, <1>3, <1>7
  <2> QED  BY <1>1, <1>4, <1>7, <1>14, <2>1, Zenon DEF TypeOK, poolVars
<1>16. FramesIntact'
  <2>1. \A i \in 1 .. Len(evs) : evs[i].rq_id \in Bufs
    BY FrameNumbers DEF PolledEvent
  <2>2. \A i \in 1 .. Len(evs) : mem'[evs[i].rq_id] = evs[i].frame
    BY <1>12, <1>14, <2>1 DEF FramesIntact
  <2>3. \A i \in 1 .. Len(evq) : mem'[ring[i]] = evq'[i].frame
    <3>1. \A i \in 1 .. Len(evq) : ring[i] \in Bufs
      BY <1>3, <1>13
    <3> QED  BY <3>1, <1>7, <1>13, <1>14 DEF FramesIntact
  <2>4. mem'[ring[q]] = evq'[q].frame
    BY <1>6, <1>7, <1>14
  <2>5. \A i \in 1 .. Len(evq') : i \in 1 .. Len(evq) \/ i = q
    BY <1>3, <1>7
  <2> QED  BY <1>1, <2>2, <2>3, <2>4, <2>5 DEF FramesIntact
<1>17. LevelInv'
  BY <1>1, Zenon DEF LevelInv, InitPcs, LoopPcs, poolVars
<1>18. OrderInv'
  <2>1. \A n \in Int : n <= wire => n < w /\ n <= w
    BY <1>3
  <2>2. /\ \A i \in 1 .. Len(handled) : handled[i] < w /\ handled[i] <= w
        /\ \A i \in 1 .. Len(evs) : evs[i].frame < w /\ evs[i].frame <= w
        /\ \A i \in 1 .. Len(evq) : evq[i].frame < w /\ evq[i].frame <= w
    BY <2>1, FrameNumbers DEF OrderInv
  <2>3. \A i \in 1 .. Len(evq') : i \in 1 .. Len(evq) \/ i = q
    BY <1>3, <1>7
  <2>4. evq'[q].frame = w /\ w <= w
    <3>1. evq'[q].frame = w
      BY <1>6, <1>7
    <3>2. w <= w
      BY <1>4
    <3> QED  BY <3>1, <3>2, Zenon
  <2>5. \A i \in 1 .. Len(evq) : evq'[i].frame = evq[i].frame
    BY <1>7, Zenon
  <2>6. \A i \in 1 .. Len(evq) : i < q /\ ~(q < i)
    BY <1>3
  <2> HIDE DEF q, w
  <2>7. \A i, j \in 1 .. Len(evq') : i < j => evq'[i].frame < evq'[j].frame
    <3> SUFFICES ASSUME NEW i \in 1 .. Len(evq'), NEW j \in 1 .. Len(evq'), i < j
                 PROVE  evq'[i].frame < evq'[j].frame
      OBVIOUS
    <3>1. i \in 1 .. Len(evq)
      BY <2>3, <2>6
    <3>2. CASE j \in 1 .. Len(evq)
      BY <3>1, <3>2, <2>5 DEF OrderInv
    <3>3. CASE j = q
      BY <3>1, <3>3, <2>2, <2>4, <2>5, Zenon
    <3> QED  BY <3>2, <3>3, <2>3
  <2>8. /\ \A i \in 1 .. Len(handled), j \in 1 .. Len(evq') : handled[i] < evq'[j].frame
        /\ \A i \in 1 .. Len(evs), j \in 1 .. Len(evq') : evs[i].frame < evq'[j].frame
        /\ \A j \in 1 .. Len(evq') : evq'[j].frame <= w
    BY <2>2, <2>3, <2>4, <2>5, Zenon DEF OrderInv
  <2> QED  BY <1>1, <2>2, <2>7, <2>8, Zenon DEF OrderInv, HandledInOrder
<1> QED  BY <1>10, <1>15, <1>16, <1>17, <1>18

(* ef_eventq_poll: the descriptors of the n polled events leave the ring   *)
(* for the batch.                                                          *)
LEMMA PollStep ==
  ASSUME IInv, Poll
  PROVE  IInv'
<1> USE DEF IInv
<1>1. pc = "poll" /\ UNCHANGED <<poolVars, registered, filtered, mem, wire, handled>>
  BY DEF Poll
<1>2. PICK n \in 0 .. Len(evq), o \in 0 .. otherEvs :
        /\ n + o <= EV_POLL_BATCH_SIZE
        /\ evs' = [i \in 1 .. n |-> [kind  |-> evq[i].kind,
                                     frame |-> evq[i].frame,
                                     rq_id |-> ring[i]]]
        /\ evq' = SubSeq(evq, n + 1, Len(evq))
        /\ ring' = SubSeq(ring, n + 1, Len(ring))
        /\ posted' = posted - n
        /\ otherEvs' = otherEvs - o
        /\ pc' = IF n = 0 THEN "refill" ELSE "handle"
  BY Zenon DEF Poll
<1>3. /\ ring \in Seq(Bufs) /\ evq \in Seq(RxEvent) /\ free_pkt_bufs \in Seq(Bufs)
      /\ otherEvs \in 0 .. MaxOther /\ posted \in 0 .. Len(ring) /\ Len(evq) <= posted
  BY DEF TypeOK
<1>4. n \in 0 .. Len(ring) /\ n \in Nat /\ o \in Nat /\ n <= EV_POLL_BATCH_SIZE
  BY <1>2, <1>3, BatchAssumption
<1>5. /\ ring' \in Seq(Bufs) /\ Len(ring') = Len(ring) - n
      /\ \A i \in 1 .. Len(ring') : i + n \in 1 .. Len(ring) /\ ring'[i] = ring[i + n]
  BY <1>2, <1>3, <1>4, Dropped, Zenon
<1>6. /\ evq' \in Seq(RxEvent) /\ Len(evq') = Len(evq) - n
      /\ \A i \in 1 .. Len(evq') : i + n \in 1 .. Len(evq) /\ evq'[i] = evq[i + n]
  BY <1>2, <1>3, <1>4, Dropped, Zenon
<1>7. \A i \in 1 .. n : /\ i \in 1 .. Len(evq) /\ i \in 1 .. Len(ring)
                        /\ evq[i] \in RxEvent /\ ring[i] \in Bufs
                        /\ evs'[i] = [kind  |-> evq[i].kind,
                                      frame |-> evq[i].frame,
                                      rq_id |-> ring[i]]
  BY <1>2, <1>3, <1>4
<1>8. \A i \in 1 .. n : /\ evs'[i] \in PolledEvent
                        /\ evs'[i].frame = evq[i].frame
                        /\ evs'[i].rq_id = ring[i]
  <2>1. \A e \in RxEvent, b \in Bufs :
          [kind |-> e.kind, frame |-> e.frame, rq_id |-> b] \in PolledEvent
    BY DEF RxEvent, PolledEvent
  <2> SUFFICES ASSUME NEW i \in 1 .. n
               PROVE  /\ evs'[i] \in PolledEvent
                      /\ evs'[i].frame = evq[i].frame
                      /\ evs'[i].rq_id = ring[i]
    OBVIOUS
  <2>2. evs'[i] = [kind |-> evq[i].kind, frame |-> evq[i].frame, rq_id |-> ring[i]]
    BY <1>7
  <2>3. evs'[i] \in PolledEvent
    BY <1>7, <2>1, <2>2
  <2>4. evs'[i].frame = evq[i].frame /\ evs'[i].rq_id = ring[i]
    BY <2>2
  <2> QED  BY <2>3, <2>4
<1>9. evs' \in Seq(PolledEvent) /\ Len(evs') = n
  <2>1. \A i \in 1 .. n : [kind  |-> evq[i].kind, frame |-> evq[i].frame,
                            rq_id |-> ring[i]] \in PolledEvent
    BY <1>7, <1>8, Zenon
  <2> QED  BY <1>2, <1>4, <2>1
<1>10. evs = << >> /\ posted = Len(ring) /\ registered /\ Len(free_pkt_bufs) < REFILL_BATCH_SIZE
  BY <1>1 DEF LevelInv, LoopPcs
<1>11. TypeOK'
  <2>1. posted' \in 0 .. Len(ring') /\ Len(evq') <= posted'
    <3>1. posted' = posted - n /\ Len(ring') = Len(ring) - n /\ Len(evq') = Len(evq) - n
      BY <1>2, <1>5, <1>6, Zenon
    <3>2. /\ Len(ring) \in Nat /\ Len(evq) \in Nat /\ n \in 0 .. Len(evq)
          /\ posted \in 0 .. Len(ring) /\ Len(evq) <= posted
      BY <1>3
    <3> QED  BY <3>1, <3>2
  <2>2. otherEvs' \in 0 .. MaxOther
    BY <1>2, <1>3, BoundAssumption
  <2>3. pc' \in InitPcs \cup LoopPcs \cup {"aborted"}
    BY <1>2 DEF LoopPcs
  <2> QED  BY <1>1, <1>5, <1>6, <1>9, <2>1, <2>2, <2>3, Zenon DEF TypeOK, poolVars
<1>12. Cycle' = Cycle
  <2> DEFINE polled == SubSeq(ring, 1, n)
  <2>1. polled \in Seq(Bufs) /\ Len(polled) = n /\ \A i \in 1 .. n : polled[i] = ring[i]
    BY <1>3, <1>4
  <2>2. BatchIds' = [i \in 1 .. n |-> ring[i]]
    BY <1>8, <1>9 DEF BatchIds
  <2>3. polled = [i \in 1 .. n |-> ring[i]]
    BY <1>3, <1>4
  <2>4. polled \o ring' = ring
    BY <1>2, <1>3, <1>4, SplitJoin, Zenon
  <2>5. Cycle' = ring \o free_pkt_bufs
    BY <1>1, <2>2, <2>3, <2>4, Zenon DEF Cycle, poolVars
  <2>6. BatchIds = << >>
    BY <1>10 DEF BatchIds
  <2>7. << >> \o ring = ring
    BY <1>3
  <2> QED  BY <2>5, <2>6, <2>7 DEF Cycle
<1>13. BuffersConserved'
  BY <1>1, <1>2, <1>12 DEF BuffersConserved, BuffersExist, Distinct, poolVars
<1>14. FramesIntact'
  <2>1. \A i \in 1 .. Len(evs') : mem[evs'[i].rq_id] = evs'[i].frame
    BY <1>7, <1>8, <1>9, Zenon DEF FramesIntact
  <2>2. \A i \in 1 .. Len(evq') : mem[ring'[i]] = evq'[i].frame
    <3>1. \A i \in 1 .. Len(evq') : i \in 1 .. Len(ring')
      BY <1>3, <1>5, <1>6, <1>4
    <3> QED  BY <3>1, <1>5, <1>6, Zenon DEF FramesIntact
  <2> QED  BY <1>1, <2>1, <2>2, Zenon DEF FramesIntact
<1>15. LevelInv'
  <2>1. filtered
    BY <1>1 DEF LevelInv, LoopPcs
  <2>2. Len(evs') + Len(free_pkt_bufs') < REFILL_BATCH_SIZE + EV_POLL_BATCH_SIZE
    BY <1>1, <1>3, <1>4, <1>9, <1>10, RingAssumption, BatchAssumption DEF poolVars
  <2>3. n = 0 => evs' = << >>
    BY <1>9
  <2>4. n # 0 => evs' # << >>
    BY <1>4, <1>9
  <2>5. posted' = Len(ring')
    BY <1>2, <1>3, <1>4, <1>5, <1>10, Zenon
  <2> QED  BY <1>1, <1>2, <1>10, <2>1, <2>2, <2>3, <2>4, <2>5, Zenon
              DEF LevelInv, InitPcs, LoopPcs, poolVars
<1>16. OrderInv'
  <2>1. \A i, j \in 1 .. n : i < j => evs'[i].frame < evs'[j].frame
    BY <1>7, <1>8 DEF OrderInv
  <2>2. \A i, j \in 1 .. Len(evq') : i < j => evq'[i].frame < evq'[j].frame
    <3>1. \A i, j \in 1 .. Len(evq') : i < j => i + n < j + n
      BY <1>4
    <3> QED  BY <3>1, <1>6, Zenon DEF OrderInv
  <2>3. \A i \in 1 .. Len(handled), j \in 1 .. n : handled[i] < evs'[j].frame
    BY <1>7, <1>8 DEF OrderInv
  <2>4. \A i \in 1 .. Len(handled), j \in 1 .. Len(evq') : handled[i] < evq'[j].frame
    BY <1>6, Zenon DEF OrderInv
  <2>5. \A i \in 1 .. n, j \in 1 .. Len(evq') : evs'[i].frame < evq'[j].frame
    <3>1. \A i \in 1 .. n, j \in 1 .. Len(evq') : i < j + n
      BY <1>4, <1>6, <1>3
    <3> QED  BY <3>1, <1>6, <1>7, <1>8, Zenon DEF OrderInv
  <2>6. /\ \A i \in 1 .. n : evs'[i].frame <= wire
        /\ \A i \in 1 .. Len(evq') : evq'[i].frame <= wire
    BY <1>6, <1>7, <1>8, Zenon DEF OrderInv
  <2> QED  BY <1>1, <1>9, <2>1, <2>2, <2>3, <2>4, <2>5, <2>6, Zenon DEF OrderInv, HandledInOrder
<1> QED  BY <1>11, <1>13, <1>14, <1>15, <1>16

(* handle_rx and handle_rx_discard: the first buffer of the batch goes to  *)
(* the front of the pool.                                                  *)
LEMMA HandleSteps ==
  ASSUME IInv, HandleRx \/ HandleRxDiscard
  PROVE  IInv'
<1> USE DEF IInv
<1> DEFINE b == Head(evs).rq_id
<1>1. /\ pc = "handle"
      /\ free_pkt_bufs' = <<b>> \o free_pkt_bufs
      /\ free_pkt_bufs_n' = free_pkt_bufs_n + 1
      /\ evs' = Tail(evs)
      /\ pc' = IF Len(evs) = 1 THEN "refill" ELSE "handle"
      /\ handled' = Append(handled, mem[b]) \/ handled' = handled
      /\ UNCHANGED <<registered, filtered, ring, posted, evq, otherEvs, mem, wire>>
  BY DEF HandleRx, HandleRxDiscard, pkt_buf_free, NextEvent
<1>2. /\ evs \in Seq(PolledEvent) /\ ring \in Seq(Bufs) /\ free_pkt_bufs \in Seq(Bufs)
      /\ handled \in Seq(0 .. MaxFrames) /\ mem \in [Bufs -> 0 .. MaxFrames]
  BY DEF TypeOK
<1>3. evs # << >> /\ Len(evs) >= 1
  BY <1>1, <1>2 DEF LevelInv
<1>4. Head(evs) = evs[1] /\ evs[1] \in PolledEvent /\ 1 \in 1 .. Len(evs)
  BY <1>2, <1>3
<1>5. b \in Bufs /\ b = evs[1].rq_id
  BY <1>4 DEF PolledEvent
<1>6. mem[b] = evs[1].frame /\ mem[b] \in 0 .. MaxFrames
  BY <1>2, <1>4, <1>5 DEF FramesIntact
<1>7. /\ evs' \in Seq(PolledEvent) /\ Len(evs') = Len(evs) - 1
      /\ \A i \in 1 .. Len(evs') : i + 1 \in 1 .. Len(evs) /\ evs'[i] = evs[i + 1]
  BY <1>1, <1>2, <1>3
<1> HIDE DEF b
<1>8. /\ free_pkt_bufs' \in Seq(Bufs) /\ Len(free_pkt_bufs') = Len(free_pkt_bufs) + 1
  BY <1>1, <1>2, <1>5
<1>9. /\ handled' \in Seq(0 .. MaxFrames)
      /\ \/ /\ Len(handled') = Len(handled) + 1
            /\ handled'[Len(handled) + 1] = evs[1].frame
            /\ \A i \in 1 .. Len(handled) : handled'[i] = handled[i]
         \/ handled' = handled
  <2>1. CASE handled' = handled
    BY <2>1, <1>2
  <2>2. CASE handled' = Append(handled, mem[b])
    BY <2>2, <1>2, <1>6
  <2> QED  BY <1>1, <2>1, <2>2
<1>10. free_pkt_bufs_n = Len(free_pkt_bufs)
  BY <1>1, Zenon DEF BuffersConserved, BuffersExist
<1>11. TypeOK'
  <2>1. free_pkt_bufs_n' \in Nat
    BY <1>1, <1>2, <1>10
  <2>2. pc' \in InitPcs \cup LoopPcs \cup {"aborted"}
    BY <1>1 DEF LoopPcs
  <2> QED  BY <1>1, <1>7, <1>8, <1>9, <2>1, <2>2 DEF TypeOK
<1>12. Distinct(Cycle') /\ Len(Cycle') = Len(Cycle)
  <2> DEFINE s == BatchIds' \o ring
  <2>1. BatchIds' \in Seq(Bufs) /\ Len(BatchIds') = Len(evs) - 1
        /\ \A i \in 1 .. Len(evs) - 1 : BatchIds'[i] = evs[i + 1].rq_id
    <3>1. \A i \in 1 .. Len(evs') : evs'[i].rq_id \in Bufs
      <4>1. \A i \in 1 .. Len(evs') : evs'[i] \in PolledEvent
        BY <1>7
      <4> QED  BY <4>1 DEF PolledEvent
    <3>2. BatchIds' = [i \in 1 .. Len(evs') |-> evs'[i].rq_id]
      BY DEF BatchIds
    <3>3. Len(evs') \in Nat
      BY <1>7
    <3>4. BatchIds' \in Seq(Bufs) /\ Len(BatchIds') = Len(evs')
      BY <3>1, <3>2, <3>3
    <3> QED  BY <3>2, <3>4, <1>7
  <2>2. <<b>> \in Seq(Bufs) /\ Len(<<b>>) = 1 /\ <<b>>[1] = b
    BY <1>5
  <2>3. BatchIds = <<b>> \o BatchIds'
    <3>1. BatchIds \in Seq(Bufs) /\ Len(BatchIds) = Len(evs)
      BY CycleShape
    <3>2. \A i \in 1 .. Len(evs) : BatchIds[i] = evs[i].rq_id
      BY DEF BatchIds
    <3>3. /\ <<b>> \o BatchIds' \in Seq(Bufs)
          /\ Len(<<b>> \o BatchIds') = Len(evs)
          /\ \A i \in 1 .. Len(evs) :
               (<<b>> \o BatchIds')[i] = IF i <= 1 THEN <<b>>[i] ELSE BatchIds'[i - 1]
      <4>1. /\ <<b>> \o BatchIds' \in Seq(Bufs)
            /\ Len(<<b>> \o BatchIds') = 1 + Len(BatchIds')
            /\ \A i \in 1 .. 1 + Len(BatchIds') :
                 (<<b>> \o BatchIds')[i] = IF i <= 1 THEN <<b>>[i] ELSE BatchIds'[i - 1]
        BY <2>1, <2>2, Joined
      <4>2. 1 + Len(BatchIds') = Len(evs)
        BY <2>1, <1>2, <1>3
      <4> QED  BY <4>1, <4>2
    <3>4. \A i \in 1 .. Len(evs) : (<<b>> \o BatchIds')[i] = BatchIds[i]
      <4> SUFFICES ASSUME NEW i \in 1 .. Len(evs)
                   PROVE  (<<b>> \o BatchIds')[i] = BatchIds[i]
        BY Zenon
      <4>1. CASE i = 1
        BY <4>1, <3>2, <3>3, <2>2, <1>5, <1>4
      <4>2. CASE i > 1
        <5>1. i - 1 \in 1 .. Len(evs) - 1 /\ (i - 1) + 1 = i
          BY <4>2, <1>2
        <5>2. BatchIds'[i - 1] = evs[i].rq_id
          BY <5>1, <2>1
        <5>3. (<<b>> \o BatchIds')[i] = BatchIds'[i - 1]
          BY <4>2, <3>3, <1>2
        <5> QED  BY <5>2, <5>3, <3>2, Zenon
      <4>3. i = 1 \/ i > 1
        OBVIOUS
      <4> QED  BY <4>1, <4>2, <4>3, Zenon
    <3> QED  BY <3>1, <3>3, <3>4, SameElements
  <2>4. s \in Seq(Bufs) /\ Len(s) = Len(evs) - 1 + Len(ring)
    BY <2>1, <1>2, Joined, Zenon
  <2>5. Cycle = <<b>> \o (s \o free_pkt_bufs)
    <3>1. (<<b>> \o BatchIds') \o ring = <<b>> \o s
      BY <2>1, <2>2, <1>2, JoinedInAnyOrder, Zenon
    <3> HIDE DEF s
    <3>2. (<<b>> \o s) \o free_pkt_bufs = <<b>> \o (s \o free_pkt_bufs)
      <4>1. <<b>> \in Seq(Bufs) /\ s \in Seq(Bufs) /\ free_pkt_bufs \in Seq(Bufs)
        BY <2>2, <2>4, <1>2
      <4> QED  BY <4>1, JoinedInAnyOrder, Zenon
    <3> QED  BY <2>3, <3>1, <3>2, Zenon DEF Cycle
  <2>6. Cycle' = s \o (<<b>> \o free_pkt_bufs)
    BY <1>1 DEF Cycle
  <2>7. Distinct(Cycle)
    BY <1>1 DEF BuffersConserved, BuffersExist
  <2> HIDE DEF s
  <2>8. Distinct(Cycle')
    BY <2>4, <2>5, <2>6, <2>7, <1>2, <1>5, RotateDistinct, Zenon
  <2>9. Len(Cycle') = Len(Cycle)
    <3>1. Len(<<b>> \o free_pkt_bufs) = Len(free_pkt_bufs) + 1
          /\ <<b>> \o free_pkt_bufs \in Seq(Bufs)
      BY <1>1, <1>8
    <3>2. Len(Cycle') = Len(s) + Len(<<b>> \o free_pkt_bufs)
      BY <2>4, <2>6, <3>1, Joined, Zenon
    <3>3. Len(Cycle) = Len(evs) + Len(ring) + Len(free_pkt_bufs)
      BY CycleShape
    <3> QED  BY <1>2, <2>4, <3>1, <3>2, <3>3
  <2> QED  BY <2>8, <2>9
<1>13. BuffersConserved'
  <2>1. Len(Cycle) = pkt_bufs_n
    BY <1>1 DEF BuffersConserved, BuffersExist
  <2>2. free_pkt_bufs_n' = Len(free_pkt_bufs')
    BY <1>1, <1>8, <1>10, Zenon
  <2> QED  BY <1>12, <2>1, <2>2 DEF BuffersConserved, Distinct
<1>14. FramesIntact'
  BY <1>1, <1>7, Zenon DEF FramesIntact
<1>15. LevelInv'
  <2>1. Len(evs') + Len(free_pkt_bufs') = Len(evs) + Len(free_pkt_bufs)
    BY <1>2, <1>7, <1>8
  <2>2. Len(evs) = 1 => evs' = << >>
    BY <1>7
  <2>3. Len(evs) # 1 => evs' # << >>
    <3>1. Len(evs) # 1 => Len(evs') # 0
      BY <1>2, <1>3, <1>7
    <3> QED  BY <3>1
  <2> QED  BY <1>1, <2>1, <2>2, <2>3 DEF LevelInv, InitPcs, LoopPcs
<1>16. OrderInv'
  <2> DEFINE h == Len(handled) + 1
  <2>1. \A i \in 1 .. Len(handled') :
          \/ i \in 1 .. Len(handled) /\ handled'[i] = handled[i]
          \/ i = h /\ handled'[i] = evs[1].frame
    <3>1. Len(handled) \in Nat
      BY <1>2
    <3>2. CASE handled' = handled
      BY <3>2
    <3>3. CASE /\ Len(handled') = h /\ handled'[h] = evs[1].frame
               /\ \A i \in 1 .. Len(handled) : handled'[i] = handled[i]
      <4>1. \A i \in 1 .. h : i \in 1 .. Len(handled) \/ i = h
        BY <3>1
      <4> QED  BY <3>3, <4>1, Zenon
    <3> QED  BY <1>9, <3>2, <3>3
  <2>2. \A i \in 1 .. Len(handled) : i < h /\ ~(h < i)
    BY <1>2
  <2>3. ~(h < h)
    BY <1>2
  <2>4. \A i \in 1 .. Len(evs') : 1 < i + 1
    BY <1>7
  <2> HIDE DEF h
  <2>5. HandledInOrder'
    BY <2>1, <2>2, <2>3, <1>4, Zenon DEF OrderInv, HandledInOrder
  <2>6. \A i, j \in 1 .. Len(evs') : i < j => evs'[i].frame < evs'[j].frame
    <3>1. \A i, j \in 1 .. Len(evs') : i < j => i + 1 < j + 1
      BY <1>7
    <3> QED  BY <3>1, <1>7, Zenon DEF OrderInv
  <2>7. \A i \in 1 .. Len(handled'), j \in 1 .. Len(evs') : handled'[i] < evs'[j].frame
    BY <2>1, <2>4, <1>4, <1>7, Zenon DEF OrderInv
  <2>8. \A i \in 1 .. Len(handled'), j \in 1 .. Len(evq) : handled'[i] < evq[j].frame
    BY <2>1, <1>4, Zenon DEF OrderInv
  <2>9. \A i \in 1 .. Len(evs'), j \in 1 .. Len(evq) : evs'[i].frame < evq[j].frame
    BY <1>7, Zenon DEF OrderInv
  <2>10. /\ \A i \in 1 .. Len(handled') : handled'[i] <= wire
         /\ \A i \in 1 .. Len(evs') : evs'[i].frame <= wire
    BY <2>1, <1>4, <1>7, Zenon DEF OrderInv
  <2> QED  BY <1>1, <2>5, <2>6, <2>7, <2>8, <2>9, <2>10, Zenon DEF OrderInv
<1> QED  BY <1>11, <1>13, <1>14, <1>15, <1>16

-----------------------------------------------------------------------------
(* Every step keeps the inductive invariant. *)
LEMMA StepPreserves ==
  ASSUME IInv, [Next]_vars
  PROVE  IInv'
BY QuietSteps, AllocStep, RefillSteps, PollStep, HandleSteps, NicReceiveStep
   DEF Next, Client, Nic, ProcessEnded

(* The inductive invariant: buffers are conserved, unread frames intact,   *)
(* frames in order, and the levels of pool and ring as the thread's steps  *)
(* leave them for one another.                                             *)
THEOREM Inductive == Spec => []IInv
<1>1. Init => IInv
  BY InitEstablishes
<1>2. IInv /\ [Next]_vars => IInv'
  BY StepPreserves
<1> QED  BY <1>1, <1>2, PTL DEF Spec

(* Every variable keeps its type, for every ring size and batch size. *)
THEOREM TypeCorrect == Spec => []TypeOK
<1>1. IInv => TypeOK
  BY DEF IInv
<1> QED  BY <1>1, Inductive, PTL

(* No buffer is leaked or freed twice, and the pool's count is exact. *)
THEOREM Conservation == Spec => []BuffersConserved
<1>1. IInv => BuffersConserved
  BY DEF IInv
<1> QED  BY <1>1, Inductive, PTL

(* The adapter never overwrites a frame handle_pkt has yet to read. *)
THEOREM Intact == Spec => []FramesIntact
<1>1. IInv => FramesIntact
  BY DEF IInv
<1> QED  BY <1>1, Inductive, PTL

(* handle_pkt sees frames in the order of arrival, each at most once. *)
THEOREM InOrder == Spec => []HandledInOrder
<1>1. IInv => HandledInOrder
  BY DEF IInv, OrderInv
<1> QED  BY <1>1, Inductive, PTL

(* When the thread is about to call refill_rx_ring no buffer is in a batch,*)
(* so the ring holds exactly what the pool does not.                       *)
LEMMA RingAndPool ==
  ASSUME IInv, BuffersExist
  PROVE  /\ Len(evs) + Len(ring) + Len(free_pkt_bufs) = pkt_bufs_n
         /\ Len(evs) \in Nat /\ Len(ring) \in Nat /\ Len(free_pkt_bufs) \in Nat
         /\ free_pkt_bufs_n = Len(free_pkt_bufs)
<1>1. Len(Cycle) = pkt_bufs_n /\ free_pkt_bufs_n = Len(free_pkt_bufs)
  BY DEF IInv, BuffersConserved
<1>2. Len(Cycle) = Len(evs) + Len(ring) + Len(free_pkt_bufs)
  BY CycleShape DEF IInv
<1>3. Len(evs) \in Nat /\ Len(ring) \in Nat /\ Len(free_pkt_bufs) \in Nat
  BY DEF IInv, TypeOK
<1> QED  BY <1>1, <1>2, <1>3

(* The ring holds what neither the pool nor the batch does, and LevelInv   *)
(* bounds those two.                                                       *)
LEMMA RingLevel == IInv => RingStaysFull
<1> SUFFICES ASSUME IInv PROVE RingStaysFull
  OBVIOUS
<1>1. ASSUME pc \in LoopPcs
      PROVE  fill_level > pkt_bufs_n - REFILL_BATCH_SIZE - EV_POLL_BATCH_SIZE
  <2>1. Len(evs) + Len(free_pkt_bufs) < REFILL_BATCH_SIZE + EV_POLL_BATCH_SIZE
    <3>1. CASE pc = "poll"
      <4>1. Len(evs) = 0 /\ Len(free_pkt_bufs) < REFILL_BATCH_SIZE
        BY <3>1 DEF IInv, LevelInv
      <4> QED  BY <4>1, RingAndPool, <3>1, RingAssumption, BatchAssumption DEF BuffersExist
    <3>2. CASE pc \in {"refill", "handle"}
      BY <3>2 DEF IInv, LevelInv
    <3> QED  BY <1>1, <3>1, <3>2 DEF LoopPcs
  <2>2. BuffersExist
    BY <1>1 DEF LoopPcs, BuffersExist
  <2> QED  BY <2>1, <2>2, RingAndPool, RingAssumption, BatchAssumption DEF fill_level
<1> QED  BY <1>1 DEF RingStaysFull, IInv, LevelInv, fill_level

(* The ring is never left short of descriptors. *)
THEOREM RingFull == Spec => []RingStaysFull
BY RingLevel, Inductive, PTL

(* The two early-return tests of refill_rx_ring are equivalent. *)
THEOREM RefillTests == Spec => []RefillTestsAgree
<1>1. IInv => RefillTestsAgree
  <2> SUFFICES ASSUME IInv, pc \in {"fill", "refill"}
               PROVE  fill_level > refill_level <=> free_pkt_bufs_n < REFILL_BATCH_SIZE
    BY DEF RefillTestsAgree
  <2>1. Len(evs) = 0
    BY DEF IInv, LevelInv, InitPcs
  <2> QED  BY <2>1, RingAndPool, ConstantTypes, RingAssumption
              DEF BuffersExist, fill_level
<1> QED  BY <1>1, Inductive, PTL

(* A frame is lost only when nearly the whole ring waits to be read. *)
THEOREM Drops == Spec => DropsOnlyUnderBacklog
<1> DEFINE low == pkt_bufs_n - REFILL_BATCH_SIZE - EV_POLL_BATCH_SIZE
<1>1. IInv /\ [Next]_vars => [NicDrop => Len(evq) > low]_vars
  <2> SUFFICES ASSUME IInv, NicDrop PROVE Len(evq) > low
    OBVIOUS
  <2>1. pc \in LoopPcs /\ Len(evq) = posted
    BY DEF NicDrop, IInv, TypeOK, LevelInv
  <2> QED  BY <2>1, RingLevel DEF RingStaysFull
<1> QED  BY <1>1, Inductive, PTL DEF Spec, DropsOnlyUnderBacklog

-----------------------------------------------------------------------------
(* The client as a whole *)

Typed == FeedTyped /\ lines \in Seq(LineRecord) /\ wire = Len(frames)

(* What handle_pkt remembers: the last frame printed, one of those handled.*)
Remembers ==
  /\ lines # << >> => /\ Sub!LastFrame \in 1 .. Len(frames)
                      /\ \E i \in 1 .. Len(handled) : handled[i] = Sub!LastFrame
  /\ prev_ip_id = Sub!PrevId

(* The inductive invariant: the one of the receive path and these. *)
ClientInv == IInv /\ Typed /\ Remembers

-----------------------------------------------------------------------------
(* What handle_pkt does with a good event: the buffer holds a frame later  *)
(* than the last one printed, which is skipped or printed by the line a    *)
(* Subscriber prints.                                                      *)
LEMMA Handled ==
  ASSUME ClientInv, HandleFrame
  PROVE  LET k == mem[Head(evs).rq_id]
             l == CleanLine(k, frames[k].shape, Gap(prev_ip_id, IpId(frames[k])))
         IN  /\ k \in 1 .. Len(frames) /\ Sub!LastFrame \in 0 .. Len(frames)
             /\ Sub!LastFrame < k
             /\ \/ UNCHANGED clientVars
                \/ /\ Accepts(frames[k].shape)
                   /\ prev_ip_id' = IpId(frames[k])
                   /\ lines' = Append(lines, l) /\ l \in LineRecord
<1> DEFINE k == mem[Head(evs).rq_id]
           w == Gap(prev_ip_id, IpId(frames[k]))
           shape == frames[k].shape
           l == CleanLine(k, shape, w)
<1>1. evs \in Seq(PolledEvent) /\ evs # << >>
  BY DEF ClientInv, IInv, TypeOK, LevelInv, HandleFrame, HandleRx
<1>2. Head(evs) = evs[1] /\ 1 \in 1 .. Len(evs) /\ evs[1] \in PolledEvent
  BY <1>1
<1>3. k = evs[1].frame
  BY <1>2, Zenon DEF ClientInv, IInv, FramesIntact
<1>4. k \in 1 .. MaxFrames /\ k <= wire
  BY <1>2, <1>3 DEF PolledEvent, Frames, ClientInv, IInv, OrderInv
<1>5. k \in 1 .. Len(frames) /\ k \in Nat /\ Len(frames) \in Nat
  BY <1>4, BoundAssumption DEF ClientInv, Typed, FeedTyped
<1>6. Sub!LastFrame \in 0 .. Len(frames) /\ Sub!LastFrame < k
  <2>1. CASE lines = << >>
    BY <2>1, <1>5 DEF Sub!LastFrame
  <2>2. CASE lines # << >>
    <3>1. \A i \in 1 .. Len(handled) : handled[i] < k
      BY <1>2, <1>3, Zenon DEF ClientInv, IInv, OrderInv
    <3> QED  BY <2>2, <3>1, <1>5 DEF ClientInv, Remembers
  <2> QED  BY <2>1, <2>2
<1>7. shape \in Shapes
  BY <1>5, FrameTypes DEF ClientInv, Typed
<1>8. \/ UNCHANGED clientVars
      \/ /\ Accepts(shape)
         /\ prev_ip_id' = IpId(frames[k])
         /\ \E r \in DecodeAndPrint(k, shape, w, output_data, lines) :
              output_data' = r.out /\ lines' = r.lines
  BY Zenon DEF HandleFrame, handle_pkt
<1> HIDE DEF k, shape
<1>9. ASSUME NEW r \in DecodeAndPrint(k, shape, w, output_data, lines)
      PROVE  r.lines = Append(lines, l) /\ l \in LineRecord
  BY <1>5, <1>7, ComparedLine, Zenon
<1> HIDE DEF w, l
<1>10. \/ UNCHANGED clientVars
       \/ /\ Accepts(shape)
          /\ prev_ip_id' = IpId(frames[k])
          /\ lines' = Append(lines, l) /\ l \in LineRecord
  BY <1>8, <1>9, Zenon
<1> QED  BY <1>5, <1>6, <1>10, Zenon DEF k, w, shape, l

(* handle_pkt is called: the frame it was given is the last one handled. *)
LEMMA HandleFrameStep ==
  ASSUME ClientInv, HandleFrame
  PROVE  (Typed /\ Remembers)'
<1> DEFINE k == mem[Head(evs).rq_id]
           l == CleanLine(k, frames[k].shape, Gap(prev_ip_id, IpId(frames[k])))
<1>1. UNCHANGED <<frames, sent, lost, wire>> /\ handled' = Append(handled, k)
  BY DEF HandleFrame, HandleRx, feedVars
<1>2. handled \in Seq(0 .. MaxFrames) /\ lines \in Seq(LineRecord)
  BY DEF ClientInv, Typed, IInv, TypeOK
<1>3. /\ k \in 1 .. Len(frames)
      /\ \/ UNCHANGED clientVars
         \/ /\ prev_ip_id' = IpId(frames[k])
            /\ lines' = Append(lines, l) /\ l \in LineRecord /\ l.frame = k
  BY Handled, Zenon DEF CleanLine
<1> HIDE DEF k, l
<1>4. /\ Len(handled') = Len(handled) + 1 /\ Len(handled) \in Nat
      /\ handled'[Len(handled) + 1] = k
      /\ \A i \in 1 .. Len(handled) : handled'[i] = handled[i] /\ i \in 1 .. Len(handled')
      /\ Len(handled) + 1 \in 1 .. Len(handled')
  BY <1>1, <1>2
<1>5. CASE UNCHANGED clientVars
  <2>1. UNCHANGED <<prev_ip_id, lines>>
    BY <1>5 DEF clientVars
  <2>2. Sub!LastFrame' = Sub!LastFrame /\ Sub!PrevId' = Sub!PrevId
    BY <1>1, <2>1 DEF Sub!LastFrame, Sub!PrevId, Sub!IpId
  <2> QED  BY <1>1, <1>4, <2>1, <2>2 DEF ClientInv, Typed, FeedTyped, Remembers
<1>6. CASE /\ prev_ip_id' = IpId(frames[k])
           /\ lines' = Append(lines, l) /\ l \in LineRecord /\ l.frame = k
  <2>1. lines' \in Seq(LineRecord) /\ lines'[Len(lines')] = l /\ lines' # << >>
    BY <1>2, <1>6, LastLine, Zenon
  <2>2. Sub!LastFrame' = k /\ Sub!PrevId' = IpId(frames[k])
    BY <1>1, <1>6, <2>1 DEF Sub!LastFrame, Sub!PrevId, Sub!IpId, IpId
  <2>3. Typed'
    BY <1>1, <2>1 DEF ClientInv, Typed, FeedTyped
  <2>4. Remembers'
    BY <1>1, <1>3, <1>4, <1>6, <2>2, Zenon DEF Remembers
  <2> QED  BY <2>3, <2>4
<1> QED  BY <1>3, <1>5, <1>6

(* A frame reaches the port: the adapter stores or drops it. *)
LEMMA FrameArrivesStep ==
  ASSUME ClientInv, FrameArrives
  PROVE  (Typed /\ Remembers)'
<1>1. UNCHANGED <<handled, prev_ip_id, lines>> /\ wire' = wire + 1
  BY DEF FrameArrives, clientVars, NicReceive, NicDrop
<1>2. /\ FeedTyped' /\ Len(frames') = Len(frames) + 1 /\ Len(frames) \in Nat
      /\ \A i \in 1 .. Len(frames) : frames'[i] = frames[i]
  BY Arrival DEF ClientInv, Typed, FrameArrives
<1>3. Typed'
  BY <1>1, <1>2 DEF ClientInv, Typed
<1>4. Sub!LastFrame' = Sub!LastFrame
  BY <1>1 DEF Sub!LastFrame
<1>5. lines # << >> => /\ Sub!LastFrame \in 1 .. Len(frames')
                       /\ frames'[Sub!LastFrame] = frames[Sub!LastFrame]
  BY <1>2 DEF ClientInv, Remembers
<1>6. Sub!PrevId' = Sub!PrevId
  BY <1>1, <1>4, <1>5 DEF Sub!PrevId, Sub!IpId
<1> QED  BY <1>1, <1>3, <1>4, <1>5, <1>6, Zenon DEF ClientInv, Remembers

(* A datagram is lost on the way, or the receive path works without        *)
(* calling handle_pkt.                                                     *)
LEMMA QuietClientSteps ==
  ASSUME ClientInv, Upstream \/ OtherSteps \/ UNCHANGED allVars
  PROVE  (Typed /\ Remembers)'
<1>1. UNCHANGED <<handled, wire, prev_ip_id, lines>>
  <2>1. CASE Upstream
    BY <2>1 DEF Upstream, vars, clientVars
  <2>2. CASE OtherSteps
    BY <2>2, Zenon DEF OtherSteps, clientVars, OpenVi, AllocPktBufs, RegisterMemory, FillRing, RingFilled,
                AddFilter, InitFails, Refill, Poll, HandleRxDiscard, HandleScatter, NicOtherEvent,
                ProcessEnded, vars
  <2>3. CASE UNCHANGED allVars
    BY <2>3 DEF allVars, vars, clientVars
  <2> QED  BY <2>1, <2>2, <2>3
<1>2. FeedTyped' /\ frames' = frames
  BY UpstreamLoss DEF ClientInv, Typed, FeedTyped, Upstream, OtherSteps, allVars, feedVars
<1>3. Sub!LastFrame' = Sub!LastFrame /\ Sub!PrevId' = Sub!PrevId
  BY <1>1, <1>2 DEF Sub!LastFrame, Sub!PrevId, Sub!IpId
<1> QED  BY <1>1, <1>2, <1>3 DEF ClientInv, Typed, Remembers

(* A step of the whole client is a step of the receive path. *)
LEMMA RxStep ==
  ASSUME [ClientNext]_allVars
  PROVE  [Next]_vars
<1>1. CASE HandleFrame
  BY <1>1 DEF HandleFrame, Next, Client
<1>2. CASE FrameArrives
  BY <1>2 DEF FrameArrives, Next, Nic
<1>3. CASE Upstream
  BY <1>3 DEF Upstream
<1>4. CASE OtherSteps
  BY <1>4 DEF OtherSteps, Next, Client, Nic
<1>5. CASE UNCHANGED allVars
  BY <1>5 DEF allVars
<1> QED  BY <1>1, <1>2, <1>3, <1>4, <1>5, Zenon DEF ClientNext

-----------------------------------------------------------------------------
(* Every step is a step of a Subscriber or changes nothing it sees. *)
LEMMA StepSimulation ==
  ASSUME ClientInv, [ClientNext]_allVars
  PROVE  [Sub!SubNext]_Sub!subVars
<1>1. CASE OtherSteps \/ UNCHANGED allVars
  BY <1>1 DEF OtherSteps, allVars, feedVars, clientVars, Sub!subVars
<1>2. CASE FrameArrives
  BY <1>2 DEF FrameArrives, clientVars, Sub!SubNext, Sub!Publish, Arrive, Sub!Arrive, IsFeed,
              Sub!IsFeed
<1>3. CASE Upstream
  BY <1>3, Zenon DEF Upstream, clientVars, Sub!SubNext, Sub!Publish, LostUpstream, Sub!LostUpstream
<1>4. CASE HandleFrame
  <2> DEFINE k == mem[Head(evs).rq_id]
             l == CleanLine(k, frames[k].shape, Gap(prev_ip_id, IpId(frames[k])))
  <2>1. UNCHANGED <<frames, sent, lost>>
    BY <1>4 DEF HandleFrame, feedVars
  <2>2. /\ k \in 1 .. Len(frames) /\ Sub!LastFrame \in 0 .. Len(frames) /\ Sub!LastFrame < k
        /\ UNCHANGED clientVars \/ (Accepts(frames[k].shape) /\ lines' = Append(lines, l))
    BY <1>4, Handled, Zenon
  <2>3. CASE UNCHANGED clientVars
    BY <2>1, <2>3 DEF clientVars, Sub!subVars
  <2>4. CASE Accepts(frames[k].shape) /\ lines' = Append(lines, l)
    <3>1. frames[k].shape \in {s \in Traffic : Accepts(s)}
      BY <2>2, <2>4, FrameTypes, Zenon DEF ClientInv, Typed
    <3>2. l = [frame  |-> k,
               kind   |-> frames[k].shape.msg,
               warned |-> TRUE /\ IpId(frames[k]) # (Sub!PrevId + 1) % IpIds,
               pure   |-> TRUE,
               absent |-> {}]
      BY Zenon DEF CleanLine, Gap, ClientInv, Remembers
    <3> HIDE DEF k, l
    <3>3. Sub!Report(k)
      BY <2>4, <3>2 DEF Sub!Report, IpId, Sub!IpId
    <3>4. k \in Sub!LastFrame + 1 .. Len(frames)
      BY <2>2 DEF ClientInv, Typed, FeedTyped
    <3> QED  BY <2>1, <3>1, <3>3, <3>4, Zenon DEF Sub!SubNext, Sub!Process, Sub!feedVars
  <2> QED  BY <2>2, <2>3, <2>4
<1> QED  BY <1>1, <1>2, <1>3, <1>4 DEF ClientNext

(* The whole client keeps the receive path's invariant, and handle_pkt     *)
(* remembers the last frame it printed.                                    *)
THEOREM ClientInductive == ClientSpec => []ClientInv
<1>1. ClientInit => ClientInv
  <2> SUFFICES ASSUME ClientInit PROVE ClientInv
    OBVIOUS
  <2>1. FeedTyped /\ frames = << >> /\ IInv
    BY FeedStarts, InitEstablishes DEF ClientInit
  <2>2. lines = << >> /\ wire = 0 /\ prev_ip_id = 0 /\ Sub!PrevId = 0
    BY DEF ClientInit, Init, Sub!PrevId
  <2> QED  BY <2>1, <2>2 DEF ClientInv, Typed, Remembers
<1>2. ClientInv /\ [ClientNext]_allVars => ClientInv'
  <2> SUFFICES ASSUME ClientInv, [ClientNext]_allVars PROVE ClientInv'
    OBVIOUS
  <2>1. IInv'
    BY RxStep, StepPreserves DEF ClientInv
  <2>2. (Typed /\ Remembers)'
    BY HandleFrameStep, FrameArrivesStep, QuietClientSteps DEF ClientNext
  <2> QED  BY <2>1, <2>2 DEF ClientInv
<1> QED  BY <1>1, <1>2, PTL DEF ClientSpec

(* The EF_VI client is a Subscriber, for every ring and batch size. *)
THEOREM Implements == ClientSpec => ImplementsSubscriber
<1>1. ClientInit => Sub!SubInit
  BY DEF ClientInit, FeedInit, Sub!SubInit, Sub!FeedInit
<1>2. ClientInv /\ [ClientNext]_allVars => [Sub!SubNext]_Sub!subVars
  BY StepSimulation
<1> QED  BY <1>1, <1>2, ClientInductive, PTL DEF ClientSpec, ImplementsSubscriber, Sub!SubSpec
=============================================================================
