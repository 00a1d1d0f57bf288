--------------------------- MODULE RawSocketProofs --------------------------
(***************************************************************************)
(* Proof that the raw-socket client is a Subscriber, for every size of the *)
(* receive buffer, all traffic and every number of IP-IDs.  The argument:  *)
(* the queue holds frames in the order of arrival, all of them later than  *)
(* the last one printed, and prev_ip_id is the IP-ID of that one; so what  *)
(* recv() returns next is a later frame, and its comparison with           *)
(* prev_ip_id is the one a Subscriber makes.                               *)
(***************************************************************************)
EXTENDS RawSocketClient, SubscriberProofs

Typed == TypeOK /\ FeedTyped /\ lines \in Seq(LineRecord)

(* The queue is in order and ahead of what has been printed. *)
QueueAhead ==
  /\ \A i, j \in 1 .. Len(rcvq) : i < j => rcvq[i] < rcvq[j]
  /\ \A i \in 1 .. Len(rcvq) : Sub!LastFrame < rcvq[i]

(* What the program remembers of the last line. *)
Remembers ==
  /\ Sub!LastFrame \in 0 .. Len(frames)
  /\ lines # << >> => Sub!LastFrame # 0
  /\ prev_ip_id = Sub!PrevId

(* Nothing is printed before bind(); what is queued after it is ours. *)
OursSinceBind ==
  /\ ~bound => lines = << >>
  /\ pc = "loop" => bound
  /\ bound => \A i \in 1 .. Len(rcvq) :
                rcvq[i] > boundAt => frames[rcvq[i]].shape.iface = "ours"
  /\ \A i \in 1 .. Len(lines) : lines[i].frame \in 1 .. Len(frames)
  /\ ForeignOnlyBeforeBind

(* The inductive invariant. *)
IInv == Typed /\ QueueAhead /\ Remembers /\ OursSinceBind

-----------------------------------------------------------------------------
(* The steps that neither receive nor print. *)
LEMMA QuietSteps ==
  ASSUME IInv,
         OpenSocket \/ GetFlags \/ SetPromisc \/ SetupFails \/ RecvFails \/ UNCHANGED vars
  PROVE  IInv'
<1>1. UNCHANGED <<rcvq, bound, boundAt, frames, sent, lost, prev_ip_id, output_data, lines>>
  BY DEF OpenSocket, GetFlags, SetPromisc, SetupFails, RecvFails, vars, feedVars, clientVars
<1>2. pc' \in Pcs /\ promisc' \in BOOLEAN /\ ifr_promisc' \in BOOLEAN
  BY Zenon DEF OpenSocket, GetFlags, SetPromisc, SetupFails, RecvFails, vars, IInv, Typed, TypeOK, Pcs
<1>3. pc' = "loop" => pc = "loop"
  BY DEF OpenSocket, GetFlags, SetPromisc, SetupFails, RecvFails, vars
<1>4. Sub!LastFrame' = Sub!LastFrame /\ Sub!PrevId' = Sub!PrevId
  BY <1>1 DEF Sub!LastFrame, Sub!PrevId, Sub!IpId
<1>5. Typed'
  BY <1>1, <1>2 DEF IInv, Typed, TypeOK, FeedTyped
<1>6. QueueAhead' /\ Remembers'
  BY <1>1, <1>4 DEF IInv, QueueAhead, Remembers
<1>7. OursSinceBind'
  BY <1>1, <1>3 DEF IInv, OursSinceBind, ForeignOnlyBeforeBind
<1> QED  BY <1>5, <1>6, <1>7 DEF IInv

(* bind() returns: every frame queued so far counts as old. *)
LEMMA BindStep ==
  ASSUME IInv, Bind
  PROVE  IInv'
<1>1. UNCHANGED <<rcvq, frames, sent, lost, prev_ip_id, output_data, lines>>
  BY DEF Bind, feedVars, clientVars
<1>2. rcvq \in Seq(1 .. Len(frames)) /\ Len(frames) \in Nat
  BY DEF IInv, Typed, TypeOK, FeedTyped
<1>3. Sub!LastFrame' = Sub!LastFrame /\ Sub!PrevId' = Sub!PrevId
  BY <1>1 DEF Sub!LastFrame, Sub!PrevId, Sub!IpId
<1>4. Typed'
  BY <1>1, <1>2 DEF IInv, Typed, TypeOK, FeedTyped, Bind, Pcs
<1>5. QueueAhead' /\ Remembers'
  BY <1>1, <1>3 DEF IInv, QueueAhead, Remembers
<1>6. OursSinceBind'
  <2>1. \A i \in 1 .. Len(rcvq) : ~(rcvq[i] > Len(frames))
    BY <1>2
  <2>2. \A i \in 1 .. Len(lines) : lines[i].frame \in 1 .. Len(frames)
    BY DEF IInv, OursSinceBind
  <2>3. \A n \in 1 .. Len(frames) : n <= Len(frames)
    OBVIOUS
  <2> QED  BY <1>1, <2>1, <2>2, <2>3 DEF Bind, OursSinceBind, ForeignOnlyBeforeBind
<1> QED  BY <1>4, <1>5, <1>6 DEF IInv

(* A frame arrives and is queued, unless the socket does not hear it or    *)
(* has no room.                                                            *)
LEMMA ArriveStep ==
  ASSUME IInv, FrameArrives
  PROVE  IInv'
<1>1. UNCHANGED <<pc, promisc, ifr_promisc, bound, boundAt, prev_ip_id, output_data, lines>>
  BY DEF FrameArrives, clientVars
<1>2. PICK shape \in Traffic :
        /\ Arrive(shape)
        /\ rcvq' = IF Hears(shape) THEN Queued(rcvq, Len(frames) + 1) ELSE rcvq
  BY DEF FrameArrives
<1> DEFINE n == Len(frames)
<1>3. /\ FeedTyped' /\ Len(frames') = n + 1 /\ n \in Nat
      /\ \A i \in 1 .. n : frames'[i] = frames[i]
      /\ frames'[n + 1].shape = shape
  BY <1>2, Arrival DEF IInv, Typed
<1> HIDE DEF n
<1>4. rcvq \in Seq(1 .. n) /\ Len(rcvq) <= RcvBuf
  BY DEF IInv, Typed, TypeOK, n
<1>5. \A i \in 1 .. n : i \in 1 .. n + 1 /\ i < n + 1
  BY <1>3
<1>6. \/ rcvq' = rcvq
      \/ Hears(shape) /\ Len(rcvq) < RcvBuf /\ rcvq' = Append(rcvq, n + 1)
  BY <1>2 DEF Queued, n
<1>7. /\ rcvq' \in Seq(1 .. n + 1) /\ Len(rcvq') <= RcvBuf
      /\ \A i \in 1 .. Len(rcvq') :
           \/ i \in 1 .. Len(rcvq) /\ rcvq'[i] = rcvq[i] /\ rcvq[i] \in 1 .. n
           \/ i = Len(rcvq) + 1 /\ rcvq'[i] = n + 1 /\ Hears(shape)
  <2>1. CASE rcvq' = rcvq
    BY <1>3, <1>4, <2>1, Enqueue
  <2>2. CASE Hears(shape) /\ Len(rcvq) < RcvBuf /\ rcvq' = Append(rcvq, n + 1)
    <3>1. rcvq' \in Seq(1 .. n + 1) /\ Len(rcvq') = Len(rcvq) + 1 /\ Len(rcvq) \in Nat
      BY <1>3, <1>4, <2>2, Enqueue
    <3>2. Len(rcvq') <= RcvBuf
      BY <2>2, <3>1, RcvBufAssumption
    <3> QED  BY <1>3, <1>4, <2>2, <3>1, <3>2, Enqueue
  <2> QED  BY <1>6, <2>1, <2>2
<1>8. Sub!LastFrame' = Sub!LastFrame /\ Sub!LastFrame \in 0 .. n
  BY <1>1 DEF Sub!LastFrame, IInv, Remembers, n
<1>9. Typed'
  <2>1. output_data' \in [Parts -> 0 .. n + 1]
    <3>1. \A i \in 0 .. n : i \in 0 .. n + 1
      BY <1>3
    <3> QED  BY <1>1, <3>1 DEF IInv, Typed, TypeOK, n
  <2>2. boundAt' \in 0 .. n + 1
    BY <1>1, <1>3 DEF IInv, Typed, TypeOK, n
  <2> QED  BY <1>1, <1>3, <1>7, <2>1, <2>2 DEF IInv, Typed, TypeOK
<1>10. QueueAhead'
  <2>1. \A i, j \in 1 .. Len(rcvq') : i < j => rcvq'[i] < rcvq'[j]
    BY <1>4, <1>5, <1>7 DEF IInv, QueueAhead
  <2>2. \A i \in 1 .. Len(rcvq') : Sub!LastFrame < rcvq'[i]
    BY <1>3, <1>7, <1>8 DEF IInv, QueueAhead
  <2> QED  BY <1>8, <2>1, <2>2 DEF QueueAhead
<1>11. Remembers'
  <2>1. lines # << >> => frames'[Sub!LastFrame] = frames[Sub!LastFrame]
    BY <1>3, <1>8 DEF IInv, Remembers
  <2>2. Sub!PrevId' = Sub!PrevId
    BY <1>1, <1>8, <2>1 DEF Sub!PrevId, Sub!IpId
  <2> QED  BY <1>1, <1>3, <1>8, <2>2 DEF IInv, Remembers
<1>12. OursSinceBind'
  <2>1. \A i \in 1 .. Len(lines) : /\ lines[i].frame \in 1 .. n
                                   /\ frames'[lines[i].frame] = frames[lines[i].frame]
    BY <1>3 DEF IInv, OursSinceBind, n
  <2>2. bound => \A i \in 1 .. Len(rcvq') :
          rcvq'[i] > boundAt => frames'[rcvq'[i]].shape.iface = "ours"
    BY <1>3, <1>7, Zenon DEF IInv, OursSinceBind, Hears
  <2> QED  BY <1>1, <1>3, <1>5, <2>1, <2>2 DEF IInv, OursSinceBind, ForeignOnlyBeforeBind
<1> QED  BY <1>9, <1>10, <1>11, <1>12 DEF IInv

(* A datagram is lost on the way. *)
LEMMA UpstreamStep ==
  ASSUME IInv, Upstream
  PROVE  IInv'
<1>1. UNCHANGED <<pc, promisc, ifr_promisc, rcvq, bound, boundAt, prev_ip_id, output_data, lines>>
  BY DEF Upstream, clientVars
<1>2. FeedTyped' /\ frames' = frames
  BY UpstreamLoss DEF IInv, Typed, Upstream
<1>3. Sub!LastFrame' = Sub!LastFrame /\ Sub!PrevId' = Sub!PrevId
  BY <1>1, <1>2 DEF Sub!LastFrame, Sub!PrevId, Sub!IpId
<1>4. Typed'
  BY <1>1, <1>2 DEF IInv, Typed, TypeOK
<1>5. QueueAhead' /\ Remembers'
  BY <1>1, <1>2, <1>3 DEF IInv, QueueAhead, Remembers
<1>6. OursSinceBind'
  BY <1>1, <1>2 DEF IInv, OursSinceBind, ForeignOnlyBeforeBind
<1> QED  BY <1>4, <1>5, <1>6 DEF IInv

-----------------------------------------------------------------------------
(* What recv() and the body of the loop do with the oldest frame queued:   *)
(* it is later than the last one printed, and it is skipped or printed by  *)
(* the line a Subscriber prints.                                           *)
LEMMA Received ==
  ASSUME IInv, Recv
  PROVE  LET k == Head(rcvq)
             w == Gap(prev_ip_id, IpId(frames[k]))
         IN  /\ k \in 1 .. Len(frames) /\ k > Sub!LastFrame
             /\ \/ UNCHANGED clientVars
                \/ /\ Accepts(frames[k].shape)
                   /\ prev_ip_id' = IpId(frames[k])
                   /\ lines' = Append(lines, CleanLine(k, frames[k].shape, w))
                   /\ CleanLine(k, frames[k].shape, w) \in LineRecord
                   /\ output_data' \in [Parts -> {0, k}]
<1> DEFINE k == Head(rcvq)
           w == Gap(prev_ip_id, IpId(frames[k]))
<1>1. rcvq \in Seq(1 .. Len(frames)) /\ rcvq # << >>
  BY DEF IInv, Typed, TypeOK, Recv
<1>2. k = rcvq[1] /\ 1 \in 1 .. Len(rcvq)
  BY <1>1
<1>3. k \in 1 .. Len(frames) /\ k \in Nat
  BY <1>1, <1>2
<1>4. k > Sub!LastFrame
  BY <1>2, <1>3 DEF IInv, QueueAhead, Remembers
<1>5. frames[k].shape \in Shapes
  BY <1>3, FrameTypes DEF IInv, Typed
<1>6. w \in BOOLEAN
  BY DEF Gap
<1>7. \/ UNCHANGED clientVars
      \/ /\ Accepts(frames[k].shape)
         /\ prev_ip_id' = IpId(frames[k])
         /\ \E r \in DecodeAndPrint(k, frames[k].shape, w, output_data, lines) :
              output_data' = r.out /\ lines' = r.lines
  BY DEF Recv
<1> HIDE DEF k, w
<1> USE <1>3, <1>5, <1>6
<1>8. ASSUME NEW r \in DecodeAndPrint(k, frames[k].shape, w, output_data, lines)
      PROVE  /\ r.lines = Append(lines, CleanLine(k, frames[k].shape, w))
             /\ CleanLine(k, frames[k].shape, w) \in LineRecord
             /\ r.out \in [Parts -> {0, k}]
  BY PrintedLine
<1>9. \/ UNCHANGED clientVars
      \/ /\ Accepts(frames[k].shape)
         /\ prev_ip_id' = IpId(frames[k])
         /\ lines' = Append(lines, CleanLine(k, frames[k].shape, w))
         /\ CleanLine(k, frames[k].shape, w) \in LineRecord
         /\ output_data' \in [Parts -> {0, k}]
  BY <1>7, <1>8
<1> QED  BY <1>3, <1>4, <1>9 DEF k, w

(* recv() takes the oldest frame off the queue. *)
LEMMA RecvStep ==
  ASSUME IInv, Recv
  PROVE  IInv'
<1> DEFINE k == Head(rcvq)
           w == Gap(prev_ip_id, IpId(frames[k]))
           l == CleanLine(k, frames[k].shape, w)
<1>1. UNCHANGED <<pc, promisc, ifr_promisc, bound, boundAt, frames, sent, lost>>
  BY DEF Recv, feedVars
<1>2. /\ rcvq \in Seq(1 .. Len(frames)) /\ rcvq # << >> /\ Len(rcvq) <= RcvBuf
      /\ Len(frames) \in Nat /\ lines \in Seq(LineRecord) /\ pc = "loop"
  BY DEF IInv, Typed, TypeOK, FeedTyped, Recv
<1>3. /\ rcvq' = Tail(rcvq) /\ rcvq' \in Seq(1 .. Len(frames))
      /\ Len(rcvq') = Len(rcvq) - 1 /\ Len(rcvq) \in Nat
      /\ \A i \in 1 .. Len(rcvq') : i + 1 \in 1 .. Len(rcvq) /\ rcvq'[i] = rcvq[i + 1]
  BY <1>2 DEF Recv
<1>4. k = rcvq[1] /\ 1 \in 1 .. Len(rcvq)
  BY <1>2
<1>5. /\ k \in 1 .. Len(frames) /\ k > Sub!LastFrame
      /\ \/ UNCHANGED clientVars
         \/ /\ prev_ip_id' = IpId(frames[k])
            /\ lines' = Append(lines, l) /\ l \in LineRecord /\ l.frame = k
            /\ output_data' \in [Parts -> {0, k}]
  BY Received DEF CleanLine
<1> HIDE DEF k, w, l
<1>6. \A i \in 1 .. Len(rcvq') : k < rcvq'[i] /\ Sub!LastFrame < rcvq'[i]
  <2>1. \A i \in 1 .. Len(rcvq') : 1 < i + 1
    BY <1>3
  <2> QED  BY <1>3, <1>4, <2>1 DEF IInv, QueueAhead
<1>7. \A i, j \in 1 .. Len(rcvq') : i < j => rcvq'[i] < rcvq'[j]
  <2>1. \A i, j \in 1 .. Len(rcvq') : i < j => i + 1 < j + 1
    BY <1>3
  <2> QED  BY <1>3, <2>1 DEF IInv, QueueAhead
<1>8. bound /\ \A i \in 1 .. Len(rcvq') :
                  rcvq'[i] > boundAt => frames[rcvq'[i]].shape.iface = "ours"
  BY <1>2, <1>3 DEF IInv, OursSinceBind
<1>9. Len(rcvq') <= RcvBuf
  BY <1>2, <1>3, RcvBufAssumption
<1>10. CASE UNCHANGED clientVars
  <2>1. UNCHANGED <<prev_ip_id, output_data, lines>>
    BY <1>10 DEF clientVars
  <2>2. Sub!LastFrame' = Sub!LastFrame /\ Sub!PrevId' = Sub!PrevId
    BY <1>1, <2>1 DEF Sub!LastFrame, Sub!PrevId, Sub!IpId
  <2>3. Typed'
    BY <1>1, <1>3, <1>9, <2>1 DEF IInv, Typed, TypeOK, FeedTyped
  <2>4. QueueAhead' /\ Remembers'
    BY <1>1, <1>6, <1>7, <2>1, <2>2 DEF IInv, QueueAhead, Remembers
  <2>5. OursSinceBind'
    BY <1>1, <1>8, <2>1 DEF IInv, OursSinceBind, ForeignOnlyBeforeBind
  <2> QED  BY <2>3, <2>4, <2>5 DEF IInv
<1>11. CASE /\ prev_ip_id' = IpId(frames[k])
            /\ lines' = Append(lines, l) /\ l \in LineRecord /\ l.frame = k
            /\ output_data' \in [Parts -> {0, k}]
  <2>1. /\ lines' \in Seq(LineRecord) /\ lines'[Len(lines')] = l /\ lines' # << >>
        /\ \A i \in 1 .. Len(lines') :
             (i \in 1 .. Len(lines) /\ lines'[i] = lines[i]) \/ lines'[i] = l
    BY <1>2, <1>11, LastLine
  <2>2. Sub!LastFrame' = k /\ Sub!PrevId' = IpId(frames[k])
    BY <1>1, <1>11, <2>1, Zenon DEF Sub!LastFrame, Sub!PrevId, Sub!IpId, IpId
  <2>3. Typed'
    <3>1. prev_ip_id' \in 0 .. IpIds - 1
      BY <1>5, <1>11, FrameTypes DEF IInv, Typed
    <3>2. output_data' \in [Parts -> 0 .. Len(frames)]
      <4>1. 0 \in 0 .. Len(frames) /\ k \in 0 .. Len(frames)
        BY <1>2, <1>5
      <4> QED  BY <1>11, <4>1
    <3> QED  BY <1>1, <1>3, <1>9, <2>1, <3>1, <3>2 DEF IInv, Typed, TypeOK, FeedTyped
  <2>4. QueueAhead'
    BY <1>6, <1>7, <2>2 DEF QueueAhead
  <2>5. Remembers'
    BY <1>1, <1>2, <1>5, <1>11, <2>2 DEF Remembers
  <2>6. OursSinceBind'
    <3>1. \A s \in Shapes : s.iface = "ours" \/ s.iface = "other"
      BY DEF Shapes
    <3>2. frames[k].shape.iface = "other" => k <= boundAt
      <4>1. k > boundAt => frames[k].shape.iface = "ours"
        BY <1>4, <1>8 DEF IInv, OursSinceBind
      <4>2. boundAt \in Nat /\ k \in Nat
        BY <1>5 DEF IInv, Typed, TypeOK
      <4> QED  BY <4>1, <4>2
    <3>3. \A i \in 1 .. Len(lines') : lines'[i].frame \in 1 .. Len(frames)
      BY <1>5, <1>11, <2>1 DEF IInv, OursSinceBind
    <3>4. \A i \in 1 .. Len(lines') :
            frames[lines'[i].frame].shape.iface = "other" => lines'[i].frame <= boundAt
      BY <1>11, <2>1, <3>2 DEF IInv, OursSinceBind, ForeignOnlyBeforeBind
    <3> QED  BY <1>1, <1>8, <3>3, <3>4 DEF OursSinceBind, ForeignOnlyBeforeBind
  <2> QED  BY <2>3, <2>4, <2>5, <2>6 DEF IInv
<1> QED  BY <1>5, <1>10, <1>11

-----------------------------------------------------------------------------
(* Every step is a step of a Subscriber or changes nothing it sees.        *)
LEMMA StepSimulation ==
  ASSUME IInv, [Next]_vars
  PROVE  [Sub!SubNext]_Sub!subVars
<1>1. CASE \/ OpenSocket \/ GetFlags \/ SetPromisc \/ Bind \/ SetupFails \/ RecvFails
           \/ UNCHANGED vars
  BY <1>1 DEF OpenSocket, GetFlags, SetPromisc, Bind, SetupFails, RecvFails, vars, feedVars,
              clientVars, Sub!subVars
<1>2. CASE FrameArrives
  BY <1>2 DEF FrameArrives, clientVars, Sub!SubNext, Sub!Publish, Arrive, Sub!Arrive, IsFeed,
              Sub!IsFeed
<1>3. CASE Upstream
  BY <1>3 DEF Upstream, clientVars, Sub!SubNext, Sub!Publish, LostUpstream, Sub!LostUpstream
<1>4. CASE Recv
  <2> DEFINE k == Head(rcvq)
             w == Gap(prev_ip_id, IpId(frames[k]))
             l == CleanLine(k, frames[k].shape, w)
  <2>1. UNCHANGED <<frames, sent, lost>>
    BY <1>4 DEF Recv, feedVars
  <2>2. /\ k \in 1 .. Len(frames) /\ k > Sub!LastFrame
        /\ UNCHANGED clientVars \/ (Accepts(frames[k].shape) /\ lines' = Append(lines, l))
    BY <1>4, Received
  <2>3. CASE UNCHANGED clientVars
    BY <2>1, <2>3 DEF clientVars, Sub!subVars
  <2>4. CASE Accepts(frames[k].shape) /\ lines' = Append(lines, l)
    <3>1. frames[k].shape \in {s \in Traffic : Accepts(s)}
      BY <2>2, <2>4, FrameTypes DEF IInv, Typed
    <3>2. l = [frame  |-> k,
               kind   |-> frames[k].shape.msg,
               warned |-> TRUE /\ IpId(frames[k]) # (Sub!PrevId + 1) % IpIds,
               pure   |-> TRUE,
               absent |-> {}]
      BY DEF CleanLine, Gap, IInv, Remembers
    <3> HIDE DEF k, l
    <3>3. Sub!Report(k)
      BY <2>4, <3>2 DEF Sub!Report, IpId, Sub!IpId
    <3>4. k \in Sub!LastFrame + 1 .. Len(frames)
      BY <2>2 DEF IInv, Typed, FeedTyped, Remembers
    <3> QED  BY <2>1, <3>1, <3>3, <3>4 DEF Sub!SubNext, Sub!Process, Sub!feedVars
  <2> QED  BY <2>2, <2>3, <2>4
<1> QED  BY <1>1, <1>2, <1>3, <1>4 DEF Next, Main, Failures, Kernel, Ended

(* The queue is in order and ahead of the last line, prev_ip_id is the     *)
(* IP-ID of that line's frame, and what is queued after bind() is ours.    *)
THEOREM Inductive == Spec => []IInv
<1>1. Init => IInv
  <2> SUFFICES ASSUME Init PROVE IInv
    OBVIOUS
  <2>1. FeedTyped /\ frames = << >>
    BY FeedStarts DEF Init
  <2>2. lines = << >> /\ rcvq = << >> /\ Sub!LastFrame = 0 /\ Sub!PrevId = 0
    BY DEF Init, Sub!LastFrame, Sub!PrevId
  <2>3. TypeOK
    <3>1. 0 \in 0 .. IpIds - 1 /\ 0 \in 0 .. Len(frames) /\ 0 <= RcvBuf
      BY <2>1, FeedAssumption, RcvBufAssumption
    <3>2. output_data \in [Parts -> 0 .. Len(frames)]
      BY <3>1 DEF Init
    <3>3. rcvq \in Seq(1 .. Len(frames)) /\ Len(rcvq) = 0
      BY <2>2
    <3> QED  BY <3>1, <3>2, <3>3, Zenon DEF Init, TypeOK, Pcs
  <2>4. QueueAhead /\ Remembers /\ OursSinceBind
    BY <2>1, <2>2 DEF Init, QueueAhead, Remembers, OursSinceBind, ForeignOnlyBeforeBind
  <2> QED  BY <2>1, <2>2, <2>3, <2>4 DEF IInv, Typed
<1>2. IInv /\ [Next]_vars => IInv'
  BY QuietSteps, BindStep, ArriveStep, UpstreamStep, RecvStep
     DEF Next, Main, Failures, Kernel, Ended
<1> QED  BY <1>1, <1>2, PTL DEF Spec

(* Every variable keeps its type, and the queue its bound. *)
THEOREM TypeCorrect == Spec => []TypeOK
<1>1. IInv => TypeOK
  BY DEF IInv, Typed
<1> QED  BY <1>1, Inductive, PTL

(* A frame of another interface is printed only if it was queued before    *)
(* bind() returned.                                                        *)
THEOREM Foreign == Spec => []ForeignOnlyBeforeBind
<1>1. IInv => ForeignOnlyBeforeBind
  BY DEF IInv, OursSinceBind
<1> QED  BY <1>1, Inductive, PTL

(* The raw-socket client is a Subscriber, whatever its buffer holds and    *)
(* however many IP-IDs there are.                                          *)
THEOREM Implements == Spec => ImplementsSubscriber
<1>1. Init => Sub!SubInit
  BY DEF Init, FeedInit, Sub!SubInit, Sub!FeedInit
<1>2. IInv /\ [Next]_vars => [Sub!SubNext]_Sub!subVars
  BY StepSimulation
<1> QED  BY <1>1, <1>2, Inductive, PTL DEF Spec, ImplementsSubscriber, Sub!SubSpec
=============================================================================
