--------------------------- MODULE UdpSocketProofs --------------------------
(***************************************************************************)
(* Proof that the socket client is a Subscriber that does not look at the  *)
(* IP-ID, for every size of the receive buffer.  The argument: the queue   *)
(* holds UDP datagrams only, in the order of arrival, all of them later    *)
(* than the last one printed.                                              *)
(***************************************************************************)
EXTENDS UdpSocketClient, SubscriberProofs

Typed == TypeOK /\ FeedTyped /\ lines \in Seq(LineRecord)

IsDatagram(shape) == shape.udp /\ shape.etype # "other"

(* The queue is in order, ahead of what has been printed, and of UDP. *)
QueueAhead ==
  /\ Sub!LastFrame \in 0 .. Len(frames)
  /\ \A i, j \in 1 .. Len(rcvq) : i < j => rcvq[i] < rcvq[j]
  /\ \A i \in 1 .. Len(rcvq) :
       Sub!LastFrame < rcvq[i] /\ IsDatagram(frames[rcvq[i]].shape)

(* The inductive invariant. *)
IInv == Typed /\ QueueAhead

-----------------------------------------------------------------------------
(* The steps that neither receive nor print. *)
LEMMA QuietSteps ==
  ASSUME IInv,
         OpenSocket \/ Bind \/ JoinGroup \/ SetupFails \/ RecvFails \/ UNCHANGED vars
  PROVE  IInv'
<1>1. UNCHANGED <<rcvq, frames, sent, lost, output_data, lines>>
  BY DEF OpenSocket, Bind, JoinGroup, SetupFails, RecvFails, vars, feedVars, clientVars
<1>2. pc' \in {"socket", "bind", "join", "loop", "ended"}
  BY DEF OpenSocket, Bind, JoinGroup, SetupFails, RecvFails, vars, IInv, Typed, TypeOK
<1>3. Sub!LastFrame' = Sub!LastFrame
  BY <1>1 DEF Sub!LastFrame
<1> QED  BY <1>1, <1>2, <1>3 DEF IInv, Typed, TypeOK, FeedTyped, QueueAhead, IsDatagram

(* A datagram is lost on the way. *)
LEMMA UpstreamStep ==
  ASSUME IInv, Upstream
  PROVE  IInv'
<1>1. UNCHANGED <<pc, rcvq, output_data, lines>>
  BY DEF Upstream, clientVars
<1>2. FeedTyped' /\ frames' = frames
  BY UpstreamLoss DEF IInv, Typed, Upstream
<1>3. Sub!LastFrame' = Sub!LastFrame
  BY <1>1 DEF Sub!LastFrame
<1> QED  BY <1>1, <1>2, <1>3 DEF IInv, Typed, TypeOK, QueueAhead, IsDatagram

(* A frame arrives and its datagram is queued, unless the socket does not  *)
(* hear it or has no room.                                                 *)
LEMMA ArriveStep ==
  ASSUME IInv, FrameArrives
  PROVE  IInv'
<1>1. UNCHANGED <<pc, output_data, lines>>
  BY DEF FrameArrives, clientVars
<1>2. PICK shape \in Traffic :
        /\ Arrive(shape)
        /\ rcvq' = IF Hears(shape) THEN Queued(rcvq, Len(frames) + 1) ELSE rcvq
  BY DEF FrameArrives
<1> DEFINE n == Len(frames)
<1>3. /\ FeedTyped' /\ Len(frames') = n + 1 /\ n \in Nat
      /\ \A i \in 1 .. n : frames'[i] = frames[i]
      /\ frames'[n + 1].shape = shape
  BY <1>2, Arrival DEF IInv, Typed
<1> HIDE DEF n
<1>4. rcvq \in Seq(1 .. n) /\ Len(rcvq) <= RcvBuf
  BY DEF IInv, Typed, TypeOK, n
<1>5. \A i \in 1 .. n : i \in 1 .. n + 1 /\ i < n + 1
  BY <1>3
<1>6. \/ rcvq' = rcvq
      \/ Hears(shape) /\ Len(rcvq) < RcvBuf /\ rcvq' = Append(rcvq, n + 1)
  BY <1>2 DEF Queued, n
<1>7. /\ rcvq' \in Seq(1 .. n + 1) /\ Len(rcvq') <= RcvBuf
      /\ \A i \in 1 .. Len(rcvq') :
           \/ i \in 1 .. Len(rcvq) /\ rcvq'[i] = rcvq[i] /\ rcvq[i] \in 1 .. n
           \/ i = Len(rcvq) + 1 /\ rcvq'[i] = n + 1 /\ Hears(shape)
  <2>1. CASE rcvq' = rcvq
    BY <1>3, <1>4, <2>1, Enqueue
  <2>2. CASE Hears(shape) /\ Len(rcvq) < RcvBuf /\ rcvq' = Append(rcvq, n + 1)
    <3>1. rcvq' \in Seq(1 .. n + 1) /\ Len(rcvq') = Len(rcvq) + 1 /\ Len(rcvq) \in Nat
      BY <1>3, <1>4, <2>2, Enqueue
    <3>2. Len(rcvq') <= RcvBuf
      BY <2>2, <3>1, RcvBufAssumption
    <3> QED  BY <1>3, <1>4, <2>2, <3>1, <3>2, Enqueue
  <2> QED  BY <1>6, <2>1, <2>2
<1>8. Sub!LastFrame' = Sub!LastFrame /\ Sub!LastFrame \in 0 .. n
  BY <1>1 DEF Sub!LastFrame, IInv, QueueAhead, n
<1>9. Typed'
  <2>1. output_data' \in [Parts -> 0 .. n + 1]
    <3>1. \A i \in 0 .. n : i \in 0 .. n + 1
      BY <1>3
    <3> QED  BY <1>1, <3>1 DEF IInv, Typed, TypeOK, n
  <2> QED  BY <1>1, <1>3, <1>7, <2>1 DEF IInv, Typed, TypeOK
<1>10. QueueAhead'
  <2>1. \A i, j \in 1 .. Len(rcvq') : i < j => rcvq'[i] < rcvq'[j]
    BY <1>4, <1>5, <1>7 DEF IInv, QueueAhead
  <2>2. \A i \in 1 .. Len(rcvq') : Sub!LastFrame < rcvq'[i]
    BY <1>3, <1>7, <1>8 DEF IInv, QueueAhead
  <2>3. \A i \in 1 .. Len(rcvq') : IsDatagram(frames'[rcvq'[i]].shape)
    BY <1>3, <1>7, Zenon DEF IInv, QueueAhead, IsDatagram, Hears
  <2>4. Sub!LastFrame' \in 0 .. Len(frames')
    BY <1>3, <1>8
  <2> QED  BY <1>8, <2>1, <2>2, <2>3, <2>4 DEF QueueAhead, IsDatagram
<1> QED  BY <1>9, <1>10 DEF IInv

-----------------------------------------------------------------------------
(* What recvfrom() and the body of the loop do with the oldest datagram:   *)
(* it is later than the last one printed, and it ends the program or is    *)
(* printed by the line a Subscriber prints.                                *)
LEMMA Received ==
  ASSUME IInv, Recv
  PROVE  LET k == Head(rcvq)
             l == CleanLine(k, frames[k].shape, FALSE)
         IN  /\ k \in 1 .. Len(frames) /\ Sub!LastFrame < k /\ IsDatagram(frames[k].shape)
             /\ pc' \in {"loop", "ended"}
             /\ \/ UNCHANGED clientVars
                \/ /\ lines' = Append(lines, l) /\ l \in LineRecord
                   /\ output_data' \in [Parts -> {0, k}]
<1> DEFINE k == Head(rcvq)
           shape == frames[k].shape
           l == CleanLine(k, shape, FALSE)
<1>1. rcvq \in Seq(1 .. Len(frames)) /\ rcvq # << >>
  BY DEF IInv, Typed, TypeOK, Recv
<1>2. k = rcvq[1] /\ 1 \in 1 .. Len(rcvq)
  BY <1>1
<1>3. k \in 1 .. Len(frames) /\ k \in Nat
  BY <1>1, <1>2
<1>4. Sub!LastFrame < k /\ IsDatagram(shape)
  BY <1>2 DEF IInv, QueueAhead
<1>5. shape \in Shapes
  BY <1>3, FrameTypes DEF IInv, Typed
<1>6. /\ pc' \in {"loop", "ended"}
      /\ \/ UNCHANGED clientVars
         \/ \E r \in DecodeAndPrint(k, shape, FALSE, output_data, lines) :
              output_data' = r.out /\ lines' = r.lines
  BY Zenon DEF Recv
<1> HIDE DEF k, shape, l
<1>7. ASSUME NEW r \in DecodeAndPrint(k, shape, FALSE, output_data, lines)
      PROVE  r.lines = Append(lines, l) /\ l \in LineRecord /\ r.out \in [Parts -> {0, k}]
  <2> DEFINE w == FALSE
  <2>1. w \in BOOLEAN
    OBVIOUS
  <2>2. r \in DecodeAndPrint(k, shape, w, output_data, lines) /\ l = CleanLine(k, shape, w)
    BY Zenon DEF l
  <2> HIDE DEF w
  <2>3. /\ r.lines = Append(lines, CleanLine(k, shape, w))
        /\ CleanLine(k, shape, w) \in LineRecord
        /\ r.out \in [Parts -> {0, k}]
    BY <1>3, <1>5, <2>1, <2>2, PrintedLine
  <2> QED  BY <2>2, <2>3, Zenon
<1>8. \/ UNCHANGED clientVars
      \/ /\ lines' = Append(lines, l) /\ l \in LineRecord
         /\ output_data' \in [Parts -> {0, k}]
  BY <1>6, <1>7, Zenon
<1> QED  BY <1>3, <1>4, <1>6, <1>8, Zenon DEF k, shape, l

(* recvfrom() takes the oldest datagram off the queue. *)
LEMMA RecvStep ==
  ASSUME IInv, Recv
  PROVE  IInv'
<1> DEFINE k == Head(rcvq)
           l == CleanLine(k, frames[k].shape, FALSE)
<1>1. UNCHANGED <<frames, sent, lost>>
  BY DEF Recv, feedVars
<1>2. /\ rcvq \in Seq(1 .. Len(frames)) /\ rcvq # << >> /\ Len(rcvq) <= RcvBuf
      /\ Len(frames) \in Nat /\ lines \in Seq(LineRecord)
  BY DEF IInv, Typed, TypeOK, FeedTyped, Recv
<1>3. /\ rcvq' = Tail(rcvq) /\ rcvq' \in Seq(1 .. Len(frames))
      /\ Len(rcvq') = Len(rcvq) - 1 /\ Len(rcvq) \in Nat
      /\ \A i \in 1 .. Len(rcvq') : i + 1 \in 1 .. Len(rcvq) /\ rcvq'[i] = rcvq[i + 1]
  BY <1>2 DEF Recv
<1>4. k = rcvq[1] /\ 1 \in 1 .. Len(rcvq)
  BY <1>2
<1>5. /\ k \in 1 .. Len(frames) /\ pc' \in {"loop", "ended"}
      /\ \/ UNCHANGED clientVars
         \/ /\ lines' = Append(lines, l) /\ l \in LineRecord /\ l.frame = k
            /\ output_data' \in [Parts -> {0, k}]
  BY Received DEF CleanLine
<1> HIDE DEF k, l
<1>6. \A i \in 1 .. Len(rcvq') :
        k < rcvq'[i] /\ Sub!LastFrame < rcvq'[i] /\ IsDatagram(frames[rcvq'[i]].shape)
  <2>1. \A i \in 1 .. Len(rcvq') : 1 < i + 1
    BY <1>3
  <2> QED  BY <1>3, <1>4, <2>1 DEF IInv, QueueAhead
<1>7. \A i, j \in 1 .. Len(rcvq') : i < j => rcvq'[i] < rcvq'[j]
  <2>1. \A i, j \in 1 .. Len(rcvq') : i < j => i + 1 < j + 1
    BY <1>3
  <2> QED  BY <1>3, <2>1 DEF IInv, QueueAhead
<1>8. Len(rcvq') <= RcvBuf
  BY <1>2, <1>3, RcvBufAssumption
<1>9. CASE UNCHANGED clientVars
  <2>1. UNCHANGED <<output_data, lines>>
    BY <1>9 DEF clientVars
  <2>2. Sub!LastFrame' = Sub!LastFrame
    BY <2>1 DEF Sub!LastFrame
  <2>3. Typed'
    BY <1>1, <1>3, <1>5, <1>8, <2>1 DEF IInv, Typed, TypeOK, FeedTyped
  <2>4. QueueAhead'
    BY <1>1, <1>6, <1>7, <2>2 DEF IInv, QueueAhead, IsDatagram
  <2> QED  BY <2>3, <2>4 DEF IInv
<1>10. CASE /\ lines' = Append(lines, l) /\ l \in LineRecord /\ l.frame = k
            /\ output_data' \in [Parts -> {0, k}]
  <2>1. lines' \in Seq(LineRecord) /\ lines'[Len(lines')] = l /\ lines' # << >>
    BY <1>2, <1>10, LastLine, Zenon
  <2>2. Sub!LastFrame' = k
    BY <1>10, <2>1 DEF Sub!LastFrame
  <2>3. 0 \in 0 .. Len(frames) /\ k \in 0 .. Len(frames)
    BY <1>2, <1>5
  <2>4. output_data' \in [Parts -> 0 .. Len(frames)]
    BY <1>10, <2>3
  <2>5. Typed'
    BY <1>1, <1>3, <1>5, <1>8, <2>1, <2>4 DEF IInv, Typed, TypeOK, FeedTyped
  <2>6. QueueAhead'
    BY <1>1, <1>6, <1>7, <2>2, <2>3 DEF QueueAhead, IsDatagram
  <2> QED  BY <2>5, <2>6 DEF IInv
<1> QED  BY <1>5, <1>9, <1>10

-----------------------------------------------------------------------------
(* Every step is a step of a Subscriber or changes nothing it sees. *)
LEMMA StepSimulation ==
  ASSUME IInv, [Next]_vars
  PROVE  [Sub!SubNext]_Sub!subVars
<1>1. CASE OpenSocket \/ Bind \/ JoinGroup \/ SetupFails \/ RecvFails \/ UNCHANGED vars
  BY <1>1 DEF OpenSocket, Bind, JoinGroup, SetupFails, RecvFails, vars, feedVars, clientVars,
              Sub!subVars
<1>2. CASE FrameArrives
  BY <1>2 DEF FrameArrives, clientVars, Sub!SubNext, Sub!Publish, Arrive, Sub!Arrive, IsFeed,
              Sub!IsFeed
<1>3. CASE Upstream
  BY <1>3 DEF Upstream, clientVars, Sub!SubNext, Sub!Publish, LostUpstream, Sub!LostUpstream
<1>4. CASE Recv
  <2> DEFINE k == Head(rcvq)
             l == CleanLine(k, frames[k].shape, FALSE)
  <2>1. UNCHANGED <<frames, sent, lost>>
    BY <1>4 DEF Recv, feedVars
  <2>2. /\ k \in 1 .. Len(frames) /\ Sub!LastFrame < k /\ IsDatagram(frames[k].shape)
        /\ UNCHANGED clientVars \/ lines' = Append(lines, l)
    BY <1>4, Received, Zenon
  <2>3. CASE UNCHANGED clientVars
    BY <2>1, <2>3 DEF clientVars, Sub!subVars
  <2>4. CASE lines' = Append(lines, l)
    <3>1. frames[k].shape \in {s \in Traffic : s.udp /\ s.etype # "other"}
      BY <2>2, FrameTypes DEF IInv, Typed, IsDatagram
    <3>2. l = [frame  |-> k,
               kind   |-> frames[k].shape.msg,
               warned |-> FALSE /\ Sub!IpId(frames[k]) # (Sub!PrevId + 1) % IpIds,
               pure   |-> TRUE,
               absent |-> {}]
      BY Zenon DEF CleanLine
    <3> HIDE DEF k, l
    <3>3. Sub!Report(k)
      BY <2>4, <3>2 DEF Sub!Report
    <3>4. k \in Sub!LastFrame + 1 .. Len(frames)
      BY <2>2 DEF IInv, Typed, FeedTyped, QueueAhead
    <3> QED  BY <2>1, <3>1, <3>3, <3>4 DEF Sub!SubNext, Sub!Process, Sub!feedVars
  <2> QED  BY <2>2, <2>3, <2>4, Zenon
<1> QED  BY <1>1, <1>2, <1>3, <1>4 DEF Next, Main, Failures, Ended

(* The queue is in order, of UDP and ahead of the last line. *)
THEOREM Inductive == Spec => []IInv
<1>1. Init => IInv
  <2> SUFFICES ASSUME Init PROVE IInv
    OBVIOUS
  <2>1. FeedTyped /\ frames = << >>
    BY FeedStarts DEF Init
  <2>2. lines = << >> /\ rcvq = << >> /\ Sub!LastFrame = 0
    BY DEF Init, Sub!LastFrame
  <2>3. 0 \in 0 .. Len(frames) /\ 0 <= RcvBuf
    BY <2>1, RcvBufAssumption
  <2>4. output_data \in [Parts -> 0 .. Len(frames)]
    BY <2>3 DEF Init
  <2>5. rcvq \in Seq(1 .. Len(frames)) /\ Len(rcvq) = 0
    BY <2>2
  <2>6. TypeOK
    BY <2>3, <2>4, <2>5 DEF Init, TypeOK
  <2>7. QueueAhead
    BY <2>2, <2>3 DEF QueueAhead
  <2> QED  BY <2>1, <2>2, <2>6, <2>7 DEF IInv, Typed
<1>2. IInv /\ [Next]_vars => IInv'
  BY QuietSteps, ArriveStep, UpstreamStep, RecvStep DEF Next, Main, Failures, Ended
<1> QED  BY <1>1, <1>2, PTL DEF Spec

(* Every variable keeps its type, and the queue its bound. *)
THEOREM TypeCorrect == Spec => []TypeOK
<1>1. IInv => TypeOK
  BY DEF IInv, Typed
<1> QED  BY <1>1, Inductive, PTL

(* The socket client is a Subscriber of the datagrams to its port, for     *)
(* every size of the receive buffer.                                       *)
THEOREM Implements == Spec => ImplementsSubscriber
<1>1. Init => Sub!SubInit
  BY DEF Init, FeedInit, Sub!SubInit, Sub!FeedInit
<1>2. IInv /\ [Next]_vars => [Sub!SubNext]_Sub!subVars
  BY StepSimulation
<1> QED  BY <1>1, <1>2, Inductive, PTL DEF Spec, ImplementsSubscriber, Sub!SubSpec
=============================================================================
