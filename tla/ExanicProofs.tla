---------------------------- MODULE ExanicProofs ----------------------------
(***************************************************************************)
(* Proof that the ExaNIC client is a Subscriber, for every size of the     *)
(* adapter's buffer.  The argument: the position it reads at only moves    *)
(* forward, past the last frame printed, also when the adapter overtakes   *)
(* it; and prev_ip_id is the IP-ID of the last frame printed, not of the   *)
(* last frame read, so what a negative return value skips shows as a gap.  *)
(***************************************************************************)
EXTENDS ExanicClient, SubscriberProofs

Typed == TypeOK /\ FeedTyped /\ lines \in Seq(LineRecord)

(* Reading goes on behind the last frame printed, which is remembered. *)
ReadsAhead ==
  /\ Sub!LastFrame \in 0 .. Len(frames)
  /\ Sub!LastFrame < next
  /\ lines # << >> => Sub!LastFrame # 0
  /\ prev_ip_id = Sub!PrevId

(* The inductive invariant. *)
IInv == Typed /\ ReadsAhead

-----------------------------------------------------------------------------
(* The steps that print nothing: setup, a bad frame, an overrun. *)
LEMMA QuietSteps ==
  ASSUME IInv,
         \/ ParseArgs \/ AcquireHandle \/ AcquireRxBuffer \/ SetupFails \/ ReceiveBadFrame
         \/ ReceiveOverrun \/ UNCHANGED vars
  PROVE  IInv'
<1>1. UNCHANGED <<frames, sent, lost, prev_ip_id, output_data, lines>>
  BY DEF ParseArgs, AcquireHandle, AcquireRxBuffer, SetupFails, ReceiveBadFrame, ReceiveOverrun,
         vars, feedVars, clientVars
<1>2. pc' \in {"args", "handle", "rxbuffer", "loop", "ended"}
  BY DEF ParseArgs, AcquireHandle, AcquireRxBuffer, SetupFails, ReceiveBadFrame, ReceiveOverrun,
         vars, IInv, Typed, TypeOK
<1>3. next' = next \/ next' = Len(frames) + 1 \/ (next <= Len(frames) /\ next' = next + 1)
  BY DEF ParseArgs, AcquireHandle, AcquireRxBuffer, SetupFails, ReceiveBadFrame, ReceiveOverrun,
         vars
<1>4. Len(frames) \in Nat /\ next \in 1 .. Len(frames) + 1
  BY DEF IInv, Typed, TypeOK, FeedTyped
<1>5. next' \in 1 .. Len(frames) + 1 /\ next' >= next
  BY <1>3, <1>4
<1>6. Sub!LastFrame' = Sub!LastFrame /\ Sub!PrevId' = Sub!PrevId
  BY <1>1 DEF Sub!LastFrame, Sub!PrevId, Sub!IpId
<1>7. Typed'
  BY <1>1, <1>2, <1>5 DEF IInv, Typed, TypeOK, FeedTyped
<1>8. Sub!LastFrame < next'
  BY <1>4, <1>5 DEF IInv, ReadsAhead
<1>9. ReadsAhead'
  BY <1>1, <1>6, <1>8 DEF IInv, ReadsAhead
<1> QED  BY <1>7, <1>9 DEF IInv

(* A frame arrives: it is ahead of everything read. *)
LEMMA ArriveStep ==
  ASSUME IInv, FrameArrives
  PROVE  IInv'
<1>1. UNCHANGED <<pc, next, prev_ip_id, output_data, lines>>
  BY DEF FrameArrives, clientVars
<1> DEFINE n == Len(frames)
<1>2. /\ FeedTyped' /\ Len(frames') = n + 1 /\ n \in Nat
      /\ \A i \in 1 .. n : frames'[i] = frames[i]
  BY Arrival DEF IInv, Typed, FrameArrives
<1>3. /\ next \in 1 .. n + 1 /\ output_data \in [Parts -> 0 .. n]
      /\ Sub!LastFrame \in 0 .. n /\ Sub!LastFrame' = Sub!LastFrame
  BY <1>1 DEF IInv, Typed, TypeOK, ReadsAhead, Sub!LastFrame
<1> HIDE DEF n
<1>4. Typed'
  <2>1. \A i \in 0 .. n : i \in 0 .. n + 1
    BY <1>2
  <2>2. output_data' \in [Parts -> 0 .. n + 1]
    BY <1>1, <1>3, <2>1
  <2>3. next' \in 1 .. (n + 1) + 1
    BY <1>1, <1>2, <1>3
  <2> QED  BY <1>1, <1>2, <2>2, <2>3 DEF IInv, Typed, TypeOK
<1>5. ReadsAhead'
  <2>1. lines # << >> => frames'[Sub!LastFrame] = frames[Sub!LastFrame]
    BY <1>2, <1>3 DEF IInv, ReadsAhead
  <2>2. Sub!PrevId' = Sub!PrevId
    BY <1>1, <1>3, <2>1 DEF Sub!PrevId, Sub!IpId
  <2> QED  BY <1>1, <1>2, <1>3, <2>2 DEF IInv, ReadsAhead
<1> QED  BY <1>4, <1>5 DEF IInv

(* A datagram is lost on the way. *)
LEMMA UpstreamStep ==
  ASSUME IInv, Upstream
  PROVE  IInv'
<1>1. UNCHANGED <<pc, next, prev_ip_id, output_data, lines>>
  BY DEF Upstream, clientVars
<1>2. FeedTyped' /\ frames' = frames
  BY UpstreamLoss DEF IInv, Typed, Upstream
<1>3. Sub!LastFrame' = Sub!LastFrame /\ Sub!PrevId' = Sub!PrevId
  BY <1>1, <1>2 DEF Sub!LastFrame, Sub!PrevId, Sub!IpId
<1> QED  BY <1>1, <1>2, <1>3 DEF IInv, Typed, TypeOK, ReadsAhead

-----------------------------------------------------------------------------
(* What the body of the loop does with the frame it is at: that is later   *)
(* than the last one printed, and it is skipped or printed by the line a   *)
(* Subscriber prints.                                                      *)
LEMMA Received ==
  ASSUME IInv, Receive
  PROVE  LET w == Gap(prev_ip_id, IpId(frames[next]))
             shape == frames[next].shape
         IN  /\ next \in 1 .. Len(frames) /\ Sub!LastFrame < next
             /\ \/ UNCHANGED clientVars
                \/ /\ Accepts(shape)
                   /\ prev_ip_id' = IpId(frames[next])
                   /\ lines' = Append(lines, CleanLine(next, shape, w))
                   /\ CleanLine(next, shape, w) \in LineRecord
                   /\ output_data' \in [Parts -> {0, next}]
<1> DEFINE w == Gap(prev_ip_id, IpId(frames[next]))
           shape == frames[next].shape
<1>1. next \in 1 .. Len(frames) /\ next \in Nat
  BY DEF IInv, Typed, TypeOK, FeedTyped, Receive
<1>2. Sub!LastFrame < next
  BY DEF IInv, ReadsAhead
<1>3. shape \in Shapes
  BY <1>1, FrameTypes DEF IInv, Typed
<1>4. w \in BOOLEAN
  BY DEF Gap
<1>5. \/ UNCHANGED clientVars
      \/ /\ Accepts(shape)
         /\ prev_ip_id' = IpId(frames[next])
         /\ \E r \in DecodeAndPrint(next, shape, w, output_data, lines) :
              output_data' = r.out /\ lines' = r.lines
  BY DEF Receive
<1> HIDE DEF w, shape
<1>6. ASSUME NEW r \in DecodeAndPrint(next, shape, w, output_data, lines)
      PROVE  /\ r.lines = Append(lines, CleanLine(next, shape, w))
             /\ CleanLine(next, shape, w) \in LineRecord
             /\ r.out \in [Parts -> {0, next}]
  BY <1>1, <1>3, <1>4, PrintedLine
<1>7. \/ UNCHANGED clientVars
      \/ /\ Accepts(shape)
         /\ prev_ip_id' = IpId(frames[next])
         /\ lines' = Append(lines, CleanLine(next, shape, w))
         /\ CleanLine(next, shape, w) \in LineRecord
         /\ output_data' \in [Parts -> {0, next}]
  BY <1>5, <1>6
<1> QED  BY <1>1, <1>2, <1>7 DEF w, shape

(* exanic_receive_frame returns a frame. *)
LEMMA ReceiveStep ==
  ASSUME IInv, Receive
  PROVE  IInv'
<1> DEFINE l == CleanLine(next, frames[next].shape, Gap(prev_ip_id, IpId(frames[next])))
<1>1. UNCHANGED <<pc, frames, sent, lost>> /\ next' = next + 1
  BY DEF Receive, feedVars
<1>2. Len(frames) \in Nat /\ lines \in Seq(LineRecord)
  BY DEF IInv, Typed, FeedTyped
<1>3. /\ next \in 1 .. Len(frames) /\ Sub!LastFrame < next
      /\ \/ UNCHANGED clientVars
         \/ /\ prev_ip_id' = IpId(frames[next])
            /\ lines' = Append(lines, l) /\ l \in LineRecord /\ l.frame = next
            /\ output_data' \in [Parts -> {0, next}]
  BY Received DEF CleanLine
<1> HIDE DEF l
<1>4. next' \in 1 .. Len(frames) + 1
  BY <1>1, <1>2, <1>3
<1>5. CASE UNCHANGED clientVars
  <2>1. UNCHANGED <<prev_ip_id, output_data, lines>>
    BY <1>5 DEF clientVars
  <2>2. Sub!LastFrame' = Sub!LastFrame /\ Sub!PrevId' = Sub!PrevId
    BY <1>1, <2>1 DEF Sub!LastFrame, Sub!PrevId, Sub!IpId
  <2>3. Sub!LastFrame < next'
    BY <1>1, <1>2, <1>3 DEF IInv, ReadsAhead
  <2> QED  BY <1>1, <1>4, <2>1, <2>2, <2>3 DEF IInv, Typed, TypeOK, FeedTyped, ReadsAhead
<1>6. CASE /\ prev_ip_id' = IpId(frames[next])
           /\ lines' = Append(lines, l) /\ l \in LineRecord /\ l.frame = next
           /\ output_data' \in [Parts -> {0, next}]
  <2>1. lines' \in Seq(LineRecord) /\ lines'[Len(lines')] = l /\ lines' # << >>
    BY <1>2, <1>6, LastLine
  <2>2. Sub!LastFrame' = next /\ Sub!PrevId' = IpId(frames[next])
    BY <1>1, <1>6, <2>1 DEF Sub!LastFrame, Sub!PrevId, Sub!IpId, IpId
  <2>3. prev_ip_id' \in 0 .. IpIds - 1
    BY <1>3, <1>6, FrameTypes DEF IInv, Typed
  <2>4. output_data' \in [Parts -> 0 .. Len(frames)]
    <3>1. 0 \in 0 .. Len(frames) /\ next \in 0 .. Len(frames)
      BY <1>2, <1>3
    <3> QED  BY <1>6, <3>1
  <2>5. Typed'
    BY <1>1, <1>4, <2>1, <2>3, <2>4 DEF IInv, Typed, TypeOK, FeedTyped
  <2>6. next \in 0 .. Len(frames) /\ next < next' /\ next # 0
    BY <1>1, <1>2, <1>3
  <2>7. ReadsAhead'
    BY <1>1, <1>6, <2>2, <2>6 DEF ReadsAhead
  <2> QED  BY <2>5, <2>7 DEF IInv
<1> QED  BY <1>3, <1>5, <1>6

-----------------------------------------------------------------------------
(* Every step is a step of a Subscriber or changes nothing it sees. *)
LEMMA StepSimulation ==
  ASSUME IInv, [Next]_vars
  PROVE  [Sub!SubNext]_Sub!subVars
<1>1. CASE \/ ParseArgs \/ AcquireHandle \/ AcquireRxBuffer \/ SetupFails \/ ReceiveBadFrame
           \/ ReceiveOverrun \/ UNCHANGED vars
  BY <1>1 DEF ParseArgs, AcquireHandle, AcquireRxBuffer, SetupFails, ReceiveBadFrame,
              ReceiveOverrun, vars, feedVars, clientVars, Sub!subVars
<1>2. CASE FrameArrives
  BY <1>2 DEF FrameArrives, clientVars, Sub!SubNext, Sub!Publish, Arrive, Sub!Arrive, IsFeed,
              Sub!IsFeed
<1>3. CASE Upstream
  BY <1>3 DEF Upstream, clientVars, Sub!SubNext, Sub!Publish, LostUpstream, Sub!LostUpstream
<1>4. CASE Receive
  <2> DEFINE l == CleanLine(next, frames[next].shape, Gap(prev_ip_id, IpId(frames[next])))
  <2>1. UNCHANGED <<frames, sent, lost>>
    BY <1>4 DEF Receive, feedVars
  <2>2. /\ next \in 1 .. Len(frames) /\ Sub!LastFrame < next
        /\ UNCHANGED clientVars \/ (Accepts(frames[next].shape) /\ lines' = Append(lines, l))
    BY <1>4, Received
  <2>3. CASE UNCHANGED clientVars
    BY <2>1, <2>3 DEF clientVars, Sub!subVars
  <2>4. CASE Accepts(frames[next].shape) /\ lines' = Append(lines, l)
    <3>1. frames[next].shape \in {s \in Traffic : Accepts(s)}
      BY <2>2, <2>4, FrameTypes DEF IInv, Typed
    <3>2. l = [frame  |-> next,
               kind   |-> frames[next].shape.msg,
               warned |-> TRUE /\ IpId(frames[next]) # (Sub!PrevId + 1) % IpIds,
               pure   |-> TRUE,
               absent |-> {}]
      BY DEF CleanLine, Gap, IInv, ReadsAhead
    <3> HIDE DEF l
    <3>3. Sub!Report(next)
      BY <2>4, <3>2 DEF Sub!Report, IpId, Sub!IpId
    <3>4. next \in Sub!LastFrame + 1 .. Len(frames)
      BY <2>2 DEF IInv, Typed, FeedTyped, ReadsAhead
    <3> QED  BY <2>1, <3>1, <3>3, <3>4 DEF Sub!SubNext, Sub!Process, Sub!feedVars
  <2> QED  BY <2>2, <2>3, <2>4
<1> QED  BY <1>1, <1>2, <1>3, <1>4 DEF Next, Main, Idle

(* The program reads on behind the last frame printed and remembers that   *)
(* frame's IP-ID.                                                          *)
THEOREM Inductive == Spec => []IInv
<1>1. Init => IInv
  <2> SUFFICES ASSUME Init PROVE IInv
    OBVIOUS
  <2>1. FeedTyped /\ frames = << >>
    BY FeedStarts DEF Init
  <2>2. lines = << >> /\ Sub!LastFrame = 0 /\ Sub!PrevId = 0
    BY DEF Init, Sub!LastFrame, Sub!PrevId
  <2>3. /\ 0 \in 0 .. IpIds - 1 /\ 0 \in 0 .. Len(frames) /\ 1 \in 1 .. Len(frames) + 1
    BY <2>1, FeedAssumption
  <2>4. output_data \in [Parts -> 0 .. Len(frames)]
    BY <2>3 DEF Init
  <2>5. TypeOK
    BY <2>3, <2>4 DEF Init, TypeOK
  <2>6. ReadsAhead
    BY <2>2, <2>3 DEF Init, ReadsAhead
  <2> QED  BY <2>1, <2>2, <2>5, <2>6 DEF IInv, Typed
<1>2. IInv /\ [Next]_vars => IInv'
  BY QuietSteps, ArriveStep, UpstreamStep, ReceiveStep DEF Next, Main, Idle
<1> QED  BY <1>1, <1>2, PTL DEF Spec

(* Every variable keeps its type; the position is within the frames that   *)
(* have arrived or just behind them.                                       *)
THEOREM TypeCorrect == Spec => []TypeOK
<1>1. IInv => TypeOK
  BY DEF IInv, Typed
<1> QED  BY <1>1, Inductive, PTL

(* The ExaNIC client is a Subscriber, through bad frames and overruns, for *)
(* every size of the adapter's buffer.                                     *)
THEOREM Implements == Spec => ImplementsSubscriber
<1>1. Init => Sub!SubInit
  BY DEF Init, FeedInit, Sub!SubInit, Sub!FeedInit
<1>2. IInv /\ [Next]_vars => [Sub!SubNext]_Sub!subVars
  BY StepSimulation
<1> QED  BY <1>1, <1>2, Inductive, PTL DEF Spec, ImplementsSubscriber, Sub!SubSpec
=============================================================================
