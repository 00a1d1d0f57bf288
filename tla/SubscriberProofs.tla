-------------------------- MODULE SubscriberProofs --------------------------
(***************************************************************************)
(* What the proofs about the four clients share, and the proof that a      *)
(* Subscriber's gap warnings mean what they say, for every number of       *)
(* IP-IDs, all traffic and any losses.  The argument for the latter:       *)
(* frames of the feed arrive with growing numbers, lines are about frames  *)
(* of growing index, so consecutive lines are about growing numbers; and a *)
(* line is warned exactly when its IP-ID is not the successor of the one   *)
(* before, which by arithmetic modulo IpIds is a statement about the       *)
(* numbers.                                                                *)
(***************************************************************************)
EXTENDS Subscriber, TLAPS

FrameRecord == [shape : Traffic, seq : Nat]
LineRecord  == [frame : Nat, kind : {"best", "deep", "bad"}, warned : BOOLEAN,
                pure : {TRUE}, absent : {{}}]

FeedTyped ==
  /\ frames \in Seq(FrameRecord)
  /\ sent \in Nat
  /\ lost \in Nat

(* What a Subscriber prints for frame k. *)
CleanLine(k, shape, warned) ==
  [frame  |-> k, kind |-> shape.msg, warned |-> warned, pure |-> TRUE,
   absent |-> {}]

(* Because output_data is zeroed before the decoder runs, whatever part of *)
(* the record the decoder leaves out, the line shows bytes of its frame or *)
(* zeroes; and every price that may be absent is replaced.                 *)
LEMMA PrintedLine ==
  ASSUME NEW k \in Nat, NEW shape \in Shapes, NEW warned \in BOOLEAN, NEW out, NEW lns,
         NEW r \in DecodeAndPrint(k, shape, warned, out, lns)
  PROVE  /\ r.lines = Append(lns, CleanLine(k, shape, warned))
         /\ CleanLine(k, shape, warned) \in LineRecord
         /\ r.out \in [Parts -> {0, k}]
<1>1. shape.msg \in {"best", "deep", "bad"}
  BY DEF Shapes
<1>2. PICK W \in Decodings(shape.msg) :
        r = [out   |-> Decoded(Zeroed(out), k, W),
             lines |-> Append(lns, Line(k, shape, warned, Decoded(Zeroed(out), k, W)))]
  BY DEF DecodeAndPrint
<1> DEFINE d == Decoded(Zeroed(out), k, W)
<1>3. d \in [Parts -> {0, k}]
  BY DEF Decoded, Zeroed
<1>4. RecordParts(shape.msg) \subseteq Parts
  BY <1>1 DEF RecordParts, Parts
<1>5. (\A p \in RecordParts(shape.msg) : d[p] \in {0, k}) = TRUE
  BY <1>3, <1>4
<1>6. PriceFields(shape.msg) \ ZeroedPrices(shape.msg) = {}
  BY <1>1 DEF PriceFields, ZeroedPrices
<1> HIDE DEF d
<1>7. Line(k, shape, warned, d) = CleanLine(k, shape, warned)
  BY <1>5, <1>6, Zenon DEF Line, CleanLine
<1>8. r.lines = Append(lns, Line(k, shape, warned, d)) /\ r.out = d
  BY <1>2 DEF d
<1>9. CleanLine(k, shape, warned) \in LineRecord
  BY <1>1 DEF CleanLine, LineRecord
<1> QED  BY <1>3, <1>7, <1>8, <1>9

(* The line alone, as a client that compares IP-IDs prints it. *)
LEMMA ComparedLine ==
  ASSUME NEW k \in Nat, NEW shape \in Shapes, NEW prev, NEW id, NEW out, NEW lns,
         NEW r \in DecodeAndPrint(k, shape, Gap(prev, id), out, lns)
  PROVE  /\ r.lines = Append(lns, CleanLine(k, shape, Gap(prev, id)))
         /\ CleanLine(k, shape, Gap(prev, id)) \in LineRecord
<1>1. Gap(prev, id) \in BOOLEAN
  BY DEF Gap
<1> QED  BY <1>1, PrintedLine

(* One more line: it is the last. *)
LEMMA LastLine ==
  ASSUME NEW lns \in Seq(LineRecord), NEW l \in LineRecord
  PROVE  LET new == Append(lns, l)
         IN  /\ new \in Seq(LineRecord) /\ new # << >>
             /\ new[Len(new)] = l
             /\ \A i \in 1 .. Len(new) : (i \in 1 .. Len(lns) /\ new[i] = lns[i]) \/ new[i] = l
OBVIOUS

-----------------------------------------------------------------------------
(* A frame that has arrived has a shape of the traffic and an IP-ID of 16  *)
(* bits.                                                                   *)
LEMMA FrameTypes ==
  ASSUME FeedTyped
  PROVE  \A i \in 1 .. Len(frames) :
           /\ frames[i].shape \in Traffic
           /\ frames[i].shape \in Shapes
           /\ frames[i].shape.msg \in {"best", "deep", "bad"}
           /\ frames[i].seq \in Nat
           /\ IpId(frames[i]) \in 0 .. IpIds - 1
<1>1. \A i \in 1 .. Len(frames) : frames[i] \in FrameRecord
  BY DEF FeedTyped
<1>2. \A f \in FrameRecord : f.seq \in Nat /\ f.shape \in Traffic
  BY DEF FrameRecord
<1>3. \A n \in Nat : n % IpIds \in 0 .. IpIds - 1
  BY FeedAssumption
<1>4. \A s \in Shapes : s.msg \in {"best", "deep", "bad"}
  BY DEF Shapes
<1> QED  BY <1>1, <1>2, <1>3, <1>4, FeedAssumption, Zenon DEF IpId

(* A frame arrives: the earlier ones stay where they are. *)
LEMMA Arrival ==
  ASSUME FeedTyped, NEW shape \in Traffic, Arrive(shape)
  PROVE  /\ FeedTyped'
         /\ Len(frames') = Len(frames) + 1 /\ Len(frames) \in Nat
         /\ \A i \in 1 .. Len(frames) : frames'[i] = frames[i]
         /\ frames'[Len(frames) + 1].shape = shape
<1> DEFINE f == [shape |-> shape, seq |-> IF IsFeed(shape) THEN sent + 1 ELSE 0]
<1>1. frames \in Seq(FrameRecord) /\ sent \in Nat
  BY DEF FeedTyped
<1>2. f \in FrameRecord /\ f.shape = shape
  BY <1>1 DEF FrameRecord
<1>3. frames' = Append(frames, f)
  BY DEF Arrive
<1> HIDE DEF f
<1>4. /\ frames' \in Seq(FrameRecord) /\ Len(frames') = Len(frames) + 1
      /\ \A i \in 1 .. Len(frames) : frames'[i] = frames[i]
      /\ frames'[Len(frames) + 1] = f /\ Len(frames) \in Nat
  BY <1>1, <1>2, <1>3
<1>5. sent' \in Nat /\ lost' \in Nat
  BY <1>1 DEF Arrive, FeedTyped
<1> QED  BY <1>2, <1>4, <1>5 DEF FeedTyped

(* A datagram is lost on the way: no frame is touched. *)
LEMMA UpstreamLoss ==
  ASSUME FeedTyped, LostUpstream
  PROVE  FeedTyped' /\ frames' = frames
BY DEF FeedTyped, LostUpstream

(* Nothing has arrived when the program starts. *)
LEMMA FeedStarts ==
  ASSUME FeedInit
  PROVE  FeedTyped /\ frames = << >>
BY FeedAssumption DEF FeedTyped, FeedInit

(* A socket's receive buffer when frame n + 1 arrives: it stays as it is,  *)
(* or the new frame is the last in it.                                     *)
LEMMA Enqueue ==
  ASSUME NEW n \in Nat, NEW q \in Seq(1 .. n)
  PROVE  /\ q \in Seq(1 .. n + 1)
         /\ \A i \in 1 .. Len(q) : q[i] \in 1 .. n
         /\ Append(q, n + 1) \in Seq(1 .. n + 1)
         /\ Len(Append(q, n + 1)) = Len(q) + 1 /\ Len(q) \in Nat
         /\ \A i \in 1 .. Len(q) + 1 :
              \/ i \in 1 .. Len(q) /\ Append(q, n + 1)[i] = q[i]
              \/ i = Len(q) + 1 /\ Append(q, n + 1)[i] = n + 1
<1>1. 1 .. n \subseteq 1 .. n + 1
  OBVIOUS
<1>2. q \in Seq(1 .. n + 1)
  BY <1>1
<1>3. n + 1 \in 1 .. n + 1
  OBVIOUS
<1> DEFINE m == n + 1
<1> HIDE DEF m
<1>4. Append(q, m) \in Seq(1 .. m)
  BY <1>2, <1>3 DEF m
<1>5. /\ Len(Append(q, m)) = Len(q) + 1 /\ Len(q) \in Nat
      /\ \A i \in 1 .. Len(q) + 1 :
              \/ i \in 1 .. Len(q) /\ Append(q, m)[i] = q[i]
              \/ i = Len(q) + 1 /\ Append(q, m)[i] = m
  OBVIOUS
<1>6. \A i \in 1 .. Len(q) : q[i] \in 1 .. n
  OBVIOUS
<1>7. m = n + 1
  BY DEF m
<1> QED  BY <1>2, <1>4, <1>5, <1>6, <1>7, Zenon

-----------------------------------------------------------------------------
(* A Subscriber *)

SubTyped == FeedTyped /\ lines \in Seq(LineRecord)

(* The feed's datagrams arrive in the order of their numbers. *)
Numbered ==
  /\ \A i \in 1 .. Len(frames) : frames[i].seq <= sent
  /\ \A i, j \in 1 .. Len(frames) :
       i < j /\ IsFeed(frames[i].shape) /\ IsFeed(frames[j].shape)
         => frames[i].seq < frames[j].seq

LinesOrdered ==
  /\ \A i \in 1 .. Len(lines) : lines[i].frame \in 1 .. Len(frames)
  /\ \A i, j \in 1 .. Len(lines) : i < j => lines[i].frame < lines[j].frame

(* The IP-ID of frame b is the one that comes after that of frame a. *)
Follows(a, b) == IpId(b) = (IpId(a) + 1) % IpIds

WarnedExactly ==
  ChecksIpId => \A i, j \in 1 .. Len(lines) :
    j = i + 1 => (lines[j].warned <=> ~Follows(Reported(i), Reported(j)))

(* The inductive invariant. *)
SubInv == SubTyped /\ Numbered /\ LinesOrdered /\ WarnedExactly

-----------------------------------------------------------------------------
(* Quotient and remainder are unique. *)
LEMMA Remainder ==
  ASSUME NEW n \in Nat \ {0}, NEW m \in Int, NEW x \in 0 .. n - 1
  PROVE  (n * m + x) % n = x
<1> DEFINE y == n * m + x
           q == y \div n
           r == y % n
<1>0. n * m \in Int
  OBVIOUS
<1>1. y \in Int
  BY <1>0
<1> HIDE DEF y
<1>2. q \in Int /\ r \in 0 .. n - 1 /\ y = n * q + r
  BY <1>1
<1> HIDE DEF q, r
<1>3. n * m + x = n * q + r
  BY <1>2 DEF y
<1>4. n * q \in Int
  BY <1>2
<1>5. m > q => n * m >= n * q + n
  <2> SUFFICES ASSUME m > q PROVE n * m >= n * q + n
    OBVIOUS
  <2>1. m - q - 1 \in Nat
    BY <1>2
  <2>2. n * (m - q - 1) >= 0 /\ n * (m - q - 1) \in Int
    BY <2>1
  <2>3. n * (m - q - 1) = n * m - n * q - n
    BY <1>2
  <2> QED BY <2>2, <2>3, <1>0, <1>4
<1>6. q > m => n * q >= n * m + n
  <2> SUFFICES ASSUME q > m PROVE n * q >= n * m + n
    OBVIOUS
  <2>1. q - m - 1 \in Nat
    BY <1>2
  <2>2. n * (q - m - 1) >= 0 /\ n * (q - m - 1) \in Int
    BY <2>1
  <2>3. n * (q - m - 1) = n * q - n * m - n
    BY <1>2
  <2> QED BY <2>2, <2>3, <1>0, <1>4
<1>7. m = q
  BY <1>0, <1>2, <1>3, <1>4, <1>5, <1>6
<1>8. r = x
  BY <1>0, <1>2, <1>3, <1>4, <1>7
<1> QED  BY <1>8 DEF r, y

(* Two numbers whose IP-IDs follow each other differ by one and a multiple *)
(* of the number of IP-IDs; and the IP-ID of the successor follows.        *)
LEMMA Successor ==
  ASSUME NEW n \in Nat \ {0, 1}, NEW a \in Nat, NEW b \in Nat
  PROVE  /\ b % n = ((a % n) + 1) % n => (b - a - 1) % n = 0
         /\ b = a + 1 => b % n = ((a % n) + 1) % n
<1>1. PICK q \in Int, r \in 0 .. n - 1 : a = n * q + r /\ r = a % n
  <2>1. a \div n \in Int /\ a % n \in 0 .. n - 1 /\ a = n * (a \div n) + (a % n)
    OBVIOUS
  <2> QED BY <2>1, Zenon
<1>a. a = n * q + r
  BY <1>1
<1>2. PICK p \in Int, s \in 0 .. n - 1 : b = n * p + s /\ s = b % n
  <2>1. b \div n \in Int /\ b % n \in 0 .. n - 1 /\ b = n * (b \div n) + (b % n)
    OBVIOUS
  <2> QED BY <2>1
<1>b. b = n * p + s
  BY <1>2
<1>3. (r + 1) % n = IF r = n - 1 THEN 0 ELSE r + 1
  <2>1. CASE r = n - 1
    <3>1. r + 1 = n * 1 + 0 /\ 0 \in 0 .. n - 1 /\ 1 \in Int
      BY <2>1
    <3> QED BY <2>1, <3>1, Remainder
  <2>2. CASE r # n - 1
    <3>1. r + 1 = n * 0 + (r + 1) /\ r + 1 \in 0 .. n - 1 /\ 0 \in Int
      BY <2>2
    <3> QED BY <2>2, <3>1, Remainder
  <2> QED BY <2>1, <2>2
<1>4. ASSUME b % n = ((a % n) + 1) % n
      PROVE  (b - a - 1) % n = 0
  <2>1. s = IF r = n - 1 THEN 0 ELSE r + 1
    BY <1>1, <1>2, <1>3, <1>4
  <2>2. PICK m \in Int : b - a - 1 = n * m + 0
    <3>1. CASE r = n - 1
      <4>1. n * (p - q - 1) = n * p - n * q - n /\ p - q - 1 \in Int
        OBVIOUS
      <4>2. n * p \in Int /\ n * q \in Int
        OBVIOUS
      <4>3. b - a - 1 = n * (p - q - 1) + 0
        BY <4>1, <4>2, <3>1, <2>1, <1>a, <1>b
      <4> QED BY <4>1, <4>3, Zenon
    <3>2. CASE r # n - 1
      <4>1. n * (p - q) = n * p - n * q /\ p - q \in Int
        OBVIOUS
      <4>2. n * p \in Int /\ n * q \in Int
        OBVIOUS
      <4>3. b - a - 1 = n * (p - q) + 0
        BY <4>1, <4>2, <3>2, <2>1, <1>a, <1>b
      <4> QED BY <4>1, <4>3, Zenon
    <3> QED BY <3>1, <3>2
  <2>3. 0 \in 0 .. n - 1
    OBVIOUS
  <2> QED BY <2>2, <2>3, Remainder
<1>5. ASSUME b = a + 1
      PROVE  b % n = ((a % n) + 1) % n
  <2>1. CASE r = n - 1
    <3>1. n * (q + 1) = n * q + n /\ q + 1 \in Int /\ n * q \in Int
      OBVIOUS
    <3>2. b = n * (q + 1) + 0 /\ 0 \in 0 .. n - 1
      BY <3>1, <2>1, <1>a, <1>5
    <3>3. b % n = 0
      BY <3>1, <3>2, Remainder
    <3> QED BY <3>3, <2>1, <1>1, <1>3
  <2>2. CASE r # n - 1
    <3>1. n * q \in Int
      OBVIOUS
    <3>2. b = n * q + (r + 1) /\ r + 1 \in 0 .. n - 1
      BY <3>1, <2>2, <1>a, <1>5
    <3>3. b % n = r + 1
      BY <3>2, Remainder
    <3> QED BY <3>3, <2>2, <1>1, <1>3
  <2> QED BY <2>1, <2>2
<1> QED  BY <1>4, <1>5

-----------------------------------------------------------------------------
(* A frame arrives: it is the last one, and if it is of the feed it has    *)
(* the largest number so far.                                              *)
LEMMA SubArrives ==
  ASSUME SubInv, NEW shape \in Traffic, Arrive(shape), UNCHANGED lines
  PROVE  SubInv'
<1>1. frames \in Seq(FrameRecord) /\ sent \in Nat /\ lines \in Seq(LineRecord)
  BY DEF SubInv, SubTyped, FeedTyped
<1> DEFINE f == [shape |-> shape, seq |-> IF IsFeed(shape) THEN sent + 1 ELSE 0]
<1>2. f \in FrameRecord
  BY <1>1 DEF FrameRecord
<1>3. frames' = Append(frames, f) /\ lines' = lines
  BY DEF Arrive
<1>4. sent' = IF IsFeed(shape) THEN sent + 1 ELSE sent
  BY DEF Arrive
<1>5. f.shape = shape /\ f.seq = IF IsFeed(shape) THEN sent + 1 ELSE 0
  OBVIOUS
<1> HIDE DEF f
<1>6. /\ frames' \in Seq(FrameRecord) /\ Len(frames') = Len(frames) + 1
      /\ \A i \in 1 .. Len(frames) : frames'[i] = frames[i] /\ i \in 1 .. Len(frames')
      /\ frames'[Len(frames) + 1] = f
  BY <1>1, <1>2, <1>3
<1>7. SubTyped'
  BY <1>1, <1>3, Arrival DEF SubInv, SubTyped
<1>8. Numbered'
  <2>1. \A i \in 1 .. Len(frames) : frames[i].seq \in Nat /\ frames[i].seq <= sent
    BY FrameTypes DEF SubInv, SubTyped, Numbered
  <2>2. \A i \in 1 .. Len(frames') : i \in 1 .. Len(frames) \/ i = Len(frames) + 1
    BY <1>1, <1>6
  <2>3. \A i \in 1 .. Len(frames') : frames'[i].seq <= sent'
    BY <1>1, <1>4, <1>5, <1>6, <2>1, <2>2
  <2>4. ASSUME NEW i \in 1 .. Len(frames'), NEW j \in 1 .. Len(frames'), i < j,
               IsFeed(frames'[i].shape), IsFeed(frames'[j].shape)
        PROVE  frames'[i].seq < frames'[j].seq
    <3>1. i \in 1 .. Len(frames)
      BY <1>1, <1>6, <2>4
    <3>2. CASE j \in 1 .. Len(frames)
      BY <1>6, <2>4, <3>1, <3>2 DEF SubInv, Numbered
    <3>3. CASE j = Len(frames) + 1
      <4>1. frames'[j].seq = sent + 1
        BY <1>5, <1>6, <2>4, <3>3
      <4> QED  BY <1>1, <1>6, <2>1, <3>1, <4>1
    <3> QED  BY <2>2, <3>2, <3>3
  <2> QED  BY <2>3, <2>4 DEF Numbered
<1>9. LinesOrdered'
  BY <1>1, <1>3, <1>6 DEF SubInv, LinesOrdered
<1>10. WarnedExactly'
  <2>1. \A i \in 1 .. Len(lines) : lines'[i].frame = lines[i].frame
                                   /\ frames'[lines[i].frame] = frames[lines[i].frame]
    BY <1>3, <1>6 DEF SubInv, LinesOrdered
  <2>2. \A i \in 1 .. Len(lines) : Reported(i)' = Reported(i)
    BY <2>1 DEF Reported
  <2> QED  BY <1>3, <2>2 DEF SubInv, WarnedExactly, Follows, IpId
<1> QED  BY <1>7, <1>8, <1>9, <1>10 DEF SubInv

(* A datagram is lost on the way: only the count of those sent moves. *)
LEMMA SubLoses ==
  ASSUME SubInv, LostUpstream, UNCHANGED lines
  PROVE  SubInv'
<1>1. frames' = frames /\ lines' = lines /\ sent' = sent + 1 /\ lost' = lost + 1
  BY DEF LostUpstream
<1>2. SubTyped'
  BY <1>1, UpstreamLoss DEF SubInv, SubTyped
<1>3. \A i \in 1 .. Len(frames) : frames[i].seq \in Nat /\ frames[i].seq <= sent
  BY FrameTypes DEF SubInv, SubTyped, Numbered
<1>4. Numbered'
  <2>1. \A n \in Nat : n <= sent => n <= sent'
    BY <1>1 DEF SubInv, SubTyped, FeedTyped
  <2> QED  BY <1>1, <1>3, <2>1 DEF SubInv, Numbered
<1> QED  BY <1>1, <1>2, <1>4 DEF SubInv, LinesOrdered, WarnedExactly, Reported, Follows, IpId

(* A line is printed: it is about a later frame than the line before, and  *)
(* its warning compares the two.                                           *)
LEMMA SubReports ==
  ASSUME SubInv, Process
  PROVE  SubInv'
<1>1. frames \in Seq(FrameRecord) /\ lines \in Seq(LineRecord)
  BY DEF SubInv, SubTyped, FeedTyped
<1>2. PICK k \in LastFrame + 1 .. Len(frames) : Report(k)
  BY DEF Process
<1>3. UNCHANGED <<frames, sent, lost>>
  BY DEF Process, feedVars
<1> DEFINE l == [frame  |-> k,
                 kind   |-> frames[k].shape.msg,
                 warned |-> ChecksIpId /\ IpId(frames[k]) # (PrevId + 1) % IpIds,
                 pure   |-> TRUE,
                 absent |-> {}]
<1>4. lines' = Append(lines, l)
  BY <1>2 DEF Report, IpId
<1>5. /\ LastFrame \in 0 .. Len(frames)
      /\ \A i \in 1 .. Len(lines) : lines[i].frame <= LastFrame /\ lines[i].frame \in Nat
  <2>1. CASE lines = << >>
    BY <1>1, <2>1 DEF LastFrame
  <2>2. CASE lines # << >>
    <3>1. Len(lines) \in 1 .. Len(lines) /\ LastFrame = lines[Len(lines)].frame
      BY <1>1, <2>2 DEF LastFrame
    <3>2. \A i \in 1 .. Len(lines) : i = Len(lines) \/ i < Len(lines)
      BY <1>1
    <3>3. \A i \in 1 .. Len(lines) : lines[i].frame \in 1 .. Len(frames)
      BY DEF SubInv, LinesOrdered
    <3>4. \A i \in 1 .. Len(lines) : i < Len(lines) => lines[i].frame < lines[Len(lines)].frame
      BY <3>1 DEF SubInv, LinesOrdered
    <3>5. \A i \in 1 .. Len(lines) : lines[i].frame <= LastFrame /\ lines[i].frame \in Nat
      BY <1>1, <3>1, <3>2, <3>3, <3>4
    <3> QED  BY <1>1, <3>1, <3>3, <3>5
  <2> QED  BY <2>1, <2>2
<1>6. k \in 1 .. Len(frames) /\ k > LastFrame
  BY <1>1, <1>5
<1>7. l.frame = k /\ (ChecksIpId => (l.warned <=> IpId(frames[k]) # (PrevId + 1) % IpIds))
  BY Zenon
<1>8. l \in LineRecord
  <2>1. k \in Nat /\ frames[k].shape.msg \in {"best", "deep", "bad"}
    BY <1>1, <1>6, FrameTypes DEF SubInv, SubTyped
  <2> QED  BY <2>1 DEF LineRecord
<1> HIDE DEF l
<1>9. /\ lines' \in Seq(LineRecord) /\ Len(lines') = Len(lines) + 1
      /\ \A i \in 1 .. Len(lines) : lines'[i] = lines[i]
      /\ lines'[Len(lines) + 1] = l
      /\ \A i \in 1 .. Len(lines') : i \in 1 .. Len(lines) \/ i = Len(lines) + 1
  BY <1>1, <1>4, <1>8
<1>10. SubTyped' /\ Numbered'
  BY <1>3, <1>9 DEF SubInv, SubTyped, FeedTyped, Numbered
<1>11. LinesOrdered'
  <2>1. \A i \in 1 .. Len(lines') : lines'[i].frame \in 1 .. Len(frames')
    BY <1>3, <1>6, <1>7, <1>9 DEF SubInv, LinesOrdered
  <2>2. ASSUME NEW i \in 1 .. Len(lines'), NEW j \in 1 .. Len(lines'), i < j
        PROVE  lines'[i].frame < lines'[j].frame
    <3>1. i \in 1 .. Len(lines)
      BY <1>1, <1>9, <2>2
    <3>2. CASE j \in 1 .. Len(lines)
      BY <1>9, <2>2, <3>1, <3>2 DEF SubInv, LinesOrdered
    <3>3. CASE j = Len(lines) + 1
      BY <1>1, <1>5, <1>6, <1>7, <1>9, <3>1, <3>3
    <3> QED  BY <1>9, <3>2, <3>3
  <2> QED  BY <2>1, <2>2 DEF LinesOrdered
<1>12. WarnedExactly'
  <2> SUFFICES ASSUME ChecksIpId, NEW i \in 1 .. Len(lines'), NEW j \in 1 .. Len(lines'),
                      j = i + 1
               PROVE  lines'[j].warned <=> ~Follows(Reported(i), Reported(j))'
    BY DEF WarnedExactly
  <2>1. i \in 1 .. Len(lines)
    BY <1>1, <1>9
  <2>2. CASE j \in 1 .. Len(lines)
    BY <1>3, <1>9, <2>1, <2>2 DEF SubInv, WarnedExactly, Reported, Follows, IpId
  <2>3. CASE j = Len(lines) + 1
    <3>1. i = Len(lines) /\ lines # << >>
      BY <1>1, <2>1, <2>3
    <3>2. PrevId = IpId(frames[lines[i].frame])
      BY <3>1 DEF PrevId, LastFrame, IpId
    <3>3. lines'[j] = l /\ lines'[i] = lines[i] /\ frames' = frames
      BY <1>3, <1>9, <2>1, <2>3
    <3> QED  BY <1>7, <3>2, <3>3 DEF Reported, Follows, IpId
  <2> QED  BY <1>9, <2>2, <2>3
<1> QED  BY <1>10, <1>11, <1>12 DEF SubInv

-----------------------------------------------------------------------------
(* Frames of the feed are numbered in the order of arrival, lines are      *)
(* about later and later frames, and a warning compares neighbours.        *)
THEOREM SubInductive == SubSpec => []SubInv
<1>1. SubInit => SubInv
  BY FeedAssumption DEF SubInit, FeedInit, SubInv, SubTyped, FeedTyped, Numbered,
                        LinesOrdered, WarnedExactly
<1>2. SubInv /\ [SubNext]_subVars => SubInv'
  <2> SUFFICES ASSUME SubInv, [SubNext]_subVars PROVE SubInv'
    OBVIOUS
  <2>1. CASE Publish
    <3>1. lines' = lines /\ (LostUpstream \/ \E shape \in Traffic : Arrive(shape))
      BY <2>1 DEF Publish
    <3> QED  BY <3>1, SubArrives, SubLoses
  <2>2. CASE Process
    BY <2>2, SubReports
  <2>3. CASE UNCHANGED subVars
    BY <2>3 DEF subVars, SubInv, SubTyped, FeedTyped, Numbered, LinesOrdered,
                WarnedExactly, Reported, Follows, IpId
  <2> QED  BY <2>1, <2>2, <2>3 DEF SubNext
<1> QED  BY <1>1, <1>2, PTL DEF SubSpec

(* No warning without a gap, also when the IP-ID wraps, and silence over a *)
(* gap only when a multiple of IpIds datagrams is missing: for every IpIds.*)
THEOREM Gaps == SubSpec => []GapReporting
<1>1. SubInv => GapReporting
  <2> SUFFICES ASSUME SubInv, ChecksIpId, NEW i \in 1 .. Len(lines) - 1,
                      IsFeed(Reported(i).shape), IsFeed(Reported(i + 1).shape)
               PROVE  LET a == Reported(i)
                          b == Reported(i + 1)
                      IN  /\ a.seq < b.seq
                          /\ b.seq = a.seq + 1 => ~lines[i + 1].warned
                          /\ ~lines[i + 1].warned => (b.seq - a.seq - 1) % IpIds = 0
    BY DEF GapReporting, IsFeed
  <2> DEFINE a == Reported(i).seq
             b == Reported(i + 1).seq
  <2>1. frames \in Seq(FrameRecord) /\ lines \in Seq(LineRecord)
    BY DEF SubInv, SubTyped, FeedTyped
  <2>2. i \in 1 .. Len(lines) /\ i + 1 \in 1 .. Len(lines) /\ i < i + 1
    BY <2>1
  <2>3. /\ lines[i].frame \in 1 .. Len(frames) /\ lines[i + 1].frame \in 1 .. Len(frames)
        /\ lines[i].frame < lines[i + 1].frame
    BY <2>2 DEF SubInv, LinesOrdered
  <2>4. a \in Nat /\ b \in Nat
    BY <2>3, FrameTypes, Zenon DEF SubInv, SubTyped, Reported
  <2>5. a < b
    BY <2>3, Zenon DEF SubInv, Numbered, Reported
  <2>6. lines[i + 1].warned <=> b % IpIds # ((a % IpIds) + 1) % IpIds
    BY <2>2 DEF SubInv, WarnedExactly, Follows, IpId
  <2> HIDE DEF a, b
  <2>7. /\ b % IpIds = ((a % IpIds) + 1) % IpIds => (b - a - 1) % IpIds = 0
        /\ b = a + 1 => b % IpIds = ((a % IpIds) + 1) % IpIds
    BY <2>4, Successor, FeedAssumption, Zenon
  <2>8. /\ b = a + 1 => ~lines[i + 1].warned
        /\ ~lines[i + 1].warned => (b - a - 1) % IpIds = 0
    BY <2>6, <2>7
  <2> QED  BY <2>5, <2>8 DEF a, b
<1> QED  BY <1>1, SubInductive, PTL
=============================================================================
