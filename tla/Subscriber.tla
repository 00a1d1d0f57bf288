----------------------------- MODULE Subscriber -----------------------------
(***************************************************************************)
(* What a subscriber promises, whatever it receives with: the frames it    *)
(* wants are reported in the order of arrival, each at most once, by one   *)
(* line that shows that frame and nothing else, and the line is preceded   *)
(* by a warning exactly when the IP-ID does not follow the one of the line *)
(* before.  Frames may be missing; they are never invented or reordered.   *)
(***************************************************************************)
EXTENDS QuoteLine

CONSTANTS Wanted,      \* the shapes of frame the client reports
          ChecksIpId   \* FALSE: the client does not look at the IP-ID

LastFrame == IF lines = << >> THEN 0 ELSE lines[Len(lines)].frame

(* 0 before the first line, as prev_ip_id is initialised. *)
PrevId == IF lines = << >> THEN 0 ELSE IpId(frames[LastFrame])

Mut_Report(k) ==
  lines' = Append(lines,
             [frame  |-> k,
              kind   |-> frames[k].shape.msg,
              warned |-> ChecksIpId /\ IpId(frames[k]) # PrevId + 1,
              pure   |-> TRUE,
              absent |-> {}])
Report(k) ==
  lines' = Append(lines,
             [frame  |-> k,
              kind   |-> frames[k].shape.msg,
              warned |-> ChecksIpId /\ IpId(frames[k]) # (PrevId + 1) % IpIds,
              pure   |-> TRUE,
              absent |-> {}])

Process ==
  /\ \E k \in LastFrame + 1 .. Len(frames) :
       frames[k].shape \in Wanted /\ Report(k)
  /\ UNCHANGED feedVars

Publish ==
  /\ LostUpstream \/ \E shape \in Traffic : Arrive(shape)
  /\ UNCHANGED lines

subVars == <<frames, sent, lost, lines>>

SubInit == FeedInit /\ lines = << >>
SubNext == Publish \/ Process
SubSpec == SubInit /\ [][SubNext]_subVars

-----------------------------------------------------------------------------
Reported(i) == frames[lines[i].frame]

(* Between two lines of the feed printed one after the other: the datagrams*)
(* are in the order they were sent; no warning is printed when none is     *)
(* missing, also when the 16-bit ID wraps; and when some are missing, for  *)
(* whatever reason, silence means that their number is a multiple of IpIds.*)
GapReporting ==
  ChecksIpId =>
    \A i \in 1 .. Len(lines) - 1 :
      LET a == Reported(i)
          b == Reported(i + 1)
      IN  IsFeed(a.shape) /\ IsFeed(b.shape) =>
            /\ a.seq < b.seq
            /\ b.seq = a.seq + 1 => ~lines[i + 1].warned
            /\ ~lines[i + 1].warned => (b.seq - a.seq - 1) % IpIds = 0
=============================================================================
