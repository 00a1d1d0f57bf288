---------------------------- MODULE ExanicClient ----------------------------
(***************************************************************************)
(* EXANIC/dce-sub-exanic.c: the program polls the receive buffer of an     *)
(* ExaNIC port.  The adapter writes that buffer in a circle and does not   *)
(* wait for the program: one that falls a whole turn behind loses frames.  *)
(***************************************************************************)
EXTENDS QuoteLine, Backlog

VARIABLES pc,    \* where main() is
          next,  \* number of the frame exanic_receive_frame returns next
          prev_ip_id, output_data

clientVars == <<prev_ip_id, output_data, lines>>
vars == <<pc, next, feedVars, clientVars>>

TypeOK ==
  /\ pc \in {"args", "handle", "rxbuffer", "loop", "ended"}
  /\ next \in 1 .. Len(frames) + 1
  /\ prev_ip_id \in 0 .. IpIds - 1
  /\ output_data \in [Parts -> 0 .. Len(frames)]

Init ==
  /\ pc = "args"
  /\ next = 1
  /\ FeedInit
  /\ prev_ip_id = 0
  /\ output_data = [p \in Parts |-> 0]  \* uninitialised; zeroed before any use
  /\ lines = << >>

-----------------------------------------------------------------------------
(* "exanic0:1" is split into device and port. *)
ParseArgs ==
  /\ pc = "args"
  /\ pc' = "handle"
  /\ UNCHANGED <<next, feedVars, clientVars>>

AcquireHandle ==
  /\ pc = "handle"
  /\ pc' = "rxbuffer"
  /\ UNCHANGED <<next, feedVars, clientVars>>

(* The receive buffer is read from where the adapter is by then. *)
AcquireRxBuffer ==
  /\ pc = "rxbuffer"
  /\ next' = Len(frames) + 1
  /\ pc' = "loop"
  /\ UNCHANGED <<feedVars, clientVars>>

(* Bad arguments, no device, no buffer: return -1. *)
SetupFails ==
  /\ pc \in {"args", "handle", "rxbuffer"}
  /\ pc' = "ended"
  /\ UNCHANGED <<next, feedVars, clientVars>>

-----------------------------------------------------------------------------
Accepts(shape) == shape.size > 64 /\ shape.etype # "other" /\ shape.group

Overrun == Len(frames) - next >= RcvBuf

(* exanic_receive_frame returned a frame; the filters, the IP-ID check and *)
(* the line printed.                                                       *)
Mut_Receive ==
  /\ pc = "loop" /\ next <= Len(frames) /\ ~Overrun
  /\ next' = next + 1
  /\ LET shape == frames[next].shape
         id == IpId(frames[next])
     IN  \/ ~Accepts(shape) /\ UNCHANGED clientVars
         \/ /\ Accepts(shape)
            /\ prev_ip_id' = prev_ip_id + 1
            /\ \E r \in DecodeAndPrint(next, shape, Gap(prev_ip_id, id),
                                       output_data, lines) :
                 output_data' = r.out /\ lines' = r.lines
  /\ UNCHANGED <<pc, feedVars>>
Receive ==
  /\ pc = "loop" /\ next <= Len(frames) /\ ~Overrun
  /\ next' = next + 1
  /\ LET shape == frames[next].shape
         id == IpId(frames[next])
     IN  \/ ~Accepts(shape) /\ UNCHANGED clientVars
         \/ /\ Accepts(shape)
            /\ prev_ip_id' = id
            /\ \E r \in DecodeAndPrint(next, shape, Gap(prev_ip_id, id),
                                       output_data, lines) :
                 output_data' = r.out /\ lines' = r.lines
  /\ UNCHANGED <<pc, feedVars>>

(* It returned a negative number for a corrupt or aborted frame, which is  *)
(* gone; "size > 64" is false and nothing is printed.                      *)
Mut_ReceiveBadFrame ==
  /\ pc = "loop" /\ next <= Len(frames) /\ ~Overrun
  /\ pc' = "ended"
  /\ UNCHANGED <<next, feedVars, clientVars>>
ReceiveBadFrame ==
  /\ pc = "loop" /\ next <= Len(frames) /\ ~Overrun
  /\ next' = next + 1
  /\ UNCHANGED <<pc, feedVars, clientVars>>

(* It returned a negative number because the adapter had overtaken the     *)
(* program; reading resumes at the adapter's position.                     *)
ReceiveOverrun ==
  /\ pc = "loop" /\ Overrun
  /\ next' = Len(frames) + 1
  /\ UNCHANGED <<pc, feedVars, clientVars>>

FrameArrives ==
  /\ Len(frames) < MaxFrames
  /\ \E shape \in Traffic : Arrive(shape)
  /\ UNCHANGED <<pc, next, clientVars>>

Upstream ==
  /\ LostUpstream
  /\ UNCHANGED <<pc, next, clientVars>>

(* Nothing received: the loop polls again.  Or the program has ended. *)
Idle ==
  /\ pc = "ended" \/ (pc = "loop" /\ next > Len(frames))
  /\ UNCHANGED vars

Main == ParseArgs \/ AcquireHandle \/ AcquireRxBuffer
        \/ Receive \/ ReceiveBadFrame \/ ReceiveOverrun

Next == Main \/ SetupFails \/ FrameArrives \/ Upstream \/ Idle
Spec == Init /\ [][Next]_vars

(* The loop polls without ever blocking. *)
FairSpec == Spec /\ WF_vars(Main)

-----------------------------------------------------------------------------
Sub == INSTANCE Subscriber WITH Wanted <- {s \in Traffic : Accepts(s)},
                                ChecksIpId <- TRUE

(* The ExaNIC client is a Subscriber; in particular the frames lost to a   *)
(* negative return value, of which nothing is printed, show as a gap at    *)
(* the next frame it accepts.                                              *)
ImplementsSubscriber == Sub!SubSpec

(* The program catches up: whatever has arrived is behind it eventually,   *)
(* also after an overrun.                                                  *)
CatchesUp ==
  \A k \in 1 .. MaxFrames :
    (pc = "loop" /\ Len(frames) >= k) ~> (next > k)
=============================================================================
