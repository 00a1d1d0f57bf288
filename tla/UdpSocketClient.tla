-------------------------- MODULE UdpSocketClient ---------------------------
(***************************************************************************)
(* dce-sub-socket.c: a UDP socket that joins the group.  The kernel strips *)
(* the headers, so there is no IP-ID to check, and the socket, bound to    *)
(* INADDR_ANY, also gets datagrams to its port that are not to the group.  *)
(***************************************************************************)
EXTENDS QuoteLine, Backlog

VARIABLES pc,       \* where main() is
          rcvq,     \* numbers of the frames whose datagram is queued
          output_data

clientVars == <<output_data, lines>>
vars == <<pc, rcvq, feedVars, clientVars>>

TypeOK ==
  /\ pc \in {"socket", "bind", "join", "loop", "ended"}
  /\ rcvq \in Seq(1 .. Len(frames)) /\ Len(rcvq) <= RcvBuf
  /\ output_data \in [Parts -> 0 .. Len(frames)]

Init ==
  /\ pc = "socket"
  /\ rcvq = << >>
  /\ FeedInit
  /\ output_data = [p \in Parts |-> 0]  \* uninitialised; zeroed before any use
  /\ lines = << >>

-----------------------------------------------------------------------------
OpenSocket ==
  /\ pc = "socket"
  /\ pc' = "bind"
  /\ UNCHANGED <<rcvq, feedVars, clientVars>>

Bind ==
  /\ pc = "bind"
  /\ pc' = "join"
  /\ UNCHANGED <<rcvq, feedVars, clientVars>>

Mut_JoinGroup ==
  /\ pc = "join"
  /\ pc' = "bind"
  /\ UNCHANGED <<rcvq, feedVars, clientVars>>
JoinGroup ==
  /\ pc = "join"
  /\ pc' = "loop"
  /\ UNCHANGED <<rcvq, feedVars, clientVars>>

SetupFails ==
  /\ pc \in {"socket", "bind", "join"}
  /\ pc' = "ended"
  /\ UNCHANGED <<rcvq, feedVars, clientVars>>

-----------------------------------------------------------------------------
(* The size of a datagram: the frame without its Ethernet, IP and UDP      *)
(* headers.                                                                *)
Payload(shape) == shape.size - (IF shape.etype = "dot1q" THEN 46 ELSE 42)

(* The test for an abnormal payload size, which ends the loop. *)
AbnormalSize(cnt) == cnt < 20 /\ cnt > 144

(* recvfrom() returned a datagram. *)
Recv ==
  /\ pc = "loop" /\ rcvq # << >>
  /\ rcvq' = Tail(rcvq)
  /\ LET k == Head(rcvq)
         shape == frames[k].shape
     IN  IF AbnormalSize(Payload(shape))
         THEN pc' = "ended" /\ UNCHANGED clientVars
         ELSE /\ \E r \in DecodeAndPrint(k, shape, FALSE, output_data, lines) :
                   output_data' = r.out /\ lines' = r.lines
              /\ UNCHANGED pc
  /\ UNCHANGED feedVars

(* recvfrom() failed: main() returns -1. *)
RecvFails ==
  /\ pc = "loop"
  /\ pc' = "ended"
  /\ UNCHANGED <<rcvq, feedVars, clientVars>>

-----------------------------------------------------------------------------
(* The kernel *)

(* Datagrams to the port come in once the socket is bound, those to the    *)
(* group once it has joined.                                               *)
Hears(shape) ==
  /\ shape.udp /\ shape.etype # "other"
  /\ pc \in {"join", "loop"}
  /\ shape.group => pc = "loop"

FrameArrives ==
  /\ Len(frames) < MaxFrames
  /\ \E shape \in Traffic :
       /\ Arrive(shape)
       /\ rcvq' = IF Hears(shape) THEN Queued(rcvq, Len(frames) + 1) ELSE rcvq
  /\ UNCHANGED <<pc, clientVars>>

Upstream ==
  /\ LostUpstream
  /\ UNCHANGED <<pc, rcvq, clientVars>>

Main == OpenSocket \/ Bind \/ JoinGroup \/ Recv
Failures == SetupFails \/ RecvFails
Ended == pc = "ended" /\ UNCHANGED vars

Next == Main \/ Failures \/ FrameArrives \/ Upstream \/ Ended
Spec == Init /\ [][Next]_vars
FairSpec == Spec /\ WF_vars(Main)

-----------------------------------------------------------------------------
Sub == INSTANCE Subscriber WITH
         Wanted <- {s \in Traffic : s.udp /\ s.etype # "other"},
         ChecksIpId <- FALSE

(* The socket client is a Subscriber that does not look at the IP-ID: each *)
(* datagram queued on its port, to the group or not, gives at most one     *)
(* line, in order, made of that datagram only.                             *)
ImplementsSubscriber == Sub!SubSpec

(* Every datagram queued on the socket is taken by recvfrom(), unless the  *)
(* program ends first.                                                     *)
QueueServed ==
  \A k \in 1 .. MaxFrames :
    (\E i \in 1 .. Len(rcvq) : rcvq[i] = k)
      ~> (pc = "ended" \/ \A i \in 1 .. Len(rcvq) : rcvq[i] # k)

(* The message "abnormal payload size" says that a datagram shorter than   *)
(* 20 or longer than 144 bytes is not decoded.                             *)
AbnormalNotDecoded ==
  \A i \in 1 .. Len(lines) :
    Payload(frames[lines[i].frame].shape) \in 20 .. 144
=============================================================================
