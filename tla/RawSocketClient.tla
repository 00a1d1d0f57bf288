--------------------------- MODULE RawSocketClient --------------------------
(***************************************************************************)
(* RAWSOCK/dce-sub-raw-socket.c: a packet socket bound to one interface.   *)
(* The kernel queues frames for the socket while the program sets it up    *)
(* and while it works: from every interface until bind(), from the bound   *)
(* one afterwards.                                                         *)
(***************************************************************************)
EXTENDS QuoteLine, Backlog

VARIABLES pc,           \* where main() is
          promisc,      \* the interface is in promiscuous mode
          ifr_promisc,  \* IFF_PROMISC in req.ifr_flags
          rcvq,         \* numbers of the frames queued on the socket
          bound,        \* the socket takes frames of our interface only
          boundAt,      \* history: frames that had arrived when bind() returned
          prev_ip_id, output_data

clientVars == <<prev_ip_id, output_data, lines>>
vars == <<pc, promisc, ifr_promisc, rcvq, bound, boundAt, feedVars, clientVars>>

Pcs == {"socket", "getflags", "promisc", "bind", "loop", "ended"}

TypeOK ==
  /\ pc \in Pcs
  /\ promisc \in BOOLEAN /\ ifr_promisc \in BOOLEAN
  /\ rcvq \in Seq(1 .. Len(frames)) /\ Len(rcvq) <= RcvBuf
  /\ bound \in BOOLEAN /\ boundAt \in 0 .. Len(frames)
  /\ prev_ip_id \in 0 .. IpIds - 1
  /\ output_data \in [Parts -> 0 .. Len(frames)]

Init ==
  /\ pc = "socket"
  /\ promisc = FALSE /\ ifr_promisc = FALSE
  /\ rcvq = << >> /\ bound = FALSE /\ boundAt = 0
  /\ FeedInit
  /\ prev_ip_id = 0
  /\ output_data = [p \in Parts |-> 0]  \* uninitialised; zeroed before any use
  /\ lines = << >>

-----------------------------------------------------------------------------
(* main() up to the loop *)

(* socket(PF_PACKET, SOCK_RAW, ETH_P_ALL): frames of all interfaces. *)
OpenSocket ==
  /\ pc = "socket"
  /\ pc' = "getflags"
  /\ UNCHANGED <<promisc, ifr_promisc, rcvq, bound, boundAt, feedVars, clientVars>>

(* SIOCGIFFLAGS, then IFF_PROMISC is added to the flags it returned. *)
GetFlags ==
  /\ pc = "getflags"
  /\ ifr_promisc' = TRUE
  /\ pc' = "promisc"
  /\ UNCHANGED <<promisc, rcvq, bound, boundAt, feedVars, clientVars>>

(* The second ioctl is SIOCGIFFLAGS again: it reads the flags back. *)
Mut_SetPromisc ==
  /\ pc = "promisc"
  /\ ifr_promisc' = promisc
  /\ pc' = IF promisc THEN "bind" ELSE "getflags"
  /\ UNCHANGED <<promisc, rcvq, bound, boundAt, feedVars, clientVars>>
SetPromisc ==
  /\ pc = "promisc"
  /\ ifr_promisc' = promisc
  /\ pc' = "bind"
  /\ UNCHANGED <<promisc, rcvq, bound, boundAt, feedVars, clientVars>>

(* bind() to the index of the interface. *)
Mut_Bind ==
  /\ pc = "bind"
  /\ boundAt' = Len(frames)
  /\ pc' = "loop"
  /\ UNCHANGED <<bound, promisc, ifr_promisc, rcvq, feedVars, clientVars>>
Bind ==
  /\ pc = "bind"
  /\ bound' = TRUE
  /\ boundAt' = Len(frames)
  /\ pc' = "loop"
  /\ UNCHANGED <<promisc, ifr_promisc, rcvq, feedVars, clientVars>>

(* A failing call ends the program. *)
SetupFails ==
  /\ pc \in {"socket", "getflags", "promisc", "bind"}
  /\ pc' = "ended"
  /\ UNCHANGED <<promisc, ifr_promisc, rcvq, bound, boundAt, feedVars, clientVars>>

-----------------------------------------------------------------------------
(* The loop *)

Accepts(shape) == shape.size > 64 /\ shape.etype # "other" /\ shape.group

(* recv() returned a frame. *)
Mut_Recv ==
  /\ pc = "loop" /\ rcvq # << >>
  /\ rcvq' = Tail(rcvq)
  /\ LET k == Head(rcvq)
         shape == frames[k].shape
         id == IpId(frames[k])
     IN  \/ ~Accepts(shape) /\ UNCHANGED clientVars
         \/ /\ Accepts(shape)
            /\ prev_ip_id' = prev_ip_id + 1
            /\ \E r \in DecodeAndPrint(k, shape, Gap(prev_ip_id, id), output_data, lines) :
                 output_data' = r.out /\ lines' = r.lines
  /\ UNCHANGED <<pc, promisc, ifr_promisc, bound, boundAt, feedVars>>
Recv ==
  /\ pc = "loop" /\ rcvq # << >>
  /\ rcvq' = Tail(rcvq)
  /\ LET k == Head(rcvq)
         shape == frames[k].shape
         id == IpId(frames[k])
     IN  \/ ~Accepts(shape) /\ UNCHANGED clientVars
         \/ /\ Accepts(shape)
            /\ prev_ip_id' = id
            /\ \E r \in DecodeAndPrint(k, shape, Gap(prev_ip_id, id), output_data, lines) :
                 output_data' = r.out /\ lines' = r.lines
  /\ UNCHANGED <<pc, promisc, ifr_promisc, bound, boundAt, feedVars>>

(* recv() failed, as when the interface goes down: break, and main()       *)
(* returns 0.                                                              *)
RecvFails ==
  /\ pc = "loop"
  /\ pc' = "ended"
  /\ UNCHANGED <<promisc, ifr_promisc, rcvq, bound, boundAt, feedVars, clientVars>>

-----------------------------------------------------------------------------
(* The kernel *)

(* The socket exists, and takes frames of the shape's interface. *)
Hears(shape) ==
  /\ pc \notin {"socket", "ended"}
  /\ bound => shape.iface = "ours"

FrameArrives ==
  /\ Len(frames) < MaxFrames
  /\ \E shape \in Traffic :
       /\ Arrive(shape)
       /\ rcvq' = IF Hears(shape) THEN Queued(rcvq, Len(frames) + 1) ELSE rcvq
  /\ UNCHANGED <<pc, promisc, ifr_promisc, bound, boundAt, clientVars>>

Upstream ==
  /\ LostUpstream
  /\ UNCHANGED <<pc, promisc, ifr_promisc, rcvq, bound, boundAt, clientVars>>

Main == OpenSocket \/ GetFlags \/ SetPromisc \/ Bind \/ Recv
Failures == SetupFails \/ RecvFails
Kernel == FrameArrives \/ Upstream
Ended == pc = "ended" /\ UNCHANGED vars

Next == Main \/ Failures \/ Kernel \/ Ended
Spec == Init /\ [][Next]_vars

(* The program takes its next step unless recv() has nothing for it; no    *)
(* fairness is needed of failures or of the network.                       *)
FairSpec == Spec /\ WF_vars(Main)

-----------------------------------------------------------------------------
Sub == INSTANCE Subscriber WITH Wanted <- {s \in Traffic : Accepts(s)},
                                ChecksIpId <- TRUE

(* The raw-socket client is a Subscriber of whatever interface its frames  *)
(* come from: in order, at most once, each line from its own frame only,   *)
(* with a gap warning exactly when the IP-ID jumps.                        *)
ImplementsSubscriber == Sub!SubSpec

(* A frame of another interface is reported only if it was queued before   *)
(* bind() returned: binding does not empty the queue.                      *)
ForeignOnlyBeforeBind ==
  \A i \in 1 .. Len(lines) :
    frames[lines[i].frame].shape.iface = "other" => lines[i].frame <= boundAt

(* Every frame queued on the socket is taken by recv(), unless the program *)
(* ends first.                                                             *)
QueueServed ==
  \A k \in 1 .. MaxFrames :
    (\E i \in 1 .. Len(rcvq) : rcvq[i] = k)
      ~> (pc = "ended" \/ \A i \in 1 .. Len(rcvq) : rcvq[i] # k)

(* The comment on the second ioctl: it puts the interface in promiscuous   *)
(* mode.                                                                   *)
PromiscuousInLoop == pc = "loop" => promisc
=============================================================================
