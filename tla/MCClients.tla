----------------------------- MODULE MCClients ------------------------------
(***************************************************************************)
(* Small instances of the four clients, and of what a subscriber promises. *)
(* client is the one that runs in a behaviour; each meets the shapes of    *)
(* frame that it tells apart.                                              *)
(***************************************************************************)
EXTENDS QuoteLine, Backlog

CONSTANTS ClientsChecked   \* the clients that run

VARIABLES client, output_data, pc, rcvq, prev_ip_id,
          promisc, ifr_promisc, bound, boundAt,   \* of the raw socket
          next,                                   \* of the ExaNIC
          free_pkt_bufs, free_pkt_bufs_n, registered, filtered, ring, posted, evq,
          otherEvs, evs, mem, wire, handled       \* of EF_VI

subVars == <<frames, sent, lost, lines>>
setupVars == <<promisc, ifr_promisc, bound, boundAt>>
rxVars == <<free_pkt_bufs, free_pkt_bufs_n, registered, filtered, ring, posted, evq,
            otherEvs, evs, mem, wire, handled>>
vars == <<client, subVars, output_data, pc, rcvq, prev_ip_id, setupVars, next, rxVars>>

Datagram == [iface |-> "ours", etype |-> "ipv4", group |-> TRUE, udp |-> TRUE,
             size |-> 74, msg |-> "best", absent |-> FALSE]
Bad == [Datagram EXCEPT !.msg = "bad"]
Deep == [Datagram EXCEPT !.msg = "deep", !.size = 112, !.absent = TRUE]
Tagged == [Deep EXCEPT !.etype = "dot1q"]
OtherGroup == [Datagram EXCEPT !.group = FALSE]
NotUdp == [Datagram EXCEPT !.udp = FALSE]

MCTraffic == {Datagram, Bad, Deep, Tagged, OtherGroup, NotUdp}

Raw == INSTANCE RawSocketClient WITH
         Traffic <- {Datagram, Tagged, Bad, [Datagram EXCEPT !.size = 64],
                     [Datagram EXCEPT !.iface = "other"]}
Udp == INSTANCE UdpSocketClient WITH
         Traffic <- {Datagram, Deep, [Bad EXCEPT !.size = 60], OtherGroup, NotUdp}
Exa == INSTANCE ExanicClient WITH
         Traffic <- {Datagram, Tagged, Bad, NotUdp, [Datagram EXCEPT !.etype = "other"]}
Efvi == INSTANCE EfviClient WITH
          Traffic <- {Datagram, Deep, Bad, OtherGroup},
          RxCapacity <- 3, FillSlack <- 1, REFILL_BATCH_SIZE <- 1, EV_POLL_BATCH_SIZE <- 1,
          PushGranule <- 1, MaxOther <- 0
Abs == INSTANCE Subscriber WITH
         StartSeqs <- {0, 2}, MaxLost <- IpIds, ChecksIpId <- TRUE,
         Traffic <- {Datagram, NotUdp, OtherGroup}, Wanted <- {Datagram, NotUdp}

SetupRests == promisc = FALSE /\ ifr_promisc = FALSE /\ bound = FALSE /\ boundAt = 0

RxRests ==
  /\ registered = FALSE /\ filtered = FALSE
  /\ free_pkt_bufs = << >> /\ ring = << >> /\ evq = << >> /\ evs = << >>
  /\ mem = << >> /\ handled = << >>
  /\ free_pkt_bufs_n = 0 /\ posted = 0 /\ otherEvs = 0 /\ wire = 0

Init ==
  /\ client \in ClientsChecked
  /\ \/ client = "raw_socket" /\ Raw!Init /\ next = 1 /\ RxRests
     \/ client = "udp_socket" /\ Udp!Init /\ next = 1 /\ prev_ip_id = 0 /\ SetupRests /\ RxRests
     \/ client = "exanic" /\ Exa!Init /\ rcvq = << >> /\ SetupRests /\ RxRests
     \/ client = "efvi" /\ Efvi!ClientInit /\ rcvq = << >> /\ next = 1 /\ SetupRests
     \/ /\ client = "subscriber" /\ Abs!SubInit
        /\ pc = "loop" /\ rcvq = << >> /\ next = 1 /\ prev_ip_id = 0
        /\ output_data = << >> /\ SetupRests /\ RxRests

(* The abstract subscriber may end at any time. *)
Next ==
  \/ client = "raw_socket" /\ Raw!Next /\ UNCHANGED <<client, next, rxVars>>
  \/ /\ client = "udp_socket" /\ Udp!Next
     /\ UNCHANGED <<client, next, prev_ip_id, setupVars, rxVars>>
  \/ client = "exanic" /\ Exa!Next /\ UNCHANGED <<client, rcvq, setupVars, rxVars>>
  \/ client = "efvi" /\ Efvi!ClientNext /\ UNCHANGED <<client, rcvq, setupVars, next>>
  \/ /\ client = "subscriber" /\ Abs!SubNext /\ Len(frames') <= MaxFrames + 1
     /\ UNCHANGED <<client, output_data, pc, rcvq, prev_ip_id, setupVars, next, rxVars>>
  \/ client = "subscriber" /\ UNCHANGED vars
Spec == Init /\ [][Next]_vars

-----------------------------------------------------------------------------
(* The types of the clients. *)
TypeOK ==
  /\ client = "raw_socket" => Raw!TypeOK
  /\ client = "udp_socket" => Udp!TypeOK
  /\ client = "exanic" => Exa!TypeOK
  /\ client = "efvi" => Efvi!TypeOK

(* The four clients are subscribers: what they print are the wanted       *)
(* frames in the order of arrival, each at most once, each line made of    *)
(* its own frame only, with a gap warning exactly when the IP-ID jumps (or *)
(* never, from the UDP socket), whatever the kernel or the adapter drops   *)
(* and through EF_VI's ring, batches and reuse of buffers.                 *)
ImplementsSubscriber ==
  /\ client = "raw_socket" => Raw!Sub!SubInit
  /\ client = "udp_socket" => Udp!Sub!SubInit
  /\ client = "exanic" => Exa!Sub!SubInit
  /\ client = "efvi" => Efvi!Sub!SubInit
  /\ [][/\ client = "raw_socket" => Raw!Sub!SubNext
        /\ client = "udp_socket" => Udp!Sub!SubNext
        /\ client = "exanic" => Exa!Sub!SubNext
        /\ client = "efvi" => Efvi!Sub!SubNext]_subVars

(* RAWSOCK: a frame of another interface is reported only if it was queued *)
(* before bind() returned: binding does not empty the queue.               *)
ForeignOnlyBeforeBind == client = "raw_socket" => Raw!ForeignOnlyBeforeBind

(* What a gap warning means, for the abstract subscriber and the clients   *)
(* that check the IP-ID: between two lines of the feed no warning is       *)
(* printed when no datagram is missing, also when the ID wraps, and        *)
(* silence means that a multiple of IpIds is missing.                      *)
GapReporting == client # "udp_socket" => Abs!GapReporting

-----------------------------------------------------------------------------
(* The comment on the second ioctl of RAWSOCK: it puts the interface in    *)
(* promiscuous mode.                                                       *)
PromiscuousInLoop == client = "raw_socket" => Raw!PromiscuousInLoop

(* The message "abnormal payload size" of dce-sub-socket.c: a datagram     *)
(* shorter than 20 or longer than 144 bytes is not decoded.                *)
AbnormalNotDecoded == client = "udp_socket" => Udp!AbnormalNotDecoded
=============================================================================
