----------------------------- MODULE MCProgress -----------------------------
(***************************************************************************)
(* What must eventually happen, in small instances of the parts where a    *)
(* thread waits for another or tries again: the receive paths of the four  *)
(* clients, three locks and the lookups of the control plane's tables.  *)
(* As in MCOnloadShared, part is the one that moves in a behaviour.        *)
(***************************************************************************)
EXTENDS Integers

CONSTANTS Threads, WqThreads, NoThread, Null, UnlockFlags, RxCapacity, MaxFrames, RcvBuf

(* The control plane's tables: one address, one interface and one port. *)
Ips == {3}
Ifs == {4}
Ports == {6}
Wanted == {4}
Rows == 1
MaxVersion == 2
MaxWrites == 1

ASSUME NamesAssumption ==
  /\ WqThreads \subseteq Threads /\ NoThread \notin Threads /\ Null \notin Threads
  /\ 0 \notin Ips \cup Ifs \cup Ports

VARIABLES
  part,
  rx_pc, free_pkt_bufs, free_pkt_bufs_n, registered, filtered, ring, posted, evq,
  otherEvs, evs, mem, wire, handled,
  sock_pc, promisc, ifr_promisc, rcvq, bound, boundAt, frames, sent, lost,
  prev_ip_id, output_data, lines, exa_pc, exa_next,
  rw_pc, is_reader, reading_now, readers, writer, writers, mutex, write_lock,
  ep_lock, ep_pc, lv, todo, owed,
  wq_lock, wq_next, wq_pc, v, batch, ret, queued,
  version, mib, writes, cp_pc, op, arg, ver, id, lid, ifindex, rc, found, retried, truths

Rx == INSTANCE EfviRx WITH pc <- rx_pc, FillSlack <- 1, REFILL_BATCH_SIZE <- 2,
                           EV_POLL_BATCH_SIZE <- 2, PushGranule <- 2, MaxOther <- 1

Datagram == [iface |-> "ours", etype |-> "ipv4", group |-> TRUE, udp |-> TRUE,
             size |-> 70, msg |-> "best", absent |-> FALSE]
Traffic == {Datagram, [Datagram EXCEPT !.size = 64], [Datagram EXCEPT !.iface = "other"]}
IpIds == 3
StartSeqs == {0}
MaxLost == 0
Raw == INSTANCE RawSocketClient WITH pc <- sock_pc, MaxFrames <- MaxFrames - 1
Udp == INSTANCE UdpSocketClient WITH pc <- sock_pc, MaxFrames <- MaxFrames - 1,
                                     Traffic <- {Datagram, [Datagram EXCEPT !.group = FALSE]}
Exa == INSTANCE ExanicClient WITH pc <- exa_pc, next <- exa_next, MaxFrames <- MaxFrames - 1
Rw == INSTANCE RwLock WITH pc <- rw_pc
Ep == INSTANCE EpLock WITH lock <- ep_lock, pc <- ep_pc, OtherFlags <- {}
Wq == INSTANCE WqLock WITH Threads <- WqThreads, lock <- wq_lock, next <- wq_next, pc <- wq_pc
Cp == INSTANCE CpVerlock WITH pc <- cp_pc

rxVars == <<rx_pc, free_pkt_bufs, free_pkt_bufs_n, registered, filtered, ring, posted,
            evq, otherEvs, evs, mem, wire, handled>>
setupVars == <<promisc, ifr_promisc, bound, boundAt>>
clientVars == <<sock_pc, rcvq, frames, sent, lost, prev_ip_id, output_data, lines,
                exa_pc, exa_next, setupVars>>
rwVars == <<rw_pc, is_reader, reading_now, readers, writer, writers, mutex, write_lock>>
epVars == <<ep_lock, ep_pc, lv, todo, owed>>
wqVars == <<wq_lock, wq_next, wq_pc, v, batch, ret, queued>>
cpVars == <<version, mib, writes, cp_pc, op, arg, ver, id, lid, ifindex, rc, found, retried, truths>>
vars == <<part, rxVars, clientVars, rwVars, epVars, wqVars, cpVars>>

At(p) == part = p

Init ==
  /\ part \in {"efvi_rx", "raw_socket", "udp_socket", "exanic", "rwlock", "eplock", "wqlock", "tables"}
  /\ Rx!Init /\ Raw!Init /\ Exa!Init /\ Rw!Init /\ Ep!Init /\ Wq!Init /\ Cp!Init
  /\ At("tables") \/ mib[0].ipif[1].ifindex \in Wanted    \* one resting state

RxMoves(A) == At("efvi_rx") /\ A /\ UNCHANGED <<part, clientVars, rwVars, epVars, wqVars, cpVars>>
ClientMoves(A) == A /\ UNCHANGED <<part, rxVars, rwVars, epVars, wqVars, cpVars>>
RwMoves(A) == At("rwlock") /\ A /\ UNCHANGED <<part, rxVars, clientVars, epVars, wqVars, cpVars>>
EpMoves(A) == At("eplock") /\ A /\ UNCHANGED <<part, rxVars, clientVars, rwVars, wqVars, cpVars>>
WqMoves(A) == At("wqlock") /\ A /\ UNCHANGED <<part, rxVars, clientVars, rwVars, epVars, cpVars>>
CpMoves(A) == At("tables") /\ A /\ UNCHANGED <<part, rxVars, clientVars, rwVars, epVars, wqVars>>

RawStep(A) == At("raw_socket") /\ A /\ UNCHANGED <<exa_pc, exa_next>>
UdpStep(A) == At("udp_socket") /\ A /\ UNCHANGED <<prev_ip_id, setupVars, exa_pc, exa_next>>
ExaStep(A) == At("exanic") /\ A /\ UNCHANGED <<sock_pc, rcvq, setupVars>>

Next ==
  \/ RxMoves(Rx!Next) \/ ClientMoves(RawStep(Raw!Next)) \/ ClientMoves(UdpStep(Udp!Next))
  \/ ClientMoves(ExaStep(Exa!Next)) \/ RwMoves(Rw!Next)
  \/ EpMoves(Ep!Next) \/ WqMoves(Wq!Next) \/ CpMoves(Cp!Next)

(* The fairness of each part's FairSpec.  Only one part moves, so fairness *)
(* for the disjunction is fairness for the part that does.                 *)
Program ==
  \/ RxMoves(Rx!Client) \/ CpMoves(Cp!Step)
  \/ ClientMoves(RawStep(Raw!Main) \/ UdpStep(Udp!Main) \/ ExaStep(Exa!Main))
Thread(t) == EpMoves(Ep!Unlock(t)) \/ WqMoves(t \in WqThreads /\ Wq!Step(t))
PassesLock(t) == RwMoves(Rw!Proceed(t)) \/ WqMoves(t \in WqThreads /\ Wq!Unlock(t))

FairSpec ==
  /\ Init /\ [][Next]_vars
  /\ WF_vars(Program)
  /\ \A t \in Threads : WF_vars(Thread(t)) /\ SF_vars(PassesLock(t))

-----------------------------------------------------------------------------
(* The EF_VI client: every frame the adapter stored is handled or          *)
(* discarded, unless a jumbo aborts the process first.                     *)
EveryFrameHandled == Rx!EveryFrameHandled

(* The EF_VI client: init() ends, in the event loop or in an abort.        *)
InitTerminates == At("efvi_rx") => Rx!InitTerminates

(* The raw-socket and the UDP client: every frame queued on the socket is  *)
(* taken by recv() or recvfrom(), unless the program ends first.           *)
QueueServed == Raw!QueueServed /\ Udp!QueueServed

(* The ExaNIC client: whatever has arrived is behind it eventually, also   *)
(* after an overrun.                                                       *)
CatchesUp == Exa!CatchesUp

(* Nobody waits for ever.  A call of oo_rwlock_lock_write returns, however *)
(* the readers' unlocks interleave with it; a job left to the holder of an *)
(* ef_eplock is taken up, even while others keep setting flags and make    *)
(* the swap of the unlock fail; a job handed to the holder of an oo_wqlock *)
(* is run; a lookup of the control plane's tables returns once the server  *)
(* has stopped changing them.                                              *)
NobodyWaitsForEver ==
  Rw!LockWriteReturns /\ Ep!JobsGetDone /\ Wq!JobsAreRun /\ Cp!LookupReturns
=============================================================================
