---------------------------- MODULE MCOnloadShared --------------------------
(***************************************************************************)
(* Small instances of the parts of an Onload stack and of its control      *)
(* plane that several threads or processes use at once.  The parts share   *)
(* no state in these models, so they are checked side by side and not      *)
(* against each other: part is the one that moves in a behaviour, and the  *)
(* others rest in an initial state.                                        *)
(***************************************************************************)
EXTENDS OnloadCounts, OnloadQueues, OnloadWords, FiniteSetsExt, TLC

CONSTANTS p1, p2, p3,
          PartsChecked   \* the parts that move

UdpPkts == {p1, p2, p3}
NBuffers == p1 :> 1 @@ p2 :> 2 @@ p3 :> 1    \* one packet of two buffers

(* The counters of the queues wrap later than the queues are full. *)
ASSUME BoundsAssumption ==
  /\ PartsChecked \subseteq {"rwlock", "eplock", "wqlock", "refs", "pool", "udp", "acceptq",
                             "tables", "fwd"}
  /\ MaxFrees \in Nat
  /\ MapThenSumSet(LAMBDA p : NBuffers[p], UdpPkts) < CounterMod
  /\ CounterMod > Cardinality(Socks) + 2

VARIABLES
  part,
  head, tail, extract, pkts_added, pkts_delivered, pkts_reaped, udp_rx_next,
  consumed, keep, udp_ppc, pkt_in, pending, cpc, pkt, order, kept, freed

Udp == INSTANCE UdpRecvQ WITH Pkts <- UdpPkts, ppc <- udp_ppc

udpVars == <<head, tail, extract, pkts_added, pkts_delivered, pkts_reaped, udp_rx_next,
             consumed, keep, udp_ppc, pkt_in, pending, cpc, pkt, order, kept, freed>>
vars == <<part, countsVars, queuesVars, wordsVars, udpVars>>

At(p) == part = p

(* The parts that do not move rest in one initial state. *)
Rests(p, initial) == IF At(p) THEN TRUE ELSE initial

Init ==
  /\ part \in PartsChecked
  /\ Rests("refs", ref_held = [h \in RefHolders |-> IF h = CHOOSE g \in RefHolders : TRUE THEN Ref!APP ELSE 0])
  /\ Rests("pool", pool_held = [t \in PoolThreads |-> IF t = CHOOSE u \in PoolThreads : TRUE THEN PoolPkts ELSE {}])
  /\ Rests("udp", consumed = [p \in UdpPkts |-> FALSE])
  /\ Rests("fwd", data = [c \in 0 .. 1 |-> [ifindex |-> CHOOSE i \in Ifs : TRUE, arp_valid |-> FALSE]])
  /\ CountsInit /\ QueuesInit /\ WordsInit /\ Udp!Init
  /\ Rests("tables", mib[0].ipif[1].ifindex \in CpWanted)

(* At the bound on returns the pool ends up empty, with every thread idle. *)
PoolEnds ==
  /\ pool.tag = MaxFrees /\ pool.id = ListEnd /\ \A t \in PoolThreads : pool_pc[t] = "idle"
  /\ UNCHANGED queuesVars

CountsMove ==
  /\ \/ At("rwlock") /\ RwMoves
     \/ At("refs") /\ RefMoves
  /\ UNCHANGED <<part, queuesVars, wordsVars, udpVars>>
QueuesMove ==
  /\ \/ At("acceptq") /\ AccMoves
     \/ At("pool") /\ (PoolMoves \/ PoolEnds)
  /\ UNCHANGED <<part, countsVars, wordsVars, udpVars>>
WordsMove ==
  /\ \/ At("eplock") /\ EpMoves
     \/ At("wqlock") /\ WqMoves
     \/ At("tables") /\ CpMoves
     \/ At("fwd") /\ FwdMoves
  /\ UNCHANGED <<part, countsVars, queuesVars, udpVars>>
UdpMove == At("udp") /\ Udp!Next /\ UNCHANGED <<part, countsVars, queuesVars, wordsVars>>

Next == CountsMove \/ QueuesMove \/ WordsMove \/ UdpMove
Spec == Init /\ [][Next]_vars

-----------------------------------------------------------------------------
(* The types of all parts. *)
TypeOK ==
  /\ At("rwlock") => Rw!TypeOK
  /\ At("eplock") => Ep!TypeOK
  /\ At("wqlock") => Wq!TypeOK
  /\ At("refs") => Ref!TypeOK
  /\ At("tables") => Cp!TypeOK
  /\ At("fwd") => Fwd!TypeOK
  /\ At("pool") => Pool!TypeOK
  /\ At("udp") => Udp!TypeOK
  /\ At("acceptq") => Acc!TypeOK

(* The UDP receive queue: datagrams are taken once and in order, nothing   *)
(* the taker can still reach is reaped, a packet that the queue and the    *)
(* application both have is freed by the last of them, and the wrapping    *)
(* counters say what is to be taken and to be reaped.                      *)
DatagramsInOrder ==
  At("udp") => Udp!NotReapedEarly /\ Udp!FreedOnce /\ Udp!TakenInOrder /\ Udp!CountersAgree

(* cplane.h 322, of oo_cp_find_ipif_by_ip: "Returns 1 if found, 0          *)
(* otherwise."  At some time during the call the value returned was the    *)
(* answer.                                                                 *)
ReturnsWhatWasTrue == [][At("tables") => Cp!TrueStep]_vars
=============================================================================
