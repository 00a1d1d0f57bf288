------------------------------- MODULE MCCalls ------------------------------
(***************************************************************************)
(* Small instances of the parts whose calls do not overlap, of an Onload   *)
(* stack, of the ci tools it is built from and of the helpers given to     *)
(* EF_VI programs: what can go wrong is a long sequence of calls, an       *)
(* unusual input or a counter that wraps.  As in MCOnloadShared, part is   *)
(* the one that moves in a behaviour.                                      *)
(***************************************************************************)
EXTENDS Integers, Sequences

CONSTANTS PartsChecked,   \* the parts that move
          Null, Socks, QPkts, Waitables, Epoll, SynRecv, DlLists, Links, Values

(* PktQueue *)
Queues == {"recv1", "rob"}
Reserve == 2
(* PktAlloc *)
Pkts == 1 .. 5
SetOf == [p \in Pkts |-> IF p <= 3 THEN 1 ELSE 2]
SetsMax == 2
LowWater == 2
MaxRx == 4
MaxTx == 3
MaxHolds == 2
(* AuxMem *)
NAux == 4
Types == {Epoll, SynRecv}
MaxAux == [t \in Types |-> 2]
Batch == 2
NLists == 2
(* CrcIds *)
Ids == 1 .. 3
NoId == 0
MaxPkts == 2
MaxPayloads == 3
(* Fifo *)
Cap == 4
UINT == 16
(* DistQ *)
Size == 6
Stamps == 7
(* TimeConv: 2^32, 2^64, 1000 and 2^10 scaled down, and clock rates *)
U32 == 64
U64 == 4096
Kilo == 7
Shift == 8
Khz == {1, 3, 7, 11, 20, 40, 55}

(* FilterSpec: fields of the text *)
MaxFields == 4
(* SocketHelpers: interfaces, addresses, and the list of getifaddrs *)
Names == {"eth0", "eth0.5"}
Addrs == {"10.0.0.1", "10.0.0.2"}
MaxAddrs == 3
(* EvqRxIter: ids of the descriptors, one of them 0, one without packet *)
Ring == <<1, 0, 99, 3>>
NoReq == 99
RqIds == {0, 7}
MaxEvs == 4
MaxDescs == 2

(* What the code relies on: the buffer of a ci_fifo2 divides the range of  *)
(* its counters; the shift is no less than the factor 1000, a product of   *)
(* two unsigned values fits the wide type, and no clock is so fast (4*10^9 *)
(* kHz) that the guard cuts off a time that fits.                          *)
ASSUME WidthAssumption ==
  /\ UINT % Cap = 0 /\ UINT > Cap
  /\ U64 = U32 * U32 /\ Kilo <= Shift /\ Khz \subseteq 1 .. (U32 * Kilo) \div Shift - 1

VARIABLES
  part,
  head, tail, num, next, established, reserved_pktbufs, pending, content,
  free, nfree, n_free, id, sets_n, ref, n_rx, keep, pressure, need, use, holders,
  freeAux, nFree, n, type, total, epoll, inUse, ready, postPoll, owner,
  pool, current, retrans, twice,
  m, dl_content, self, it,
  buf1, rd1, wr1, buf2, rd2, wr2, fifo_items,
  q, rt_q, wr_i, p_wr_i, r_wr_i, rd_i, r_rd_i, ack_i, open, synced, items, seen, stamp,
  khz, cycles, usec, back,
  text, remainder, stage, rc, fs, mcast,
  op, arg, ifaddrs, pc, ifa, held, result,
  evs, start, ev, di, left, given, done

pqVars == <<head, tail, num, next, established, reserved_pktbufs, pending, content>>
paVars == <<free, nfree, n_free, id, sets_n, ref, n_rx, keep, pressure, need, use, holders>>
auxVars == <<freeAux, nFree, n, type, total, epoll, inUse, ready, postPoll, owner>>
crcVars == <<pool, current, retrans, twice>>
dlVars == <<m, dl_content, self, it>>
fifoVars == <<buf1, rd1, wr1, buf2, rd2, wr2, fifo_items>>
dqVars == <<q, rt_q, wr_i, p_wr_i, r_wr_i, rd_i, r_rd_i, ack_i, open, synced, items, seen, stamp>>
tcVars == <<khz, cycles, usec, back>>
filterVars == <<text, remainder, stage, rc, fs, mcast>>
sockVars == <<op, arg, ifaddrs, pc, ifa, held, result>>
iterVars == <<evs, start, ev, di, left, given, done>>
stackVars == <<pqVars, paVars, auxVars, crcVars, dlVars, fifoVars, dqVars, tcVars>>
helperVars == <<filterVars, sockVars, iterVars>>
vars == <<part, stackVars, helperVars>>

Pq      == INSTANCE PktQueue WITH Pkts <- QPkts
Pa      == INSTANCE PktAlloc
Aux     == INSTANCE AuxMem
Crc     == INSTANCE CrcIds
Dl      == INSTANCE DlList WITH Lists <- DlLists, content <- dl_content
Ff      == INSTANCE Fifo WITH items <- fifo_items
Dq      == INSTANCE DistQ WITH Retransmit <- FALSE
DqRt    == INSTANCE DistQ WITH Retransmit <- TRUE
Tc      == INSTANCE TimeConv
Filter  == INSTANCE FilterSpec
Sock    == INSTANCE SocketHelpers
Iter    == INSTANCE EvqRxIter

FifoRests == buf1 = [i \in 0 .. Ff!Size1 - 1 |-> CHOOSE x \in Values : TRUE] /\ Ff!Init
ClockRests == khz = 1 /\ Tc!Init
FilterRests ==
  /\ text = [type |-> "junk", rest |-> << >>] /\ remainder = << >>
  /\ stage = "type" /\ rc = "EINVAL" /\ fs = Filter!NoSpec /\ mcast = "unset"
SockRests == op = "mk_socket" /\ arg = <<"eth0", "AF_INET">> /\ ifaddrs = << >> /\ Sock!Init
IterRests ==
  /\ evs = << >> /\ start = 0
  /\ ev = 1 /\ di = 0 /\ left = 0 /\ given = << >> /\ done = FALSE
HelpersRest == FilterRests /\ SockRests /\ IterRests

Init ==
  /\ part \in PartsChecked
  /\ Pq!Init /\ Pa!Init /\ Aux!Init /\ Crc!Init /\ Dl!Init /\ Dq!Init
  /\ part \in {"distq", "distq_rt"} \/ r_wr_i = 0
  /\ \/ /\ part \in {"pktqueue", "pktalloc", "aux", "crc", "dllist", "distq", "distq_rt"}
        /\ FifoRests /\ ClockRests /\ HelpersRest
     \/ part = "fifo" /\ Ff!Init /\ ClockRests /\ HelpersRest
     \/ part = "timeconv" /\ FifoRests /\ Tc!Init /\ HelpersRest
     \/ part = "filter" /\ FifoRests /\ ClockRests /\ Filter!Init /\ SockRests /\ IterRests
     \/ part = "socket" /\ FifoRests /\ ClockRests /\ FilterRests /\ Sock!Init /\ IterRests
     \/ part = "iter" /\ FifoRests /\ ClockRests /\ FilterRests /\ SockRests /\ Iter!Init

(* The caller of the iterator stops at the end of the batch. *)
IterEnds == done /\ UNCHANGED iterVars

Next ==
  \/ /\ part = "pktqueue" /\ Pq!Next
     /\ UNCHANGED <<part, paVars, auxVars, crcVars, dlVars, fifoVars, dqVars, tcVars, helperVars>>
  \/ /\ part = "pktalloc" /\ Pa!Next
     /\ UNCHANGED <<part, pqVars, auxVars, crcVars, dlVars, fifoVars, dqVars, tcVars, helperVars>>
  \/ /\ part = "aux" /\ Aux!Next
     /\ UNCHANGED <<part, pqVars, paVars, crcVars, dlVars, fifoVars, dqVars, tcVars, helperVars>>
  \/ /\ part = "crc" /\ Crc!Next
     /\ UNCHANGED <<part, pqVars, paVars, auxVars, dlVars, fifoVars, dqVars, tcVars, helperVars>>
  \/ /\ part = "dllist" /\ Dl!Next
     /\ UNCHANGED <<part, pqVars, paVars, auxVars, crcVars, fifoVars, dqVars, tcVars, helperVars>>
  \/ /\ part = "fifo" /\ Ff!Next
     /\ UNCHANGED <<part, pqVars, paVars, auxVars, crcVars, dlVars, dqVars, tcVars, helperVars>>
  \/ /\ (part = "distq" /\ Dq!Next) \/ (part = "distq_rt" /\ DqRt!Next)
     /\ UNCHANGED <<part, pqVars, paVars, auxVars, crcVars, dlVars, fifoVars, tcVars, helperVars>>
  \/ /\ part = "timeconv" /\ Tc!Next
     /\ UNCHANGED <<part, pqVars, paVars, auxVars, crcVars, dlVars, fifoVars, dqVars, helperVars>>
  \/ part = "filter" /\ Filter!Next /\ UNCHANGED <<part, stackVars, sockVars, iterVars>>
  \/ part = "socket" /\ Sock!Next /\ UNCHANGED <<part, stackVars, filterVars, iterVars>>
  \/ part = "iter" /\ (Iter!Next \/ IterEnds) /\ UNCHANGED <<part, stackVars, filterVars, sockVars>>
Spec == Init /\ [][Next]_vars

-----------------------------------------------------------------------------
(* The types of the parts. *)
TypeOK ==
  CASE part = "pktqueue" -> Pq!TypeOK
    [] part = "pktalloc" -> Pa!TypeOK
    [] part = "aux" -> Aux!TypeOK
    [] part = "crc" -> Crc!TypeOK
    [] part = "dllist" -> Dl!TypeOK
    [] part = "fifo" -> Ff!TypeOK
    [] part \in {"distq", "distq_rt"} -> Dq!TypeOK
    [] part = "timeconv" -> usec \in 0 .. U32 - 1 /\ back \in 0 .. U64 - 1
    [] part = "filter" -> Filter!TypeOK
    [] part = "socket" -> Sock!TypeOK
    [] part = "iter" -> Iter!TypeOK

(* ci_ip_queue_*: the links, the tail and the count of a queue are those   *)
(* of the packets it should hold, whatever old links are left behind, and  *)
(* reserved_pktbufs is the sum of what the established sockets may claim.  *)
QueuesFollowContent == part = "pktqueue" => Pq!LinksFollowContent /\ Pq!ReserveIsExact

(* Nothing leaks.  ci_netif_pkt_*: a packet is free, once, exactly when    *)
(* nobody may release it, and transmit stays within its share.  ci_ni_aux_ *)
(* functions: a buffer is free, once, or has one owner, and no use exceeds *)
(* its limit.  ci_nvme_plugin_crc_*: a checksum id is in the pool exactly  *)
(* when it is not held, and is there once unless a dropped queue used it   *)
(* in two packets: see IdsFreedOnce.                                       *)
ResourcesAccountedFor ==
  /\ part = "pktalloc" => Pa!FreeOrHeld /\ Pa!TxWithinLimit
  /\ part = "aux" => Aux!BuffersAccountedFor
  /\ part = "crc" => Crc!IdsAccountedFor

(* ci_netif_pkt_tx_may_alloc: under memory pressure transmit leaves the    *)
(* packets that the receive rings need.                                    *)
PressureSparesRx == [][part = "pktalloc" => Pa!SparesRx]_vars

(* ci_dllist_*: both ways round a list passes through its content, and a   *)
(* loop that removes the link it is at visits every link once.  The ready  *)
(* lists: none runs through an epoll state whose buffer has been freed.    *)
ListsIntact ==
  /\ part = "dllist" => Dl!LinkedBothWays /\ Dl!LoopVisitsEach
  /\ part = "aux" => Aux!NoFreedLink

(* Ring buffers.  ci_fifo and ci_fifo2 hold the items in order through     *)
(* every wrap, and what they say of items and room is exact, a ci_fifo2 of *)
(* 2^n slots being full with 2^n items.  ci_distq_*: the reader finds the  *)
(* items in order, none is written over before it is read or acknowledged, *)
(* stale indices err on the safe side only, and what the writer says of    *)
(* unsent items is exact from its first sync on.                           *)
BuffersInOrder ==
  /\ part = "fifo" => Ff!BothHoldTheItems /\ Ff!CountsAreExact
  /\ part = "distq" => Dq!InOrder /\ Dq!CountsAreSafe
  /\ part = "distq_rt" => DqRt!InOrder /\ DqRt!CountsAreSafe

(* filter_parse accepts the texts of the grammar and, outside it, those of *)
(* three named kinds only, whatever its strtok() calls cut off under one   *)
(* another; an accepted text gives the option, the addresses and the VLAN  *)
(* that it says, or VLAN 0 when that is not a number (InvalidVlanRefused). *)
FiltersParsed == part = "filter" => Filter!AcceptsTheGrammar /\ Filter!MeansWhatItSays

(* mk_socket and its siblings: no socket and no list of interfaces is left *)
(* behind on any way out, and the first entry that fits is found.          *)
HelpersCleanUp == part = "socket" => Sock!NothingLeftOpen /\ Sock!FirstThatFits

(* Computations against their reference.  ef_vi_evq_rx_iter_next gives the *)
(* ids of the packets of the batch, in order, and no others, up to the     *)
(* first id that is 0 (see ZeroAtTheEnd); cycles are converted to          *)
(* microseconds and back within one as long as the time fits an unsigned,  *)
(* wrap above that (DoesNotWrap), and a time that is not zero stays so.    *)
MatchesReference ==
  /\ part = "iter" => Iter!GivesThePackets
  /\ part = "timeconv" => Tc!NonZeroKept /\ Tc!ThereAndBack

-----------------------------------------------------------------------------
(* Comments of the source that the code does not bear out. *)

(* ci_nvme_plugin_crc_packet_cleanup frees an id only if it is different   *)
(* from the preceding one, and therefore newly allocated: once.            *)
IdsFreedOnce == part = "crc" => Crc!IdsFreedOnce

(* ef_vi_evq_rx_iter_next returns 0 when all descriptors and events have   *)
(* been processed, and not before.                                         *)
ZeroAtTheEnd == part = "iter" => Iter!ZeroAtTheEnd

(* oo_cycles64_to_usec does not wrap on big values. *)
DoesNotWrap == part = "timeconv" => Tc!DoesNotWrap

(* consume_parameter leaves NULL when the argument is invalid, so that a   *)
(* VLAN that is not a number is refused.                                   *)
InvalidVlanRefused == part = "filter" => Filter!InvalidVlanRefused
=============================================================================
