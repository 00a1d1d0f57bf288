------------------------------ MODULE UdpRecvQ ------------------------------
(***************************************************************************)
(* The receive queue of an Onload UDP socket (ci/internal/ip.h): packets   *)
(* linked through udp_rx_next.  The holder of the stack lock adds packets  *)
(* and reaps delivered ones from the head; the holder of the socket lock   *)
(* takes packets at extract.  Nothing but the counters and the position of *)
(* extract keeps the two apart.                                            *)
(***************************************************************************)
EXTENDS Integers, Sequences, FiniteSets, FiniteSetsExt

CONSTANTS Pkts, Null,
          NBuffers,   \* n_buffers of each packet
          CounterMod  \* 2 to the width of the counters

VARIABLES head, tail, extract,
          pkts_added, pkts_delivered, pkts_reaped,
          udp_rx_next, consumed, keep,   \* of each packet; the last two are rx_flags
          ppc, pkt_in, pending,          \* the adder: place, packet, buffers not yet visible
          cpc, pkt,                      \* the taker: place and packet
          order,    \* packets linked and not delivered, oldest first
          kept,     \* packets the application keeps after delivery
          freed     \* packets that are free

qVars == <<head, tail, extract>>
counters == <<pkts_added, pkts_delivered, pkts_reaped>>
pktVars == <<udp_rx_next, consumed, keep>>
adder == <<ppc, pkt_in, pending>>
taker == <<cpc, pkt>>
ghost == <<order, kept, freed>>
vars == <<qVars, counters, pktVars, adder, taker, ghost>>

Counter == 0 .. CounterMod - 1
PktOrNull == Pkts \cup {Null}

TypeOK ==
  /\ {head, tail, extract, pkt_in, pkt} \subseteq PktOrNull
  /\ {pkts_added, pkts_delivered, pkts_reaped} \subseteq Counter
  /\ udp_rx_next \in [Pkts -> PktOrNull]
  /\ consumed \in [Pkts -> BOOLEAN] /\ keep \in [Pkts -> BOOLEAN]
  /\ ppc \in {"idle", "link", "reap", "tail", "reap_only"} /\ cpc \in {"idle", "get", "have"}
  /\ pending \in Nat /\ order \in Seq(Pkts) /\ kept \subseteq Pkts /\ freed \subseteq Pkts

(* ci_udp_recv_q_init; rx_flags of a free packet are what is left of its   *)
(* last use.                                                               *)
Init ==
  /\ head = Null /\ tail = Null /\ extract = Null
  /\ pkts_added = 0 /\ pkts_delivered = 0 /\ pkts_reaped = 0
  /\ udp_rx_next = [p \in Pkts |-> Null]
  /\ consumed \in [Pkts -> BOOLEAN] /\ keep = [p \in Pkts |-> FALSE]
  /\ ppc = "idle" /\ pkt_in = Null /\ pending = 0
  /\ cpc = "idle" /\ pkt = Null
  /\ order = << >> /\ kept = {} /\ freed = Pkts

IsEmpty == pkts_added = pkts_delivered

-----------------------------------------------------------------------------
(* The holder of the stack lock *)

(* ci_udp_recv_q_put_pending, before the barrier. *)
PutPending(p) ==
  /\ ppc = "idle" /\ p \in freed
  /\ consumed' = [consumed EXCEPT ![p] = FALSE]
  /\ udp_rx_next' = [udp_rx_next EXCEPT ![p] = Null]
  /\ ppc' = "link" /\ pkt_in' = p
  /\ freed' = freed \ {p}
  /\ UNCHANGED <<qVars, counters, keep, pending, taker, order, kept>>

(* After the barrier: the packet becomes reachable. *)
Link ==
  /\ ppc = "link"
  /\ IF head # Null
     THEN /\ udp_rx_next' = [udp_rx_next EXCEPT ![tail] = pkt_in]
          /\ ppc' = "reap"
          /\ UNCHANGED <<head, extract>>
     ELSE /\ head' = pkt_in /\ extract' = pkt_in
          /\ ppc' = "tail"
          /\ UNCHANGED udp_rx_next
  /\ order' = Append(order, pkt_in)
  /\ UNCHANGED <<tail, counters, consumed, keep, pkt_in, pending, taker, kept, freed>>

(* The condition of the loop of ci_udp_recv_q_reap. *)
Reapable == head # extract

Mut_ReleaseCheckKeep(p) == keep' = [keep EXCEPT ![p] = FALSE] /\ freed' = freed \cup {p}
(* ci_netif_pkt_release_check_keep: the flag counts as a reference. *)
ReleaseCheckKeep(p) ==
  IF keep[p] THEN keep' = [keep EXCEPT ![p] = FALSE] /\ UNCHANGED freed
             ELSE freed' = freed \cup {p} /\ UNCHANGED keep

(* One round of ci_udp_recv_q_reap. *)
Reap ==
  /\ ppc \in {"reap", "reap_only"} /\ Reapable
  /\ head' = udp_rx_next[head]
  /\ ReleaseCheckKeep(head)
  /\ pkts_reaped' = (pkts_reaped + NBuffers[head]) % CounterMod
  /\ UNCHANGED <<tail, extract, pkts_added, pkts_delivered, udp_rx_next, consumed, adder, taker, order, kept>>

ReapDone ==
  /\ ppc \in {"reap", "reap_only"} /\ ~Reapable
  /\ ppc' = IF ppc = "reap" THEN "tail" ELSE "idle"
  /\ UNCHANGED <<qVars, counters, pktVars, pkt_in, pending, taker, ghost>>

(* The stack also reaps when it is short of packets. *)
StartReap ==
  /\ ppc = "idle" /\ head # Null
  /\ ppc' = "reap_only"
  /\ UNCHANGED <<qVars, counters, pktVars, pkt_in, pending, taker, ghost>>

SetTail ==
  /\ ppc = "tail"
  /\ tail' = pkt_in /\ pkt_in' = Null
  /\ ppc' = "idle"
  /\ pending' = pending + NBuffers[pkt_in]
  /\ UNCHANGED <<head, extract, counters, pktVars, taker, ghost>>

(* ci_udp_recv_q_put_complete, for one packet or for several at once. *)
PutComplete ==
  /\ ppc = "idle" /\ pending > 0
  /\ pkts_added' = (pkts_added + pending) % CounterMod
  /\ pending' = 0
  /\ UNCHANGED <<qVars, pkts_delivered, pkts_reaped, pktVars, ppc, pkt_in, taker, ghost>>

(* The application gives back a packet that it kept, under the stack lock. *)
ReleaseKept(p) ==
  /\ ppc = "idle" /\ p \in kept
  /\ ReleaseCheckKeep(p)
  /\ kept' = kept \ {p}
  /\ UNCHANGED <<qVars, counters, udp_rx_next, consumed, adder, taker, order>>

-----------------------------------------------------------------------------
(* The holder of the socket lock *)

(* ci_udp_recv_q_get up to the barrier. *)
Get ==
  /\ cpc = "idle" /\ ~IsEmpty
  /\ cpc' = "get"
  /\ UNCHANGED <<qVars, counters, pktVars, adder, pkt, ghost>>

Mut_GetExtract ==
  /\ cpc = "get"
  /\ extract' = udp_rx_next[extract]
  /\ pkt' = extract
  /\ cpc' = "have"
  /\ UNCHANGED <<head, tail, counters, pktVars, adder, ghost>>
(* The rest of it: step over a packet that was consumed before. *)
GetExtract ==
  /\ cpc = "get"
  /\ extract' = IF consumed[extract] THEN udp_rx_next[extract] ELSE extract
  /\ pkt' = extract'
  /\ cpc' = "have"
  /\ UNCHANGED <<head, tail, counters, pktVars, adder, ghost>>

Mut_Deliver(k) ==
  /\ cpc = "have"
  /\ pkts_delivered' = (pkts_delivered + 1) % CounterMod
  /\ consumed' = [consumed EXCEPT ![pkt] = TRUE]
  /\ keep' = [keep EXCEPT ![pkt] = k] /\ kept' = IF k THEN kept \cup {pkt} ELSE kept
  /\ order' = Tail(order)
  /\ cpc' = "idle" /\ pkt' = Null
  /\ UNCHANGED <<qVars, pkts_added, pkts_reaped, udp_rx_next, adder, freed>>
(* ci_udp_recv_q_deliver; the application may keep the packet (k). *)
Deliver(k) ==
  /\ cpc = "have"
  /\ pkts_delivered' = (pkts_delivered + NBuffers[pkt]) % CounterMod
  /\ consumed' = [consumed EXCEPT ![pkt] = TRUE]
  /\ keep' = [keep EXCEPT ![pkt] = k] /\ kept' = IF k THEN kept \cup {pkt} ELSE kept
  /\ order' = Tail(order)
  /\ cpc' = "idle" /\ pkt' = Null
  /\ UNCHANGED <<qVars, pkts_added, pkts_reaped, udp_rx_next, adder, freed>>

(* The packet was only looked at. *)
Peeked ==
  /\ cpc = "have"
  /\ cpc' = "idle" /\ pkt' = Null
  /\ UNCHANGED <<qVars, counters, pktVars, adder, ghost>>

Adder == Link \/ Reap \/ ReapDone \/ StartReap \/ SetTail \/ PutComplete
         \/ \E p \in Pkts : PutPending(p) \/ ReleaseKept(p)
Taker == Get \/ GetExtract \/ Peeked \/ \E k \in BOOLEAN : Deliver(k)
Next == Adder \/ Taker
Spec == Init /\ [][Next]_vars

-----------------------------------------------------------------------------
InOrder(s) == {s[i] : i \in 1 .. Len(s)}
Queued ==
  LET walk[n \in 0 .. Cardinality(Pkts)] ==
        IF n = 0 THEN {head} ELSE walk[n - 1] \cup {udp_rx_next[p] : p \in walk[n - 1] \ {Null}}
  IN  walk[Cardinality(Pkts)] \ {Null}
Buffers(S) == MapThenSumSet(LAMBDA p : NBuffers[p], S)

(* The taker gets each datagram once and in the order in which they were   *)
(* added, and ci_udp_recv_q_next leads from it to the one after it.  This  *)
(* is where the comment "the next one must be OK to receive" and the       *)
(* assertion after it must hold.                                           *)
TakenInOrder ==
  /\ cpc = "have" =>
       /\ pkt # Null /\ ~consumed[pkt] /\ order # << >> /\ pkt = order[1]
       /\ udp_rx_next[pkt] # Null => Len(order) > 1 /\ udp_rx_next[pkt] = order[2]
  /\ cpc = "get" => extract # Null /\ (consumed[extract] => udp_rx_next[extract] # Null)

(* Packets are not reaped under the taker's feet: what is undelivered, or  *)
(* at extract, is not free; neither is a packet the application keeps.     *)
NotReapedEarly ==
  freed \cap (InOrder(order) \cup {extract} \cup kept) = {}

(* A packet that is both in the queue and kept by the application is freed *)
(* by the last of the two to release it: KEEP is set exactly while the     *)
(* queue and the application both have it, and every packet without an     *)
(* owner is free.                                                          *)
FreedOnce ==
  /\ {p \in Pkts : keep[p]} = Queued \cap kept
  /\ freed = Pkts \ (Queued \cup kept \cup {pkt_in})

(* The counters, although they wrap: what is added and not delivered is    *)
(* what the taker can get, and what is delivered and not reaped is what    *)
(* ci_udp_recv_q_reapable reports.                                         *)
CountersAgree ==
  /\ (pkts_added - pkts_delivered) % CounterMod =
       Buffers(InOrder(order)) - pending - (IF ppc \in {"reap", "tail"} THEN NBuffers[pkt_in] ELSE 0)
  /\ (pkts_delivered - pkts_reaped) % CounterMod = Buffers({p \in Queued : consumed[p]})
=============================================================================
