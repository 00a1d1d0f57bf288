------------------------------- MODULE CrcIds -------------------------------
(***************************************************************************)
(* The ids of the checksums that the NVMe plugin computes for zero-copy    *)
(* sends (ci/internal/ip.h).  A payload adds to the current checksum or    *)
(* has some of its bytes inserted; the id is returned to the pool of the   *)
(* interface when the packet with the last byte is acknowledged, when the  *)
(* packet could not be sent, or when the retransmit queue is dropped.      *)
(***************************************************************************)
EXTENDS Integers, Sequences, FiniteSets, SequencesExt

CONSTANTS Ids, NoId,          \* NoId is ZC_NVME_CRC_ID_INVALID
          MaxPkts,            \* bound on the retransmit queue
          MaxPayloads         \* bound on the payloads of a packet

Kinds == {"plain", "accum", "insert_part", "insert_last"}
Payload == [kind : Kinds, id : Ids \cup {NoId}]

VARIABLES pool, current, retrans,
          twice   \* history: ids that a dropped queue has released more than once

vars == <<pool, current, retrans, twice>>

TypeOK ==
  /\ pool \in Seq(Ids) /\ current \in Ids \cup {NoId}
  /\ retrans \in Seq(Seq(Payload)) /\ Len(retrans) <= MaxPkts /\ twice \subseteq Ids

(* ci_nvme_plugin_crc_id_init *)
Init == pool = SetToSeq(Ids) /\ current = NoId /\ retrans = << >> /\ twice = {}

-----------------------------------------------------------------------------
(* Ids are given to the payloads one by one (not in the repository).  The  *)
(* one that finds the pool empty, and those after it, keep NoId.           *)
Give(s, kind) ==
  LET fresh == kind # "plain" /\ s.current = NoId
      id == IF kind = "plain" THEN NoId ELSE IF fresh THEN Head(s.pool) ELSE s.current
  IN  IF s.failed \/ (fresh /\ s.pool = << >>)
      THEN [s EXCEPT !.failed = TRUE, !.pkt = Append(@, [kind |-> kind, id |-> NoId])]
      ELSE [s EXCEPT !.pool = IF fresh THEN Tail(@) ELSE @,
                     !.current = IF kind = "plain" THEN @ ELSE IF kind = "insert_last" THEN NoId ELSE id,
                     !.pkt = Append(@, [kind |-> kind, id |-> id])]
Prepared(kinds) ==
  FoldLeft(Give, [pool |-> pool, current |-> current, pkt |-> << >>, failed |-> FALSE], kinds)

(* ci_nvme_plugin_crc_packet_cleanup, for one payload: the loop ends at    *)
(* the first one without an id.                                            *)
CleanupOne(s, z) ==
  IF z.kind = "plain" \/ s.stop THEN s
  ELSE IF z.id = NoId THEN [s EXCEPT !.stop = TRUE]
  ELSE IF z.id = s.keep \/ z.id = s.prev THEN s
  ELSE [s EXCEPT !.pool = Append(@, z.id), !.prev = z.id]
Cleanup(p, keep, pkt) ==
  FoldLeft(CleanupOne, [pool |-> p, keep |-> keep, prev |-> NoId, stop |-> FALSE], pkt).pool

(* A packet is queued, or its ids are given back since the pool ran out or *)
(* it could not be sent; the caller has restored the current id.           *)
Send(kinds) ==
  LET s == Prepared(kinds) IN
  /\ Len(retrans) < MaxPkts
  /\ \/ /\ ~s.failed
        /\ pool' = s.pool /\ current' = s.current /\ retrans' = Append(retrans, s.pkt)
     \/ /\ pool' = Cleanup(s.pool, current, s.pkt)
        /\ UNCHANGED <<current, retrans>>
  /\ UNCHANGED twice

Mut_LastByteSent(z) == z.kind \in {"insert_part", "insert_last"}
LastByteSent(z) == z.kind = "insert_last"

(* ci_nvme_plugin_crc_free_acked_ids, for the oldest packet *)
Ack ==
  /\ retrans # << >>
  /\ LET done == SelectSeq(Head(retrans), LastByteSent) IN
     pool' = pool \o [i \in 1 .. Len(done) |-> done[i].id]
  /\ retrans' = Tail(retrans) /\ UNCHANGED <<current, twice>>

UsedBy(pkt) == {pkt[j].id : j \in 1 .. Len(pkt)} \ {NoId}

(* ci_nvme_plugin_idp_dropped_queue_cleanup, called by ci_tcp_retrans_drop *)
(* (not in the repository).  Each packet is cleaned up by itself: an id    *)
(* that two of them use and that is no longer current is released twice.   *)
Drop ==
  /\ pool' = FoldLeft(LAMBDA p, pkt : Cleanup(p, current, pkt), pool, retrans)
               \o (IF current # NoId THEN <<current>> ELSE << >>)
  /\ current' = NoId /\ retrans' = << >>
  /\ twice' = {id \in Ids \ {current} : \E i, j \in 1 .. Len(retrans) :
                                          i # j /\ id \in UsedBy(retrans[i]) \cap UsedBy(retrans[j])}

Calls == Ack \/ Drop \/ \E n \in 1 .. MaxPayloads : \E kinds \in [1 .. n -> Kinds] : Send(kinds)

(* Bound: the calls after a double release are not followed, as the pool   *)
(* then hands one id to two checksums.                                     *)
Next == IF twice = {} THEN Calls ELSE UNCHANGED vars
Spec == Init /\ [][Next]_vars

-----------------------------------------------------------------------------
Held == {current} \cup UNION {UsedBy(retrans[i]) : i \in 1 .. Len(retrans)}

Copies(id) == Cardinality({i \in 1 .. Len(pool) : pool[i] = id})

(* No id is lost, and none that is in use is given back: an id is in the   *)
(* pool exactly when neither the socket nor a queued packet holds it,      *)
(* whatever payload of whatever packet fails or is acknowledged.  It is    *)
(* there once, but for the ids that two packets of a dropped queue share   *)
(* and that are not current, which are there more than once.               *)
IdsAccountedFor ==
  \A id \in Ids : IF id \in Held THEN Copies(id) = 0
                 ELSE IF id \in twice THEN Copies(id) > 1 ELSE Copies(id) = 1

(* The comment in the cleanup: it frees an id that is newly allocated,     *)
(* "different from the preceding one", hence once.                         *)
IdsFreedOnce == \A id \in Ids : Copies(id) <= 1
=============================================================================
