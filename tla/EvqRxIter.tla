----------------------------- MODULE EvqRxIter ------------------------------
(***************************************************************************)
(* The iterator over the packets of a batch of EF_VI events                *)
(* (etherfabric/internal/evq_rx_iter.h).  It looks ahead: it walks the     *)
(* events of one ef_eventq_poll and the descriptor ids of the receive ring *)
(* without removing them.  A step is one turn of the loop of               *)
(* ef_vi_evq_rx_iter_next; its caller asks until it is given 0.            *)
(***************************************************************************)
EXTENDS Integers, Sequences, SequencesExt

CONSTANTS Ring,              \* the ids of the ring, 0 .. mask
          NoReq,             \* EF_REQUEST_ID_MASK, a descriptor without packet
          RqIds,             \* the ids in a plain receive event
          MaxEvs, MaxDescs   \* bounds on the events and the descriptors of one

Mask == Len(Ring) - 1
IdAt(d) == Ring[(d % (Mask + 1)) + 1]

(* whole: the event starts a packet that does not continue.  Only a plain  *)
(* receive event carries the id of its packet, read when it is whole.      *)
Events ==
  LET Event(t, k, w, i) == [type |-> t, n |-> k, whole |-> w, rq_id |-> i]
  IN  {Event("rx", 0, TRUE, i) : i \in RqIds} \cup {Event("rx", 0, FALSE, NoReq)}
        \cup {Event("multi", k, w, NoReq) : k \in 1 .. MaxDescs, w \in BOOLEAN}
        \cup {Event("discard", k, FALSE, NoReq) : k \in 1 .. MaxDescs}
        \cup {Event("other", 0, FALSE, NoReq)}

VARIABLES evs, start,        \* the batch, and rxq.removed when it was polled
          ev, di, left,      \* next event, descriptor index, multi_desc_left
          given, done        \* ids the caller has taken; it was given 0

vars == <<evs, start, ev, di, left, given, done>>

TypeOK ==
  /\ evs \in Seq(Events) /\ Len(evs) <= MaxEvs /\ start \in 0 .. Mask
  /\ ev \in 1 .. Len(evs) + 1 /\ di \in Nat /\ left \in 0 .. MaxDescs
  /\ given \in Seq((ToSet(Ring) \cup RqIds) \ {0}) /\ done \in BOOLEAN

(* ef_vi_evq_rx_iter_set *)
Init ==
  /\ evs \in UNION {[1 .. n -> Events] : n \in 0 .. MaxEvs} /\ start \in 0 .. Mask
  /\ ev = 1 /\ di = start /\ left = 0 /\ given = << >> /\ done = FALSE

(* The result is the id, and nothing is written to id_out.  The caller     *)
(* takes 0 for the end, as the comment on the function says.               *)
Return(id) == IF id = 0 THEN done' = TRUE /\ UNCHANGED given
                        ELSE given' = Append(given, id) /\ UNCHANGED done

MultiDesc ==
  /\ ~done /\ left > 0 /\ left' = left - 1 /\ di' = di + 1
  /\ IF IdAt(di) = NoReq THEN UNCHANGED <<given, done>> ELSE Return(IdAt(di))
  /\ UNCHANGED <<evs, start, ev>>

Mut_NextEvent ==
  /\ ~done /\ left = 0 /\ ev <= Len(evs) /\ ev' = ev + 1
  /\ LET e == evs[ev] IN
     CASE e.type = "rx" /\ e.whole -> Return(e.rq_id) /\ UNCHANGED <<di, left>>
       [] e.type = "multi" /\ e.whole -> left' = e.n /\ UNCHANGED <<di, given, done>>
       [] e.type = "multi" /\ ~e.whole -> di' = di + e.n /\ UNCHANGED <<left, given, done>>
       [] OTHER -> UNCHANGED <<di, left, given, done>>
  /\ UNCHANGED <<evs, start>>
NextEvent ==
  /\ ~done /\ left = 0 /\ ev <= Len(evs) /\ ev' = ev + 1
  /\ LET e == evs[ev] IN
     CASE e.type = "rx" /\ e.whole -> Return(e.rq_id) /\ UNCHANGED <<di, left>>
       [] e.type = "multi" /\ e.whole -> left' = e.n /\ UNCHANGED <<di, given, done>>
       [] e.type = "discard" \/ (e.type = "multi" /\ ~e.whole) -> di' = di + e.n /\ UNCHANGED <<left, given, done>>
       [] OTHER -> UNCHANGED <<di, left, given, done>>
  /\ UNCHANGED <<evs, start>>
Finish ==
  /\ ~done /\ left = 0 /\ ev > Len(evs) /\ done' = TRUE
  /\ UNCHANGED <<evs, start, ev, di, left, given>>

Next == MultiDesc \/ NextEvent \/ Finish
Spec == Init /\ [][Next]_vars

-----------------------------------------------------------------------------
(* The packets of the batch: those of each event, whose descriptors follow *)
(* the ones of the events before it.                                       *)
FirstDesc(i) == start + FoldLeft(LAMBDA s, e : s + e.n, 0, SubSeq(evs, 1, i - 1))
PacketsOf(i) ==
  LET e == evs[i] IN
  IF ~e.whole THEN << >>
  ELSE IF e.type = "rx" THEN <<e.rq_id>>
  ELSE SelectSeq([k \in 1 .. e.n |-> IdAt(FirstDesc(i) + k - 1)], LAMBDA id : id # NoReq)
Packets == FlattenSeq([i \in 1 .. Len(evs) |-> PacketsOf(i)])

(* The ids given so far are the first packets of the batch, and at the end *)
(* all of them, or those before the first packet with id 0: descriptors of *)
(* discarded, continued and plain events never shift those of a later one. *)
GivesThePackets ==
  LET zero == SelectInSeq(Packets, LAMBDA id : id = 0) IN
  /\ IsPrefix(given, Packets)
  /\ done => given = IF zero = 0 THEN Packets ELSE SubSeq(Packets, 1, zero - 1)

(* The comment on ef_vi_evq_rx_iter_next: 0 is returned when all events    *)
(* and descriptors have been processed.                                    *)
ZeroAtTheEnd == done => ev > Len(evs) /\ left = 0
=============================================================================
