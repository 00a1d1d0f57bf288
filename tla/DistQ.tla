------------------------------- MODULE DistQ --------------------------------
(***************************************************************************)
(* The distributed queue of ci/tools/distq.h: a buffer with one writer and *)
(* one reader in different places.  Each works on its own index and shows  *)
(* it to the other only when it syncs.  With Retransmit the writer keeps a *)
(* copy of an item until it has seen that the item was read.               *)
(***************************************************************************)
EXTENDS Integers, Sequences

CONSTANTS Size, Retransmit,
          Stamps               \* items are told apart by a stamp below this

Slots == 0 .. Size - 1
M(x) == x % Size

VARIABLES q, rt_q,             \* the buffer and the writer's copy
          wr_i, p_wr_i,        \* the writer's index, and as the reader sees it
          r_wr_i,              \* the writer's own record of its last sync
          rd_i, r_rd_i,        \* the reader's index, and as the writer sees it
          ack_i,
          open, synced,        \* the writer has reset its index, and has synced it
          items, seen, stamp   \* items the writer must keep, how many of them are read

vars == <<q, rt_q, wr_i, p_wr_i, r_wr_i, rd_i, r_rd_i, ack_i, open, synced, items, seen, stamp>>
writer == <<q, rt_q, wr_i, p_wr_i, r_wr_i, ack_i, open, synced, stamp>>

TypeOK ==
  /\ {q, rt_q} \subseteq [Slots -> 0 .. Stamps] /\ {wr_i, p_wr_i, r_wr_i, rd_i, r_rd_i, ack_i} \subseteq Slots
  /\ {open, synced} \subseteq BOOLEAN /\ items \in Seq(0 .. Stamps - 1) /\ seen \in 0 .. Len(items) /\ stamp \in 0 .. Stamps - 1

(* rx_init and tx_init: the writer's index starts at the last slot, so     *)
(* that the queue looks full to it until ci_distq_wr_reset.  tx_init does  *)
(* not set r_wr_i: it may hold anything.                                   *)
Init ==
  /\ q = [s \in Slots |-> Stamps] /\ rt_q = [s \in Slots |-> Stamps]
  /\ wr_i = Size - 1 /\ p_wr_i = 0 /\ r_wr_i \in Slots /\ rd_i = 0 /\ r_rd_i = 0 /\ ack_i = 0
  /\ open = FALSE /\ synced = FALSE /\ items = << >> /\ seen = 0 /\ stamp = 0

-----------------------------------------------------------------------------
NotEmpty == rd_i # p_wr_i
Num == M(p_wr_i + Size - rd_i)
RxContigNum == IF p_wr_i > rd_i THEN M(p_wr_i - rd_i) ELSE Size - rd_i
RxFreeSpace == M(rd_i + Size - p_wr_i - 1)
Mut_NotFull == wr_i + 1 # r_rd_i
NotFull == M(wr_i + 1) # r_rd_i
Space == M(r_rd_i + Size - wr_i - 1)
Mut_TxContigSpace == IF r_rd_i > wr_i THEN M(r_rd_i - wr_i - 1) ELSE Size - wr_i
TxContigSpace ==
  IF r_rd_i > wr_i THEN M(r_rd_i - wr_i - 1) ELSE Size - wr_i - (IF r_rd_i = 0 THEN 1 ELSE 0)
WrSyncNeeded == wr_i # r_wr_i
Unsent == M(wr_i + Size - r_wr_i)
Unacked == M(wr_i + Size - r_rd_i)
AckNotFull == M(wr_i + 1) # ack_i
AckSpace == M(ack_i + Size - wr_i - 1)

(* ci_distq_wr_reset *)
WrReset ==
  /\ ~open /\ open' = TRUE /\ wr_i' = r_rd_i
  /\ UNCHANGED <<q, rt_q, p_wr_i, r_wr_i, rd_i, r_rd_i, ack_i, synced, items, seen, stamp>>

Written(n) ==
  /\ q' = [s \in Slots |-> IF M(s + Size - wr_i) < n THEN (stamp + M(s + Size - wr_i)) % Stamps ELSE q[s]]
  /\ wr_i' = M(wr_i + n)
  /\ stamp' = (stamp + n) % Stamps
  /\ items' = items \o [k \in 1 .. n |-> (stamp + k - 1) % Stamps]

(* ci_distq_put, or ci_distq_rt_put *)
Put ==
  /\ open /\ IF Retransmit THEN AckNotFull ELSE NotFull
  /\ Written(1) /\ rt_q' = IF Retransmit THEN [rt_q EXCEPT ![wr_i] = stamp] ELSE rt_q
  /\ UNCHANGED <<p_wr_i, r_wr_i, rd_i, r_rd_i, ack_i, open, synced, seen>>

(* A block written in one piece, then ci_distq_wr_adv *)
PutBlock ==
  /\ open /\ ~Retransmit /\ TxContigSpace > 0
  /\ Written(TxContigSpace)
  /\ UNCHANGED <<rt_q, p_wr_i, r_wr_i, rd_i, r_rd_i, ack_i, open, synced, seen>>
WrSync ==
  /\ open /\ p_wr_i' = wr_i /\ r_wr_i' = wr_i /\ synced' = TRUE
  /\ UNCHANGED <<q, rt_q, wr_i, rd_i, r_rd_i, ack_i, open, items, seen, stamp>>

(* ci_distq_acked and ci_distq_ack_next: the copy is not needed any more. *)
Ack ==
  /\ Retransmit /\ ack_i # r_rd_i
  /\ ack_i' = M(ack_i + 1) /\ items' = Tail(items) /\ seen' = seen - 1
  /\ UNCHANGED <<q, rt_q, wr_i, p_wr_i, r_wr_i, rd_i, r_rd_i, open, synced, stamp>>

Get ==
  /\ NotEmpty /\ rd_i' = M(rd_i + 1) /\ seen' = seen + 1
  /\ UNCHANGED <<writer, r_rd_i, items>>
(* What lies in one piece is read in place, then ci_distq_rd_adv. *)
GetBlock ==
  /\ NotEmpty /\ rd_i' = M(rd_i + RxContigNum) /\ seen' = seen + RxContigNum
  /\ UNCHANGED <<writer, r_rd_i, items>>
RdSync ==
  /\ r_rd_i' = rd_i
  /\ IF Retransmit THEN UNCHANGED <<items, seen>>
     ELSE items' = SubSeq(items, seen + 1, Len(items)) /\ seen' = 0
  /\ UNCHANGED <<writer, rd_i>>

Next == WrReset \/ Put \/ PutBlock \/ WrSync \/ Ack \/ Get \/ GetBlock \/ RdSync
Spec == Init /\ [][Next]_vars

-----------------------------------------------------------------------------
(* The reader finds the items in the order they were put, and the writer   *)
(* never writes over one that is unread (or, with Retransmit, one that it  *)
(* has not seen acknowledged), however late either side syncs.             *)
InOrder ==
  /\ \A k \in 1 .. Num : q[M(rd_i + k - 1)] = items[seen + k]
  /\ Retransmit => \A k \in 1 .. Len(items) : rt_q[M(ack_i + k - 1)] = items[k]

(* Each side's count is never too large, and exact as far as it can see:   *)
(* what the writer takes for space is free, and a contiguous block never   *)
(* spans the end.  From its first sync on, and not before, the writer's    *)
(* unsent items are those the reader does not see yet.                     *)
CountsAreSafe ==
  LET unread == Len(items) - seen IN
  /\ IF synced THEN Unsent = unread - Num /\ (WrSyncNeeded <=> Num < unread) ELSE Num = 0
  /\ Num + RxFreeSpace = Size - 1
  /\ NotEmpty => RxContigNum <= Num /\ rd_i + RxContigNum <= Size
  /\ open => /\ Space <= Size - 1 - unread /\ Unacked + Space = Size - 1 /\ Unacked >= unread
             /\ TxContigSpace <= Space /\ wr_i + TxContigSpace <= Size
             /\ Retransmit => AckSpace <= Space /\ AckSpace = Size - 1 - Len(items)
=============================================================================
