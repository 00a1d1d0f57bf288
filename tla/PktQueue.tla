------------------------------- MODULE PktQueue -----------------------------
(***************************************************************************)
(* The packet queues of Onload's TCP receive path (ci/internal/ip.h): the  *)
(* lists linked through the packets, and the count, per stack, of the      *)
(* buffers that established sockets may still claim.  Everything happens   *)
(* under the stack lock, so calls do not overlap; what can go wrong is a   *)
(* long sequence of them.                                                  *)
(***************************************************************************)
EXTENDS Integers, Sequences, SequencesExt, FiniteSetsExt

CONSTANTS Socks, Queues,     \* the receive queues of a socket: recv1, recv2, rob
          Pkts, Null,
          Reserve            \* endpoint_packet_reserve

VARIABLES head, tail, num,   \* of each queue of each socket
          next,              \* of each packet; whatever was left there if it is in no queue
          established,       \* the sockets in state ESTABLISHED
          reserved_pktbufs,  \* of the stack
          pending,           \* {s}: between account_begin and account_end of s
          content            \* the packets each queue should hold, in order

lists == <<head, tail, num, next, content>>
vars == <<lists, established, reserved_pktbufs, pending>>

PktOrNull == Pkts \cup {Null}
QS == Socks \X Queues
Elems(q) == ToSet(content[q])
Free == Pkts \ UNION {Elems(q) : q \in QS}

TypeOK ==
  /\ head \in [QS -> PktOrNull] /\ tail \in [QS -> PktOrNull] /\ num \in [QS -> Nat]
  /\ next \in [Pkts -> PktOrNull]
  /\ established \subseteq Socks /\ pending \subseteq Socks
  /\ reserved_pktbufs \in Nat
  /\ content \in [QS -> Seq(Pkts)]

(* ci_ip_queue_init *)
Init ==
  /\ head = [q \in QS |-> Null] /\ tail = [q \in QS |-> Null] /\ num = [q \in QS |-> 0]
  /\ next = [p \in Pkts |-> Null]
  /\ established = {} /\ pending = {} /\ reserved_pktbufs = 0
  /\ content = [q \in QS |-> << >>]

-----------------------------------------------------------------------------
(* The accounting of receive buffers *)

RxBufCount(s) == MapThenSumSet(LAMBDA k : num[s, k], Queues)
ReservedFor(s, allocated) ==
  LET r == (IF s \in established THEN Reserve ELSE 0) - allocated IN IF r > 0 THEN r ELSE 0
RxReservedBufs(s) == ReservedFor(s, RxBufCount(s))

(* ci_tcp_rx_buf_adjust, before a queue of s changes by delta packets *)
Mut_BufAdjust(s, delta) ==
  reserved_pktbufs' = reserved_pktbufs - (IF s \in established THEN delta ELSE 0)
BufAdjust(s, delta) ==
  reserved_pktbufs' =
    IF s \notin established THEN reserved_pktbufs
    ELSE reserved_pktbufs + ReservedFor(s, RxBufCount(s) + delta) - RxReservedBufs(s)

AccountBegin(s) ==
  /\ pending = {} /\ pending' = {s}
  /\ reserved_pktbufs' = reserved_pktbufs - RxReservedBufs(s)
  /\ UNCHANGED <<lists, established>>

(* In between the socket enters or leaves ESTABLISHED. *)
ChangeState(s) ==
  /\ pending = {s}
  /\ established' = IF s \in established THEN established \ {s} ELSE established \cup {s}
  /\ UNCHANGED <<lists, reserved_pktbufs, pending>>

AccountEnd(s) ==
  /\ pending = {s} /\ pending' = {}
  /\ reserved_pktbufs' = reserved_pktbufs + RxReservedBufs(s)
  /\ UNCHANGED <<lists, established>>

-----------------------------------------------------------------------------
(* The queues *)

(* __ci_ip_queue_enqueue: the packet's own link is the caller's business *)
Mut_Enqueue(q, p, nx) ==
  /\ head' = [head EXCEPT ![q] = IF num[q] = 0 THEN p ELSE @]
  /\ next' = IF tail[q] = Null THEN nx ELSE [nx EXCEPT ![tail[q]] = p]
  /\ tail' = [tail EXCEPT ![q] = p]
  /\ num' = [num EXCEPT ![q] = @ + 1]
  /\ content' = [content EXCEPT ![q] = Append(@, p)]
Enqueue(q, p, nx) ==
  /\ head' = [head EXCEPT ![q] = IF num[q] = 0 THEN p ELSE @]
  /\ next' = IF num[q] = 0 THEN nx ELSE [nx EXCEPT ![tail[q]] = p]
  /\ tail' = [tail EXCEPT ![q] = p]
  /\ num' = [num EXCEPT ![q] = @ + 1]
  /\ content' = [content EXCEPT ![q] = Append(@, p)]

(* A packet whose link is cleared, by ci_ip_queue_enqueue or by the caller *)
(* of __ci_tcp_rx_queue_enqueue, is put at the end of a receive queue.     *)
RxQueueEnqueue(q, p) ==
  /\ pending = {} /\ p \in Free
  /\ BufAdjust(q[1], 1)
  /\ Enqueue(q, p, [next EXCEPT ![p] = Null])
  /\ UNCHANGED <<established, pending>>

(* ci_ip_queue_dequeue *)
Dequeue(q) ==
  /\ head' = [head EXCEPT ![q] = next[head[q]]]
  /\ num' = [num EXCEPT ![q] = @ - 1]
  /\ content' = [content EXCEPT ![q] = Tail(@)]
  /\ UNCHANGED <<tail, next>>

RxQueueDequeue(q) ==
  /\ pending = {} /\ num[q] > 0
  /\ BufAdjust(q[1], -1)
  /\ Dequeue(q)
  /\ UNCHANGED <<established, pending>>

(* ci_ip_queue_move, of the first n packets *)
Move(from, to, n) ==
  /\ from # to /\ from[1] = to[1] /\ n \in 1 .. num[from]
  /\ LET last == content[from][n] IN
     /\ head' = [head EXCEPT ![from] = next[last],
                             ![to] = IF num[to] = 0 THEN head[from] ELSE @]
     /\ num' = [num EXCEPT ![from] = @ - n, ![to] = @ + n]
     /\ next' = LET cut == [next EXCEPT ![last] = Null]
                IN  IF num[to] = 0 THEN cut ELSE [cut EXCEPT ![tail[to]] = head[from]]
     /\ tail' = [tail EXCEPT ![to] = last]
  /\ content' = [content EXCEPT ![from] = SubSeq(@, n + 1, Len(@)),
                                ![to] = @ \o SubSeq(content[from], 1, n)]
  /\ UNCHANGED <<established, reserved_pktbufs, pending>>

(* ci_ip_queue_move_all, to a queue that holds nothing *)
MoveAll(from, to) ==
  /\ from # to /\ from[1] = to[1] /\ num[to] = 0
  /\ head' = [head EXCEPT ![to] = head[from], ![from] = Null]
  /\ tail' = [tail EXCEPT ![to] = tail[from]]
  /\ num' = [num EXCEPT ![to] = num[from], ![from] = 0]
  /\ content' = [content EXCEPT ![to] = content[from], ![from] = << >>]
  /\ UNCHANGED <<next, established, reserved_pktbufs, pending>>

(* ci_tcp_rx_queue_drop; ci_ip_queue_drop gives the packets back. *)
Mut_RxQueueDrop(q) ==
  /\ pending = {} /\ num[q] > 0
  /\ BufAdjust(q[1], -1)
  /\ head' = [head EXCEPT ![q] = Null] /\ num' = [num EXCEPT ![q] = 0]
  /\ content' = [content EXCEPT ![q] = << >>]
  /\ UNCHANGED <<tail, next, established, pending>>
RxQueueDrop(q) ==
  /\ pending = {} /\ num[q] > 0
  /\ BufAdjust(q[1], -num[q])
  /\ head' = [head EXCEPT ![q] = Null] /\ num' = [num EXCEPT ![q] = 0]
  /\ content' = [content EXCEPT ![q] = << >>]
  /\ UNCHANGED <<tail, next, established, pending>>

Next ==
  \/ \E s \in Socks : AccountBegin(s) \/ ChangeState(s) \/ AccountEnd(s)
  \/ \E q \in QS :
       \/ RxQueueDequeue(q) \/ RxQueueDrop(q)
       \/ \E p \in Pkts : RxQueueEnqueue(q, p)
       \/ \E t \in QS : MoveAll(q, t) \/ \E n \in 1 .. num[q] : Move(q, t, n)
Spec == Init /\ [][Next]_vars

-----------------------------------------------------------------------------
(* Following the links from the head gives the packets of the queue, in    *)
(* order and no others, and the tail is the last of them, although the     *)
(* tail of an empty queue and the links of free packets are left over from *)
(* before.  It implies ci_ip_queue_is_valid and ci_ip_queue_is_valid_long, *)
(* the checks of the debug build.                                          *)
LinksFollowContent ==
  \A q \in QS :
    /\ num[q] = Len(content[q])
    /\ head[q] = IF num[q] = 0 THEN Null ELSE content[q][1]
    /\ num[q] > 0 => tail[q] = Last(content[q])
    /\ \A i \in 1 .. num[q] :
         next[content[q][i]] = IF i = num[q] THEN Null ELSE content[q][i + 1]

(* reserved_pktbufs, which is only ever adjusted, remains the sum of what  *)
(* the established sockets may still claim; a change that is made after    *)
(* the queue has changed, or is not made, drifts.                          *)
ReserveIsExact ==
  reserved_pktbufs = MapThenSumSet(RxReservedBufs, Socks \ pending)
=============================================================================
