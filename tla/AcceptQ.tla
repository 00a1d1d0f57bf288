------------------------------- MODULE AcceptQ ------------------------------
(***************************************************************************)
(* The accept queue of an Onload listening socket (ci/internal/ip.h).  New *)
(* connections are pushed on the list at acceptq_put by compare-and-swap;  *)
(* the holder of the socket lock takes them from the list at acceptq_get   *)
(* and, when that is empty, grabs the other list whole and reverses it.    *)
(***************************************************************************)
EXTENDS Integers, Sequences

CONSTANTS Socks, Null,
          CounterMod   \* 2 to the width of the counters

VARIABLES acceptq_put, acceptq_get,   \* heads of the two lists
          wt_next,                    \* of each socket
          acceptq_n_in, acceptq_n_out,
          ppc, w_in,                  \* the putter: place and socket
          gpc, from, w_out, op,       \* the getter: place, list being reversed, socket, call
          held,                       \* sockets taken and not yet put back or let go
          queue                       \* the connections waiting, oldest first

lists == <<acceptq_put, acceptq_get>>
counts == <<acceptq_n_in, acceptq_n_out>>
putter == <<ppc, w_in>>
getter == <<gpc, from, w_out, op>>
vars == <<lists, wt_next, counts, putter, getter, held, queue>>

SockOrNull == Socks \cup {Null}

TypeOK ==
  /\ {acceptq_put, acceptq_get, from, w_in, w_out} \subseteq SockOrNull
  /\ wt_next \in [Socks -> SockOrNull]
  /\ {acceptq_n_in, acceptq_n_out} \subseteq 0 .. CounterMod - 1
  /\ ppc \in {"idle", "cas", "count"} /\ gpc \in {"idle", "grab", "reverse", "take", "tail_cas", "tail_count"}
  /\ op \in {"get", "peek"} /\ held \subseteq Socks /\ queue \in Seq(Socks)

Init ==
  /\ acceptq_put = Null /\ acceptq_get = Null
  /\ wt_next = [w \in Socks |-> Null]
  /\ acceptq_n_in = 0 /\ acceptq_n_out = 0
  /\ ppc = "idle" /\ w_in = Null
  /\ gpc = "idle" /\ from = Null /\ w_out = Null /\ op = "get"
  /\ held = {} /\ queue = << >>

Queued == {queue[i] : i \in 1 .. Len(queue)}

-----------------------------------------------------------------------------
(* ci_tcp_acceptq_put, by the holder of the stack lock *)

PutLink(w) ==
  /\ ppc = "idle" /\ w \notin Queued \cup held
  /\ ppc' = "cas" /\ w_in' = w
  /\ wt_next' = [wt_next EXCEPT ![w] = acceptq_put]
  /\ UNCHANGED <<lists, counts, getter, held, queue>>

PutCas ==
  /\ ppc = "cas"
  /\ IF acceptq_put = wt_next[w_in]
     THEN /\ ppc' = "count" /\ acceptq_put' = w_in /\ queue' = Append(queue, w_in)
          /\ UNCHANGED wt_next
     ELSE /\ wt_next' = [wt_next EXCEPT ![w_in] = acceptq_put]
          /\ UNCHANGED <<ppc, acceptq_put, queue>>
  /\ UNCHANGED <<acceptq_get, counts, w_in, getter, held>>

PutCount ==
  /\ ppc = "count"
  /\ ppc' = "idle" /\ w_in' = Null
  /\ acceptq_n_in' = (acceptq_n_in + 1) % CounterMod
  /\ UNCHANGED <<lists, wt_next, acceptq_n_out, getter, held, queue>>

-----------------------------------------------------------------------------
(* The holder of the socket lock *)

NotEmpty == acceptq_put # Null \/ acceptq_get # Null

(* The start of ci_tcp_acceptq_get and of ci_tcp_acceptq_peek, which are   *)
(* called only when ci_tcp_acceptq_not_empty() is true.                    *)
Get ==
  /\ gpc = "idle" /\ NotEmpty
  /\ \E o \in {"get", "peek"} :
       /\ op' = o
       /\ acceptq_n_out' = IF o = "get" THEN (acceptq_n_out + 1) % CounterMod ELSE acceptq_n_out
  /\ gpc' = IF acceptq_get = Null THEN "grab" ELSE "take"
  /\ UNCHANGED <<lists, wt_next, acceptq_n_in, putter, from, w_out, held, queue>>

(* ci_tcp_acceptq_get_swizzle: grab the put list atomically ... *)
Grab ==
  /\ gpc = "grab"
  /\ gpc' = "reverse"
  /\ from' = acceptq_put /\ acceptq_put' = Null
  /\ UNCHANGED <<acceptq_get, wt_next, counts, putter, w_out, op, held, queue>>

Mut_Reverse1 ==
  /\ gpc = "reverse"
  /\ acceptq_get' = from
  /\ from' = Null /\ gpc' = "take"
  /\ UNCHANGED <<acceptq_put, wt_next, counts, putter, w_out, op, held, queue>>
(* ... and move it, one socket a round, onto the get list. *)
Reverse1 ==
  /\ gpc = "reverse"
  /\ from' = wt_next[from]
  /\ wt_next' = [wt_next EXCEPT ![from] = acceptq_get]
  /\ acceptq_get' = from
  /\ gpc' = IF from' = Null THEN "take" ELSE "reverse"
  /\ UNCHANGED <<acceptq_put, counts, putter, w_out, op, held, queue>>

Take ==
  /\ gpc = "take"
  /\ gpc' = "idle"
  /\ IF op = "get"
     THEN /\ acceptq_get' = wt_next[acceptq_get]
          /\ wt_next' = [wt_next EXCEPT ![acceptq_get] = Null]
          /\ held' = held \cup {acceptq_get} /\ queue' = Tail(queue)
     ELSE UNCHANGED <<acceptq_get, wt_next, held, queue>>
  /\ UNCHANGED <<acceptq_put, counts, putter, from, w_out, op>>

PutBack(w) ==
  /\ gpc = "idle" /\ w \in held
  /\ acceptq_n_out' = (acceptq_n_out - 1) % CounterMod
  /\ wt_next' = [wt_next EXCEPT ![w] = acceptq_get]
  /\ acceptq_get' = w
  /\ held' = held \ {w} /\ queue' = <<w>> \o queue
  /\ UNCHANGED <<acceptq_put, acceptq_n_in, putter, getter>>

(* ci_tcp_acceptq_put_back_tail, in three steps like the put. *)
PutBackTail(w) ==
  /\ gpc = "idle" /\ w \in held
  /\ gpc' = "tail_cas" /\ w_out' = w
  /\ wt_next' = [wt_next EXCEPT ![w] = acceptq_put]
  /\ UNCHANGED <<lists, counts, putter, from, op, held, queue>>

TailCas ==
  /\ gpc = "tail_cas"
  /\ IF acceptq_put = wt_next[w_out]
     THEN /\ gpc' = "tail_count" /\ acceptq_put' = w_out
          /\ held' = held \ {w_out} /\ queue' = Append(queue, w_out)
          /\ UNCHANGED wt_next
     ELSE /\ wt_next' = [wt_next EXCEPT ![w_out] = acceptq_put]
          /\ UNCHANGED <<gpc, acceptq_put, held, queue>>
  /\ UNCHANGED <<acceptq_get, counts, putter, from, w_out, op>>

Mut_TailCount ==
  /\ gpc = "tail_count"
  /\ gpc' = "idle" /\ w_out' = Null
  /\ UNCHANGED <<lists, wt_next, counts, putter, from, op, held, queue>>
TailCount ==
  /\ gpc = "tail_count"
  /\ gpc' = "idle" /\ w_out' = Null
  /\ acceptq_n_out' = (acceptq_n_out - 1) % CounterMod
  /\ UNCHANGED <<lists, wt_next, acceptq_n_in, putter, from, op, held, queue>>

(* The accepted connection is closed; its socket may be used again. *)
LetGo(w) ==
  /\ gpc = "idle" /\ w \in held
  /\ held' = held \ {w}
  /\ UNCHANGED <<lists, wt_next, counts, putter, getter, queue>>

Next ==
  \/ PutCas \/ PutCount \/ Get \/ Grab \/ Reverse1 \/ Take \/ TailCas \/ TailCount
  \/ \E w \in Socks : PutLink(w) \/ PutBack(w) \/ PutBackTail(w) \/ LetGo(w)
Spec == Init /\ [][Next]_vars

-----------------------------------------------------------------------------
(* The list at w, followed through wt_next, holds the connections lo to hi *)
(* of the queue: oldest first, or youngest first.                          *)
OldestFirst(w, lo, hi) ==
  /\ w = IF lo > hi THEN Null ELSE queue[lo]
  /\ \A k \in lo .. hi : wt_next[queue[k]] = IF k = hi THEN Null ELSE queue[k + 1]
YoungestFirst(w, lo, hi) ==
  /\ w = IF lo > hi THEN Null ELSE queue[hi]
  /\ \A k \in lo .. hi : wt_next[queue[k]] = IF k = lo THEN Null ELSE queue[k - 1]

(* The lists share out the queue: what is left of the list being reversed, *)
(* the get list, the put list.                                             *)
SharedOut(i, j) ==
  /\ i <= j
  /\ YoungestFirst(from, 1, i)
  /\ OldestFirst(acceptq_get, i + 1, j)
  /\ YoungestFirst(acceptq_put, j + 1, Len(queue))

(* Connections are accepted in the order of their arrival, none lost or    *)
(* accepted twice: at every step of the two threads the links of the lists *)
(* spell the waiting connections in order, each once, and none of those    *)
(* taken.                                                                  *)
Fifo ==
  /\ \E i, j \in 0 .. Len(queue) : SharedOut(i, j)
  /\ \A i, j \in 1 .. Len(queue) : queue[i] = queue[j] => i = j
  /\ Queued \cap held = {}

(* The connections that both threads have counted in, and out. *)
Counted ==
  Len(queue) - (IF ppc = "count" THEN 1 ELSE 0)
             - (IF (op = "get" /\ gpc \in {"grab", "reverse", "take"}) \/ gpc = "tail_count"
                THEN 1 ELSE 0)

(* ci_tcp_acceptq_n, which is read without a lock: exact while neither     *)
(* thread is in a call, and short by at most one for each that is.  In     *)
(* between it can be -1, when a connection is taken before its put has     *)
(* counted it.                                                             *)
CountInStep == (acceptq_n_in - acceptq_n_out) % CounterMod = Counted % CounterMod
=============================================================================
