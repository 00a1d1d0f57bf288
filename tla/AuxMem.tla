------------------------------- MODULE AuxMem -------------------------------
(***************************************************************************)
(* The auxiliary buffers of a stack (ci/internal/ip.h), which hold half    *)
(* open connections, listen buckets, path MTU and the epoll state of       *)
(* sockets, with a limit for each use; and the ready and post-poll lists   *)
(* that run through the epoll state and the sockets.  All of it under the  *)
(* stack lock.  Removal from a list and the lists themselves are DlList's. *)
(***************************************************************************)
EXTENDS Integers, Sequences, FiniteSets, FiniteSetsExt, SequencesExt

CONSTANTS Waitables,
          NAux,                 \* bound on the buffers that ever exist
          Types,                \* uses of a buffer, Epoll among them
          MaxAux,               \* max_aux_bufs
          Batch,                \* buffers that ci_ni_aux_more_bufs adds at a time
          NLists,               \* CI_CFG_N_READY_LISTS
          Epoll, Null
Lists == 1 .. NLists
Aux == 1 .. NAux

VARIABLES freeAux, nFree,       \* free_aux_mem, n_free_aux_bufs
          n,                    \* n_aux_bufs
          type, total,          \* type of a buffer; number of buffers that exist
          epoll, inUse,         \* of a socket: epoll, ready_lists_in_use
          ready, postPoll,      \* ready_lists, post_poll_list
          owner                 \* who holds a buffer: a socket, a type, or nobody

vars == <<freeAux, nFree, n, type, total, epoll, inUse, ready, postPoll, owner>>
mem == <<freeAux, nFree, n, type, total, owner>>
lists == <<epoll, inUse, ready, postPoll>>

TypeOK ==
  /\ freeAux \in Seq(Aux) /\ nFree \in Nat /\ n \in [Types -> Nat] /\ total \in 0 .. NAux
  /\ type \in [Aux -> Types \cup {Null}] /\ owner \in [Aux -> Waitables \cup Types \cup {Null}]
  /\ epoll \in [Waitables -> Aux \cup {Null}] /\ inUse \in [Waitables -> SUBSET Lists]
  /\ ready \in [Lists -> Seq(Waitables)] /\ postPoll \in Seq(Waitables)

Init ==
  /\ freeAux = << >> /\ nFree = 0 /\ n = [t \in Types |-> 0] /\ total = 0
  /\ type = [a \in Aux |-> Null] /\ owner = [a \in Aux |-> Null]
  /\ epoll = [w \in Waitables |-> Null] /\ inUse = [w \in Waitables |-> {}]
  /\ ready = [i \in Lists |-> << >>] /\ postPoll = << >>

-----------------------------------------------------------------------------
(* ci_ni_aux_more_bufs, not in the repository: what the free list may be   *)
(* once an empty one was refilled, or not when memory is short.            *)
Refilled ==
  IF freeAux # << >> THEN {freeAux}
  ELSE {<< >>} \cup {[i \in 1 .. Batch |-> total + i] : b \in {k \in {Batch} : total + k <= NAux}}

Mut_BelowLimit(t) == n[t] <= MaxAux[t]
BelowLimit(t) == n[t] < MaxAux[t]

(* ci_ni_aux_alloc *)
Alloc(t, by, list) ==
  /\ BelowLimit(t) /\ list \in Refilled /\ list # << >>
  /\ freeAux' = Tail(list)
  /\ total' = IF freeAux = << >> THEN total + Batch ELSE total
  /\ nFree' = nFree + (total' - total) - 1
  /\ n' = [n EXCEPT ![t] = @ + 1]
  /\ type' = [type EXCEPT ![Head(list)] = t] /\ owner' = [owner EXCEPT ![Head(list)] = by]

(* ci_ni_aux_free: the buffer says itself what it was used for. *)
Free(a) ==
  /\ n' = [n EXCEPT ![type[a]] = @ - 1]
  /\ freeAux' = <<a>> \o freeAux /\ nFree' = nFree + 1
  /\ owner' = [owner EXCEPT ![a] = Null]
  /\ UNCHANGED <<type, total>>

(* A listen bucket, a half open connection or a path MTU takes a buffer    *)
(* and gives it back.                                                      *)
Take(t) == t # Epoll /\ (\E list \in Refilled : Alloc(t, t, list)) /\ UNCHANGED lists
Give(a) == owner[a] \in Types /\ Free(a) /\ UNCHANGED lists

-----------------------------------------------------------------------------
Off(list, w) == SelectSeq(list, LAMBDA e : e # w)

(* Not in the repository: a socket is added to an epoll set that owns list *)
(* i, its first one allocating the epoll state.                            *)
EpollAdd(w, i) ==
  /\ i \notin inUse[w]
  /\ IF epoll[w] # Null THEN UNCHANGED <<mem, epoll>>
     ELSE \E list \in Refilled : Alloc(Epoll, w, list) /\ epoll' = [epoll EXCEPT ![w] = Head(list)]
  /\ inUse' = [inUse EXCEPT ![w] = @ \cup {i}]
  /\ UNCHANGED <<ready, postPoll>>

(* citp_waitable_remove_from_epoll *)
Mut_RemoveFromEpoll(w, doFree) ==
  /\ epoll[w] # Null
  /\ inUse' = [inUse EXCEPT ![w] = {}]
  /\ ready' = [i \in Lists |-> IF i \in inUse'[w] THEN Off(ready[i], w) ELSE ready[i]]
  /\ IF doFree THEN Free(epoll[w]) /\ epoll' = [epoll EXCEPT ![w] = Null] ELSE UNCHANGED <<mem, epoll>>
  /\ UNCHANGED postPoll
RemoveFromEpoll(w, doFree) ==
  /\ epoll[w] # Null
  /\ ready' = [i \in Lists |-> IF i \in inUse[w] THEN Off(ready[i], w) ELSE ready[i]]
  /\ inUse' = [inUse EXCEPT ![w] = {}]
  /\ IF doFree THEN Free(epoll[w]) /\ epoll' = [epoll EXCEPT ![w] = Null] ELSE UNCHANGED <<mem, epoll>>
  /\ UNCHANGED postPoll

(* ci_netif_put_on_post_poll_epoll, for the lists in use *)
PutOnReady(w) ==
  ready' = [i \in Lists |-> IF i \in inUse[w] THEN Append(Off(ready[i], w), w) ELSE ready[i]]
PutOnPostPoll(w) ==
  /\ postPoll' = Append(Off(postPoll, w), w)
  /\ IF inUse[w] # {} THEN PutOnReady(w) ELSE UNCHANGED ready
  /\ UNCHANGED <<mem, epoll, inUse>>

(* Not in the repository: the end of a poll wakes the sockets of its list, *)
(* and epoll_wait takes a socket that is not ready any more off its list.  *)
PostPoll == postPoll # << >> /\ postPoll' = Tail(postPoll) /\ UNCHANGED <<mem, epoll, inUse, ready>>
EpollWait(i) ==
  /\ ready[i] # << >> /\ ready' = [ready EXCEPT ![i] = Tail(@)]
  /\ UNCHANGED <<mem, epoll, inUse, postPoll>>

Next ==
  \/ \E t \in Types : Take(t)
  \/ \E a \in Aux : Give(a)
  \/ \E w \in Waitables : PutOnPostPoll(w) \/ \E f \in BOOLEAN : RemoveFromEpoll(w, f)
  \/ \E i \in Lists : EpollWait(i) \/ \E w \in Waitables : EpollAdd(w, i)
  \/ PostPoll
Spec == Init /\ [][Next]_vars

-----------------------------------------------------------------------------
(* Every buffer is either once on the free list or owned by one user, both *)
(* counts are exact and no use exceeds its limit, whoever frees in what    *)
(* order.                                                                  *)
BuffersAccountedFor ==
  /\ Len(freeAux) = nFree /\ ToSet(freeAux) = {a \in 1 .. total : owner[a] = Null}
  /\ Cardinality(ToSet(freeAux)) = nFree
  /\ \A t \in Types : /\ n[t] <= MaxAux[t]
                       /\ n[t] = Cardinality({a \in Aux : owner[a] # Null /\ type[a] = t})

(* A ready list runs only through epoll states that still belong to their  *)
(* socket, and through each once: no list holds a link in a freed buffer,  *)
(* which may be a half open connection by now.                             *)
NoFreedLink ==
  \A i \in Lists :
    /\ Cardinality(ToSet(ready[i])) = Len(ready[i])
    /\ \A w \in ToSet(ready[i]) : epoll[w] # Null /\ owner[epoll[w]] = w /\ i \in inUse[w]
=============================================================================
