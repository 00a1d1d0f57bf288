------------------------------ MODULE NonbPool ------------------------------
(***************************************************************************)
(* The non-blocking packet pool of an Onload stack (ci/internal/ip.h): a   *)
(* stack of packets linked through their next field, from which threads    *)
(* take and to which they return packets without the stack lock.  The word *)
(* at its head holds the first packet in its lower half and in its upper   *)
(* half a tag that is raised by every return.                              *)
(***************************************************************************)
EXTENDS Naturals, Sequences, FiniteSets

CONSTANTS Threads, Pkts, Null,
          MaxFrees    \* bound: returns to the pool in a behaviour

VARIABLES pool,      \* nonb_pkt_pool: [id, tag]
          next,      \* pkt->next
          refcount,
          held,      \* packets each thread has
          list,      \* the list each thread is returning
          link,      \* the pool word each thread has read
          new_id,    \* the successor each thread has read
          pc,
          stack      \* the packets in the pool, the last one returned first

vars == <<pool, next, refcount, held, list, link, new_id, pc, stack>>

Words == [id : Pkts \cup {Null}, tag : 0 .. MaxFrees]
NoWord == [id |-> Null, tag |-> 0]

TypeOK ==
  /\ pool \in Words
  /\ next \in [Pkts -> Pkts \cup {Null}]
  /\ refcount \in [Pkts -> {0, 1}]
  /\ held \in [Threads -> SUBSET Pkts]
  /\ list \in [Threads -> Seq(Pkts)]
  /\ link \in [Threads -> Words] /\ new_id \in [Threads -> Pkts \cup {Null}]
  /\ pc \in [Threads -> {"idle", "next", "cas", "push", "push_cas"}]
  /\ stack \in Seq(Pkts)

Init ==
  /\ pool = NoWord
  /\ next = [p \in Pkts |-> Null]
  /\ \E owner \in [Pkts -> Threads] : held = [t \in Threads |-> {p \in Pkts : owner[p] = t}]
  /\ refcount = [p \in Pkts |-> 1]
  /\ list = [t \in Threads |-> << >>]
  /\ link = [t \in Threads |-> NoWord] /\ new_id = [t \in Threads |-> Null]
  /\ pc = [t \in Threads |-> "idle"]
  /\ stack = << >>

Goto(t, from, to) == pc[t] = from /\ pc' = [pc EXCEPT ![t] = to]

-----------------------------------------------------------------------------
(* ci_netif_pkt_alloc_nonb *)

(* Read the word; an empty pool gives NULL and nothing changes. *)
AllocRead(t) ==
  /\ pool.id # Null
  /\ Goto(t, "idle", "next")
  /\ link' = [link EXCEPT ![t] = pool]
  /\ UNCHANGED <<pool, next, refcount, held, list, new_id, stack>>

(* Read pkt->next of a packet that may no longer be in the pool. *)
AllocNext(t) ==
  /\ Goto(t, "next", "cas")
  /\ new_id' = [new_id EXCEPT ![t] = next[link[t].id]]
  /\ UNCHANGED <<pool, next, refcount, held, list, link, stack>>

Mut_Unchanged(word, old) == word.id = old.id
(* The condition of the compare-and-swap: the whole word, tag included. *)
Unchanged(word, old) == word = old

AllocCas(t) ==
  /\ Goto(t, "cas", "idle")  \* after a failure the program goes to "again"
  /\ IF Unchanged(pool, link[t])
     THEN /\ pool' = [pool EXCEPT !.id = new_id[t]]
          /\ refcount' = [refcount EXCEPT ![link[t].id] = 1]
          /\ held' = [held EXCEPT ![t] = @ \cup {link[t].id}]
          /\ stack' = Tail(stack)
     ELSE UNCHANGED <<pool, refcount, held, stack>>
  /\ link' = [link EXCEPT ![t] = NoWord] /\ new_id' = [new_id EXCEPT ![t] = Null]
  /\ UNCHANGED <<next, list>>

-----------------------------------------------------------------------------
(* The caller of ci_netif_pkt_free_nonb_list gives up its references and   *)
(* links the packets of the list.                                          *)
Chains(S) == {<<p>> : p \in S} \cup {<<p, q>> : p \in S, q \in S}

MakeList(t) ==
  /\ Goto(t, "idle", "push")
  /\ pool.tag + Cardinality({u \in Threads : pc[u] \in {"push", "push_cas"}}) < MaxFrees
  /\ \E s \in Chains(held[t]) :
       /\ Len(s) = 2 => s[1] # s[2]
       /\ list' = [list EXCEPT ![t] = s]
       /\ next' = IF Len(s) = 2 THEN [next EXCEPT ![s[1]] = s[2]] ELSE next
       /\ held' = [held EXCEPT ![t] = @ \ {s[i] : i \in 1 .. Len(s)}]
       /\ refcount' = [p \in Pkts |-> IF \E i \in 1 .. Len(s) : s[i] = p THEN 0 ELSE refcount[p]]
  /\ UNCHANGED <<pool, link, new_id, stack>>

Last(s) == s[Len(s)]

(* The body of the loop up to the swap: the tail is linked to the head of  *)
(* the pool.                                                               *)
FreeRead(t) ==
  /\ Goto(t, "push", "push_cas")
  /\ link' = [link EXCEPT ![t] = pool]
  /\ next' = [next EXCEPT ![Last(list[t])] = pool.id]
  /\ UNCHANGED <<pool, refcount, held, list, new_id, stack>>

Mut_FreeCas(t) ==
  /\ IF Unchanged(pool, link[t])
     THEN /\ Goto(t, "push_cas", "idle")
          /\ pool' = [id |-> list[t][1], tag |-> link[t].tag]
          /\ list' = [list EXCEPT ![t] = << >>]
          /\ stack' = list[t] \o stack
     ELSE Goto(t, "push_cas", "push") /\ UNCHANGED <<pool, list, stack>>
  /\ link' = [link EXCEPT ![t] = NoWord]
  /\ UNCHANGED <<next, refcount, held, new_id>>
FreeCas(t) ==
  /\ IF Unchanged(pool, link[t])
     THEN /\ Goto(t, "push_cas", "idle")
          /\ pool' = [id |-> list[t][1], tag |-> link[t].tag + 1]
          /\ list' = [list EXCEPT ![t] = << >>]
          /\ stack' = list[t] \o stack
     ELSE Goto(t, "push_cas", "push") /\ UNCHANGED <<pool, list, stack>>
  /\ link' = [link EXCEPT ![t] = NoWord]
  /\ UNCHANGED <<next, refcount, held, new_id>>

Next == \E t \in Threads :
  AllocRead(t) \/ AllocNext(t) \/ AllocCas(t) \/ MakeList(t) \/ FreeRead(t) \/ FreeCas(t)
Spec == Init /\ [][Next]_vars

-----------------------------------------------------------------------------
InPool == {stack[i] : i \in 1 .. Len(stack)}
InList(t) == {list[t][i] : i \in 1 .. Len(list[t])}

(* The pool is an atomic stack: however the unlocked reads of              *)
(* ci_netif_pkt_alloc_nonb interleave with other threads, following next   *)
(* from the head of the pool gives the packets that the swaps have put     *)
(* there and not taken, the last one put first.                            *)
LinksSpellStack ==
  /\ pool.id = IF stack = << >> THEN Null ELSE stack[1]
  /\ \A i \in 1 .. Len(stack) : next[stack[i]] = IF i = Len(stack) THEN Null ELSE stack[i + 1]

(* A packet is in the pool once, or with one thread, never both, and never *)
(* lost; and ci_assert_equal(pkt->refcount, 0) holds of every packet in    *)
(* the pool.                                                               *)
PacketsConserved ==
  /\ \A i, j \in 1 .. Len(stack) : stack[i] = stack[j] => i = j
  /\ \A t \in Threads :
       /\ held[t] \cap InList(t) = {}
       /\ (held[t] \cup InList(t)) \cap InPool = {}
       /\ \A u \in Threads \ {t} : (held[t] \cup InList(t)) \cap (held[u] \cup InList(u)) = {}
  /\ Pkts = InPool \cup UNION {held[t] \cup InList(t) : t \in Threads}
  /\ \A p \in InPool : refcount[p] = 0
=============================================================================
