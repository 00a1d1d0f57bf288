----------------------------- MODULE OnloadQueues ---------------------------
(***************************************************************************)
(* What the threads of an Onload stack pass each other through links that  *)
(* they change by compare-and-swap: the connections of an accept queue and *)
(* the packets of the non-blocking pool.  The two share no state in these  *)
(* models and are put side by side.                                        *)
(***************************************************************************)
EXTENDS Integers, Sequences, FiniteSets

CONSTANTS Socks, CounterMod,
          PoolThreads, PoolPkts, MaxFrees,
          ListEnd    \* OO_SP_NULL and OO_PP_NULL: the end of a list

(* The end of a list is neither a socket nor a packet. *)
ASSUME QueuesAssumption ==
  CounterMod \in Nat \ {0} /\ ListEnd \notin Socks /\ ListEnd \notin PoolPkts

VARIABLES
  acceptq_put, acceptq_get, wt_next, acceptq_n_in, acceptq_n_out, acc_ppc, w_in,
  gpc, from, w_out, op, acc_held, queue,
  pool, pool_next, refcount, pool_held, list, link, new_id, pool_pc, stack

Acc  == INSTANCE AcceptQ WITH Null <- ListEnd, ppc <- acc_ppc, held <- acc_held
Pool == INSTANCE NonbPool WITH Threads <- PoolThreads, Pkts <- PoolPkts, Null <- ListEnd,
                               next <- pool_next, held <- pool_held, pc <- pool_pc

accVars == <<acceptq_put, acceptq_get, wt_next, acceptq_n_in, acceptq_n_out, acc_ppc, w_in,
             gpc, from, w_out, op, acc_held, queue>>
poolVars == <<pool, pool_next, refcount, pool_held, list, link, new_id, pool_pc, stack>>
queuesVars == <<accVars, poolVars>>

AccMoves == Acc!Next /\ UNCHANGED poolVars
PoolMoves == Pool!Next /\ UNCHANGED accVars

QueuesInit == Acc!Init /\ Pool!Init
QueuesNext == AccMoves \/ PoolMoves
QueuesSpec == QueuesInit /\ [][QueuesNext]_queuesVars

-----------------------------------------------------------------------------
(* The accept queue: at every step the two lists, and the one that is      *)
(* being turned round, hold the waiting connections in the order of their  *)
(* arrival, and the count read without a lock is off by at most one for    *)
(* each call under way, also after the counters have wrapped.              *)
AcceptedInOrder == Acc!Fifo /\ Acc!CountInStep

(* The non-blocking pool is an atomic stack, also when a packet leaves and *)
(* comes back while another thread is about to swap the head: the links    *)
(* spell what the swaps have put there and not taken, and a packet is in   *)
(* the pool once and without references, or with one thread.               *)
PoolIsAStack == Pool!LinksSpellStack /\ Pool!PacketsConserved
=============================================================================
