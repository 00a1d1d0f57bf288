------------------------------- MODULE WqLock -------------------------------
(***************************************************************************)
(* The lock with a queue of work of Onload (onload/ul/wqlock.h): one word  *)
(* holds the lock bit, the bit of a sleeper to wake and the head of a list *)
(* of jobs that the holder runs before it lets go.  lock_slow, unlock_slow *)
(* and work_do are external.  Every thread has one job, named like it.     *)
(***************************************************************************)
EXTENDS Integers, FiniteSets

CONSTANTS Threads, Null

VARIABLES lock,          \* the word: [locked, wake, work]
          next,          \* of each job
          pc, v, batch,  \* per thread: place, word it has read, jobs it has to run
          ret,           \* where it goes on after them (v and ret are reset after use)
          queued         \* jobs handed over and not run yet

vars == <<lock, next, pc, v, batch, ret, queued>>

JobOrNull == Threads \cup {Null}
Words == [locked : BOOLEAN, wake : BOOLEAN, work : JobOrNull]
Zero == [locked |-> FALSE, wake |-> FALSE, work |-> Null]
Locked == [Zero EXCEPT !.locked = TRUE]
Holding == {"hold", "drain", "run", "slow"}

TypeOK ==
  /\ lock \in Words /\ next \in [Threads -> JobOrNull]
  /\ pc \in [Threads -> {"idle", "wait", "asleep", "try_queue", "cas", "try_lock"} \cup Holding]
  /\ v \in [Threads -> Words] /\ batch \in [Threads -> JobOrNull]
  /\ ret \in [Threads -> {"hold", "slow"}] /\ queued \subseteq Threads

Init ==
  /\ lock = Zero /\ next = [t \in Threads |-> Null]
  /\ pc = [t \in Threads |-> "idle"] /\ v = [t \in Threads |-> Zero]
  /\ batch = [t \in Threads |-> Null] /\ ret = [t \in Threads |-> "hold"] /\ queued = {}

Goto(t, from, to) == pc[t] = from /\ pc' = [pc EXCEPT ![t] = to]
Rest == <<next, v, batch, ret, queued>>

-----------------------------------------------------------------------------
(* oo_wqlock_lock, then oo_wqlock_lock_slow: it takes the word, or marks   *)
(* it and sleeps.                                                          *)
Lock(t) ==
  /\ Goto(t, "idle", IF lock = Zero THEN "hold" ELSE "wait")
  /\ lock' = IF lock = Zero THEN Locked ELSE lock
  /\ UNCHANGED Rest
LockSlow(t) ==
  /\ IF lock = Zero THEN Goto(t, "wait", "hold") /\ lock' = Locked
     ELSE Goto(t, "wait", "asleep") /\ lock' = [lock EXCEPT !.wake = TRUE]
  /\ UNCHANGED Rest

(* oo_wqlock_lock_or_queue, with a job that is not in the queue *)
LockOrQueue(t) == t \notin queued /\ Goto(t, "idle", "try_queue") /\ UNCHANGED <<lock, Rest>>

(* oo_wqlock_try_queue: read the word, link the job in front of it ... *)
TryQueue(t) ==
  /\ Goto(t, "try_queue", IF lock.locked THEN "cas" ELSE "try_lock")
  /\ v' = IF lock.locked THEN [v EXCEPT ![t] = lock] ELSE v
  /\ next' = IF lock.locked THEN [next EXCEPT ![t] = lock.work] ELSE next
  /\ UNCHANGED <<lock, batch, ret, queued>>

Mut_TryQueueCas(t) ==
  /\ pc[t] = "cas"
  /\ IF lock.work = v[t].work
     THEN Goto(t, "cas", "idle") /\ lock' = [v[t] EXCEPT !.work = t] /\ queued' = queued \cup {t}
     ELSE Goto(t, "cas", "try_lock") /\ UNCHANGED <<lock, queued>>
  /\ v' = [v EXCEPT ![t] = Zero]
  /\ UNCHANGED <<next, batch, ret>>
(* ... and swap the word, if it is still the same. *)
TryQueueCas(t) ==
  /\ pc[t] = "cas"
  /\ IF lock = v[t]
     THEN Goto(t, "cas", "idle") /\ lock' = [lock EXCEPT !.work = t] /\ queued' = queued \cup {t}
     ELSE Goto(t, "cas", "try_lock") /\ UNCHANGED <<lock, queued>>
  /\ v' = [v EXCEPT ![t] = Zero]
  /\ UNCHANGED <<next, batch, ret>>

TryLock(t) ==
  /\ Goto(t, "try_lock", IF lock = Zero THEN "hold" ELSE "try_queue")
  /\ lock' = IF lock = Zero THEN Locked ELSE lock
  /\ UNCHANGED Rest

-----------------------------------------------------------------------------
(* The holder: oo_wqlock_try_drain_work ... *)
DrainRead(t) ==
  /\ pc[t] = "hold" /\ lock.work # Null /\ Goto(t, "hold", "drain")
  /\ v' = [v EXCEPT ![t] = lock]
  /\ UNCHANGED <<lock, next, batch, ret, queued>>
Mut_DrainCas(t) ==
  /\ Goto(t, "drain", "run")
  /\ lock' = [lock EXCEPT !.work = Null]
  /\ batch' = [batch EXCEPT ![t] = v[t].work] /\ v' = [v EXCEPT ![t] = Zero]
  /\ UNCHANGED <<next, ret, queued>>
DrainCas(t) ==
  /\ IF lock = v[t]
     THEN /\ Goto(t, "drain", "run")
          /\ lock' = [lock EXCEPT !.work = Null]
          /\ batch' = [batch EXCEPT ![t] = v[t].work]
     ELSE Goto(t, "drain", "hold") /\ UNCHANGED <<lock, batch>>
  /\ v' = [v EXCEPT ![t] = Zero]
  /\ UNCHANGED <<next, ret, queued>>

(* oo_wqlock_work_do runs a job; it has read the link first, as the job    *)
(* may be handed over again at once.                                       *)
WorkDo(t) ==
  /\ pc[t] = "run"
  /\ queued' = queued \ {batch[t]}
  /\ batch' = [batch EXCEPT ![t] = next[batch[t]]]
  /\ Goto(t, "run", IF batch'[t] = Null THEN ret[t] ELSE "run")
  /\ ret' = IF batch'[t] = Null THEN [ret EXCEPT ![t] = "hold"] ELSE ret
  /\ UNCHANGED <<lock, next, v>>

Mut_Unlock(t) ==
  /\ Goto(t, "hold", "idle")
  /\ lock' = Zero
  /\ UNCHANGED Rest
(* ... and oo_wqlock_unlock, which succeeds if nothing else is in the word. *)
Unlock(t) ==
  /\ Goto(t, "hold", IF lock = Locked THEN "idle" ELSE "slow")
  /\ lock' = IF lock = Locked THEN Zero ELSE lock
  /\ UNCHANGED Rest

(* oo_wqlock_unlock_slow runs what is queued until there is nothing, then  *)
(* lets go and wakes the sleepers.                                         *)
UnlockSlow(t) ==
  /\ pc[t] = "slow"
  /\ IF lock.work # Null
     THEN /\ Goto(t, "slow", "run")
          /\ batch' = [batch EXCEPT ![t] = lock.work] /\ ret' = [ret EXCEPT ![t] = "slow"]
          /\ lock' = [lock EXCEPT !.work = Null]
     ELSE /\ pc' = [u \in Threads |-> IF u = t THEN "idle" ELSE IF pc[u] = "asleep" THEN "wait" ELSE pc[u]]
          /\ lock' = Zero /\ UNCHANGED <<batch, ret>>
  /\ UNCHANGED <<next, v, queued>>

HolderStep(t) == DrainCas(t) \/ WorkDo(t) \/ Unlock(t) \/ UnlockSlow(t)
Step(t) == HolderStep(t) \/ LockSlow(t) \/ TryQueue(t) \/ TryQueueCas(t) \/ TryLock(t)
Next == \E t \in Threads : Lock(t) \/ LockOrQueue(t) \/ DrainRead(t) \/ Step(t)
Spec == Init /\ [][Next]_vars
FairSpec == Spec /\ \A t \in Threads : WF_vars(Step(t)) /\ SF_vars(Unlock(t))

-----------------------------------------------------------------------------
(* The jobs of the list that starts at j: those in every set of jobs that  *)
(* holds j and with a job the one that it links to.                        *)
Closed(S) == \A k \in S : next[k] \in S \cup {Null}
Reach(j) ==
  {i \in Threads : \A S \in SUBSET Threads : j \in S \cup {Null} /\ Closed(S) => i \in S}

(* A job that is handed over is in the list of the word or in the batch    *)
(* its holder is running, in one of them only, until it has been run: no   *)
(* swap of the word drops the list or brings back a job.                   *)
JobsKept ==
  /\ queued = Reach(lock.work) \cup UNION {Reach(batch[t]) : t \in Threads}
  /\ \A t \in Threads : Reach(lock.work) \cap Reach(batch[t]) = {}

(* One thread at a time, and the bit says so; the assertion at line 99: an *)
(* unlocked word has no work in it, so no job waits for nobody.            *)
Exclusive ==
  /\ lock.locked <=> \E t \in Threads : pc[t] \in Holding
  /\ \A t, u \in Threads : pc[t] \in Holding /\ pc[u] \in Holding => t = u
  /\ lock.locked \/ lock.work = Null

(* A job handed over is run, though its owner does not hold the lock.      *)
JobsAreRun == \A j \in Threads : j \in queued ~> j \notin queued
=============================================================================
