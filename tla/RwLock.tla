------------------------------- MODULE RwLock -------------------------------
(***************************************************************************)
(* onload/ul/rwlock.h: a read-write lock that prefers writers.  A thread   *)
(* that has read once stays registered as a reader and reads again with    *)
(* one compare-and-swap on its own flags; a writer raises a flag in val    *)
(* and throws out the registered threads that are not reading.             *)
(*                                                                         *)
(* Steps made under the mutex are one action where nothing they touch is   *)
(* accessed without it; the mutex is a variable for the sections that are  *)
(* more than one action.  The functions of rwlock.c are not part of the    *)
(* repository: they are modelled as the comments of the header ask.        *)
(***************************************************************************)
EXTENDS Naturals, FiniteSets

CONSTANTS Threads, NoThread

VARIABLES pc,          \* where each thread is
          is_reader,   \* OO_RWLOCK_KEY_IS_READER of each thread
          reading_now, \* OO_RWLOCK_KEY_READING_NOW of each thread
          readers,     \* val without its flag: threads registered
          writer,      \* OO_RWLOCK_VAL_WRITER of val
          writers,     \* writers working or pending
          mutex, write_lock

vars == <<pc, is_reader, reading_now, readers, writer, writers, mutex, write_lock>>
val == <<readers, writer>>
flags == <<is_reader, reading_now>>

Sleeping == {"r_sleep", "w_sleep"}
WriterPcs == {"w_mutex", "w_clear", "w_sleep", "w_woken", "w_lock", "writing",
              "c_sleep", "c_woken", "w_dec", "t_mutex", "t_clear", "t_assert", "t_lock"}

TypeOK ==
  /\ pc \in [Threads -> {"idle", "r_mutex", "r_try", "r_sleep", "r_woken", "reading",
                         "u_check", "u_stop"} \cup WriterPcs]
  /\ is_reader \in [Threads -> BOOLEAN] /\ reading_now \in [Threads -> BOOLEAN]
  /\ readers = Cardinality({t \in Threads : is_reader[t]})
  /\ writer \in BOOLEAN
  /\ writers \in 0 .. Cardinality(Threads)
  /\ mutex \in Threads \cup {NoThread} /\ write_lock \in Threads \cup {NoThread}

Init ==
  /\ pc = [t \in Threads |-> "idle"]
  /\ is_reader = [t \in Threads |-> FALSE] /\ reading_now = [t \in Threads |-> FALSE]
  /\ readers = 0 /\ writer = FALSE /\ writers = 0
  /\ mutex = NoThread /\ write_lock = NoThread

Goto(t, from, to) == pc[t] = from /\ pc' = [pc EXCEPT ![t] = to]
MutexFree == mutex = NoThread

(* pthread_cond_broadcast(&l->cond), by a thread that goes on at `to'. *)
Broadcast(t, to) ==
  pc' = [u \in Threads |-> CASE u = t -> to
                             [] u # t /\ pc[u] = "r_sleep" -> "r_woken"
                             [] u # t /\ pc[u] = "w_sleep" -> "w_woken"
                             [] OTHER -> pc[u]]

-----------------------------------------------------------------------------
(* Readers *)

(* A registered thread: the compare-and-swap on its own flags, which fails *)
(* and is tried again when a writer has just cleared IS_READER.            *)
ReadFast(t) ==
  /\ is_reader[t]
  /\ Goto(t, "idle", "reading")
  /\ reading_now' = [reading_now EXCEPT ![t] = TRUE]
  /\ UNCHANGED <<is_reader, val, writers, mutex, write_lock>>

(* A thread that is not registered must take the mutex. *)
ReadSlow(t) ==
  /\ ~is_reader[t]
  /\ Goto(t, "idle", "r_mutex") \/ Goto(t, "idle", "r_try")
  /\ UNCHANGED <<flags, val, writers, mutex, write_lock>>

(* rwlock_try_start_read, refused while a writer is pending or working. *)
StartRead(t) ==
  /\ is_reader' = [is_reader EXCEPT ![t] = TRUE]
  /\ reading_now' = [reading_now EXCEPT ![t] = TRUE]
  /\ readers' = IF is_reader[t] THEN readers ELSE readers + 1

(* The part of oo_rwlock_lock_read and oo_rwlock_try_read under the mutex. *)
ReadUnderMutex(t) ==
  /\ MutexFree
  /\ IF writer
     THEN /\ \/ Goto(t, "r_mutex", "r_sleep") \/ Goto(t, "r_woken", "r_sleep")
             \/ Goto(t, "r_try", "idle")
          /\ UNCHANGED <<flags, readers>>
     ELSE /\ \E from \in {"r_mutex", "r_woken", "r_try"} : Goto(t, from, "reading")
          /\ StartRead(t)
  /\ UNCHANGED <<writer, writers, mutex, write_lock>>

(* oo_rwlock_unlock_read up to the barrier: X of the comment. *)
UnlockRead(t) ==
  /\ Goto(t, "reading", "u_check")
  /\ reading_now' = [reading_now EXCEPT ![t] = FALSE]
  /\ UNCHANGED <<is_reader, val, writers, mutex, write_lock>>

Mut_CheckWriter(t) ==
  /\ Goto(t, "u_check", "idle")
  /\ UNCHANGED <<flags, val, writers, mutex, write_lock>>
(* The read of val after the barrier: Y of the comment. *)
CheckWriter(t) ==
  /\ Goto(t, "u_check", IF writer THEN "u_stop" ELSE "idle")
  /\ UNCHANGED <<flags, val, writers, mutex, write_lock>>

(* rwlock_stop_read: the thread is no reader any more; the last one wakes  *)
(* the writers.                                                            *)
StopRead(t) ==
  /\ pc[t] = "u_stop" /\ MutexFree
  /\ is_reader' = [is_reader EXCEPT ![t] = FALSE]
  /\ readers' = IF is_reader[t] THEN readers - 1 ELSE readers
  /\ IF readers' = 0 /\ writer THEN Broadcast(t, "idle") ELSE Goto(t, "u_stop", "idle")
  /\ UNCHANGED <<reading_now, writer, writers, mutex, write_lock>>

-----------------------------------------------------------------------------
(* Writers *)

(* Announcing a writer: any number of lock_write, one try_write when there *)
(* is no other.                                                            *)
Announce(t) ==
  /\ Goto(t, "idle", "w_mutex") \/ (writers = 0 /\ Goto(t, "idle", "t_mutex"))
  /\ writers' = writers + 1
  /\ UNCHANGED <<flags, val, mutex, write_lock>>

(* Taking the mutex and raising the writer flag of val: A of the comment. *)
SetWriterFlag(t) ==
  /\ MutexFree
  /\ Goto(t, "w_mutex", "w_clear") \/ Goto(t, "t_mutex", "t_clear")
  /\ mutex' = t
  /\ writer' = TRUE
  /\ UNCHANGED <<flags, readers, writers, write_lock>>

(* rwlock_clear_readers: registered threads that are not reading are       *)
(* thrown out.                                                             *)
ClearReaders ==
  /\ is_reader' = [t \in Threads |-> is_reader[t] /\ reading_now[t]]
  /\ readers' = Cardinality({t \in Threads : is_reader[t] /\ reading_now[t]})

Mut_ClearAndWait(t) ==
  /\ pc[t] = "w_clear"
  /\ IF readers = 0 THEN Broadcast(t, "w_lock") ELSE Goto(t, "w_clear", "w_sleep")
  /\ mutex' = NoThread
  /\ UNCHANGED <<flags, val, writers, write_lock>>
(* B of the comment, in oo_rwlock_lock_write: sleep while threads read.    *)
(* The mutex is released by the wait or by the unlock.                     *)
ClearAndWait(t) ==
  /\ pc[t] = "w_clear"
  /\ ClearReaders
  /\ IF readers' = 0 THEN Broadcast(t, "w_lock") ELSE Goto(t, "w_clear", "w_sleep")
  /\ mutex' = NoThread
  /\ UNCHANGED <<reading_now, writer, writers, write_lock>>

(* rwlock_writers_dec: the last writer takes the flag down, under the      *)
(* mutex, and wakes everybody.                                             *)
WritersDec(t) ==
  /\ writers' = writers - 1
  /\ IF writers = 1
     THEN mutex \in {t, NoThread} /\ writer' = FALSE /\ Broadcast(t, "idle")
     ELSE UNCHANGED writer /\ pc' = [pc EXCEPT ![t] = "idle"]
  /\ mutex' = IF mutex = t THEN NoThread ELSE mutex

Mut_ClearOrGiveUp(t) ==
  /\ pc[t] = "t_clear"
  /\ ClearReaders
  /\ IF readers' = 0
     THEN Broadcast(t, "t_assert") /\ UNCHANGED mutex
     ELSE Goto(t, "t_clear", "idle") /\ mutex' = NoThread
  /\ UNCHANGED <<reading_now, writer, writers, write_lock>>
(* B in oo_rwlock_try_write: give up while threads read. *)
ClearOrGiveUp(t) ==
  /\ pc[t] = "t_clear"
  /\ ClearReaders
  /\ IF readers' = 0
     THEN Broadcast(t, "t_assert") /\ UNCHANGED <<writer, writers, mutex>>
     ELSE WritersDec(t)
  /\ UNCHANGED <<reading_now, write_lock>>

(* The unlock of the mutex (the assertion above it is left out). *)
TryUnlockMutex(t) ==
  /\ Goto(t, "t_assert", "t_lock")
  /\ mutex' = NoThread
  /\ UNCHANGED <<flags, val, writers, write_lock>>

(* Back from pthread_cond_wait: the loop's condition again. *)
RecheckReaders(t) ==
  /\ MutexFree
  /\ Goto(t, "w_woken", IF readers = 0 /\ writer THEN "w_lock" ELSE "w_sleep")
  /\ UNCHANGED <<flags, val, writers, mutex, write_lock>>

(* pthread_mutex_lock or trylock of write_lock, or the end of the wait of  *)
(* oo_rwlock_cond_wait.                                                    *)
TakeWriteLock(t) ==
  /\ write_lock = NoThread
  /\ \E from \in {"w_lock", "t_lock", "c_woken"} : Goto(t, from, "writing")
  /\ write_lock' = t
  /\ UNCHANGED <<flags, val, writers, mutex>>

Mut_TryBackOff(t) ==
  /\ write_lock # NoThread
  /\ Goto(t, "t_lock", "idle")
  /\ UNCHANGED <<flags, val, writers, mutex, write_lock>>
(* The trylock of oo_rwlock_try_write fails: back off. *)
TryBackOff(t) ==
  /\ write_lock # NoThread
  /\ Goto(t, "t_lock", "w_dec")
  /\ UNCHANGED <<flags, val, writers, mutex, write_lock>>

(* oo_rwlock_unlock_write: the write lock first, then the count. *)
UnlockWrite(t) ==
  /\ Goto(t, "writing", "w_dec")
  /\ write_lock' = NoThread
  /\ UNCHANGED <<flags, val, writers, mutex>>

Mut_DecWriters(t) ==
  /\ pc[t] = "w_dec"
  /\ writers' = writers - 1
  /\ writer' = FALSE
  /\ MutexFree
  /\ Broadcast(t, "idle")
  /\ UNCHANGED <<flags, readers, mutex, write_lock>>
DecWriters(t) ==
  /\ pc[t] = "w_dec"
  /\ WritersDec(t)
  /\ UNCHANGED <<flags, readers, write_lock>>

(* oo_rwlock_cond_wait releases the write lock, and oo_rwlock_cond_broadcast *)
(* is called by a writer.                                                  *)
CondWait(t) ==
  /\ Goto(t, "writing", "c_sleep")
  /\ write_lock' = NoThread
  /\ UNCHANGED <<flags, val, writers, mutex>>

CondBroadcast(t) ==
  /\ pc[t] = "writing"
  /\ \E u \in Threads : pc[u] = "c_sleep"
  /\ pc' = [u \in Threads |-> IF pc[u] = "c_sleep" THEN "c_woken" ELSE pc[u]]
  /\ UNCHANGED <<flags, val, writers, mutex, write_lock>>

(* A wait may end without a broadcast. *)
SpuriousWake(t) ==
  /\ \/ Goto(t, "r_sleep", "r_woken") \/ Goto(t, "w_sleep", "w_woken")
     \/ Goto(t, "c_sleep", "c_woken")
  /\ UNCHANGED <<flags, val, writers, mutex, write_lock>>

-----------------------------------------------------------------------------
(* What a thread inside a call, or holding the lock, goes on to do. *)
Proceed(t) ==
  \/ ReadUnderMutex(t) \/ UnlockRead(t) \/ CheckWriter(t) \/ StopRead(t)
  \/ SetWriterFlag(t) \/ ClearAndWait(t) \/ ClearOrGiveUp(t) \/ TryUnlockMutex(t)
  \/ RecheckReaders(t) \/ TakeWriteLock(t) \/ TryBackOff(t)
  \/ UnlockWrite(t) \/ DecWriters(t)
Begin(t) == ReadFast(t) \/ ReadSlow(t) \/ Announce(t)
Waits(t) == CondWait(t) \/ CondBroadcast(t) \/ SpuriousWake(t)

Next == \E t \in Threads : Proceed(t) \/ Begin(t) \/ Waits(t)
Spec == Init /\ [][Next]_vars

(* Threads leave their sections, and no thread is passed over for ever at  *)
(* one of the pthread mutexes.                                             *)
FairSpec == Spec /\ \A t \in Threads : SF_vars(Proceed(t))

-----------------------------------------------------------------------------
(* The lock excludes: while a thread writes nobody else reads or writes;   *)
(* and while a writer sleeps in oo_rwlock_cond_wait, with the write lock   *)
(* released, other writers may come in but, as its comment says, readers   *)
(* can not.                                                                *)
Exclusion ==
  \A t \in Threads :
    /\ pc[t] = "writing" => \A u \in Threads \ {t} : pc[u] \notin {"reading", "writing"}
    /\ pc[t] = "c_sleep" => \A u \in Threads : pc[u] # "reading"

(* No wakeup is lost in the race of the barrier comment (A B against X Y): *)
(* a writer sleeps only while some thread is registered, and with the flag *)
(* up every registered thread is reading or on its way to                  *)
(* rwlock_stop_read, unless a writer is just about to throw it out; a      *)
(* reader sleeps only while the flag is up.                                *)
NoLostWakeup ==
  /\ \A t \in Threads :
       /\ pc[t] = "w_sleep" => writer /\ readers > 0
       /\ pc[t] = "r_sleep" => writer
  /\ writer /\ MutexFree =>
       \A t \in Threads : is_reader[t] => reading_now[t] \/ pc[t] \in {"u_check", "u_stop"}

(* The writer count, which decides who takes the flag down, counts the     *)
(* threads between their announcement and rwlock_writers_dec, on every     *)
(* path including the two on which oo_rwlock_try_write gives up, and the   *)
(* flag never outlives the last of them.                                   *)
WritersCounted ==
  /\ writers = Cardinality({t \in Threads : pc[t] \in WriterPcs})
  /\ writer => writers > 0

(* A call of oo_rwlock_lock_write returns, however the readers' unlocks    *)
(* interleave with it.                                                     *)
LockWriteReturns ==
  \A t \in Threads : pc[t] = "w_mutex" ~> pc[t] = "writing"
=============================================================================
