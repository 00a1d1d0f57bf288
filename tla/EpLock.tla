------------------------------- MODULE EpLock -------------------------------
(***************************************************************************)
(* onload/eplock.h: the lock of an Onload stack.  The lock word holds the  *)
(* lock bit, a bit that asks for a wake-up, and flags by which a thread    *)
(* that does not get the lock leaves a job to the holder, who does it      *)
(* before it unlocks.                                                      *)
(*                                                                         *)
(* A loop that repeats a compare-and-swap until it succeeds is one action; *)
(* ef_eplock_try_unlock, which tries once, is two.                         *)
(***************************************************************************)
EXTENDS Naturals

CONSTANTS Threads,
          UnlockFlags,  \* flags that must be served before the unlock (flag_mask)
          OtherFlags    \* flags that may stay in an unlocked word

VARIABLES lock,    \* the set of bits of the lock word
          pc,
          lv,      \* the word each thread has read in ef_eplock_try_unlock
          todo,    \* flags a holder has cleared and is serving
          owed     \* jobs left to a holder and not done yet

vars == <<lock, pc, lv, todo, owed>>

Flags == UnlockFlags \cup OtherFlags
FlagSets == SUBSET Flags \ {{}}
Bits == {"LOCKED", "NEED_WAKE"} \cup Flags

TypeOK ==
  /\ lock \subseteq Bits
  /\ pc \in [Threads -> {"idle", "sleeping", "woken", "holder", "unlocking", "serving"}]
  /\ lv \in [Threads -> SUBSET Bits]
  /\ todo \subseteq UnlockFlags /\ owed \subseteq UnlockFlags

Init ==
  /\ lock = {} /\ pc = [t \in Threads |-> "idle"]
  /\ lv = [t \in Threads |-> {}] /\ todo = {} /\ owed = {}

Locked == "LOCKED" \in lock
Goto(t, from, to) == pc[t] = from /\ pc' = [pc EXCEPT ![t] = to]
Owe(flags) == owed' = owed \cup (flags \cap UnlockFlags)

-----------------------------------------------------------------------------
(* ef_eplock_trylock; the fast path of ef_eplock_lock is the case lock = {} *)
Trylock(t) ==
  /\ ~Locked
  /\ Goto(t, "idle", "holder") \/ Goto(t, "woken", "holder")
  /\ lock' = lock \cup {"LOCKED"}
  /\ UNCHANGED <<lv, todo, owed>>

(* __ef_eplock_lock_slow: ask for a wake-up and sleep. *)
LockSlow(t) ==
  /\ Locked
  /\ Goto(t, "idle", "sleeping") \/ Goto(t, "woken", "sleeping")
  /\ lock' = lock \cup {"NEED_WAKE"}
  /\ UNCHANGED <<lv, todo, owed>>

HolderSetFlags(t, flags) ==
  /\ pc[t] = "holder"
  /\ lock' = lock \cup flags
  /\ Owe(flags)
  /\ UNCHANGED <<pc, lv, todo>>

(* Returns 0 and changes nothing when the lock is free. *)
SetFlagsIfLocked(t, flags) ==
  /\ pc[t] = "idle" /\ Locked
  /\ lock' = lock \cup flags
  /\ Owe(flags)
  /\ UNCHANGED <<pc, lv, todo>>

TrylockAndSetFlags(t, flags) ==
  /\ IF Locked THEN pc[t] = "idle" /\ UNCHANGED pc ELSE Goto(t, "idle", "holder")
  /\ lock' = lock \cup {"LOCKED"} \cup flags
  /\ Owe(flags)
  /\ UNCHANGED <<lv, todo>>

Mut_LockOrSetFlags(t, flags) ==
  /\ Goto(t, "idle", "holder")
  /\ lock' = IF Locked THEN lock \cup flags ELSE lock \cup {"LOCKED"}
  /\ IF Locked THEN Owe(flags) ELSE UNCHANGED owed
  /\ UNCHANGED <<lv, todo>>
(* The thread that gets the lock does the job itself. *)
LockOrSetFlags(t, flags) ==
  /\ IF Locked
     THEN pc[t] = "idle" /\ lock' = lock \cup flags /\ Owe(flags) /\ UNCHANGED pc
     ELSE Goto(t, "idle", "holder") /\ lock' = lock \cup {"LOCKED"} /\ UNCHANGED owed
  /\ UNCHANGED <<lv, todo>>

Mut_TryUnlockRead(t) ==
  /\ Goto(t, "holder", "unlocking")
  /\ lv' = [lv EXCEPT ![t] = lock]
  /\ UNCHANGED <<lock, todo, owed>>
(* ef_eplock_try_unlock reads the word and refuses when a flag is set ... *)
TryUnlockRead(t) ==
  /\ Goto(t, "holder", IF lock \cap UnlockFlags # {} THEN "serving" ELSE "unlocking")
  /\ lv' = [lv EXCEPT ![t] = lock]
  /\ UNCHANGED <<lock, todo, owed>>

Woken(t) ==
  pc' = [u \in Threads |-> CASE u = t -> "idle"
                             [] u # t /\ pc[u] = "sleeping" -> "woken"
                             [] OTHER -> pc[u]]

Mut_TryUnlockCas(t) ==
  /\ IF lock = lv[t]
     THEN lock' = lv[t] \ {"LOCKED"} /\ Goto(t, "unlocking", "idle")
     ELSE Goto(t, "unlocking", "holder") /\ UNCHANGED lock
  /\ lv' = [lv EXCEPT ![t] = {}]
  /\ UNCHANGED <<todo, owed>>
(* ... and swaps in the unlocked word if it has not changed since.  The    *)
(* holder, told of NEED_WAKE by lock_val_out, wakes the sleepers; when the *)
(* swap fails it starts again.                                             *)
TryUnlockCas(t) ==
  /\ pc[t] = "unlocking"
  /\ IF lock = lv[t]
     THEN /\ lock' = lv[t] \ {"LOCKED", "NEED_WAKE"}
          /\ IF "NEED_WAKE" \in lv[t] THEN Woken(t) ELSE Goto(t, "unlocking", "idle")
     ELSE Goto(t, "unlocking", "holder") /\ UNCHANGED lock
  /\ lv' = [lv EXCEPT ![t] = {}]
  /\ UNCHANGED <<todo, owed>>

Mut_ClearFlags(t) ==
  /\ pc[t] = "serving" /\ todo = {}
  /\ todo' = lv[t] \cap UnlockFlags
  /\ lock' = lock \ UnlockFlags
  /\ UNCHANGED <<pc, lv, owed>>
(* The unlock callback clears the flags with ef_eplock_clear_flags and     *)
(* serves those the word held at that moment, then tries again.            *)
ClearFlags(t) ==
  /\ pc[t] = "serving" /\ todo = {}
  /\ todo' = lock \cap UnlockFlags
  /\ lock' = lock \ UnlockFlags
  /\ UNCHANGED <<pc, lv, owed>>

Serve(t) ==
  /\ Goto(t, "serving", "holder") /\ todo # {}
  /\ owed' = owed \ (todo \ lock)   \* a flag set again meanwhile is a new job
  /\ todo' = {}
  /\ lv' = [lv EXCEPT ![t] = {}]
  /\ UNCHANGED lock

(* The holder takes down a flag that does not hinder the unlock. *)
ClearOther(t) ==
  /\ pc[t] = "holder" /\ lock \cap OtherFlags # {}
  /\ lock' = lock \ OtherFlags
  /\ UNCHANGED <<pc, lv, todo, owed>>

-----------------------------------------------------------------------------
Unlock(t) == TryUnlockRead(t) \/ TryUnlockCas(t) \/ ClearFlags(t) \/ Serve(t)
Next ==
  \E t \in Threads :
    \/ Unlock(t) \/ Trylock(t) \/ LockSlow(t) \/ ClearOther(t)
    \/ \E flags \in FlagSets :
         \/ HolderSetFlags(t, flags) \/ SetFlagsIfLocked(t, flags)
         \/ TrylockAndSetFlags(t, flags) \/ LockOrSetFlags(t, flags)
Spec == Init /\ [][Next]_vars

(* A holder goes on to unlock. *)
FairSpec == Spec /\ \A t \in Threads : WF_vars(Unlock(t))

-----------------------------------------------------------------------------
Holders == {t \in Threads : pc[t] \in {"holder", "unlocking", "serving"}}

(* Whatever mixture of the six ways to take the lock is used, one thread   *)
(* at most believes that it holds it, and the lock bit is set exactly      *)
(* while one does.                                                         *)
OneHolder ==
  /\ Locked <=> Holders # {}
  /\ \A t, u \in Holders : t = u

(* A job left with a flag is never forgotten: until it is done its flag is *)
(* in a locked word or among those a holder is serving.  So no holder      *)
(* unlocks over a flag set between its read of the word and its swap.      *)
NoJobForgotten ==
  /\ owed \subseteq (lock \cup todo)
  /\ lock \cap UnlockFlags # {} => Locked
  /\ todo # {} => \E t \in Threads : pc[t] = "serving"

(* A thread sleeps in ef_eplock_lock only while the word asks the holder   *)
(* for a wake-up.                                                          *)
NoSleeperForgotten ==
  (\E t \in Threads : pc[t] = "sleeping") => {"LOCKED", "NEED_WAKE"} \subseteq lock

(* Every job left to a holder is taken up by a holder, even while others   *)
(* keep setting flags and make the swap of the unlock fail.                *)
JobsGetDone == \A f \in UnlockFlags : f \in owed ~> f \in todo
=============================================================================
