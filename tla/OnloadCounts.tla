----------------------------- MODULE OnloadCounts ---------------------------
(***************************************************************************)
(* What Onload counts: the readers and writers of its read-write lock, and *)
(* the references to a stack.  The two share no state in these models and  *)
(* are put side by side.                                                   *)
(***************************************************************************)
EXTENDS Integers, FiniteSets

CONSTANTS RwThreads, NoThread, RefHolders, MaxRef

(* There are finitely many to count, and what stands for nobody is not a   *)
(* thread.                                                                 *)
ASSUME CountedAssumption ==
  /\ MaxRef \in Nat \ {0} /\ IsFiniteSet(RefHolders)
  /\ IsFiniteSet(RwThreads) /\ NoThread \notin RwThreads

VARIABLES
  rw_pc, is_reader, reading_now, readers, writer, writers, mutex, write_lock,
  ref, released, ref_pc, ref_held, target

Rw  == INSTANCE RwLock WITH Threads <- RwThreads, pc <- rw_pc
Ref == INSTANCE StackRef WITH Holders <- RefHolders, pc <- ref_pc, held <- ref_held

rwVars == <<rw_pc, is_reader, reading_now, readers, writer, writers, mutex, write_lock>>
refVars == <<ref, released, ref_pc, ref_held, target>>
countsVars == <<rwVars, refVars>>

RwMoves == Rw!Next /\ UNCHANGED refVars
RefMoves == Ref!Next /\ UNCHANGED rwVars

CountsInit == Rw!Init /\ Ref!Init
CountsNext == RwMoves \/ RefMoves
CountsSpec == CountsInit /\ [][CountsNext]_countsVars

-----------------------------------------------------------------------------
(* oo_rwlock: while a thread writes nobody else reads or writes, while a   *)
(* writer waits in oo_rwlock_cond_wait nobody reads, the count of writers  *)
(* is exact on every path, and a thread sleeps only while somebody is left *)
(* to wake it.                                                             *)
ReadersAndWriters == Rw!Exclusion /\ Rw!WritersCounted /\ Rw!NoLostWakeup

(* oo_thr_ref_get and oo_thr_ref_drop: no level is held more often than a  *)
(* lower one, no count passes its limit though only the base is tested,    *)
(* and a level is released once, after those above it.                     *)
ReferencesOrdered == Ref!HigherNotAbove /\ Ref!NoOverflow /\ Ref!ReleasedInOrder
=============================================================================
