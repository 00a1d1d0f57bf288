----------------------------- MODULE OnloadWords ----------------------------
(***************************************************************************)
(* What threads and processes of Onload share through single words: the    *)
(* lock word of a stack, a lock word that is also the head of a work       *)
(* queue, and the version numbers under which the control plane server     *)
(* changes its tables and the rows of the forwarding table while clients   *)
(* read them.  They share no state in these models and are put side by     *)
(* side.                                                                   *)
(***************************************************************************)
EXTENDS Integers

CONSTANTS Threads, Null, UnlockFlags, OtherFlags,             \* of the locks
          CpIps, CpIfs, CpPorts, CpWanted, Rows, MaxWrites,   \* of the tables
          Clients, Ifs, Bad,                                  \* of the row
          MaxVersion

(* What stands for nobody is not a thread, and the lock bit and the bit    *)
(* that asks for a wake-up are not among the flags of the jobs.            *)
ASSUME NamesAssumption ==
  /\ Null \notin Threads
  /\ {"LOCKED", "NEED_WAKE"} \cap (UnlockFlags \cup OtherFlags) = {}
  /\ UnlockFlags \cap OtherFlags = {}

(* A free row of the tables, and a row without an interface, can be told   *)
(* from the others.                                                        *)
ASSUME TablesAssumption ==
  /\ MaxVersion \in Nat /\ Rows \in Nat /\ MaxWrites \in Nat
  /\ 0 \notin CpIps \cup CpIfs \cup CpPorts /\ CpIfs # {} /\ Bad \notin Ifs

VARIABLES
  ep_lock, ep_pc, lv, todo, ep_owed,
  wq_lock, wq_next, wq_pc, v, batch, ret, queued,
  cp_version, mib, writes, cp_pc, cp_op, arg, ver, id, lid, ifindex, rc, found, retried, truths,
  version, data, stale, recent, need_refresh, fwd_owed, fwd_pc, verinfo, out

Ep  == INSTANCE EpLock WITH lock <- ep_lock, pc <- ep_pc, owed <- ep_owed
Wq  == INSTANCE WqLock WITH lock <- wq_lock, next <- wq_next, pc <- wq_pc
Cp  == INSTANCE CpVerlock WITH Ips <- CpIps, Ifs <- CpIfs, Ports <- CpPorts, Wanted <- CpWanted,
                               version <- cp_version, pc <- cp_pc, op <- cp_op
Fwd == INSTANCE FwdRow WITH pc <- fwd_pc, owed <- fwd_owed

epVars == <<ep_lock, ep_pc, lv, todo, ep_owed>>
wqVars == <<wq_lock, wq_next, wq_pc, v, batch, ret, queued>>
cpVars == <<cp_version, mib, writes, cp_pc, cp_op, arg, ver, id, lid, ifindex, rc, found, retried, truths>>
fwdVars == <<version, data, stale, recent, need_refresh, fwd_owed, fwd_pc, verinfo, out>>
wordsVars == <<epVars, wqVars, cpVars, fwdVars>>

EpMoves == Ep!Next /\ UNCHANGED <<wqVars, cpVars, fwdVars>>
WqMoves == Wq!Next /\ UNCHANGED <<epVars, cpVars, fwdVars>>
CpMoves == Cp!Next /\ UNCHANGED <<epVars, wqVars, fwdVars>>
FwdMoves == Fwd!Next /\ UNCHANGED <<epVars, wqVars, cpVars>>

WordsInit == Ep!Init /\ Wq!Init /\ Cp!Init /\ Fwd!Init
WordsNext == EpMoves \/ WqMoves \/ CpMoves \/ FwdMoves
WordsSpec == WordsInit /\ [][WordsNext]_wordsVars

-----------------------------------------------------------------------------
(* One at a time.  ef_eplock: one thread at most believes that it holds    *)
(* the stack lock, whichever of the six calls it used, and the lock bit    *)
(* says whether one does.  oo_wqlock: one holder, a word that says so, and *)
(* no work in a word that nobody holds.                                    *)
LocksExclude == Ep!OneHolder /\ Wq!Exclusive

(* What one leaves to another is not forgotten.  ef_eplock: the flag of a  *)
(* job left to the holder stays in a locked word or with the thread that   *)
(* serves it, and a thread sleeps only while the word asks for a wake-up.  *)
(* oo_wqlock: a job handed over is in the list of the word or in the batch *)
(* of the holder, in one of them only, until it has been run.  Rows of the *)
(* forwarding table: a confirmation the server waits for is still marked   *)
(* in the row or about to be made by the client that took the mark.        *)
NothingForgotten ==
  Ep!NoJobForgotten /\ Ep!NoSleeperForgotten /\ Wq!JobsKept /\ Fwd!RefreshNotLost

(* Tables and rows read while the server rewrites them.  A lookup returns  *)
(* the answer of one snapshot, the current one, or, when it had to start   *)
(* again and its last scan sets no result, what an abandoned scan has left *)
(* in rc; oo_cp_route_resolve returns 1 only with data of one version; and a *)
(* client that has read a bad ifindex finds that its version is not the    *)
(* current one (the assertion at cplane.h 190).                            *)
OnlySnapshots ==
  [][Cp!SnapshotStep /\ Fwd!ValidStep /\ Fwd!BadIfindexMeansOldVersion]_wordsVars
=============================================================================
