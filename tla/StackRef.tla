------------------------------ MODULE StackRef ------------------------------
(***************************************************************************)
(* The three reference counts of an Onload stack (onload/tcp_helper_ref.h) *)
(* taken and dropped by many holders at once.  A holder has the levels     *)
(* from the base up to some level; the drop of the last reference of a     *)
(* level runs that level's release function.                               *)
(***************************************************************************)
EXTENDS Integers, FiniteSets

CONSTANTS Holders,
          MaxRef     \* the largest count: 2^31 - 1 in the code

BASE == 1
FILE == 2
APP == 3
Levels == BASE .. APP

VARIABLES ref, released,       \* per level: count, finished calls of its release function
          pc, held, target     \* per holder: place, levels held, levels asked for

vars == <<ref, released, pc, held, target>>

TypeOK ==
  /\ ref \in [Levels -> Nat] /\ released \in [Levels -> Nat]
  /\ pc \in [Holders -> {"idle", "get", "get_one", "drop", "release"}]
  /\ held \in [Holders -> 0 .. APP] /\ target \in [Holders -> 0 .. APP]

(* The creator of the stack has a reference of each level. *)
Init ==
  /\ ref = [l \in Levels |-> 1] /\ released = [l \in Levels |-> 0]
  /\ pc = [h \in Holders |-> "idle"]
  /\ \E c \in Holders : held = [h \in Holders |-> IF h = c THEN APP ELSE 0]
  /\ target = [h \in Holders |-> 0]

Goto(h, p) == pc' = [pc EXCEPT ![h] = p]

-----------------------------------------------------------------------------
(* oo_thr_ref_get *)
Get(h, type) ==
  /\ pc[h] = "idle" /\ held[h] = 0
  /\ Goto(h, "get") /\ target' = [target EXCEPT ![h] = type]
  /\ UNCHANGED <<ref, released, held>>

(* A holder of the lower levels asks for one more. *)
GetOneMore(h) ==
  /\ pc[h] = "idle" /\ held[h] \in BASE .. APP - 1
  /\ Goto(h, "get_one") /\ target' = [target EXCEPT ![h] = held[h] + 1]
  /\ UNCHANGED <<ref, released, held>>

Mut_TooMany(l) == FALSE
TooMany(l) == l = BASE /\ ref[l] + 1 > MaxRef

Mut_Refused(l) == TooMany(l)
Refused(l) == ref[l] = 0 \/ TooMany(l)

(* oo_thr_ref_get_one, in either call.  After a failure oo_thr_ref_get     *)
(* drops what it has taken.                                                *)
GetOne(h) ==
  /\ pc[h] \in {"get", "get_one"}
  /\ LET l == held[h] + 1 IN
     IF Refused(l)
     THEN /\ Goto(h, IF pc[h] = "get" /\ held[h] > 0 THEN "drop" ELSE "idle")
          /\ target' = [target EXCEPT ![h] = 0]
          /\ UNCHANGED <<ref, held>>
     ELSE /\ ref' = [ref EXCEPT ![l] = @ + 1]
          /\ held' = [held EXCEPT ![h] = l]
          /\ Goto(h, IF l = target[h] THEN "idle" ELSE pc[h])
          /\ UNCHANGED target
  /\ UNCHANGED released

Mut_DropNotTop(h) ==
  /\ pc[h] = "idle" /\ held[h] > 1
  /\ Goto(h, "drop") /\ target' = [target EXCEPT ![h] = 0]
  /\ held' = [held EXCEPT ![h] = @ - 1]
  /\ UNCHANGED <<ref, released>>
(* oo_thr_ref_drop, of everything the holder has *)
Drop(h) ==
  /\ pc[h] = "idle" /\ held[h] > 0
  /\ Goto(h, "drop") /\ target' = [target EXCEPT ![h] = 0]
  /\ UNCHANGED <<ref, released, held>>

(* oo_thr_ref_drop_one: the count is decreased ... *)
DropOne(h) ==
  /\ pc[h] = "drop"
  /\ held' = [held EXCEPT ![h] = @ - 1]
  /\ ref' = [ref EXCEPT ![held[h]] = @ - 1]
  /\ Goto(h, IF ref'[held[h]] = 0 THEN "release" ELSE IF held'[h] = 0 THEN "idle" ELSE "drop")
  /\ UNCHANGED <<released, target>>

(* ... and the holder whose reference was the last one runs the release    *)
(* function before it goes on to the level below.                          *)
Release(h) ==
  /\ pc[h] = "release"
  /\ released' = [released EXCEPT ![held[h] + 1] = @ + 1]
  /\ Goto(h, IF held[h] = 0 THEN "idle" ELSE "drop")
  /\ UNCHANGED <<ref, held, target>>

Next ==
  \E h \in Holders :
    \/ \E type \in Levels : Get(h, type)
    \/ GetOneMore(h) \/ GetOne(h) \/ Drop(h) \/ DropOne(h) \/ Release(h)
Spec == Init /\ [][Next]_vars

-----------------------------------------------------------------------------
(* "A high-level reference count is less than or equal to a low-level one" *)
(* (line 23), between any two steps of the holders.                        *)
HigherNotAbove == ref[APP] <= ref[FILE] /\ ref[FILE] <= ref[BASE]

(* No count overflows, although only the base count is tested for it.      *)
NoOverflow == \A l \in Levels : ref[l] <= MaxRef

(* A level is released once, when nobody has it, and only after the levels *)
(* above it have been released: by the time the base is, the release       *)
(* functions of the file and the application level have returned.          *)
ReleasedInOrder ==
  \A l \in Levels : released[l] > 0 =>
     /\ released[l] = 1 /\ ref[l] = 0
     /\ \A h \in Holders : held[h] < l
     /\ \A k \in l + 1 .. APP : released[k] = 1
=============================================================================
