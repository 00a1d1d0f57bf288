------------------------------ MODULE Backlog -------------------------------
(***************************************************************************)
(* What keeps frames for a program until it asks for them, of bounded      *)
(* size: the receive queue of a socket in the kernel, or the buffer that   *)
(* an ExaNIC writes.  External to the repository.                          *)
(***************************************************************************)
EXTENDS Integers, Sequences

CONSTANTS RcvBuf,     \* frames that are kept
          MaxFrames   \* bound: frames that arrive in a behaviour

ASSUME RcvBufAssumption == RcvBuf \in Nat \ {0} /\ MaxFrames \in Nat

(* A full receive queue drops the frame. *)
Mut_Queued(q, k) == Append(q, k)
Queued(q, k) == IF Len(q) < RcvBuf THEN Append(q, k) ELSE q
=============================================================================
