-------------------------------- MODULE Fifo --------------------------------
(***************************************************************************)
(* The two ring buffers of ci/tools/fifo.h: ci_fifo, whose indices stay    *)
(* inside a buffer of one more than the capacity, and ci_fifo2, whose      *)
(* indices run freely through the unsigned integers and are masked when    *)
(* they are used.  Both are run side by side through the same calls.       *)
(***************************************************************************)
EXTENDS Integers, Sequences

CONSTANTS Values, Cap,   \* Cap: the capacity asked for, a power of two
          UINT           \* 2 to the width of unsigned int, a multiple of Cap

VARIABLES buf1, rd1, wr1,   \* ci_fifo
          buf2, rd2, wr2,   \* ci_fifo2
          items             \* what has been put and not got

vars == <<buf1, rd1, wr1, buf2, rd2, wr2, items>>

Size1 == Cap + 1
Size2 == Cap                 \* fifo_mask + 1
Mod1(x) == x % Size1
Mask(x) == x % Size2
Unsigned(x) == x % UINT

TypeOK ==
  /\ buf1 \in [0 .. Size1 - 1 -> Values] /\ buf2 \in [0 .. Size2 - 1 -> Values]
  /\ rd1 \in 0 .. Size1 - 1 /\ wr1 \in 0 .. Size1 - 1
  /\ rd2 \in 0 .. UINT - 1 /\ wr2 \in 0 .. UINT - 1
  /\ items \in Seq(Values)

(* The buffers come from ci_alloc with anything in them; one value stands  *)
(* for it.                                                                 *)
Init ==
  /\ rd1 = 0 /\ wr1 = 0 /\ rd2 = 0 /\ wr2 = 0 /\ items = << >>
  /\ \E x \in Values : buf1 = [i \in 0 .. Size1 - 1 |-> x] /\ buf2 = [i \in 0 .. Size2 - 1 |-> x]

-----------------------------------------------------------------------------
Num1 == Mod1(wr1 + Size1 - rd1)
Space1 == Mod1(rd1 + Size1 - wr1 - 1)
Full1 == Mod1(wr1 + 1) = rd1
ContigNum1 == IF wr1 >= rd1 THEN wr1 - rd1 ELSE Size1 - rd1
ContigSpace1 == IF rd1 > wr1 THEN rd1 - wr1 - 1 ELSE Size1 - wr1 - (IF rd1 = 0 THEN 1 ELSE 0)

Lesser(a, b) == IF a < b THEN a ELSE b
Mut_Num2 == wr2 - rd2
Num2 == Unsigned(wr2 - rd2)
Space2 == Unsigned(Size2 - Num2)
Full2 == Num2 = Size2
ContigNum2 == Lesser(Num2, Size2 - Mask(rd2))
ContigSpace2 == Lesser(Space2, Size2 - Mask(wr2))

Mut_Put(x) ==
  /\ ~Full1 /\ ~Full2
  /\ buf1' = [buf1 EXCEPT ![wr1] = x] /\ wr1' = Mod1(wr1 + 1)
  /\ buf2' = [buf2 EXCEPT ![Mask(wr2 + 1)] = x] /\ wr2' = Unsigned(wr2 + 1)
  /\ items' = Append(items, x)
  /\ UNCHANGED <<rd1, rd2>>
Put(x) ==
  /\ ~Full1 /\ ~Full2
  /\ buf1' = [buf1 EXCEPT ![wr1] = x] /\ wr1' = Mod1(wr1 + 1)
  /\ buf2' = [buf2 EXCEPT ![Mask(wr2)] = x] /\ wr2' = Unsigned(wr2 + 1)
  /\ items' = Append(items, x)
  /\ UNCHANGED <<rd1, rd2>>

Get ==
  /\ rd1 # wr1 /\ rd2 # wr2
  /\ rd1' = Mod1(rd1 + 1) /\ rd2' = Unsigned(rd2 + 1)
  /\ items' = Tail(items)
  /\ UNCHANGED <<buf1, wr1, buf2, wr2>>

(* A caller copies as much as lies in one piece of both buffers, and then  *)
(* moves the index on.                                                     *)
WriteContig ==
  \E n \in 2 .. Lesser(ContigSpace1, ContigSpace2), x \in Values :
    /\ buf1' = [i \in DOMAIN buf1 |-> IF i \in wr1 .. wr1 + n - 1 THEN x ELSE buf1[i]]
    /\ buf2' = [i \in DOMAIN buf2 |-> IF i \in Mask(wr2) .. Mask(wr2) + n - 1 THEN x ELSE buf2[i]]
    /\ wr1' = Mod1(wr1 + n) /\ wr2' = Unsigned(wr2 + n)
    /\ items' = items \o [i \in 1 .. n |-> x]
    /\ UNCHANGED <<rd1, rd2>>
ReadContig ==
  \E n \in 2 .. Lesser(ContigNum1, ContigNum2) :
    /\ rd1' = Mod1(rd1 + n) /\ rd2' = Unsigned(rd2 + n)
    /\ items' = SubSeq(items, n + 1, Len(items))
    /\ UNCHANGED <<buf1, wr1, buf2, wr2>>

(* ci_fifo_wr_retreat takes the last n back; ci_fifo2 does it with a       *)
(* negative advance.                                                       *)
Retreat ==
  \E n \in 1 .. Len(items) :
    /\ wr1' = Mod1(wr1 + Size1 - n) /\ wr2' = Unsigned(wr2 - n)
    /\ items' = SubSeq(items, 1, Len(items) - n)
    /\ UNCHANGED <<buf1, rd1, buf2, rd2>>

Next == (\E x \in Values : Put(x)) \/ Get \/ WriteContig \/ ReadContig \/ Retreat
Spec == Init /\ [][Next]_vars

-----------------------------------------------------------------------------
(* Both buffers hold the items in order, through every wrap of the indices *)
(* and of the unsigned counters.                                           *)
BothHoldTheItems ==
  \A i \in 1 .. Len(items) : buf1[Mod1(rd1 + i - 1)] = items[i] /\ buf2[Mask(rd2 + i - 1)] = items[i]

(* What the macros say of the number of items and of the room is exact,    *)
(* full and empty are told apart, and the pieces they allow to copy are    *)
(* the largest that lie in the buffer.  ci_fifo2 holds all of its 2^n      *)
(* slots, one more than the comments on it (fifo.h) and on the pool of     *)
(* checksum ids (ip.h) say.                                                *)
CountsAreExact ==
  LET n == Len(items) IN
  /\ Num1 = n /\ Num2 = n /\ Space1 = Cap - n /\ Space2 = Cap - n
  /\ Full1 = (n = Cap) /\ Full2 = (n = Cap) /\ (rd1 = wr1) = (n = 0) /\ (rd2 = wr2) = (n = 0)
  /\ ContigNum1 = Lesser(n, Size1 - rd1) /\ ContigSpace1 = Lesser(Cap - n, Size1 - wr1)
  /\ ContigNum2 = Lesser(n, Size2 - (rd2 % Size2)) /\ ContigSpace2 = Lesser(Cap - n, Size2 - (wr2 % Size2))
=============================================================================
