------------------------------ MODULE TimeConv ------------------------------
(***************************************************************************)
(* The conversions between processor cycles and microseconds of            *)
(* ci/internal/ip.h, in the user-level build.  The widths of unsigned and  *)
(* ci_uint64 and the factor 1000 are parameters: TLC's integers are        *)
(* narrower than 64 bits.                                                  *)
(***************************************************************************)
EXTENDS Integers

CONSTANTS U32, U64,         \* 2^32 and 2^64
          Kilo, Shift,      \* 1000 and 2^10
          Khz               \* the clock rates that occur

VARIABLES khz, cycles, usec, back    \* back: what converting the result back gives

vars == <<khz, cycles, usec, back>>

Mut_oo_cycles64_to_usec(f, c) ==
  IF c > (U64 - 1) \div Shift THEN U32 - 1
  ELSE (((c * Kilo) % U64) \div f) % U32
(* oo_cycles64_to_usec: c * 1000 is 64 bits wide, the result is unsigned. *)
oo_cycles64_to_usec(f, c) ==
  IF c > (U64 - 1) \div Shift THEN U32 - 1
  ELSE IF c = 0 THEN 0
  ELSE LET val == (((c * Kilo) % U64) \div f) % U32 IN IF val = 0 THEN 1 ELSE val

Mut_oo_usec_to_cycles64(f, u) ==
  IF u = U32 - 1 THEN U64 - 1
  ELSE IF u = 0 THEN 0
  ELSE LET val == ((u * f) % U32) \div Kilo IN IF val = 0 THEN 1 ELSE val
(* __oo_usec_to_cycles64 *)
oo_usec_to_cycles64(f, u) ==
  IF u = U32 - 1 THEN U64 - 1
  ELSE IF u = 0 THEN 0
  ELSE LET val == ((u * f) % U64) \div Kilo IN IF val = 0 THEN 1 ELSE val

Init == khz \in Khz /\ cycles = 0 /\ usec = 0 /\ back = 0

(* The next number of cycles is converted, there and back. *)
Convert ==
  /\ cycles' = (cycles + 1) % U64
  /\ usec' = oo_cycles64_to_usec(khz, cycles') /\ back' = oo_usec_to_cycles64(khz, usec')
  /\ UNCHANGED khz

Next == Convert
Spec == Init /\ [][Next]_vars

-----------------------------------------------------------------------------
Exact == (cycles * Kilo) \div khz

(* A time that is not zero stays so, there and back; zero stays zero.      *)
NonZeroKept == (cycles = 0 <=> usec = 0) /\ (cycles = 0 <=> back = 0)

(* When the exact time fits, it is the result, and converting it back      *)
(* loses less than a microsecond: no product overflows on the way.  Beyond *)
(* that the result is the largest value only for the cycles that the guard *)
(* refuses; below, it is the exact time cut off to the width of unsigned.  *)
ThereAndBack ==
  /\ cycles > 0 /\ Exact < U32 - 1 =>
       /\ usec = (IF Exact = 0 THEN 1 ELSE Exact)
       /\ Exact > 0 => back \in 1 .. cycles /\ (cycles - back) * Kilo <= khz + Kilo
  /\ Exact >= U32 - 1 =>
       IF cycles * Shift < U64 THEN usec = (IF Exact % U32 = 0 THEN 1 ELSE Exact % U32)
                               ELSE usec = U32 - 1

(* The comment above the conversions: no wrap on big values.  A time too   *)
(* long for the type would be the largest value of it.                     *)
DoesNotWrap == Exact >= U32 => usec = U32 - 1
=============================================================================
