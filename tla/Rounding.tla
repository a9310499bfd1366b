------------------------------- MODULE Rounding --------------------------------
(***************************************************************************)
(* round and clamp of the scoring engines, on exact fractions.  The code   *)
(* computes in binary floating point: where a sum lies exactly between two *)
(* integers it may round to the other one of them.                         *)
(***************************************************************************)
EXTENDS Integers

\* num / den to the nearest integer, halves to the even one
Round(num, den) ==
    LET low == num \div den
        rest == 2 * (num % den)
    IN  IF rest > den \/ (rest = den /\ low % 2 = 1) THEN low + 1 ELSE low

Clamp(x, low, high) ==
    IF x < low THEN low ELSE IF x > high THEN high ELSE x
================================================================================
