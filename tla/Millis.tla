------------------------------- MODULE Millis -------------------------------
(***************************************************************************)
(* The clock the monitors read: Arduino's millis(), an unsigned counter    *)
(* of Wrap values (2^32 on the board) that runs back to 0, and the         *)
(* unsigned subtraction with which they measure an interval.               *)
(***************************************************************************)
EXTENDS Naturals

CONSTANT Wrap

ASSUME WrapAssumption == Wrap \in Nat \ {0}

Instant == 0 .. Wrap - 1

NextInstant(t) == IF t = Wrap - 1 THEN 0 ELSE t + 1

\* currentTime - last, in unsigned arithmetic of width Wrap
Elapsed(current, last) ==
  IF last <= current THEN current - last ELSE current + Wrap - last

=============================================================================
