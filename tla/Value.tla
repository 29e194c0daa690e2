-------------------------------- MODULE Value -------------------------------
(***************************************************************************)
(* Value: what a Node's property holds, as [type, data].  The FLOATs are   *)
(* left out, for no Node makes one.                                        *)
(***************************************************************************)
EXTENDS Integers, Sequences

NoValue == [type |-> "NONE", data |-> 0]
MakeBooleanValue(b) == [type |-> "BOOLEAN", data |-> IF b THEN 1 ELSE 0]
MakeIntegerValue(n) == [type |-> "INTEGER", data |-> n]

Digit(n) == <<"0", "1", "2", "3", "4", "5", "6", "7", "8", "9">>[n + 1]

\* The digits that ltoa writes.
Decimal[n \in Nat] ==
  IF n < 10 THEN <<Digit(n)>> ELSE Append(Decimal[n \div 10], Digit(n % 10))

Signed(n) == IF n < 0 THEN <<"-">> \o Decimal[-n] ELSE Decimal[n]

=============================================================================
