-------------------------------- MODULE Rounding --------------------------------
(***************************************************************************)
(* Python's round() on a quotient of natural numbers.                      *)
(***************************************************************************)
EXTENDS Naturals

\* a / b to the nearest integer, a tie to the even one.
RoundDiv(a, b) ==
  LET down == a \div b
      rest == 2 * (a % b)
  IN  IF rest > b \/ (rest = b /\ down % 2 = 1) THEN down + 1 ELSE down
================================================================================
