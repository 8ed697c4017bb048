------------------------------ MODULE Convert ------------------------------
(***************************************************************************)
(* Conversions of numbers that other components build on                   *)
(* (common/type/convert.h).                                                *)
(***************************************************************************)
EXTENDS Integers

ZigZag(n) == IF n < 0 THEN -2 * n - 1 ELSE 2 * n
FromZigZag(n) == IF n % 2 = 1 THEN -(n \div 2) - 1 ELSE n \div 2
=============================================================================
