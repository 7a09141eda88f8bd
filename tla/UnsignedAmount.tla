--------------------------- MODULE UnsignedAmount ---------------------------
(***************************************************************************)
(* The arithmetic of amount, an unsigned long (Account.hpp).                *)
(***************************************************************************)
EXTENDS Integers

CONSTANT Modulus    \* 2^64 in the program

ASSUME ModulusAssumption == Modulus \in Nat \ {0}

Amount == 0 .. Modulus - 1

(* += and the product with -1 (Node.cpp:306). *)
PlusUnbounded(x, y) == x + y
Plus(x, y)          == IF x + y < Modulus THEN x + y ELSE x + y - Modulus
Minus(x)            == IF x = 0 THEN 0 ELSE Modulus - x
=============================================================================
