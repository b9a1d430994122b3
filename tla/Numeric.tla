------------------------------ MODULE Numeric ------------------------------
(***************************************************************************)
(* The integer types of the program.  A token amount is a u64; the curve    *)
(* computes in u128 with the checked_* operations of Rust.  The widths are  *)
(* scaled: U64Max stands for 2^64-1 and U128Max keeps the relation the real *)
(* widths have, (2^64)^2 = 2^128.                                           *)
(*                                                                          *)
(* An Option<T> is a set with at most one element: None is {}, Some(x) is   *)
(* {x}, and the ? operator is a UNION or a bound variable over that set.    *)
(***************************************************************************)
EXTENDS Integers

CONSTANT U64Max

ASSUME U64Assumption == U64Max \in Nat \ {0}

U64 == 0 .. U64Max
U128Max == (U64Max + 1) * (U64Max + 1) - 1
U128 == 0 .. U128Max

None == {}
Some(x) == {x}

\* checked_add, checked_sub, checked_mul: the exact value when it is a u128
Checked(x) == IF x \in U128 THEN Some(x) ELSE None

CheckedDiv(n, d) == IF d = 0 THEN None ELSE Some(n \div d)
=============================================================================
