------------------------------- MODULE Numbers -------------------------------
(***************************************************************************)
(* The numbers of the program, size_t and int, and the conversions to them *)
(* that are not checked: the value is taken modulo the width of the type.  *)
(***************************************************************************)
EXTENDS Integers

CONSTANTS SIZE_MAX, INT_MAX

ASSUME WidthsType == SIZE_MAX \in Nat /\ INT_MAX \in Nat

Sizes == 0 .. SIZE_MAX
Ints == -INT_MAX - 1 .. INT_MAX

ToSize(n) == n % (SIZE_MAX + 1)
ToInt(n) == ((n + INT_MAX + 1) % (2 * INT_MAX + 2)) - INT_MAX - 1

=============================================================================
