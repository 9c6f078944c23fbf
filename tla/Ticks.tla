------------------------------- MODULE Ticks --------------------------------
(***************************************************************************)
(* The 32-bit ticks and sequence numbers of KCP and their comparison, at a *)
(* width the instance chooses.                                             *)
(***************************************************************************)
EXTENDS Integers

CONSTANT Modulus  \* 2^32 in the code

ModulusAssumption == Modulus \in Nat \ {0} /\ Modulus % 2 = 0

Tick == 0..(Modulus - 1)

(* Unsigned addition.                                                      *)
Plus(t, d) == (t + d) % Modulus

(* Mutant of Itimediff: the difference is not taken as a signed number.    *)
Distance(later, earlier) == (later - earlier) % Modulus

(* _itimediff: the difference as a signed number of the same width.        *)
Itimediff(later, earlier) ==
  LET d == (later - earlier) % Modulus
  IN IF 2 * d < Modulus THEN d ELSE d - Modulus

=============================================================================
