------------------------------- MODULE Checks -------------------------------
(***************************************************************************)
(* A validation is a sequence of checks, and its error that of the first   *)
(* one that fails.  An error is a word.                                    *)
(***************************************************************************)
EXTENDS Integers

OK == ""  \* no error

If(condition, error) == IF condition THEN error ELSE OK

\* The first of some checks that fails, in their order.
First(errors) ==
  LET bad == {i \in DOMAIN errors : errors[i] # OK}
  IN IF bad = {} THEN OK ELSE errors[CHOOSE i \in bad : \A j \in bad : i <= j]
=============================================================================
