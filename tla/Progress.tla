------------------------------- MODULE Progress -------------------------------
(***************************************************************************)
(* What is left to do, as a tuple of natural numbers: steps that take the   *)
(* tuple down come to an end, whatever the later numbers do meanwhile.      *)
(***************************************************************************)
EXTENDS Naturals

\* a is less than b at the first place where they differ.
Below(a, b) == \E j \in DOMAIN a : a[j] < b[j] /\ \A i \in 1..(j - 1) : a[i] = b[i]

=============================================================================
