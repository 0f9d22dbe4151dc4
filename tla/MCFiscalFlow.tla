---------------------------- MODULE MCFiscalFlow ----------------------------
(* FiscalFlow with symmetry, for the configurations that only ask for safety. *)
EXTENDS FiscalFlow, TLC

\* No property or action tells one request from another.
RequestSymmetry == Permutations(Requests)
=============================================================================
