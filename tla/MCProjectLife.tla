---------------------------- MODULE MCProjectLife ----------------------------
(* Instances of ProjectLife for TLC. *)
EXTENDS ProjectLife, TLC

\* The AutoMap is not like the other forms.
SwapFormsAndFiles == Permutations(Forms \ {AutoMap}) \cup Permutations(Files)
=============================================================================
