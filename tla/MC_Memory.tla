----------------------------- MODULE MC_Memory -----------------------------
(* A small instance of Memory for TLC. *)
EXTENDS Memory, TLC

\* The notes are interchangeable: nothing in Memory chooses between them.
AnyNote == Permutations(Notes)
=============================================================================
