------------------------------- MODULE MCLists -------------------------------
(* Instances of Lists for TLC. *)
EXTENDS Lists

\* What the theorems of PagedWalkProofs assume of their constants holds of the walk
\* that Lists implements.
ASSUME PlacesAreOrdered == Walk!IsOrder

=============================================================================
