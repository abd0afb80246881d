-------------------------- MODULE MCPackCompaction --------------------------
(* TLC instances of PackCompaction. *)
EXTENDS PackCompaction, TLC

\* Pushes, deliveries and readers are interchangeable.
Symmetry == Permutations(Push) \cup Permutations(Cmp) \cup Permutations(Reader)
=============================================================================
