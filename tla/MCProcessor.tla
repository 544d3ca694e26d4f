---------------------------- MODULE MCProcessor ----------------------------
(* Processor on two functions and two events.  The events and the functions
   are interchangeable, so TLC takes them up to permutation. *)
EXTENDS Processor, TLC

Symmetry == Permutations(Functions) \cup Permutations(Events)
=============================================================================
