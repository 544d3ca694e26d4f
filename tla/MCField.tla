------------------------------ MODULE MCField ------------------------------
(* Field on one card of each kind that the moves tell apart. *)
EXTENDS Field

CONSTANTS main, pendulum, fusion

MCOwner == [c \in Cards |-> 0]
=============================================================================
