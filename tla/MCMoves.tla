------------------------------ MODULE MCMoves ------------------------------
(* A monster with an equip and a material, another monster and a
   field spell. *)
EXTENDS Moves

Duel(does) ==
  [acts |-> does, interrupted |-> FALSE, replaces |-> 0, group_replace |-> FALSE,
   substitutes |-> FALSE, redirects |-> FALSE, max_acts |-> 2]

AllDuels ==
  { Duel(Acts),
    [Duel(Acts) EXCEPT !.replaces = 2, !.group_replace = TRUE, !.redirects = TRUE,
       !.max_acts = 1],
    [Duel({"destroy", "send"}) EXCEPT !.interrupted = TRUE, !.group_replace = TRUE],
    [Duel({"destroy", "control"}) EXCEPT !.interrupted = TRUE, !.replaces = 1],
    [Duel({"destroy", "battle"}) EXCEPT !.substitutes = TRUE, !.replaces = 1],
    [Duel({"destroy", "equip", "overlay", "send"}) EXCEPT !.interrupted = TRUE],
    [Duel({"place"}) EXCEPT !.replaces = 1, !.interrupted = TRUE, !.max_acts = 3],
    [Duel({"place", "set", "control", "equip"}) EXCEPT !.interrupted = TRUE],
    [Duel({"place", "set", "overlay"}) EXCEPT !.interrupted = TRUE] }

=============================================================================
