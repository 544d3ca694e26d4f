------------------------------- MODULE MCTurn -------------------------------
(* Model-checking instance of Turn: a team of three duelists against one,
   in a tag duel and in relay duels with and without forced battles. *)
EXTENDS Turn, TLC

Team == (0 :> 3) @@ (1 :> 1)

Tag == [relay |-> FALSE, no_main2 |-> FALSE, may_force |-> FALSE, max_acts |-> 1]
Relay == [relay |-> TRUE, no_main2 |-> FALSE, may_force |-> FALSE, max_acts |-> 2]
Forced == [relay |-> TRUE, no_main2 |-> TRUE, may_force |-> TRUE, max_acts |-> 1]

AllDuels == {Tag, Relay, Forced}
TagDuels == {Tag}
=============================================================================
