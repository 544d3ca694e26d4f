------------------------------ MODULE MCBattle ------------------------------
(* Two monsters against one and, in reserve, another one. *)
EXTENDS Battle

Phase(acts) ==
  [main |-> FALSE, extra |-> 0, direct |-> FALSE, must |-> FALSE,
   cost |-> FALSE, unstoppable |-> FALSE, replays |-> FALSE,
   six_steps |-> FALSE, acts |-> acts, max_links |-> 2, max_attacks |-> 2]

Once(s) == [s EXCEPT !.max_attacks = 1]

AllPhases ==
  { Once(Phase({"leave", "enter"})),
    [Phase({"chain_attack", "leave"}) EXCEPT !.direct = TRUE, !.max_links = 1],
    Once([Phase({"leave", "control"}) EXCEPT !.replays = TRUE]),
    [Phase({"negate", "position", "skip"}) EXCEPT !.must = TRUE],
    [Phase({"negate", "change_attacker", "change_target"})
       EXCEPT !.six_steps = TRUE, !.max_links = 1],
    Once([Phase({"enter", "change_target"}) EXCEPT !.must = TRUE, !.cost = TRUE,
                                                   !.extra = 1]),
    Once([Phase({"control", "negate"}) EXCEPT !.unstoppable = TRUE]),
    Once([Phase({"calculate", "leave"}) EXCEPT !.six_steps = TRUE, !.max_links = 1]),
    [Phase({"calculate", "change_attacker", "change_target"}) EXCEPT !.main = TRUE],
    [Phase({"calculate", "position"}) EXCEPT !.main = TRUE],
    [Phase({"force", "negate", "skip"}) EXCEPT !.main = TRUE, !.max_links = 3] }

=============================================================================
