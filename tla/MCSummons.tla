----------------------------- MODULE MCSummons -----------------------------
(* A Gemini and a face-down monster, one that needs a tribute, one with a
   procedure, which is a Gemini too, and spells. *)
EXTENDS Summons

CONSTANTS m, d, h, p, s, t, f

Where == [c \in Cards |-> IF c \in {m, d} THEN "MZONE" ELSE "HAND"]

Duel(starts, does) ==
  [starts |-> starts, acts |-> does, interrupted |-> FALSE, extra |-> FALSE,
   oath_old |-> FALSE, zones |-> 3, max_acts |-> 3,
   links |-> 2]

AllDuels ==
  { [Duel({"summon", "flip", "rule", "group"}, {"negate", "special", "leave", "sset"}) EXCEPT
       !.max_acts = 4],
    [Duel({"rule"}, {"negate", "leave", "special", "summon"}) EXCEPT !.max_acts = 6],
    [Duel({"summon", "mset", "sset"}, {"summon", "rule", "mset", "group"}) EXCEPT
       !.extra = TRUE, !.max_acts = 4],
    [Duel({"summon", "rule"}, {"summon", "step"}) EXCEPT
       !.interrupted = TRUE, !.max_acts = 3, !.links = 0],
    [Duel({"mset", "rule"}, {"special", "mset"}) EXCEPT
       !.interrupted = TRUE, !.max_acts = 2, !.links = 1],
    [Duel({"flip", "group"}, {"negate", "step", "leave"}) EXCEPT
       !.interrupted = TRUE, !.oath_old = TRUE, !.zones = 4, !.links = 1] }

=============================================================================
