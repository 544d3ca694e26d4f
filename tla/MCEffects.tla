----------------------------- MODULE MCEffects -----------------------------
(* Three duels of three cards and six effects. *)
EXTENDS Effects, TLC

Plain ==
  [owner |-> 1, handler |-> 1, player |-> 0, kind |-> "field", code |-> "other",
   affects |-> {}, undisabled |-> FALSE, oath |-> FALSE, initial |-> FALSE,
   events |-> {}, phases |-> {}, chain |-> FALSE, turns |-> {}, count |-> 1,
   limit |-> 0, count_code |-> None, count_oath |-> FALSE]
Negates(c, S) == [Plain EXCEPT !.owner = c, !.handler = c, !.code = "disable",
                               !.affects = S, !.initial = TRUE]
OnCard(owner, c) == [Plain EXCEPT !.owner = owner, !.handler = c, !.kind = "single"]
OfField(S) == [Plain EXCEPT !.handler = NoCard, !.code = "disable", !.affects = S]
Quick(c) == [Plain EXCEPT !.owner = c, !.handler = c, !.kind = "quick", !.initial = TRUE]
Left == {"TOFIELD", "LEAVE", "TOHAND", "TOGRAVE", "TURN_SET"}

With(assigned) == [e \in Effects |-> IF e \in DOMAIN assigned THEN assigned[e] ELSE Plain]

Setting(assigned, start, does, max_acts, links) ==
  [def |-> With(assigned), start |-> start, does |-> does, max_acts |-> max_acts, links |-> links]

(* Card 1 negates card 2, and card 2 card 3, as they come in card_set; an
   operation of card 2 negates card 1, or cards 1 and 2 until the end of
   the turn, or gives card 2 another negation that its own negation resets. *)
NegUp == Setting(
  ("e1" :> Negates(1, {2})) @@ ("e2" :> Negates(2, {3})) @@
  ("e3" :> [OnCard(2, 1) EXCEPT !.code = "disable", !.events = Left]) @@
  ("e4" :> [OfField({1, 2}) EXCEPT !.phases = {"END"}, !.turns = {"self"}]) @@
  ("e5" :> [Negates(2, {3}) EXCEPT !.initial = FALSE, !.events = Left \cup {"DISABLE"}]) @@
  ("e6" :> [Quick(3) EXCEPT !.limit = 1]),
  <<"hand", "up", "up">>,
  {"register", "activate", "summon", "set", "flip", "down", "send", "control", "phase", "break"}, 4, 1)
(* The other way round: card 3 negates card 2, and card 2 card 1; card 2 may
   be made immune, and card 3 may get an effect that its negation leaves. *)
NegDown == Setting(
  ("e1" :> Negates(3, {2})) @@ ("e2" :> Negates(2, {1})) @@
  ("e3" :> [OnCard(2, 3) EXCEPT !.code = "disable", !.events = Left]) @@
  ("e4" :> [OfField({3}) EXCEPT !.phases = {"END"}, !.turns = {"self"}]) @@
  ("e5" :> [OnCard(2, 2) EXCEPT !.code = "cannot_disable", !.events = Left]) @@
  ("e6" :> [Negates(3, {1}) EXCEPT !.initial = FALSE, !.undisabled = TRUE, !.events = Left]),
  <<"up", "up", "hand">>,
  {"register", "summon", "set", "flip", "down", "send", "phase", "break"}, 4, 1)
(* Three effects to activate, two of which share their count, and three
   oaths; the third has the same code, without EFFECT_COUNT_CODE_OATH. *)
Oaths == Setting(
  ("e1" :> [Quick(1) EXCEPT !.limit = 1, !.count_code = "k", !.count_oath = TRUE]) @@
  ("e2" :> [Quick(2) EXCEPT !.limit = 2, !.count_code = "k", !.count_oath = TRUE]) @@
  ("e3" :> [Quick(3) EXCEPT !.limit = 2, !.count_code = "k"]) @@
  ("e4" :> [OfField({}) EXCEPT !.code = "other", !.oath = TRUE, !.phases = {"BATTLE", "END"},
                                  !.turns = {"self", "oppo"}, !.count = 2]) @@
  ("e5" :> [OnCard(2, 1) EXCEPT !.oath = TRUE, !.events = Left \cup {"CONTROL"}, !.phases = {"END"}, !.turns = {"oppo"}, !.count = 2]) @@
  ("e6" :> [OnCard(1, 2) EXCEPT !.oath = TRUE, !.chain = TRUE]),
  <<"up", "up", "up">>,
  {"register", "activate", "control", "send", "phase", "break"}, 4, 3)
MCSettings == {NegUp, NegDown, Oaths}
=============================================================================
