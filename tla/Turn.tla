-------------------------------- MODULE Turn --------------------------------
(* The course of a turn: the units Turn, RefreshRelay, PhaseEvent,
   IdleCommand, BattleCommand and ForcedBattle, the phase they share
   through infos.phase, the answers they hand each other through
   core.returns, and the exchange of duelists in tag and relay duels.

   What effects do meanwhile is represented by two units: Effects
   (adjust_all, AddChain, QuickEffect, a summon, ...) and PointEvent, which
   also starts a forced battle.  They overwrite core.returns, and whatever
   changes this state in them takes one of max_acts acts of a turn.  Whether
   a player is affected by an effect (is_player_affected_by_effect) is up
   to scripts, and so an arbitrary choice whenever it is asked.  An attack
   (steps 3 to 38 of BattleCommand) is represented by its outcomes. *)
EXTENDS Integers, Sequences, FiniteSets

CONSTANTS
  Duels,   \* the duels that are looked at
  TeamSize \* the number of duelists of each player

Players == 0 .. 1
Opponent(p) == 1 - p

(* DUEL_RELAY and DUEL_NO_MAIN_PHASE_2 of core.duel_options; whether
   scripts use Duel.ForceAttack; and the bound on what players and effects
   do in a turn. *)
DuelKinds == [relay : BOOLEAN, no_main2 : BOOLEAN, may_force : BOOLEAN,
              max_acts : Nat]

ASSUME ConstantsAssumption ==
  /\ Duels \subseteq DuelKinds
  /\ TeamSize \in [Players -> Nat \ {0}]

VARIABLES
  units,              \* core.units, front first
  phase,              \* infos.phase
  turn_id,            \* infos.turn_id; 2 stands for every later turn
  turn_player,        \* infos.turn_player
  battle_phase_count, \* that of the turn player
  returns,            \* the first two integers of core.returns
  force_turn_end,
  hand_adjusted,      \* the discard of the end phase was made
  skip_m2,
  set_forced_attack,
  lists,              \* whose the main deck, hand and extra deck are: first
                      \* the one in play, then those of the extra_lists
  tag_index,
  exchanges,          \* how many duelists a player has used up (relay)
  recharge,           \* the next one comes in when the turn ends
  duel,               \* which of Duels this is
  acts,               \* history: what was done this turn
  resets,             \* history: reset_phase calls of this turn
  interrupted,        \* history: there was a forced battle this turn
  recent              \* history: who had the last turns of a player

answers == returns
flags == <<hand_adjusted, skip_m2>>
team == <<lists, tag_index, exchanges, recharge, recent>>
battles == <<battle_phase_count, interrupted, set_forced_attack>>
clock == <<turn_id, turn_player, duel>>
vars == <<units, phase, answers, force_turn_end, flags, battles, team, clock,
          acts, resets>>

Phases == {"DRAW", "STANDBY", "MAIN1", "BATTLE_START", "BATTLE_STEP", "DAMAGE",
           "BATTLE", "MAIN2", "END"}
Events == {"DRAW", "STANDBY", "BATTLE_START", "BATTLE", "END"}
Lists == {"main", "hand", "extra"}

(* Integers that core.returns holds: an answer, or whatever was left there
   by a unit that is not modelled. *)
Junk == 99
Pass == -1
ToBattle == 6
ToEnd == 7
Answers == (-1 .. 8) \cup {Junk}

(* The units, with the members of processor_unit.h that they have; passers
   is a history: who passed since the last effect of the phase. *)
TurnUnit(s, p, second) ==
  [kind |-> "Turn", step |-> s, player |-> p,
   has_performed_second_battle_phase |-> second]
PhaseEvent(ph) ==
  [kind |-> "Phase", step |-> 0, phase |-> ph, is_opponent |-> FALSE,
   priority_passed |-> FALSE, passers |-> {}]
Idle == [kind |-> "Idle", step |-> 0, phase_to_change_to |-> 0]
BattleCommand(s, forced) ==
  [kind |-> "Battle", step |-> s, phase_to_change_to |-> 0, repeat |-> FALSE,
   optional |-> FALSE, forced |-> forced, done |-> FALSE]
ForcedBattle == [kind |-> "Forced", step |-> 0, backup_phase |-> "DRAW"]
RefreshRelay == [kind |-> "Relay", step |-> 0]
Ask(choices) == [kind |-> "Ask", step |-> 0, choices |-> choices]
Effects == [kind |-> "Effects", step |-> 0]
PointEvent == [kind |-> "Point", step |-> 0]
SolveChain == <<Effects, PointEvent>>
MayPoint == {<<>>, <<PointEvent>>}

TurnUnits ==
  [kind : {"Turn"}, step : 0 .. 20, player : Players,
   has_performed_second_battle_phase : BOOLEAN]
PhaseUnits ==
  [kind : {"Phase"}, step : 0 .. 26, phase : Events, is_opponent : BOOLEAN,
   priority_passed : BOOLEAN, passers : SUBSET Players]
IdleUnits == [kind : {"Idle"}, step : 0 .. 12, phase_to_change_to : Answers]
BattleUnits ==
  [kind : {"Battle"}, step : 0 .. 43, phase_to_change_to : Answers,
   repeat : BOOLEAN, optional : BOOLEAN, forced : BOOLEAN, done : BOOLEAN]
ForcedUnits == [kind : {"Forced"}, step : 0 .. 1, backup_phase : Phases]
OtherUnits ==
  [kind : {"Relay"}, step : 0 .. 2]
  \cup [kind : {"Ask"}, step : {0}, choices : SUBSET (-1 .. 8)]
  \cup [kind : {"Effects", "Point"}, step : 0 .. 1]
Units ==
  TurnUnits \cup PhaseUnits \cup IdleUnits \cup BattleUnits \cup ForcedUnits
  \cup OtherUnits

Front == Head(units)
At(kind, s) == Front.kind = kind /\ Front.step = s

(* What a handler emplaces runs before the handler does again; its other
   members are those of unit. *)
GoOnAs(unit, s, batch) ==
  units' = batch \o <<[unit EXCEPT !.step = s]>> \o Tail(units)
GoOn(s, batch) == GoOnAs(Front, s, batch)
Finish(batch) == units' = batch \o Tail(units)

CanAct == acts < duel.max_acts
Act == CanAct /\ acts' = acts + 1

(* reset_phase, but for the damage step.  After a forced battle the counts
   are of no interest. *)
Counted == Phases \ {"DAMAGE"}
Reset(S) ==
  resets' = IF interrupted THEN resets
            ELSE [ph \in Counted |->
                    IF ph \in S /\ resets[ph] < 3 THEN resets[ph] + 1
                                                  ELSE resets[ph]]

Duelists(p) == [i \in 1 .. TeamSize[p] |-> i - 1]

Init ==
  /\ units = <<TurnUnit(0, 0, FALSE)>>
  /\ phase = "DRAW" /\ turn_id = 0 /\ turn_player = 0
  /\ battle_phase_count = 0 /\ returns = <<Junk, Junk>>
  /\ force_turn_end = FALSE /\ hand_adjusted = FALSE /\ skip_m2 = FALSE
  /\ set_forced_attack = FALSE
  /\ lists = [p \in Players |-> [l \in Lists |-> Duelists(p)]]
  /\ tag_index = [p \in Players |-> 0]
  /\ exchanges = [p \in Players |-> 0]
  /\ recharge = [p \in Players |-> FALSE]
  /\ duel \in Duels
  /\ acts = 0 /\ resets = [ph \in Counted |-> 0] /\ interrupted = FALSE
  /\ recent = [p \in Players |-> <<>>]

-----------------------------------------------------------------------------
(* The duelists. *)

(* tag_swap and next_player: the lists in play change places with those of
   the duelist at i of the extra_lists.  Mutant: they are only copied. *)
Copied(p, i) ==
  [l \in Lists |-> [lists[p][l] EXCEPT ![1] = lists[p][l][i + 2]]]
Swapped(p, i) ==
  [l \in Lists |-> [lists[p][l] EXCEPT ![1] = lists[p][l][i + 2],
                                       ![i + 2] = lists[p][l][1]]]
Waiting(p) == TeamSize[p] - 1

(* Mutant: the index runs past the last waiting duelist and sticks. *)
StuckIndex(p) ==
  IF tag_index[p] + 1 < Waiting(p) THEN tag_index[p] + 1 ELSE tag_index[p]
NextTagIndex(p) == (tag_index[p] + 1) % Waiting(p)

TagSwap(p) ==
  IF Waiting(p) = 0 THEN UNCHANGED <<lists, tag_index>>
  ELSE /\ lists' = [lists EXCEPT ![p] = Swapped(p, tag_index[p])]
       /\ tag_index' = [tag_index EXCEPT ![p] = NextTagIndex(p)]

(* Adjust: the players of L have lost, and are replaced if they can be. *)
RelayCheck(L) ==
  LET next == {p \in L : exchanges[p] < Waiting(p)}
  IN /\ exchanges' = [p \in Players |->
                        exchanges[p] + (IF p \in next THEN 1 ELSE 0)]
     /\ recharge' = [p \in Players |-> recharge[p] \/ p \in next]
     /\ force_turn_end' = (next # {})

(* RefreshRelay, one player after the other. *)
Refresh ==
  /\ \E p \in Players :
       /\ At("Relay", p)
       /\ GoOn(p + 1, <<>>)
       /\ IF recharge[p]
          THEN /\ lists' = [lists EXCEPT ![p] = Swapped(p, exchanges[p] - 1)]
               /\ recharge' = [recharge EXCEPT ![p] = FALSE]
          ELSE UNCHANGED <<lists, recharge>>
  /\ UNCHANGED <<phase, answers, force_turn_end, flags, battles, tag_index,
                 exchanges, recent, clock, acts, resets>>

Refreshed ==
  /\ At("Relay", 2)
  /\ Finish(<<>>)
  /\ UNCHANGED <<phase, answers, force_turn_end, flags, battles, team, clock,
                 acts, resets>>

-----------------------------------------------------------------------------
(* What happens outside of these units. *)

(* An attack may be forced, and a player may lose; but once the turn is
   being ended nobody does. *)
Happens ==
  \/ UNCHANGED <<force_turn_end, set_forced_attack, exchanges, recharge, acts>>
  \/ /\ Act /\ duel.may_force
     /\ set_forced_attack' = TRUE
     /\ UNCHANGED <<force_turn_end, exchanges, recharge>>
  \/ /\ Act
     /\ duel.relay /\ ~force_turn_end
     /\ \E L \in SUBSET Players \ {{}} : RelayCheck(L)
     /\ UNCHANGED set_forced_attack

EffectsRun ==
  /\ At("Effects", 0)
  /\ Happens
  /\ Finish(<<>>)
  /\ returns' = <<Junk, Junk>>
  /\ UNCHANGED <<phase, hand_adjusted, skip_m2, battle_phase_count,
                 interrupted, lists, tag_index, recent, clock, resets>>

PointEventRun ==
  /\ At("Point", 0)
  /\ Happens
  /\ GoOn(1, <<>>)
  /\ returns' = <<Junk, Junk>>
  /\ UNCHANGED <<phase, hand_adjusted, skip_m2, battle_phase_count,
                 interrupted, lists, tag_index, recent, clock, resets>>

PointEventEnd ==
  /\ At("Point", 1)
  /\ Finish(IF set_forced_attack THEN <<ForcedBattle>> ELSE <<>>)
  /\ set_forced_attack' = FALSE
  /\ UNCHANGED <<phase, answers, force_turn_end, flags, battle_phase_count,
                 interrupted, team, clock, acts, resets>>

(* A player answers; duel_set_response replaces the whole buffer. *)
Answer ==
  /\ At("Ask", 0)
  /\ \E a \in Front.choices : returns' = <<a, Junk>>
  /\ Finish(<<>>)
  /\ UNCHANGED <<phase, force_turn_end, flags, battles, team, clock, acts,
                 resets>>

-----------------------------------------------------------------------------
(* field::process(Turn) *)

(* Step 0. *)
PreDraw ==
  /\ At("Turn", 0)
  /\ GoOn(1, <<RefreshRelay>>)
  /\ battle_phase_count' = 0
  /\ acts' = 0 /\ resets' = [ph \in Counted |-> 0] /\ interrupted' = FALSE
  /\ UNCHANGED <<phase, answers, force_turn_end, flags, set_forced_attack,
                 team, clock>>

(* Step 1.  EFFECT_SKIP_TURN leads to the end of the turn. *)
LastTurns(p, duelist) ==
  LET all == Append(recent[p], duelist)
  IN IF Len(all) > TeamSize[p] THEN Tail(all) ELSE all

NewTurn ==
  LET p == Front.player IN
  /\ At("Turn", 1)
  /\ force_turn_end' = FALSE
  /\ turn_id' = IF turn_id = 0 THEN 1 ELSE 2
  /\ turn_player' = p
  /\ IF duel.relay
     THEN UNCHANGED <<lists, tag_index, recent>>
     ELSE /\ IF turn_id = 0 THEN UNCHANGED <<lists, tag_index>> ELSE TagSwap(p)
          /\ recent' = [recent EXCEPT ![p] = LastTurns(p, lists'[p]["main"][1])]
  /\ \/ /\ Reset({"DRAW", "STANDBY", "END"})
        /\ GoOn(19, <<Effects>>)
        /\ UNCHANGED <<phase, hand_adjusted>>
     \/ /\ phase' = "DRAW" /\ hand_adjusted' = FALSE
        /\ GoOn(2, <<Effects>>)
        /\ UNCHANGED resets
  /\ UNCHANGED <<answers, skip_m2, battles, exchanges, recharge, duel,
                 acts>>

(* A phase that the turn player skips (skip: by an EFFECT_SKIP_..., or
   DUEL_NO_STANDBY_PHASE) is reset at once.  Mutant: it is not. *)
ForgottenReset(skip, S, s) == skip /\ GoOn(s, <<Effects>>) /\ UNCHANGED resets
SkipPhase(skip, S, s) == skip /\ Reset(S) /\ GoOn(s, <<Effects>>)

(* Steps 2 to 4. *)
DrawPhase ==
  /\ At("Turn", 2)
  /\ \E affected \in BOOLEAN : LET skip == affected \/ force_turn_end IN
       \/ SkipPhase(skip, {"DRAW"}, 4)
       \/ /\ ~skip
          /\ \E batch \in MayPoint : GoOn(3, batch)
          /\ UNCHANGED resets
  /\ UNCHANGED <<phase, answers, force_turn_end, flags, battles, team, clock,
                 acts>>

Draw ==
  /\ At("Turn", 3)
  /\ \E batch \in MayPoint :
       GoOn(4, batch \o <<PhaseEvent("DRAW")>>)
  /\ UNCHANGED <<phase, answers, force_turn_end, flags, battles, team, clock,
                 acts, resets>>

NothingLeft ==
  /\ At("Turn", 4) \/ At("Turn", 8)
  /\ GoOn(Front.step + 1, <<>>)
  /\ UNCHANGED <<phase, answers, force_turn_end, flags, battles, team, clock,
                 acts, resets>>

(* Steps 5 and 6. *)
StandbyPhase ==
  /\ At("Turn", 5)
  /\ phase' = "STANDBY"
  /\ \E affected \in BOOLEAN : LET skip == affected \/ force_turn_end IN
       \/ SkipPhase(skip, {"STANDBY"}, 7)
       \/ ~skip /\ GoOn(6, <<>>) /\ UNCHANGED resets
  /\ UNCHANGED <<answers, force_turn_end, flags, battles, team, clock, acts>>

(* Steps 6, 11 and 18 run the PhaseEvent of a phase, 14 and 17 only the
   triggers of its start. *)
PhaseEvents ==
  /\ \E s \in {6, 11, 14, 17, 18} :
       /\ At("Turn", s)
       /\ \E batch \in IF s = 18 THEN {<<>>} ELSE MayPoint :
            GoOn(s + 1, batch \o CASE s = 6 -> <<PhaseEvent("STANDBY")>>
                                   [] s = 11 -> <<PhaseEvent("BATTLE_START")>>
                                   [] s = 18 -> <<PhaseEvent("END")>>
                                   [] OTHER -> <<>>)
  /\ UNCHANGED <<phase, answers, force_turn_end, flags, battles, team, clock,
                 acts, resets>>

(* Step 7. *)
MainPhase1 ==
  /\ At("Turn", 7)
  /\ phase' = "MAIN1"
  /\ GoOn(8, <<Effects>>)
  /\ UNCHANGED <<answers, force_turn_end, flags, battles, team, clock, acts,
                 resets>>

(* Steps 9 and 15. *)
Commands ==
  /\ At("Turn", 9) \/ At("Turn", 15)
  /\ GoOn(Front.step + 1, <<Idle>>)
  /\ UNCHANGED <<phase, answers, force_turn_end, flags, battles, team, clock,
                 acts, resets>>

(* Step 10: what IdleCommand answered. *)
BattlePhaseStart ==
  /\ At("Turn", 10)
  /\ IF returns[1] = ToEnd
     THEN /\ GoOn(16, <<>>)
          /\ UNCHANGED <<phase, battle_phase_count, resets>>
     ELSE /\ phase' = "BATTLE_START"
          /\ battle_phase_count' = battle_phase_count + 1
          /\ \E affected \in BOOLEAN : LET skip == affected \/ force_turn_end IN
               \/ SkipPhase(skip, {"BATTLE_START", "BATTLE_STEP", "BATTLE"}, 16)
               \/ ~skip /\ GoOn(11, <<Effects>>) /\ UNCHANGED resets
  /\ UNCHANGED <<answers, force_turn_end, flags, interrupted,
                 set_forced_attack, team, clock, acts>>

(* Step 12. *)
BattleStep ==
  /\ At("Turn", 12)
  /\ phase' = "BATTLE_STEP"
  /\ GoOn(13, <<BattleCommand(0, FALSE)>>)
  /\ UNCHANGED <<answers, force_turn_end, flags, battles, team, clock, acts,
                 resets>>

(* Step 13: what BattleCommand answered, how the phase was left and whether
   there is a second one. *)
Second(b) == [Front EXCEPT !.has_performed_second_battle_phase = b]
Repeats == ~Front.has_performed_second_battle_phase /\ returns[2] # 0

AfterBattle ==
  /\ At("Turn", 13)
  /\ \/ /\ Repeats
        /\ GoOnAs(Second(TRUE), 10, <<>>)
        /\ UNCHANGED <<phase, skip_m2>>
     \/ /\ ~Repeats /\ duel.no_main2
        /\ GoOnAs(Second(FALSE), 16, <<Effects>>)
        /\ UNCHANGED <<phase, skip_m2>>
     \/ /\ ~Repeats /\ ~duel.no_main2
        /\ GoOnAs(Second(FALSE), 14, <<Effects>>)
        /\ skip_m2' = (returns[1] = 3 \/ force_turn_end)
        /\ phase' = "MAIN2"
  /\ UNCHANGED <<answers, force_turn_end, hand_adjusted, battles, team, clock,
                 acts, resets>>

(* Step 16. *)
EndPhase ==
  /\ At("Turn", 16)
  /\ phase' = "END"
  /\ \/ SkipPhase(TRUE, {"END"}, 19)
     \/ GoOn(17, <<Effects>>) /\ UNCHANGED resets
  /\ UNCHANGED <<answers, force_turn_end, flags, battles, team, clock, acts>>

(* Steps 19 and 20. *)
TurnEnd ==
  /\ At("Turn", 19)
  /\ GoOn(20, <<Effects>>)
  /\ UNCHANGED <<phase, answers, force_turn_end, flags, battles, team, clock,
                 acts, resets>>

ChangePlayer ==
  /\ At("Turn", 20)
  /\ GoOnAs([Front EXCEPT !.player = Opponent(@)], 0, <<>>)
  /\ UNCHANGED <<phase, answers, force_turn_end, flags, battles, team, clock,
                 acts, resets>>

-----------------------------------------------------------------------------
(* field::process(PhaseEvent) *)
CheckPlayer == IF Front.is_opponent THEN Opponent(turn_player) ELSE turn_player

(* Step 0: what the player can do.  A lone mandatory effect needs no
   choice, a lone trigger is offered by SelectEffectYesNo, and otherwise
   SelectChain lets the player pass unless an effect is mandatory. *)
PhaseChoices ==
  /\ At("Phase", 0)
  /\ \/ GoOn(25, <<>>) /\ UNCHANGED returns
     \/ /\ ~force_turn_end
        /\ \/ returns' = [returns EXCEPT ![1] = Pass] /\ GoOn(2, <<>>)
           \/ /\ CanAct
              /\ \/ returns' = [returns EXCEPT ![1] = 0] /\ GoOn(2, <<>>)
                 \/ GoOn(1, <<Ask({0, 1})>>) /\ UNCHANGED returns
                 \/ /\ \E forced \in BOOLEAN :
                         GoOn(2, <<Ask(IF forced THEN {0} ELSE {Pass, 0})>>)
                    /\ UNCHANGED returns
  /\ UNCHANGED <<phase, force_turn_end, flags, battles, team, clock, acts,
                 resets>>

(* Step 1. *)
EffectYesNo ==
  /\ At("Phase", 1)
  /\ returns' = [returns EXCEPT ![1] = @ - 1]
  /\ GoOn(2, <<>>)
  /\ UNCHANGED <<phase, force_turn_end, flags, battles, team, clock, acts,
                 resets>>

(* Step 2: the player passes, or an effect is activated, resolved (a
   continuous one), or ends (a change of control).  Mutant: a pass is not
   noted, and the players pass for ever. *)
PassedUnnoted ==
  GoOnAs([Front EXCEPT !.passers = @ \cup {CheckPlayer}, !.is_opponent = ~@],
         0, <<>>)
Passed ==
  LET unit == [Front EXCEPT !.passers = @ \cup {CheckPlayer}]
  IN IF Front.priority_passed THEN GoOnAs(unit, 20, <<>>)
     ELSE GoOnAs([unit EXCEPT !.priority_passed = TRUE,
                              !.is_opponent = ~@], 0, <<>>)

(* Mutant: that the other player passed before still counts. *)
StillPassed(unit) == [unit EXCEPT !.passers = {}]
Acted(unit) == [unit EXCEPT !.priority_passed = FALSE, !.passers = {}]

PhaseChosen ==
  /\ At("Phase", 2)
  /\ IF returns[1] = Pass THEN Passed /\ UNCHANGED acts
     ELSE /\ Act
          /\ \E s \in 3 .. 4 : GoOnAs(Acted(Front), s, <<Effects>>)
  /\ UNCHANGED <<phase, answers, force_turn_end, flags, battles, team, clock,
                 resets>>

(* Steps 3 and 4. *)
PhaseResolved ==
  /\ \/ At("Phase", 3) /\ GoOn(0, SolveChain)
     \/ At("Phase", 4) /\ GoOn(0, <<PointEvent>>)
  /\ UNCHANGED <<phase, answers, force_turn_end, flags, battles, team, clock,
                 acts, resets>>

(* Step 20: the hand limit of the end phase.  A hand that is too large once
   more after the discard takes an act. *)
HandLimit ==
  /\ At("Phase", 20)
  /\ \/ GoOn(25, <<>>) /\ UNCHANGED acts
     \/ /\ Front.phase = "END"
        /\ IF hand_adjusted THEN Act ELSE UNCHANGED acts
        /\ GoOn(21, <<Ask({0})>>)
  /\ UNCHANGED <<phase, answers, force_turn_end, flags, battles, team, clock,
                 resets>>

(* Steps 21 and 22.  The phase starts anew. *)
Discard ==
  /\ At("Phase", 21)
  /\ GoOn(22, <<Effects>>)
  /\ UNCHANGED <<phase, answers, force_turn_end, flags, battles, team, clock,
                 acts, resets>>

HandAdjusted ==
  /\ At("Phase", 22)
  /\ hand_adjusted' = TRUE
  /\ GoOnAs([Acted(Front) EXCEPT !.is_opponent = FALSE], 0, <<PointEvent>>)
  /\ UNCHANGED <<phase, answers, force_turn_end, skip_m2, battles, team, clock,
                 acts, resets>>

(* Steps 25 and 26. *)
PhaseReset ==
  /\ At("Phase", 25)
  /\ Reset({Front.phase})
  /\ GoOn(26, <<Effects>>)
  /\ UNCHANGED <<phase, answers, force_turn_end, flags, battles, team, clock,
                 acts>>

PhaseOver ==
  /\ At("Phase", 26)
  /\ Finish(<<>>)
  /\ UNCHANGED <<phase, answers, force_turn_end, flags, battles, team, clock,
                 acts, resets>>

-----------------------------------------------------------------------------
(* field::process(IdleCommand) *)
Changing(to) == [Front EXCEPT !.phase_to_change_to = to]
Leave(to) == Reset({phase}) /\ GoOnAs(Changing(to), 11, <<Effects>>)

(* Step 0.  A main phase may have to be skipped; otherwise the player may
   summon, move or set a card (0), activate an effect (5), shuffle his hand
   (8), or leave the phase.  cannot_bp is an EFFECT_CANNOT_BP, or the first
   turn of a duel; must_bp an EFFECT_MUST_ATTACK or EFFECT_CANNOT_EP. *)
IdleForced ==
  /\ At("Idle", 0) /\ set_forced_attack
  /\ set_forced_attack' = FALSE
  /\ GoOn(0, <<ForcedBattle>>)
  /\ UNCHANGED <<phase, answers, force_turn_end, flags, battle_phase_count,
                 interrupted, team, clock, acts, resets>>

IdleChoices ==
  /\ At("Idle", 0) /\ ~set_forced_attack
  /\ \E cannot_bp, must_bp, skip_main \in BOOLEAN :
       LET to_bp == phase # "MAIN2" /\ ~cannot_bp /\ ~force_turn_end
           to_ep == ~(phase = "MAIN1" /\ to_bp /\ must_bp)
       IN \/ /\ skip_main \/ force_turn_end
             /\ CASE to_bp /\ to_ep -> GoOn(12, <<Ask({0, 1})>>) /\ UNCHANGED resets
                  [] to_bp /\ ~to_ep -> Leave(ToBattle)
                  [] OTHER -> Leave(ToEnd)
             /\ UNCHANGED <<returns, skip_m2>>
          \/ /\ ~skip_main /\ ~force_turn_end /\ phase = "MAIN2" /\ skip_m2
             /\ skip_m2' = FALSE
             /\ returns' = [returns EXCEPT ![1] = ToEnd]
             /\ GoOn(1, <<>>)
             /\ UNCHANGED resets
          \/ /\ ~skip_main /\ ~force_turn_end /\ ~(phase = "MAIN2" /\ skip_m2)
             /\ GoOn(1, <<Ask((IF CanAct THEN {0, 5, 8} ELSE {})
                              \cup (IF to_bp THEN {ToBattle} ELSE {})
                              \cup (IF to_ep THEN {ToEnd} ELSE {}))>>)
             /\ UNCHANGED <<returns, skip_m2, resets>>
  /\ UNCHANGED <<phase, force_turn_end, hand_adjusted, battles, team, clock,
                 acts>>

(* Steps 1 to 3, and 5 to 9 with 13 (Commanded). *)
IdleChosen ==
  /\ At("Idle", 1)
  /\ \/ returns[1] = 5 /\ Act /\ \E s \in 2 .. 3 : GoOn(s, <<Effects>>)
     \/ returns[1] = 0 /\ Act /\ GoOn(5, <<>>)
     \/ returns[1] = 8 /\ Act /\ GoOn(0, <<>>)
     \/ /\ returns[1] \notin {0, 5, 8}
        /\ GoOnAs(Changing(returns[1]), 10, <<Effects>>)
        /\ UNCHANGED acts
  /\ UNCHANGED <<phase, answers, force_turn_end, flags, battles, team, clock,
                 resets>>

IdleResolved ==
  /\ \/ At("Idle", 2) /\ GoOn(0, SolveChain)
     \/ At("Idle", 3) /\ GoOn(0, <<PointEvent>>)
  /\ UNCHANGED <<phase, answers, force_turn_end, flags, battles, team, clock,
                 acts, resets>>

IdleCommanded ==
  /\ At("Idle", 5)
  /\ GoOn(0, SolveChain)
  /\ UNCHANGED <<phase, answers, force_turn_end, flags, battles, team, clock,
                 acts, resets>>

(* Step 10: the opponent was asked, and may have started a chain. *)
IdleLeaving ==
  /\ At("Idle", 10)
  /\ \/ Act /\ GoOn(0, SolveChain) /\ UNCHANGED resets
     \/ Reset({phase}) /\ GoOn(11, <<Effects>>) /\ UNCHANGED acts
  /\ UNCHANGED <<phase, answers, force_turn_end, flags, battles, team, clock>>

(* Steps 11 and 12. *)
IdleOver ==
  /\ At("Idle", 11)
  /\ returns' = [returns EXCEPT ![1] = Front.phase_to_change_to]
  /\ Finish(<<>>)
  /\ UNCHANGED <<phase, force_turn_end, flags, battles, team, clock, acts,
                 resets>>

IdleSkipped ==
  /\ At("Idle", 12)
  /\ Leave(IF returns[1] = 0 THEN ToBattle ELSE ToEnd)
  /\ UNCHANGED <<phase, answers, force_turn_end, flags, battles, team, clock,
                 acts>>

-----------------------------------------------------------------------------
(* field::process(BattleCommand) *)

(* Step 0.  value is that of the EFFECT_SKIP_BP: one that has a value skips
   the end of the battle phase too. *)
BattleSkipped ==
  /\ At("Battle", 0)
  /\ \E value, twice \in BOOLEAN :
       LET unit == [Front EXCEPT !.phase_to_change_to = 2, !.repeat = twice] IN
       \/ /\ force_turn_end \/ ~value
          /\ Reset({"BATTLE_STEP"})
          /\ phase' = "BATTLE"
          /\ GoOnAs(unit, 42, <<Effects, PhaseEvent("BATTLE")>>)
       \/ /\ ~force_turn_end /\ value
          /\ Reset({"BATTLE"})
          /\ GoOnAs(unit, 42, <<Effects>>)
          /\ UNCHANGED phase
  /\ UNCHANGED <<answers, force_turn_end, flags, battles, team, clock, acts>>

(* Otherwise: activate an effect (0), attack (1), or go on to the second
   main phase (2) or the end phase (3).  A monster that must attack can. *)
BattleChoices ==
  /\ At("Battle", 0) /\ ~force_turn_end
  /\ \E must_attack, cannot_m2 \in BOOLEAN :
       /\ must_attack => CanAct
       /\ LET to_m2 == ~(duel.no_main2 \/ must_attack \/ cannot_m2)
          IN GoOn(1, <<Ask((IF CanAct THEN {0, 1} ELSE {})
                           \cup (IF to_m2 THEN {2} ELSE {})
                           \cup (IF must_attack THEN {} ELSE {3}))>>)
  /\ UNCHANGED <<phase, answers, force_turn_end, flags, battles, team, clock,
                 acts, resets>>

(* Step 1. *)
BattleChosen ==
  /\ At("Battle", 1)
  /\ \/ /\ Front.done \/ returns[1] \notin {0, 1}
        /\ GoOnAs(Changing(returns[1]), 40, <<Effects>>)
        /\ UNCHANGED acts
     \/ /\ ~Front.done /\ returns[1] = 0
        /\ Act
        /\ \/ GoOn(2, <<Effects>>)
           \/ GoOn(15, <<Effects>>)
     \/ /\ ~Front.done /\ returns[1] = 1
        /\ IF Front.forced THEN UNCHANGED acts ELSE Act
        /\ GoOn(3, SolveChain)
  /\ UNCHANGED <<phase, answers, force_turn_end, flags, battles, team, clock,
                 resets>>

(* Steps 2 and 15. *)
BattleResolved ==
  /\ \/ At("Battle", 2) /\ GoOn(0, SolveChain)
     \/ At("Battle", 15) /\ GoOn(0, <<PointEvent>>)
  /\ UNCHANGED <<phase, answers, force_turn_end, flags, battles, team, clock,
                 acts, resets>>

(* Steps 3, 6, 7 and 13: the attack is cancelled or fails; a forced battle
   is then over. *)
AttackFails ==
  /\ At("Battle", 3)
  /\ IF Front.forced
     THEN returns' = [returns EXCEPT ![1] = 2] /\ GoOn(1, <<>>)
     ELSE UNCHANGED returns /\ GoOn(0, <<>>)
  /\ UNCHANGED <<phase, force_turn_end, flags, battles, team, clock, acts,
                 resets>>

(* Step 19. *)
AttackHits ==
  /\ At("Battle", 3)
  /\ phase' = "DAMAGE"
  /\ GoOn(39, SolveChain)
  /\ UNCHANGED <<answers, force_turn_end, flags, battles, team, clock, acts,
                 resets>>

(* Step 39. *)
DamageStepEnds ==
  /\ At("Battle", 39)
  /\ phase' = "BATTLE_STEP"
  /\ IF Front.forced
     THEN GoOnAs([Front EXCEPT !.done = TRUE], 1, <<Effects>>)
     ELSE GoOn(0, <<Effects>>)
  /\ UNCHANGED <<answers, force_turn_end, flags, battles, team, clock, acts,
                 resets>>

(* Step 40: as step 10 of IdleCommand, but a forced battle goes on. *)
BattleLeaving ==
  /\ At("Battle", 40)
  /\ \/ /\ Act
        /\ GoOn(IF Front.forced THEN 41 ELSE 0, SolveChain)
        /\ UNCHANGED resets
     \/ /\ Reset({"BATTLE_STEP"})
        /\ GoOn(41, <<Effects>>)
        /\ UNCHANGED acts
  /\ UNCHANGED <<phase, answers, force_turn_end, flags, battles, team, clock>>

(* Step 41.  Each EFFECT_BP_TWICE is an offer or an obligation. *)
BattleEnds ==
  /\ At("Battle", 41)
  /\ \E twice, optional \in BOOLEAN :
       /\ ~twice => optional
       /\ GoOnAs([Front EXCEPT !.repeat = twice, !.optional = optional], 42,
                 <<PhaseEvent("BATTLE"), Effects>>)
  /\ phase' = "BATTLE"
  /\ UNCHANGED <<answers, force_turn_end, flags, battles, team, clock, acts,
                 resets>>

(* Steps 42 and 43: the two answers for step 13 of Turn.  Mutant: the
   second is left as it is. *)
FirstAnswer(to, again) == [returns EXCEPT ![1] = to]
BothAnswers(to, again) == <<to, again>>

BattleOver ==
  /\ \/ /\ At("Battle", 42)
        /\ IF Front.repeat /\ Front.optional
           THEN GoOn(43, <<Ask({0, 1})>>) /\ UNCHANGED returns
           ELSE /\ returns' = BothAnswers(Front.phase_to_change_to,
                                          IF Front.repeat THEN 1 ELSE 0)
                /\ Finish(<<>>)
     \/ /\ At("Battle", 43)
        /\ returns' = BothAnswers(Front.phase_to_change_to, returns[1])
        /\ Finish(<<>>)
  /\ UNCHANGED <<phase, force_turn_end, flags, battles, team, clock, acts,
                 resets>>

-----------------------------------------------------------------------------
(* field::process(ForcedBattle) *)

(* Step 0: the battle may be impossible (EFFECT_CANNOT_BP), skipped, or
   without a legal attack. *)
ForcedCannot ==
  /\ At("Forced", 0)
  /\ Finish(<<>>)
  /\ UNCHANGED <<phase, answers, force_turn_end, flags, battles, team, clock,
                 acts, resets>>

ForcedStarts ==
  /\ At("Forced", 0)
  /\ interrupted' = TRUE
  /\ battle_phase_count' = battle_phase_count + 1
  /\ \/ /\ Finish(<<Effects>>)
        /\ UNCHANGED <<phase, returns>>
     \/ /\ ~force_turn_end
        /\ Finish(<<>>)
        /\ UNCHANGED <<phase, returns>>
     \/ /\ ~force_turn_end
        /\ returns' = [returns EXCEPT ![1] = 1]
        /\ phase' = "BATTLE_STEP"
        /\ GoOnAs([Front EXCEPT !.backup_phase = phase], 1,
                  <<BattleCommand(1, TRUE)>>)
  /\ UNCHANGED <<force_turn_end, flags, set_forced_attack, team, clock, acts,
                 resets>>

(* Step 1.  Mutant: the turn goes on in the phase of the battle. *)
StayInBattle == phase
Interrupted == Front.backup_phase

ForcedEnds ==
  /\ At("Forced", 1)
  /\ phase' = Interrupted
  /\ Finish(<<>>)
  /\ UNCHANGED <<answers, force_turn_end, flags, battles, team, clock, acts,
                 resets>>

-----------------------------------------------------------------------------
TurnStep ==
  \/ PreDraw \/ NewTurn \/ DrawPhase \/ Draw \/ NothingLeft \/ StandbyPhase
  \/ PhaseEvents \/ MainPhase1 \/ Commands \/ BattlePhaseStart \/ BattleStep
  \/ AfterBattle \/ EndPhase \/ TurnEnd \/ ChangePlayer
PhaseStep ==
  \/ PhaseChoices \/ EffectYesNo \/ PhaseChosen \/ PhaseResolved \/ HandLimit
  \/ Discard \/ HandAdjusted \/ PhaseReset \/ PhaseOver
IdleStep ==
  \/ IdleForced \/ IdleChoices \/ IdleChosen \/ IdleResolved \/ IdleCommanded
  \/ IdleLeaving \/ IdleOver \/ IdleSkipped
BattleCommandStep ==
  \/ BattleSkipped \/ BattleChoices \/ BattleChosen \/ BattleResolved
  \/ AttackFails \/ AttackHits \/ DamageStepEnds \/ BattleLeaving \/ BattleEnds
  \/ BattleOver
ForcedStep == ForcedCannot \/ ForcedStarts \/ ForcedEnds

Next ==
  \/ TurnStep \/ PhaseStep \/ IdleStep \/ BattleCommandStep \/ ForcedStep
  \/ Refresh \/ Refreshed \/ EffectsRun \/ PointEventRun \/ PointEventEnd
  \/ Answer

(* process() is called until the duel is over, and every player answers. *)
Spec == Init /\ [][Next]_vars
FairSpec == Spec /\ WF_vars(Next)

-----------------------------------------------------------------------------
(* Properties. *)
TypeOK ==
  /\ units # <<>> /\ \A i \in DOMAIN units : units[i] \in Units
  /\ phase \in Phases
  /\ turn_id \in 0 .. 2 /\ turn_player \in Players
  /\ battle_phase_count \in Nat
  /\ returns \in Seq(Answers) /\ Len(returns) = 2
  /\ {force_turn_end, hand_adjusted, skip_m2, set_forced_attack, interrupted}
       \subseteq BOOLEAN
  /\ \A p \in Players : \A l \in Lists :
       {lists[p][l][i] : i \in 1 .. TeamSize[p]} = 0 .. TeamSize[p] - 1
  /\ tag_index \in [Players -> Nat] /\ exchanges \in [Players -> Nat]
  /\ recharge \in [Players -> BOOLEAN]
  /\ duel \in Duels
  /\ acts \in 0 .. duel.max_acts
  /\ resets \in [Counted -> 0 .. 3]
  /\ \A p \in Players : recent[p] \in Seq(0 .. TeamSize[p] - 1)

(* A handler that looks at core.returns finds the answer that was meant for
   it: no unit that ran in between has left its own there. *)
ReturnsFresh ==
  /\ \/ At("Turn", 10) \/ At("Turn", 13) \/ At("Phase", 1) \/ At("Phase", 2)
     \/ At("Idle", 1) \/ At("Idle", 12) \/ At("Battle", 43)
     \/ At("Battle", 1) /\ ~Front.done
     => returns[1] # Junk
  /\ At("Turn", 13) => returns[2] # Junk

(* "Until the end phase" and "for two standby phases" are counted by
   reset_phase.  In a turn that no forced battle interrupted it is called
   exactly once for the draw, standby and end phases, even when they are
   skipped or the turn is cut short, at most once for a main phase, and
   once for each of at most two battle phases. *)
ResetsOnce ==
  At("Turn", 20) /\ ~interrupted =>
    /\ \A ph \in {"DRAW", "STANDBY", "END"} : resets[ph] = 1
    /\ resets["MAIN1"] <= 1 /\ resets["MAIN2"] <= resets["MAIN1"]
    /\ \A ph \in {"BATTLE_START", "BATTLE"} : resets[ph] = battle_phase_count
    /\ resets["BATTLE_STEP"] <= battle_phase_count
    /\ battle_phase_count <= 2 * resets["MAIN1"]

(* infos.phase is the phase that the running handler is about, also after
   a forced battle has put another one in its place. *)
PhaseAgrees ==
  /\ Front.kind = "Phase" => phase = Front.phase
  /\ Front.kind = "Idle" => phase \in {"MAIN1", "MAIN2"}
  /\ Front.kind = "Battle" /\ Front.step <= 40 =>
       phase = IF Front.step = 39 THEN "DAMAGE" ELSE "BATTLE_STEP"

(* A phase that is not skipped is left only when both players have passed
   and nothing has happened since the first of them did: no effect, and no
   discard at the end of the turn. *)
PhasePassed == At("Phase", 20) => Front.passers = Players

(* A phase is the running one, whatever interrupts it, until both players
   have passed in it. *)
PhasesKept == PhaseAgrees /\ PhasePassed

(* The deck, the hand and the extra deck in play are those of one duelist.
   In a tag duel every duelist of a team has a turn before one of them has
   another; in a relay duel they come in one after the other, each once. *)
DuelistOrder ==
  /\ \A p \in Players : \A l \in Lists : lists[p][l] = lists[p]["main"]
  /\ ~duel.relay =>
       \A p \in Players :
         Cardinality({recent[p][i] : i \in DOMAIN recent[p]}) = Len(recent[p])
  /\ duel.relay =>
       \A p \in Players :
         lists[p]["main"][1] = exchanges[p] - (IF recharge[p] THEN 1 ELSE 0)

(* Every turn comes to an end. *)
TurnEnds == []<>(At("Turn", 0))

(* A player who may have a second battle phase and has had only one gets it
   ("2nd Battle Phase", processor.cpp:3511). *)
SecondBattlePhase ==
  [][At("Turn", 13) /\ returns[2] = 1 /\ battle_phase_count = 1 =>
     units'[1].step = 10]_vars

=============================================================================
