------------------------------- MODULE Battle -------------------------------
(* One battle phase in detail: the attack and the damage step, steps 0 to
   39 of BattleCommand, with the units that run inside them: PointEvent,
   SolveChain, the "attack cancel" of Adjust, Destroy, ForcedBattle,
   DamageStep and AttackDisable.  They share the battling monsters and the
   flags of the damage step through core.

   What effects do is the acts of the links of chains, one each, and what
   removes a monster in Adjust.  The answer to a question is chosen by the
   step that asks it, for nothing runs between a question and its answer. *)
EXTENDS Integers, Sequences, FiniteSets

CONSTANTS
  Monsters, \* all monsters that may be on the field
  Mine,     \* those that the turn player controls at first
  Reserves, \* those of the opponent that are not on the field at first
  Settings  \* the battle phases that are looked at

None == "none"

(* What the links of chains, and cards whose effects Adjust applies, do. *)
Acts == {"leave", "enter", "control", "position", "negate",
         "chain_attack", "change_target", "change_attacker", "force",
         "calculate", "skip"}

(* The effects and duel options that apply throughout: extra is the value
   of EFFECT_EXTRA_ATTACK, direct stands for EFFECT_DIRECT_ATTACK, must for
   EFFECT_MUST_ATTACK, cost for EFFECT_ATTACK_COST, unstoppable for
   EFFECT_UNSTOPPABLE_ATTACK, replays for DUEL_STORE_ATTACK_REPLAYS and
   six_steps for DUEL_6_STEP_BATLLE_STEP.  In main the units run in a main
   phase, where there is a battle only by effects.  The last two are the
   bounds on links and attacks. *)
AllSettings ==
  [main : BOOLEAN, extra : 0 .. 1, direct : BOOLEAN, must : BOOLEAN,
   cost : BOOLEAN, unstoppable : BOOLEAN, replays : BOOLEAN,
   six_steps : BOOLEAN, acts : SUBSET Acts, max_links : Nat, max_attacks : Nat]

(* A forced battle inside of another battle, or of a damage step, would
   leave it without its attacker: ForceAttack is used in main phases. *)
ASSUME ConstantsAssumption ==
  /\ Mine \subseteq Monsters /\ Reserves \subseteq Monsters \ Mine
  /\ Settings \subseteq AllSettings
  /\ \A s \in Settings : "force" \in s.acts => s.main /\ "calculate" \notin s.acts

VARIABLES
  units,              \* core.units, front first
  field,              \* the monsters: see TypeOK
  attacker,           \* core.attacker
  attack_target,      \* core.attack_target, None for a direct attack
  pre_field,          \* their fieldid_r when it was last recorded
  opp_mzone,          \* the fieldid_r of the opponent's monsters
  attack_rollback,
  chain_attack,       \* chain_attack, chain_attacker_id, chain_attack_target
  attack_cancelable,
  attack_player,
  forced,             \* set_forced_attack, forced_attacker and _target
  effect_damage_step,
  reserved,           \* core.reserved
  selfdes_disabled,
  flip_delayed,
  phase,              \* infos.phase
  returns,            \* core.returns
  skip_bp,            \* EFFECT_SKIP_BP applies to the turn player
  setting,            \* which of Settings this is
  links,              \* history: links of chains, and acts of Adjust
  attacks,            \* history: attacks that were announced
  upset               \* history: what effects have upset, see Upset

battlers == <<attacker, attack_target, pre_field>>
replay == <<opp_mzone, attack_rollback, attack_player>>
step_flags == <<selfdes_disabled, flip_delayed>>
nested == <<effect_damage_step, reserved>>
bounds == <<setting, links, attacks, upset>>
vars == <<units, field, battlers, replay, chain_attack, attack_cancelable,
          forced, nested, step_flags, phase, returns, skip_bp, bounds>>

Phases == {"MAIN1", "BATTLE_STEP", "DAMAGE", "DAMAGE_CAL"}
DamagePhases == {"DAMAGE", "DAMAGE_CAL"}
Statuses == {"ATTACK_CANCELED", "BATTLE_RESULT", "BATTLE_DESTROYED",
             "DESTROY_CONFIRMED", "OPPO_BATTLE"}

(* fieldid_r and fieldid: a card gets a new one whenever it moves, but only
   a new fieldid when its control changes. *)
Id(m) == <<m, field[m].moves>>
FieldId(m) == <<m, field[m].moves + field[m].changes>>
NoId == <<None, 0>>
IdOf(m) == IF m = None THEN NoId ELSE Id(m)
Ids == {NoId} \cup (Monsters \X Nat)

NotForced == [set |-> FALSE, attacker |-> None, target |-> None]
NoChainAttack == [set |-> FALSE, id |-> NoId, target |-> None]

(* The units, with their members of processor_unit.h. *)
BattleCommand(s, forced_attack, des) ==
  [kind |-> "Battle", step |-> s, forced_attack |-> forced_attack,
   forced_attack_done |-> FALSE, is_replaying_attack |-> FALSE,
   attack_announce_failed |-> FALSE, had_trigger |-> FALSE,
   cards_destroyed_by_battle |-> des]
DamageStep(a, t, new) ==
  [kind |-> "Damage", step |-> 0, attacker |-> a, attack_target |-> t,
   backup_phase |-> "MAIN1", new_attack |-> new,
   cards_destroyed_by_battle |-> {}]
ForcedBattle == [kind |-> "Forced", step |-> 0, backup_phase |-> "MAIN1"]
AttackDisable == [kind |-> "Disable", step |-> 0]
Adjust == [kind |-> "Adjust", step |-> 0]
PointEvent == [kind |-> "Point", step |-> 0]
Destroy(s, des) == [kind |-> "Destroy", step |-> s, targets |-> des]
SolveChain(n) == [kind |-> "Chain", step |-> 0, links |-> n]

Front == Head(units)
At(kind, s) == units # <<>> /\ Front.kind = kind /\ Front.step = s
GoOnAs(unit, s, batch) ==
  units' = batch \o <<[unit EXCEPT !.step = s]>> \o Tail(units)
GoOn(s, batch) == GoOnAs(Front, s, batch)
Finish(batch) == units' = batch \o Tail(units)

(* Effects may upset the counts of attacks, by battles and attackers that
   are not announced or announced and not counted; the marks, statuses of
   the battlers of a damage step, by exchanging a battler that has some;
   and a damage step that waits in core.reserved, by another one that takes
   its place. *)
Upset == {"counts", "marks", "waiting"}

Has(m, s) == m # None /\ s \in field[m].status
Canceled(m) == Has(m, "ATTACK_CANCELED")
OnField(m) == field[m].on
TurnPlayers == {m \in Monsters : OnField(m) /\ field[m].controler = 0}
Opponents == {m \in Monsters : OnField(m) /\ field[m].controler = 1}

(* set_status of some of the monsters. *)
SetStatus(f, M, s) ==
  [m \in Monsters |-> IF m \in M THEN [f[m] EXCEPT !.status = @ \cup {s}] ELSE f[m]]
ClearStatus(f, M, s) ==
  [m \in Monsters |-> IF m \in M THEN [f[m] EXCEPT !.status = @ \ {s}] ELSE f[m]]
Battlers == {attacker, attack_target} \ {None}

Monster(on, p) ==
  [on |-> on, controler |-> p, attack_controler |-> p, moves |-> 0, changes |-> 0,
   attack_pos |-> TRUE, disabled |-> FALSE, announce_count |-> 0,
   attack_announce_count |-> 0, status |-> {}]

Init ==
  /\ setting \in Settings
  /\ units = IF setting.main THEN <<PointEvent>>
                             ELSE <<BattleCommand(0, FALSE, {})>>
  /\ field = [m \in Monsters |->
                Monster(m \notin Reserves, IF m \in Mine THEN 0 ELSE 1)]
  /\ attacker = None /\ attack_target = None /\ pre_field = <<NoId, NoId>>
  /\ opp_mzone = {} /\ attack_rollback = FALSE /\ attack_player = FALSE
  /\ chain_attack = NoChainAttack /\ attack_cancelable = TRUE
  /\ forced = NotForced /\ effect_damage_step = 0 /\ reserved = <<>>
  /\ selfdes_disabled = FALSE /\ flip_delayed = FALSE
  /\ phase = IF setting.main THEN "MAIN1" ELSE "BATTLE_STEP"
  /\ returns = 0 /\ skip_bp = FALSE
  /\ links = 0 /\ attacks = 0 /\ upset = {}

-----------------------------------------------------------------------------
(* Who may attack what. *)

(* card::is_capable_attack: the position, what forbids the attack, and that
   the battle phase is skipped. *)
IsCapableAttack(m) ==
  /\ OnField(m) /\ field[m].attack_pos
  /\ field[m].disabled => setting.unstoppable
  /\ ~skip_bp

(* field::get_attack_target.  Nothing restricts the targets here but a
   chain attack that has one; a monster that has announced its attacks has
   none.  current is core.attacker. *)
AttackTargets(m, chaining, current) ==
  IF ~chaining /\ field[m].announce_count > setting.extra THEN {}
  ELSE {t \in Monsters \ {current} :
          /\ OnField(t) /\ field[t].controler # field[m].controler
          /\ chaining /\ chain_attack.target # None => t = chain_attack.target}

(* direct_attackable, which get_attack_target leaves in the card. *)
DirectAttackable(m, chaining, current) ==
  /\ ~chaining => field[m].announce_count <= setting.extra
  /\ \/ \A t \in Monsters \ {current} :
          OnField(t) => field[t].controler = field[m].controler
     \/ setting.direct \/ attack_player
  /\ ~(chaining /\ chain_attack.target # None)

(* field::confirm_attack_target *)
ConfirmAttackTarget ==
  IF attack_target = None
  THEN DirectAttackable(attacker, chain_attack.set, attacker)
  ELSE attack_target \in AttackTargets(attacker, chain_attack.set, attacker)

(* The attackable_cards of step 0 of BattleCommand, where there is no
   attacker yet. *)
ChainAttacks(m) == chain_attack.set /\ chain_attack.id = FieldId(m)
Attackable ==
  {m \in TurnPlayers :
     /\ IsCapableAttack(m)
     /\ \/ AttackTargets(m, ChainAttacks(m), None) # {}
        \/ DirectAttackable(m, ChainAttacks(m), None)}

-----------------------------------------------------------------------------
(* field::process(BattleCommand), up to the damage step. *)

(* Step 0.  The answer is to attack (1) or to leave the phase (2); effects
   are activated in the steps after it. *)
BattleChoices ==
  /\ At("Battle", 0)
  /\ attacker' = None /\ attack_target' = None /\ attack_player' = FALSE
  /\ attack_cancelable' = TRUE
  /\ chain_attack' = IF chain_attack.set THEN chain_attack ELSE NoChainAttack
  /\ IF skip_bp
     THEN GoOn(42, <<Adjust>>) /\ UNCHANGED returns
     ELSE /\ GoOn(1, <<>>)
          /\ \/ Attackable # {} /\ attacks < setting.max_attacks /\ returns' = 1
             \/ (Attackable = {} \/ ~setting.must \/ attacks = setting.max_attacks)
                /\ returns' = 2
  /\ UNCHANGED <<field, pre_field, opp_mzone, attack_rollback, forced, nested,
                 step_flags, phase, skip_bp, bounds>>

(* Step 1, and the costs of the attack (step 14). *)
AttackChosen ==
  /\ At("Battle", 1) /\ ~Front.forced_attack_done /\ returns = 1
  /\ \E a \in IF Front.forced_attack THEN {attacker} ELSE Attackable :
       /\ attacker' = a
       /\ field' = [ClearStatus(field, {a}, "ATTACK_CANCELED")
                      EXCEPT ![a].attack_controler = field[a].controler]
       /\ pre_field' = [pre_field EXCEPT ![1] = Id(a)]
       /\ chain_attack' = IF chain_attack.set /\ chain_attack.id # FieldId(a)
                          THEN [chain_attack EXCEPT !.set = FALSE, !.id = NoId]
                          ELSE chain_attack
  /\ attack_cancelable' = (attack_cancelable /\ ~setting.cost)
  /\ GoOnAs([Front EXCEPT !.attack_announce_failed = FALSE], 3,
            IF setting.cost THEN <<Adjust>> ELSE <<>>)
  /\ UNCHANGED <<attack_target, replay, forced, nested, step_flags, phase,
                 returns, skip_bp, bounds>>

PhaseLeft ==
  /\ At("Battle", 1) /\ (Front.forced_attack_done \/ returns # 1)
  /\ GoOn(40, <<>>)
  /\ UNCHANGED <<field, battlers, replay, chain_attack, attack_cancelable,
                 forced, nested, step_flags, phase, returns, skip_bp, bounds>>

(* Back to the choices of step 0; a forced battle is over instead. *)
NoAttack(unit) ==
  IF unit.forced_attack THEN returns' = 2 /\ GoOnAs(unit, 1, <<>>)
                        ELSE UNCHANGED returns /\ GoOnAs(unit, 0, <<>>)

(* Step 3: the attacker may be unable to attack by now, or the cost unpaid. *)
CostPaid ==
  /\ At("Battle", 3)
  /\ LET unit == [Front EXCEPT !.is_replaying_attack = FALSE] IN
     \/ /\ Canceled(attacker)
        /\ GoOnAs([unit EXCEPT !.attack_announce_failed = TRUE], 7, <<>>)
        /\ UNCHANGED returns
     \/ ~Canceled(attacker) /\ setting.cost /\ ~attack_cancelable /\ NoAttack(unit)
     \/ /\ ~Canceled(attacker)
        /\ GoOnAs(unit, IF unit.forced_attack THEN 7 ELSE 4, <<>>)
        /\ UNCHANGED returns
  /\ UNCHANGED <<field, battlers, replay, chain_attack, attack_cancelable,
                 forced, nested, step_flags, phase, skip_bp, bounds>>

(* Steps 4 to 6 and 16: what is attacked, where also a replay starts.  The
   choice may be cancelled, and there may be none. *)
SelectAttackTarget ==
  /\ At("Battle", 4)
  /\ attack_player' = FALSE
  /\ LET targets == AttackTargets(attacker, chain_attack.set, attacker)
         direct == DirectAttackable(attacker, chain_attack.set, attacker)
         select(t) == /\ attack_target' = t
                      /\ pre_field' = [pre_field EXCEPT ![2] = IdOf(t)]
                      /\ GoOn(7, <<>>) /\ UNCHANGED returns
     IN \/ direct /\ select(None)
        \/ \E t \in targets : select(t)
        \/ /\ targets # {} /\ attack_cancelable
           /\ IF Front.is_replaying_attack THEN GoOn(13, <<>>) /\ UNCHANGED returns
                                           ELSE NoAttack(Front)
           /\ UNCHANGED <<attack_target, pre_field>>
        \/ /\ targets = {} /\ ~direct
           /\ GoOnAs([Front EXCEPT !.attack_announce_failed = TRUE], 7, <<>>)
           /\ UNCHANGED <<attack_target, pre_field, returns>>
  /\ UNCHANGED <<field, attacker, opp_mzone, attack_rollback, chain_attack,
                 attack_cancelable, forced, nested, step_flags, phase,
                 skip_bp, bounds>>

Count(f, m, what) == [f EXCEPT ![m][what] = @ + 1]

(* Step 7.  Mutant: the replay of an attack counts as another one. *)
AnnounceAgain(f, m, replaying) == Count(f, m, "attack_announce_count")
Announce(f, m, replaying) ==
  IF replaying THEN f ELSE Count(f, m, "attack_announce_count")

AttackAnnounced ==
  /\ At("Battle", 7)
  /\ LET announced == Announce(field, attacker, Front.is_replaying_attack) IN
       IF Front.attack_announce_failed
       THEN /\ field' = Count(announced, attacker, "announce_count")
            /\ chain_attack' = [chain_attack EXCEPT !.set = FALSE]
            /\ NoAttack(Front)
       ELSE /\ field' = announced
            /\ GoOn(8, <<>>)
            /\ UNCHANGED <<chain_attack, returns>>
  /\ attacks' = IF Front.is_replaying_attack THEN attacks ELSE attacks + 1
  /\ UNCHANGED <<battlers, replay, attack_cancelable, forced, nested,
                 step_flags, phase, skip_bp, setting, links, upset>>

(* Step 8. *)
OpponentIds == {Id(m) : m \in Opponents}

AttackDeclared ==
  /\ At("Battle", 8)
  /\ attack_cancelable' = TRUE /\ attack_rollback' = FALSE
  /\ opp_mzone' = OpponentIds
  /\ field' = [field EXCEPT ![attacker].attack_controler = field[attacker].controler]
  /\ pre_field' = [pre_field EXCEPT ![1] = Id(attacker)]
  /\ GoOn(9, <<PointEvent>>)
  /\ UNCHANGED <<attacker, attack_target, attack_player, chain_attack, forced,
                 nested, step_flags, phase, returns, skip_bp, bounds>>

(* Steps 9 and 10: free chains, again when there was one. *)
AttackResponses ==
  /\ \/ /\ At("Battle", 9)
        /\ IF skip_bp \/ Canceled(attacker) \/ attack_rollback
           THEN GoOn(11, <<>>) ELSE GoOn(10, <<PointEvent>>)
     \/ /\ At("Battle", 10)
        /\ IF returns # 0 THEN GoOn(9, <<>>) ELSE GoOn(11, <<Adjust>>)
  /\ UNCHANGED <<field, battlers, replay, chain_attack, attack_cancelable,
                 forced, nested, step_flags, phase, returns, skip_bp, bounds>>

(* Step 11: to the damage step (19), to a replay, or back (13). *)
AttackGoesOn ==
  /\ At("Battle", 11)
  /\ LET disabled == field[attacker].disabled
         reset == IF disabled
                  THEN [SetStatus(field, {attacker}, "ATTACK_CANCELED")
                          EXCEPT ![attacker].disabled = FALSE]
                  ELSE field
         replayable ==
           \/ AttackTargets(attacker, chain_attack.set, attacker) # {}
           \/ DirectAttackable(attacker, chain_attack.set, attacker)
     IN \/ /\ skip_bp \/ Canceled(attacker) \/ disabled
           /\ field' = reset /\ GoOn(13, <<>>)
           /\ UNCHANGED <<attack_cancelable, returns>>
        \/ /\ ~skip_bp /\ ~Canceled(attacker) /\ ~disabled
           /\ \/ /\ ~attack_rollback
                 /\ field' = Count(field, attacker, "announce_count")
                 /\ GoOn(19, <<>>)
                 /\ UNCHANGED <<attack_cancelable, returns>>
              \/ /\ attack_rollback /\ UNCHANGED field
                 /\ IF ~replayable
                    THEN GoOn(13, <<>>) /\ UNCHANGED <<attack_cancelable, returns>>
                    ELSE /\ GoOn(12, <<>>)
                         /\ IF setting.replays /\ ~chain_attack.set
                            THEN returns' = 0 /\ UNCHANGED attack_cancelable
                            ELSE IF setting.must
                            THEN returns' = 1 /\ attack_cancelable' = FALSE
                            ELSE returns' \in {0, 1} /\ UNCHANGED attack_cancelable
  /\ UNCHANGED <<battlers, replay, chain_attack, forced, nested, step_flags,
                 phase, skip_bp, bounds>>

(* Step 12. *)
ReplayAnswered ==
  /\ At("Battle", 12)
  /\ IF returns # 0
     THEN GoOnAs([Front EXCEPT !.is_replaying_attack = TRUE,
                              !.attack_announce_failed = FALSE], 4, <<>>)
     ELSE GoOn(13, <<>>)
  /\ UNCHANGED <<field, battlers, replay, chain_attack, attack_cancelable,
                 forced, nested, step_flags, phase, returns, skip_bp, bounds>>

(* Step 13: the attack is over without a damage step.  With
   DUEL_STORE_ATTACK_REPLAYS an attack that is not replayed does not count. *)
StoredReplay == setting.replays /\ ~chain_attack.set /\ ~Canceled(attacker)

AttackStopped ==
  /\ At("Battle", 13)
  /\ field' = IF Id(attacker) = pre_field[1] /\ ~StoredReplay
              THEN Count(field, attacker, "announce_count") ELSE field
  /\ chain_attack' = [chain_attack EXCEPT !.set = FALSE]
  /\ IF Front.forced_attack THEN returns' = 2 /\ GoOn(1, <<Adjust>>)
                            ELSE UNCHANGED returns /\ GoOn(0, <<Adjust>>)
  /\ upset' = upset \cup IF Id(attacker) = pre_field[1] /\ StoredReplay THEN {"counts"} ELSE {}
  /\ UNCHANGED <<battlers, replay, attack_cancelable, forced, nested,
                 step_flags, phase, skip_bp, setting, links, attacks>>

-----------------------------------------------------------------------------
(* field::process(BattleCommand), the damage step. *)

(* Step 19. *)
DamageStepStarts ==
  /\ At("Battle", 19)
  /\ phase' = "DAMAGE" /\ selfdes_disabled' = TRUE /\ flip_delayed' = TRUE
  /\ chain_attack' = [chain_attack EXCEPT !.set = FALSE]
  /\ field' = [m \in Monsters |->
                 IF m \in Battlers
                 THEN [field[m] EXCEPT !.attack_controler = field[m].controler]
                 ELSE field[m]]
  /\ pre_field' = <<Id(attacker), IdOf(attack_target)>>
  /\ GoOnAs([Front EXCEPT !.is_replaying_attack = FALSE], 20, <<Adjust>>)
  /\ UNCHANGED <<attacker, attack_target, replay, attack_cancelable, forced,
                 nested, returns, skip_bp, bounds>>

(* Steps 20 to 22: with DUEL_6_STEP_BATLLE_STEP there is only one of the
   first two timings, unless there are triggers for both. *)
BeforeCalculation ==
  /\ \/ /\ At("Battle", 20)
        /\ \E triggers \in BOOLEAN :
             GoOnAs([Front EXCEPT !.had_trigger = triggers], 21,
                    IF ~setting.six_steps \/ triggers THEN <<PointEvent>> ELSE <<>>)
     \/ /\ At("Battle", 21)
        /\ IF Canceled(attacker) THEN GoOn(34, <<>>)
           ELSE \E batch \in {<<>>, <<Adjust>>} : GoOn(22, batch)
     \/ /\ At("Battle", 22)
        /\ \E triggers \in BOOLEAN :
             GoOn(23, IF ~setting.six_steps \/ ~Front.had_trigger \/ triggers
                      THEN <<PointEvent>> ELSE <<>>)
  /\ UNCHANGED <<field, battlers, replay, chain_attack, attack_cancelable,
                 forced, nested, step_flags, phase, returns, skip_bp, bounds>>

(* Steps 23 to 25. *)
DamageCalculation ==
  /\ \/ At("Battle", 23) /\ Canceled(attacker) /\ GoOn(34, <<>>) /\ UNCHANGED phase
     \/ /\ At("Battle", 23) /\ ~Canceled(attacker)
        /\ phase' = "DAMAGE_CAL" /\ GoOn(24, <<Adjust>>)
     \/ At("Battle", 24) /\ GoOn(25, <<PointEvent>>) /\ UNCHANGED phase
     \/ At("Battle", 25) /\ Canceled(attacker) /\ GoOn(34, <<Adjust>>) /\ phase' = "DAMAGE"
     \/ At("Battle", 25) /\ ~Canceled(attacker) /\ GoOn(26, <<>>) /\ UNCHANGED phase
  /\ UNCHANGED <<field, battlers, replay, chain_attack, attack_cancelable,
                 forced, nested, step_flags, returns, skip_bp, bounds>>

(* Step 26: calculate_battle_damage says which of the two are destroyed,
   EFFECT_INDESTRUCTABLE_BATTLE may prevent it.  Mutant: a direct attack is
   compared with something too. *)
AlwaysCompared == SUBSET Battlers
Defeats == IF attack_target = None THEN {{}} ELSE SUBSET Battlers

BattleResult ==
  /\ At("Battle", 26)
  /\ \E losers \in Defeats :
       LET clear == ClearStatus(ClearStatus(field, Battlers, "BATTLE_RESULT"),
                                Battlers, "BATTLE_DESTROYED")
           met == IF attack_target # None
                     /\ field[attacker].controler # field[attack_target].controler
                  THEN SetStatus(clear, Battlers, "OPPO_BATTLE") ELSE clear
       IN field' = SetStatus(met, losers, "BATTLE_RESULT")
  /\ GoOn(27, <<>>)
  /\ UNCHANGED <<battlers, replay, chain_attack, attack_cancelable, forced,
                 nested, step_flags, phase, returns, skip_bp, bounds>>

(* Step 27: the damage. *)
DamageDealt ==
  /\ At("Battle", 27)
  /\ phase' = "DAMAGE"
  /\ chain_attack' = [chain_attack EXCEPT !.set = FALSE]
  /\ GoOn(28, <<Adjust>>)
  /\ UNCHANGED <<field, battlers, replay, attack_cancelable, forced, nested,
                 step_flags, returns, skip_bp, bounds>>

(* Step 28: the losers that are still where they fought. *)
Losers(M) == {m \in M : /\ Has(m, "BATTLE_RESULT") /\ OnField(m)
                        /\ Id(m) = pre_field[IF m = attacker THEN 1 ELSE 2]}

BattleDestroys ==
  /\ At("Battle", 28)
  /\ LET des == Losers(Battlers) IN
       /\ field' = ClearStatus(SetStatus(field, des, "DESTROY_CONFIRMED"),
                               Battlers, "BATTLE_RESULT")
       /\ GoOnAs([Front EXCEPT !.cards_destroyed_by_battle = des], 29,
                 IF des = {} THEN <<>> ELSE <<Destroy(10, des)>>)
  /\ UNCHANGED <<battlers, replay, chain_attack, attack_cancelable, forced,
                 nested, step_flags, phase, returns, skip_bp, bounds>>

(* Steps 29 and 30: those whose destruction was not replaced. *)
Destroyed(f, des) ==
  ClearStatus(SetStatus(f, des, "BATTLE_DESTROYED"), des, "DESTROY_CONFIRMED")

DestructionSettled ==
  \/ /\ At("Battle", 29) /\ GoOn(30, <<Adjust>>)
     /\ UNCHANGED <<field, battlers, replay, chain_attack, attack_cancelable,
                    forced, nested, step_flags, phase, returns, skip_bp, bounds>>
  \/ /\ At("Battle", 30)
     /\ field' = Destroyed(field, Front.cards_destroyed_by_battle)
     /\ selfdes_disabled' = FALSE
     /\ GoOn(31, IF setting.six_steps /\ effect_damage_step = 0
                 THEN <<Adjust, PointEvent>> ELSE <<Adjust>>)
     /\ UNCHANGED <<battlers, replay, chain_attack, attack_cancelable, forced,
                    nested, flip_delayed, phase, returns, skip_bp, bounds>>

(* Steps 31 and 32.  In a damage step by an effect the first BattleCommand
   ends here: the rest waits for the end of the chain. *)
AfterCalculation ==
  \/ /\ At("Battle", 31)
     /\ flip_delayed' = FALSE
     /\ IF effect_damage_step # 0
        THEN /\ Finish(<<>>)
             /\ reserved' = [i \in DOMAIN reserved |->
                               [reserved[i] EXCEPT !.cards_destroyed_by_battle =
                                  Front.cards_destroyed_by_battle]]
        ELSE GoOn(33, <<PointEvent>>) /\ UNCHANGED reserved
     /\ UNCHANGED <<field, battlers, replay, chain_attack, attack_cancelable,
                    forced, effect_damage_step, selfdes_disabled, phase,
                    returns, skip_bp, bounds>>
  \/ /\ At("Battle", 32) /\ GoOn(33, <<PointEvent>>)
     /\ UNCHANGED <<field, battlers, replay, chain_attack, attack_cancelable,
                    forced, nested, step_flags, phase, returns, skip_bp, bounds>>

(* Step 33. *)
SendDestroyed ==
  /\ At("Battle", 33)
  /\ LET des == {m \in Front.cards_destroyed_by_battle :
                   OnField(m) /\ Id(m) \in {pre_field[1], pre_field[2]}}
     IN GoOnAs([Front EXCEPT !.cards_destroyed_by_battle = des], 34,
               IF des = {} THEN <<Adjust>> ELSE <<Destroy(3, des), Adjust>>)
  /\ UNCHANGED <<field, battlers, replay, chain_attack, attack_cancelable,
                 forced, nested, step_flags, phase, returns, skip_bp, bounds>>

(* Step 34, also for an unexpected end of the damage step.  Mutant: such an
   end leaves the flags of the damage step as they are. *)
KeepFlags == step_flags
ClearedFlags == <<FALSE, FALSE>>

DamageStepEnding ==
  /\ At("Battle", 34)
  /\ selfdes_disabled' = ClearedFlags[1] /\ flip_delayed' = ClearedFlags[2]
  /\ field' = ClearStatus(field, Battlers, "BATTLE_DESTROYED")
  /\ GoOnAs([Front EXCEPT !.cards_destroyed_by_battle = {}], 39, <<PointEvent>>)
  /\ UNCHANGED <<battlers, replay, chain_attack, attack_cancelable, forced,
                 nested, phase, returns, skip_bp, bounds>>

(* Step 39. *)
DamageStepOverCommand ==
  /\ At("Battle", 39)
  /\ field' = ClearStatus(field, Battlers, "OPPO_BATTLE")
  /\ phase' = "BATTLE_STEP"
  /\ IF effect_damage_step # 0 THEN Finish(<<Adjust>>)
     ELSE IF Front.forced_attack
     THEN GoOnAs([Front EXCEPT !.forced_attack_done = TRUE], 1, <<Adjust>>)
     ELSE GoOn(0, <<Adjust>>)
  /\ UNCHANGED <<battlers, replay, chain_attack, attack_cancelable, forced,
                 nested, step_flags, returns, skip_bp, bounds>>

(* Steps 40 to 42: effects at the end of the battle step, and the end of
   the phase, after which no monster attacks. *)
BattlePhaseEnds ==
  \/ /\ At("Battle", 40)
     /\ \/ /\ links < setting.max_links /\ links' = links + 1
           /\ GoOn(IF Front.forced_attack THEN 41 ELSE 0, <<SolveChain(1)>>)
        \/ GoOn(41, <<Adjust>>) /\ UNCHANGED links
     /\ UNCHANGED <<field, battlers, replay, chain_attack, attack_cancelable,
                    forced, nested, step_flags, phase, returns, skip_bp,
                    setting, attacks, upset>>
  \/ /\ At("Battle", 41) /\ GoOn(42, <<Adjust>>)
     /\ UNCHANGED <<field, battlers, replay, chain_attack, attack_cancelable,
                    forced, nested, step_flags, phase, returns, skip_bp, bounds>>
  \/ /\ At("Battle", 42)
     /\ attacker' = None /\ attack_target' = None
     /\ Finish(<<>>)
     /\ UNCHANGED <<field, pre_field, replay, chain_attack, attack_cancelable,
                    forced, nested, step_flags, phase, returns, skip_bp, bounds>>

-----------------------------------------------------------------------------
(* The other units. *)

Unfought(f) ==
  [m \in Monsters |->
     IF f[m].on THEN [f[m] EXCEPT !.announce_count = 0, !.attack_announce_count = 0]
                ELSE f[m]]

(* field::process(ForcedBattle): the attack may not be legal. *)
ForcedBattleLegal ==
  LET a == forced.attacker  targets == AttackTargets(a, FALSE, attacker) IN
  /\ ~skip_bp /\ IsCapableAttack(a)
  /\ targets # {} \/ DirectAttackable(a, FALSE, attacker)
  /\ forced.target # None => forced.target \in targets

ForcedBattleStep ==
  \/ /\ At("Forced", 0) /\ ~ForcedBattleLegal
     /\ Finish(IF skip_bp THEN <<Adjust>> ELSE <<>>)
     /\ UNCHANGED <<field, battlers, replay, chain_attack, attack_cancelable,
                    forced, nested, step_flags, phase, returns, skip_bp, bounds>>
  \/ /\ At("Forced", 0) /\ ForcedBattleLegal
     /\ attacker' = forced.attacker /\ attack_target' = forced.target
     /\ field' = Unfought(field)
     /\ attack_cancelable' = TRUE
     /\ chain_attack' = [chain_attack EXCEPT !.id = NoId, !.target = None]
     /\ returns' = 1 /\ phase' = "BATTLE_STEP"
     /\ GoOnAs([Front EXCEPT !.backup_phase = phase], 1,
               <<BattleCommand(1, TRUE, {})>>)
     /\ UNCHANGED <<pre_field, replay, forced, nested, step_flags, skip_bp,
                    bounds>>
  \/ /\ At("Forced", 1)
     /\ phase' = Front.backup_phase
     /\ field' = Unfought(field)
     /\ attacker' = None /\ attack_target' = None
     /\ Finish(<<>>)
     /\ UNCHANGED <<pre_field, replay, chain_attack, attack_cancelable, forced,
                    nested, step_flags, returns, skip_bp, bounds>>

(* field::process(DamageStep), steps 0 and 1: it puts its battlers in the
   place of those of core, and then itself in core.reserved. *)
Swapped(unit) == [unit EXCEPT !.attacker = attacker, !.attack_target = attack_target]

DamageStepBegins ==
  \/ /\ At("Damage", 0) /\ effect_damage_step # 0 /\ ~Front.new_attack
     /\ Finish(<<>>)
     /\ UNCHANGED <<field, battlers, replay, chain_attack, attack_cancelable,
                    forced, nested, step_flags, phase, returns, skip_bp, bounds>>
  \/ /\ At("Damage", 0) /\ (effect_damage_step = 0 \/ Front.new_attack)
     /\ LET a == Front.attacker  t == Front.attack_target
            unit == [Swapped(Front) EXCEPT !.backup_phase = phase]
        IN /\ effect_damage_step' = 1
           /\ attacker' = a /\ attack_target' = t
           /\ upset' = upset \cup (IF attacker # None THEN {"counts"} ELSE {})
                            \cup (IF effect_damage_step # 0 THEN {"waiting"} ELSE {})
           /\ IF ~OnField(a) \/ (t # None /\ ~OnField(t))
              THEN GoOnAs(unit, 3, <<>>) /\ UNCHANGED <<phase, pre_field>>
              ELSE /\ phase' = "DAMAGE"
                   /\ pre_field' = <<Id(a), IdOf(t)>>
                   /\ \E batch \in {<<>>, <<Adjust>>} : GoOnAs(unit, 1, batch)
     /\ UNCHANGED <<field, replay, chain_attack, attack_cancelable, forced,
                    reserved, step_flags, returns, skip_bp, setting, links,
                    attacks>>
  \/ /\ At("Damage", 1)
     /\ phase' = "DAMAGE_CAL"
     /\ reserved' = <<[Front EXCEPT !.step = 2]>>
     /\ Finish(<<BattleCommand(26, FALSE, {})>>)
     /\ UNCHANGED <<field, battlers, replay, chain_attack, attack_cancelable,
                    forced, effect_damage_step, step_flags, returns, skip_bp,
                    bounds>>

(* Steps 2 and 3, at the end of the chain. *)
SwapBack(unit) == <<unit.attacker, unit.attack_target>>

DamageStepResumes ==
  \/ /\ At("Damage", 2)
     /\ effect_damage_step' = 2
     /\ GoOn(3, <<BattleCommand(32, FALSE, Front.cards_destroyed_by_battle)>>)
     /\ UNCHANGED <<field, battlers, replay, chain_attack, attack_cancelable,
                    forced, reserved, step_flags, phase, returns, skip_bp, bounds>>
  \/ /\ At("Damage", 3)
     /\ LET back == SwapBack(Front) IN
          /\ attacker' = back[1] /\ attack_target' = back[2]
          /\ field' = SetStatus(field, {back[1], back[2]} \ {None}, "ATTACK_CANCELED")
     /\ effect_damage_step' = 0 /\ phase' = Front.backup_phase
     /\ Finish(<<>>)
     /\ UNCHANGED <<pre_field, replay, chain_attack, attack_cancelable, forced,
                    reserved, step_flags, returns, skip_bp, bounds>>

(* field::process(AttackDisable); the attacker may be unaffected. *)
AttackDisabled ==
  \/ /\ At("Disable", 0)
     /\ \/ returns' = 0 /\ Finish(<<>>) /\ UNCHANGED field
        \/ /\ attacker # None /\ effect_damage_step = 0
           /\ Id(attacker) = pre_field[1] /\ IsCapableAttack(attacker)
           /\ ~setting.unstoppable
           /\ field' = [SetStatus(field, {attacker}, "ATTACK_CANCELED")
                          EXCEPT ![attacker].disabled = TRUE]
           /\ GoOn(1, <<>>) /\ UNCHANGED returns
     /\ UNCHANGED <<battlers, replay, chain_attack, attack_cancelable, forced,
                    nested, step_flags, phase, skip_bp, bounds>>
  \/ /\ At("Disable", 1)
     /\ returns' = 1 /\ Finish(<<>>)
     /\ UNCHANGED <<field, battlers, replay, chain_attack, attack_cancelable,
                    forced, nested, step_flags, phase, skip_bp, bounds>>

(* Adjust, step 14: an attack that cannot go on is cancelled, and one whose
   targets have changed goes back to the choice of one. *)
AttackBroken ==
  LET a == field[attacker] IN
  IF phase \notin DamagePhases
  THEN \/ ~IsCapableAttack(attacker) \/ a.controler # a.attack_controler
       \/ Id(attacker) # pre_field[1]
  ELSE \/ ~a.on \/ Id(attacker) # pre_field[1] \/ ~a.attack_pos
       \/ a.controler # a.attack_controler
       \/ attack_target # None /\ LET t == field[attack_target] IN
            ~t.on \/ t.controler # t.attack_controler
            \/ Id(attack_target) # pre_field[2]

AttackCancel ==
  /\ At("Adjust", 0)
  /\ Finish(<<>>)
  /\ IF attacker = None \/ (~setting.unstoppable /\ Canceled(attacker))
     THEN UNCHANGED <<field, attack_rollback>>
     ELSE IF AttackBroken
     THEN /\ field' = SetStatus(field, {attacker}, "ATTACK_CANCELED")
          /\ UNCHANGED attack_rollback
     ELSE /\ attack_rollback' =
               (attack_rollback \/ /\ phase \notin DamagePhases
                                   /\ \/ OpponentIds # opp_mzone
                                      \/ ~ConfirmAttackTarget)
          /\ UNCHANGED field
  /\ UNCHANGED <<battlers, opp_mzone, attack_player, chain_attack,
                 attack_cancelable, forced, nested, step_flags, phase, returns,
                 skip_bp, bounds>>

(* Destroy for the losers of a battle: its step 10 drops those that cannot
   be destroyed, or whose destruction is replaced, from the group that it
   shares with the BattleCommand; from its step 3 on they are sent. *)
Gone(f, M) ==
  [m \in Monsters |->
     IF m \in M THEN [f[m] EXCEPT !.on = FALSE, !.moves = @ + 1,
                                  !.announce_count = 0, !.disabled = FALSE,
                                  !.attack_announce_count = 0]
                ELSE f[m]]

DestroyBattled ==
  /\ \/ /\ At("Destroy", 10)
        /\ \E spared \in SUBSET Front.targets :
             /\ field' = ClearStatus(field, spared, "DESTROY_CONFIRMED")
             /\ units' = <<[units[2] EXCEPT !.cards_destroyed_by_battle = @ \ spared]>>
                         \o SubSeq(units, 3, Len(units))
     \/ /\ At("Destroy", 3)
        /\ field' = Gone(field, Front.targets)
        /\ Finish(<<>>)
  /\ UNCHANGED <<battlers, replay, chain_attack, attack_cancelable, forced,
                 nested, step_flags, phase, returns, skip_bp, bounds>>

-----------------------------------------------------------------------------
(* What chains and effects do. *)

(* PointEvent: nothing happens, or a chain of one or two links is built.
   SolveChain and a forced battle that was asked for are emplaced in this
   order. *)
PointEventRun ==
  /\ At("Point", 0)
  /\ LET battle == IF forced.set THEN <<ForcedBattle>> ELSE <<>> IN
     \/ Finish(battle) /\ returns' = 0 /\ UNCHANGED links
     \/ \E n \in 1 .. 2 :
          /\ links + n <= setting.max_links /\ links' = links + n
          /\ Finish(<<SolveChain(n)>> \o battle) /\ UNCHANGED returns
  /\ forced' = [forced EXCEPT !.set = FALSE]
  /\ UNCHANGED <<field, battlers, replay, chain_attack, attack_cancelable,
                 nested, step_flags, phase, skip_bp, setting, attacks, upset>>

(* SolveChain: from link to link (step 10), and at the end (12, 13) what
   core.reserved waits with.  Mutant: the damage step of an effect waits on
   when nothing else does. *)
WaitsOn == effect_damage_step = 2
Waits == effect_damage_step = 1

ChainContinues ==
  \/ /\ At("Chain", 10)
     /\ IF Front.links > 1
        THEN GoOnAs([Front EXCEPT !.links = @ - 1], 0, <<>>)
        ELSE GoOn(12, <<>>)
     /\ UNCHANGED <<field, battlers, replay, chain_attack, attack_cancelable,
                    forced, nested, step_flags, phase, returns, skip_bp, bounds>>
  \/ /\ At("Chain", 12)
     /\ LET resumed == Waits IN
          /\ GoOn(13, IF resumed THEN reserved ELSE <<>>)
          /\ reserved' = IF resumed THEN <<>> ELSE reserved
     /\ UNCHANGED <<field, battlers, replay, chain_attack, attack_cancelable,
                    forced, effect_damage_step, step_flags, phase, returns,
                    skip_bp, bounds>>
  \/ /\ At("Chain", 13)
     /\ returns' = 1 /\ Finish(<<Adjust, PointEvent>>)
     /\ UNCHANGED <<field, battlers, replay, chain_attack, attack_cancelable,
                    forced, nested, step_flags, phase, skip_bp, bounds>>

Resolving(act) == At("Chain", 0) /\ act \in setting.acts
Resolved(batch) == GoOn(10, batch)

NothingHappens ==
  /\ At("Chain", 0) /\ Resolved(<<>>)
  /\ UNCHANGED <<field, battlers, replay, chain_attack, attack_cancelable,
                 forced, nested, step_flags, phase, returns, skip_bp, bounds>>

(* A monster leaves the field: by a link, or in Adjust, which destroys no
   monster by its own effect during the first half of a damage step. *)
MonsterLeaves ==
  /\ \/ Resolving("leave") /\ Resolved(<<>>) /\ UNCHANGED links
     \/ /\ At("Adjust", 0) /\ ~selfdes_disabled /\ "leave" \in setting.acts
        /\ links < setting.max_links /\ links' = links + 1
        /\ GoOn(0, <<>>)
  /\ \E m \in Monsters : OnField(m) /\ field' = Gone(field, {m})
  /\ UNCHANGED <<battlers, replay, chain_attack, attack_cancelable, forced,
                 nested, step_flags, phase, returns, skip_bp, setting,
                 attacks, upset>>

MonsterEnters ==
  /\ Resolving("enter") /\ Resolved(<<>>)
  /\ \E m \in Monsters, p \in 0 .. 1 :
       /\ ~OnField(m)
       /\ field' = [field EXCEPT ![m].on = TRUE, ![m].controler = p,
                                 ![m].moves = @ + 1, ![m].attack_pos = TRUE]
  /\ UNCHANGED <<battlers, replay, chain_attack, attack_cancelable, forced,
                 nested, step_flags, phase, returns, skip_bp, bounds>>

(* GetControl, step 4. *)
ControlChanges ==
  /\ Resolving("control") /\ Resolved(<<>>)
  /\ \E m \in Monsters :
       /\ OnField(m)
       /\ field' = [SetStatus(field, {m}, "ATTACK_CANCELED")
                      EXCEPT ![m].controler = 1 - @, ![m].changes = @ + 1]
  /\ UNCHANGED <<battlers, replay, chain_attack, attack_cancelable, forced,
                 nested, step_flags, phase, returns, skip_bp, bounds>>

(* ChangePos: a monster in defense position does not go on attacking. *)
PositionChanges ==
  /\ Resolving("position") /\ Resolved(<<>>)
  /\ \E m \in Monsters :
       /\ OnField(m)
       /\ LET turned == [field EXCEPT ![m].attack_pos = ~@] IN
            field' = IF field[m].attack_pos
                     THEN SetStatus(turned, {m}, "ATTACK_CANCELED") ELSE turned
  /\ UNCHANGED <<battlers, replay, chain_attack, attack_cancelable, forced,
                 nested, step_flags, phase, returns, skip_bp, bounds>>

(* Duel.NegateAttack, Duel.ForceAttack, Duel.CalculateDamage. *)
NegateAttack ==
  /\ Resolving("negate") /\ Resolved(<<AttackDisable>>)
  /\ UNCHANGED <<field, battlers, replay, chain_attack, attack_cancelable,
                 forced, nested, step_flags, phase, returns, skip_bp, bounds>>

ForceAttack ==
  /\ Resolving("force") /\ Resolved(<<>>)
  /\ \A i \in DOMAIN units : units[i].kind # "Battle"
  /\ \E a \in TurnPlayers, t \in Opponents :
       forced' = [set |-> TRUE, attacker |-> a, target |-> t]
  /\ UNCHANGED <<field, battlers, replay, chain_attack, attack_cancelable,
                 nested, step_flags, phase, returns, skip_bp, bounds>>

CalculateDamage ==
  /\ Resolving("calculate")
  /\ \E a \in TurnPlayers, t \in Opponents \cup {None}, new_attack \in BOOLEAN :
       Resolved(<<DamageStep(a, t, new_attack)>>)
  /\ UNCHANGED <<field, battlers, replay, chain_attack, attack_cancelable,
                 forced, nested, step_flags, phase, returns, skip_bp, bounds>>

(* Duel.ChainAttack *)
ChainAttack ==
  /\ Resolving("chain_attack") /\ Resolved(<<>>)
  /\ attacker # None
  /\ \E t \in Opponents \cup {None} :
       chain_attack' = [set |-> TRUE, id |-> FieldId(attacker),
                        target |-> IF t = None THEN chain_attack.target ELSE t]
  /\ UNCHANGED <<field, battlers, replay, attack_cancelable, forced, nested,
                 step_flags, phase, returns, skip_bp, bounds>>

(* Duel.ChangeAttackTarget, at any time; with ignore set any card will do. *)
Marked == \E m \in Battlers : field[m].status # {} /\ field[m].status # {"ATTACK_CANCELED"}
Exchanged == IF Marked THEN {"marks"} ELSE {}

ChangeAttackTarget ==
  /\ Resolving("change_target") /\ Resolved(<<>>)
  /\ IF attacker = None \/ ~IsCapableAttack(attacker) \/ Canceled(attacker)
     THEN UNCHANGED <<attack_target, replay, upset>>
     ELSE \E ignore \in BOOLEAN :
          \E t \in {None} \cup
               IF ignore THEN {m \in Monsters \ {attacker} : OnField(m)}
                         ELSE AttackTargets(attacker, chain_attack.set, attacker) :
            /\ attack_target' = t
            /\ attack_rollback' = FALSE /\ opp_mzone' = OpponentIds
            /\ attack_player' = (attack_player \/ t = None)
            /\ upset' = upset \cup IF t # attack_target THEN Exchanged ELSE {}
  /\ UNCHANGED <<field, attacker, pre_field, chain_attack, attack_cancelable,
                 forced, nested, step_flags, phase, returns, skip_bp, setting,
                 links, attacks>>

(* Duel.ChangeAttacker, while there is an attacker: in a damage step the
   old one is counted once more and the new one, which fights, is not. *)
ChangeAttacker ==
  /\ Resolving("change_attacker") /\ Resolved(<<>>)
  /\ attacker # None
  /\ \E m \in TurnPlayers, ignore_count \in BOOLEAN :
       IF m = attacker THEN UNCHANGED <<field, attacker, pre_field, upset>>
       ELSE LET left == Count(field, attacker, "announce_count")
                taken == [left EXCEPT ![m].attack_controler = field[m].controler]
            IN /\ attacker' = m
               /\ pre_field' = [pre_field EXCEPT ![1] = Id(m)]
               /\ field' = IF ignore_count THEN taken
                           ELSE Count(taken, m, "attack_announce_count")
               /\ upset' = upset \cup Exchanged
                            \cup IF ignore_count \/ phase \in DamagePhases
                                 THEN {"counts"} ELSE {}
  /\ UNCHANGED <<attack_target, replay, chain_attack, attack_cancelable,
                 forced, nested, step_flags, phase, returns, skip_bp, setting,
                 links, attacks>>

BattlePhaseSkipped ==
  /\ Resolving("skip") /\ Resolved(<<>>)
  /\ skip_bp' = TRUE
  /\ UNCHANGED <<field, battlers, replay, chain_attack, attack_cancelable,
                 forced, nested, step_flags, phase, returns, bounds>>

-----------------------------------------------------------------------------
AttackStep ==
  \/ BattleChoices \/ AttackChosen \/ PhaseLeft \/ CostPaid \/ SelectAttackTarget
  \/ AttackAnnounced \/ AttackDeclared \/ AttackResponses \/ AttackGoesOn
  \/ ReplayAnswered \/ AttackStopped
DamageStepStep ==
  \/ DamageStepStarts \/ BeforeCalculation \/ DamageCalculation \/ BattleResult
  \/ DamageDealt \/ BattleDestroys \/ DestructionSettled \/ AfterCalculation
  \/ SendDestroyed \/ DamageStepEnding \/ DamageStepOverCommand
OtherStep ==
  \/ BattlePhaseEnds \/ ForcedBattleStep \/ DamageStepBegins \/ DamageStepResumes
  \/ AttackDisabled \/ AttackCancel \/ DestroyBattled \/ PointEventRun
  \/ ChainContinues
LinkResolves ==
  \/ NothingHappens \/ MonsterLeaves \/ MonsterEnters \/ ControlChanges
  \/ PositionChanges \/ NegateAttack \/ ForceAttack \/ CalculateDamage
  \/ ChainAttack \/ ChangeAttackTarget \/ ChangeAttacker \/ BattlePhaseSkipped
PhaseOver == units = <<>> /\ UNCHANGED vars

Next == AttackStep \/ DamageStepStep \/ OtherStep \/ LinkResolves \/ PhaseOver

(* process() goes on for as long as there are units, and players answer. *)
Spec == Init /\ [][Next]_vars
FairSpec == Spec /\ WF_vars(Next)

-----------------------------------------------------------------------------
(* Properties. *)

Units ==
  [kind : {"Battle"}, step : 0 .. 42, forced_attack : BOOLEAN,
   forced_attack_done : BOOLEAN, is_replaying_attack : BOOLEAN,
   attack_announce_failed : BOOLEAN, had_trigger : BOOLEAN,
   cards_destroyed_by_battle : SUBSET Monsters]
  \cup [kind : {"Damage"}, step : 0 .. 3, attacker : Monsters \cup {None},
        attack_target : Monsters \cup {None}, backup_phase : Phases,
        new_attack : BOOLEAN, cards_destroyed_by_battle : SUBSET Monsters]
  \cup [kind : {"Forced"}, step : 0 .. 1, backup_phase : Phases]
  \cup [kind : {"Disable", "Adjust", "Point"}, step : 0 .. 1]
  \cup [kind : {"Destroy"}, step : {3, 10}, targets : SUBSET Monsters]
  \cup [kind : {"Chain"}, step : {0, 10, 12, 13}, links : 1 .. 2]

(* Where a BattleCommand reads the members of core.attacker there is one,
   and where it reads those of core.attack_target because the attacker lost
   the battle there is one too, unless an effect has exchanged a battler
   that was marked already (type invariant). *)
TypeOK ==
  /\ \A i \in DOMAIN units : units[i] \in Units
  /\ \A m \in Monsters :
       /\ field[m].controler \in 0 .. 1 /\ field[m].status \subseteq Statuses
       /\ {field[m].announce_count, field[m].attack_announce_count,
           field[m].moves, field[m].changes} \subseteq Nat
  /\ {attacker, attack_target} \subseteq Monsters \cup {None}
  /\ pre_field \in Ids \X Ids
  /\ effect_damage_step \in 0 .. 2 /\ phase \in Phases
  /\ units # <<>> /\ Front.kind = "Battle" /\ Front.step \in 3 .. 39 =>
       attacker # None
  /\ \/ At("Battle", 28) /\ Has(attacker, "BATTLE_RESULT")
     \/ At("Battle", 34) /\ Has(attacker, "BATTLE_DESTROYED")
     => attack_target # None \/ "marks" \in upset
  /\ upset \subseteq Upset

(* However an attack ends - by a battle, a failed or cancelled
   announcement, a replay that is declined or has no target, an attack that
   is negated or moved to another monster - it counts exactly once against
   the attacks that the monster has in the turn. *)
AttackCounted ==
  At("Battle", 0) /\ "counts" \notin upset =>
    \A m \in TurnPlayers :
      field[m].announce_count = field[m].attack_announce_count

(* Nothing is left of a damage step when it is over, however it ended: not
   the flags that delay flips and destruction by own effects, nor a
   reserved unit, nor - if no effect has exchanged a battler that was
   marked, or put another damage step in the place of one that waited - the
   phase or a status of a monster. *)
DamageStepOver ==
  At("Battle", 0) \/ At("Battle", 1) \/ units = <<>> =>
    /\ ~selfdes_disabled /\ ~flip_delayed
    /\ effect_damage_step = 0 /\ reserved = <<>>
    /\ phase \notin DamagePhases \/ "waiting" \in upset
    /\ \/ \A m \in Monsters : field[m].status \subseteq {"ATTACK_CANCELED"}
       \/ upset \cap {"marks", "waiting"} # {}

(* A damage step comes to an end, the one of an effect too, which waits for
   the end of the chain, unless another one took its place there. *)
DamageStepEnds ==
  /\ effect_damage_step # 0 ~> effect_damage_step = 0
  /\ phase \in DamagePhases ~> phase \notin DamagePhases \/ "waiting" \in upset

=============================================================================
