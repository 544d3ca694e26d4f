# A verification of the duel engine

ygopro-core is the engine of a card game: it keeps a duel's cards, runs the rules one small step at a time, calls the
Lua functions of the cards' effects, and stops whenever a player has to choose. This directory holds TLA+ models of it,
the TLC runs that check them, and proofs checked by TLAPS. File and line numbers refer to the sources beside it.

## The system

| Component | State | Operations | Interacts with |
|---|---|---|---|
| Processor scheduler (`processor_visit.cpp`, `processor_unit.h`, `ocgapi.cpp`) | `core.units`, `core.subunits`, a 16 bit step per unit, `returns` | `field::process`, `OCG_DuelProcess`, `OCG_DuelSetResponse` | every handler emplaces units in `subunits`; the host calls and answers |
| Effect function calls (`interpreter.cpp`, `ExecuteCost/Operation/Target`) | `solving_event`, `sub_solving_event`, `check_level`, shuffle flags, `coroutines`, `call_depth`, `assumes` | `call_coroutine`, `call_function` | a Lua function yields when it needs units to run first |
| Field placement (`field.cpp`) | `player[]` lists and zones, `used_location`, `extra_p_count`, `card::current` | `add_card`, `remove_card`, `move_card`, `swap_card`, `shuffle`, `reverse_deck`, `swap_deck_and_grave`, `tag_swap` | used by every operation on cards |
| Chains (`processor.cpp`) | the `new_*chain*` lists, `new_chains`, `current_chain`, `real_chain_count`, priorities | `raise_event`, `PointEvent`, `QuickEffect`, `AddChain`, `SolveChain`, `break_effect` | events of all operations; the Execute units |
| Continuous effects | `solving_continuous`, `delayed_continuous_*` | `SolveContinuous` | runs between the steps of everything else |
| Turn and phases | `infos.phase`, `turn_player`, turn counters, skip flags | `Turn`, `PhaseEvent`, `IdleCommand`, `BattleCommand` | chains, draws, effect resets |
| Battle | attacker, target, damage | `BattleCommand`, `DamageStep`, `calculate_battle_damage`, `AttackDisable` | chains, destroy |
| Adjust | `re_adjust`, disabled zones, self destruction | `Adjust`, `RefreshLoc` | run after every link and every step |
| Moving cards | reason fields, replacement lists | `SendTo`, `Destroy`, `Release`, `Draw`, `Damage`, `DiscardDeck` | field placement, events |
| Summons and sets | material, `reserved`, `summon_depth`, summon counters | `SummonRule`, `SpSummonRule`, `SpSummonStep`, `FlipSummon`, `MonsterSet`, `SpellSet` | chains, field placement |
| Player choices (`playerop.cpp`) | `returns`, `return_cards`, select lists | `Select*`, `Announce*`, `Sort*`, rock-paper-scissors | every unit that asks |
| Effects and resets (`effect.cpp`, `field.cpp`, `card.cpp`) | effect containers, count limits, labels, counters, overlays, equips | `add_effect`, `remove_effect`, `reset_*`, `check_count_limit`, `dec_count` | everything that filters effects |
| Lua bindings, groups, random numbers, messages | registry references, groups, the generator, the buffer | `lib*.cpp`, `duel.cpp` | scripts and host |

There is one thread. What makes the engine hard is its own kind of concurrency: a unit that emplaces others is
suspended at a step and goes on when they are done, and what it read before may have changed; a Lua function is
suspended in the middle and may be called again meanwhile; several lists (`units`, `solving_event`, `current_chain`,
`continuous_chain`, `coroutines`) are stacks that must be pushed and popped in step; the host may answer anything. A
duel has no files, so there is no recovery, and messages to the host are delivered in order. For each component, the
properties that make it correct are the ones below for what is modelled; `PROJECT.json` lists the hazards at their
lines, with the property that covers each or the reason why none does yet.

## The modules

### Processor

`Processor` models `field::process()` and the loop of `OCG_DuelProcess`. `units` and `subunits` are the two lists of the
code, written bottom first so that a unit keeps its index while it lives: `front()` is the last element here. Units are
of four kinds. *Native* is any handler that neither waits nor touches the state of this module except by emplacing
units; *Select* is a unit of `playerop.cpp`, taken from `SelectEffectYesNo`; *Execute* stands for ExecuteCost,
ExecuteOperation and ExecuteTarget, the three handlers being alike; *Replace* is OperationReplace, the one other handler
that pushes `solving_event` itself. `ProcessNative`, `SelectRequest`, `ExecuteYield` and so on are one execution of the
handler each, with what `field::process()` does after it (pop, or `++step`, which wraps at `StepModulus`). An effect
function may return, yield after having emplaced units, or be called again while it is suspended, in which case
`call_coroutine` gives up the outer coroutine (`ExecuteRecursive`). Two assumptions are about what is outside of it. The
host answers a request, with a valid or an invalid answer, as often as it likes, before it calls `OCG_DuelProcess` again,
as `src/README.md:88` tells it; the engine would judge the last answer once more. And a function is suspended fewer than
`StepModulus` times (`MaxYields < StepModulus`), so that the wrapped step never takes a suspended function for a new one.

Properties: `EventsInStep` (each effect function finds its own event), `CountsKept` (`check_level` and `call_depth` count
the functions in progress), `ThreadOwner` (coroutines), `ShuffleScope` (deferred shuffles are made, and
`DisableShuffleCheck` does not leak), `FreshAnswer` (a request takes an answer given after it).

### Field and Placement

`Field` models where the cards are: `player[p].list` and `zone`, `used_location`, `extra_p_count`, and `current` of every
card. `add_card`, `remove_card`, `move_card` and `swap_card` are operators on a field, the pair of the two variables, as
the functions of the code are called one after the other in a handler; each action is a whole way of moving cards:
`Draw`, `DiscardDeck`, `SendTo`, `MoveToField`, `MoveSequence`, `Exchange` (SwapControl), `RemoveFromField`, `shuffle`,
`reverse_deck`, `swap_deck_and_grave`. Properties: `Located` (a card is in the one list that `card::current` names, at
that sequence, which every erasure relies on; `used_location` are the zones with a card; `extra_p_count` is the number of
face-up Pendulum cards in the extra deck, and they are its last cards), and `Placed`: `Field` implements `Placement`, the
abstract specification in which each card has one place, no zone takes two cards, and a card that finds its zone taken
goes where the rules send it. The order of the extra deck has one exception: `Duel.MoveSequence` puts any card of it on
top (field.cpp:376-381), a face-down one above the face-up ones as well. The history `reordered` of a player notes that,
and `Located` says nothing of the order from then on; the count it still claims.

### Chain

`Chain` models how a chain is built and resolved. `IdleCommand` is the unit the rest runs for: the turn player activates
an effect, does something that raises an event, or announces the end of the phase. `Raise` stands for `raise_event` or
`raise_single_event` with `process_instant_event`: any triggers of the two players, mandatory or optional, delayed or
not, from the hand or not, and mandatory quick effects. `PointEvent` goes through them in its order (`PointEventForced`,
`PointEventOptional`, `PointEventNextPlayer`), `QuickEffect` passes priority, `AddChain` puts a link on the chain and
`SolveChain` takes them off.
A player's choice is made in the action that asks. Costs, targets, operations and continuous effects appear as what they
leave here: `Raise`, `Negate`, and `ControlMoves` (a waiting trigger's monster changes hands). Which effects may be
activated is up to Lua conditions, hence arbitrary. `ActivateEffect` is the chain that `Duel.Activate` starts, by a
continuous effect of Adjust and only where there is no chain: its SolveChain goes on until no link is left (processor.cpp,
step 10), so that during a chain it would resolve the outer links as well, and the outer SolveChain would find none.
`ignition_priority_chains` is what the turn player may activate before the opponent answers (old rules); the code swaps it
into the next QuickEffect without looking at it again, so that after a mandatory quick effect it is offered as a second
link, to the player who answers (`TriggerOrder` allows that). Not modelled: steps 30 to 33 of PointEvent, operations
replaced by `Duel.ChangeChainOperation`, and the counters of special summons.

Properties: `TriggersOffered` (a trigger is activated once, and misses its timing only when something else happened last),
`TriggerOrder` (mandatory triggers first, the turn player's before the opponent's), `PriorityPassed` (a chain is resolved
when both players have passed and no mandatory effect waits), `ChainResolved`, and `ProcessReturns` with its weaker form
`ReturnsUndisturbed`, for when no monster changes hands and no activation is given up; each is explained where it is
stated. Where an activation may be given up there is no end to be had: AddChain returns TRUE without taking the link from
`new_chains` (processor.cpp:3674), so that PointEvent and QuickEffect go on for ever. `TypeOK` relates `real_chain_count` to the chain: scripts read both while costs and targets run.

### Turn

`Turn` models the course of a turn: `units` holds the units Turn, PhaseEvent, IdleCommand, BattleCommand, ForcedBattle
and RefreshRelay with their steps and members, front first, and each action is one execution of a handler. They share
`infos.phase` and hand each other their answers through `core.returns`. Three more kinds of units stand for what runs
between them. *Ask* is a request, whose answer replaces the whole buffer; *Effects* is any unit that does something for
the cards (`adjust_all`, AddChain, QuickEffect, a summon), and *Point* is PointEvent, which also starts a forced battle.
Both leave junk in `returns`, so that a handler which reads an answer too late is found out, and both may force an attack
or make players lose in a relay duel (`RelayCheck`, which ends the turn). `is_player_affected_by_effect` depends on
scripts and is an arbitrary choice whenever it is asked. The attack itself, steps 3 to 38 of BattleCommand with
DamageStep, is cut down to its outcomes here: it fails, or it goes through a damage step; `Battle` has it in full. `lists` says whose main deck, hand
and extra deck a player has in play and whose wait in the `extra_lists`, `tag_index` and `exchanges` the two ways in which
tag and relay duels go through them. `resets`, `interrupted`, `recent` and the `passers` of a phase are histories.

Properties: `ReturnsFresh`, `ResetsOnce`, `PhasesKept` (`infos.phase` is the phase whose unit runs, and a phase ends
when both players have passed in it), `DuelistOrder`, `TurnEnds`, and
`SecondBattlePhase`, which the code violates.

### Battle

`Battle` models one battle phase, or battles by effects in a main phase, in detail: BattleCommand with the units that run
inside an attack. PointEvent is cut down to whether it builds a chain, SolveChain to one act for each link, Adjust to the
"attack cancel" at its end, Destroy to steps 3 and 10, where the battle statuses are set. An act is what an effect may do
to a battle, in its damage step too: a monster leaves, comes, changes control or position; `NegateAttack`, `ChainAttack`,
`ChangeAttackTarget`, `ChangeAttacker`, `ForceAttack`, `CalculateDamage` as a new attack or as the same one; or the battle
phase is skipped. `pre_field` and `opp_mzone` record
monsters by their `fieldid_r` as the code does, which is here the monster with the number of its moves. What
`calculate_battle_damage` computes is an arbitrary choice of the battle's losers.

Properties: `AttackCounted` (an attack counts once, however it ends), `DamageStepOver` (nothing of a damage step is
left), `DamageStepEnds` (it comes to its end, the one of an effect too, which waits in `core.reserved` for the end of the
chain). What the code lets differ on purpose or by its order of steps is left out by the history `upset`:

- `"counts"`, for `AttackCounted`: `DUEL_STORE_ATTACK_REPLAYS`; `ChangeAttacker` told to ignore the count or used in a
  damage step (libduel.cpp:1447-1469); a damage step by an effect during an attack, which overwrites the recorded
  `fieldid_r` so that the interrupted attack is not counted at step 13.
- `"marks"`, for the statuses in `DamageStepOver` and the battlers in `TypeOK`: `ChangeAttacker` and `ChangeAttackTarget`
  exchange a battler that the damage step has marked already. The old one keeps its marks; and where the target is taken
  away after it has beaten the attacker, steps 28 and 34 read through a null pointer (processor.cpp:2520, 2666).
- `"waiting"`, for the phase in `DamageStepOver` and `DamageStepEnds`: `CalculateDamage` as a new attack, in the damage
  step of an effect, takes the place of the one that waits in `core.reserved` (processor.cpp:2911), which would have put
  the phase back.

Preconditions: a forced battle starts only when no other battle runs (ForcedBattle clears `core.attacker` when it ends,
processor.cpp:2853, which would leave an outer battle without it), and `ChangeAttacker` is called only while there is an
attacker, which it reads without looking (libduel.cpp:1455).

### Moves

`Moves` models how cards leave the field and are attached: `Destroy`, `Release` and `SendTo` with the units that let
effects replace them (`DestroyReplace`, `ReleaseReplace`, `SendToReplace`, `OperationReplace`), `MoveToField`,
`ChangePos`, `GetControl`, `Equip`, `XyzOverlay`, `RemoveOverlay` and the destruction by battle. The targets of a unit are
one group object, shared with the units that take cards out of it: here those change the unit below them. A place where
effects may act (`Effect`) is an Execute unit, a continuous effect or, in the settings that are `interrupted`, a raised
event; there any other unit may be started on any cards. `MoveToField` puts a card into a monster, spell or field zone, face-up
or face-down. A field spell sends the one that is there to the grave or, under `DUEL_1_FACEUP_FIELD`, destroys it, and if that
one stays, `move_card` refuses. A trap monster that is turned down goes to the spell zone, or to the grave if there is no
room. A reason is the kind with the number of the act that caused
it, so that the reasons of two acts differ.

Properties: `ConfirmedDestroyed`, which is `StatusTakenOff` (`STATUS_DESTROY_CONFIRMED` is taken off again on every way out)
and `OneDestroyer` (no two Destroys have the same card); `Attached`, which is `EquipsOnMonsters` and
`MaterialsUnderMonsters` (in the end equips are in the spell zone and on face-up monsters, materials under monsters);
`ReasonKept` (the reason that is put back when an effect replaces something is the right one). What they leave out:

- A card that is moved by an inner unit while Destroy waits keeps the status (operations.cpp:3949-3954), and `destroy()`
  ignores it from then on (258). The history `left` collects these cards. Equip attaches at step 1 (1720) without looking
  at the cards again; XyzOverlay (970) attaches to a monster that has left; and a monster that MoveToField puts face-down
  into a monster zone (`GetControl` of one that is face-down, or a script) keeps its equips, which are given up only for
  other places (5087). The history `loose` collects what is attached then.
- `OneDestroyer` is stated where nothing is replaced: a card whose destruction was replaced is in `destroy_canceled`, and
  `destroy()` takes the cards in it again (258), once for every act inside of the Destroy that spared it. The losers of a
  battle are exempt: step 30 takes the status off them (processor.cpp:2574) before step 33 destroys them.
- A card destroyed as a substitute is not looked at for another Destroy that holds it (`substitutes`).
- `temp` is one slot: a second unit on the same card overwrites what the first one saved, so `ReasonKept` is only stated
  when effects act once. For the same reason materials may lose the `REASON_RULE` that protects their way to the grave, when two
  units overwrite it one inside the other: `MaterialsUnderMonsters` is stated where nothing is replaced or effects act
  at most twice.

### Summons

`Summons` models `SummonRule`, `FlipSummon`, `MonsterSet`, `SpellSet`, `SpellSetGroup`, `SpSummonRule` for one card and for
a group, `SpSummonStep` and `SpSummon`, one action for each step, for one player. The summons of effects that start while
a chain is resolved wait in `core.reserved`. A chain is a number of links each of which may act. Properties: `SummonLimit`
(no more Normal Summons than allowed, though they are checked at the first step and counted at a late one), `Settled` (at
the end no depth, no waiting unit, no half-summoned card is left and the counts are right), `Succeeded` (success is told
only of monsters that are there and whose last summon was not negated). What they leave out:

- A second deferred summon overwrites the first one in `core.reserved` (libduel.cpp:243): the first one is forgotten.
- `MonsterSet` does not take part in `summon_depth`, so a summon inside of its costs can exceed the limit
  (`SummonLimit` is not stated for those settings).
- `Succeeded` is stated of the duels where effects act in chains only. The units look at the monster when its window of
  negation is over, and not again: effects between the later steps may take it away, and its success is told all the same
  (operations.cpp:2320-2339). MoveToField without room leaves the card where it is, and SummonRule goes on.
- `core.special_summoning` and `core.set_group_*` are shared by nested effects: a second user starts only when the first
  one is through.

### Answers

`Answers` models one call: the test a script makes before it, the units that ask, answers of the host, good and bad, and
what the caller makes of them. The answers are the positions of `parse_response_cards`, in range or not, named twice or
not; when one is refused, what was parsed of it is cleared from `return_cards` (playerop.cpp:319-323), and the unit asks
again. SelectTribute and SelectRelease ask again and again, one card at a time. Cards of the opponent that an effect lets
be released must be among the tributes: once there are only as many places left, `Offered` is nothing but these
(operations.cpp:5957). The cards that a script has selected before (`core.must_select_cards`) are `request.selected` in
`check_release_list`. The sum checks are the recursions of the code. Properties: `Legal` (what comes of a
call is within the rules, stated independently of the code: for instance that there is a way to count each card as one of
its values such that the sum is met, and that there is none when the code says so) and `Answerable` (what is asked can be
answered, and from every state of a dialogue over single cards there is a way to its end).

Preconditions, each because the code does not hold without it:

- counters and zones: no more than there are. SelectCounter clips the amount only for the message (playerop.cpp:735) and
  judges by the full one, so that no answer is right; `Duel.SelectDisableField` clips the number when it asks
  (libduel.cpp:3233), but its continuation reads the original one (3240). A negative amount of counters is accepted, hence
  "not fewer" in `LegalCounters`.
- sums: at least 1, and every card counts at least 1. With "at least this sum" the answer is judged more laxly than the
  test before it, as the comment of `LegalSum` says.
- releases: the dialogue lets the player give up though the selection is not cancelable (operations.cpp:5793); the extra
  release effect is used up when the cards that have to be released are enough (5732). Both are spelled out in
  `LegalReleases`. `check_release_list` is modelled with `toplayer = playerid`.

### Effects

`Effects` models what is registered, and what follows from it. An effect has one handler, or none if it was registered by
`Duel.RegisterEffect`; it is single (on its handler), of the field, or quick (to be activated). `duel` holds the cards
(place, `STATUS_EFFECT_ENABLED`, `STATUS_DISABLED`, `STATUS_SUMMONING`, controler) and the registries: `held` is
`card::indexer`, `indexer` and `containers` are those of the field, and `pheff`, `cheff`, `rechargeable`, `oath`,
`reseted` have the names of the code. `AddEffect`, `RemoveEffects`, `Reset`, `EnableFieldEffect`, `MoveCard` and so on are
operators from one value of `duel` to the next, because a handler calls several of them in a row; each action is the
part of a handler that concerns effects: `Register`, `Summon` with its success or negation, `SetCard`, `Flip`, `TurnDown`,
`Send`, `GetControl`, the steps of a link, the end of a chain, of a phase and of a turn, `Adjust`.

`disable_check_set` is a `card_set`, ordered by cardid. `AdjustDisableCheckList` folds over the cards in that order, and a
card that is inserted while a later one is looked at is not looked at again, but cleared. The comments at field.cpp:2106
and card.cpp:2521 still speak of a list. `card::add_effect` puts the handler of a new field effect into the set, and not the
cards it affects (those of `Duel.RegisterEffect` it does). Both are made good by the next Adjust, which checks the whole
field: hence `NegatedInTime` (at any time the status of a card is exact or the card is in the set), which leaves out the cards
these two concern, and `NegationSettles` (everything is exact for good once only phases go by), which leaves out none.
`ActivationsKept` is about activations that are negated: no oath of theirs is left, no use of a shared count, and those of
the other links are untouched. An effect that is twice on one chain shares its oaths with itself, since `effects.oath` maps
them to the effect: the history `alone` tells these links. `TypeOK` relates the registries to each other.

Fixed by a setting: which effects there are, whom they affect (their target functions do not change their mind), and what
happens at all. No card negates itself by way of others (`Acyclic`).

## The runs

| Run | Instance | Shows |
|---|---|---|
| `processor` | 2 functions, 2 events (symmetric), 4 units, 2 suspensions | the five invariants and `FreshAnswer` |
| `field` | one main deck, one Pendulum and one extra deck card; 3 monster and 2 spell zones | `TypeOK`, `Located` and the refinement of `Placement` |
| `field_swap` | the same with pseudo-shuffled decks | the stale sequences of `swap_deck_and_grave` (finding) |
| `chain` | duels with 2 triggers or activations of every kind and all the arguments PointEvent is called with, and with 3 triggers; modern and old rules; control changes, activations given up, ignition priority and `Duel.Activate`; fairness | the invariants of `Chain`, `ChainResolved`, and that PointEvent returns when it is not disturbed |
| `chain_control` | mandatory triggers, control changes | PointEvent goes on for ever (finding) |
| `turn` | a team of three duelists against one; a tag duel, a relay duel, and a relay duel with forced battles and no second main phase; fairness | the invariants of `Turn` and `TurnEnds` |
| `turn_second` | the tag duel alone | a second battle phase is lost when the one of the turn before was skipped (finding) |
| `battle` | two monsters against one and another in reserve; eleven battle phases, each with a few of the acts and options; fairness | `AttackCounted`, `DamageStepOver`, `DamageStepEnds` |
| `moves` | a trap monster with an equip and a material, a token and a field spell; nine settings, three of them about zones | the invariants of `Moves` |
| `summons` | seven cards, one of each kind that is summoned or set in its own way; six settings | the invariants of `Summons` |
| `effects` | three cards and six effects; three duels: negation along the order of the cards and against it, and three activations with oaths and shared counts; fairness | the invariants of `Effects` and `NegationSettles` |
| `answers` | 35 096 calls: every assortment of up to four cards for tributes and releases, up to three for sums, and the others | `Legal`, `Answerable` |

The bounds. Four units are an effect function inside another one with a unit in between and an answer on top, and two
functions the least with which one is nested in the other or in itself. Two suspensions are a first and a later
resumption. One card of each kind that the moves tell apart, and three places in a list, suffice for an erasure to hit
the wrong card; Fusion spells, which start in the extra deck, are in the proofs only. Two triggers
or activations are enough for a link that answers a link, a trigger raised while the chain is built or resolved, and a trigger that waits for another; three for two triggers of one event and an answer between
them. Three duelists are the least for which
it matters in which order they come, and one the number that exchanges nobody. One act in a turn is enough to interrupt a
phase anywhere, to act after a player has passed, to attack, or to force an attack, and two for both players of a relay
duel to lose at different times or for an answer to another effect. Two attacks are needed for a second one of the same
monster, or one after a failed one; two links (`max_links`) for an act in answer to another act of the same attack, three
where a battle has to be forced first. Two acts in `Moves` are an outer unit and one on the same cards inside of it, or a
destruction inside another one, with nothing replaced (`OneDestroyer`) and with replacements; three are a field spell
that is placed, placed again upon itself, and an act in between; with a second field spell the properties hold as well. Three cards and six effects are a negation of a negation in either order, and three links two effects under one code and one of them
twice, a third with the same code and another flag; the four acts of a duel (`max_acts`) are two of the registrations, moves or flips, an answer and a phase's effect.
Two to six acts (`max_acts`) in `Summons` are a summon and one inside of it; a summon, an answer to it and one to that; or a
summon whose monster is taken away, brought back and negated in the same window; three monster zones are one more than are taken at first, so that the field can be full. Four cards (`MaxCards`)
are one of each class that tributes tell apart, or one more than the most that are asked for. The bounds are `MaxUnits`,
`MaxYields`, `MaxLinks`, `MaxPerEvent`, `max_acts` of a duel, `max_links` and `max_attacks` of a battle phase, `links`
(also of `Effects`), `MaxCards`, and `AmountBound`, the largest amount of counters that an answer names; nothing else is cut off.

`CHECK_DEADLOCK` is off in `answers` only, where a call comes to its end.

Fairness. `FairSpec` has `WF_vars(Next)`, and no fairness on single actions: the loop of `OCG_DuelProcess`
(ocgapi.cpp:111) executes the next step as long as nothing waits for an answer, and a host goes on with the duel. Which
way a step goes, what a player chooses, is never assumed. That a turn ends (`TurnEnds`), and a damage step
(`DamageStepEnds`), rests on the bound of the acts as well: players and effects could do something more for ever, but they
have only so many cards, and whatever they have done the units themselves must not go round in circles. `Effects` has
`WF_phase(PhaseEnds)` instead: its steps may stutter with Adjust for ever, but a player who does nothing else has to end
the phase.

## The proofs

`ProcessorProofs` proves everything that the run checks of `Processor`, for any number of functions, events, units and
suspensions. `TypeOK`, `EventsInStep`, `CountsKept` and `ThreadOwner` are proved together, as the parts of `IInv`, since none is inductive alone: that a function pops its own event needs that it counted once, that a
thread ends once needs its owner, and so on. `IInv` adds what they have in common: units that wait in `subunits` have not
begun (`Waiting`), a unit in progress has a function (`HaveFunctions`), and the set of threads is finite. The first part
of the module states what pushing and popping does to the sets and counts of the invariants (`OfAppend`, `InStepAppend`,
`InStepTop`, ...); the second proves one lemma per way of moving the stack (`MoveKeeps`, `MovePops`, `MoveStays`, ...);
then there is one lemma per action. `ShuffleScope` and the action property `FreshAnswer` follow from `IInv` with two more
facts: the outermost function in progress found the shuffle check enabled, so that what it restores is right
(`Outermost`), and a unit that has asked stays at the top of the stack, with the host locked out until it answers
(`Awaited`). The only assumption is `ConstantsAssumption` of `Processor`.

`FieldProofs` proves, for any finite set of cards, any zone counts and any list sizes, that the lists, sequences and
occupancy flags of `Field` agree (`LocatedCorrect`: `Located`; `FieldTypeCorrect`: `TypeOK`) and that `Field` implements
`Placement` (`PlacedCorrect`: `Placed`). The inductive invariant is `Good`, a conjunction over a state record `Now` so that
it can be stated of the intermediate states of an operation that takes several steps:

- `Members`: a list holds, once each, exactly the cards whose `current` names it; `Indexed`: in the order of their
  sequences; `Occupied`: a zone holds the card that says so; `InUse`: `used_location` are the filled zones;
- `Somewhere`: a card that is anywhere has a player and, on the field, an existing zone, so that a removal finds it;
- `Shared`: the two views of an extra monster zone are never both in use, which neither player's flags show;
- `FaceupEnd`: `extra_p_count` is the number of face-up Pendulum cards in the extra deck, and they are its last ones unless
  it was `reordered`, where an insertion that counts from the end comes between them;
- `Admitted`: extra deck monsters are in no hand or deck, and only Fusion spells and Pendulum cards join them in the extra
  deck, which keeps a move from being redirected halfway. It needs of `ConstantsAssumption` that a card that is both a
  Fusion card and a Pendulum card is an extra deck monster, as only monsters are Pendulum cards.

One lemma per list primitive (insertion, removal, shuffling, exchange of two entries) states what it does to a list and
what the renumbering that follows restores; one per operation (`add_card`, `remove_card`, `move_card`, `swap_card`, ...)
composes them. For the refinement each operation is then shown to move one card, exchange two, turn a deck over or
disturb nothing (`Moved`, `Exchanged`, `TurnedOver`, `Undisturbed`), and each of these to be a step of `Placement` or a
stutter. The theorems assume `~AnySwap` besides `ConstantsAssumption`: with `AnySwap` the model contains the calls of
`swap_deck_and_grave` that the run `field_swap` refutes, so that for them the theorems are false.

`ChainProofs` proves, for any settings, any number of effects and either turn player, the three invariants of `Chain` and its
action property (`ChainTypeCorrect`, `TriggersOfferedCorrect`, `TriggerOrderCorrect`, `PriorityPassedCorrect`); the only assumption
is `ConstantsAssumption`. The invariants speak of lists that a dozen steps move, swap and clear, and are inductive only
with what the stack of units says of them. The inductive invariant is `ChainInvariant`:

- `Control` is about the stack. One unit works on the chain (`Shape` finds it under the QuickEffect, AddChain and Adjust units
  it has put on top); all units below rest between two of their steps. What that unit is and its step say which lists
  can hold anything (`ListsEmpty`), whether there is a chain (`ChainEmpty`, `ChainThere`), what is about to be put on it
  (`NewChains`) and who has passed (`Passes`: a player whose priority is noted passed since the last link, and when PointEvent
  or IdleCommand comes back from QuickEffect with a chain, both have). `PriorityPassed` is read off it;
- `Identities`: the six lists and the chosen links are apart but for the triggers of the hand and the deck, which
  `new_ochain_h` keeps a copy of until they are chosen or the PointEvent is over; a copy whose trigger was chosen is
  marked as chaining, which is what stops it from being offered again (`Apart`). With it goes `MissedTiming`;
- `Spent`, `RealFront`: every link that began to resolve used up an identity that is not in use any more, and
  `real_chain_count` lags by one exactly while AddChain is at step 8. They give the bounds of `TypeOK`;
- `Ordered(Chosen)` and `Asked`: the order is proved of what has been chosen, before it is on the chain. While PointEvent
  asks for mandatory triggers only such were chosen, while it asks the turn player for optional ones none of the
  opponent's was, and while an ignition effect may still be activated only quick effects were.

`TurnProofs` proves, for teams of any size, any bound on the acts and any combination of duels, the five invariants of
`Turn` (`TurnTypeCorrect`, `ReturnsFreshCorrect`, `PhasesKeptCorrect`, `DuelistOrderCorrect`, `ResetsOnceCorrect`). The
inductive invariant is `Types /\ Stack /\ Order /\ Resets`:

- `Stack` says which stacks of units there are. `Fits` says which unit can be right above which: one that expects an answer
  (`Expects`) has the unit that gives it right above (`Serves`), so that nothing else can overwrite `core.returns` in
  between. `Resumable` says in which phase a unit below is resumed, the one that the nearest forced battle above has saved;
  `Sane` says what a unit remembers (who has passed, the answer it will give). A forced battle nests in units of any kind,
  so the stack has no bounded height, and the lemmas are about putting a unit on a sound stack (`Push`) and taking it off
  (`Pop`), with one lemma for each kind of unit in front;
- `Order` says where the waiting duelists are: in a tag duel the duelist who will come in `d` turns is at `Seat(k, w, d)` of the
  lists, counted round from `tag_index`, and `recent` are the last ones backwards; in a relay duel those who have not come
  in are in line behind `exchanges`. Three exchanged lists that hold permutations stay together (`SwappedTogether`);
- `Resets` is an account: what has been reset in the turn and what the units on the stack still owe (`Owes`) add up to what
  the step of the turn calls for (`Tally`), and none is owed twice (`Calm`). `ResetsOnce` is the account at step 20, when
  nothing is owed. A unit may settle what it owes or pass it on (`Stays`, `Goes`), the turn may put it on the stack
  (`Owing`), and the battle step alone may be left unreset.

The proofs about `Summons` hold for any finite set of cards, any combination of duels, any chain length and any number of
acts (`SummonsTypeCorrect`, `SummonLimitCorrect`, `SettledCorrect`); the only assumption is `ConstantsAssumption`. Effects
act in the middle of nearly every unit and start other summons there, so the stack of units has no bounded height, and
what is half done says nothing by itself. The inductive invariant, `Types /\ Control /\ Half /\ Zones`, says what the
units on the stack have still to do:

- `Control` is about what is counted. `summon_depth` is the number of SummonRules that are past step 0 and not yet through
  (`Depth`); the counts agree but for the SpSummons between their count and their success (`Tallied`); only one chain is
  resolved at a time, with nothing above it that would build another (`Chained`); what waits in `core.reserved` has one to
  wait for (`Waiting`). `Limited` is the reason for `SummonLimit`: of the units that claim a count, the one with no
  active SummonRule below it is the only one that will count, and until it does there is a summon left for it;
- `Half` is about what is half done: for every card that is being summoned some unit has its window of negation before it
  (`Asked`), for one that SpSummonStep has marked, some unit will collect it (`Stepped`), and for a face-up monster
  without its effects, some unit will enable them (`Faceup`); which needs that the SpSummonSteps of one SpSummon are
  right above it, each for a card of its own (`Owned`), and that only one effect at a time takes its Special
  Summons in single steps (`Opened`);
- `Zones` is about SpellSet and SpellSetGroup: a card is in the zone that it names (`Laid`), and the zones that a set
  still has to fill are free and differ (`Seater` for a single card, `Grouping` for a group); only one group is set at
  a time (`Lone`).

There are three modules. `SummonsInvariant` has the invariant and the frame lemmas: what becomes of each part when the
front of the stack is taken off and other units are put on (`Restacked`). `SummonsSteps` and `SummonsProofs` have a lemma
for each action, for summons and sets of monsters with the moves of cards, and for what is started, sets of spells and
Special Summons by effects; the theorems are at the end of the last one.

`MovesProofs` proves, for any finite set of cards, any duels that `Settings` admits and any number of acts,
the type invariant, `ConfirmedDestroyed`, `EquipsOnMonsters`, and `Attached` where nothing is replaced
(`NothingReplaced => Attached`), from `ConstantsAssumption`. Any unit may be inside of nearly any other, on the same cards, so here too the
invariant, `Typed /\ Stacked /\ Status /\ Sole /\ Equipped /\ Overlaid`, is about what the units on the stack still owe:

- `Stacked`: a unit that asks for a replacement has only such units below it down to the one whose targets it looks at
  (`Owned`), which is at a step where it may lose targets; a battle and the destruction of its losers are at the bottom
  (`AtBottom`). It is why `OwnerIndex` finds the right unit, and why BattleDestroyOver may hand its targets to `units[2]`;
- `Status`: a confirmed card is in `left`, claimed by a unit that will take the status off (`Claim`), or in `destroy_canceled`
  with a Destroy on the stack that will empty it (`Clearing`): the list is shared by all the Destroys on the stack, and whichever
  comes to step 2 first clears the status of the cards of all of them;
- `Sole`: where nothing is replaced `destroy_canceled` is empty, the claims are apart, each is of a confirmed card, and the
  units that ask about the targets of an owner ask for different ones;
- `Equipped`, `Overlaid`: what is attached to a card that has left is still held by the SendTo that will see to it at step 10
  (`Leaving`), or will be sent away itself (`Falling`); a monster that is face-down has no equips but `loose` ones.

`TakenOut` changes a unit in the middle of the stack; `Shrunk` says what such a change leaves as it was, and the lemmas
about it carry each part of the invariant over.

Only model-checked: `Succeeded` of `Summons`, `ReasonKept` and the replaced part of `MaterialsUnderMonsters` of `Moves`, the liveness
of `Chain`, and everything about `Battle`, `Answers` and `Effects`. `ReasonKept` and that part are true for a bounded number of acts
only, and say nothing of a step in the middle. The walks of `Effects` are folds over sequences of any length, and what a
fold computes is an induction over data. `Succeeded` is about the duels where effects act in chains only; it was
checked with two acts more in each of them too. The recursive tests of `Answers` and liveness under fairness are beyond the prover.

## Not modelled

- In `Summons` the reasons for which cards move, which SummonRule, SpSummonStep and the rest set, put
  back and pass to the events, and which decide nothing there.
- SolveContinuous with the delayed lists, and `continuous_chain` in OperationReplace: the other modules let continuous
  effects do anything at the places where it runs.
- Chains within chains (`Duel.Activate` during a chain), and `Duel.ChangeChainOperation`, for which SolveChain swaps the
  operation of the effect and has to put it back (processor.cpp:4191).
- `calculate_battle_damage`, Damage, Recover and PayLPCost: numbers that no decision modelled here reads but by their
  sign; the end of the duel, where a later check of Adjust can replace the result of an earlier one (processor.cpp:4384).
- Equip, target, xmaterial and grant effects, copied and replaced effects, flag effects, immunity and `STATUS_FORBIDDEN`,
  and the count codes for a chain, a duel or a single card (with `EFFECT_COUNT_CODE_OATH` the last is given back under
  another index than it was taken). The properties of cards that are computed from effects: whether an effect applies is
  an arbitrary choice outside of `Effects`, or fixed by a setting.
- Restrictions on zones (linked zones, the pendulum zones, `EFFECT_MUST_USE_MZONE`), SwapControl, ControlAdjust,
  ReturnToField, unique cards.
- The announcements of a card or a number, SelectPosition, SelectChain, the automatic answers of the simple AI.
- The Lua bindings' argument checks, groups and the life of Lua objects, queries and messages, the random generator, the
  build files.

## Plan

1. `Processor`, `Field` with `Placement`, `Chain`, `Turn`, and the proofs of `Processor` (done).
2. `Battle`, `Moves`, `Summons`, `Answers`, `Effects` (done).
3. Proofs: `Located` and the refinement of `Field`; the invariants of `Chain`, of `Turn` and of `Summons`; `ConfirmedDestroyed`
   and, but for replaced moves of materials, `Attached` of `Moves`; `ShuffleScope` and `FreshAnswer` of `Processor` (done).
   `DamageStepOver` of `Battle`; the part of `ActivationsKept` of `Effects` that is not a walk.
4. `Continuous`: `SolveContinuous`, the delayed lists and OperationReplace, composed with the scheduler. The end of the
   duel.
