------------------------------- MODULE Chain -------------------------------
(* How a chain is built and resolved: the triggers that events leave, the
   order in which PointEvent offers them to the players, the passing of
   priority in QuickEffect, AddChain, and SolveChain, together with the
   unit of the main phase (IdleCommand) that they are run for.

   A player's choice (SelectChain, SelectEffectYesNo) is made in the action
   that asks for it: nothing else runs before the answer is used.  Costs,
   targets, operations and continuous effects are represented by what they
   leave behind here, triggers and negated links (Raise, Negate).  Whether
   an effect may be activated is the business of its Lua conditions, and so
   an arbitrary choice. *)
EXTENDS Naturals, Sequences, FiniteSets

CONSTANTS
  turn_player,    \* infos.turn_player
  Settings,       \* what behaviours consist of
  MaxPerEvent     \* bound on the triggers of one event

Players == 0 .. 1
Opponent(p) == 1 - p

(* DUEL_TCG_SEGOC_FIRSTTRIGGER, DUEL_TCG_SEGOC_NONPUBLIC,
   DUEL_INVERTED_QUICK_PRIORITY, and the one or the other of
   DUEL_OCG_OBSOLETE_IGNITION and DUEL_TCG_FAST_EFFECT_IGNITION, of
   core.duel_options. *)
DuelOptions ==
  [first_trigger : BOOLEAN, non_public : BOOLEAN, inverted_quick : BOOLEAN,
   ignition_priority : BOOLEAN]

Skips == [skip_trigger : BOOLEAN, skip_freechain : BOOLEAN, skip_new : BOOLEAN]

(* A setting: the duel options that duels are played with; whether the
   controller of a handler may change while it waits; whether an effect may
   find no place to be activated in AddChain; whether continuous effects
   use Duel.Activate; the kinds of effects that events trigger; the
   arguments PointEvent is called with; and a bound on the triggers and
   activations of a behaviour. *)
AllSettings ==
  [options : SUBSET DuelOptions, control_changes : BOOLEAN,
   may_abandon : BOOLEAN, activates : BOOLEAN, calls : SUBSET Skips, max_links : Nat,
   trigger_kinds : SUBSET {"forced", "optional", "hidden", "quick"}]

ASSUME ConstantsAssumption ==
  /\ turn_player \in Players
  /\ Settings \subseteq AllSettings
  /\ MaxPerEvent \in Nat

VARIABLES
  units,            \* core.units, front first
  new_fchain,       \* mandatory triggers raised since the last PointEvent
  new_ochain,       \* optional ones
  new_fchain_s,     \* those PointEvent is going through
  new_ochain_s,
  new_ochain_h,     \* triggers in the hand or the deck, kept for QuickEffect
  ignition_priority_chains, \* whether there are any
  quick_f_chain,    \* mandatory quick effects
  new_chains,       \* chosen, not yet on the chain
  current_chain,
  real_chain_count, \* links whose activation is complete
  current_player,   \* whose triggers PointEvent looks at
  priorities,       \* infos.priorities: the player passed
  chaining,         \* the links whose handler has STATUS_CHAINING
  chain_solving,
  hand_adjusted,    \* the end phase discard was made
  duel_options,     \* core.duel_options
  setting,          \* which of the Settings this is
  next_id,          \* infos.field_id, as far as links take it
  passed,           \* history: who passed since the last link was added
  started           \* history: how many links began to resolve

triggers == <<new_fchain, new_ochain, quick_f_chain, next_id>>
pending == <<new_fchain_s, new_ochain_s, current_player>>
links == <<new_chains, current_chain, real_chain_count, chaining>>
solving == <<chain_solving, started>>
fixed == <<hand_adjusted, duel_options, setting>>
offers == <<new_ochain_h, ignition_priority_chains>>
vars == <<units, triggers, pending, offers, links, priorities,
          solving, fixed, passed>>

ControlChanges == setting.control_changes
MayAbandon == setting.may_abandon
TriggerKinds == setting.trigger_kinds
Calls == setting.calls
MaxLinks == setting.max_links

Kinds == {"forced", "optional", "hidden", "quick", "activated", "ignition"}

(* struct chain.  delay is EFFECT_FLAG_DELAY of the effect; event is
   event_id; causes is the event_value of an EVENT_CHAINING, and 0 for
   other events; at is the history of the moment it was raised. *)
Link == [id : 1 .. MaxLinks, kind : Kinds, player : Players, delay : BOOLEAN,
         event : 1 .. MaxLinks, causes : 0 .. MaxLinks, at : 0 .. MaxLinks,
         chain_count : 0 .. MaxLinks, negated : BOOLEAN]

NewLink(i, e, k, p, d, c, now) ==
  [id |-> i, kind |-> k, player |-> p, delay |-> d, event |-> e, causes |-> c,
   at |-> now, chain_count |-> 0, negated |-> FALSE]

Activation(p) == NewLink(next_id, next_id, "activated", p, FALSE, 0, started)
CanActivate == next_id <= MaxLinks

(* The units, with the members of processor_unit.h that they have. *)
NoSkip == [skip_trigger |-> FALSE, skip_freechain |-> FALSE, skip_new |-> FALSE]

Unit(k, s, skips, p) ==
  [kind |-> k, step |-> s, skips |-> skips, player |-> p, is_opponent |-> FALSE]
Idle == Unit("Idle", 0, NoSkip, turn_player)
Adjust == Unit("Adjust", 0, NoSkip, turn_player)
AddChain == Unit("AddChain", 0, NoSkip, turn_player)
ActivateEffect == Unit("ActivateEffect", 0, NoSkip, turn_player)
PointEvent(skips) == Unit("PointEvent", 0, skips, turn_player)
SolveChain(skips) == Unit("SolveChain", 0, skips, turn_player)
QuickEffect(s, skips, p) == Unit("QuickEffect", s, skips, p)

Last == current_chain[Len(current_chain)]
Front == Head(units)
At(kind, s) == units # <<>> /\ Front.kind = kind /\ Front.step = s

(* What a handler emplaces runs before the handler does again. *)
Finish(batch) == units' = batch \o Tail(units)
GoOn(s, batch) == units' = batch \o <<[Front EXCEPT !.step = s]>> \o Tail(units)

Init ==
  /\ units = <<Idle>>
  /\ new_fchain = {} /\ new_ochain = {} /\ new_fchain_s = {}
  /\ new_ochain_s = {} /\ new_ochain_h = {} /\ quick_f_chain = {}
  /\ ignition_priority_chains = FALSE
  /\ new_chains = <<>> /\ current_chain = <<>> /\ real_chain_count = 0
  /\ current_player = turn_player
  /\ priorities = [p \in Players |-> FALSE]
  /\ chaining = {} /\ chain_solving = FALSE
  /\ hand_adjusted \in BOOLEAN
  /\ setting \in Settings /\ duel_options \in setting.options
  /\ next_id = 1
  /\ passed = {} /\ started = 0

-----------------------------------------------------------------------------
(* raise_event or raise_single_event with process_instant_event: an event
   leaves any triggers and mandatory quick effects, on top of fc and oc. *)
Sorts ==
  {s \in [kind : TriggerKinds, player : Players, delay : BOOLEAN] :
     s.delay => s.kind \in {"optional", "hidden"}}

RaiseAt(fc, oc, causes, now) ==
  \E n \in 0 .. MaxPerEvent : \E s \in [1 .. n -> Sorts] :
    LET Raised(kinds) ==
          {NewLink(next_id + i - 1, next_id, s[i].kind, s[i].player,
                   s[i].delay, causes, now) : i \in {j \in 1 .. n : s[j].kind \in kinds}}
    IN /\ next_id + n <= MaxLinks + 1
       /\ next_id' = next_id + n
       /\ new_fchain' = fc \cup Raised({"forced"})
       /\ new_ochain' = oc \cup Raised({"optional", "hidden"})
       /\ quick_f_chain' = quick_f_chain \cup Raised({"quick"})

Raise(fc, oc, causes) == RaiseAt(fc, oc, causes, started)

(* break_effect(): an optional trigger that is not delayed has missed its
   timing.  Mutant: all of them stay. *)
KeepOptional == new_ochain
BreakEffect == {c \in new_ochain : c.delay}

(* A cost, a target, or a rule moves a monster to the other player while a
   trigger of it waits: triggering_player follows the controller when
   PointEvent or QuickEffect looks at the trigger again. *)
Moved(c) == {[c EXCEPT !.player = p] : p \in Players}
Rearranged(S) ==
  IF ControlChanges
  THEN {T \in SUBSET UNION {Moved(c) : c \in S} :
          \A c \in S : \E d \in T : {e \in T : e.id = c.id} = {d}}
  ELSE {S}
ControlMoves ==
  /\ new_fchain_s' \in Rearranged(new_fchain_s)
  /\ new_ochain_s' \in Rearranged(new_ochain_s)
  /\ new_ochain_h' \in Rearranged(new_ochain_h)
  /\ UNCHANGED <<current_player, ignition_priority_chains>>

(* set_status(STATUS_CHAINING, TRUE) and the move to core.new_chains. *)
Choose(c) ==
  /\ new_chains' = Append(new_chains, c)
  /\ chaining' = chaining \cup {c.id}

Without(S, c) == {d \in S : d.id # c.id}

(* Mutant: the players who passed before the link was added still have. *)
KeepPriority == UNCHANGED priorities
ResetPriority == priorities' = [p \in Players |-> FALSE]

-----------------------------------------------------------------------------
(* PointEvent asks the turn player first, and then the other one. *)
FirstPlayer == turn_player

PointEventStart ==
  /\ At("PointEvent", 0)
  /\ IF Front.skips.skip_trigger
     THEN GoOn(9, <<>>) /\ UNCHANGED <<pending, triggers>>
     ELSE /\ GoOn(2, <<>>)
          /\ new_fchain_s' = new_fchain_s \cup new_fchain
          /\ new_ochain_s' = new_ochain_s \cup new_ochain
          /\ new_fchain' = {} /\ new_ochain' = {}
          /\ current_player' = FirstPlayer
          /\ UNCHANGED <<quick_f_chain, next_id>>
  /\ UNCHANGED <<offers, links, priorities, solving, fixed, passed>>

(* core.select_chains: what the current player may choose from. *)
Selectable(S) ==
  LET mine == {c \in S : c.player = current_player}
  IN IF duel_options.first_trigger
     THEN {c \in mine : \A d \in mine : c.event <= d.event}
     ELSE mine

(* Steps 3 and 6, when there was nothing to choose: the other player's turn
   as long as triggers are left.  Mutants: the opponent is not asked; the
   player does not change; all of a player's triggers come before the
   other's. *)
SkipOpponent(left, list, next) ==
  /\ current_player' = FirstPlayer /\ GoOn(next, <<>>)
SamePlayer(left, list, next) ==
  /\ current_player' = FirstPlayer
  /\ GoOn(IF left # {} THEN list ELSE next, <<>>)
NextPlayer(left, list, next) ==
  IF left # {}
  THEN current_player' = Opponent(FirstPlayer) /\ GoOn(list, <<>>)
  ELSE current_player' = FirstPlayer /\ GoOn(next, <<>>)

PlayerByPlayer ==
  /\ \/ At("PointEvent", 3) /\ GoOn(4, <<>>) /\ UNCHANGED current_player
     \/ /\ At("PointEvent", 6)
        /\ IF new_fchain_s # {}
           THEN current_player' = Opponent(FirstPlayer) /\ GoOn(2, <<>>)
           ELSE NextPlayer(new_ochain_s, 4, 9)
  /\ UNCHANGED <<triggers, new_fchain_s, new_ochain_s, offers, links,
                 priorities, solving, fixed, passed>>

PointEventNextPlayer ==
  /\ \/ At("PointEvent", 3) /\ NextPlayer(new_fchain_s, 2, 4)
     \/ At("PointEvent", 6) /\ NextPlayer(new_ochain_s, 4, 9)
  /\ UNCHANGED <<triggers, new_fchain_s, new_ochain_s, offers, links,
                 priorities, solving, fixed, passed>>

(* Steps 2 and 3: the mandatory triggers, one at a time.  Those that may no
   longer be activated are dropped. *)
PointEventForced ==
  /\ At("PointEvent", 2)
  /\ \E left \in SUBSET new_fchain_s :
       \/ /\ Selectable(left) = {}
          /\ new_fchain_s' = left
          /\ GoOn(3, <<>>)
          /\ UNCHANGED <<new_chains, chaining>>
       \/ \E c \in Selectable(left) :
            /\ Choose(c)
            /\ new_fchain_s' = Without(left, c)
            /\ GoOn(2, <<AddChain>>)
  /\ UNCHANGED <<triggers, current_player, new_ochain_s, offers, current_chain,
                 real_chain_count, priorities, solving, fixed, passed>>

(* Steps 4 to 6: the optional ones.  Those of the hand or the deck are also
   kept for QuickEffect, and unless their place is public only there. *)
PointEventOptional ==
  /\ At("PointEvent", 4)
  /\ \E left \in SUBSET new_ochain_s :
     LET hidden == {c \in left : c.kind = "hidden"}
     IN \E gone \in SUBSET hidden :
       LET list == left \ gone
           mine == Selectable(list)
           kept == IF duel_options.non_public /\ mine # {} THEN {} ELSE new_ochain_h \cup hidden
       IN \/ /\ mine = {} \/ ~duel_options.first_trigger
             /\ new_ochain_s' = list \ mine
             /\ new_ochain_h' = kept
             /\ GoOn(6, <<>>)
             /\ UNCHANGED <<new_chains, chaining>>
          \/ /\ mine # {} /\ duel_options.first_trigger
             /\ new_ochain_s' = list \ mine
             /\ new_ochain_h' = kept
             /\ GoOn(4, <<>>)
             /\ UNCHANGED <<new_chains, chaining>>
          \/ \E c \in mine :
               /\ Choose(c)
               /\ new_ochain_s' = Without(list, c)
               /\ new_ochain_h' = Without(kept, c)
               /\ GoOn(4, <<AddChain>>)
  /\ UNCHANGED <<triggers, current_player, new_fchain_s, ignition_priority_chains,
                 current_chain, real_chain_count, priorities, solving, fixed, passed>>

(* Step 8: when no chain was started in the main phase, the turn player may
   activate an ignition effect before the opponent does anything, as the
   old rules have it.  Mutant: whether there is a chain or not. *)
AlwaysPriority(skips) ==
  duel_options.ignition_priority /\ ~skips.skip_freechain /\ ~hand_adjusted
IgnitionPriority(skips) ==
  /\ duel_options.ignition_priority /\ ~skips.skip_freechain /\ ~hand_adjusted
  /\ current_chain = <<>>

(* Step 9: quick effects, of the player after the last link's. *)
PointEventQuick ==
  /\ At("PointEvent", 9)
  /\ ignition_priority_chains' \in
       {ignition_priority_chains, ignition_priority_chains \/ IgnitionPriority(Front.skips)}
  /\ priorities' = [p \in Players |-> FALSE] /\ passed' = {}
  /\ IF current_chain # <<>>
     THEN GoOn(10, <<QuickEffect(0, Front.skips,
                Opponent(Last.player))>>)
     ELSE IF hand_adjusted THEN GoOn(10, <<>>)
     ELSE GoOn(10, <<QuickEffect(0, Front.skips,
                IF duel_options.inverted_quick THEN Opponent(turn_player) ELSE turn_player)>>)
  /\ UNCHANGED <<triggers, pending, new_ochain_h, links, solving, fixed>>

(* STATUS_CHAINING is taken off the links when they begin to resolve. *)
ReleaseChaining ==
  chaining' = chaining \ {current_chain[i].id : i \in DOMAIN current_chain}

PointEventEnd ==
  /\ At("PointEvent", 10)
  /\ new_ochain_h' = {}
  /\ ReleaseChaining
  /\ Finish(IF current_chain # <<>> THEN <<SolveChain(Front.skips)>> ELSE <<>>)
  /\ UNCHANGED <<triggers, pending, ignition_priority_chains, new_chains, current_chain,
                 real_chain_count, priorities, solving, fixed, passed>>

-----------------------------------------------------------------------------
(* QuickEffect.  Steps 0 and 1: the mandatory quick effects of the turn
   player, then those of the opponent, all of them before the chain grows. *)
CheckPlayer ==
  IF Front.is_opponent THEN Opponent(turn_player) ELSE turn_player

QuickForcedChosen ==
  /\ At("QuickEffect", 0)
  /\ \E left \in SUBSET quick_f_chain : \E c \in left :
       /\ c.player = CheckPlayer
       /\ Choose(c)
       /\ quick_f_chain' = Without(left, c)
  /\ UNCHANGED <<units, new_fchain, new_ochain, next_id, pending, offers,
                 current_chain, real_chain_count, priorities, solving,
                 fixed, passed>>

(* Mutant: the opponent's are forgotten. *)
QuickForcedAlone(left) ==
  /\ GoOn(2, <<>>) /\ UNCHANGED <<priorities, passed>>

QuickForcedNone(left) ==
  IF left # {}
  THEN /\ units' = <<[Front EXCEPT !.step = 0, !.is_opponent = TRUE]>> \o Tail(units)
       /\ UNCHANGED <<priorities, passed>>
  ELSE IF new_chains # <<>>
  THEN /\ Finish(<<AddChain, QuickEffect(0, NoSkip,
                     Opponent(new_chains[Len(new_chains)].player))>>)
       /\ ResetPriority /\ passed' = {}
  ELSE GoOn(2, <<>>) /\ UNCHANGED <<priorities, passed>>

QuickForced ==
  /\ \/ /\ At("QuickEffect", 0)
        /\ \E left \in SUBSET quick_f_chain :
             /\ \A c \in left : c.player # CheckPlayer
             /\ QuickForcedNone(left)
             /\ quick_f_chain' = left
     \/ /\ At("QuickEffect", 1)
        /\ QuickForcedNone(quick_f_chain)
        /\ UNCHANGED quick_f_chain
  /\ UNCHANGED <<new_fchain, new_ochain, next_id, pending, offers, links,
                 solving, fixed>>

(* Steps 2 and 3: the player may chain one of his effects ...  Mutant: a
   trigger already on the chain is offered again. *)
OfferedAgain(p) == {c \in new_ochain_h : c.player = p}
Offered(p) == {c \in new_ochain_h : c.player = p /\ c.id \notin chaining}

QuickEffectChosen ==
  /\ At("QuickEffect", 2)
  /\ LET p == Front.player
     IN /\ \/ CanActivate /\ Choose(Activation(p)) /\ next_id' = next_id + 1
           \/ /\ ignition_priority_chains /\ CanActivate
              /\ Choose([Activation(turn_player) EXCEPT !.kind = "ignition"])
              /\ next_id' = next_id + 1
           \/ /\ \E c \in Offered(p) : Choose([c EXCEPT !.kind = "activated"])
              /\ UNCHANGED next_id
        /\ Finish(<<AddChain, QuickEffect(0, NoSkip, Opponent(p))>>)
  /\ ignition_priority_chains' = FALSE
  /\ ResetPriority /\ passed' = {}
  /\ UNCHANGED <<new_fchain, new_ochain, quick_f_chain, pending, new_ochain_h,
                 current_chain, real_chain_count, solving, fixed>>

(* ... or pass, and it is over when the other one passed as well.  Mutant:
   the pass is noted for the other player. *)
NotePassOther(p) == priorities' = [q \in Players |-> q # p]
NotePass(p) == priorities' = [priorities EXCEPT ![p] = TRUE]

QuickEffectPass ==
  /\ At("QuickEffect", 2)
  /\ LET p == Front.player
     IN /\ NotePass(p)
        /\ passed' = passed \cup {p}
        /\ Finish(IF \A q \in Players : priorities'[q] THEN <<>>
                  ELSE <<QuickEffect(1, Front.skips, Opponent(p))>>)
  /\ ignition_priority_chains' = FALSE
  /\ UNCHANGED <<triggers, pending, new_ochain_h, links, solving, fixed>>

-----------------------------------------------------------------------------
(* AddChain.  Step 1: the costs of activating run before the link exists. *)
AddChainStart ==
  /\ At("AddChain", 0)
  /\ GoOn(2, <<>>)
  /\ Raise(new_fchain, new_ochain, 0) /\ ControlMoves
  /\ UNCHANGED <<links, priorities, solving,
                 fixed, passed>>

(* ... and an activation that has no place to go is given up there. *)
AddChainAbandon ==
  /\ At("AddChain", 0) /\ MayAbandon
  /\ Head(new_chains).kind = "activated"
  /\ Finish(<<>>)
  /\ UNCHANGED <<triggers, pending, offers, links, priorities, solving,
                 fixed, passed>>

(* Steps 2 to 7: the link is pushed, then its cost is paid and its targets
   are chosen. *)
AddChainLink ==
  /\ At("AddChain", 2)
  /\ current_chain' = Append(current_chain,
       [Head(new_chains) EXCEPT !.chain_count = Len(current_chain) + 1])
  /\ new_chains' = Tail(new_chains)
  /\ GoOn(8, <<>>)
  /\ Raise(new_fchain, new_ochain, 0) /\ ControlMoves
  /\ UNCHANGED <<real_chain_count, chaining, priorities,
                 solving, fixed, passed>>

(* Step 8: EVENT_BECOME_TARGET and EVENT_CHAINING.  Mutant: the activation
   is not counted. *)
CountNone == real_chain_count
CountActivated == real_chain_count + 1

AddChainEnd ==
  /\ At("AddChain", 8)
  /\ Raise(new_fchain, BreakEffect, Last.chain_count)
  /\ real_chain_count' = CountActivated
  /\ Finish(IF new_chains # <<>> THEN <<AddChain, Adjust>> ELSE <<Adjust>>)
  /\ UNCHANGED <<pending, offers, new_chains, current_chain, chaining,
                 priorities, solving, fixed, passed>>

(* adjust_all(): continuous effects and the rules may raise events, and one
   of them may use Duel.Activate (only where there is no chain: it would be
   resolved to its end, with the link that is being resolved already). *)
AdjustAll ==
  /\ At("Adjust", 0)
  /\ \/ Finish(<<>>)
     \/ setting.activates /\ current_chain = <<>> /\ Finish(<<ActivateEffect>>)
  /\ Raise(new_fchain, new_ochain, 0) /\ ControlMoves
  /\ UNCHANGED <<links, priorities, solving,
                 fixed, passed>>

(* ActivateEffect: the effect is put on a chain of its own, which is
   resolved in the middle of what goes on. *)
Activate ==
  /\ At("ActivateEffect", 0)
  /\ \/ ~CanActivate /\ Finish(<<>>) /\ UNCHANGED <<links, priorities, next_id, passed>>
     \/ /\ CanActivate
        /\ \E p \in Players :
             /\ Choose(Activation(p)) /\ next_id' = next_id + 1
             /\ GoOn(1, <<AddChain, QuickEffect(0, NoSkip, Opponent(p))>>)
        /\ ResetPriority /\ passed' = {}
        /\ UNCHANGED <<current_chain, real_chain_count>>
  /\ UNCHANGED <<new_fchain, new_ochain, quick_f_chain, pending, offers, solving, fixed>>

ActivateSolve ==
  /\ At("ActivateEffect", 1)
  /\ ReleaseChaining
  /\ Finish(<<SolveChain(NoSkip)>>)
  /\ UNCHANGED <<triggers, pending, offers, new_chains, current_chain,
                 real_chain_count, priorities, solving, fixed, passed>>

-----------------------------------------------------------------------------
(* SolveChain, from the last link to the first. *)

(* IdleCommand asks for it whether there is a chain or not, but there is
   always one: an activation that is given up keeps QuickEffect busy
   (MayAbandon), so that the early return of step 0 is not modelled, and a
   way to get there would be a deadlock of the model. *)

(* Duel.NegateActivation on any link, by an effect that runs. *)
Negate ==
  \/ UNCHANGED current_chain
  \/ \E i \in DOMAIN current_chain :
       current_chain' = [current_chain EXCEPT ![i].negated = TRUE]

SolveActivating ==
  /\ At("SolveChain", 0) /\ current_chain # <<>>
  /\ GoOn(1, <<>>)
  /\ Negate
  /\ Raise(new_fchain, new_ochain, 0)
  /\ UNCHANGED <<pending, offers, new_chains, real_chain_count, chaining,
                 priorities, solving, fixed, passed>>

(* What was triggered by the activation of a negated link is forgotten. *)
NotCausedBy(S, c) == {d \in S : d.causes # c.chain_count}

SolveNegated ==
  /\ At("SolveChain", 1) /\ Last.negated
  /\ GoOn(10, <<>>)
  /\ Raise(NotCausedBy(new_fchain, Last), NotCausedBy(new_ochain, Last), 0)
  /\ UNCHANGED <<pending, offers, links, priorities, solving,
                 fixed, passed>>

SolveStart ==
  /\ At("SolveChain", 1) /\ ~Last.negated
  /\ GoOn(2, <<>>)
  /\ chain_solving' = TRUE /\ started' = started + 1
  /\ RaiseAt(new_fchain, BreakEffect, 0, started + 1)
  /\ UNCHANGED <<pending, offers, links, priorities, fixed, passed>>

(* Steps 2 to 4: EVENT_CHAIN_DISABLED, or the operation. *)
SolveOperation ==
  /\ At("SolveChain", 2)
  /\ GoOn(5, <<>>)
  /\ Negate
  /\ Raise(new_fchain, new_ochain, 0)
  /\ UNCHANGED <<pending, offers, new_chains, real_chain_count, chaining,
                 priorities, solving, fixed, passed>>

(* Step 5: the delayed continuous effects run, and EVENT_CHAIN_SOLVED. *)
SolveEnd ==
  /\ At("SolveChain", 5)
  /\ GoOn(10, <<>>)
  /\ chain_solving' = FALSE
  /\ Raise(new_fchain, new_ochain, 0)
  /\ UNCHANGED <<pending, offers, links, priorities, started,
                 fixed, passed>>

SolvePop ==
  /\ At("SolveChain", 10)
  /\ current_chain' = SubSeq(current_chain, 1, Len(current_chain) - 1)
  /\ real_chain_count' = IF real_chain_count = 0 THEN 0 ELSE real_chain_count - 1
  /\ GoOn(IF Len(current_chain) > 1 THEN 0 ELSE 11, <<Adjust>>)
  /\ UNCHANGED <<triggers, pending, offers, new_chains, chaining,
                 priorities, solving, fixed, passed>>

(* Steps 11 to 13: EVENT_CHAIN_END, and the triggers the chain left. *)
SolveLast ==
  /\ At("SolveChain", 11)
  /\ Raise(new_fchain, new_ochain, 0)
  /\ LET s == Front.skips
     IN Finish(<<Adjust>> \o
          IF s.skip_trigger /\ s.skip_new THEN <<>>
          ELSE <<PointEvent([s EXCEPT !.skip_freechain = @ \/ s.skip_new])>>)
  /\ UNCHANGED <<pending, offers, links, priorities, solving,
                 fixed, passed>>

-----------------------------------------------------------------------------
(* IdleCommand: the turn player activates an effect ... *)
IdleActivate ==
  /\ At("Idle", 0) /\ CanActivate /\ ~hand_adjusted
  /\ Choose(Activation(turn_player)) /\ next_id' = next_id + 1
  /\ GoOn(2, <<AddChain, QuickEffect(0, NoSkip, Opponent(turn_player))>>)
  /\ ResetPriority /\ passed' = {}
  /\ UNCHANGED <<new_fchain, new_ochain, quick_f_chain, pending, offers,
                 current_chain, real_chain_count, solving, fixed>>

IdleSolve ==
  /\ At("Idle", 2)
  /\ ReleaseChaining
  /\ GoOn(0, <<SolveChain(NoSkip)>>)
  /\ UNCHANGED <<triggers, pending, offers, new_chains, current_chain,
                 real_chain_count, priorities, solving, fixed, passed>>

(* ... does something that raises an event, such as a summon or a change of
   position, with the PointEvent units these emplace ... *)
IdleEvent ==
  /\ At("Idle", 0)
  /\ Raise(new_fchain, new_ochain, 0)
  /\ \E s \in Calls : GoOn(0, <<PointEvent(s)>>)
  /\ UNCHANGED <<pending, offers, links, priorities, solving,
                 fixed, passed>>

(* ... or announces the end of the phase, to which the opponent may answer. *)
IdleAnnounce ==
  /\ At("Idle", 0) /\ ~hand_adjusted
  /\ priorities' = [p \in Players |-> p = turn_player]
  /\ passed' = {turn_player}
  /\ GoOn(10, <<QuickEffect(0, NoSkip, Opponent(turn_player))>>)
  /\ UNCHANGED <<triggers, pending, offers, links, solving, fixed>>

IdleEnd ==
  /\ At("Idle", 10)
  /\ IF current_chain # <<>>
     THEN GoOn(0, <<SolveChain(NoSkip)>>) /\ ReleaseChaining
     ELSE Finish(<<>>) /\ UNCHANGED chaining
  /\ UNCHANGED <<triggers, pending, offers, new_chains, current_chain,
                 real_chain_count, priorities, solving, fixed, passed>>

Ended == units = <<>> /\ UNCHANGED vars

Next ==
  \/ PointEventStart \/ PointEventForced \/ PointEventOptional
  \/ PointEventNextPlayer
  \/ PointEventQuick \/ PointEventEnd
  \/ QuickForcedChosen \/ QuickForced \/ QuickEffectChosen \/ QuickEffectPass
  \/ AddChainStart \/ AddChainAbandon \/ AddChainLink \/ AddChainEnd \/ AdjustAll
  \/ Activate \/ ActivateSolve
  \/ SolveActivating \/ SolveNegated \/ SolveStart
  \/ SolveOperation \/ SolveEnd \/ SolvePop \/ SolveLast
  \/ IdleActivate \/ IdleSolve \/ IdleEvent \/ IdleAnnounce \/ IdleEnd
  \/ Ended

Spec == Init /\ [][Next]_vars
FairSpec == Spec /\ WF_vars(Next)

-----------------------------------------------------------------------------
(* The two sizes of the chain agree: real_chain_count
   (Duel.GetCurrentChain(true)) leaves out exactly the links whose cost and
   targets are still being settled. *)
RealCount ==
  real_chain_count = Len(current_chain) -
    Cardinality({i \in DOMAIN units :
                   units[i].kind = "AddChain" /\ units[i].step = 8})

(* The type invariant, with the two sizes of the chain. *)
UnitType == [kind : {"Idle", "PointEvent", "QuickEffect", "AddChain",
                     "SolveChain", "Adjust", "ActivateEffect"},
             step : 0 .. 11, skips : Skips, player : Players,
             is_opponent : BOOLEAN]

TypeOK ==
  /\ units \in Seq(UnitType)
  /\ UNION {new_fchain, new_fchain_s, new_ochain, new_ochain_s, new_ochain_h,
            quick_f_chain} \subseteq Link
  /\ ignition_priority_chains \in BOOLEAN
  /\ new_chains \in Seq(Link)
  /\ current_chain \in Seq([id : 1 .. MaxLinks, kind : Kinds, player : Players,
         delay : BOOLEAN, event : 1 .. MaxLinks, causes : 0 .. MaxLinks,
         at : 0 .. MaxLinks, chain_count : 1 .. MaxLinks, negated : BOOLEAN])
  /\ real_chain_count \in 0 .. MaxLinks /\ RealCount
  /\ current_player \in Players
  /\ priorities \in [Players -> BOOLEAN]
  /\ chaining \subseteq 1 .. MaxLinks
  /\ chain_solving \in BOOLEAN
  /\ hand_adjusted \in BOOLEAN
  /\ setting \in Settings /\ duel_options \in setting.options
  /\ next_id \in 1 .. MaxLinks + 1
  /\ passed \subseteq Players /\ started \in 0 .. MaxLinks

(* What waits to be chained, and what has been chosen, in the order in
   which it goes on the chain. *)
Waiting == new_fchain \cup new_fchain_s \cup new_ochain \cup new_ochain_s
             \cup quick_f_chain
Chosen == current_chain \o new_chains

(* A trigger is activated at most once: one that was chosen is gone from
   every list it could be chosen from again, and those of the hand and the
   deck, which two lists hold, are chosen from one of them only. *)
ActivatedOnce ==
  /\ \A i, j \in DOMAIN Chosen : Chosen[i].id = Chosen[j].id => i = j
  /\ \A i \in DOMAIN Chosen, c \in Waiting : Chosen[i].id # c.id

(* "When" triggers miss their timing: an optional trigger that is not
   delayed is only offered if no chain link began to resolve after the
   event that raised it, wherever the engine was when the event came. *)
MissedTiming ==
  \A c \in new_ochain \cup new_ochain_s \cup new_ochain_h :
    c.delay \/ c.at = started

(* A trigger is offered in its time and activated once: the lists of
   triggers are moved, swapped and cleared at a dozen steps of PointEvent
   and SolveChain. *)
TriggersOffered == ActivatedOnce /\ MissedTiming

(* The links that a PointEvent put on the chain for triggers. *)
FromTriggers ==
  {i \in DOMAIN current_chain :
     current_chain[i].kind \in {"forced", "optional", "hidden"}}
Mandatory(i) == current_chain[i].kind = "forced"

(* Simultaneous triggers go on the chain the mandatory ones first, whoever
   controls them when their turn comes; and among the mandatory ones, and
   among the optional ones, those that the turn player chose come first,
   even when handlers change hands between two choices.  And an ignition
   effect that may be activated before the opponent answers starts a chain,
   or answers mandatory quick effects alone, which come before it. *)
TriggerOrder ==
  /\ \A i, j \in FromTriggers : i < j =>
       /\ Mandatory(j) => Mandatory(i)
       /\ \/ Mandatory(i) # Mandatory(j)
          \/ current_chain[j].player # turn_player
          \/ current_chain[i].player = turn_player
  /\ \A i, j \in DOMAIN current_chain :
       i < j /\ current_chain[j].kind = "ignition" => current_chain[i].kind = "quick"

ResolvesNow ==
  (PointEventEnd \/ IdleSolve \/ IdleEnd \/ ActivateSolve) /\ current_chain # <<>>

(* A chain begins to resolve only when both players have passed in a row
   since its last link was added, and when no trigger or mandatory quick
   effect raised so far is still to be offered. *)
NothingWaiting == new_fchain_s = {} /\ new_ochain_s = {} /\ quick_f_chain = {}
PriorityPassed == [][ResolvesNow => passed = Players /\ NothingWaiting]_vars

(* Every chain is resolved to its end, if process() goes on being called,
   no handler changes hands and no activation is given up: with the
   finitely many effects of a behaviour, the exchange of priority and the
   triggers come to an end. *)
Undisturbed == ~ControlChanges /\ ~MayAbandon
ChainResolved == Undisturbed /\ current_chain # <<>> ~> current_chain = <<>>

(* The steps that write a message, a request to a player or a report, which
   ends the loop of OCG_DuelProcess. *)
Reports ==
  \/ units = <<>>
  \/ At("Idle", 0) \/ At("QuickEffect", 2)
  \/ At("AddChain", 2) \/ At("AddChain", 8)
  \/ At("SolveChain", 0) \/ At("SolveChain", 10)

(* Every call of OCG_DuelProcess returns to the host: the engine does not
   go on for ever between two messages. *)
ProcessReturns == []<>Reports

(* ... at least as long as no handler changes hands and no activation is
   given up. *)
ReturnsUndisturbed == Undisturbed ~> Reports
=============================================================================
