------------------------------ MODULE Effects ------------------------------
(* The effects of cards: where they are listed while they are registered,
   what resets them, what becomes of oaths and of count limits when the
   activation they were for is negated, and which cards are negated.

   STATUS_DISABLED is a copy of what the registered effects say of a card.
   Whatever may change it puts the card in disable_check_set, and
   adjust_disable_check_list brings the cards of that set up to date, in
   the order of their cardid, while cards are added to the set. *)
EXTENDS Integers, Sequences, FiniteSets, SequencesExt

CONSTANTS
  Cards,    \* cardids, from 1 on: the order of card_set
  Effects,  \* names of effect objects
  Codes,    \* count codes that effects share
  Settings  \* what is looked at in one duel: see AllSettings

None == "none"
NoCard == 0
Players == {0, 1}

(* What is fixed of an effect.  handler is NoCard for those of Duel.Register-
   Effect (EFFECT_FLAG_FIELD_ONLY), which player registers.  A quick effect
   is one that can be activated; both these and field effects work on the
   field.  affects: the cards that its ranges and its target function admit.
   undisabled: EFFECT_FLAG_CANNOT_DISABLE.  initial: registered from the
   start.  events, phases, chain: what resets it, phases at the end of the
   count-th turn of one of turns, in the eyes of its player.  limit: of
   activations, 0 for none, per turn under count_code if there is one;
   count_oath: an activation that is negated does not count. *)
ResetEvents == {"TOFIELD", "LEAVE", "TOHAND", "TOGRAVE", "TURN_SET", "CONTROL", "DISABLE"}
Phases == {"BATTLE", "END"}
Definitions ==
  [owner : Cards, handler : Cards \cup {NoCard}, player : Players,
   kind : {"single", "field", "quick"}, code : {"disable", "cannot_disable", "other"},
   affects : SUBSET Cards, undisabled : BOOLEAN, oath : BOOLEAN, initial : BOOLEAN,
   events : SUBSET ResetEvents, phases : SUBSET Phases, chain : BOOLEAN,
   turns : SUBSET {"self", "oppo"}, count : 1 .. 3,
   limit : 0 .. 3, count_code : Codes \cup {None}, count_oath : BOOLEAN]

(* does: what may happen.  max_acts bounds how much happens, links how long
   a chain gets. *)
Acts == {"register", "summon", "set", "flip", "down", "send", "control",
         "activate", "phase", "break"}
Places == {"hand", "up", "down", "grave"}
AllSettings ==
  [def : [Effects -> Definitions], start : [Cards -> Places], does : SUBSET Acts,
   max_acts : Nat, links : Nat]

(* No card negates itself, be it by way of others: what is negated then
   follows from which effects there are. *)
DisableRelated(d) == d.code # "other"
Negators(defs, c) ==
  {defs[e].handler : e \in {x \in Effects : /\ DisableRelated(defs[x]) /\ c \in defs[x].affects
                                           /\ defs[x].kind = "field"}} \ {NoCard}
Acyclic(defs) ==
  \A S \in SUBSET Cards \ {{}} : \E c \in S : S \cap Negators(defs, c) = {}

ASSUME ConstantsAssumption ==
  /\ Cards = 1 .. Cardinality(Cards)
  /\ Settings \subseteq AllSettings
  /\ \A s \in Settings : /\ Acyclic(s.def)
                         /\ \A e \in Effects : LET d == s.def[e] IN
                              /\ d.handler = NoCard => d.kind = "field" /\ ~d.initial
                              /\ d.kind = "single" /\ d.code = "disable" => d.owner # d.handler
                              /\ d.phases # {} => d.turns # {}

VARIABLES
  duel,        \* what cards and effects there are: see Init
  chain,       \* core.current_chain; sworn and alone are history: the oaths of the
               \* cost, and that the effect is only once in the chain
  stage,       \* where SolveChain is: "build" (nowhere), "next", "started", "released", "end"
  turn_player,
  phase,       \* "BATTLE" or "END", or "over" when the turn is
  acts,        \* history: how much has happened
  uses,        \* history: activations of this turn that count
  setting

vars == <<duel, chain, stage, turn_player, phase, acts, uses, setting>>

def == setting.def
FieldOnly(e) == def[e].handler = NoCard
(* What the field lists as long as its handler is in range. *)
Ranged(e) == def[e].kind # "single"
OnField(g, c) == g.cards[c].place \in {"up", "down"}
InRange(g, e) == FieldOnly(e) \/ OnField(g, def[e].handler)
HeldBy(g, c) == {e \in g.held : def[e].handler = c}

(* Uses are counted under the code of the effect, its flag, and the player. *)
CountKeys == Codes \X BOOLEAN \X Players
CountKey(e, playerid) == <<def[e].count_code, def[e].count_oath, playerid>>

(* held: registered, in the indexer of its handler or of the field alone.
   indexer, containers: of the field; the latter are multimaps.  reseted:
   to be deleted when the next turn begins.  fresh is history: whom effects
   affect that cards have registered since the last Adjust. *)
Empty(cards) ==
  [cards |-> cards, held |-> {}, reseted |-> {},
   indexer |-> {}, containers |-> [e \in Effects |-> 0],
   pheff |-> {}, cheff |-> {}, rechargeable |-> {}, oath |-> <<>>,
   disable_check_set |-> {}, fresh |-> {}, delayed_enable_set |-> {},
   reset_count |-> [e \in Effects |-> def[e].count],
   count_limit |-> [e \in Effects |-> def[e].limit],
   counts |-> [k \in CountKeys |-> 0]]

-----------------------------------------------------------------------------
(* What effects say of cards. *)

Check(g, S) == [g EXCEPT !.disable_check_set = @ \cup S]

(* effect::is_available and effect::is_target: an effect of a negated card
   on itself or on the field does not apply, unless it cannot be negated,
   and no effect of the field applies to a face-down card, or to one that
   is being summoned. *)
IsAvailable(g, e) ==
  LET d == def[e]  x == g.cards[d.handler] IN
    \/ FieldOnly(e)
    \/ /\ d.kind = "field" => OnField(g, d.handler) /\ x.enabled /\ x.place = "up"
       /\ d.owner = d.handler /\ ~d.undisabled => ~x.disabled
IsTarget(g, e, c) ==
  c \in def[e].affects /\ g.cards[c].place = "up" /\ ~g.cards[c].summoning
IsAffected(g, code, c) ==
  \E e \in {x \in g.held : def[x].code = code} :
    /\ IsAvailable(g, e)
    /\ IF def[e].kind = "single" THEN def[e].handler = c
       ELSE g.containers[e] > 0 /\ IsTarget(g, e, c)

(* filter_affected_cards, and what filter_disable_related_cards adds. *)
AffectedBy(g, S) ==
  {c \in Cards : \E e \in S : /\ def[e].kind = "field" /\ DisableRelated(def[e])
                              /\ IsTarget(g, e, c)}
Related(g, c) == AffectedBy(g, HeldBy(g, c))

IsDisabled(g, c) == ~IsAffected(g, "cannot_disable", c) /\ IsAffected(g, "disable", c)
RefreshDisableStatus(g, c) == [g EXCEPT !.cards[c].disabled = IsDisabled(g, c)]

-----------------------------------------------------------------------------
(* Registering and removing effects. *)

(* field::add_effect and field::remove_effect for the effects of cards: the
   second finds what it removes, the first does not ask. *)
FieldAdd(g, S) ==
  [g EXCEPT !.containers = [e \in Effects |-> IF e \in S THEN @[e] + 1 ELSE @[e]],
            !.indexer = @ \cup S]
FieldRemove(g, S) ==
  [g EXCEPT !.containers =
              [e \in Effects |-> IF e \in S \cap g.indexer THEN @[e] - 1 ELSE @[e]],
            !.indexer = @ \ S]
ApplyFieldEffect(g, c) ==
  FieldAdd(g, {e \in HeldBy(g, c) : Ranged(e) /\ InRange(g, e)})
CancelFieldEffect(g, c) ==
  FieldRemove(g, {e \in HeldBy(g, c) : Ranged(e) /\ InRange(g, e)})

(* Of the effects of a card, its handler is to be checked; of those of the
   field alone, the cards they affect. *)
AddEffect(g, e, reason_effect) ==
  LET d == def[e]
      g1 == [g EXCEPT !.held = @ \cup {e},
               !.reset_count[e] = d.count, !.count_limit[e] = d.limit,
               !.pheff = IF d.phases # {} THEN @ \cup {e} ELSE @,
               !.cheff = IF d.chain THEN @ \cup {e} ELSE @,
               !.rechargeable = IF d.limit > 0 THEN @ \cup {e} ELSE @,
               !.oath = IF d.oath
                        THEN [o \in DOMAIN @ \cup {e} |-> IF o = e THEN reason_effect ELSE @[o]]
                        ELSE @]
      g2 == IF Ranged(e) /\ InRange(g, e) THEN FieldAdd(g1, {e}) ELSE g1
      g3 == IF FieldOnly(e) THEN g2 ELSE [g2 EXCEPT !.fresh = @ \cup d.affects]
  IN Check(g3, IF ~DisableRelated(d) THEN {}
             ELSE IF FieldOnly(e) THEN AffectedBy(g3, {e}) ELSE {d.handler})

(* Removing all of S, which is registered.  The cards that a field effect
   affects are checked if it was available, or is of the field alone. *)
RemoveEffects(g, S) ==
  LET Kept(T) == T \ S
      listed == {e \in S : Ranged(e) /\ InRange(g, e)}
      to_check == AffectedBy(g, {e \in S : IsAvailable(g, e)})
                    \cup {def[e].handler : e \in {x \in S : /\ def[x].kind = "single"
                                                           /\ DisableRelated(def[x])}}
  IN Check([FieldRemove(g, listed) EXCEPT
            !.held = Kept(@), !.reseted = @ \cup S, !.pheff = Kept(@), !.cheff = Kept(@),
            !.rechargeable = Kept(@), !.oath = [o \in Kept(DOMAIN @) |-> @[o]]],
         to_check)

Recharge(g, S) ==
  [g EXCEPT !.count_limit = [e \in Effects |-> IF e \in S THEN def[e].limit ELSE @[e]]]
(* card::reset: RESET_DISABLE is for the own effects of the card only. *)
Reset(g, c, ids) ==
  LET recharged == IF ids \cap {"TOFIELD", "LEAVE", "TOHAND", "TOGRAVE", "TURN_SET"} = {} THEN g
                   ELSE Recharge(g, HeldBy(g, c))
      Level(e) == IF def[e].owner = c THEN ids ELSE ids \ {"DISABLE"}
  IN RemoveEffects(recharged, {e \in HeldBy(g, c) : def[e].events \cap Level(e) # {}})

EnableFieldEffectAlone(g, c, enabled) ==
  IF g.cards[c].enabled = enabled THEN g
  ELSE [RefreshDisableStatus(g, c) EXCEPT !.cards[c].enabled = enabled]
(* Whoever the effects of the card affect is to be checked, unless it is
   negated. *)
EnableFieldEffect(g, c, enabled) ==
  LET g1 == RefreshDisableStatus(g, c)
      g2 == [g1 EXCEPT !.cards[c].enabled = enabled]
      g3 == IF enabled /\ g2.cards[c].disabled THEN Reset(g2, c, {"DISABLE"}) ELSE g2
  IN IF g.cards[c].enabled = enabled THEN g
     ELSE IF g3.cards[c].disabled THEN g3
     ELSE Check(g3, Related(g3, c))

(* A card of disable_check_set: whoever its effects affect is added to the
   set when its status changes, and is seen to if it comes later. *)
CheckDisable(g, c) ==
  LET g1 == RefreshDisableStatus(g, c)
      changed == g1.cards[c].disabled # g.cards[c].disabled /\ g1.cards[c].enabled
      g2 == IF changed THEN Check(g1, Related(g1, c)) ELSE g1
  IN IF changed /\ g2.cards[c].disabled THEN Reset(g2, c, {"DISABLE"}) ELSE g2

InCardOrder == [i \in 1 .. Cardinality(Cards) |-> i]
AdjustDisableCheckList(g) ==
  [FoldLeft(LAMBDA h, c : IF c \in h.disable_check_set THEN CheckDisable(h, c) ELSE h,
            g, InCardOrder)
   EXCEPT !.disable_check_set = {}]

(* Step 2 of Adjust: every card of the field is checked. *)
AdjustListed(g) == [AdjustDisableCheckList(g) EXCEPT !.fresh = {}]
AdjustAll(g) ==
  LET checked == Check(g, {c \in Cards : OnField(g, c)})
  IN AdjustDisableCheckList([checked EXCEPT !.fresh = {}])

-----------------------------------------------------------------------------
(* What moves of cards do to effects. *)

(* remove_card and add_card. *)
MoveCardListed(g, c, place) ==
  LET moved == [g EXCEPT !.cards[c].place = place]
  IN ApplyFieldEffect(CancelFieldEffect(moved, c), c)
MoveCard(g, c, place) ==
  ApplyFieldEffect([CancelFieldEffect(g, c) EXCEPT !.cards[c].place = place], c)

(* SendTo: before the move the card is no longer ready to use.  One whose
   summon was negated does not leave the field. *)
Unready(g, c) == AdjustDisableCheckList(EnableFieldEffect(g, c, FALSE))
SentTo(g, c, place, negated) ==
  LET g2 == MoveCard(Unready(g, c), c, place)
      g3 == IF OnField(g, c) /\ ~negated THEN Reset(g2, c, {"LEAVE"}) ELSE g2
      g4 == Reset(EnableFieldEffect(g3, c, TRUE), c,
                  {IF place = "hand" THEN "TOHAND" ELSE "TOGRAVE"})
  IN AdjustDisableCheckList(RefreshDisableStatus(g4, c))

(* MoveToField, of a card that a summon or a set has disabled before. *)
PutOnField(g, c, place) ==
  LET g1 == Reset(EnableFieldEffect(g, c, FALSE), c, {"TOFIELD"})
  IN AdjustDisableCheckList(MoveCard(g1, c, place))

-----------------------------------------------------------------------------
(* A duel begins with the initial effects of its cards, all of which lie
   where the setting says, and are adjusted until nothing changes. *)
Settled(s) ==
  LET cards == [c \in Cards |-> [place |-> s.start[c], enabled |-> s.start[c] # "down",
                                disabled |-> FALSE, summoning |-> FALSE, controler |-> 0]]
      initial == {e \in Effects : s.def[e].initial}
      g0 == FoldLeft(LAMBDA g, e : AddEffect(g, e, None), Empty(cards), SetToSeq(initial))
  IN FoldLeft(LAMBDA g, c : AdjustAll(g), g0, InCardOrder)

Init ==
  /\ setting \in Settings
  /\ duel = Settled(setting)
  /\ chain = <<>>
  /\ stage = "build"
  /\ turn_player = 0
  /\ phase = "BATTLE"
  /\ acts = 0
  /\ uses = [k \in CountKeys |-> 0]

Place(c) == duel.cards[c].place
Summoning(c) == duel.cards[c].summoning
Idle == chain = <<>> /\ stage = "build" /\ \A c \in Cards : ~Summoning(c)
Operating == stage \in {"build", "released"}
top == chain[Len(chain)]

Act(name) ==
  /\ name \in setting.does /\ acts < setting.max_acts /\ phase # "over"
  /\ acts' = acts + 1
  /\ UNCHANGED <<turn_player, phase, setting>>
Unchanged == UNCHANGED <<turn_player, phase, acts, setting>>

(* Card.RegisterEffect and Duel.RegisterEffect, by an operation. *)
New(e) == ~def[e].initial /\ e \notin duel.held \cup duel.reseted
Register(e) ==
  /\ Act("register") /\ Operating
  /\ New(e) /\ ~def[e].oath
  /\ duel' = AddEffect(duel, e, None)
  /\ UNCHANGED <<chain, stage, uses>>

(* The same in the cost of the effect activated last. *)
Swear(e) ==
  /\ Act("register") /\ stage = "build" /\ chain # <<>>
  /\ New(e) /\ def[e].oath
  /\ duel' = AddEffect(duel, e, top.effect)
  /\ chain' = [chain EXCEPT ![Len(chain)].sworn = @ \cup {e}]
  /\ UNCHANGED <<stage, uses>>

(* A summon: until it succeeds its card is not affected by the field. *)
Summon(c) ==
  /\ Act("summon") /\ Idle /\ Place(c) = "hand"
  /\ duel' = [PutOnField(duel, c, "up") EXCEPT !.cards[c].summoning = TRUE]
  /\ UNCHANGED <<chain, stage, uses>>
SummonSucceeds(c) ==
  LET g1 == EnableFieldEffect([duel EXCEPT !.cards[c].summoning = FALSE], c, TRUE)
      g2 == IF g1.cards[c].disabled THEN Reset(g1, c, {"DISABLE"}) ELSE g1
  IN /\ Summoning(c) /\ chain = <<>> /\ stage = "build"
     /\ duel' = AdjustAll(AdjustDisableCheckList(g2))
     /\ Unchanged /\ UNCHANGED <<chain, stage, uses>>
SummonNegated(c) ==
  /\ Summoning(c) /\ chain = <<>> /\ stage = "build" /\ "break" \in setting.does
  /\ duel' = SentTo([duel EXCEPT !.cards[c].summoning = FALSE], c, "grave", TRUE)
  /\ Unchanged /\ UNCHANGED <<chain, stage, uses>>

SetCard(c) ==
  /\ Act("set") /\ Idle /\ Place(c) = "hand"
  /\ duel' = AdjustAll(PutOnField(duel, c, "down"))
  /\ UNCHANGED <<chain, stage, uses>>

(* ChangePos: a monster that an effect flips is enabled when that effect
   has been resolved. *)
Flip(c) ==
  LET g == [duel EXCEPT !.cards[c].place = "up"]
      enabled == IF stage = "build" THEN EnableFieldEffect(g, c, TRUE)
                 ELSE [g EXCEPT !.delayed_enable_set = @ \cup {c}]
  IN /\ Act("flip") /\ Operating /\ Place(c) = "down"
     /\ duel' = AdjustDisableCheckList(enabled)
     /\ UNCHANGED <<chain, stage, uses>>
TurnDown(c) ==
  LET g == Reset([duel EXCEPT !.cards[c].place = "down"], c, {"TURN_SET"})
  IN /\ Act("down") /\ Operating /\ Place(c) = "up" /\ ~Summoning(c)
     /\ duel' = AdjustDisableCheckList(EnableFieldEffect(g, c, FALSE))
     /\ UNCHANGED <<chain, stage, uses>>

Send(c, place) ==
  /\ Act("send") /\ Operating /\ Place(c) # place /\ ~Summoning(c)
  /\ duel' = SentTo(duel, c, place, FALSE)
  /\ UNCHANGED <<chain, stage, uses>>

GetControl(c) ==
  LET moved == AdjustDisableCheckList([duel EXCEPT !.cards[c].controler = 1 - @])
      reset == Reset(moved, c, {"CONTROL"})
  IN /\ Act("control") /\ Operating /\ OnField(duel, c) /\ ~Summoning(c)
     /\ duel' = AdjustDisableCheckList(Check(reset, Related(reset, c)))
     /\ UNCHANGED <<chain, stage, uses>>

-----------------------------------------------------------------------------
(* Activations: their count limits, their oaths, and what ends with them. *)

CheckCountLimit(g, e, playerid) ==
  LET d == def[e] IN
    d.limit > 0 => /\ g.count_limit[e] > 0
                   /\ d.count_code # None => g.counts[CountKey(e, playerid)] < d.limit
DecCount(g, e, playerid) ==
  LET d == def[e] IN
    IF d.limit = 0 THEN g
    ELSE IF d.count_code = None THEN [g EXCEPT !.count_limit[e] = @ - 1]
    ELSE [g EXCEPT !.counts[CountKey(e, playerid)] = @ + 1]

Counted(e, playerid, n) ==
  IF def[e].limit = 0 \/ def[e].count_code = None THEN uses
  ELSE [uses EXCEPT ![CountKey(e, playerid)] = @ + n]

IsActivateable(g, e, playerid) ==
  LET x == g.cards[def[e].handler] IN
    /\ g.containers[e] > 0 /\ x.place = "up" /\ x.enabled /\ ~x.summoning
    /\ CheckCountLimit(g, e, playerid)
Activate(e) ==
  LET playerid == duel.cards[def[e].handler].controler
      again == \E i \in DOMAIN chain : chain[i].effect = e
  IN /\ Act("activate") /\ stage = "build" /\ Len(chain) < setting.links
     /\ def[e].kind = "quick" /\ IsActivateable(duel, e, playerid)
     /\ duel' = DecCount(duel, e, playerid)
     /\ chain' = [i \in 1 .. Len(chain) + 1 |->
                    IF i > Len(chain)
                    THEN [effect |-> e, player |-> playerid, sworn |-> {}, alone |-> ~again]
                    ELSE [chain[i] EXCEPT !.alone = @ /\ chain[i].effect # e]]
     /\ uses' = Counted(e, playerid, 1)
     /\ UNCHANGED stage

(* SolveChain, one link at a time from the last. *)
StartLink ==
  /\ stage \in {"build", "next"} /\ chain # <<>>
  /\ stage' = "started"
  /\ duel' = AdjustDisableCheckList(Check(duel, {def[top.effect].handler}))
  /\ Unchanged /\ UNCHANGED <<chain, uses>>

ReleaseOathRelation(g, effect) ==
  [g EXCEPT !.oath = [o \in DOMAIN @ |-> IF @[o] = effect THEN None ELSE @[o]]]
ReleaseLink ==
  /\ stage = "started" /\ stage' = "released"
  /\ duel' = ReleaseOathRelation(duel, top.effect)
  /\ Unchanged /\ UNCHANGED <<chain, uses>>

(* Steps 9 and 10, of what a link is popped with. *)
EnableDelayed(g) ==
  [FoldLeft(LAMBDA h, c : IF c \in h.delayed_enable_set /\ OnField(h, c)
                          THEN EnableFieldEffect(h, c, TRUE) ELSE h, g, InCardOrder)
   EXCEPT !.delayed_enable_set = {}]
EndsLink(g) ==
  /\ duel' = AdjustAll(EnableDelayed(g))
  /\ chain' = SubSeq(chain, 1, Len(chain) - 1)
  /\ stage' = IF Len(chain) = 1 THEN "end" ELSE "next"
EndLink ==
  /\ stage = "released"
  /\ EndsLink(AdjustDisableCheckList(duel))
  /\ Unchanged /\ UNCHANGED uses

(* An activation that is negated: its oaths do not bind, and it does not
   count where the count is one of EFFECT_COUNT_CODE_OATH. *)
KeepOathEffect(g, effect) == g
RemoveOathEffect(g, effect) ==
  RemoveEffects(g, {o \in DOMAIN g.oath : g.oath[o] = effect})
DecEffectCodeInTurn(g, link) ==
  LET d == def[link.effect]  k == CountKey(link.effect, turn_player) IN
    IF d.limit > 0 /\ d.count_code # None /\ d.count_oath /\ g.counts[k] > 0
    THEN [g EXCEPT !.counts[k] = @ - 1] ELSE g
DecEffectCode(g, link) ==
  LET d == def[link.effect]  k == CountKey(link.effect, link.player) IN
    IF d.limit > 0 /\ d.count_code # None /\ d.count_oath /\ g.counts[k] > 0
    THEN [g EXCEPT !.counts[k] = @ - 1] ELSE g
NegateLink ==
  /\ stage = "started" /\ "break" \in setting.does
  /\ EndsLink(DecEffectCode(RemoveOathEffect(duel, top.effect), top))
  /\ uses' = IF def[top.effect].count_oath THEN Counted(top.effect, top.player, -1) ELSE uses
  /\ Unchanged

(* reset_chain. *)
ChainEnd ==
  /\ stage = "end" /\ stage' = "build"
  /\ duel' = AdjustAll(RemoveEffects(duel, duel.cheff))
  /\ Unchanged /\ UNCHANGED <<chain, uses>>

-----------------------------------------------------------------------------
(* Phases and turns. *)

HandlerPlayer(g, e) == IF FieldOnly(e) THEN def[e].player ELSE g.cards[def[e].handler].controler
Elapses(g, e, ph) ==
  LET turn == IF HandlerPlayer(g, e) = turn_player THEN "self" ELSE "oppo"
  IN ph \in def[e].phases /\ turn \in def[e].turns
ResetPhase(g, ph) ==
  LET counted == [g EXCEPT !.reset_count =
                    [e \in Effects |-> IF e \in g.pheff /\ Elapses(g, e, ph) THEN @[e] - 1 ELSE @[e]]]
  IN RemoveEffects(counted, {e \in g.pheff : counted.reset_count[e] = 0})

(* A phase ends when nothing is going on; after the last the next turn
   begins. *)
PhaseEnds ==
  /\ "phase" \in setting.does /\ Idle
  /\ phase' = CASE phase = "BATTLE" -> "END" [] phase = "END" -> "over" [] OTHER -> "BATTLE"
EndPhase ==
  /\ phase # "over" /\ PhaseEnds
  /\ duel' = AdjustAll(ResetPhase(duel, phase))
  /\ UNCHANGED <<chain, stage, turn_player, acts, uses, setting>>

(* Steps 0 and 1 of Turn: what was reset is deleted, counts start again. *)
NextTurn ==
  /\ phase = "over" /\ PhaseEnds
  /\ turn_player' = 1 - turn_player
  /\ duel' = AdjustAll(Recharge([duel EXCEPT !.reseted = {}, !.counts = [k \in DOMAIN @ |-> 0]],
                               duel.rechargeable))
  /\ uses' = [k \in DOMAIN uses |-> 0]
  /\ UNCHANGED <<chain, stage, acts, setting>>

Adjust ==
  /\ stage = "build"
  /\ duel' = AdjustAll(duel)
  /\ Unchanged /\ UNCHANGED <<chain, stage, uses>>

Next ==
  \/ \E e \in Effects : Register(e) \/ Swear(e) \/ Activate(e)
  \/ \E c \in Cards : \/ Summon(c) \/ SummonSucceeds(c) \/ SummonNegated(c) \/ SetCard(c)
                       \/ Flip(c) \/ TurnDown(c) \/ GetControl(c)
                       \/ \E place \in {"hand", "grave"} : Send(c, place)
  \/ StartLink \/ ReleaseLink \/ EndLink \/ NegateLink \/ ChainEnd
  \/ EndPhase \/ NextTurn \/ Adjust

(* Phases and turns do end: players have to answer. *)
Spec == Init /\ [][Next]_vars /\ WF_phase(PhaseEnds)

-----------------------------------------------------------------------------
Stages == {"build", "next", "started", "released", "end"}

(* Every variable has its type, and the registries of the field agree with
   those of the cards: each effect that is registered and in range is
   listed once, no other one is, and what waits for phases, for the end of
   the chain, for a turn to recharge it or is an oath is registered. *)
TypeOK ==
  /\ setting \in Settings
  /\ duel.cards \in [Cards -> [place : Places, enabled : BOOLEAN, disabled : BOOLEAN,
                              summoning : BOOLEAN, controler : Players]]
  /\ duel.held \subseteq Effects /\ duel.reseted \subseteq Effects \ duel.held
  /\ \A e \in Effects : LET listed == e \in duel.held /\ Ranged(e) /\ InRange(duel, e) IN
       /\ duel.containers[e] = IF listed THEN 1 ELSE 0
       /\ e \in duel.indexer <=> listed
  /\ duel.pheff = {e \in duel.held : def[e].phases # {}}
  /\ duel.cheff = {e \in duel.held : def[e].chain}
  /\ duel.rechargeable = {e \in duel.held : def[e].limit > 0}
  /\ DOMAIN duel.oath = {e \in duel.held : def[e].oath}
  /\ \A o \in DOMAIN duel.oath : duel.oath[o] \in Effects \cup {None}
  /\ duel.disable_check_set \subseteq Cards /\ duel.delayed_enable_set \subseteq Cards
  /\ duel.fresh \subseteq Cards
  /\ \A e \in Effects : /\ e \in duel.pheff => duel.reset_count[e] \in 1 .. def[e].count
                        /\ duel.count_limit[e] \in 0 .. def[e].limit
  /\ duel.counts \in [CountKeys -> Nat] /\ uses \in [CountKeys -> Int]
  /\ \A i \in DOMAIN chain : /\ chain[i].effect \in Effects /\ chain[i].player \in Players
                             /\ chain[i].sworn \subseteq Effects /\ chain[i].alone \in BOOLEAN
  /\ stage \in Stages /\ turn_player \in Players /\ phase \in {"BATTLE", "END", "over"}
  /\ acts \in Nat

(* STATUS_DISABLED of an enabled face-up card is what the effects that are
   registered say of it. *)
ExactFor(g, c) ==
  g.cards[c].place = "up" /\ g.cards[c].enabled => g.cards[c].disabled = IsDisabled(g, c)

(* The cards that come after whatever negates them, and after what negates
   that, in the order of cardid. *)
InOrder ==
  LET seen[c \in Cards] == \A n \in Negators(def, c) : n < c /\ seen[n]
  IN {c \in Cards : seen[c]}

(* Summons, moves, flips, resets, the end of a chain and of a phase, and
   cards that are negated in their turn: whatever changes what is said of a
   card, its status is brought up to date before anything else happens, or
   it is in disable_check_set.  Not so of a card that comes before one that
   negates it (adjust_disable_check_list does not return to it), nor of one
   that an effect affects which a card has registered since the last Adjust
   (card::add_effect has that card checked, not those it affects). *)
NegatedInTime ==
  \A c \in InOrder \ duel.fresh : ExactFor(duel, c) \/ c \in duel.disable_check_set

(* When only phases and turns go by, the status of every card becomes exact
   and stays so, in whatever order the cards negate one another and
   although effects still expire: every Adjust checks the whole field. *)
Quiet == acts = setting.max_acts /\ Idle
NegationSettles == Quiet ~> []\A c \in Cards : ExactFor(duel, c)

(* What an activation that was negated leaves: it is not counted any more
   if its count is an oath, under the player who activated it whoever has
   the card and the turn since, and no oath of its cost is left that waits
   for it.  The oaths of activations below it still bind, unless the same
   effect was activated twice in the chain: then they cannot be told apart. *)
ActivationsKept ==
  /\ duel.counts = uses
  /\ \A o \in DOMAIN duel.oath :
       duel.oath[o] # None => \E i \in DOMAIN chain : chain[i].effect = duel.oath[o]
  /\ \A i \in DOMAIN chain : chain[i].alone /\ ~(i = Len(chain) /\ stage = "released") =>
       \A o \in chain[i].sworn \cap duel.held : duel.oath[o] = chain[i].effect
=============================================================================
