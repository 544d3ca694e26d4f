------------------------------- MODULE Moves -------------------------------
(* How cards leave the field and come to it: the units Destroy, Release and
   SendTo with the units that let effects replace what they do, MoveToField,
   ChangePos, GetControl, Equip, XyzOverlay and RemoveOverlay.  Each of them
   lets effects act in the middle, which run units of the same kinds on any
   cards, those of the outer units included.

   The targets of a unit are one group object, which the units that ask for
   replacements take cards out of: here they change the unit below them. *)
EXTENDS Integers, Sequences, FiniteSets

CONSTANTS
  Cards,        \* the cards of one owner, player 0
  Tokens,       \* those that cease to exist when they leave the field
  Equips,       \* those that are equipped to monsters, in the spell zone
  Fields,       \* field spells, in the hand at first
  TrapMonsters, \* those that are TYPE_TRAPMONSTER as monsters
  Overlays,     \* those that are materials of a monster at first
  Host,         \* the monster that Equips and Overlays are attached to at first
  Settings      \* what is looked at in one duel: see AllSettings

Seqs == INSTANCE SequencesExt
None == "none"

(* What effects do: acts.  interrupted: effects act while events are raised
   in the middle of a move, too.  replaces: how many effects may replace
   what happens to one card, group_replace: one may replace it for a group.
    substitutes: another card may be destroyed instead.  redirects:
   a card that leaves the field may go elsewhere.  max_acts bounds what
   effects do in all. *)
Acts == {"destroy", "release", "send", "battle", "place", "set", "control",
         "equip", "overlay", "detach", "self"}
AllSettings ==
  [acts : SUBSET Acts, interrupted : BOOLEAN, replaces : 0 .. 2,
   group_replace : BOOLEAN, substitutes : BOOLEAN, redirects : BOOLEAN,
   max_acts : Nat]

ASSUME ConstantsAssumption ==
  /\ IsFiniteSet(Cards) /\ None \notin Cards
  /\ Host \in Cards \ (Equips \cup Fields \cup Overlays)
  /\ Tokens \subseteq Cards
  /\ Equips \subseteq Cards \ Tokens
  /\ Fields \subseteq Cards \ (Tokens \cup Equips)
  /\ TrapMonsters \subseteq Cards \ (Tokens \cup Equips \cup Fields)
  /\ Overlays \subseteq Cards \ (Tokens \cup Equips \cup Fields)
  /\ Settings \subseteq AllSettings

VARIABLES
  units,              \* core.units, front first
  cards,              \* the cards: see TypeOK
  destroy_canceled,
  battle_destroy_rep,
  desrep_chain,       \* how many effects are in it
  returns,            \* whether core.returns is not 0
  operated_set,
  setting,            \* which of Settings this is
  acts,               \* history: how often effects did something
  moved,              \* history: the reason of the last move of each card
  left,               \* history: cards that keep STATUS_DESTROY_CONFIRMED
  loose               \* history: cards that were attached to what is gone

canceled == <<destroy_canceled, battle_destroy_rep, desrep_chain>>
result == <<returns, operated_set>>
history == <<acts, moved, left, loose>>
vars == <<units, cards, canceled, result, setting, history>>

(* FZONE: the field zone, the fifth of LOCATION_SZONE. *)
OnField == {"MZONE", "SZONE", "FZONE"}
Piles == {"HAND", "DECK", "GRAVE", "REMOVED"}
Locations == OnField \cup Piles \cup {"OVERLAY", "NOWHERE"}
Flags == {"DESTROY", "RELEASE", "REPLACE", "REDIRECT"}
Kinds == {"NONE", "EFFECT", "RULE", "COST", "BATTLE", "SELF", "XYZ"}

(* current.reason with reason_effect and reason_player, which are saved and
   put back together: act tells the acts of effects apart. *)
Reason(kind, n) == [kind |-> kind, act |-> n, flags |-> {}]
Rule == Reason("RULE", 0)
Flagged(r, f) == [r EXCEPT !.flags = @ \cup {f}]

Card(loc) ==
  [loc |-> loc, controler |-> 0, facedown |-> FALSE, dest |-> "GRAVE",
   confirmed |-> FALSE, reason |-> Reason("NONE", 0), temp |-> Reason("NONE", 0),
   equiping_target |-> None, overlay_target |-> None]

(* The units, with their members of processor_unit.h. *)
Destroy(s, T, r) == [kind |-> "Destroy", step |-> s, targets |-> T, reason |-> r]
Release(T, r) == [kind |-> "Release", step |-> 0, targets |-> T, reason |-> r]
SendTo(s, T, r) ==
  [kind |-> "SendTo", step |-> s, targets |-> T, reason |-> r, cv |-> {},
   leave |-> {}]
(* DestroyReplace, ReleaseReplace, SendToReplace *)
AskReplace(s, c) == [kind |-> "Ask", step |-> s, target |-> c]
OperationReplace(s, c) == [kind |-> "Replace", step |-> s, target |-> c]
MoveToField(c, p, loc, down) ==
  [kind |-> "ToField", step |-> 0, target |-> c, playerid |-> p, location |-> loc,
   facedown |-> down]
ChangePos(T) == [kind |-> "Pos", step |-> 0, targets |-> T]
GetControl(T) ==
  [kind |-> "Control", step |-> 0, targets |-> T, rest |-> {}, destroy_set |-> {}]
Equip(c, t) == [kind |-> "Equip", step |-> 0, equip_card |-> c, target |-> t]
XyzOverlay(t, M, send) ==
  [kind |-> "Xyz", step |-> 0, target |-> t, materials |-> M, to_grave |-> send]
RemoveOverlay == [kind |-> "Detach", step |-> 2]
(* ExecuteOperation and SolveContinuous: an effect acts. *)
Effect == [kind |-> "Effect", step |-> 0]

Front == Head(units)
At(kind, s) == units # <<>> /\ Front.kind = kind /\ Front.step = s
GoOnAs(unit, s, batch) ==
  units' = batch \o <<[unit EXCEPT !.step = s]>> \o Tail(units)
GoOn(s, batch) == GoOnAs(Front, s, batch)
Finish(batch) == units' = batch \o Tail(units)

(* What process_single_event and process_instant_event leave to be solved. *)
Events == IF setting.interrupted THEN <<Effect>> ELSE <<>>
Each(Unit(_), S) == Seqs!SetToSeq({Unit(c) : c \in S})

-----------------------------------------------------------------------------
(* Functions of the cards. *)

Change(f, S, New(_)) == [c \in Cards |-> IF c \in S THEN New(f[c]) ELSE f[c]]
(* Mutant: the reason of a card that is left out stays. *)
NotRestored(f, S) == f
Restored(f, S) == Change(f, S, LAMBDA x : [x EXCEPT !.reason = x.temp])
Unconfirmed(f, S) == Change(f, S, LAMBDA x : [x EXCEPT !.confirmed = FALSE])
WithFlag(f, S, flag) ==
  Change(f, S, LAMBDA x : [x EXCEPT !.reason = Flagged(@, flag)])
Unequipped(f, S) == Change(f, S, LAMBDA x : [x EXCEPT !.equiping_target = None])
Given(f, S, r, dest) ==
  Change(f, S, LAMBDA x : [x EXCEPT !.temp = x.reason, !.reason = r, !.dest = dest])

EquipsOf(f, S) == {e \in Cards : f[e].equiping_target \in S}
Materials(f, S) == {m \in Cards : f[m].overlay_target \in S}
Settled(f, S) == {c \in S : f[c].loc \in {"GRAVE", "REMOVED"}}
Off(f, c) == f[c].loc \notin OnField

(* field::destroy takes the cards that no other Destroy has, and says so in
   their status.  Mutant: it takes those as well. *)
AnyCard(f, S) == S
NotConfirmed(f, S) == {c \in S : ~f[c].confirmed \/ c \in destroy_canceled}
Confirmed(f, S, r) ==
  Change(Given(f, S, r, "GRAVE"), S, LAMBDA x : [x EXCEPT !.confirmed = TRUE])

(* The replacing effects for a group, and for one card. *)
GroupReplace(s) == IF setting.group_replace THEN <<OperationReplace(s, None)>> ELSE <<>>
CardReplace(s, c) == [i \in 1 .. setting.replaces |-> OperationReplace(s, c)]

Init ==
  /\ setting \in Settings
  /\ units = <<>>
  /\ cards = [c \in Cards |->
       CASE c \in Equips   -> [Card("SZONE") EXCEPT !.equiping_target = Host]
         [] c \in Overlays -> [Card("OVERLAY") EXCEPT !.overlay_target = Host]
         [] c \in Fields   -> Card("HAND")
         [] OTHER -> Card("MZONE")]
  /\ destroy_canceled = {} /\ battle_destroy_rep = {} /\ desrep_chain = 0
  /\ returns = FALSE /\ operated_set = {}
  /\ acts = 0 /\ moved = [c \in Cards |-> Reason("NONE", 0)]
  /\ left = {} /\ loose = {}

-----------------------------------------------------------------------------
(* Destroy. *)

(* Step 0: cards that cannot be destroyed are left out, and so are those
   that have a substitute, which is destroyed too. *)
Indestructible(c) == cards[c].loc \in {"GRAVE", "REMOVED", "OVERLAY"}
Substitute == [Reason("EFFECT", 0) EXCEPT !.flags = {"DESTROY", "REPLACE"}]

DestroyChecked ==
  /\ At("Destroy", 0)
  /\ \E spared \in SUBSET Front.targets :
       /\ {c \in Front.targets : Indestructible(c)} \subseteq spared
       /\ \E sub \in SUBSET (Front.targets \ spared),
             extra \in {{}} \cup {{c} : c \in {d \in Cards : ~Off(cards, d)}} :
            /\ (sub = {}) = (extra = {}) /\ (sub # {} => setting.substitutes)
            /\ LET rest == Front.targets \ (spared \cup sub)
                   back == Unconfirmed(Restored(cards, spared \cup sub), spared)
               IN /\ cards' = Given(back, extra \ rest, Substitute, "GRAVE")
                  /\ destroy_canceled' = destroy_canceled \cup sub
                  /\ GoOnAs([Front EXCEPT !.targets = rest \cup extra], 1,
                            GroupReplace(5))
  /\ UNCHANGED <<battle_destroy_rep, desrep_chain, result, setting, history>>

DestroyAsked ==
  /\ At("Destroy", 1)
  /\ GoOn(2, Each(LAMBDA c : AskReplace(0, c), Front.targets))
  /\ UNCHANGED <<cards, canceled, result, setting, history>>

(* Steps 2 and 3.  Mutant: the cards whose destruction was replaced keep the
   status of those that are destroyed. *)
StillConfirmed(f, S) == f
NotDestroyed(f, S) == Unconfirmed(f, S)

DestroyCanceled ==
  /\ At("Destroy", 2)
  /\ cards' = NotDestroyed(cards, destroy_canceled)
  /\ destroy_canceled' = {}
  /\ GoOn(3, <<>>)
  /\ UNCHANGED <<battle_destroy_rep, desrep_chain, result, setting, history>>

(* A card that something else has moved by now keeps STATUS_DESTROY_CONFIRMED
   when it is left out here: left has these cards. *)
DestroyNow ==
  /\ At("Destroy", 3)
  /\ LET gone == Settled(cards, Front.targets)  rest == Front.targets \ gone IN
       IF Front.targets = {}
       THEN /\ returns' = FALSE /\ operated_set' = {}
            /\ Finish(<<>>)
            /\ UNCHANGED <<cards, left>>
       ELSE /\ cards' = WithFlag(Restored(cards, gone), rest, "DESTROY")
            /\ left' = left \cup {c \in gone : cards[c].confirmed}
            /\ GoOnAs([Front EXCEPT !.targets = rest], 4, Events)
            /\ UNCHANGED result
  /\ UNCHANGED <<canceled, setting, acts, moved, loose>>

DestroySends ==
  /\ At("Destroy", 4)
  /\ cards' = Unconfirmed(cards, Front.targets)
  /\ left' = left \ Front.targets
  /\ GoOn(5, GroupReplace(5) \o
             <<SendTo(1, Front.targets, Flagged(Front.reason, "DESTROY"))>>)
  /\ UNCHANGED <<canceled, result, setting, acts, moved, loose>>

DestroyOver ==
  /\ At("Destroy", 5)
  /\ operated_set' = {c \in Front.targets : "REPLACE" \notin cards[c].reason.flags}
  /\ returns' = (operated_set' # {})
  /\ Finish(<<>>)
  /\ UNCHANGED <<cards, canceled, setting, history>>

(* Steps 10 to 12, for the losers of a battle, and steps 29 to 33 of
   BattleCommand, which goes on with their group. *)
BattleDestroy ==
  /\ At("Destroy", 10)
  /\ \E spared \in SUBSET Front.targets :
       /\ {c \in Front.targets : Indestructible(c)} \subseteq spared
       /\ \E sub \in SUBSET (Front.targets \ spared), extra \in SUBSET Cards :
            /\ (sub = {}) = (extra = {}) /\ (sub # {} => setting.substitutes)
            /\ Cardinality(extra) <= 1
            /\ cards' = Unconfirmed(Restored(cards, spared \cup sub), spared)
            /\ destroy_canceled' = destroy_canceled \cup sub
            /\ battle_destroy_rep' = battle_destroy_rep \cup extra
            /\ GoOnAs([Front EXCEPT !.targets = @ \ (spared \cup sub)], 11,
                      GroupReplace(12))
  /\ UNCHANGED <<desrep_chain, result, setting, history>>

BattleDestroyAsked ==
  /\ At("Destroy", 11)
  /\ GoOn(12, Each(LAMBDA c : AskReplace(10, c), Front.targets))
  /\ UNCHANGED <<cards, canceled, result, setting, history>>

BattleDestroyOver ==
  /\ At("Destroy", 12)
  /\ cards' = NotDestroyed(cards, destroy_canceled)
  /\ destroy_canceled' = {}
  /\ units' = <<[units[2] EXCEPT !.targets = Front.targets]>>
              \o SubSeq(units, 3, Len(units))
  /\ UNCHANGED <<battle_destroy_rep, desrep_chain, result, setting, history>>

Battle(T) == [kind |-> "Battle", step |-> 29, targets |-> T]

BattleReplaced ==
  /\ At("Battle", 29)
  /\ LET T == NotConfirmed(cards, battle_destroy_rep) IN
       /\ cards' = Confirmed(cards, T, Flagged(Reason("EFFECT", 0), "REPLACE"))
       /\ GoOn(30, (IF battle_destroy_rep = {} THEN <<>>
                    ELSE <<Destroy(0, T, Flagged(Reason("EFFECT", 0), "REPLACE"))>>)
                   \o (IF desrep_chain = 0 THEN <<>>
                       ELSE <<OperationReplace(15, None)>>))
  /\ UNCHANGED <<canceled, result, setting, history>>

BattleDestroyed ==
  \/ /\ At("Battle", 30)
     /\ cards' = Unconfirmed(cards, Front.targets)
     /\ left' = left \ Front.targets
     /\ GoOn(33, <<Effect>>)
     /\ UNCHANGED <<canceled, result, setting, acts, moved, loose>>
  \/ /\ At("Battle", 33)
     /\ LET des == {c \in Front.targets : cards[c].loc = "MZONE"} IN
          Finish(<<Destroy(3, des, Reason("BATTLE", 0))>>)
     /\ UNCHANGED <<cards, canceled, result, setting, history>>

-----------------------------------------------------------------------------
(* Release. *)

(* Steps 0 and 1: cards that cannot be released are left out. *)
ReleaseChecked ==
  /\ At("Release", 0)
  /\ \E kept \in SUBSET Front.targets :
       /\ Front.reason.kind \in {"RULE", "COST"} => kept = {}
       /\ cards' = Restored(cards, kept)
       /\ GoOnAs([Front EXCEPT !.targets = @ \ kept], 1,
                 IF Front.reason.kind = "RULE" THEN <<>> ELSE GroupReplace(5))
  /\ UNCHANGED <<canceled, result, setting, history>>

ReleaseAsked ==
  /\ At("Release", 1)
  /\ GoOn(2, Each(LAMBDA c : AskReplace(0, c), Front.targets))
  /\ UNCHANGED <<cards, canceled, result, setting, history>>

ReleaseNow ==
  /\ At("Release", 2)
  /\ LET gone == Settled(cards, Front.targets)  rest == Front.targets \ gone IN
       IF Front.targets = {}
       THEN /\ returns' = FALSE /\ operated_set' = {}
            /\ Finish(<<>>)
            /\ UNCHANGED cards
       ELSE /\ cards' = WithFlag(Restored(cards, gone), rest, "RELEASE")
            /\ GoOnAs([Front EXCEPT !.targets = rest], 3, <<>>)
            /\ UNCHANGED result
  /\ UNCHANGED <<canceled, setting, history>>

ReleaseSends ==
  /\ At("Release", 3)
  /\ GoOn(4, GroupReplace(5) \o
             <<SendTo(1, Front.targets, Flagged(Front.reason, "RELEASE"))>>)
  /\ UNCHANGED <<cards, canceled, result, setting, history>>

ReleaseOver ==
  /\ At("Release", 4)
  /\ operated_set' = Front.targets /\ returns' = (Front.targets # {})
  /\ Finish(<<>>)
  /\ UNCHANGED <<cards, canceled, setting, history>>

-----------------------------------------------------------------------------
(* What replaces: DestroyReplace, ReleaseReplace, SendToReplace and
   OperationReplace.  They belong to the first unit below that has targets. *)
OwnerIndex ==
  CHOOSE i \in 2 .. Len(units) :
    /\ units[i].kind \in {"Destroy", "Release", "SendTo"}
    /\ \A j \in 2 .. i - 1 : units[j].kind \notin {"Destroy", "Release", "SendTo"}
Owner == units[OwnerIndex]
Targets == Owner.targets
TakenOut(S) == [units EXCEPT ![OwnerIndex].targets = @ \ S]

(* A card that is where it would go is taken out, whatever moved it. *)
There(c) ==
  IF Owner.kind = "SendTo"
  THEN /\ c \in Targets
       /\ cards[c].loc = cards[c].dest /\ cards[c].controler = 0
  ELSE cards[c].loc \in {"GRAVE", "REMOVED"}

AskedToReplace ==
  /\ units # <<>> /\ Front.kind = "Ask"
  /\ LET c == Front.target IN
     \/ /\ There(c)
        /\ LET back == Restored(cards, {c}) IN
             cards' = IF Owner.kind = "Destroy" THEN Unconfirmed(back, {c}) ELSE back
        /\ units' = Tail(TakenOut({c}))
        /\ UNCHANGED returns
     \/ /\ ~There(c)
        /\ LET asks == c \in Targets /\ (Owner.kind # "Destroy" =>
                                           cards[c].reason.kind # "RULE")
           IN /\ returns' = (returns /\ ~asks)
              /\ Finish(IF asks THEN CardReplace(Front.step, c) ELSE <<>>)
        /\ UNCHANGED cards
  /\ UNCHANGED <<canceled, operated_set, setting, history>>

(* The cards that are replaced, but for those that destroy themselves. *)
Replaceable(S) == {c \in S : cards[c].reason.kind # "SELF"}
Replaced(S) ==
  /\ cards' = Restored(cards, S)
  /\ destroy_canceled' = IF Owner.kind = "Destroy" THEN destroy_canceled \cup S
                                                  ELSE destroy_canceled

(* Steps 0 to 3 for one card and 5 to 8 for a group, where the operation
   runs, and for the losers of a battle 10 to 13, where it waits in
   desrep_chain until step 15. *)
NotReplaced ==
  /\ units # <<>> /\ Front.kind = "Replace" /\ Front.step \in {0, 5, 10, 12}
  /\ returns' = (returns /\ Front.step \in {0, 10})
  /\ Finish(<<>>)
  /\ UNCHANGED <<cards, canceled, operated_set, setting, history>>

ReplacedForCard ==
  /\ At("Replace", 0) /\ ~returns
  /\ LET T == Replaceable({Front.target}) IN
       /\ Replaced(T)
       /\ units' = <<Effect>> \o [TakenOut(T) EXCEPT ![1].step = 3]
  /\ returns' = TRUE
  /\ UNCHANGED <<battle_destroy_rep, desrep_chain, operated_set, setting, history>>

ReplacedForGroup ==
  /\ At("Replace", 5) /\ Targets # {}
  /\ \E S \in SUBSET Targets :
       LET T == Replaceable(S) IN
       /\ S # {}
       /\ Replaced(T)
       /\ units' = <<Effect>> \o [TakenOut(T) EXCEPT ![1].step = 8]
  /\ returns' = TRUE
  /\ UNCHANGED <<battle_destroy_rep, desrep_chain, operated_set, setting, history>>

SavedForCard ==
  /\ At("Replace", 10) /\ ~returns
  /\ Replaced({Front.target})
  /\ units' = Tail(TakenOut({Front.target}))
  /\ desrep_chain' = desrep_chain + 1
  /\ returns' = TRUE
  /\ UNCHANGED <<battle_destroy_rep, operated_set, setting, history>>

SavedForGroup ==
  /\ At("Replace", 12) /\ Targets # {}
  /\ \E S \in SUBSET Targets :
       /\ S # {}
       /\ Replaced(S)
       /\ units' = Tail(TakenOut(S))
  /\ desrep_chain' = desrep_chain + 1
  /\ returns' = TRUE
  /\ UNCHANGED <<battle_destroy_rep, operated_set, setting, history>>

OperationReplaced ==
  \/ /\ \/ At("Replace", 3) \/ At("Replace", 8)
     /\ Finish(<<>>)
     /\ UNCHANGED <<cards, canceled, result, setting, history>>
  \/ /\ At("Replace", 15)
     /\ IF desrep_chain = 0 THEN Finish(<<>>) /\ UNCHANGED desrep_chain
        ELSE GoOn(15, <<Effect>>) /\ desrep_chain' = desrep_chain - 1
     /\ UNCHANGED <<cards, destroy_canceled, battle_destroy_rep, result, setting,
                    history>>

-----------------------------------------------------------------------------
(* SendTo. *)

(* Steps 0 and 1: cards that cannot be sent there are left out, but not when
   the rules send them.  Mutant: then, too. *)
AnyLeftOut(S) == SUBSET S
LeftOut(S) == IF Front.reason.kind = "RULE" THEN {{}} ELSE SUBSET S

SendChecked ==
  /\ At("SendTo", 0)
  /\ \E kept \in LeftOut(Front.targets) :
       /\ cards' = Restored(cards, kept)
       /\ GoOnAs([Front EXCEPT !.targets = @ \ kept], 1,
                 IF Front.reason.kind = "RULE" THEN <<>> ELSE GroupReplace(5))
  /\ UNCHANGED <<canceled, result, setting, history>>

SendAsked ==
  /\ At("SendTo", 1)
  /\ GoOn(2, Each(LAMBDA c : AskReplace(0, c), Front.targets))
  /\ UNCHANGED <<cards, canceled, result, setting, history>>

(* Step 2: cards are about to leave the field. *)
SendNow ==
  /\ At("SendTo", 2)
  /\ IF Front.targets = {}
     THEN returns' = FALSE /\ operated_set' = {} /\ Finish(<<>>)
     ELSE /\ GoOn(3, IF \E c \in Front.targets : ~Off(cards, c) THEN Events ELSE <<>>)
          /\ UNCHANGED result
  /\ UNCHANGED <<cards, canceled, setting, history>>

(* Steps 3 and 4: EFFECT_LEAVE_FIELD_REDIRECT and the like. *)
Redirect ==
  /\ At("SendTo", 3)
  /\ \E R \in SUBSET (Front.targets \ Tokens), dest \in {"REMOVED", "DECK"} :
       /\ R # {} => setting.redirects
       /\ \A c \in R : cards[c].loc # dest
       /\ cards' = Change(WithFlag(cards, R, "REDIRECT"), R,
                          LAMBDA x : [x EXCEPT !.dest = dest])
  /\ GoOnAs([Front EXCEPT !.cv = Front.targets], 5, <<>>)
  /\ UNCHANGED <<canceled, result, setting, history>>

(* Steps 5 to 8, card by card.  Instead of going to the grave a card may
   stay in the spell zone, and an effect acts.  Mutant: xyz_remove is not
   called. *)
StillUnder(x) == [x EXCEPT !.loc = x.dest, !.controler = 0, !.facedown = FALSE]
Sent(x) == [x EXCEPT !.loc = x.dest, !.controler = 0, !.facedown = FALSE,
                     !.overlay_target = None]
SendCard ==
  /\ At("SendTo", 5) /\ Front.cv # {}
  /\ LET c == CHOOSE c \in Front.cv : TRUE
         unit == [Front EXCEPT !.cv = @ \ {c},
                    !.leave = IF cards[c].loc \in OnField \cup {"GRAVE"} THEN @ \cup {c}
                              ELSE @]
     IN /\ moved' = [moved EXCEPT ![c] = cards[c].reason]
        /\ \/ /\ cards' = [cards EXCEPT ![c] =
                     IF c \in Tokens THEN [@ EXCEPT !.loc = "NOWHERE"]
                     ELSE IF @.loc # @.dest \/ @.controler # 0 THEN Sent(@) ELSE @]
              /\ GoOnAs(unit, 5, <<>>)
           \/ /\ setting.redirects /\ c \notin Tokens \cup Equips
              /\ cards[c].dest = "GRAVE" /\ cards[c].loc = "MZONE"
              /\ cards' = [cards EXCEPT ![c].loc = "SZONE", ![c].facedown = FALSE]
              /\ GoOnAs(unit, 5, <<Effect>>)
  /\ UNCHANGED <<canceled, result, setting, acts, left, loose>>

(* Step 9. *)
CardsLeft ==
  /\ At("SendTo", 5) /\ Front.cv = {}
  /\ GoOn(10, IF Front.leave = {} THEN <<>> ELSE Events)
  /\ UNCHANGED <<cards, canceled, result, setting, history>>

(* Step 10: equips that have lost their monster are destroyed, materials go
   to the grave. *)
CardsArrived ==
  /\ At("SendTo", 10)
  /\ LET T == Front.targets
         equips == {e \in EquipsOf(cards, T) : cards[e].loc = "SZONE"}
         free == Unequipped(cards, T \cup EquipsOf(cards, T))
         des == NotConfirmed(cards, equips)
         over == Materials(cards, T)
     IN /\ cards' = Given(Confirmed(free, des, Rule), over, Rule, "GRAVE")
        /\ GoOn(11, Events
               \o (IF equips = {} THEN <<>> ELSE <<Destroy(0, des, Rule)>>)
               \o (IF over = {} THEN <<>> ELSE <<SendTo(0, over, Rule)>>))
  /\ UNCHANGED <<canceled, result, setting, history>>

SendOver ==
  /\ At("SendTo", 11)
  /\ operated_set' = Front.targets /\ returns' = (Front.targets # {})
  /\ Finish(<<>>)
  /\ UNCHANGED <<cards, canceled, setting, history>>

-----------------------------------------------------------------------------
(* MoveToField: a card comes to the field, or changes its zone or side. *)

(* Step 0 for the field zone: the card that is there is sent to the grave,
   or destroyed under DUEL_1_FACEUP_FIELD. *)
InFieldZone(p) == {d \in Cards : cards[d].loc = "FZONE" /\ cards[d].controler = p}
FieldReplaced ==
  /\ At("ToField", 0) /\ Front.location = "FZONE"
  /\ returns' = FALSE
  /\ LET old == InFieldZone(Front.playerid)  des == NotConfirmed(cards, old) IN
     \/ /\ old = {}
        /\ GoOn(1, <<>>)
        /\ UNCHANGED cards
     \/ /\ old # {}
        /\ cards' = Given(cards, old, Rule, "GRAVE")
        /\ GoOn(1, <<SendTo(0, old, Rule)>>)
     \/ /\ old # {}
        /\ cards' = Confirmed(cards, des, Rule)
        /\ GoOn(1, <<Destroy(0, des, Rule)>>)
  /\ UNCHANGED <<canceled, operated_set, setting, history>>

(* Mutant: an equip that leaves the spell zone is not unequipped. *)
StillEquipped(x, p, loc, down) ==
  [x EXCEPT !.loc = loc, !.controler = p, !.overlay_target = None,
            !.facedown = down]
Placed(x, p, loc, down) ==
  [x EXCEPT !.loc = loc, !.controler = p, !.overlay_target = None,
            !.facedown = down,
            !.equiping_target = IF x.loc = "SZONE" THEN None ELSE @]

(* move_card refuses a field zone that is taken still, or again: the card
   stays and is turned, and a material is nowhere. *)
NotPlaced(x, down) ==
  [x EXCEPT !.loc = IF @ = "OVERLAY" THEN "NOWHERE" ELSE @,
            !.overlay_target = None, !.facedown = down]

(* Steps 0 to 2: there is no room, or the card moves.  What it carried does
   not follow it to the spell zones; but a monster that is face-down in a
   monster zone then keeps its equips, which are loose. *)
MoveCard ==
  /\ At("ToField", IF Front.location = "FZONE" THEN 1 ELSE 0)
  /\ \/ /\ Front.location # "FZONE"
        /\ returns' = FALSE
        /\ Finish(<<>>)
        /\ UNCHANGED <<cards, moved, loose>>
     \/ LET c == Front.target  p == Front.playerid  down == Front.facedown
            refused == Front.location = "FZONE" /\ InFieldZone(p) # {}
            now == [cards EXCEPT ![c] = IF refused THEN NotPlaced(@, down)
                                        ELSE Placed(@, p, Front.location, down)]
            away == now[c].loc # "MZONE"
            equips == IF away THEN EquipsOf(now, {c}) ELSE {}
            over == IF away THEN Materials(now, {c}) ELSE {}
            des == NotConfirmed(now, equips)
        IN /\ cards' = Given(Unequipped(Confirmed(now, des, Rule), equips), over,
                             Rule, "GRAVE")
           /\ moved' = IF refused THEN moved ELSE [moved EXCEPT ![c] = cards[c].reason]
           /\ loose' = IF down /\ ~away THEN loose \cup EquipsOf(now, {c}) ELSE loose
           /\ GoOn(3, (IF equips = {} THEN <<>> ELSE <<Destroy(0, des, Rule)>>)
                      \o (IF over = {} THEN <<>> ELSE <<SendTo(0, over, Rule)>>)
                      \o Events)
           /\ UNCHANGED returns
  /\ UNCHANGED <<canceled, operated_set, setting, acts, left>>

CardMoved ==
  /\ At("ToField", 3)
  /\ returns' = TRUE
  /\ Finish(<<>>)
  /\ UNCHANGED <<cards, canceled, operated_set, setting, history>>

(* field::move_to_field does nothing for a card that is there, but a field
   spell in the field zone is in LOCATION_SZONE, not LOCATION_FZONE. *)
Location(c) == IF cards[c].loc = "FZONE" THEN "SZONE" ELSE cards[c].loc
MoveTo(c, p, loc, down) ==
  IF Location(c) = loc /\ cards[c].controler = p THEN <<>>
  ELSE <<MoveToField(c, p, loc, down)>>

-----------------------------------------------------------------------------
(* ChangePos, to face-down defense.  Steps 0 to 4: equips lose their monster
   and are destroyed.  Trap monsters go to the spell zone; those for which
   there is no room there go to the grave instead. *)
CanBeSet(c) == cards[c].loc \in OnField /\ ~cards[c].facedown
PositionsChanged ==
  /\ At("Pos", 0)
  /\ \E kept \in SUBSET Front.targets, crowded \in SUBSET TrapMonsters :
       LET T == {c \in Front.targets \ kept : CanBeSet(c)}
           traps == {c \in T \cap TrapMonsters : cards[c].loc = "MZONE"}
           down == T \ (Tokens \cup crowded)
           set == Change(cards, down, LAMBDA x : [x EXCEPT !.facedown = TRUE])
           equips == EquipsOf(cards, down)
           des == NotConfirmed(cards, equips)
           ToSpellZone(c) == MoveToField(c, cards[c].controler, "SZONE", TRUE)
       IN /\ crowded \subseteq traps
          /\ cards' = Given(Confirmed(Unequipped(set, down \cup equips), des, Rule),
                            crowded, Rule, "GRAVE")
          /\ GoOnAs([Front EXCEPT !.targets = T \ crowded], 5,
                Each(ToSpellZone, traps \ crowded) \o Events
                \o (IF equips = {} THEN <<>> ELSE <<Destroy(0, des, Rule)>>)
                \o (IF crowded = {} THEN <<>> ELSE <<SendTo(0, crowded, Rule)>>))
  /\ UNCHANGED <<canceled, result, setting, history>>

PositionsOver ==
  /\ At("Pos", 5)
  /\ operated_set' = Front.targets /\ returns' = (Front.targets # {})
  /\ Finish(<<>>)
  /\ UNCHANGED <<cards, canceled, setting, history>>

-----------------------------------------------------------------------------
(* GetControl, by player 1. *)

(* Steps 0 to 2: cards for which there is no room will be destroyed. *)
ControlChecked ==
  /\ At("Control", 0)
  /\ \E kept \in SUBSET Front.targets, crowded \in SUBSET Front.targets :
       LET T == {c \in Front.targets \ kept :
                  cards[c].loc = "MZONE" /\ cards[c].controler = 0}
       IN /\ crowded \subseteq T
          /\ GoOnAs([Front EXCEPT !.targets = T \ crowded, !.rest = T \ crowded,
                                  !.destroy_set = crowded],
                    IF T \subseteq crowded THEN 6 ELSE 3, <<>>)
  /\ UNCHANGED <<cards, canceled, result, setting, history>>

(* Steps 3 and 4, for each of them, wherever it is by now. *)
TakeControl ==
  /\ At("Control", 3)
  /\ IF Front.rest = {} THEN GoOn(5, <<>>)
     ELSE LET c == CHOOSE c \in Front.rest : TRUE IN
          GoOnAs([Front EXCEPT !.rest = @ \ {c}], 3, MoveTo(c, 1, "MZONE", cards[c].facedown))
  /\ UNCHANGED <<cards, canceled, result, setting, history>>

ControlTaken ==
  /\ At("Control", 5)
  /\ GoOnAs([Front EXCEPT !.targets = {c \in @ : ~Off(cards, c)}], 6, Events)
  /\ UNCHANGED <<cards, canceled, result, setting, history>>

CrowdedDestroyed ==
  /\ At("Control", 6)
  /\ LET des == NotConfirmed(cards, Front.destroy_set) IN
       /\ cards' = Confirmed(cards, des, Rule)
       /\ GoOn(7, IF Front.destroy_set = {} THEN <<>>
                  ELSE <<Destroy(0, des, Rule)>>)
  /\ UNCHANGED <<canceled, result, setting, history>>

ControlOver ==
  /\ At("Control", 7)
  /\ operated_set' = Front.targets /\ returns' = (Front.targets # {})
  /\ Finish(<<>>)
  /\ UNCHANGED <<cards, canceled, setting, history>>

-----------------------------------------------------------------------------
(* Equip. *)

Carries(t) == cards[t].loc = "MZONE" /\ ~cards[t].facedown

(* Step 0: without a monster or a zone to go to, the equip goes to the
   grave.  Equip leaves a face-down card so if it is asked to. *)
EquipPlaced ==
  /\ At("Equip", 0)
  /\ returns' = FALSE
  /\ LET c == Front.equip_card  x == cards[c] IN
     \/ /\ ~Carries(Front.target) \/ x.loc # "SZONE"
        /\ cards' = IF x.loc = "GRAVE" THEN cards
                    ELSE Given(cards, {c}, Rule, "GRAVE")
        /\ GoOn(3, IF x.loc = "GRAVE" THEN <<>> ELSE <<SendTo(0, {c}, Rule)>>)
     \/ /\ Carries(Front.target)
        /\ \E down \in {FALSE, x.facedown} :
             /\ cards' = [cards EXCEPT ![c] =
                  IF x.equiping_target # None THEN [x EXCEPT !.equiping_target = None]
                  ELSE IF x.loc = "SZONE" THEN [x EXCEPT !.facedown = down]
                  ELSE x]
             /\ GoOn(1, IF x.equiping_target # None THEN <<>>
                        ELSE MoveTo(c, 0, "SZONE", down))
  /\ UNCHANGED <<canceled, operated_set, setting, history>>

(* Step 1 looks neither at the monster again, nor at what MoveToField did;
   loose has the equips for which that matters. *)
Loose(c, t) == cards[c].loc # "SZONE" \/ ~Carries(t)

EquipAttached ==
  /\ At("Equip", 1)
  /\ LET c == Front.equip_card  t == Front.target IN
       IF cards[c].equiping_target # None THEN UNCHANGED <<cards, loose>>
       ELSE /\ cards' = [cards EXCEPT ![c].equiping_target = t]
            /\ loose' = IF Loose(c, t) THEN loose \cup {c} ELSE loose
  /\ GoOn(2, Events)
  /\ UNCHANGED <<canceled, result, setting, acts, moved, left>>

EquipOver ==
  /\ \/ At("Equip", 2) /\ returns' = TRUE
     \/ At("Equip", 3) /\ returns' = FALSE
  /\ Finish(<<>>)
  /\ UNCHANGED <<cards, canceled, operated_set, setting, history>>

-----------------------------------------------------------------------------
(* XyzOverlay and RemoveOverlay. *)

MaterialsSent ==
  /\ At("Xyz", 0)
  /\ LET over == Materials(cards, Front.materials) IN
       /\ cards' = IF Front.to_grave THEN Given(cards, over, Rule, "GRAVE")
                   ELSE cards
       /\ GoOn(1, IF Front.to_grave THEN <<SendTo(0, over, Rule)>> ELSE <<>>)
  /\ UNCHANGED <<canceled, result, setting, history>>

(* The materials come under the monster with those under them, wherever it
   is by now. *)
MaterialsAttached ==
  /\ At("Xyz", 1)
  /\ LET t == Front.target
         M == {m \in Front.materials : cards[m].overlay_target # t}
              \cup (IF Front.to_grave THEN {} ELSE Materials(cards, Front.materials))
         equips == EquipsOf(cards, M)
         under == Change(cards, M, LAMBDA x :
                    [x EXCEPT !.loc = "OVERLAY", !.controler = 0, !.facedown = FALSE,
                      !.overlay_target = t, !.reason = Reason("XYZ", 0)])
         des == NotConfirmed(cards, equips)
     IN /\ cards' = Confirmed(Unequipped(under, M \cup equips), des, Rule)
        /\ moved' = [m \in Cards |-> IF m \in M THEN Reason("XYZ", 0) ELSE moved[m]]
        /\ loose' = loose \cup (IF cards[t].loc = "MZONE" THEN {} ELSE M)
                         \cup (Materials(cards, M) \ M)
        /\ GoOn(2, (IF \E m \in M : cards[m].loc = "GRAVE" THEN Events ELSE <<>>)
                   \o (IF equips = {} THEN <<>> ELSE <<Destroy(0, des, Rule)>>))
  /\ UNCHANGED <<canceled, result, setting, acts, left>>

OverlayOver ==
  /\ At("Xyz", 2)
  /\ Finish(<<>>)
  /\ UNCHANGED <<cards, canceled, result, setting, history>>

(* Steps 2 and 3 of RemoveOverlay. *)
MaterialsDetached ==
  \/ /\ At("Detach", 2)
     /\ \E M \in SUBSET Materials(cards, Cards) :
          /\ cards' = Given(cards, M, Reason("COST", acts), "GRAVE")
          /\ GoOn(4, <<SendTo(0, M, Reason("COST", acts))>>)
     /\ UNCHANGED <<canceled, result, setting, history>>
  \/ /\ At("Detach", 4)
     /\ Finish(<<>>)
     /\ UNCHANGED <<cards, canceled, result, setting, history>>

-----------------------------------------------------------------------------
(* What effects do, between the units and in the middle of them: the
   functions of field that create a unit.  Only a battle and the effects
   that destroy the card they are on (SelfDestroy) come between the units. *)

Act(name) ==
  /\ units = <<>> \/ At("Effect", 0)
  /\ name \in setting.acts /\ acts < setting.max_acts
  /\ acts' = acts + 1
Start(batch) == units' = batch \o (IF units = <<>> THEN <<>> ELSE Tail(units))
Alive(c) == cards[c].loc # "NOWHERE"
Chosen(S) == {T \in SUBSET S : T # {} /\ Cardinality(T) <= 2}
NewReason(kind) == Reason(kind, acts + 1)

DestroyCards ==
  /\ Act("destroy")
  /\ \E T \in Chosen({c \in Cards : Alive(c)}) :
       LET D == NotConfirmed(cards, T)  r == NewReason("EFFECT") IN
       /\ cards' = Confirmed(cards, D, r)
       /\ Start(<<Destroy(0, D, r)>>)
  /\ UNCHANGED <<canceled, result, setting, moved, left, loose>>

ReleaseCards ==
  /\ Act("release")
  /\ \E T \in Chosen({c \in Cards : ~Off(cards, c)}), kind \in {"EFFECT", "COST"} :
       /\ cards' = Given(cards, T, NewReason(kind), "GRAVE")
       /\ Start(<<Release(T, NewReason(kind))>>)
  /\ UNCHANGED <<canceled, result, setting, moved, left, loose>>

SendCards ==
  /\ Act("send")
  /\ \E T \in Chosen({c \in Cards : Alive(c)}), dest \in {"HAND", "REMOVED"} :
       /\ cards' = Given(cards, T, NewReason("EFFECT"), dest)
       /\ Start(<<SendTo(0, T, NewReason("EFFECT"))>>)
  /\ UNCHANGED <<canceled, result, setting, moved, left, loose>>

LoseBattle ==
  /\ units = <<>> /\ Act("battle")
  /\ \E T \in Chosen({c \in Cards : cards[c].loc = "MZONE"}) :
       /\ cards' = Confirmed(cards, T, NewReason("BATTLE"))
       /\ Start(<<Destroy(10, T, NewReason("BATTLE")), Battle({})>>)
  /\ battle_destroy_rep' = {} /\ desrep_chain' = 0
  /\ UNCHANGED <<destroy_canceled, result, setting, moved, left, loose>>

PlaceCard ==
  /\ Act("place")
  /\ \E c \in {d \in Cards \ Tokens : Alive(d)}, loc \in OnField, down \in BOOLEAN :
       /\ loc = "FZONE" => c \in Fields
       /\ Start(MoveTo(c, 0, loc, down))
  /\ UNCHANGED <<cards, canceled, result, setting, moved, left, loose>>

SetCard ==
  /\ Act("set")
  /\ \E c \in {d \in Cards : cards[d].loc = "MZONE"} : Start(<<ChangePos({c})>>)
  /\ UNCHANGED <<cards, canceled, result, setting, moved, left, loose>>

ControlCards ==
  /\ Act("control")
  /\ \E T \in Chosen({c \in Cards : cards[c].loc = "MZONE"}) : Start(<<GetControl(T)>>)
  /\ UNCHANGED <<cards, canceled, result, setting, moved, left, loose>>

EquipCard ==
  /\ Act("equip")
  /\ \E c \in Equips, t \in Cards \ Equips : Start(<<Equip(c, t)>>)
  /\ UNCHANGED <<cards, canceled, result, setting, moved, left, loose>>

OverlayCards ==
  /\ Act("overlay")
  /\ \E t \in {d \in Cards \ Equips : cards[d].loc = "MZONE"}, send \in BOOLEAN :
       \E M \in Chosen(Cards \ (Tokens \cup {t})) : Start(<<XyzOverlay(t, M, send)>>)
  /\ UNCHANGED <<cards, canceled, result, setting, moved, left, loose>>

DetachMaterials ==
  /\ Act("detach") /\ Materials(cards, Cards) # {}
  /\ Start(<<RemoveOverlay>>)
  /\ UNCHANGED <<cards, canceled, result, setting, moved, left, loose>>

SelfDestroy ==
  /\ units = <<>> /\ Act("self")
  /\ \E c \in {d \in Cards : ~Off(cards, d)} :
       LET D == NotConfirmed(cards, {c})  r == NewReason("SELF") IN
       /\ cards' = Confirmed(Given(cards, {c} \ D, r, cards[c].dest), D, r)
       /\ Start(<<Destroy(0, D, r)>>)
  /\ UNCHANGED <<canceled, result, setting, moved, left, loose>>

NoAct ==
  /\ At("Effect", 0)
  /\ Finish(<<>>)
  /\ UNCHANGED <<cards, canceled, result, setting, history>>

Done == units = <<>> /\ UNCHANGED vars

Acting ==
  \/ DestroyCards \/ ReleaseCards \/ SendCards \/ LoseBattle \/ PlaceCard
  \/ SetCard \/ ControlCards \/ EquipCard \/ OverlayCards \/ DetachMaterials
  \/ SelfDestroy \/ NoAct

Destroying ==
  \/ DestroyChecked \/ DestroyAsked \/ DestroyCanceled \/ DestroyNow
  \/ DestroySends \/ DestroyOver \/ BattleDestroy \/ BattleDestroyAsked
  \/ BattleDestroyOver \/ BattleReplaced \/ BattleDestroyed

Replacing ==
  \/ AskedToReplace \/ NotReplaced \/ ReplacedForCard \/ ReplacedForGroup
  \/ SavedForCard \/ SavedForGroup \/ OperationReplaced

Sending ==
  \/ ReleaseChecked \/ ReleaseAsked \/ ReleaseNow \/ ReleaseSends \/ ReleaseOver
  \/ SendChecked \/ SendAsked \/ SendNow \/ Redirect \/ SendCard \/ CardsLeft
  \/ CardsArrived \/ SendOver

Placing ==
  \/ FieldReplaced \/ MoveCard \/ CardMoved \/ PositionsChanged \/ PositionsOver
  \/ ControlChecked \/ TakeControl \/ ControlTaken \/ CrowdedDestroyed
  \/ ControlOver

Attaching ==
  \/ EquipPlaced \/ EquipAttached \/ EquipOver \/ MaterialsSent
  \/ MaterialsAttached \/ OverlayOver \/ MaterialsDetached

Next == Acting \/ Destroying \/ Replacing \/ Sending \/ Placing \/ Attaching \/ Done

Spec == Init /\ [][Next]_vars

-----------------------------------------------------------------------------
(* Properties. *)

(* The variables have values that the code can give them. *)
TypeOK ==
  /\ \A i \in 1 .. Len(units) :
       /\ units[i].kind \in {"Destroy", "Release", "SendTo"} =>
            units[i].targets \subseteq Cards
       /\ units[i].kind \in {"Ask", "Replace"} /\ units[i].step # 15 =>
            \E j \in i + 1 .. Len(units) :
              units[j].kind \in {"Destroy", "Release", "SendTo"}
  /\ \A c \in Cards :
       /\ cards[c].loc \in Locations /\ cards[c].controler \in {0, 1}
       /\ cards[c].dest \in Piles
       /\ cards[c].reason.kind \in Kinds /\ cards[c].reason.flags \subseteq Flags
       /\ (cards[c].loc = "OVERLAY") = (cards[c].overlay_target # None)
  /\ destroy_canceled \cup battle_destroy_rep \cup operated_set \cup left
       \cup loose \subseteq Cards
  /\ desrep_chain \in Nat /\ returns \in BOOLEAN

(* When nothing runs no card is said to be about to be destroyed, but for
   those in left: field::destroy would ignore it for ever. *)
StatusTakenOff ==
  units = <<>> => \A c \in Cards : cards[c].confirmed => c \in left

(* As long as nothing is replaced, a card is destroyed by one Destroy at a
   time, but for the losers of a battle, who are not confirmed any more when
   they are destroyed.  A card whose destruction is replaced may be taken
   several times, until the Destroy that spared it is done with the others. *)
NothingReplaced ==
  setting.replaces = 0 /\ ~setting.group_replace /\ ~setting.substitutes
BeingDestroyed(i) ==
  IF /\ units[i].kind = "Destroy" /\ units[i].step \in 0 .. 4
     /\ units[i].reason.kind # "BATTLE"
  THEN units[i].targets ELSE {}
OneDestroyer ==
  NothingReplaced =>
    \A i, j \in 1 .. Len(units) :
      i # j => BeingDestroyed(i) \cap BeingDestroyed(j) = {}

(* STATUS_DESTROY_CONFIRMED does what it is for: it keeps a card from being
   destroyed twice at once, and never after. *)
ConfirmedDestroyed == StatusTakenOff /\ OneDestroyer

(* When nothing runs, equips are in the spell zone and equipped to face-up
   monsters, unless MoveToField turned their monster face-down. *)
EquipsOnMonsters ==
  units = <<>> =>
    \A c \in Cards \ loose :
      cards[c].equiping_target # None =>
        cards[c].loc = "SZONE" /\ Carries(cards[c].equiping_target)

(* When nothing runs, materials are under monsters.  No effect may replace
   that the rules send them to the grave with their monster; but when two
   more units, one inside the other, have overwritten their reason
   meanwhile, it is not known any more that it was the rules. *)
MaterialsUnderMonsters ==
  units = <<>> /\ (NothingReplaced \/ acts <= 2) =>
    \A c \in Cards \ loose :
      cards[c].overlay_target # None => cards[cards[c].overlay_target].loc = "MZONE"

(* When nothing runs, what is attached to a monster is where it belongs. *)
Attached == EquipsOnMonsters /\ MaterialsUnderMonsters

(* When nothing runs, the reason of a card is that of its last move. *)
ReasonKept ==
  units = <<>> /\ acts <= 1 /\ ~setting.substitutes => \A c \in Cards : cards[c].reason = moved[c]

=============================================================================
