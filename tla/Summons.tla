------------------------------ MODULE Summons ------------------------------
(* How monsters are summoned and cards are set: the units SummonRule,
   FlipSummon, MonsterSet, SpellSet, SpellSetGroup, SpSummonRule (for one
   card and for a group), SpSummonStep and SpSummon, the windows in which a
   summon can be negated, and the summons that effects start, which wait in
   core.reserved while a chain is resolved.

   One player summons; the zones of the monsters are only counted, those of
   the spells are told apart.  The reasons for which cards move are left
   out: these units only pass them on to the events. *)
EXTENDS Integers, Sequences, FiniteSets

CONSTANTS
  Cards,       \* the cards of the player
  Start,       \* where they are at first
  Tributed,    \* monsters whose Normal Summon needs a tribute
  Geminis,     \* monsters that may be summoned again on the field
  Procs,       \* monsters with summon procedures of their own
  Spells,
  FieldSpells, \* those that are set in zone 5
  Settings     \* what is looked at in one duel: see AllSettings

None == "none"

(* What players and effects start.  interrupted: effects act in the costs,
   in the operations of procedures and while events are raised.  extra: an
   effect allows one more Normal Summon.  oath_old: an attempt counts as a
   summon (DUEL_CANNOT_SUMMON_OATH_OLD).  zones: of monsters.  max_acts
   bounds what is started, chains included, and links how long a chain gets. *)
Acts == {"summon", "flip", "mset", "sset", "rule", "group", "special", "step",
         "negate", "leave"}
AllSettings ==
  [starts : SUBSET Acts, acts : SUBSET Acts, interrupted : BOOLEAN,
   extra : BOOLEAN, oath_old : BOOLEAN, zones : Nat, max_acts : Nat, links : Nat]

Locations == {"HAND", "MZONE", "SZONE", "GRAVE"}

ASSUME ConstantsAssumption ==
  /\ Start \in [Cards -> Locations \ {"SZONE"}]
  /\ Tributed \cup Geminis \cup Procs \subseteq Cards \ Spells
  /\ FieldSpells \subseteq Spells /\ Spells \subseteq Cards
  /\ \A c \in Spells : Start[c] # "MZONE"
  /\ IsFiniteSet(Cards) /\ None \notin Cards
  /\ Settings \subseteq AllSettings

VARIABLES
  units,    \* core.units, front first
  cards,    \* the cards: see TypeOK
  core,     \* what the units share: see Init
  setting,  \* which of Settings this is
  acts,     \* history: how much was started
  seen      \* history: see Init

vars == <<units, cards, core, setting, acts, seen>>

Seqs == {0, 1, 5}

(* The units.  Each uses some of the members.  group and rest are the cards
   of a unit and those of them it has still to see to. *)
Unit(kind, s, c) ==
  [kind |-> kind, step |-> s, target |-> c, ignore_count |-> FALSE, proc |-> FALSE,
   extra |-> FALSE, group |-> {}, rest |-> {}, facedown |-> FALSE, zone |-> -1]
GroupUnit(kind, s, S) == [Unit(kind, s, None) EXCEPT !.group = S]
(* ExecuteOperation, ExecuteTarget, SolveContinuous: an effect acts. *)
Effect == Unit("Effect", 0, None)
PointEvent == Unit("Point", 0, None)
MoveToField(c, down, z) ==
  [Unit("ToField", 0, c) EXCEPT !.facedown = down, !.zone = z]
SendToGrave(S) == GroupUnit("ToGrave", 0, S)

Front == Head(units)
Target == cards[Front.target]
At(kind, s) == units # <<>> /\ Front.kind = kind /\ Front.step = s
GoOnAs(unit, s, batch) ==
  units' = batch \o <<[unit EXCEPT !.step = s]>> \o Tail(units)
GoOn(s, batch) == GoOnAs(Front, s, batch)
Finish(batch) == units' = batch \o Tail(units)

(* What effects may do in the middle of a unit; what process_instant_event
   leaves to be solved; the events after a summon outside of a chain. *)
Interrupt == IF setting.interrupted THEN <<Effect>> ELSE <<>>
AfterSummon == Interrupt \o (IF core.chain = 0 THEN <<PointEvent>> ELSE <<>>)

Changed(S, New(_)) == [c \in Cards |-> IF c \in S THEN New(cards[c]) ELSE cards[c]]
Enabled(S, on) == Changed(S, LAMBDA x : [x EXCEPT !.enabled = on])
On(loc) == {c \in Cards : cards[c].loc = loc}
Room == Cardinality(On("MZONE")) < setting.zones

Init ==
  /\ setting \in Settings
  /\ units = <<>> /\ acts = 0
  /\ cards = [c \in Cards |->
       [loc |-> Start[c], seq |-> 0, facedown |-> Start[c] = "MZONE" /\ c \notin Geminis,
        enabled |-> TRUE, summoning |-> FALSE, spsummon_step |-> FALSE,
        gemini |-> FALSE]]
  /\ core = [summon_depth |-> 0, summon_count |-> 0, extra_summon |-> FALSE,
             state_count |-> 0, chain |-> 0, reserved |-> <<>>,
             special_summoning |-> {}, ss_tograve |-> {},
             szone |-> [q \in Seqs |-> None], pre_set |-> <<>>, set |-> <<>>,
             used_zones |-> {}, seq |-> <<>>]
     \* negated: cards whose latest summon was.  left: cards that an act of an effect
     \* moved away.  wrong: cards said to be summoned that were not.  tries, successes:
     \* how many summons there were.  promised: whether a summon waits for a chain.
  /\ seen = [negated |-> {}, left |-> {}, wrong |-> {},
             tries |-> 0, successes |-> 0, promised |-> FALSE]

-----------------------------------------------------------------------------
(* Moves of cards, as far as summons and sets see them. *)

ToGrave(S) ==
  /\ cards' = Changed(S, LAMBDA x :
       [x EXCEPT !.loc = "GRAVE", !.facedown = FALSE, !.enabled = TRUE, !.gemini = FALSE])
  /\ core' = [core EXCEPT !.szone =
       [q \in Seqs |->
          IF \E c \in S : cards[c].loc = "SZONE" /\ cards[c].seq = q THEN None ELSE @[q]]]

SendCards ==
  /\ At("ToGrave", 0)
  /\ ToGrave({c \in Front.group : cards[c].loc # "GRAVE"})
  /\ Finish(Interrupt)
  /\ UNCHANGED <<setting, acts, seen>>

(* MoveToField does nothing when there is no zone; what it returns is not
   read by any unit here. *)
MoveMonster ==
  /\ At("ToField", 0) /\ Front.target \notin Spells
  /\ LET c == Front.target  fits == Target.loc = "MZONE" \/ Room IN
       /\ cards' = IF fits THEN [cards EXCEPT ![c].loc = "MZONE", ![c].facedown = Front.facedown]
                   ELSE cards
       /\ seen' = IF fits THEN [seen EXCEPT !.negated = @ \ {c}] ELSE seen
       /\ Finish(IF fits THEN Interrupt ELSE <<>>)
  /\ UNCHANGED <<core, setting, acts>>

(* A Field Spell sends the one before it away; for the others the zone was
   chosen before (SpellSetGroup), or is now (zone -1, SpellSet). *)
FreeSeqs == {q \in Seqs \ {5} : core.szone[q] = None}
MoveSpell ==
  /\ At("ToField", 0) /\ Front.target \in Spells
  /\ LET c == Front.target
         zones == IF c \in FieldSpells THEN {5}
                  ELSE IF Front.zone = -1 THEN FreeSeqs ELSE FreeSeqs \cap {Front.zone}
     IN IF zones = {}
        THEN Finish(<<>>) /\ UNCHANGED <<cards, core>>
        ELSE \E q \in zones :
               /\ cards' = [Changed({d \in Cards \ {c} : core.szone[q] = d},
                                    LAMBDA x : [x EXCEPT !.loc = "GRAVE"])
                            EXCEPT ![c].loc = "SZONE", ![c].seq = q, ![c].facedown = TRUE]
               /\ core' = [core EXCEPT !.szone =
                    [r \in Seqs |-> IF r = q THEN c
                                   ELSE IF Target.loc = "SZONE" /\ r = Target.seq THEN None
                                   ELSE @[r]]]
               /\ Finish(Interrupt)
  /\ UNCHANGED <<setting, acts, seen>>

(* The success of a summon is an event for cards S: see seen.wrong. *)
Unreal(S) == {c \in S : cards[c].loc # "MZONE" \/ c \in seen.negated}
Raised(S) == [seen EXCEPT !.wrong = @ \cup Unreal(S), !.successes = @ + 1]
Tried == [seen EXCEPT !.tries = @ + 1]
CountedAs(old) == IF setting.oath_old = old THEN core.state_count + 1 ELSE core.state_count

-----------------------------------------------------------------------------
(* SummonRule: a Normal Summon, from the hand or (Gemini) on the field. *)

Limit == 1
CountOptions(u) ==
  (IF u.ignore_count \/ core.summon_count < Limit THEN {FALSE} ELSE {})
  \cup (IF setting.extra /\ ~u.ignore_count /\ ~core.extra_summon THEN {TRUE} ELSE {})
Tributes(c) == IF c \in Tributed THEN {{t} : t \in {d \in On("MZONE") \ {c} : ~cards[d].summoning}}
               ELSE {{}}
Normally(c) == IF c \in Tributed THEN Tributes(c) # {} ELSE Room

(* filter_summon_procedure: whether a procedure is used or not. *)
Procedures(u) ==
  {p \in BOOLEAN : IF p THEN u.target \in Procs /\ Room ELSE Normally(u.target)}
Summonable(u) ==
  /\ CountOptions(u) # {} /\ u.target \notin Spells
  /\ CASE Target.loc = "MZONE" -> ~Target.facedown /\ u.target \in Geminis /\ ~Target.gemini
       [] Target.loc = "HAND" -> Procedures(u) # {}
       [] OTHER -> FALSE

SummonChecked ==
  /\ At("Summon", 0)
  /\ IF Summonable(Front)
     THEN \E p \in IF Target.loc = "MZONE" THEN {FALSE} ELSE Procedures(Front) :
            /\ GoOnAs([Front EXCEPT !.proc = p], 1, <<>>)
            /\ core' = [core EXCEPT !.summon_depth = @ + 1]
     ELSE Finish(<<>>) /\ core' = core
  /\ UNCHANGED <<cards, setting, acts, seen>>

(* Step 1: which summon of the turn this is.  A Gemini takes the extra one. *)
SummonProcedure ==
  /\ At("Summon", 1)
  /\ \E e \in CountOptions(Front) :
       IF Target.loc = "MZONE"
       THEN (TRUE \in CountOptions(Front) => e) /\ GoOnAs([Front EXCEPT !.extra = e], 5, <<>>)
       ELSE GoOnAs([Front EXCEPT !.extra = e], 2, <<>>)
  /\ UNCHANGED <<cards, core, setting, acts, seen>>

(* Steps 2 and 3: the tributes, None when the player cancels, which only
   those of the idle command may. *)
Chosen(c) ==
  Tributes(c) \cup (IF Len(units) = 1 /\ c \in Tributed THEN {{None}} ELSE {})
SummonTributes ==
  /\ At("Summon", 2)
  /\ IF Front.proc THEN GoOn(4, <<>>)
     ELSE \E T \in Chosen(Front.target) : GoOnAs([Front EXCEPT !.group = T], 5, <<>>)
  /\ UNCHANGED <<cards, core, setting, acts, seen>>

SummonTarget ==
  /\ At("Summon", 4)
  /\ GoOn(5, Interrupt)
  /\ UNCHANGED <<cards, core, setting, acts, seen>>

(* Step 5: the target of the procedure may fail; the costs.
   Mutant: the depth of a summon that is given up stays. *)
StillInside(x) == x
Withdrawn(x) == [x EXCEPT !.summon_depth = @ - 1]
GivesUp == Front.proc \/ Front.group = {None}
SummonCosts ==
  /\ At("Summon", 5)
  /\ \/ /\ Front.group # {None}
        /\ GoOn(IF Target.loc = "MZONE" THEN 10 ELSE IF Front.proc THEN 7 ELSE 6, Interrupt)
        /\ core' = core
     \/ /\ GivesUp /\ Target.loc # "MZONE"
        /\ Finish(<<>>)
        /\ core' = Withdrawn(core)
  /\ UNCHANGED <<cards, setting, acts, seen>>

(* Steps 6 and 7: the tributes are released, or the procedure operates. *)
SummonReleased ==
  /\ At("Summon", 6)
  /\ GoOn(8, IF Front.group = {} THEN <<>> ELSE <<SendToGrave(Front.group \cap On("MZONE"))>>)
  /\ UNCHANGED <<cards, core, setting, acts, seen>>

SummonOperation ==
  /\ At("Summon", 7)
  /\ GoOn(8, Interrupt)
  /\ UNCHANGED <<cards, core, setting, acts, seen>>

(* What counts, and an inner summon, which ends at step 8 or 10. *)
Counts(u, x) ==
  IF u.ignore_count THEN x
  ELSE IF u.extra THEN [x EXCEPT !.extra_summon = TRUE]
  ELSE [x EXCEPT !.summon_count = @ + 1]
(* Mutant: the inner summon is counted like any other. *)
NeverInner(u, x) == FALSE
Inner(u, x) == x.summon_depth > 0
SummonCounted ==
  /\ At("Summon", 8)
  /\ LET x == [core EXCEPT !.summon_depth = @ - 1] IN
       IF Inner(Front, x) THEN Finish(<<>>) /\ core' = x
       ELSE GoOn(9, IF Front.extra THEN Interrupt ELSE <<>>) /\ core' = Counts(Front, x)
  /\ UNCHANGED <<cards, setting, acts, seen>>

SummonMoves ==
  /\ At("Summon", 9)
  /\ cards' = Enabled({Front.target}, FALSE)
  /\ GoOn(12, <<MoveToField(Front.target, FALSE, 0)>>)
  /\ UNCHANGED <<core, setting, acts, seen>>

GeminiSummoned ==
  /\ At("Summon", 10)
  /\ LET x == [core EXCEPT !.summon_depth = @ - 1] IN
       /\ core' = x
       /\ IF Inner(Front, x) THEN Finish(<<>>) /\ UNCHANGED <<cards, seen>>
          ELSE /\ cards' = [Enabled({Front.target}, FALSE) EXCEPT ![Front.target].gemini = TRUE]
               /\ seen' = [seen EXCEPT !.negated = @ \ {Front.target}]
               /\ GoOn(11, <<>>)
  /\ UNCHANGED <<setting, acts>>

GeminiCounted ==
  /\ At("Summon", 11)
  /\ core' = Counts(Front, core)
  /\ GoOn(12, IF Front.extra THEN Interrupt ELSE <<>>)
  /\ UNCHANGED <<cards, setting, acts, seen>>

(* Step 12 counts the attempt. *)
Summoning ==
  /\ At("Summon", 12)
  /\ core' = [core EXCEPT !.state_count = CountedAs(TRUE)]
  /\ seen' = Tried
  /\ GoOn(13, Interrupt)
  /\ UNCHANGED <<cards, setting, acts>>

(* Steps 13 and 14: outside of a chain, the summon can be negated, unless an
   effect keeps it from that (EFFECT_CANNOT_DISABLE_SUMMON). *)
SummonWindow ==
  /\ At("Summon", 13)
  /\ \/ GoOn(16, <<>>) /\ UNCHANGED <<cards, seen>>
     \/ /\ core.chain = 0
        /\ cards' = [cards EXCEPT ![Front.target].summoning = TRUE]
        /\ seen' = [seen EXCEPT !.negated = @ \ {Front.target}]
        /\ GoOn(15, Interrupt \o <<PointEvent>>)
  /\ UNCHANGED <<core, setting, acts>>

(* A negated card that is on the field, by whatever way, goes to the grave. *)
Negated ==
  Finish((IF Target.loc = "MZONE" THEN <<SendToGrave({Front.target})>> ELSE <<>>)
         \o <<PointEvent>>)
SummonAsked ==
  /\ At("Summon", 15)
  /\ IF Target.summoning THEN GoOn(16, <<>>) ELSE Negated
  /\ UNCHANGED <<cards, core, setting, acts, seen>>

Complete(S) ==
  Changed(S, LAMBDA x : [x EXCEPT !.summoning = FALSE, !.enabled = TRUE])
SummonCompleted ==
  /\ At("Summon", 16)
  /\ cards' = Complete({Front.target})
  /\ GoOn(17, <<>>)
  /\ UNCHANGED <<core, setting, acts, seen>>

SummonMaterials ==
  /\ At("Summon", 17)
  /\ GoOn(18, Interrupt)
  /\ UNCHANGED <<cards, core, setting, acts, seen>>

SummonSucceeded ==
  /\ At("Summon", 18)
  /\ core' = [core EXCEPT !.state_count = CountedAs(FALSE)]
  /\ seen' = Raised({Front.target})
  /\ Finish(AfterSummon)
  /\ UNCHANGED <<cards, setting, acts>>

-----------------------------------------------------------------------------
(* FlipSummon. *)

FlipChecked ==
  /\ At("Flip", 0)
  /\ IF Target.loc = "MZONE" /\ Target.facedown THEN GoOn(1, Interrupt) ELSE Finish(<<>>)
  /\ UNCHANGED <<cards, core, setting, acts, seen>>

(* Without EFFECT_CANNOT_DISABLE_FLIP_SUMMON the summon can be negated. *)
FlipTurned ==
  /\ At("Flip", 1)
  /\ \E window \in BOOLEAN :
       /\ cards' = [cards EXCEPT ![Front.target].facedown = FALSE,
                                 ![Front.target].summoning = @ \/ window]
       /\ IF window THEN GoOn(2, Interrupt \o <<PointEvent>>) ELSE GoOn(3, <<>>)
  /\ core' = [core EXCEPT !.state_count = CountedAs(TRUE)]
  /\ seen' = [Tried EXCEPT !.negated = @ \ {Front.target}]
  /\ UNCHANGED <<setting, acts>>

FlipAsked ==
  /\ At("Flip", 2)
  /\ IF Target.summoning THEN GoOn(3, <<>>) ELSE Negated
  /\ UNCHANGED <<cards, core, setting, acts, seen>>

FlipCompleted ==
  /\ At("Flip", 3)
  /\ cards' = Complete({Front.target})
  /\ GoOn(4, <<>>)
  /\ UNCHANGED <<core, setting, acts, seen>>

FlipSucceeded ==
  /\ At("Flip", 4)
  /\ core' = [core EXCEPT !.state_count = CountedAs(FALSE)]
  /\ seen' = Raised({Front.target})
  /\ Finish(AfterSummon)
  /\ UNCHANGED <<cards, setting, acts>>

-----------------------------------------------------------------------------
(* MonsterSet: like a Normal Summon, but nothing can negate it and nothing
   tells an inner one apart. *)

SetChecked ==
  /\ At("MSet", 0)
  /\ IF CountOptions(Front) # {} /\ Target.loc = "HAND" /\ Procedures(Front) # {}
     THEN \E p \in Procedures(Front) : GoOnAs([Front EXCEPT !.proc = p], 1, <<>>)
     ELSE Finish(<<>>)
  /\ UNCHANGED <<cards, core, setting, acts, seen>>

SetProcedure ==
  /\ At("MSet", 1)
  /\ \E e \in CountOptions(Front) : GoOnAs([Front EXCEPT !.extra = e], 2, <<>>)
  /\ UNCHANGED <<cards, core, setting, acts, seen>>

SetTributes ==
  /\ At("MSet", 2)
  /\ IF Front.proc THEN GoOn(4, <<>>)
     ELSE \E T \in Chosen(Front.target) : GoOnAs([Front EXCEPT !.group = T], 4, <<>>)
  /\ UNCHANGED <<cards, core, setting, acts, seen>>

SetCosts ==
  /\ At("MSet", 4)
  /\ IF Front.group = {None} THEN Finish(<<>>)
     ELSE GoOn(IF Front.proc THEN 6 ELSE 5, Interrupt)
  /\ UNCHANGED <<cards, core, setting, acts, seen>>

SetReleased ==
  /\ At("MSet", 5)
  /\ GoOn(8, IF Front.group = {} THEN <<>> ELSE <<SendToGrave(Front.group \cap On("MZONE"))>>)
  /\ UNCHANGED <<cards, core, setting, acts, seen>>

SetTarget ==
  /\ At("MSet", 6)
  /\ GoOn(7, Interrupt)
  /\ UNCHANGED <<cards, core, setting, acts, seen>>

SetOperation ==
  /\ At("MSet", 7)
  /\ Finish(<<>>) \/ GoOn(8, Interrupt)
  /\ UNCHANGED <<cards, core, setting, acts, seen>>

SetCounted ==
  /\ At("MSet", 8)
  /\ core' = Counts(Front, core)
  /\ GoOn(9, IF Front.extra THEN Interrupt ELSE <<>>)
  /\ UNCHANGED <<cards, setting, acts, seen>>

SetMoves ==
  /\ At("MSet", 9)
  /\ cards' = Enabled({Front.target}, FALSE)
  /\ GoOn(10, <<MoveToField(Front.target, TRUE, 0)>>)
  /\ UNCHANGED <<core, setting, acts, seen>>

SetOver ==
  /\ At("MSet", 10)
  /\ Finish(AfterSummon)
  /\ UNCHANGED <<cards, core, setting, acts, seen>>

-----------------------------------------------------------------------------
(* SpellSet, of a player, and SpellSetGroup, of an effect, whose members
   core.set_group_* are shared by all of them. *)

Settable(c) ==
  /\ c \in Spells /\ cards[c].loc \in {"HAND", "GRAVE"}
  /\ c \in FieldSpells \/ FreeSeqs # {}

SpellChecked ==
  /\ At("SSet", 0)
  /\ IF Settable(Front.target) THEN GoOn(1, Interrupt) ELSE Finish(<<>>)
  /\ UNCHANGED <<cards, core, setting, acts, seen>>

SpellMoves ==
  /\ At("SSet", 1)
  /\ cards' = Enabled({Front.target}, FALSE)
  /\ GoOn(2, <<MoveToField(Front.target, TRUE, -1)>>)
  /\ UNCHANGED <<core, setting, acts, seen>>

SpellOver ==
  /\ At("SSet", 2)
  /\ Finish(AfterSummon)
  /\ UNCHANGED <<cards, core, setting, acts, seen>>

(* Step 0: the cards are judged one by one, each against all the zones. *)
SpellsChecked ==
  /\ At("SetGroup", 0)
  /\ LET S == {c \in Front.group : Settable(c)} IN
       IF S = {} THEN Finish(<<>>) /\ core' = core
       ELSE /\ GoOnAs([Front EXCEPT !.rest = S], 1, Interrupt)
            /\ core' = [core EXCEPT !.pre_set = <<>>, !.set = <<>>, !.used_zones = {},
                                    !.seq = <<>>]
  /\ UNCHANGED <<cards, setting, acts, seen>>

(* Steps 1 and 2: the zones are chosen first, for one card after another, in
   the order of card_sort (any one).  Without a free zone no answer is
   accepted: the player must be asked for what there is. *)
SpellZones ==
  /\ At("SetGroup", 1)
  /\ \E c \in Front.rest :
       \E q \in IF c \in FieldSpells THEN {5} ELSE FreeSeqs \ core.used_zones :
         /\ core' = [core EXCEPT !.pre_set = Append(@, c), !.seq = Append(@, q),
                                 !.used_zones = @ \cup {q}]
         /\ GoOnAs([Front EXCEPT !.rest = @ \ {c}], IF Front.rest = {c} THEN 3 ELSE 1, <<>>)
  /\ UNCHANGED <<cards, setting, acts, seen>>

(* Steps 3 and 4: they are set one by one, in the lowest of these zones. *)
Lowest(S) == CHOOSE q \in S : \A r \in S : q <= r
SpellsMove ==
  /\ At("SetGroup", 3)
  /\ LET c == Head(core.pre_set)
         q == IF c \in FieldSpells \/ core.used_zones = {} THEN 5
              ELSE Lowest(core.used_zones)
     IN /\ cards' = Enabled({c}, FALSE)
        /\ core' = IF c \in FieldSpells THEN core ELSE [core EXCEPT !.used_zones = @ \ {q}]
        /\ GoOn(4, <<MoveToField(c, TRUE, q)>>)
  /\ UNCHANGED <<setting, acts, seen>>

SpellsMoved ==
  /\ At("SetGroup", 4)
  /\ core' = [core EXCEPT !.set = Append(@, Head(core.pre_set)), !.pre_set = Tail(@)]
  /\ GoOn(IF Len(core.pre_set) = 1 THEN 6 ELSE 3, <<>>)
  /\ UNCHANGED <<cards, setting, acts, seen>>

(* Step 6: each goes to the zone that was chosen for it. *)
Seated(set, seq, fields) ==
  [c \in Cards |->
     IF \E i \in DOMAIN set : set[i] = c /\ c \notin fields
     THEN [cards[c] EXCEPT !.seq = seq[CHOOSE i \in DOMAIN set : set[i] = c]]
     ELSE cards[c]]
SpellsSeated ==
  /\ At("SetGroup", 6)
  /\ IF Len(core.set) - (IF 5 \in core.used_zones THEN 1 ELSE 0) <= 1
     THEN UNCHANGED <<cards, core>>
     ELSE /\ cards' = Seated(core.set, core.seq, FieldSpells)
          /\ core' = [core EXCEPT !.szone =
               [q \in Seqs |->
                  IF \E i \in DOMAIN core.set : core.seq[i] = q /\ core.set[i] \notin FieldSpells
                  THEN core.set[CHOOSE i \in DOMAIN core.set : core.seq[i] = q]
                  ELSE @[q]]]
  /\ GoOn(7, <<>>)
  /\ UNCHANGED <<setting, acts, seen>>

(* Steps 7 and 8. *)
SpellsOver ==
  /\ At("SetGroup", 7)
  /\ Finish(AfterSummon)
  /\ UNCHANGED <<cards, core, setting, acts, seen>>

-----------------------------------------------------------------------------
(* SpSummonRule: a monster is summoned by its own procedure, or a group by
   one (SPSUMMON_PROC_G, from step 20 on). *)

RuleChecked ==
  /\ At("Rule", 0)
  /\ IF Front.target \in Procs /\ Target.loc = "HAND" /\ Room THEN GoOn(1, <<>>)
     ELSE Finish(<<>>)
  /\ UNCHANGED <<cards, core, setting, acts, seen>>

RuleTarget ==
  /\ At("Rule", 1)
  /\ GoOn(2, Interrupt)
  /\ UNCHANGED <<cards, core, setting, acts, seen>>

RuleCosts ==
  /\ At("Rule", 2)
  /\ Finish(<<>>) \/ GoOn(3, Interrupt)
  /\ UNCHANGED <<cards, core, setting, acts, seen>>

RuleOperation ==
  /\ At("Rule", 3)
  /\ GoOn(4, Interrupt)
  /\ UNCHANGED <<cards, core, setting, acts, seen>>

RuleMoves ==
  /\ At("Rule", 4)
  /\ cards' = Enabled({Front.target}, FALSE)
  /\ core' = [core EXCEPT !.state_count = CountedAs(TRUE)]
  /\ seen' = Tried
  /\ GoOn(5, <<MoveToField(Front.target, FALSE, 0)>>)
  /\ UNCHANGED <<setting, acts>>

(* Steps 5 and 6. *)
RuleSummoning ==
  /\ At("Rule", 5)
  /\ GoOn(7, Interrupt)
  /\ UNCHANGED <<cards, core, setting, acts, seen>>

(* Steps 7 and 10: EFFECT_CANNOT_DISABLE_SPSUMMON. *)
RuleWindow ==
  /\ At("Rule", 7)
  /\ \/ GoOn(15, <<>>) /\ UNCHANGED <<cards, seen>>
     \/ /\ core.chain = 0
        /\ cards' = [cards EXCEPT ![Front.target].summoning = TRUE]
        /\ seen' = [seen EXCEPT !.negated = @ \ {Front.target}]
        /\ GoOn(11, Interrupt \o <<PointEvent>>)
  /\ UNCHANGED <<core, setting, acts>>

RuleAsked ==
  /\ At("Rule", 11)
  /\ IF Target.summoning THEN GoOn(15, <<>>) ELSE Negated
  /\ UNCHANGED <<cards, core, setting, acts, seen>>

RuleCompleted ==
  /\ At("Rule", 15)
  /\ cards' = Complete({Front.target})
  /\ GoOn(16, <<>>)
  /\ UNCHANGED <<core, setting, acts, seen>>

RuleMaterials ==
  /\ At("Rule", 16)
  /\ GoOn(17, Interrupt)
  /\ UNCHANGED <<cards, core, setting, acts, seen>>

RuleSucceeded ==
  /\ At("Rule", 17)
  /\ core' = [core EXCEPT !.state_count = CountedAs(FALSE)]
  /\ seen' = Raised({Front.target})
  /\ Finish(AfterSummon)
  /\ UNCHANGED <<cards, setting, acts>>

(* Step 20: the procedure chooses the cards, at most as many as there are
   zones when it does. *)
GroupOperation ==
  /\ At("Rule", 20)
  /\ \E G \in SUBSET {c \in Cards \ Spells : cards[c].loc = "HAND"} :
       /\ Cardinality(G) + Cardinality(On("MZONE")) <= setting.zones
       /\ GoOnAs([Front EXCEPT !.group = G], 21, Interrupt)
  /\ UNCHANGED <<cards, core, setting, acts, seen>>

(* Steps 21 and 22. *)
GroupChecked ==
  /\ At("Rule", 21)
  /\ LET G == Front.group \ On("MZONE") IN
       IF G = {} THEN Finish(<<>>)
       ELSE GoOnAs([Front EXCEPT !.group = G, !.rest = G], 23, Interrupt)
  /\ UNCHANGED <<cards, core, setting, acts, seen>>

(* Steps 23 and 24, for one card after another: target is the current one. *)
GroupMoves ==
  /\ At("Rule", 23)
  /\ \E c \in Front.rest :
       /\ cards' = Enabled({c}, FALSE)
       /\ GoOnAs([Front EXCEPT !.target = c, !.rest = @ \ {c}], 24,
                 <<MoveToField(c, FALSE, 0)>>)
  /\ UNCHANGED <<core, setting, acts, seen>>

GroupMoved ==
  /\ At("Rule", 24)
  /\ cards' = [cards EXCEPT ![Front.target].spsummon_step = TRUE]
  /\ GoOn(IF Front.rest = {} THEN 25 ELSE 23, <<>>)
  /\ UNCHANGED <<core, setting, acts, seen>>

(* No window is opened when none of the cards can have its summon negated. *)
GroupWindow ==
  /\ At("Rule", 25)
  /\ core' = [core EXCEPT !.state_count = CountedAs(TRUE)]
  /\ cards' = Changed(Front.group, LAMBDA x :
       [x EXCEPT !.spsummon_step = FALSE, !.summoning = @ \/ core.chain = 0])
  /\ IF core.chain = 0
     THEN /\ GoOn(26, <<>>) \/ GoOn(26, Interrupt \o <<PointEvent>>)
          /\ seen' = [Tried EXCEPT !.negated = @ \ Front.group]
     ELSE GoOn(27, <<>>) /\ seen' = Tried
  /\ UNCHANGED <<setting, acts>>

(* Step 26: of the group, those that were not negated are summoned. *)
GroupAsked ==
  /\ At("Rule", 26)
  /\ LET negated == {c \in Front.group : ~cards[c].summoning}
         sent == negated \cap On("MZONE")
         batch == IF sent = {} THEN <<>> ELSE <<SendToGrave(sent)>>
     IN IF negated = Front.group THEN Finish(batch \o <<PointEvent>>)
        ELSE GoOnAs([Front EXCEPT !.group = @ \ negated], 27, batch)
  /\ UNCHANGED <<cards, core, setting, acts, seen>>

GroupCompleted ==
  /\ At("Rule", 27)
  /\ cards' = Complete(Front.group)
  /\ GoOn(28, <<>>)
  /\ UNCHANGED <<core, setting, acts, seen>>

GroupSucceeded ==
  /\ At("Rule", 28)
  /\ core' = [core EXCEPT !.state_count = CountedAs(FALSE)]
  /\ seen' = Raised(Front.group)
  /\ Finish(AfterSummon)
  /\ UNCHANGED <<cards, setting, acts>>

(* SpSummonRuleGroup: a card of the group's procedure is chosen. *)
RuleGroupChosen ==
  /\ At("RuleGroup", 0)
  /\ Finish(<<>>) \/ Finish(<<Unit("Rule", 20, None)>>)
  /\ UNCHANGED <<cards, core, setting, acts, seen>>

-----------------------------------------------------------------------------
(* SpSummonStep and SpSummon: effects summon monsters.  The units of one
   SpSummon share its group, the others core.special_summoning. *)

(* The unit below those of the other cards of its group. *)
Owner == CHOOSE i \in 2 .. Len(units) :
           /\ units[i].kind = "SpSummon"
           /\ \A j \in 2 .. i - 1 : units[j].kind = "Step"

(* Step 0: a card that cannot be summoned is left out (step 5), and one that
   has no zone is sent to the grave by SpSummon. *)
StepChecked ==
  /\ At("Step", 0)
  /\ LET able == Target.loc # "MZONE" /\ Front.target \notin Spells IN
       /\ GoOn(IF able /\ Room THEN 1 ELSE 5, IF able /\ Room THEN Interrupt ELSE <<>>)
       /\ core' = IF able /\ ~Room /\ Target.loc # "GRAVE"
                  THEN [core EXCEPT !.ss_tograve = @ \cup {Front.target}] ELSE core
  /\ UNCHANGED <<cards, setting, acts, seen>>

StepMoves ==
  /\ At("Step", 1)
  /\ cards' = Enabled({Front.target}, FALSE)
  /\ core' = IF Front.group = {} THEN [core EXCEPT !.special_summoning = @ \cup {Front.target}]
             ELSE core
  /\ GoOn(3, <<MoveToField(Front.target, FALSE, 0)>>)
  /\ UNCHANGED <<setting, acts, seen>>

(* Steps 2 and 3. *)
StepOver ==
  /\ At("Step", 3)
  /\ cards' = [cards EXCEPT ![Front.target].spsummon_step = TRUE]
  /\ Finish(<<>>)
  /\ UNCHANGED <<core, setting, acts, seen>>

(* Step 5 takes the card out of the group (and puts back its reason, which
   is left out).  Mutant: it does not. *)
Kept(S, c) == S
Without(S, c) == S \ {c}
StepFailed ==
  /\ At("Step", 5)
  /\ units' = IF Front.group = {} THEN Tail(units)
              ELSE [[i \in 1 .. Len(units) - 1 |-> units[i + 1]]
                    EXCEPT ![Owner - 1].group = Without(@, Front.target)]
  /\ UNCHANGED <<cards, core, setting, acts, seen>>

(* SpSummon.  Step 0: the cards in the order of card_operation_sort. *)
SpSummonSteps ==
  /\ At("SpSummon", 0)
  /\ \E s \in {t \in [1 .. Cardinality(Front.group) -> Front.group] :
                 \A i, j \in DOMAIN t : t[i] = t[j] => i = j} :
       GoOn(1, [i \in DOMAIN s |-> [Unit("Step", 0, s[i]) EXCEPT !.group = {s[i]}]])
  /\ UNCHANGED <<cards, core, setting, acts, seen>>

SpSummonSends ==
  /\ At("SpSummon", 1)
  /\ GoOn(2, IF core.ss_tograve = {} THEN <<>> ELSE <<SendToGrave(core.ss_tograve)>>)
  /\ UNCHANGED <<cards, core, setting, acts, seen>>

SpSummonCounted ==
  /\ At("SpSummon", 2)
  /\ IF Front.group = {}
     THEN /\ Finish(<<>>) /\ core' = [core EXCEPT !.ss_tograve = {}]
          /\ UNCHANGED <<cards, seen>>
     ELSE /\ core' = [core EXCEPT !.ss_tograve = {}, !.state_count = @ + 1]
          /\ cards' = Changed(Front.group, LAMBDA x :
               [x EXCEPT !.spsummon_step = FALSE, !.enabled = @ \/ ~x.facedown])
          /\ seen' = Tried
          /\ GoOn(3, <<>>)
  /\ UNCHANGED <<setting, acts>>

SpSummonMaterials ==
  /\ At("SpSummon", 3)
  /\ GoOn(4, Interrupt)
  /\ UNCHANGED <<cards, core, setting, acts, seen>>

(* Steps 4 and 5. *)
SpSummonSucceeded ==
  /\ At("SpSummon", 4)
  /\ seen' = Raised(Front.group)
  /\ Finish(Interrupt)
  /\ UNCHANGED <<cards, core, setting, acts>>

-----------------------------------------------------------------------------
(* PointEvent and SolveChain, as far as summons need them.  A chain of
   links cards is built; each link acts, and what it started to summon
   comes after it (step 9), or after the chain (step 12). *)

ChainBuilt ==
  /\ At("Point", 0) /\ acts < setting.max_acts /\ setting.links > 0
  /\ \E n \in 1 .. setting.links :
       /\ core' = [core EXCEPT !.chain = n]
       /\ GoOn(0, <<Unit("Solve", 0, None)>>)
  /\ acts' = acts + 1
  /\ UNCHANGED <<cards, setting, seen>>

NoChain ==
  /\ At("Point", 0)
  /\ Finish(<<>>)
  /\ UNCHANGED <<cards, core, setting, acts, seen>>

LinkActs ==
  /\ At("Solve", 0)
  /\ GoOn(10, <<Effect>>)
  /\ UNCHANGED <<cards, core, setting, acts, seen>>

(* Mutant: a summon is dropped when the chain ends. *)
NotReserved(x) == <<>>
Reserved(x) == x.reserved
Pushed == [seen EXCEPT !.promised = @ /\ Reserved(core) = <<>>]
LinkOver ==
  /\ At("Solve", 10)
  /\ core' = [core EXCEPT !.chain = @ - 1, !.reserved = IF core.chain = 1 THEN @ ELSE <<>>]
  /\ IF core.chain = 1 THEN GoOn(12, <<>>) /\ seen' = seen
     ELSE GoOn(0, Reserved(core)) /\ seen' = Pushed
  /\ UNCHANGED <<cards, setting, acts>>

ChainOver ==
  /\ At("Solve", 12)
  /\ Finish(Reserved(core))
  /\ core' = [core EXCEPT !.reserved = <<>>]
  /\ seen' = Pushed
  /\ UNCHANGED <<cards, setting, acts>>

-----------------------------------------------------------------------------
(* What players start between the units, and effects in the middle of them. *)

Idle == units = <<>>
MayStart(name) ==
  /\ acts < setting.max_acts
  /\ \/ Idle /\ name \in setting.starts
     \/ At("Effect", 0) /\ name \in setting.acts
     \/ At("Effect", 1) /\ name = "step"
  /\ acts' = acts + 1

(* Duel.Summon and the like: during a chain, the unit waits in its slot. *)
Deferred(unit) ==
  IF core.chain > 0
  THEN /\ core' = [core EXCEPT !.reserved = <<unit>>] /\ units' = units
       /\ seen' = [seen EXCEPT !.promised = TRUE]
  ELSE /\ units' = <<unit>> \o units /\ UNCHANGED <<core, seen>>
Begun(unit) == units' = <<unit>> \o units

StartSummon ==
  /\ MayStart("summon")
  /\ \E c \in Cards \ Spells, ignore \in BOOLEAN :
       /\ Idle => ~ignore
       /\ Deferred([Unit("Summon", 0, c) EXCEPT !.ignore_count = ignore])
  /\ UNCHANGED <<cards, setting>>

StartFlip ==
  /\ Idle /\ MayStart("flip")
  /\ \E c \in Cards \ Spells : Begun(Unit("Flip", 0, c))
  /\ UNCHANGED <<cards, core, setting, seen>>

StartSet ==
  /\ MayStart("mset")
  /\ \E c \in Cards \ Spells : Deferred(Unit("MSet", 0, c))
  /\ UNCHANGED <<cards, setting>>

StartRule ==
  /\ MayStart("rule")
  /\ \E c \in Procs : Deferred(Unit("Rule", 0, c))
  /\ UNCHANGED <<cards, setting>>

StartGroup ==
  /\ MayStart("group")
  /\ Deferred(Unit("RuleGroup", 0, None))
  /\ UNCHANGED <<cards, setting>>

StartSpellSet ==
  /\ Idle /\ MayStart("sset")
  /\ \E c \in Spells : Begun(Unit("SSet", 0, c))
  /\ UNCHANGED <<cards, core, setting, seen>>

(* Duel.SSet: scripts set as many cards as there are zones at most, and not
   while others are being set, with whom core.set_group_* is shared. *)
StartSpellSetGroup ==
  /\ ~Idle /\ MayStart("sset")
  /\ \A i \in DOMAIN units : units[i].kind # "SetGroup"
  /\ \E S \in SUBSET {c \in Spells : cards[c].loc = "HAND"} :
       /\ S # {} /\ Cardinality(S \ FieldSpells) <= Cardinality(FreeSeqs)
       /\ Begun(GroupUnit("SetGroup", 0, S))
  /\ UNCHANGED <<cards, core, setting, seen>>

StartSpecialSummon ==
  /\ ~Idle /\ MayStart("special")
  /\ \E S \in SUBSET {c \in Cards \ Spells : cards[c].loc # "MZONE"} :
       S # {} /\ Begun(GroupUnit("SpSummon", 0, S))
  /\ UNCHANGED <<cards, core, setting, seen>>

(* Duel.SpecialSummonStep: not in the middle of those of another effect,
   whose cards are in core.special_summoning too. *)
StartStep ==
  /\ ~Idle /\ MayStart("step")
  /\ \A i \in 2 .. Len(units) : units[i].kind = "Effect" => units[i].step = 0
  /\ \E c \in {d \in Cards \ Spells : cards[d].loc # "MZONE"} :
       GoOn(1, <<Unit("Step", 0, c)>>)
  /\ UNCHANGED <<cards, core, setting, seen>>

(* Duel.SpecialSummonComplete, which follows the calls of SpecialSummonStep,
   whether or not they summoned something. *)
StartComplete ==
  /\ At("Effect", 1)
  /\ GoOn(0, <<GroupUnit("SpSummon", 1, core.special_summoning)>>)
  /\ core' = [core EXCEPT !.special_summoning = {}]
  /\ UNCHANGED <<cards, setting, acts, seen>>

(* Duel.NegateSummon: links of the chain that answers a summon call it. *)
NegateSummon ==
  /\ core.chain > 0 /\ MayStart("negate")
  /\ \E S \in SUBSET {c \in Cards : cards[c].summoning} :
       /\ S # {}
       /\ cards' = Changed(S, LAMBDA x : [x EXCEPT !.summoning = FALSE])
       /\ seen' = [seen EXCEPT !.negated = @ \cup S]
  /\ UNCHANGED <<units, core, setting>>

(* An effect moves a card away, one being summoned after negating it. *)
Leave ==
  /\ ~Idle /\ MayStart("leave")
  /\ \E c \in {d \in Cards : cards[d].loc \in {"MZONE", "SZONE"} /\ ~cards[d].summoning} :
       /\ ToGrave({c})
       /\ seen' = [seen EXCEPT !.left = @ \cup {c}]
  /\ UNCHANGED <<units, setting>>

EffectOver ==
  /\ At("Effect", 0)
  /\ Finish(<<>>)
  /\ UNCHANGED <<cards, core, setting, acts, seen>>

(* Without a zone left, SelectPlace has no answer to accept: see SpellZones. *)
Stuck ==
  At("SetGroup", 1) /\ Front.rest \cap FieldSpells = {} /\ FreeSeqs \ core.used_zones = {}
Done == (Idle \/ Stuck) /\ UNCHANGED vars

Starting ==
  \/ StartSummon \/ StartFlip \/ StartSet \/ StartRule \/ StartGroup
  \/ StartSpellSet \/ StartSpellSetGroup \/ StartSpecialSummon \/ StartStep
  \/ StartComplete \/ NegateSummon \/ Leave \/ EffectOver

Chaining ==
  \/ ChainBuilt \/ NoChain \/ LinkActs \/ LinkOver \/ ChainOver
  \/ SendCards \/ MoveMonster \/ MoveSpell

NormalSummon ==
  \/ SummonChecked \/ SummonProcedure \/ SummonTributes \/ SummonTarget
  \/ SummonCosts \/ SummonReleased \/ SummonOperation \/ SummonCounted
  \/ SummonMoves \/ GeminiSummoned \/ GeminiCounted \/ Summoning \/ SummonWindow
  \/ SummonAsked \/ SummonCompleted \/ SummonMaterials \/ SummonSucceeded
  \/ FlipChecked \/ FlipTurned \/ FlipAsked \/ FlipCompleted \/ FlipSucceeded

Setting ==
  \/ SetChecked \/ SetProcedure \/ SetTributes \/ SetCosts \/ SetReleased
  \/ SetTarget \/ SetOperation \/ SetCounted \/ SetMoves \/ SetOver
  \/ SpellChecked \/ SpellMoves \/ SpellOver \/ SpellsChecked \/ SpellZones
  \/ SpellsMove \/ SpellsMoved \/ SpellsSeated \/ SpellsOver

SpecialSummon ==
  \/ RuleChecked \/ RuleTarget \/ RuleCosts \/ RuleOperation \/ RuleMoves
  \/ RuleSummoning \/ RuleWindow \/ RuleAsked \/ RuleCompleted \/ RuleMaterials
  \/ RuleSucceeded \/ GroupOperation \/ GroupChecked \/ GroupMoves \/ GroupMoved
  \/ GroupWindow \/ GroupAsked \/ GroupCompleted \/ GroupSucceeded
  \/ RuleGroupChosen \/ StepChecked \/ StepMoves \/ StepOver \/ StepFailed
  \/ SpSummonSteps \/ SpSummonSends \/ SpSummonCounted \/ SpSummonMaterials
  \/ SpSummonSucceeded

Next == Starting \/ Chaining \/ NormalSummon \/ Setting \/ SpecialSummon \/ Done

Spec == Init /\ [][Next]_vars

-----------------------------------------------------------------------------
(* Properties. *)

(* The variables have values that the code can give them. *)
TypeOK ==
  /\ \A c \in Cards :
       /\ cards[c].loc \in Locations /\ cards[c].seq \in Seqs
       /\ cards[c].summoning => c \notin Spells
  /\ \A i \in DOMAIN units :
       /\ units[i].target \in Cards \cup {None}
       /\ units[i].group \subseteq Cards \cup {None} /\ units[i].rest \subseteq units[i].group
  /\ core.summon_depth \in Nat /\ core.chain \in 0 .. setting.links
  /\ core.summon_depth <= Cardinality({i \in DOMAIN units : units[i].kind = "Summon"})
  /\ core.reserved # <<>> => core.chain > 0 \/ \E i \in DOMAIN units : units[i].kind = "Solve"

(* No more monsters are Normal Summoned and set in a turn than may be, even
   when what happens during one summon starts another one; but a MonsterSet
   neither is nor has an inner one. *)
SummonLimit ==
  \/ setting.interrupted /\ "mset" \in setting.starts \cup setting.acts
  \/ core.summon_count <= Limit

(* When nothing runs any more, nothing of the summons is left: no depth, no
   unit that waited for the end of a chain and was forgotten (another may
   have taken its place, though), no card that is being summoned;
   face-up monsters have their effects, a card that was set is in the zone
   that it says it is in; and what was summoned was counted (tried: under
   the old rule), unless it was negated. *)
Settled ==
  Idle =>
    /\ core.summon_depth = 0 /\ core.reserved = <<>> /\ ~seen.promised
    /\ core.special_summoning = {} /\ core.ss_tograve = {}
    /\ \A c \in Cards :
         /\ ~cards[c].summoning /\ ~cards[c].spsummon_step
         /\ cards[c].loc = "MZONE" /\ ~cards[c].facedown => cards[c].enabled
    /\ \A c \in Cards \ seen.left :
         cards[c].loc = "SZONE" <=> \E q \in Seqs : core.szone[q] = c /\ cards[c].seq = q
    /\ core.state_count = IF setting.oath_old THEN seen.tries ELSE seen.successes

(* The success of a summon is told only of monsters that are on the field
   and whose latest summon was not negated, whatever was done to them in the
   chains that answered it.  Effects that act between the steps of a summon
   may take the monster away after its window: nothing looks at it again. *)
Succeeded == setting.interrupted \/ seen.wrong = {}
=============================================================================
