---------------------------- MODULE SummonsProofs ----------------------------
(* Proofs about Summons: what players and effects start, the steps of the
   units that set spells, and those of Special Summons by effects keep the
   invariant; and the theorems that follow from it. *)
EXTENDS SummonsSteps

-----------------------------------------------------------------------------
(* What players and effects start. *)

Between == units = <<>> \/ Front.kind = "Effect"

LEMMA StartsBetween ==
  ASSUME NEW name, MayStart(name)
  PROVE  Between /\ (units # <<>> => Front.kind = "Effect")
BY DEF MayStart, Between, Idle, At

LEMMA BegunKept ==
  ASSUME IInv, Quiet, Between, NEW u, Entry(u), Free(u), Other(u), Begun(u)
  PROVE  IInv'
<1>0. units \in Seq(UnitType) /\ u \in UnitType BY OldTypes DEF Entry
<1>1. units' \in Seq(UnitType) /\ Restacked(0, 1) /\ units'[1] = u
  BY <1>0, Started DEF Begun
<1>2. Started1(u) BY <1>1 DEF Started1, Between
<1>3. /\ DataOK /\ Apart /\ Levelled /\ Calm /\ Tallies(0)
      /\ core'.summon_count = core.summon_count /\ core'.summon_depth = core.summon_depth
  BY QuietFacts
<1>4. \A i \in 1 .. 1 : units'[i] = u /\ i = 1 BY <1>1
<1>5. Types'
  <2>1. \A i \in 1 .. 1 : Sane(units'[i]) BY <1>4 DEF Entry
  <2> QED BY <2>1, <1>1, <1>3, TypesKept DEF IInv, DataOK, Apart
<1>6. Control' BY <1>2, <1>3, ControlStarted DEF IInv
<1>7. Half' BY <1>2, <1>3, HalfStarted DEF IInv, Quiet
<1>8. Zones'
  <2>1. \A i \in 1 .. 1 : Other(units'[i]) BY <1>4
  <2>2. \A i \in 1 .. 0 : Other(units[i]) /\ ~Lays(units[i]) OBVIOUS
  <2>3. ~Lays(units'[1]) BY <1>1 DEF Entry, Prompt, Lays
  <2>4. units # <<>> => ~Lays(units[1])
    <3>1. units # <<>> => Front = units[1] BY FrontTypes
    <3> QED BY <3>1 DEF Between, Lays
  <2> QED BY <2>1, <2>2, <2>3, <2>4, <1>1, <1>3, ZonesFrame DEF IInv, Control
<1> QED BY <1>5, <1>6, <1>7, <1>8 DEF IInv

LEMMA StillKept ==
  ASSUME IInv, Between, units' = units, setting' = setting, DataOK, Calm, Levelled,
         core'.chain = core.chain,
         core'.summon_count = core.summon_count, core'.summon_depth = core.summon_depth,
         core'.extra_summon = core.extra_summon, core'.state_count = core.state_count,
         seen'.tries = seen.tries, seen'.successes = seen.successes, Waiting',
         \A c \in Cards : /\ cards'[c].summoning => cards[c].summoning
                          /\ cards'[c].spsummon_step => cards[c].spsummon_step
                          /\ Bare(c)' => Bare(c)
  PROVE  IInv'
<1>1. units \in Seq(UnitType) /\ Len(units) \in Nat BY OldTypes
<1>2. Restacked(0, 0) BY <1>1 DEF Restacked
<1>3. Types'
  <2>1. \A i \in 1 .. 0 : Sane(units'[i]) OBVIOUS
  <2> QED BY <2>1, <1>1, <1>2, TypesKept DEF IInv, DataOK
<1>4. Control' BY ControlStill DEF IInv
<1>5. Half' BY HalfStill DEF IInv
<1>6. Zones'
  <2>1. PICK z \in Nat : z = 0 OBVIOUS
  <2>2. /\ \A i \in 1 .. z : Other(units'[i])
        /\ \A i \in 1 .. z : Other(units[i]) /\ ~Lays(units[i])
    BY <2>1
  <2>3. units # <<>> => ~Lays(units[1])
    <3>1. units # <<>> => Front = units[1] BY FrontTypes
    <3> QED BY <3>1 DEF Between, Lays
  <2>4. Restacked(z, z) /\ units' \in Seq(UnitType) BY <1>1, <1>2, <2>1
  <2>5. z > 0 => ~Lays(units'[1]) BY <2>1
  <2> QED BY <2>2, <2>3, <2>4, <2>5, ZonesFrame DEF IInv, Control
<1> QED BY <1>3, <1>4, <1>5, <1>6 DEF IInv

LEMMA DeferredKept ==
  ASSUME IInv, Between, NEW u \in UnitType, Sane(u), Waits(u), Deferred(u),
         cards' = cards, setting' = setting
  PROVE  IInv'
<1>0. Entry(u) /\ Free(u) /\ Other(u)
  BY DEF Waits, Entry, Active, Counting, Live, Busy, Prompt, Outside, Free, Sends, Opens, Other
<1>1. CASE core.chain > 0
  <2>1. /\ core' = [core EXCEPT !.reserved = <<u>>] /\ units' = units
        /\ seen' = [seen EXCEPT !.promised = TRUE]
    BY <1>1 DEF Deferred
  <2>2. PICK r : r = <<u>> OBVIOUS
  <2>3. r \in Seq(UnitType) /\ Len(r) = 1 /\ r[1] = u /\ r # <<>> BY <2>2
  <2>4. /\ core' \in CoreType /\ core'.reserved = r /\ core'.chain = core.chain
        /\ core'.summon_count = core.summon_count /\ core'.summon_depth = core.summon_depth
        /\ core'.extra_summon = core.extra_summon /\ core'.state_count = core.state_count
        /\ core'.special_summoning = core.special_summoning
        /\ core'.ss_tograve = core.ss_tograve
    BY <2>1, <2>2, <2>3, OldTypes DEF CoreType
  <2>5. /\ core'.szone = core.szone /\ core'.pre_set = core.pre_set /\ core'.set = core.set
        /\ core'.used_zones = core.used_zones /\ core'.seq = core.seq
    BY <2>1, <2>2, <2>3, OldTypes DEF CoreType
  <2>6. /\ seen' \in SeenType /\ seen'.tries = seen.tries /\ seen'.left = seen.left
        /\ seen'.successes = seen.successes
    BY <2>1, OldTypes DEF SeenType
  <2>7. DataOK /\ Calm /\ Levelled
    BY <2>4, <2>5, <2>6, OldTypes DEF DataOK, Calm, Levelled
  <2>8. Waiting'
    <3>1. \E i \in 1 .. Len(units) : units[i].kind = "Solve"
      <4>1. ~(\A i \in 1 .. Len(units) : ~Live(units[i]))
        BY <1>1, OldTypes DEF IInv, Control, Chained, CoreType
      <4> QED BY <4>1 DEF Live
    <3>2. \A i \in 1 .. Len(core'.reserved) : core'.reserved[i] = u
      <4>1. \A i \in 1 .. 1 : r[i] = u BY <2>3
      <4> QED BY <2>3, <2>4, <4>1
    <3>3. Waits(u)' BY DEF Waits, Sets
    <3> QED BY <2>1, <2>3, <2>4, <3>1, <3>2, <3>3 DEF Waiting, Waits, Sane
  <2>9. \A c \in Cards : /\ cards'[c].summoning => cards[c].summoning
                         /\ cards'[c].spsummon_step => cards[c].spsummon_step
                         /\ Bare(c)' => Bare(c)
    BY DEF Bare
  <2> QED BY <2>1, <2>4, <2>6, <2>7, <2>8, <2>9, StillKept
<1>2. CASE ~(core.chain > 0)
  <2>1. Begun(u) /\ Quiet BY <1>2 DEF Deferred, Begun, Quiet
  <2> QED BY <1>0, <2>1, BegunKept
<1> QED BY <1>1, <1>2

(* Units that set spells are started only where no other one is around. *)
LEMMA SetsBegun ==
  ASSUME IInv, Quiet, Between, NEW u, Entry(u), Free(u), Begun(u), u.step = 0,
         \A i \in 1 .. Len(units) : units[i].kind # "SetGroup",
         u.kind = "SSet" => units = <<>>
  PROVE  IInv'
<1>0. units \in Seq(UnitType) /\ u \in UnitType /\ Len(units) \in Nat
  BY OldTypes DEF Entry
<1>1. units' \in Seq(UnitType) /\ Restacked(0, 1) /\ units'[1] = u
  BY <1>0, Started DEF Begun
<1>2. Started1(u) BY <1>1 DEF Started1, Between
<1>3. /\ DataOK /\ Apart /\ Levelled /\ Calm /\ Tallies(0)
      /\ core'.summon_count = core.summon_count /\ core'.summon_depth = core.summon_depth
  BY QuietFacts
<1>4. \A i \in 1 .. 1 : units'[i] = u /\ i = 1 BY <1>1
<1>5. Types'
  <2>1. \A i \in 1 .. 1 : Sane(units'[i]) BY <1>4 DEF Entry
  <2> QED BY <2>1, <1>1, <1>3, TypesKept DEF IInv, DataOK, Apart
<1>6. Control' BY <1>2, <1>3, ControlStarted DEF IInv
<1>7. Half' BY <1>2, <1>3, HalfStarted DEF IInv, Quiet
<1>8. /\ Len(units') = Len(units) + 1
      /\ \A k \in 1 .. Len(units') :
           k = 1 \/ (k - 1 \in 1 .. Len(units) /\ units'[k] = units[k - 1])
  BY <1>0, <1>1 DEF Restacked
<1>9. \A k \in 1 .. Len(units') : units'[k].kind = "SetGroup" => k = 1 BY <1>0, <1>8
<1>10. \A k \in 1 .. Len(units') : ~Setter(units'[k]) BY <1>1, <1>9 DEF Setter
<1>11. ASSUME NEW k \in 1 .. Len(units'), units'[k].kind = "SSet"
       PROVE  k = Len(units')
  <2>1. CASE k = 1
    <3>1. Len(units) = 0 BY <1>1, <1>11, <2>1
    <3> QED BY <2>1, <3>1, <1>8
  <2>2. CASE k # 1
    <3>1. k - 1 \in 1 .. Len(units) /\ units[k - 1].kind = "SSet" BY <1>8, <1>11, <2>2
    <3>2. k - 1 = Len(units) BY <3>1 DEF IInv, Zones, Lone
    <3> QED BY <3>2, <1>0, <1>8
  <2> QED BY <2>1, <2>2
<1>12. Lone(units') BY <1>9, <1>11 DEF Lone
<1>13. Laid(core', cards', seen'.left) BY <1>3, CalmLaid DEF IInv, Zones
<1>14. Seater(units', core') BY <1>1 DEF Seater, Lays, Entry, Prompt
<1>15. Grouping(units', core', cards', seen'.left) BY <1>10 DEF Grouping
<1>16. Zones' BY <1>12, <1>13, <1>14, <1>15 DEF Zones
<1> QED BY <1>5, <1>6, <1>7, <1>16 DEF IInv

LEMMA UnitFields ==
  ASSUME NEW k \in Kinds, NEW s \in Nat, NEW c \in Members, NEW u, u = Unit(k, s, c)
  PROVE  /\ u \in UnitType /\ u.kind = k /\ u.step = s /\ u.target = c /\ u.group = {}
         /\ u.rest = {} /\ ~u.facedown /\ ~u.ignore_count /\ ~u.extra
BY DEF Unit, UnitType

LEMMA GroupFields ==
  ASSUME NEW k \in Kinds, NEW s \in Nat, NEW S \in SUBSET Members, NEW u,
         u = GroupUnit(k, s, S)
  PROVE  /\ u \in UnitType /\ u.kind = k /\ u.step = s /\ u.group = S /\ u.rest = {}
         /\ u.target = None
<1>1. PICK x : x = Unit(k, s, None) OBVIOUS
<1>2. /\ x \in UnitType /\ x.kind = k /\ x.step = s /\ x.target = None /\ x.rest = {}
  BY <1>1 DEF Unit, UnitType, Members
<1>3. u = [x EXCEPT !.group = S] BY <1>1 DEF GroupUnit
<1> QED BY <1>2, <1>3 DEF UnitType

LEMMA StartSummonKept ==
  ASSUME IInv, StartSummon
  PROVE  IInv'
<1>1. Between /\ cards' = cards /\ setting' = setting BY StartsBetween DEF StartSummon
<1>2. PICK c \in Cards \ Spells, ignore \in BOOLEAN :
        Deferred([Unit("Summon", 0, c) EXCEPT !.ignore_count = ignore])
  BY DEF StartSummon
<1>3. PICK w : w = Unit("Summon", 0, c) OBVIOUS
<1>4. PICK u : u = [w EXCEPT !.ignore_count = ignore] OBVIOUS
<1>5. w \in UnitType /\ w.kind = "Summon" /\ w.step = 0 /\ w.target = c /\ w.rest = {}
  <2>1. "Summon" \in Kinds /\ c \in Members BY DEF Kinds, Members
  <2> QED BY <1>3, <2>1, UnitFields
<1>6. u \in UnitType /\ u.kind = "Summon" /\ u.step = 0 /\ u.target = c /\ u.rest = {}
  BY <1>4, <1>5 DEF UnitType
<1>7. Sane(u) /\ Waits(u) BY <1>6 DEF Sane, Waits, Monsters
<1>8. Deferred(u) BY <1>2, <1>3, <1>4
<1> QED BY <1>1, <1>6, <1>7, <1>8, DeferredKept

LEMMA StartSetKept ==
  ASSUME IInv, StartSet
  PROVE  IInv'
<1>1. Between /\ cards' = cards /\ setting' = setting BY StartsBetween DEF StartSet
<1>2. PICK c \in Cards \ Spells : Deferred(Unit("MSet", 0, c)) BY DEF StartSet
<1>3. PICK u : u = Unit("MSet", 0, c) OBVIOUS
<1>4. u \in UnitType /\ u.kind = "MSet" /\ u.step = 0 /\ u.target = c /\ u.rest = {}
  <2>1. "MSet" \in Kinds /\ c \in Members BY DEF Kinds, Members
  <2> QED BY <1>3, <2>1, UnitFields
<1>5. Sets BY DEF StartSet, MayStart, Sets, Idle
<1>6. Sane(u) /\ Waits(u) BY <1>4, <1>5 DEF Sane, Waits, Monsters
<1>7. Deferred(u) BY <1>2, <1>3
<1> QED BY <1>1, <1>4, <1>6, <1>7, DeferredKept

LEMMA StartRuleKept ==
  ASSUME IInv, StartRule \/ StartGroup
  PROVE  IInv'
<1>1. Between /\ cards' = cards /\ setting' = setting
  BY StartsBetween DEF StartRule, StartGroup
<1>2. ASSUME NEW c \in Members, NEW k, k \in {"Rule", "RuleGroup"}, k = "Rule" => c \in Procs,
             Deferred(Unit(k, 0, c))
      PROVE  IInv'
  <2>1. PICK u : u = Unit(k, 0, c) OBVIOUS
  <2>2. /\ u \in UnitType /\ u.kind = k /\ u.step = 0 /\ u.target = c /\ u.rest = {}
        /\ u.group = {}
    <3>1. k \in Kinds BY <1>2 DEF Kinds
    <3> QED BY <2>1, <3>1, UnitFields
  <2>3. Sane(u) /\ Waits(u) BY <1>2, <2>2 DEF Sane, Waits
  <2>4. Deferred(u) BY <1>2, <2>1
  <2> QED BY <1>1, <2>2, <2>3, <2>4, DeferredKept
<1>3. CASE StartRule
  <2>1. PICK c \in Procs : Deferred(Unit("Rule", 0, c)) BY <1>3 DEF StartRule
  <2>2. c \in Members BY ConstantsAssumption DEF Members
  <2> QED BY <1>2, <2>1, <2>2
<1>4. CASE StartGroup
  <2>1. Deferred(Unit("RuleGroup", 0, None)) /\ None \in Members
    BY <1>4 DEF StartGroup, Members
  <2> QED BY <1>2, <2>1
<1> QED BY <1>3, <1>4

LEMMA StartFlipKept ==
  ASSUME IInv, StartFlip \/ StartSpellSet
  PROVE  IInv'
<1>1. Between /\ units = <<>> /\ Quiet
  BY StartsBetween DEF StartFlip, StartSpellSet, Idle, Quiet
<1>2. core.chain = 0
  <2>1. Len(units) = 0 /\ \A i \in 1 .. 0 : ~Live(units[i]) BY <1>1
  <2> QED BY <2>1 DEF IInv, Control, Chained
<1>3. ASSUME NEW c \in Cards, NEW k, k \in {"Flip", "SSet"},
             IF k = "Flip" THEN c \notin Spells ELSE c \in Spells, Begun(Unit(k, 0, c))
      PROVE  IInv'
  <2>1. PICK u : u = Unit(k, 0, c) OBVIOUS
  <2>2. /\ u \in UnitType /\ u.kind = k /\ u.step = 0 /\ u.target = c /\ u.rest = {}
        /\ u.group = {}
    <3>1. k \in Kinds /\ c \in Members BY <1>3 DEF Kinds, Members
    <3> QED BY <2>1, <3>1, UnitFields
  <2>3. Sane(u) BY <1>3, <2>2 DEF Sane, Monsters
  <2>4. Entry(u) /\ Free(u)
    BY <1>2, <1>3, <2>2, <2>3 DEF Entry, Active, Counting, Live, Busy, Prompt, Outside, Free,
      Sends, Opens
  <2>5. Begun(u) BY <1>3, <2>1
  <2>6. \A i \in 1 .. Len(units) : units[i].kind # "SetGroup"
    <3>1. Len(units) = 0 BY <1>1
    <3> QED BY <3>1
  <2> QED BY <1>1, <2>2, <2>4, <2>5, <2>6, SetsBegun
<1>4. CASE StartFlip
  <2>1. PICK c \in Cards \ Spells : Begun(Unit("Flip", 0, c)) BY <1>4 DEF StartFlip
  <2> QED BY <1>3, <2>1
<1>5. CASE StartSpellSet
  <2>1. PICK c \in Spells : Begun(Unit("SSet", 0, c)) BY <1>5 DEF StartSpellSet
  <2> QED BY <1>3, <2>1, ConstantsAssumption
<1> QED BY <1>4, <1>5

LEMMA StartGroupsKept ==
  ASSUME IInv, StartSpellSetGroup \/ StartSpecialSummon
  PROVE  IInv'
<1>1. Between /\ Quiet
  BY StartsBetween DEF StartSpellSetGroup, StartSpecialSummon, Quiet
<1>2. ASSUME NEW S \in SUBSET Cards, NEW k, k \in {"SetGroup", "SpSummon"},
             IF k = "SetGroup" THEN S \subseteq Spells ELSE S \subseteq Monsters,
             k = "SetGroup" => \A i \in 1 .. Len(units) : units[i].kind # "SetGroup",
             Begun(GroupUnit(k, 0, S))
      PROVE  IInv'
  <2>1. PICK u : u = GroupUnit(k, 0, S) OBVIOUS
  <2>2. /\ u \in UnitType /\ u.kind = k /\ u.step = 0 /\ u.rest = {} /\ u.group = S
    <3>1. None \in Members /\ S \in SUBSET Members /\ k \in Kinds
      BY <1>2 DEF Members, Kinds
    <3> QED BY <2>1, <3>1, GroupFields
  <2>3. Sane(u) BY <1>2, <2>2 DEF Sane
  <2>4. Entry(u) /\ Free(u)
    BY <1>2, <2>2, <2>3 DEF Entry, Active, Counting, Live, Busy, Prompt, Outside, Free,
      Sends, Opens
  <2>5. Begun(u) BY <1>2, <2>1
  <2>6. CASE k = "SetGroup" BY <1>1, <1>2, <2>2, <2>4, <2>5, <2>6, SetsBegun
  <2>7. CASE k = "SpSummon"
    <3>1. Other(u) BY <2>2, <2>7 DEF Other
    <3> QED BY <1>1, <2>4, <2>5, <3>1, BegunKept
  <2> QED BY <1>2, <2>6, <2>7
<1>3. CASE StartSpellSetGroup
  <2>1. PICK S \in SUBSET {c \in Spells : cards[c].loc = "HAND"} :
          Begun(GroupUnit("SetGroup", 0, S))
    BY <1>3 DEF StartSpellSetGroup
  <2>2. S \subseteq Spells /\ S \in SUBSET Cards BY <2>1, ConstantsAssumption
  <2>3. \A i \in 1 .. Len(units) : units[i].kind # "SetGroup"
    BY <1>3, OldTypes DEF StartSpellSetGroup
  <2> QED BY <1>2, <2>1, <2>2, <2>3
<1>4. CASE StartSpecialSummon
  <2>1. PICK S \in SUBSET {c \in Cards \ Spells : cards[c].loc # "MZONE"} :
          Begun(GroupUnit("SpSummon", 0, S))
    BY <1>4 DEF StartSpecialSummon
  <2>2. S \subseteq Monsters /\ S \in SUBSET Cards BY <2>1 DEF Monsters
  <2> QED BY <1>2, <2>1, <2>2
<1> QED BY <1>3, <1>4

LEMMA NegateSummonKept ==
  ASSUME IInv, NegateSummon
  PROVE  IInv'
<1>1. Between /\ units' = units /\ core' = core /\ setting' = setting
  BY StartsBetween DEF NegateSummon
<1>2. PICK S \in SUBSET {c \in Cards : cards[c].summoning} :
        /\ cards' = Changed(S, LAMBDA x : [x EXCEPT !.summoning = FALSE])
        /\ seen' = [seen EXCEPT !.negated = @ \cup S]
  BY DEF NegateSummon
<1>3. CardsOK(cards) /\ S \subseteq Cards BY OldTypes
<1>4. \A c \in Cards : cards'[c] = IF c \in S THEN [cards[c] EXCEPT !.summoning = FALSE]
                                   ELSE cards[c]
  BY <1>2 DEF Changed
<1>5. \A c \in Cards : /\ cards'[c] \in CardType /\ cards'[c].loc = cards[c].loc
                       /\ cards'[c].seq = cards[c].seq
                       /\ cards'[c].summoning => cards[c].summoning
                       /\ cards'[c].spsummon_step = cards[c].spsummon_step
                       /\ cards'[c].facedown = cards[c].facedown
                       /\ cards'[c].enabled = cards[c].enabled
  <2> TAKE c \in Cards
  <2>1. cards[c] \in CardType BY <1>3 DEF CardsOK
  <2> QED BY <2>1, <1>4 DEF CardType
<1>6. CardsOK(cards')
  <2>1. cards' \in [Cards -> CardType] BY <1>2, <1>5 DEF Changed
  <2> QED BY <2>1, <1>3, <1>5 DEF CardsOK
<1>7. /\ seen' \in SeenType /\ seen'.tries = seen.tries /\ seen'.left = seen.left
      /\ seen'.successes = seen.successes /\ seen'.promised = seen.promised
  BY <1>2, <1>3, OldTypes DEF SeenType
<1>8. DataOK /\ Calm /\ Levelled
  BY <1>1, <1>5, <1>6, <1>7, OldTypes DEF DataOK, Calm, Levelled
<1>9. Waiting'
  <2>1. \A u : Waits(u)' <=> Waits(u) BY <1>1 DEF Waits, Sets
  <2> QED BY <1>1, <1>7, <2>1 DEF IInv, Control, Waiting, Waits, Sets
<1>10. \A c \in Cards : Bare(c)' => Bare(c) BY <1>5 DEF Bare
<1> QED BY <1>1, <1>5, <1>7, <1>8, <1>9, <1>10, StillKept

-----------------------------------------------------------------------------
(* Steps that put units on the stack which are not begun yet. *)

Light(u) ==
  /\ ~Active(u) /\ ~Busy(u) /\ ~Counting(u) /\ ~Prompt(u)
  /\ u.kind = "MSet" => Sets
Lightly(n) ==
  /\ units # <<>> /\ Restacked(1, n) /\ n \in Nat /\ units' \in Seq(UnitType)
  /\ \A i \in 1 .. n : Light(units'[i]) /\ Sane(units'[i])

LEMMA ControlLight ==
  ASSUME Types, Control, NEW n, Lightly(n), ~Active(Front), ~Counting(Front),
         Front.kind # "ToGrave", setting' = setting,
         core'.summon_count = core.summon_count, core'.summon_depth = core.summon_depth,
         Tallies(0), Chained', Waiting'
  PROVE  Control'
<1>0. /\ units \in Seq(UnitType) /\ units # <<>> /\ n \in Nat
      /\ Restacked(1, n) /\ units' \in Seq(UnitType)
      /\ \A i \in 1 .. n : Light(units'[i])
  BY DEF Types, Lightly
<1>1. Front = units[1] /\ Len(units) \in Nat \ {0} /\ Len(units') \in Nat
      /\ Len(units') = Len(units) - 1 + n
      /\ \A k \in 1 .. Len(units') :
           k <= n \/ (k - n + 1 \in 1 + 1 .. Len(units) /\ units'[k] = units[k - n + 1])
  BY <1>0, Fronts DEF Restacked
<1>2. \A i \in 1 .. n :
        /\ ~Active(units'[i]) /\ ~Counting(units'[i]) /\ ~Busy(units'[i]) /\ ~Prompt(units'[i])
        /\ ~Claims(units'[i]) /\ (units'[i].kind = "MSet" => Sets)
  BY <1>0 DEF Light, Claims
<1>3. n > 0 => n \in 1 .. n BY <1>0
<1>4. Prompts'
  <2>1. \A i \in 2 .. n : ~Prompt(units'[i]) BY <1>0, <1>2
  <2> QED BY <2>1, <1>0, PromptsKept DEF Control
<1>5. Depth'
  <2>1. core'.summon_depth = core.summon_depth
          - (IF 1 = 1 /\ Active(units[1]) THEN 1 ELSE 0)
          + (IF n > 0 /\ Active(units'[n]) THEN 1 ELSE 0)
    <3>1. ~(n > 0 /\ Active(units'[n])) BY <1>2, <1>3
    <3>2. core.summon_depth \in Nat BY DEF Types, CoreType
    <3> QED BY <3>1, <3>2, <1>1
  <2>2. \A i \in 1 .. n : Active(units'[i]) => i = n BY <1>2
  <2> QED BY <2>1, <2>2, <1>0, DepthKept DEF Control
<1>6. Tallied'
  <2>1. PICK d \in Int : d = 0 OBVIOUS
  <2>2. d = (IF n > 0 /\ Counting(units'[n]) THEN 1 ELSE 0)
            - (IF 1 = 1 /\ Counting(units[1]) THEN 1 ELSE 0)
    <3>1. ~(n > 0 /\ Counting(units'[n])) BY <1>2, <1>3
    <3> QED BY <2>1, <3>1, <1>1
  <2>3. \A i \in 1 .. n : Counting(units'[i]) => i = n BY <1>2
  <2>4. /\ seen'.tries \in Nat /\ seen'.successes \in Nat
        /\ core'.state_count = core.state_count
             + IF setting.oath_old THEN seen'.tries - seen.tries
                                   ELSE (seen'.successes - seen.successes) + d
    BY <2>1 DEF Tallies
  <2> QED BY <2>2, <2>3, <2>4, <1>0, TallyKept DEF Control
<1>7. Limited'
  <2>1. Fits(1, n)
    <3>1. ~setting.interrupted => n = 0 \/ \A i \in 1 + 1 .. Len(units) : ~Busy(units[i])
      <4>1. ~setting.interrupted => \A i \in 2 .. Len(units) : ~Busy(units[i])
        BY <1>0, Alone DEF Control
      <4> QED BY <4>1
    <3> QED BY <1>2, <3>1 DEF Fits
  <2>2. ~(n > 0 /\ Claims(units'[n])) BY <1>2, <1>3
  <2>3. units' # <<>> => Ready(Front)'
    <3> SUFFICES ASSUME units' # <<>> PROVE Ready(Front)' OBVIOUS
    <3>1. Front' = units'[1] /\ 1 \in 1 .. Len(units') BY <1>0, EmptySeq DEF Front
    <3>2. ~Prompt(units'[1])
      <4>1. CASE n = 0
        <5>1. 2 \in 2 .. Len(units) /\ units'[1] = units[2] BY <3>1, <4>1, <1>1
        <5> QED BY <5>1 DEF Control, Prompts
      <4>2. CASE n # 0
        <5>1. 1 \in 1 .. n BY <4>2, <1>0
        <5> QED BY <5>1, <1>2
      <4> QED BY <4>1, <4>2
    <3> QED BY <3>1, <3>2 DEF Ready, Prompt, Busy
  <2> QED BY <2>1, <2>2, <2>3, <1>0, LimitedSame DEF Control
<1> QED BY <1>4, <1>5, <1>6, <1>7 DEF Control

(* PointEvent and SolveChain: nothing is half done by them. *)
Plain(u) ==
  /\ Free(u) /\ Other(u) /\ \A c \in Cards : ~Window(u, c) /\ ~Grouped(u, c) /\ ~Moved(u, c)
LEMMA PlainStep ==
  ASSUME IInv, NEW n, Lightly(n), Plain(Front), ~Active(Front), ~Counting(Front),
         Front.kind # "ToGrave", ~Lays(Front), setting' = setting, cards' = cards,
         core'.summon_count = core.summon_count, core'.summon_depth = core.summon_depth,
         Tallies(0), Chained', Waiting', DataOK, Calm, Levelled,
         \A i \in 1 .. n : Free(units'[i]) /\ Other(units'[i])
  PROVE  IInv'
<1>0. /\ units \in Seq(UnitType) /\ units # <<>> /\ n \in Nat
      /\ Restacked(1, n) /\ units' \in Seq(UnitType)
      /\ \A i \in 1 .. n : Light(units'[i]) /\ Sane(units'[i])
      /\ \A i \in 1 .. n : Free(units'[i]) /\ Other(units'[i])
  BY OldTypes DEF Lightly
<1>1. Front = units[1] /\ Len(units) \in Nat \ {0} BY <1>0, Fronts
<1>2. Types' BY <1>0, TypesKept DEF IInv, DataOK
<1>3. Control' BY ControlLight DEF IInv
<1>4. \A i \in 1 .. 1 : Free(units[i]) /\ Other(units[i]) /\ ~Lays(units[i])
  BY <1>1 DEF Plain
<1>5. Owned' /\ Opened'
  <2>1. Frees(1, n) BY <1>0, <1>4 DEF Frees, Levelled
  <2> QED BY <2>1, <1>0, OwnedFree DEF IInv, Half
<1>6. AsksFor(1, n) /\ MarksFor(1, n) /\ BaresFor(1, n)
  <2>1. \A c \in Cards :
          /\ cards[c].summoning => \E k \in 1 + 1 .. Len(units) : Window(units[k], c)
          /\ cards[c].spsummon_step =>
               c \in core.special_summoning \/ \E k \in 1 + 1 .. Len(units) : Marked(units, k, c)
          /\ Bare(c) =>
               c \in core.special_summoning \/ \E k \in 1 + 1 .. Len(units) : Pending(units, k, c)
    <3>1. 1 \in 0 .. 1 /\ 1 <= Len(units) /\ \A i \in 1 .. 1 : Free(units[i])
      BY <1>1, <1>4
    <3> QED BY <3>1, Before DEF IInv, Plain
  <2>2. AsksFor(1, n) BY <2>1 DEF AsksFor
  <2>3. MarksFor(1, n) BY <2>1 DEF MarksFor, Levelled
  <2>4. BaresFor(1, n) BY <2>1 DEF BaresFor, Levelled, Bare
  <2> QED BY <2>2, <2>3, <2>4
<1>7. units' # <<>> => units'[1].kind # "ToField"
  <2> SUFFICES ASSUME units' # <<>> PROVE units'[1].kind # "ToField" OBVIOUS
  <2>1. 1 \in 1 .. Len(units') BY <1>0, EmptySeq
  <2>2. CASE n = 0
    <3>1. 2 \in 2 .. Len(units) /\ units'[1] = units[2]
      BY <2>1, <2>2, <1>0, <1>1 DEF Restacked
    <3> QED BY <3>1 DEF IInv, Control, Prompts, Prompt
  <2>3. CASE n # 0
    <3>1. 1 \in 1 .. n BY <2>3, <1>0
    <3> QED BY <3>1, <1>0 DEF Light, Prompt
  <2> QED BY <2>2, <2>3
<1>8. Half'
  <2>1. Mounts(units') BY <1>7 DEF Mounts
  <2> QED BY <2>1, <1>0, <1>5, <1>6, FlagsKept DEF Half
<1>9. Zones'
  <2>1. n > 0 => ~Lays(units'[1])
    <3>1. n > 0 => 1 \in 1 .. n BY <1>0
    <3> QED BY <3>1, <1>0 DEF Light, Prompt, Lays
  <2> QED BY <2>1, <1>0, <1>4, ZonesFrame DEF IInv, Control
<1> QED BY <1>2, <1>3, <1>8, <1>9 DEF IInv

LEMMA ReservedLight ==
  ASSUME IInv
  PROVE  /\ core.reserved \in Seq(UnitType) /\ Len(core.reserved) \in Nat
         /\ core.reserved = <<>> => ~seen.promised
         /\ \A i \in 1 .. Len(core.reserved) :
              /\ core.reserved[i] \in UnitType
              /\ Sane(core.reserved[i]) /\ Light(core.reserved[i])
              /\ Free(core.reserved[i]) /\ Other(core.reserved[i])
              /\ ~Live(core.reserved[i]) /\ ~Outside(core.reserved[i])
<1>1. core.reserved \in Seq(UnitType) /\ Len(core.reserved) \in Nat
  BY OldTypes DEF CoreType
<1>2. core.reserved = <<>> => ~seen.promised BY DEF IInv, Control, Waiting
<1>3. ASSUME NEW i \in 1 .. Len(core.reserved)
      PROVE  /\ core.reserved[i] \in UnitType
             /\ Sane(core.reserved[i]) /\ Light(core.reserved[i])
             /\ Free(core.reserved[i]) /\ Other(core.reserved[i])
             /\ ~Live(core.reserved[i]) /\ ~Outside(core.reserved[i])
  <2>1. PICK u \in UnitType : u = core.reserved[i] BY <1>1, ElementOfSeq
  <2>2. Sane(u) /\ Waits(u) BY <2>1 DEF IInv, Control, Waiting
  <2>3. /\ Light(u) /\ Free(u) /\ Other(u) /\ ~Live(u) /\ ~Outside(u)
    BY <2>2 DEF Waits, Light, Active, Busy, Counting, Prompt, Free, Sends, Opens, Other, Live,
      Outside
  <2> QED BY <2>1, <2>2, <2>3
<1> QED BY <1>1, <1>2, <1>3

(* What a chain leaves of core and seen as it was. *)
Linked(ch, r) == [core EXCEPT !.chain = ch, !.reserved = r]
LEMMA LinkFrame ==
  ASSUME IInv, NEW ch \in Nat, NEW r \in Seq(UnitType), core' = Linked(ch, r),
         cards' = cards, NEW p \in BOOLEAN, seen' = [seen EXCEPT !.promised = p]
  PROVE  /\ DataOK /\ Calm /\ Levelled /\ Tallies(0)
         /\ core'.summon_count = core.summon_count /\ core'.summon_depth = core.summon_depth
         /\ core'.chain = ch /\ core'.reserved = r /\ seen'.promised = p
<1>1. /\ core' \in CoreType /\ core'.chain = ch /\ core'.reserved = r
      /\ core'.summon_count = core.summon_count /\ core'.summon_depth = core.summon_depth
      /\ core'.special_summoning = core.special_summoning
      /\ core'.ss_tograve = core.ss_tograve /\ core'.state_count = core.state_count
  <2>1. PICK x : x = [core EXCEPT !.chain = ch] OBVIOUS
  <2>2. /\ x \in CoreType /\ x.chain = ch
        /\ x.summon_count = core.summon_count /\ x.summon_depth = core.summon_depth
        /\ x.special_summoning = core.special_summoning
        /\ x.ss_tograve = core.ss_tograve /\ x.state_count = core.state_count
    BY <2>1, OldTypes DEF CoreType
  <2>3. core' = [x EXCEPT !.reserved = r] BY <2>1 DEF Linked
  <2> QED BY <2>2, <2>3 DEF CoreType
<1>2. /\ core'.szone = core.szone /\ core'.pre_set = core.pre_set /\ core'.set = core.set
      /\ core'.used_zones = core.used_zones /\ core'.seq = core.seq
  BY OldTypes DEF CoreType, Linked
<1>3. /\ seen' \in SeenType /\ seen'.tries = seen.tries /\ seen'.left = seen.left
      /\ seen'.successes = seen.successes /\ seen'.promised = p
  BY OldTypes DEF SeenType
<1>4. DataOK /\ Calm /\ Levelled /\ Tallies(0)
  BY <1>1, <1>2, <1>3, OldTypes, TalliesSame DEF DataOK, Calm, Levelled
<1> QED BY <1>1, <1>3, <1>4

LEMMA ChainBuiltKept ==
  ASSUME IInv, ChainBuilt
  PROVE  IInv'
<1>1. /\ units # <<>> /\ Front.kind = "Point" /\ Front.step = 0
      /\ cards' = cards /\ setting' = setting /\ seen' = seen
  BY DEF ChainBuilt, At
<1>2. PICK m \in 1 .. setting.links :
        core' = [core EXCEPT !.chain = m] /\ GoOn(0, <<Unit("Solve", 0, None)>>)
  BY DEF ChainBuilt
<1>3. PICK w : w = Unit("Solve", 0, None) OBVIOUS
<1>4. w \in UnitType /\ w.kind = "Solve" /\ w.step = 0 /\ w.group = {} /\ w.rest = {}
  <2>1. "Solve" \in Kinds /\ None \in Members BY DEF Kinds, Members
  <2> QED BY <1>3, <2>1, UnitFields
<1>5. PICK b : b = <<w>> OBVIOUS
<1>6. b \in Seq(UnitType) /\ Len(b) = 1 /\ b[1] = w BY <1>4, <1>5
<1>7. PICK v : v = Now(Front, 0) OBVIOUS
<1>8. /\ v \in UnitType /\ v.kind = "Point" /\ v.step = 0 /\ v.rest = Front.rest
      /\ v.group = Front.group /\ v.target = Front.target
  BY <1>1, <1>7, Onward
<1>9. /\ units' \in Seq(UnitType) /\ Restacked(1, 2) /\ units'[2] = v /\ units'[1] = w
  <2>1. GoOnAs(Front, 0, b) BY <1>2, <1>3, <1>5 DEF GoOn
  <2>2. /\ units' \in Seq(UnitType) /\ Restacked(1, Len(b) + 1)
        /\ units'[Len(b) + 1] = v /\ \A i \in 1 .. Len(b) : units'[i] = b[i]
    BY <1>1, <1>6, <1>7, <2>1, OldTypes, FrontTypes, GoneOn
  <2> QED BY <1>6, <2>2
<1>10. Sane(w) /\ Sane(v)
  <2>1. Front.rest = {} BY <1>1, FrontTypes DEF Sane
  <2> QED BY <1>4, <1>8, <2>1 DEF Sane
<1>11. /\ Light(w) /\ Light(v) /\ Free(w) /\ Free(v) /\ Other(w) /\ Other(v)
       /\ Live(w) /\ ~Live(v)
  BY <1>4, <1>8 DEF Light, Active, Busy, Counting, Prompt, Free, Sends, Opens, Other, Live
<1>12. \A i \in 1 .. 2 : i = 1 \/ i = 2 OBVIOUS
<1>13. Lightly(2) BY <1>1, <1>9, <1>10, <1>11, <1>12 DEF Lightly
<1>14. m \in Nat \ {0} /\ m <= setting.links BY OldTypes DEF AllSettings
<1>15. /\ DataOK /\ Calm /\ Levelled /\ Tallies(0)
       /\ core'.summon_count = core.summon_count /\ core'.summon_depth = core.summon_depth
       /\ core'.chain = m /\ core'.reserved = core.reserved /\ seen'.promised = seen.promised
  <2>1. core' = Linked(m, core.reserved)
    <3>1. core \in CoreType BY OldTypes
    <3> QED BY <1>2, <3>1 DEF Linked, CoreType
  <2>2. core.reserved \in Seq(UnitType) /\ seen.promised \in BOOLEAN
    BY OldTypes DEF CoreType, SeenType
  <2>3. seen' = [seen EXCEPT !.promised = seen.promised]
    <3>1. seen \in SeenType BY OldTypes
    <3> QED BY <1>1, <3>1 DEF SeenType
  <2>4. m \in Nat BY <1>14
  <2> QED BY <1>1, <2>1, <2>2, <2>3, <2>4, LinkFrame
<1>16. Front = units[1] /\ Len(units) \in Nat \ {0} /\ Outside(Front)
  <2>1. Front = units[1] /\ Len(units) \in Nat \ {0} BY <1>1, OldTypes, Fronts
  <2> QED BY <1>1, <2>1 DEF Outside
<1>17. \A k \in 1 + 1 .. Len(units) : ~Live(units[k])
  <2> TAKE k \in 1 + 1 .. Len(units)
  <2>1. 1 \in 1 .. Len(units) /\ k \in 1 .. Len(units) /\ 1 < k BY <1>16
  <2> QED BY <1>16, <2>1 DEF IInv, Control, Chained
<1>18. Chained'
  <2>1. (core'.chain = 0) <=> /\ \A i \in 1 .. 2 : ~Live(units'[i])
                              /\ \A i \in 1 + 1 .. Len(units) : ~Live(units[i])
    BY <1>9, <1>11, <1>14, <1>15
  <2>2. \A i, j \in 1 .. 2 : j < i /\ Live(units'[i]) => ~Outside(units'[j])
    BY <1>9, <1>11, <1>12
  <2>3. core'.chain <= setting.links BY <1>14, <1>15
  <2> QED BY <1>1, <1>9, <1>17, <2>1, <2>2, <2>3, ChainedKept DEF IInv, Control
<1>19. Waiting'
  <2>1. 1 = 1 /\ units[1].kind = "Solve" => \E i \in 1 .. 2 : units'[i].kind = "Solve"
    BY <1>1, <1>16
  <2> QED BY <1>1, <1>9, <1>15, <2>1, WaitingSame DEF IInv, Control
<1>20. Plain(Front) /\ ~Active(Front) /\ ~Counting(Front) /\ ~Lays(Front)
  BY <1>1 DEF Plain, Free, Sends, Opens, Other, Window, Grouped, Moved, Active, Counting, Lays
<1>21. \A i \in 1 .. 2 : Free(units'[i]) /\ Other(units'[i]) BY <1>9, <1>11, <1>12
<1> QED BY <1>1, <1>13, <1>15, <1>18, <1>19, <1>20, <1>21, PlainStep

(* The one chain that is resolved. *)
LEMMA FrontLink ==
  ASSUME IInv, units # <<>>, Front.kind = "Solve"
  PROVE  /\ Front = units[1] /\ Len(units) \in Nat \ {0} /\ Outside(Front)
         /\ \A k \in 1 + 1 .. Len(units) : ~Live(units[k])
         /\ Live(Front) <=> core.chain # 0
         /\ Plain(Front) /\ ~Active(Front) /\ ~Counting(Front) /\ ~Lays(Front)
<1>1. Front = units[1] /\ Len(units) \in Nat \ {0} /\ Outside(Front)
  <2>1. Front = units[1] /\ Len(units) \in Nat \ {0} BY OldTypes, Fronts
  <2> QED BY <2>1 DEF Outside
<1>2. \A k \in 1 + 1 .. Len(units) : ~Live(units[k])
  <2> TAKE k \in 1 + 1 .. Len(units)
  <2>1. 1 \in 1 .. Len(units) /\ k \in 1 .. Len(units) /\ 1 < k BY <1>1
  <2> QED BY <1>1, <2>1 DEF IInv, Control, Chained
<1>3. Live(Front) <=> core.chain # 0
  <2>1. \A k \in 1 .. Len(units) : k = 1 \/ k \in 1 + 1 .. Len(units) BY <1>1
  <2>2. 1 \in 1 .. Len(units) BY <1>1
  <2> QED BY <1>1, <1>2, <2>1, <2>2 DEF IInv, Control, Chained
<1>4. Plain(Front) /\ ~Active(Front) /\ ~Counting(Front) /\ ~Lays(Front)
  BY DEF Plain, Free, Sends, Opens, Other, Window, Grouped, Moved, Active, Counting, Lays
<1> QED BY <1>1, <1>2, <1>3, <1>4

LEMMA PushedSeen ==
  ASSUME IInv, seen' = Pushed
  PROVE  seen' = [seen EXCEPT !.promised = FALSE]
<1>1. core.reserved = <<>> => ~seen.promised BY ReservedLight
<1>2. seen \in SeenType BY OldTypes
<1> QED BY <1>1, <1>2 DEF Pushed, Reserved, SeenType

LEMMA ChainOverKept ==
  ASSUME IInv, ChainOver
  PROVE  IInv'
<1>1. /\ units # <<>> /\ Front.kind = "Solve" /\ Front.step = 12
      /\ cards' = cards /\ setting' = setting /\ seen' = Pushed /\ Finish(core.reserved)
      /\ core' = [core EXCEPT !.reserved = <<>>]
  BY DEF ChainOver, At, Reserved
<1>2. PICK b : b = core.reserved OBVIOUS
<1>3. PICK n : n = Len(b) OBVIOUS
<1>4. /\ b \in Seq(UnitType) /\ n \in Nat
      /\ \A i \in 1 .. n : /\ Sane(b[i]) /\ Light(b[i]) /\ Free(b[i]) /\ Other(b[i])
                           /\ ~Live(b[i]) /\ ~Outside(b[i])
  BY <1>2, <1>3, ReservedLight
<1>5. units' \in Seq(UnitType) /\ Restacked(1, n) /\ \A i \in 1 .. n : units'[i] = b[i]
  BY <1>1, <1>2, <1>3, <1>4, OldTypes, Finished
<1>6. \A i \in 1 .. n : /\ Sane(units'[i]) /\ Light(units'[i]) /\ Free(units'[i])
                        /\ Other(units'[i]) /\ ~Live(units'[i]) /\ ~Outside(units'[i])
  BY <1>4, <1>5
<1>7. Lightly(n) BY <1>1, <1>4, <1>5, <1>6 DEF Lightly
<1>8. /\ DataOK /\ Calm /\ Levelled /\ Tallies(0)
      /\ core'.summon_count = core.summon_count /\ core'.summon_depth = core.summon_depth
      /\ core'.chain = core.chain /\ core'.reserved = <<>> /\ ~seen'.promised
  <2>0. <<>> \in Seq(UnitType) OBVIOUS
  <2>1. PICK r \in Seq(UnitType) : r = <<>> BY <2>0
  <2>2. core' = Linked(core.chain, r) /\ core.chain \in Nat
    <3>1. core \in CoreType BY OldTypes
    <3> QED BY <1>1, <2>1, <3>1 DEF Linked, CoreType
  <2>3. PICK p \in BOOLEAN : p = FALSE OBVIOUS
  <2>4. seen' = [seen EXCEPT !.promised = p] BY <1>1, <2>3, PushedSeen
  <2>5. /\ DataOK /\ Calm /\ Levelled /\ Tallies(0)
        /\ core'.summon_count = core.summon_count /\ core'.summon_depth = core.summon_depth
        /\ core'.chain = core.chain /\ core'.reserved = r /\ seen'.promised = p
    BY <1>1, <2>2, <2>4, LinkFrame
  <2> QED BY <2>1, <2>3, <2>5
<1>9. /\ Front = units[1] /\ Plain(Front) /\ ~Active(Front) /\ ~Counting(Front) /\ ~Lays(Front)
      /\ ~Live(Front)
  BY <1>1, FrontLink DEF Live
<1>10. Chained'
  <2>1. (n > 0 /\ Live(units'[n])) <=> (1 = 1 /\ Live(units[1]))
    <3>1. n > 0 => n \in 1 .. n BY <1>4
    <3> QED BY <1>6, <1>9, <3>1
  <2> QED BY <1>1, <1>5, <1>6, <1>8, <2>1, ChainedSame DEF IInv, Control
<1>11. Waiting' BY <1>8 DEF Waiting
<1> QED BY <1>1, <1>6, <1>7, <1>8, <1>9, <1>10, <1>11, PlainStep

LEMMA LinkOverKept ==
  ASSUME IInv, LinkOver
  PROVE  IInv'
<1>1. /\ units # <<>> /\ Front.kind = "Solve" /\ Front.step = 10
      /\ cards' = cards /\ setting' = setting
  BY DEF LinkOver, At
<1>2. /\ Front = units[1] /\ Plain(Front) /\ ~Active(Front) /\ ~Counting(Front) /\ ~Lays(Front)
      /\ Live(Front) /\ Outside(Front) /\ core.chain # 0 /\ Len(units) \in Nat \ {0}
      /\ \A k \in 1 + 1 .. Len(units) : ~Live(units[k])
  BY <1>1, FrontLink DEF Live
<1>3. PICK last \in BOOLEAN : last <=> core.chain = 1 OBVIOUS
<1>4. PICK s \in Nat : s = IF last THEN 12 ELSE 0 OBVIOUS
<1>5. PICK b : b = IF last THEN <<>> ELSE core.reserved OBVIOUS
<1>6. PICK r : r = IF last THEN core.reserved ELSE <<>> OBVIOUS
<1>7. PICK p : p = IF last THEN seen.promised ELSE FALSE OBVIOUS
<1>8. PICK ch : ch = core.chain - 1 OBVIOUS
<1>9. ch \in Nat /\ (ch = 0 <=> last) /\ ch <= setting.links
  <2>1. core.chain \in Nat /\ setting.links \in Nat /\ core.chain <= setting.links
    BY OldTypes DEF CoreType, AllSettings, IInv, Control, Chained
  <2> QED BY <1>2, <1>3, <1>8, <2>1
<1>10. r \in Seq(UnitType) /\ b \in Seq(UnitType) /\ p \in BOOLEAN
  <2>1. core.reserved \in Seq(UnitType) /\ <<>> \in Seq(UnitType) BY ReservedLight
  <2>2. seen.promised \in BOOLEAN BY OldTypes DEF SeenType
  <2>3. r \in Seq(UnitType) /\ b \in Seq(UnitType) BY <1>5, <1>6, <2>1
  <2>4. p \in BOOLEAN BY <1>7, <2>2
  <2> QED BY <2>3, <2>4
<1>11. GoOnAs(Front, s, b) /\ core' = Linked(ch, r)
  <2>1. core' = [core EXCEPT !.chain = core.chain - 1,
                             !.reserved = IF core.chain = 1 THEN core.reserved ELSE <<>>]
    BY OldTypes DEF LinkOver, CoreType
  <2> QED BY <2>1, <1>3, <1>4, <1>5, <1>6, <1>8 DEF LinkOver, GoOn, Reserved, Linked
<1>12. seen' = [seen EXCEPT !.promised = p]
  <2>1. CASE last
    <3>1. seen \in SeenType BY OldTypes
    <3> QED BY <1>3, <1>7, <2>1, <3>1 DEF LinkOver, SeenType
  <2>2. CASE ~last BY <1>3, <1>7, <2>2, PushedSeen DEF LinkOver
  <2> QED BY <2>1, <2>2
<1>13. /\ DataOK /\ Calm /\ Levelled /\ Tallies(0)
       /\ core'.summon_count = core.summon_count /\ core'.summon_depth = core.summon_depth
       /\ core'.chain = ch /\ core'.reserved = r /\ seen'.promised = p
  BY <1>1, <1>9, <1>10, <1>11, <1>12, LinkFrame
<1>14. PICK v : v = Now(Front, s) OBVIOUS
<1>15. /\ v \in UnitType /\ v.kind = "Solve" /\ v.step = s /\ v.rest = Front.rest
       /\ v.group = Front.group /\ v.target = Front.target
  BY <1>1, <1>14, Onward
<1>16. PICK n \in Nat : n = Len(b) BY <1>10
<1>17. /\ units' \in Seq(UnitType) /\ Restacked(1, n + 1) /\ units'[n + 1] = v
       /\ \A i \in 1 .. n : units'[i] = b[i]
  BY <1>1, <1>10, <1>11, <1>14, <1>16, OldTypes, FrontTypes, GoneOn
<1>18. \A i \in 1 .. n : /\ Sane(b[i]) /\ Light(b[i]) /\ Free(b[i]) /\ Other(b[i])
                         /\ ~Live(b[i]) /\ ~Outside(b[i])
  <2>1. CASE last
    <3>1. n = 0 BY <1>5, <1>16, <2>1
    <3> QED BY <3>1
  <2>2. CASE ~last BY <1>5, <1>16, <2>2, ReservedLight
  <2> QED BY <2>1, <2>2
<1>19. /\ Sane(v) /\ Light(v) /\ Free(v) /\ Other(v) /\ (Live(v) <=> ~last)
  <2>1. Front.rest = {} BY <1>1, FrontTypes DEF Sane
  <2> QED
    BY <1>4, <1>15, <2>1 DEF Sane, Light, Active, Busy, Counting, Prompt, Free, Sends, Opens,
      Other, Live
<1>20. \A i \in 1 .. n + 1 : i \in 1 .. n \/ i = n + 1 BY <1>16
<1>21. \A i \in 1 .. n + 1 : /\ Sane(units'[i]) /\ Light(units'[i]) /\ Free(units'[i])
                             /\ Other(units'[i])
  BY <1>17, <1>18, <1>19, <1>20
<1>22. Lightly(n + 1) BY <1>1, <1>16, <1>17, <1>21 DEF Lightly
<1>23. Chained'
  <2>1. n + 1 \in 1 .. n + 1 /\ \A i \in 1 .. n : i # n + 1 BY <1>16
  <2>2. (core'.chain = 0) <=> /\ \A i \in 1 .. n + 1 : ~Live(units'[i])
                              /\ \A i \in 1 + 1 .. Len(units) : ~Live(units[i])
    BY <1>2, <1>9, <1>13, <1>17, <1>18, <1>19, <1>20, <2>1
  <2>3. \A i, j \in 1 .. n + 1 : j < i /\ Live(units'[i]) => ~Outside(units'[j])
    <3> TAKE i, j \in 1 .. n + 1
    <3> SUFFICES ASSUME j < i, Live(units'[i]) PROVE ~Outside(units'[j]) OBVIOUS
    <3>1. j \in 1 .. n BY <1>16
    <3> QED BY <3>1, <1>17, <1>18
  <2>4. \A i \in 1 .. n + 1 : Outside(units'[i]) =>
          \A k \in 1 + 1 .. Len(units) : ~Live(units[k])
    BY <1>2
  <2>5. core'.chain <= setting.links BY <1>9, <1>13
  <2> QED BY <1>1, <1>17, <2>2, <2>3, <2>4, <2>5, ChainedKept DEF IInv, Control
<1>24. Waiting'
  <2>1. CASE last
    <3>1. core'.reserved = core.reserved /\ seen'.promised = seen.promised
      BY <1>6, <1>7, <1>13, <2>1
    <3>2. n + 1 \in 1 .. n + 1 /\ units'[n + 1].kind = "Solve" BY <1>15, <1>16, <1>17
    <3>3. 1 = 1 /\ units[1].kind = "Solve" => \E i \in 1 .. n + 1 : units'[i].kind = "Solve"
      BY <3>2
    <3> QED BY <1>1, <1>17, <3>1, <3>3, WaitingSame DEF IInv, Control
  <2>2. CASE ~last BY <1>6, <1>7, <1>13, <2>2 DEF Waiting
  <2> QED BY <2>1, <2>2
<1>25. Front.kind # "ToGrave" BY <1>1
<1>26. PICK m : m = n + 1 OBVIOUS
<1>27. Lightly(m) /\ \A i \in 1 .. m : Free(units'[i]) /\ Other(units'[i])
  BY <1>21, <1>22, <1>26
<1> QED BY <1>1, <1>2, <1>13, <1>23, <1>24, <1>25, <1>27, PlainStep

-----------------------------------------------------------------------------
(* A card leaves its zone. *)

Vacating ==
  /\ core'.pre_set = core.pre_set /\ core'.set = core.set
  /\ core'.used_zones = core.used_zones /\ core'.seq = core.seq
  /\ seen.left \subseteq seen'.left
  /\ \A q \in Seqs : core'.szone[q] \in {core.szone[q], None}
  /\ \A c \in Cards : cards[c].loc = "SZONE" => cards'[c].loc = "SZONE" \/ c \in seen'.left

LEMMA VacatedSeats ==
  ASSUME Types, Seats(core, cards, seen.left), Vacating
  PROVE  Seats(core', cards', seen'.left)
<1>1. \A i : Nth(core', i) = Nth(core, i) BY DEF Nth, Vacating
<1>2. Ranks(core') = Ranks(core) BY DEF Ranks, Vacating
<1>3. core.set \in Seq(Cards) /\ core.seq \in Seq(Seqs) /\ core.used_zones \subseteq Seqs
  BY ConstantsAssumption DEF Types, CoreType
<1>4. \A i \in 1 .. Len(core'.set) : Placed(cards', seen'.left, core'.set[i])
  <2> TAKE i \in 1 .. Len(core'.set)
  <2>1. core'.set = core.set BY DEF Vacating
  <2>2. PICK c \in Cards : c = core.set[i] BY <1>3, <2>1, ElementOfSeq
  <2>3. Placed(cards, seen.left, c) BY <2>1, <2>2 DEF Seats
  <2>4. Placed(cards', seen'.left, c) BY <2>3 DEF Placed, Vacating
  <2> QED BY <2>1, <2>2, <2>4
<1>5. /\ core'.seq = core.seq /\ core'.set = core.set /\ core'.pre_set = core.pre_set
      /\ core'.used_zones = core.used_zones
      /\ \A q \in Seqs : core'.szone[q] \in {core.szone[q], None}
  BY DEF Vacating
<1>6. /\ Len(core'.seq) = Len(core'.set) + Len(core'.pre_set)
      /\ \A i, k \in Ranks(core) : Nth(core', i) = Nth(core', k) => i = k
      /\ \A i \in Ranks(core) : core'.seq[i] = 5 <=> Nth(core', i) \in FieldSpells
      /\ \A i, k \in Ranks(core) : core'.seq[i] = core'.seq[k] /\ core'.seq[i] # 5 => i = k
  <2>1. /\ Len(core'.seq) = Len(core'.set) + Len(core'.pre_set)
        /\ \A i, k \in Ranks(core) : core'.seq[i] = core'.seq[k] /\ core'.seq[i] # 5 => i = k
    BY <1>5 DEF Seats
  <2>2. /\ \A i, k \in Ranks(core) : Nth(core, i) = Nth(core, k) => i = k
        /\ \A i \in Ranks(core) : core.seq[i] = 5 <=> Nth(core, i) \in FieldSpells
    BY DEF Seats
  <2> QED BY <1>1, <1>5, <2>1, <2>2
<1>7. \A q \in core'.used_zones \ {5} :
        core'.szone[q] = None /\ \E i \in Ranks(core) : core'.seq[i] = q
  <2>1. \A q \in core.used_zones \ {5} :
          core.szone[q] = None /\ \E i \in Ranks(core) : core.seq[i] = q
    BY DEF Seats
  <2> QED BY <1>3, <1>5, <2>1
<1>8. \A i \in Ranks(core) : core'.seq[i] # 5 /\ core'.szone[core'.seq[i]] # None =>
        \E k \in Ranks(core) :
          Nth(core', k) = core'.szone[core'.seq[i]] /\ Nth(core', k) \notin FieldSpells
  <2> SUFFICES ASSUME NEW i \in Ranks(core), core'.seq[i] # 5, core'.szone[core'.seq[i]] # None
               PROVE  \E k \in Ranks(core) :
                        /\ Nth(core', k) = core'.szone[core'.seq[i]]
                        /\ Nth(core', k) \notin FieldSpells
    OBVIOUS
  <2>1. PICK q \in Seqs : q = core.seq[i] BY <1>3, ElementOfSeq DEF Ranks
  <2>2. core'.szone[q] = core.szone[q] /\ core.szone[q] # None /\ q # 5 /\ core'.seq[i] = q
    BY <1>5, <2>1
  <2>3. \E k \in Ranks(core) : Nth(core, k) = core.szone[q] /\ Nth(core, k) \notin FieldSpells
    BY <2>1, <2>2 DEF Seats
  <2> QED BY <1>1, <2>2, <2>3
<1> QED BY <1>2, <1>4, <1>6, <1>7, <1>8 DEF Seats

LEMMA LeaveKept ==
  ASSUME IInv, Leave
  PROVE  IInv'
<1>1. /\ Between /\ units' = units /\ setting' = setting
      /\ units # <<>> => Front.kind = "Effect"
  BY StartsBetween DEF Leave
<1>2. PICK c \in Cards :
        /\ cards[c].loc \in {"MZONE", "SZONE"} /\ ~cards[c].summoning /\ ToGrave({c})
        /\ seen' = [seen EXCEPT !.left = @ \cup {c}]
  BY DEF Leave
<1>3. PICK S \in SUBSET Cards : S = {c} OBVIOUS
<1>4. /\ CoreStill /\ CardsOK(cards')
      /\ \A d \in Cards \ S : cards'[d] = cards[d]
      /\ \A d \in S : /\ cards'[d].loc = "GRAVE" /\ cards'[d].seq = cards[d].seq
                      /\ cards'[d].enabled /\ cards'[d].summoning = cards[d].summoning
                      /\ cards'[d].spsummon_step = cards[d].spsummon_step
      /\ \A q \in Seqs : core'.szone[q] =
           IF \E d \in S : cards[d].loc = "SZONE" /\ cards[d].seq = q THEN None
           ELSE core.szone[q]
  <2>1. ToGrave(S) BY <1>2, <1>3
  <2> QED BY <2>1, GravesFrame
<1>5. /\ \A d \in Cards : d # c => cards'[d] = cards[d]
      /\ cards'[c].loc = "GRAVE" /\ cards'[c].summoning = cards[c].summoning
      /\ cards'[c].spsummon_step = cards[c].spsummon_step
      /\ \A q \in Seqs : core'.szone[q] = IF cards[c].loc = "SZONE" /\ cards[c].seq = q THEN None
                                          ELSE core.szone[q]
  BY <1>3, <1>4
<1>6. /\ seen' \in SeenType /\ seen'.tries = seen.tries /\ seen'.left = seen.left \cup {c}
      /\ seen'.successes = seen.successes /\ seen'.promised = seen.promised
  BY <1>2, OldTypes DEF SeenType, Members
<1>7. DataOK /\ Levelled BY <1>4, <1>6 DEF DataOK, CoreStill, Levelled
<1>8. Types'
  <2>1. units \in Seq(UnitType) /\ Len(units) \in Nat BY OldTypes
  <2>2. Restacked(0, 0) BY <1>1, <2>1 DEF Restacked
  <2>3. \A i \in 1 .. 0 : Sane(units'[i]) OBVIOUS
  <2> QED BY <1>1, <1>7, <2>1, <2>2, <2>3, TypesKept DEF IInv, DataOK
<1>9. Waiting'
  <2>1. core'.reserved = core.reserved BY <1>4 DEF CoreStill
  <2>2. \A u : Waits(u)' <=> Waits(u) BY <1>1 DEF Waits, Sets
  <2> QED BY <1>1, <1>6, <2>1, <2>2 DEF IInv, Control, Waiting, Waits, Sets
<1>10. Control' BY <1>1, <1>4, <1>6, <1>9, ControlStill DEF IInv, CoreStill
<1>11. Half'
  <2>1. \A d \in Cards : /\ cards'[d].summoning => cards[d].summoning
                         /\ cards'[d].spsummon_step => cards[d].spsummon_step
                         /\ Bare(d)' => Bare(d)
    BY <1>5 DEF Bare
  <2> QED BY <1>1, <1>7, <2>1, HalfStill DEF IInv
<1>12. Vacating BY <1>4, <1>5, <1>6 DEF Vacating, CoreStill
<1>13. Laid(core', cards', seen'.left)
  <2>1. /\ \A d \in Cards : cards[d].loc = "SZONE" => core.szone[cards[d].seq] = d
        /\ \A d \in Cards \ seen.left, q \in Seqs : core.szone[q] = d => cards[d].loc = "SZONE"
        /\ \A q \in Seqs : core.szone[q] # None => (q = 5 <=> core.szone[q] \in FieldSpells)
    BY DEF IInv, Zones, Laid
  <2>2. \A d \in Cards : cards[d].seq \in Seqs BY OldTypes DEF CardsOK, CardType
  <2>3. ASSUME NEW d \in Cards, cards'[d].loc = "SZONE"
        PROVE  core'.szone[cards'[d].seq] = d
    <3>1. d # c /\ cards'[d] = cards[d] BY <1>5, <2>3
    <3>2. core.szone[cards[d].seq] = d BY <2>1, <2>3, <3>1
    <3>3. ~(cards[c].loc = "SZONE" /\ cards[c].seq = cards[d].seq) BY <2>1, <3>1, <3>2
    <3> QED BY <1>5, <2>2, <3>1, <3>2, <3>3
  <2>4. ASSUME NEW d \in Cards \ seen'.left, NEW q \in Seqs, core'.szone[q] = d
        PROVE  cards'[d].loc = "SZONE"
    <3>1. d # None /\ d # c /\ d \notin seen.left BY <1>6, ConstantsAssumption
    <3>2. core.szone[q] = d BY <1>5, <2>4, <3>1
    <3> QED BY <1>5, <2>1, <3>1, <3>2
  <2>5. ASSUME NEW q \in Seqs, core'.szone[q] # None
        PROVE  q = 5 <=> core'.szone[q] \in FieldSpells
    <3>1. core'.szone[q] = core.szone[q] BY <1>5, <2>5
    <3> QED BY <2>1, <2>5, <3>1
  <2> QED BY <2>3, <2>4, <2>5 DEF Laid
<1>14. Seater(units', core')
  <2>1. units # <<>> => Front = units[1] BY FrontTypes
  <2> QED BY <1>1, <2>1 DEF Seater, Lays
<1>15. ASSUME NEW i \in 1 .. Len(units), Setter(units[i])
       PROVE  Seats(core', cards', seen'.left) /\ Seating(units', core', cards', seen'.left, i)
  <2>1. Seats(core, cards, seen.left) /\ Seating(units, core, cards, seen.left, i)
    BY <1>15 DEF IInv, Zones, Grouping
  <2>2. Seats(core', cards', seen'.left) BY <1>12, <2>1, VacatedSeats DEF IInv
  <2>3. core'.pre_set = core.pre_set /\ core'.set = core.set /\ core'.used_zones = core.used_zones
        /\ core'.seq = core.seq /\ Unset(core') = Unset(core) /\ Ranks(core') = Ranks(core)
    BY <1>12 DEF Vacating, Unset, Ranks
  <2>4. units[i].step = 4 => Placed(cards', seen'.left, Head(core.pre_set))
                             \/ (i = 2 /\ Lays(units[1]))
    <3> SUFFICES ASSUME units[i].step = 4, Placed(cards, seen.left, Head(core.pre_set))
                 PROVE  Placed(cards', seen'.left, Head(core.pre_set))
      BY <2>1 DEF Seating
    <3>1. Head(core.pre_set) \in Cards
      <4>1. core.pre_set \in Seq(Spells) /\ Spells \subseteq Cards /\ core.pre_set # <<>>
        BY <2>1, ConstantsAssumption, OldTypes DEF CoreType, Seating
      <4> QED BY <4>1, HeadTailProperties
    <3> QED BY <1>12, <3>1 DEF Placed, Vacating
  <2> QED BY <1>1, <2>1, <2>2, <2>3, <2>4 DEF Seating
<1>16. Zones'
  <2>1. Grouping(units', core', cards', seen'.left) BY <1>1, <1>15 DEF Grouping
  <2>2. Lone(units') BY <1>1 DEF IInv, Zones
  <2> QED BY <1>13, <1>14, <2>1, <2>2 DEF Zones
<1> QED BY <1>8, <1>10, <1>11, <1>16 DEF IInv

-----------------------------------------------------------------------------
(* Steps of the units that set spells, but for what they do to the zones. *)

LEMMA FrontGoesOn ==
  ASSUME IInv, NEW v, NEW n, Continues(v, n), Sane(v), Free(Front), Free(v),
         Follows(Front, v, n), v.kind # "ToField",
         DataOK, Apart, Levelled, core'.summon_count = core.summon_count,
         core'.summon_depth = core.summon_depth - One(Active(Front)) + One(Active(v)),
         Tallies(One(Counting(v)) - One(Counting(Front))), Shows(v, n),
         n > 0 => units'[1].kind # "ToField" \/ units'[1].target \in Spells,
         Zones'
  PROVE  IInv'
<1>0. /\ n \in Nat /\ Restacked(1, n + 1) /\ units' \in Seq(UnitType) /\ units'[n + 1] = v
      /\ units # <<>> /\ \A i \in 1 .. n : Brief(units'[i])
  BY DEF Continues, New
<1>1. \A i \in 1 .. n + 1 : i \in 1 .. n \/ i = n + 1 BY <1>0
<1>2. Types'
  <2>1. \A i \in 1 .. n + 1 : Sane(units'[i]) BY <1>0, <1>1 DEF Brief
  <2> QED BY <2>1, <1>0, TypesKept DEF IInv, DataOK, Apart
<1>3. Control' BY ControlContinued DEF IInv
<1>4. Half' BY HalfContinued DEF IInv
<1> QED BY <1>2, <1>3, <1>4 DEF IInv

LEMMA FrontIsOver ==
  ASSUME IInv, NEW n, Ends(n), Free(Front), Leaves(Front, n),
         DataOK, Apart, Levelled, core'.summon_count = core.summon_count,
         core'.summon_depth = core.summon_depth - One(Active(Front)),
         Tallies(0 - One(Counting(Front))),
         \A c \in Cards : cards'[c].summoning => cards[c].summoning /\ ~Window(Front, c),
         \A c \in Cards : cards'[c].spsummon_step => cards[c].spsummon_step /\ ~Grouped(Front, c),
         \A c \in Cards : Bare(c)' => Bare(c) /\ ~Moved(Front, c),
         n > 0 => units'[1].kind # "ToField",
         Zones'
  PROVE  IInv'
<1>0. /\ n \in Nat /\ Restacked(1, n) /\ units' \in Seq(UnitType)
      /\ units # <<>> /\ \A i \in 1 .. n : Brief(units'[i])
  BY DEF Ends, New
<1>2. Types'
  <2>1. \A i \in 1 .. n : Sane(units'[i]) BY <1>0 DEF Brief
  <2> QED BY <2>1, <1>0, TypesKept DEF IInv, DataOK, Apart
<1>3. Control' BY ControlEnded DEF IInv
<1>4. Half' BY HalfEnded DEF IInv, Control
<1> QED BY <1>2, <1>3, <1>4 DEF IInv

Setting1(u) == u.kind \in {"SSet", "SetGroup"}
LEMMA ZonesOf ==
  ASSUME IInv, units # <<>>, Setting1(Front), NEW m, Restacked(1, m), units' \in Seq(UnitType),
         \A i \in 1 .. m : Setting1(units'[i]) => i = m /\ units'[i].kind = Front.kind,
         m > 0 /\ Setter(units'[m]) =>
           Seats(core', cards', seen'.left) /\ Seating(units', core', cards', seen'.left, m),
         Laid(core', cards', seen'.left), Seater(units', core')
  PROVE  Zones'
<1>0. /\ m \in Nat /\ Len(units) \in Nat \ {0} /\ Len(units') = Len(units) - 1 + m
      /\ \A k \in 1 .. Len(units') :
           k <= m \/ (k - m + 1 \in 1 + 1 .. Len(units) /\ units'[k] = units[k - m + 1])
      /\ Front = units[1]
  BY OldTypes, Fronts DEF Restacked
<1>1. \A k \in 1 .. Len(units') : Setting1(units'[k]) =>
        \/ k = m /\ m \in 1 .. m /\ units'[k].kind = Front.kind
        \/ /\ k - m + 1 \in 1 + 1 .. Len(units) /\ units'[k] = units[k - m + 1]
           /\ ~(k <= m)
  <2> TAKE k \in 1 .. Len(units')
  <2>1. k <= m => k \in 1 .. m BY <1>0
  <2> QED BY <2>1, <1>0
<1>2. ASSUME NEW k \in 1 .. Len(units'), units'[k].kind = "SetGroup", ~(k <= m)
      PROVE  Front.kind = "SSet" => FALSE
  <2> SUFFICES ASSUME Front.kind = "SSet" PROVE FALSE OBVIOUS
  <2>1. 1 \in 1 .. Len(units) BY <1>0
  <2>2. Len(units) = 1 BY <2>1, <1>0 DEF IInv, Zones, Lone
  <2> QED BY <2>2, <1>0, <1>2
<1>3. ASSUME NEW k \in 1 .. Len(units'), units'[k].kind = "SetGroup", ~(k <= m)
      PROVE  Front.kind = "SetGroup" => FALSE
  <2> SUFFICES ASSUME Front.kind = "SetGroup" PROVE FALSE OBVIOUS
  <2>1. k - m + 1 \in 1 + 1 .. Len(units) /\ units'[k] = units[k - m + 1] BY <1>0, <1>3
  <2>2. 1 \in 1 .. Len(units) /\ k - m + 1 \in 1 .. Len(units) BY <2>1, <1>0
  <2>3. units[k - m + 1].kind = "SetGroup" /\ units[1].kind = "SetGroup"
    BY <1>0, <1>3, <2>1
  <2>4. k - m + 1 = 1 BY <2>2, <2>3 DEF IInv, Zones, Lone
  <2> QED BY <2>1, <2>4, <1>0
<1>4. \A k \in 1 .. Len(units') : units'[k].kind = "SetGroup" => k = m
  <2> SUFFICES ASSUME NEW k \in 1 .. Len(units'), units'[k].kind = "SetGroup" PROVE k = m
    OBVIOUS
  <2>1. Setting1(units'[k]) BY DEF Setting1
  <2> QED BY <1>1, <1>2, <1>3, <2>1 DEF Setting1
<1>5. ASSUME NEW k \in 1 .. Len(units'), units'[k].kind = "SSet"
      PROVE  k = Len(units')
  <2>1. Setting1(units'[k]) BY <1>5 DEF Setting1
  <2>2. CASE k = m /\ units'[k].kind = Front.kind
    <3>1. 1 \in 1 .. Len(units) /\ units[1].kind = "SSet" BY <1>0, <1>5, <2>2
    <3>2. Len(units) = 1 BY <3>1 DEF IInv, Zones, Lone
    <3> QED BY <1>0, <2>2, <3>2
  <2>3. CASE k - m + 1 \in 1 + 1 .. Len(units) /\ units'[k] = units[k - m + 1]
    <3>1. k - m + 1 \in 1 .. Len(units) /\ units[k - m + 1].kind = "SSet"
      BY <1>0, <1>5, <2>3
    <3>2. k - m + 1 = Len(units) BY <3>1 DEF IInv, Zones, Lone
    <3> QED BY <1>0, <3>2
  <2> QED BY <1>1, <2>1, <2>2, <2>3
<1>6. Lone(units') BY <1>4, <1>5 DEF Lone
<1>7. ASSUME NEW k \in 1 .. Len(units'), Setter(units'[k])
      PROVE  Seats(core', cards', seen'.left) /\ Seating(units', core', cards', seen'.left, k)
  <2>1. k = m /\ m > 0 BY <1>4, <1>7, <1>0 DEF Setter
  <2> QED BY <1>7, <2>1
<1> QED BY <1>6, <1>7 DEF Zones, Grouping

LEMMA SetterFacts ==
  ASSUME NEW u, Setting1(u)
  PROVE  /\ Free(u) /\ ~Active(u) /\ ~Counting(u) /\ ~Busy(u) /\ ~Claims(u) /\ ~Live(u)
         /\ ~Outside(u) /\ ~Prompt(u) /\ ~Lays(u) /\ u.kind # "ToField" /\ u.kind # "ToGrave"
         /\ u.kind # "Solve"
         /\ \A c \in Cards : ~Window(u, c) /\ ~Grouped(u, c) /\ ~Moved(u, c)
BY DEF Setting1, Free, Sends, Opens, Active, Counting, Busy, Claims, Live, Outside, Prompt, Lays,
  Window, Grouped, Moved

(* What such a step may change: how far the setting is, and who is enabled. *)
Settled1 ==
  /\ DataOK /\ Apart /\ Levelled /\ Tallies(0)
  /\ core'.summon_count = core.summon_count /\ core'.summon_depth = core.summon_depth
  /\ \A c \in Cards : /\ cards'[c].summoning => cards[c].summoning
                      /\ cards'[c].spsummon_step => cards[c].spsummon_step
                      /\ Bare(c)' => Bare(c)

LEMMA SetterGoesOn ==
  ASSUME IInv, units # <<>>, Setting1(Front), NEW v, NEW n, Continues(v, n),
         v.kind = Front.kind, Sane(v), Settled1, Zones',
         n > 0 => units'[1].kind # "ToField" \/ units'[1].target \in Spells
  PROVE  IInv'
<1>1. Setting1(v) BY DEF Setting1
<1>2. /\ Free(v) /\ ~Active(v) /\ ~Counting(v) /\ ~Busy(v) /\ ~Claims(v) /\ ~Live(v)
      /\ ~Outside(v) /\ ~Prompt(v) /\ v.kind # "ToField"
  BY <1>1, SetterFacts
<1>3. /\ Free(Front) /\ ~Active(Front) /\ ~Counting(Front) /\ ~Live(Front)
      /\ Front.kind # "ToGrave"
      /\ \A c \in Cards : ~Window(Front, c) /\ ~Grouped(Front, c) /\ ~Moved(Front, c)
  BY SetterFacts
<1>4. Follows(Front, v, n)
  <2>1. Ready(v)' BY <1>2 DEF Ready, Busy
  <2> QED BY <1>2, <1>3, <2>1 DEF Follows, Succeeds
<1>5. Shows(v, n) BY <1>3 DEF Shows, Settled1
<1>6. /\ core'.summon_depth = core.summon_depth - One(Active(Front)) + One(Active(v))
      /\ One(Counting(v)) - One(Counting(Front)) = 0
  <2>1. One(Active(Front)) = 0 /\ One(Active(v)) = 0 /\ One(Counting(v)) = 0
        /\ One(Counting(Front)) = 0
    BY <1>2, <1>3 DEF One
  <2> QED BY <2>1, OldTypes DEF Settled1
<1> QED BY <1>2, <1>3, <1>4, <1>5, <1>6, FrontGoesOn DEF Settled1

LEMMA SetterIsOver ==
  ASSUME IInv, units # <<>>, Setting1(Front), NEW n, Ends(n), Settled1, Zones',
         n > 0 => units'[1].kind # "ToField"
  PROVE  IInv'
<1>1. /\ Free(Front) /\ ~Active(Front) /\ ~Counting(Front) /\ ~Live(Front)
      /\ Front.kind # "ToGrave" /\ Front.kind # "Solve"
      /\ \A c \in Cards : ~Window(Front, c) /\ ~Grouped(Front, c) /\ ~Moved(Front, c)
  BY SetterFacts
<1>2. Leaves(Front, n) BY <1>1 DEF Leaves
<1>3. /\ core'.summon_depth = core.summon_depth - One(Active(Front))
      /\ 0 - One(Counting(Front)) = 0
  <2>1. One(Active(Front)) = 0 /\ One(Counting(Front)) = 0 BY <1>1 DEF One
  <2> QED BY <2>1, OldTypes DEF Settled1
<1>4. \A c \in Cards : /\ cards'[c].summoning => cards[c].summoning /\ ~Window(Front, c)
                       /\ cards'[c].spsummon_step => cards[c].spsummon_step /\ ~Grouped(Front, c)
                       /\ Bare(c)' => Bare(c) /\ ~Moved(Front, c)
  BY <1>1 DEF Settled1
<1> QED BY <1>1, <1>2, <1>3, <1>4, FrontIsOver DEF Settled1

LEMMA QuietSettled ==
  ASSUME IInv, Quiet
  PROVE  Settled1 /\ Laid(core', cards', seen'.left)
<1>1. Settled1 BY QuietFacts DEF Settled1, Quiet, Bare
<1>2. Laid(core', cards', seen'.left) BY QuietFacts, CalmLaid DEF IInv, Zones
<1> QED BY <1>1, <1>2

LEMMA BriefNotSetting ==
  ASSUME NEW u, Brief(u)
  PROVE  ~Setting1(u) /\ ~Setter(u)
BY DEF Brief, Setting1, Setter

(* It is over. *)
LEMMA SetterEnds ==
  ASSUME IInv, units # <<>>, Setting1(Front), NEW b, Calls(b), Finish(b), Quiet
  PROVE  IInv'
<1>1. PICK n : n = Len(b) OBVIOUS
<1>2. /\ Ends(n) /\ n \in Nat
      /\ n > 0 => units'[1].kind # "ToField"
  BY <1>1, CalledLast
<1>3. /\ Restacked(1, n) /\ units' \in Seq(UnitType)
      /\ \A i \in 1 .. n : Brief(units'[i])
  BY <1>2 DEF Ends, New
<1>4. Settled1 /\ Laid(core', cards', seen'.left) BY QuietSettled
<1>5. Seater(units', core')
  <2> SUFFICES ASSUME units' # <<>> PROVE ~Lays(units'[1]) BY DEF Seater
  <2>1. 1 \in 1 .. Len(units') BY <1>3, EmptySeq
  <2>2. CASE n = 0
    <3>1. Len(units) \in Nat /\ Len(units') = Len(units) - 1 /\ 1 + 1 \in 1 + 1 .. Len(units)
      BY <1>3, <2>1, <2>2 DEF Restacked
    <3>2. units'[1] = units[2] /\ 2 \in 2 .. Len(units)
      BY <1>3, <2>1, <2>2, <3>1 DEF Restacked
    <3> QED BY <3>2 DEF IInv, Control, Prompts, Prompt, Lays
  <2>3. CASE n # 0 BY <1>2, <2>3 DEF Lays
  <2> QED BY <2>2, <2>3
<1>6. Zones'
  <2>1. \A i \in 1 .. n : Setting1(units'[i]) => i = n /\ units'[i].kind = Front.kind
    BY <1>3, BriefNotSetting
  <2>2. n > 0 /\ Setter(units'[n]) => FALSE
    <3>1. n > 0 => n \in 1 .. n BY <1>2
    <3> QED BY <1>3, <3>1, BriefNotSetting
  <2> QED BY <1>3, <1>4, <1>5, <2>1, <2>2, ZonesOf
<1> QED BY <1>2, <1>4, <1>6, SetterIsOver

LEMMA SpellsEndKept ==
  ASSUME IInv, SpellOver \/ SpellsOver
  PROVE  IInv'
<1>1. units # <<>> /\ Setting1(Front) /\ Finish(AfterSummon) /\ Quiet
  BY DEF SpellOver, SpellsOver, At, Setting1, Quiet
<1> QED BY <1>1, AfterwardsCalls, SetterEnds

(* It goes on, and no card was moved. *)
LEMMA SetterZones ==
  ASSUME IInv, units # <<>>, Setting1(Front), NEW v, NEW n, Continues(v, n),
         v.kind = Front.kind, Laid(core', cards', seen'.left), Seater(units', core'),
         Setter(v) => Seats(core', cards', seen'.left)
                      /\ Seating(units', core', cards', seen'.left, n + 1)
  PROVE  Zones'
<1>1. /\ n \in Nat /\ Restacked(1, n + 1) /\ units' \in Seq(UnitType) /\ units'[n + 1] = v
      /\ \A i \in 1 .. n : Brief(units'[i])
  BY DEF Continues, New
<1>2. PICK m : m = n + 1 OBVIOUS
<1>3. \A i \in 1 .. m : i \in 1 .. n \/ i = m BY <1>1, <1>2
<1>4. \A i \in 1 .. m : Setting1(units'[i]) => i = m /\ units'[i].kind = Front.kind
  BY <1>1, <1>2, <1>3, BriefNotSetting
<1>5. m > 0 /\ Setter(units'[m]) =>
           Seats(core', cards', seen'.left) /\ Seating(units', core', cards', seen'.left, m)
  BY <1>1, <1>2
<1>6. Restacked(1, m) BY <1>1, <1>2
<1> QED BY <1>1, <1>4, <1>5, <1>6, ZonesOf

LEMMA NotLaying ==
  ASSUME NEW v, NEW n, Continues(v, n), v.kind # "ToField",
         n > 0 => units'[1].kind # "ToField"
  PROVE  Seater(units', core')
<1>1. units'[1].kind # "ToField" BY DEF Continues
<1> QED BY <1>1 DEF Seater, Lays

LEMMA SpellCheckedKept ==
  ASSUME IInv, SpellChecked
  PROVE  IInv'
<1>1. /\ units # <<>> /\ Front.kind = "SSet" /\ Setting1(Front) /\ Quiet
      /\ GoOnAs(Front, 1, Interrupt) \/ Finish(<<>>)
  BY DEF SpellChecked, At, Setting1, Quiet, GoOn
<1>2. CASE Finish(<<>>) BY <1>1, <1>2, Idling, SetterEnds
<1>3. CASE GoOnAs(Front, 1, Interrupt)
  <2>1. PICK v : v = Now(Front, 1) OBVIOUS
  <2>2. PICK n : n = Len(Interrupt) OBVIOUS
  <2>3. /\ v \in UnitType /\ v.kind = Front.kind /\ v.target = Front.target
        /\ v.group = Front.group /\ v.rest = Front.rest
    BY <1>1, <2>1, Onward
  <2>4. Continues(v, n) /\ n \in Nat /\ (n > 0 => units'[1].kind # "ToField")
    <3>1. Front \in UnitType BY <1>1, FrontTypes
    <3> QED BY <1>1, <1>3, <2>1, <2>2, <3>1, Idling, Called
  <2>5. Sane(v) /\ v.kind # "ToField" /\ ~Setter(v)
    BY <1>1, <2>3, FrontTypes DEF Sane, Setter
  <2>6. Settled1 /\ Laid(core', cards', seen'.left) BY <1>1, QuietSettled
  <2>7. Zones' BY <1>1, <2>3, <2>4, <2>5, <2>6, NotLaying, SetterZones
  <2> QED BY <1>1, <2>3, <2>4, <2>5, <2>6, <2>7, SetterGoesOn
<1> QED BY <1>1, <1>2, <1>3

LEMMA LaidSame ==
  ASSUME NEW x, NEW y, NEW w, NEW z, NEW l, Laid(x, y, l), w.szone = x.szone,
         \A d \in Cards : z[d].loc = y[d].loc /\ z[d].seq = y[d].seq
  PROVE  Laid(w, z, l)
<1>1. PICK Z : Z = x.szone /\ Z = w.szone OBVIOUS
<1>2. /\ \A d \in Cards : y[d].loc = "SZONE" => Z[y[d].seq] = d
      /\ \A d \in Cards \ l, q \in Seqs : Z[q] = d => y[d].loc = "SZONE"
      /\ \A q \in Seqs : Z[q] # None => (q = 5 <=> Z[q] \in FieldSpells)
  BY <1>1 DEF Laid
<1>3. \A d \in Cards : z[d].loc = "SZONE" => Z[z[d].seq] = d BY <1>2
<1>4. \A d \in Cards \ l, q \in Seqs : Z[q] = d => z[d].loc = "SZONE" BY <1>2
<1> QED BY <1>1, <1>2, <1>3, <1>4 DEF Laid

(* A spell loses its effects while it is set; nothing is told by its flags. *)
LEMMA SpellDisabled ==
  ASSUME IInv, NEW c \in Spells, cards' = Enabled({c}, FALSE), seen' = seen,
         setting' = setting, core' \in CoreType,
         core'.summon_count = core.summon_count, core'.summon_depth = core.summon_depth,
         core'.state_count = core.state_count, Levelled,
         core'.chain = core.chain, core'.reserved = core.reserved
  PROVE  /\ Settled1
         /\ core'.szone = core.szone => Laid(core', cards', seen'.left)
         /\ \A d \in Cards : cards'[d].loc = cards[d].loc /\ cards'[d].seq = cards[d].seq
<1>1. /\ CardsFrame
      /\ \A d \in Cards : /\ cards'[d].summoning = cards[d].summoning
                          /\ cards'[d].spsummon_step = cards[d].spsummon_step
                          /\ Bare(d)' => Bare(d) \/ d \in {c}
  BY EnabledFrame
<1>2. \A d \in Cards : Bare(d)' => Bare(d)
  <2>1. cards'[c].loc # "MZONE" BY <1>1, ConstantsAssumption DEF CardsFrame, CardsOK
  <2> QED BY <1>1, <2>1 DEF Bare
<1>3. DataOK /\ Apart
  BY <1>1, OldTypes, SeenSame DEF DataOK, Apart, CardsFrame, SeenFrame
<1>4. Tallies(0) BY SeenSame, TalliesSame
<1>5. \A d \in Cards : cards'[d].loc = cards[d].loc /\ cards'[d].seq = cards[d].seq
  BY <1>1 DEF CardsFrame
<1>6. core'.szone = core.szone => Laid(core', cards', seen'.left)
  <2> SUFFICES ASSUME core'.szone = core.szone PROVE Laid(core', cards', seen.left)
    OBVIOUS
  <2>1. Laid(core, cards, seen.left) BY DEF IInv, Zones
  <2>2. PICK w, z : w = core' /\ z = cards' OBVIOUS
  <2>3. w.szone = core.szone /\ \A d \in Cards : z[d].loc = cards[d].loc /\ z[d].seq = cards[d].seq
    BY <1>5, <2>2
  <2>4. Laid(w, z, seen.left) BY <2>1, <2>3, LaidSame
  <2> QED BY <2>2, <2>4
<1> QED BY <1>1, <1>2, <1>3, <1>4, <1>5, <1>6 DEF Settled1

LEMMA SpellMovesKept ==
  ASSUME IInv, SpellMoves
  PROVE  IInv'
<1>1. units # <<>> /\ Front.kind = "SSet" /\ Front.step = 1 /\ Setting1(Front)
  BY DEF SpellMoves, At, Setting1
<1>2. /\ Front \in UnitType /\ Sane(Front) /\ Front.target \in Spells
      /\ Front.target \in Cards /\ units \in Seq(UnitType)
  BY <1>1, FrontTypes, ConstantsAssumption DEF Sane
<1>3. PICK v : v = Now(Front, 2) OBVIOUS
<1>4. /\ v.kind = Front.kind /\ v.step = 2 /\ v.target = Front.target
      /\ v.group = Front.group /\ v.rest = Front.rest
  BY <1>1, <1>3, Onward
<1>5. PICK z \in Int : z = -1 OBVIOUS
<1>6. PICK u : u = Downward(Front.target, z) OBVIOUS
<1>7. /\ Batch(<<u>>) /\ Len(<<u>>) = 1 /\ <<u>>[1] = u
      /\ u.target = Front.target /\ u.kind = "ToField" /\ u.facedown /\ u.zone = z
  BY <1>2, <1>6, Fielders
<1>8. GoOnAs(Front, 2, <<u>>) BY <1>5, <1>6 DEF GoOn, SpellMoves, Downward
<1>9. Continues(v, 1) /\ units'[1] = u BY <1>1, <1>2, <1>3, <1>7, <1>8, ContinuedOne
<1>10. Sane(v) /\ ~Setter(v) BY <1>1, <1>2, <1>4 DEF Sane, Setter
<1>11. Settled1 /\ Laid(core', cards', seen'.left)
  <2>1. /\ cards' = Enabled({Front.target}, FALSE) /\ seen' = seen /\ core' = core
        /\ setting' = setting
    BY DEF SpellMoves
  <2>2. core' \in CoreType /\ Levelled BY <2>1, OldTypes DEF Levelled
  <2> QED BY <1>2, <2>1, <2>2, SpellDisabled
<1>12. Seater(units', core')
  <2>1. Len(units') > 1 /\ units'[2] = v
    BY <1>1, <1>2, <1>9, Fronts DEF Continues, Restacked
  <2> QED BY <1>1, <1>4, <1>5, <1>7, <1>9, <2>1 DEF Seater
<1>13. Zones' BY <1>1, <1>4, <1>9, <1>10, <1>11, <1>12, SetterZones
<1> QED BY <1>1, <1>2, <1>4, <1>7, <1>9, <1>10, <1>11, <1>13, SetterGoesOn

-----------------------------------------------------------------------------
(* SpellSetGroup. *)

LEMMA CoreParts ==
  ASSUME IInv
  PROVE  /\ core.pre_set \in Seq(Spells) /\ core.set \in Seq(Spells) /\ core.seq \in Seq(Seqs)
         /\ core.used_zones \in SUBSET Seqs /\ core.szone \in [Seqs -> Members]
         /\ Len(core.pre_set) \in Nat /\ Len(core.set) \in Nat /\ Len(core.seq) \in Nat
         /\ Spells \subseteq Cards /\ FieldSpells \subseteq Spells /\ None \notin Cards
         /\ Laid(core, cards, seen.left)
BY OldTypes, ConstantsAssumption, LenProperties DEF CoreType, IInv, Zones

(* The group in front: nothing is on its way to a zone. *)
LEMMA FrontSeats ==
  ASSUME IInv, units # <<>>, Front.kind = "SetGroup", Front.step \in 1 .. 6
  PROVE  /\ Seats(core, cards, seen.left)
         /\ Front.step \in {3, 4} => core.pre_set # <<>>
         /\ Front.step = 1 =>
              /\ core.set = <<>>
              /\ \A k \in 1 .. Len(core.pre_set) : core.pre_set[k] \notin Front.rest
              /\ \A k \in Ranks(core) : core.seq[k] \in core.used_zones
         /\ Front.step = 6 => core.pre_set = <<>>
         /\ Cardinality(core.used_zones \ {5}) =
              Cardinality(IF Front.step = 4 THEN Unset(core) \ {Head(core.pre_set)}
                          ELSE Unset(core))
         /\ Front.step = 4 => Placed(cards, seen.left, Head(core.pre_set))
<1>1. Front = units[1] /\ 1 \in 1 .. Len(units) BY FrontTypes, Fronts
<1>2. Setter(units[1]) BY <1>1 DEF Setter
<1>3. Seats(core, cards, seen.left) /\ Seating(units, core, cards, seen.left, 1)
  BY <1>1, <1>2 DEF IInv, Zones, Grouping
<1> QED BY <1>1, <1>3 DEF Seating

CoreSetting ==
  /\ core' \in CoreType /\ core'.summon_count = core.summon_count
  /\ core'.summon_depth = core.summon_depth /\ core'.state_count = core.state_count
  /\ core'.chain = core.chain /\ core'.reserved = core.reserved
  /\ core'.special_summoning = core.special_summoning /\ core'.ss_tograve = core.ss_tograve

LEMMA CoreSettles ==
  ASSUME IInv, CoreSetting, seen' = seen, cards' = cards, setting' = setting
  PROVE  Settled1
<1>1. DataOK /\ Apart /\ Levelled BY OldTypes DEF DataOK, Apart, Levelled, CoreSetting
<1>2. Tallies(0) BY SeenSame, TalliesSame DEF CoreSetting
<1> QED BY <1>1, <1>2 DEF Settled1, CoreSetting, Bare

LEMMA SetterOn ==
  ASSUME IInv, units # <<>>, Front.kind = "SetGroup", NEW v, NEW n, Continues(v, n),
         v.kind = "SetGroup", Sane(v), n > 0 => units'[1].kind # "ToField",
         Settled1, Laid(core', cards', seen'.left),
         Setter(v) => Seats(core', cards', seen'.left)
                      /\ Seating(units', core', cards', seen'.left, n + 1)
  PROVE  IInv'
<1>1. Setting1(Front) BY DEF Setting1
<1>2. Seater(units', core') BY NotLaying
<1>3. Zones' BY <1>1, <1>2, SetterZones
<1> QED BY <1>1, <1>3, SetterGoesOn

Rested(u, R) == [u EXCEPT !.rest = R]
LEMMA RestedFields ==
  ASSUME NEW u \in UnitType, NEW R \in SUBSET Cards, NEW s \in Nat,
         NEW w, w = Rested(u, R), NEW v, v = Now(w, s)
  PROVE  /\ w \in UnitType /\ v \in UnitType /\ v.kind = u.kind /\ v.step = s
         /\ v.group = u.group /\ v.rest = R
BY DEF UnitType, Now, Rested

LEMMA SpellsCheckedKept ==
  ASSUME IInv, SpellsChecked
  PROVE  IInv'
<1>1. units # <<>> /\ Front.kind = "SetGroup" /\ Front.step = 0 /\ Setting1(Front)
  BY DEF SpellsChecked, At, Setting1
<1>2. Front \in UnitType /\ Sane(Front) /\ Front.group \subseteq Spells
  BY <1>1, FrontTypes DEF Sane
<1>3. PICK S : S = {c \in Front.group : Settable(c)} OBVIOUS
<1>4. CASE S = {}
  <2>1. Finish(<<>>) /\ Quiet BY <1>3, <1>4 DEF SpellsChecked, Quiet
  <2> QED BY <1>1, <2>1, Idling, SetterEnds
<1>5. CASE S # {}
  <2>1. S \in SUBSET Cards /\ S \subseteq Front.group BY <1>2, <1>3, CoreParts
  <2>2. PICK w : w = Rested(Front, S) OBVIOUS
  <2>3. PICK v : v = Now(w, 1) OBVIOUS
  <2>4. /\ w \in UnitType /\ v \in UnitType /\ v.kind = "SetGroup" /\ v.step = 1
        /\ v.group = Front.group /\ v.rest = S
    BY <1>1, <1>2, <2>1, <2>2, <2>3, RestedFields
  <2>5. GoOnAs(w, 1, Interrupt) BY <1>3, <1>5, <2>2 DEF SpellsChecked, Rested
  <2>6. PICK n : n = Len(Interrupt) OBVIOUS
  <2>7. Continues(v, n) /\ n \in Nat /\ (n > 0 => units'[1].kind # "ToField")
    BY <1>1, <2>3, <2>4, <2>5, <2>6, Idling, Called
  <2>8. Sane(v) BY <1>2, <1>5, <2>1, <2>4 DEF Sane
  <2>9. /\ core' = [core EXCEPT !.pre_set = <<>>, !.set = <<>>, !.used_zones = {}, !.seq = <<>>]
        /\ cards' = cards /\ seen' = seen /\ setting' = setting
    BY <1>3, <1>5 DEF SpellsChecked
  <2>10. /\ CoreSetting /\ core'.pre_set = <<>> /\ core'.set = <<>> /\ core'.used_zones = {}
         /\ core'.seq = <<>> /\ core'.szone = core.szone
    <3>1. <<>> \in Seq(Spells) /\ <<>> \in Seq(Seqs) /\ {} \in SUBSET Seqs OBVIOUS
    <3>2. PICK e \in Seq(Spells), f \in Seq(Spells), g \in SUBSET Seqs, h \in Seq(Seqs) :
            e = <<>> /\ f = <<>> /\ g = {} /\ h = <<>>
      BY <3>1
    <3>3. core' = [core EXCEPT !.pre_set = e, !.set = f, !.used_zones = g, !.seq = h]
      BY <2>9, <3>2
    <3>4. /\ CoreSetting /\ core'.pre_set = e /\ core'.set = f /\ core'.used_zones = g
          /\ core'.seq = h /\ core'.szone = core.szone
      BY <3>3, OldTypes DEF CoreSetting, CoreType
    <3> QED BY <3>2, <3>4
  <2>11. Settled1 /\ Laid(core', cards', seen'.left)
    BY <2>9, <2>10, CoreSettles, CoreParts DEF Laid
  <2>12. Ranks(core') = {} /\ Unset(core') = {} /\ core'.used_zones \ {5} = {}
         /\ Len(core'.seq) = 0 /\ Len(core'.set) = 0 /\ Len(core'.pre_set) = 0
    BY <2>10 DEF Ranks, Unset
  <2>13. Seats(core', cards', seen'.left) BY <2>10, <2>12 DEF Seats
  <2>14. units'[n + 1] = v BY <2>7 DEF Continues
  <2>15. Seating(units', core', cards', seen'.left, n + 1)
    BY <2>4, <2>10, <2>12, <2>14 DEF Seating
  <2> QED BY <1>1, <2>4, <2>7, <2>8, <2>11, <2>13, <2>15, SetterOn
<1> QED BY <1>4, <1>5

LEMMA Appended ==
  ASSUME NEW S, NEW s \in Seq(S), NEW e \in S, NEW m, m = Len(s)
  PROVE  /\ Append(s, e) \in Seq(S) /\ Len(Append(s, e)) = m + 1 /\ m \in Nat
         /\ \A i \in 1 .. m : Append(s, e)[i] = s[i]
         /\ Append(s, e)[m + 1] = e
         /\ \A i \in 1 .. m + 1 : i \in 1 .. m \/ i = m + 1
BY AppendProperties, LenProperties

LEMMA FiniteZones ==
  ASSUME IInv
  PROVE  IsFiniteSet(core.used_zones \ {5}) /\ IsFiniteSet(Unset(core)) /\ IsFiniteSet(Seqs)
<1>1. IsFiniteSet(Seqs)
  <2>0. PICK a \in Int, b \in Int : a = 0 /\ b = 5 OBVIOUS
  <2>1. IsFiniteSet(0 .. 5) BY <2>0, FS_Interval
  <2>2. Seqs \subseteq 0 .. 5 BY DEF Seqs
  <2> QED BY <2>1, <2>2, FS_Subset
<1>2. IsFiniteSet(core.used_zones \ {5})
  <2>1. core.used_zones \ {5} \subseteq Seqs BY CoreParts
  <2> QED BY <1>1, <2>1, FS_Subset
<1>3. Unset(core) \subseteq Cards
  <2>1. \A i \in 1 .. Len(core.pre_set) : core.pre_set[i] \in Spells
    BY CoreParts, ElementOfSeq
  <2> QED BY <2>1, CoreParts DEF Unset
<1> QED BY <1>1, <1>2, <1>3, ConstantsAssumption, FS_Subset

(* Without a set that has begun the cards are those of pre_set. *)
LEMMA NthFirst ==
  ASSUME NEW x, x.set = <<>>, NEW i \in Nat, i > 0
  PROVE  Nth(x, i) = x.pre_set[i]
<1>1. Len(x.set) = 0 OBVIOUS
<1>2. i - Len(x.set) = i /\ ~(i <= Len(x.set)) BY <1>1
<1> QED BY <1>2 DEF Nth

LEMMA SpellZonesKept ==
  ASSUME IInv, SpellZones
  PROVE  IInv'
<1>1. units # <<>> /\ Front.kind = "SetGroup" /\ Front.step = 1 /\ Setting1(Front)
  BY DEF SpellZones, At, Setting1
<1>2. /\ Front \in UnitType /\ Sane(Front) /\ Front.group \subseteq Spells
      /\ Front.rest \subseteq Front.group /\ Front.rest \subseteq Cards
  BY <1>1, FrontTypes DEF Sane
<1>3. PICK c \in Front.rest :
        \E q \in IF c \in FieldSpells THEN {5} ELSE FreeSeqs \ core.used_zones :
          /\ core' = [core EXCEPT !.pre_set = Append(@, c), !.seq = Append(@, q),
                                  !.used_zones = @ \cup {q}]
          /\ GoOnAs([Front EXCEPT !.rest = @ \ {c}], IF Front.rest = {c} THEN 3 ELSE 1, <<>>)
  BY DEF SpellZones
<1>4. PICK q \in IF c \in FieldSpells THEN {5} ELSE FreeSeqs \ core.used_zones :
          /\ core' = [core EXCEPT !.pre_set = Append(@, c), !.seq = Append(@, q),
                                  !.used_zones = @ \cup {q}]
          /\ GoOnAs([Front EXCEPT !.rest = @ \ {c}], IF Front.rest = {c} THEN 3 ELSE 1, <<>>)
  BY <1>3
<1>5. /\ q \in Seqs /\ (q = 5 <=> c \in FieldSpells) /\ c \in Spells /\ c \in Cards
      /\ q # 5 => core.szone[q] = None /\ q \notin core.used_zones
  BY <1>2, <1>4, CoreParts DEF Seqs, FreeSeqs
<1>6. PICK R \in SUBSET Cards : R = Front.rest \ {c} BY <1>2
<1>7. PICK s \in Nat : s = IF R = {} THEN 3 ELSE 1 OBVIOUS
<1>8. PICK w : w = Rested(Front, R) OBVIOUS
<1>9. PICK v : v = Now(w, s) OBVIOUS
<1>10. /\ w \in UnitType /\ v \in UnitType /\ v.kind = "SetGroup" /\ v.step = s
       /\ v.group = Front.group /\ v.rest = R
  BY <1>1, <1>2, <1>8, <1>9, RestedFields
<1>11. GoOnAs(w, s, <<>>)
  <2>1. Front.rest = {c} <=> R = {} BY <1>6
  <2> QED BY <1>4, <1>6, <1>7, <1>8, <2>1 DEF Rested
<1>12. PICK n \in Nat : n = 0 OBVIOUS
<1>13. Continues(v, n) BY <1>1, <1>9, <1>10, <1>11, <1>12, NoneLeft
<1>14. Sane(v) /\ v.kind # "ToField" BY <1>2, <1>6, <1>7, <1>10 DEF Sane
<1>15. PICK P, Q, U, m, X, Y, V :
         /\ P = core.pre_set /\ Q = core.seq /\ U = core.used_zones /\ m = Len(P)
         /\ X = Append(P, c) /\ Y = Append(Q, q) /\ V = U \cup {q}
  OBVIOUS
<1>16. /\ P \in Seq(Spells) /\ Q \in Seq(Seqs) /\ U \in SUBSET Seqs /\ m \in Nat
       /\ core.szone \in [Seqs -> Members]
  BY <1>15, CoreParts
<1>17. /\ Seats(core, cards, seen.left) /\ core.set = <<>> /\ Len(Q) = m
       /\ \A k \in 1 .. m : P[k] \notin Front.rest /\ Q[k] \in U
       /\ Cardinality(U \ {5}) = Cardinality(Unset(core))
  <2>1. /\ Seats(core, cards, seen.left) /\ core.set = <<>>
        /\ \A k \in 1 .. Len(core.pre_set) : core.pre_set[k] \notin Front.rest
        /\ \A k \in Ranks(core) : core.seq[k] \in core.used_zones
        /\ Cardinality(core.used_zones \ {5}) = Cardinality(Unset(core))
    BY <1>1, FrontSeats
  <2>2. Len(Q) = m
    <3>1. Len(core.seq) = Len(core.set) + Len(core.pre_set) BY <2>1 DEF Seats
    <3>2. Len(core.set) = 0 BY <2>1
    <3> QED BY <1>15, <1>16, <3>1, <3>2
  <2> QED BY <1>15, <2>1, <2>2 DEF Ranks
<1>18. /\ X \in Seq(Spells) /\ Len(X) = m + 1 /\ X[m + 1] = c
       /\ \A i \in 1 .. m : X[i] = P[i]
       /\ \A i \in 1 .. m + 1 : i \in 1 .. m \/ i = m + 1
  BY <1>5, <1>15, <1>16, Appended
<1>19. Y \in Seq(Seqs) /\ Len(Y) = m + 1 /\ Y[m + 1] = q /\ \A i \in 1 .. m : Y[i] = Q[i]
  BY <1>5, <1>15, <1>16, <1>17, Appended
<1>20. V \in SUBSET Seqs BY <1>5, <1>15, <1>16
<1>21. /\ CoreSetting /\ core'.pre_set = X /\ core'.seq = Y /\ core'.used_zones = V
       /\ core'.set = <<>> /\ core'.szone = core.szone
  <2>1. core' = [core EXCEPT !.pre_set = X, !.seq = Y, !.used_zones = V] BY <1>4, <1>15
  <2> QED BY <1>17, <1>18, <1>19, <1>20, <2>1, OldTypes DEF CoreSetting, CoreType
<1>22. Settled1 /\ Laid(core', cards', seen'.left)
  BY <1>21, CoreSettles, CoreParts DEF Laid, SpellZones
<1>23. \A i \in 1 .. m : Nth(core, i) = P[i] BY <1>15, <1>17, NthFirst
<1>24. \A i \in 1 .. m + 1 : Nth(core', i) = X[i] BY <1>16, <1>21, NthFirst
<1>25. /\ \A i, k \in 1 .. m : P[i] = P[k] => i = k
       /\ \A i \in 1 .. m : Q[i] = 5 <=> P[i] \in FieldSpells
       /\ \A i, k \in 1 .. m : Q[i] = Q[k] /\ Q[i] # 5 => i = k
       /\ \A r \in U \ {5} : core.szone[r] = None /\ \E i \in 1 .. m : Q[i] = r
  BY <1>15, <1>17, <1>23 DEF Seats, Ranks
<1>26. Seats(core', cards', seen'.left)
  <2>1. Len(Y) = Len(core'.set) + Len(X)
    <3>1. Len(core'.set) = 0 BY <1>21
    <3> QED BY <1>16, <1>18, <1>19, <3>1
  <2>2. \A i, k \in 1 .. m + 1 : X[i] = X[k] => i = k
    <3>1. \A i \in 1 .. m : X[i] # c BY <1>3, <1>17, <1>18
    <3> QED BY <3>1, <1>18, <1>25
  <2>3. \A i \in 1 .. m + 1 : Y[i] = 5 <=> X[i] \in FieldSpells
    BY <1>5, <1>18, <1>19, <1>25
  <2>4. \A i, k \in 1 .. m + 1 : Y[i] = Y[k] /\ Y[i] # 5 => i = k
    <3>1. \A i \in 1 .. m : Y[i] = q => q = 5 BY <1>5, <1>15, <1>17, <1>19
    <3> QED BY <3>1, <1>18, <1>19, <1>25
  <2>5. \A r \in V \ {5} : core.szone[r] = None /\ \E i \in 1 .. m + 1 : Y[i] = r
    <3> TAKE r \in V \ {5}
    <3>1. CASE r = q
      <4>1. m + 1 \in 1 .. m + 1 BY <1>16
      <4> QED BY <1>5, <1>19, <3>1, <4>1
    <3>2. CASE r \in U \ {5}
      <4>1. PICK i \in 1 .. m : Q[i] = r BY <1>25, <3>2
      <4>2. i \in 1 .. m + 1 /\ Y[i] = r BY <1>16, <1>19, <4>1
      <4> QED BY <1>25, <3>2, <4>2
    <3> QED BY <1>15, <3>1, <3>2
  <2>6. \A i \in 1 .. m + 1 : Y[i] # 5 => core.szone[Y[i]] = None
    <3>1. \A i \in 1 .. m + 1 : Y[i] \in V BY <1>15, <1>17, <1>18, <1>19
    <3> QED BY <3>1, <2>5
  <2>7. Ranks(core') = 1 .. m + 1 BY <1>19, <1>21 DEF Ranks
  <2>8. \A i \in 1 .. Len(core'.set) : FALSE BY <1>21
  <2> QED BY <1>21, <1>24, <2>1, <2>2, <2>3, <2>4, <2>5, <2>6, <2>7, <2>8 DEF Seats
<1>27. Cardinality(V \ {5}) = Cardinality(Unset(core'))
  <2>1. Unset(core) = {P[i] : i \in 1 .. m} \ FieldSpells BY <1>15 DEF Unset
  <2>2. Unset(core') = {X[i] : i \in 1 .. m + 1} \ FieldSpells BY <1>18, <1>21 DEF Unset
  <2>3. {X[i] : i \in 1 .. m + 1} = {P[i] : i \in 1 .. m} \cup {c}
    <3>1. \A i \in 1 .. m : i \in 1 .. m + 1 /\ X[i] = P[i] BY <1>16, <1>18
    <3>2. m + 1 \in 1 .. m + 1 BY <1>16
    <3> QED BY <3>1, <3>2, <1>18
  <2>4. CASE c \in FieldSpells
    <3>1. V \ {5} = U \ {5} /\ Unset(core') = Unset(core)
      BY <1>5, <1>15, <2>1, <2>2, <2>3, <2>4
    <3> QED BY <1>17, <3>1
  <2>5. CASE c \notin FieldSpells
    <3>1. V \ {5} = (U \ {5}) \cup {q} /\ q \notin U \ {5} BY <1>5, <1>15, <2>5
    <3>2. Unset(core') = Unset(core) \cup {c} BY <2>1, <2>2, <2>3, <2>5
    <3>3. c \notin Unset(core) BY <1>3, <1>17, <2>1
    <3>4. IsFiniteSet(U \ {5}) /\ IsFiniteSet(Unset(core)) BY <1>15, FiniteZones
    <3>6. Cardinality((U \ {5}) \cup {q}) = Cardinality(U \ {5}) + 1
      BY <3>1, <3>4, FS_AddElement
    <3>7. Cardinality(Unset(core) \cup {c}) = Cardinality(Unset(core)) + 1
      BY <3>3, <3>4, FS_AddElement
    <3> QED BY <1>17, <3>1, <3>2, <3>6, <3>7
  <2> QED BY <2>4, <2>5
<1>28. Seating(units', core', cards', seen'.left, n + 1)
  <2>1. units'[n + 1] = v BY <1>13 DEF Continues
  <2>2. X # <<>> BY <1>16, <1>18
  <2>3. s = 1 => /\ \A k \in 1 .. m + 1 : X[k] \notin R
                 /\ \A k \in 1 .. m + 1 : Y[k] \in V
    BY <1>6, <1>15, <1>17, <1>18, <1>19
  <2>4. s # 4 /\ s # 6 BY <1>7
  <2>5. Ranks(core') = 1 .. m + 1 BY <1>19, <1>21 DEF Ranks
  <2> QED BY <1>10, <1>18, <1>21, <1>27, <2>1, <2>2, <2>3, <2>4, <2>5 DEF Seating
<1>29. n > 0 => units'[1].kind # "ToField" BY <1>12
<1> QED BY <1>1, <1>10, <1>13, <1>14, <1>22, <1>26, <1>28, <1>29, SetterOn

LEMMA LowestOf ==
  ASSUME NEW U \in SUBSET Seqs, U \ {5} # {}, NEW q, q = Lowest(U)
  PROVE  q \in U \ {5}
<1>1. \A r \in Seqs : r \in {0, 1, 5} BY DEF Seqs
<1>2. 0 \in U \/ 1 \in U BY <1>1
<1>3. \E x \in U : x # 5 /\ \A r \in U : x <= r
  <2>1. CASE 0 \in U BY <2>1, <1>1
  <2>2. CASE 0 \notin U BY <2>2, <1>1, <1>2
  <2> QED BY <2>1, <2>2
<1>4. PICK x \in U : x # 5 /\ \A r \in U : x <= r BY <1>3
<1>5. q \in U /\ \A r \in U : q <= r BY <1>4 DEF Lowest
<1>6. q <= x /\ x <= q /\ q \in Int /\ x \in Int BY <1>1, <1>4, <1>5
<1>7. q = x BY <1>6
<1> QED BY <1>4, <1>5, <1>7

(* A zone is given up for each card that leaves those that are unset. *)
LEMMA OneLess ==
  ASSUME NEW A, NEW B, IsFiniteSet(A), IsFiniteSet(B), Cardinality(A) = Cardinality(B),
         NEW a \in A, NEW b \in B
  PROVE  Cardinality(A \ {a}) = Cardinality(B \ {b})
BY FS_RemoveElement

(* The zones of the group stay, but for some that are given up. *)
LEMMA SameSeats ==
  ASSUME Seats(core, cards, seen.left), core'.seq = core.seq, core'.set = core.set,
         core'.pre_set = core.pre_set, core'.szone = core.szone,
         core'.used_zones \subseteq core.used_zones,
         \A i \in 1 .. Len(core.set) : Placed(cards', seen'.left, core.set[i])
  PROVE  Seats(core', cards', seen'.left)
<1>1. PICK Z, Q, R : Z = core.szone /\ Q = core.seq /\ R = 1 .. Len(core.seq) OBVIOUS
<1>2. /\ core'.szone = Z /\ core'.seq = Q /\ Ranks(core) = R /\ Ranks(core') = R
      /\ \A i \in R : Nth(core', i) = Nth(core, i)
  BY <1>1 DEF Ranks, Nth
<1>3. /\ Len(core'.seq) = Len(core'.set) + Len(core'.pre_set)
      /\ \A i, k \in R : Nth(core, i) = Nth(core, k) => i = k
      /\ \A i \in R : Q[i] = 5 <=> Nth(core, i) \in FieldSpells
      /\ \A i, k \in R : Q[i] = Q[k] /\ Q[i] # 5 => i = k
  BY <1>1, <1>2 DEF Seats
<1>4. \A q \in core'.used_zones \ {5} : Z[q] = None /\ \E i \in R : Q[i] = q
  <2> TAKE q \in core'.used_zones \ {5}
  <2>1. q \in core.used_zones \ {5} OBVIOUS
  <2>2. core.szone[q] = None /\ \E i \in Ranks(core) : core.seq[i] = q BY <2>1 DEF Seats
  <2> QED BY <1>1, <1>2, <2>2
<1>5. \A i \in R : Q[i] # 5 /\ Z[Q[i]] # None =>
        \E k \in R : Nth(core, k) = Z[Q[i]] /\ Nth(core, k) \notin FieldSpells
  BY <1>1, <1>2 DEF Seats
<1>6. \A i \in 1 .. Len(core'.set) : Placed(cards', seen'.left, core'.set[i]) OBVIOUS
<1>7. \A i, k \in R : Nth(core', i) = Nth(core', k) => i = k BY <1>2, <1>3
<1>8. \A i \in R : Q[i] = 5 <=> Nth(core', i) \in FieldSpells BY <1>2, <1>3
<1>9. \A i \in R : Q[i] # 5 /\ Z[Q[i]] # None =>
        \E k \in R : Nth(core', k) = Z[Q[i]] /\ Nth(core', k) \notin FieldSpells
  BY <1>2, <1>5
<1>10. /\ \A i, k \in R : core'.seq[i] = core'.seq[k] /\ core'.seq[i] # 5 => i = k
       /\ \A i \in R : core'.seq[i] = 5 <=> Nth(core', i) \in FieldSpells
       /\ \A q \in core'.used_zones \ {5} : core'.szone[q] = None /\ \E i \in R : core'.seq[i] = q
       /\ \A i \in R : core'.seq[i] # 5 /\ core'.szone[core'.seq[i]] # None =>
            \E k \in R : Nth(core', k) = core'.szone[core'.seq[i]] /\ Nth(core', k) \notin FieldSpells
  BY <1>2, <1>3, <1>4, <1>8, <1>9
<1>11. Ranks(core') = R BY <1>2
<1> QED BY <1>3, <1>6, <1>7, <1>10, <1>11 DEF Seats

LEMMA SpellsMoveKept ==
  ASSUME IInv, SpellsMove
  PROVE  IInv'
<1>1. units # <<>> /\ Front.kind = "SetGroup" /\ Front.step = 3 /\ Setting1(Front)
  BY DEF SpellsMove, At, Setting1
<1>2. Front \in UnitType /\ Sane(Front) /\ units \in Seq(UnitType) BY <1>1, FrontTypes
<1>3. PICK P, U, c, q :
        /\ P = core.pre_set /\ U = core.used_zones /\ c = Head(P)
        /\ q = IF c \in FieldSpells \/ U = {} THEN 5 ELSE Lowest(U)
  OBVIOUS
<1>4. /\ cards' = Enabled({c}, FALSE)
      /\ core' = IF c \in FieldSpells THEN core ELSE [core EXCEPT !.used_zones = @ \ {q}]
      /\ GoOn(4, <<MoveToField(c, TRUE, q)>>)
      /\ setting' = setting /\ seen' = seen
  BY <1>3 DEF SpellsMove
<1>5. /\ Seats(core, cards, seen.left) /\ P # <<>>
      /\ Cardinality(U \ {5}) = Cardinality(Unset(core))
  BY <1>1, <1>3, FrontSeats
<1>6. /\ P \in Seq(Spells) /\ U \in SUBSET Seqs /\ Len(P) \in Nat
      /\ Spells \subseteq Cards /\ Laid(core, cards, seen.left)
  BY <1>3, CoreParts
<1>7. c \in Spells /\ c \in Cards /\ 1 \in 1 .. Len(P) /\ c = P[1]
  BY <1>3, <1>5, <1>6, HeadTailProperties, EmptySeq
<1>8. IsFiniteSet(U \ {5}) /\ IsFiniteSet(Unset(core)) BY <1>3, FiniteZones
<1>9. c \notin FieldSpells => c \in Unset(core) /\ q \in U \ {5}
  <2> SUFFICES ASSUME c \notin FieldSpells PROVE c \in Unset(core) /\ q \in U \ {5}
    OBVIOUS
  <2>1. c \in Unset(core) BY <1>3, <1>7 DEF Unset
  <2>2. U \ {5} # {} BY <1>5, <1>8, <2>1, FS_EmptySet
  <2>3. q = Lowest(U) BY <1>3, <2>2
  <2> QED BY <1>6, <2>1, <2>2, <2>3, LowestOf
<1>10. q \in Seqs /\ q \in Int BY <1>3, <1>6, <1>9 DEF Seqs
<1>11. PICK V : V = IF c \in FieldSpells THEN U ELSE U \ {q} OBVIOUS
<1>12. /\ CoreSetting /\ core'.used_zones = V /\ core'.pre_set = P /\ core'.set = core.set
       /\ core'.seq = core.seq /\ core'.szone = core.szone
  <2>1. CASE c \in FieldSpells BY <1>3, <1>4, <1>11, <2>1, OldTypes DEF CoreSetting
  <2>2. CASE c \notin FieldSpells
    <3>1. V \in SUBSET Seqs /\ core' = [core EXCEPT !.used_zones = V]
      BY <1>3, <1>4, <1>6, <1>11, <2>2
    <3> QED BY <1>3, <3>1, OldTypes DEF CoreSetting, CoreType
  <2> QED BY <2>1, <2>2
<1>13. Settled1 /\ Laid(core', cards', seen'.left)
       /\ \A d \in Cards : cards'[d].loc = cards[d].loc
  <2>1. core' \in CoreType /\ Levelled BY <1>12 DEF CoreSetting, Levelled
  <2> QED BY <1>4, <1>7, <1>12, <2>1, SpellDisabled DEF CoreSetting
<1>14. PICK v : v = Now(Front, 4) OBVIOUS
<1>15. /\ v.kind = Front.kind /\ v.step = 4 /\ v.target = Front.target
       /\ v.group = Front.group /\ v.rest = Front.rest
  BY <1>1, <1>14, Onward
<1>16. PICK u : u = Downward(c, q) OBVIOUS
<1>17. /\ Batch(<<u>>) /\ Len(<<u>>) = 1 /\ <<u>>[1] = u
       /\ u.target = c /\ u.kind = "ToField" /\ u.zone = q
  BY <1>7, <1>10, <1>16, Fielders
<1>18. GoOnAs(Front, 4, <<u>>) BY <1>4, <1>16 DEF GoOn, Downward
<1>19. Continues(v, 1) /\ units'[1] = u BY <1>1, <1>2, <1>14, <1>17, <1>18, ContinuedOne
<1>20. Sane(v) /\ Lays(u) BY <1>1, <1>2, <1>7, <1>15, <1>17 DEF Sane, Lays
<1>21. Len(units') > 1 /\ units'[2] = v
  BY <1>1, <1>2, <1>19, Fronts DEF Continues, Restacked
<1>22. Ranks(core') = Ranks(core) /\ Unset(core') = Unset(core)
       /\ \A i \in Ranks(core) : Nth(core', i) = Nth(core, i)
  BY <1>3, <1>12 DEF Ranks, Unset, Nth
<1>23. V \subseteq U BY <1>11
<1>24. Seats(core', cards', seen'.left)
  <2>1. \A i \in 1 .. Len(core.set) : Placed(cards', seen'.left, core.set[i])
    <3> TAKE i \in 1 .. Len(core.set)
    <3>1. core.set[i] \in Cards BY CoreParts, ElementOfSeq
    <3>2. Placed(cards, seen.left, core.set[i]) BY <1>5 DEF Seats
    <3> QED BY <3>1, <3>2, <1>4, <1>13 DEF Placed
  <2> QED BY <1>3, <1>5, <1>12, <1>23, <2>1, SameSeats
<1>25. Seating(units', core', cards', seen'.left, 1 + 1)
  <2>1. Cardinality(V \ {5}) = Cardinality(Unset(core') \ {c})
    <3>1. CASE c \in FieldSpells
      <4>1. Unset(core) \ {c} = Unset(core) BY <3>1 DEF Unset
      <4> QED BY <3>1, <4>1, <1>5, <1>11, <1>22
    <3>2. CASE c \notin FieldSpells
      <4>1. V \ {5} = (U \ {5}) \ {q} BY <1>11, <3>2
      <4>2. Cardinality((U \ {5}) \ {q}) = Cardinality(Unset(core) \ {c})
        <5>1. PICK A, B : A = U \ {5} /\ B = Unset(core) OBVIOUS
        <5>2. /\ IsFiniteSet(A) /\ IsFiniteSet(B) /\ Cardinality(A) = Cardinality(B)
              /\ q \in A /\ c \in B
          BY <1>5, <1>8, <1>9, <3>2, <5>1
        <5>3. Cardinality(A \ {q}) = Cardinality(B \ {c}) BY <5>2, OneLess
        <5> QED BY <5>1, <5>3
      <4> QED BY <4>1, <4>2, <1>22
    <3> QED BY <3>1, <3>2
  <2>2. 1 + 1 = 2 OBVIOUS
  <2> QED BY <1>1, <1>3, <1>5, <1>12, <1>15, <1>19, <1>20, <1>21, <2>1, <2>2 DEF Seating
<1>26. Seater(units', core')
  <2>1. c \notin FieldSpells =>
          /\ q \in Seqs \ {5} /\ q \notin core'.used_zones /\ core'.szone[q] = None
          /\ \E i \in Ranks(core') : core'.seq[i] = q
    <3> SUFFICES ASSUME c \notin FieldSpells
                 PROVE  /\ q \in Seqs \ {5} /\ q \notin core'.used_zones /\ core'.szone[q] = None
                        /\ \E i \in Ranks(core') : core'.seq[i] = q
      OBVIOUS
    <3>1. q \in U \ {5} /\ V = U \ {q} BY <1>9, <1>11
    <3>2. core.szone[q] = None /\ \E i \in Ranks(core) : core.seq[i] = q
      BY <1>3, <1>5, <3>1 DEF Seats
    <3> QED BY <1>10, <1>12, <1>22, <3>1, <3>2
  <2>2. units'[2].kind = "SetGroup" /\ units'[2].step = 4 /\ units'[1].target = Head(core'.pre_set)
    BY <1>1, <1>3, <1>12, <1>15, <1>17, <1>19, <1>21
  <2> QED BY <1>17, <1>19, <1>21, <2>1, <2>2 DEF Seater
<1>27. Zones' BY <1>1, <1>15, <1>19, <1>13, <1>24, <1>25, <1>26, SetterZones
<1> QED BY <1>1, <1>7, <1>13, <1>15, <1>17, <1>19, <1>20, <1>27, SetterGoesOn

(* The first of pre_set becomes the last of set. *)
LEMMA NthParts ==
  ASSUME NEW x, NEW a \in Nat, a = Len(x.set)
  PROVE  /\ \A i \in 1 .. a : Nth(x, i) = x.set[i]
         /\ \A k \in Nat \ {0} : Nth(x, k + a) = x.pre_set[k]
<1>1. \A i \in 1 .. a : i <= a OBVIOUS
<1>2. \A k \in Nat \ {0} : ~(k + a <= a) /\ (k + a) - a = k OBVIOUS
<1> QED BY <1>1, <1>2 DEF Nth

LEMMA SpellsMovedKept ==
  ASSUME IInv, SpellsMoved
  PROVE  IInv'
<1>1. units # <<>> /\ Front.kind = "SetGroup" /\ Front.step = 4 /\ Setting1(Front)
  BY DEF SpellsMoved, At, Setting1
<1>2. Front \in UnitType /\ Sane(Front) /\ units \in Seq(UnitType) BY <1>1, FrontTypes
<1>3. PICK S, P, h, a, b, X, Y :
        /\ S = core.set /\ P = core.pre_set /\ h = Head(P) /\ a = Len(S) /\ b = Len(P)
        /\ X = Append(S, h) /\ Y = Tail(P)
  OBVIOUS
<1>4. /\ core' = [core EXCEPT !.set = X, !.pre_set = Y]
      /\ GoOn(IF b = 1 THEN 6 ELSE 3, <<>>)
      /\ cards' = cards /\ setting' = setting /\ seen' = seen
  BY <1>3 DEF SpellsMoved
<1>5. /\ Seats(core, cards, seen.left) /\ P # <<>>
      /\ Cardinality(core.used_zones \ {5}) = Cardinality(Unset(core) \ {h})
      /\ Placed(cards, seen.left, h)
  BY <1>1, <1>3, FrontSeats
<1>6. S \in Seq(Spells) /\ P \in Seq(Spells) /\ a \in Nat /\ b \in Nat
  BY <1>3, CoreParts
<1>7. /\ h \in Spells /\ b # 0 /\ Y \in Seq(Spells) /\ Len(Y) = b - 1 /\ h = P[1]
      /\ \A i \in 1 .. b - 1 : Y[i] = P[i + 1]
  BY <1>3, <1>5, <1>6, HeadTailProperties, EmptySeq
<1>8. /\ X \in Seq(Spells) /\ Len(X) = a + 1 /\ \A i \in 1 .. a : X[i] = S[i]
      /\ X[a + 1] = h /\ \A i \in 1 .. a + 1 : i \in 1 .. a \/ i = a + 1
  BY <1>3, <1>6, <1>7, Appended
<1>9. /\ CoreSetting /\ core'.set = X /\ core'.pre_set = Y /\ core'.seq = core.seq
      /\ core'.used_zones = core.used_zones /\ core'.szone = core.szone
  BY <1>4, <1>7, <1>8, OldTypes DEF CoreSetting, CoreType
<1>10. Settled1 /\ Laid(core', cards', seen'.left)
  BY <1>4, <1>9, CoreSettles, CoreParts DEF Laid
<1>11. PICK s \in Nat : s = IF b = 1 THEN 6 ELSE 3 OBVIOUS
<1>12. PICK v : v = Now(Front, s) OBVIOUS
<1>13. /\ v \in UnitType /\ v.kind = Front.kind /\ v.step = s /\ v.target = Front.target
       /\ v.group = Front.group /\ v.rest = Front.rest
  BY <1>1, <1>12, Onward
<1>14. PICK n \in Nat : n = 0 OBVIOUS
<1>15. Continues(v, n)
  <2>1. GoOnAs(Front, s, <<>>) BY <1>4, <1>11 DEF GoOn
  <2> QED BY <1>1, <1>2, <1>12, <1>14, <2>1, NoneLeft
<1>16. Sane(v) BY <1>1, <1>2, <1>11, <1>13 DEF Sane
<1>17. /\ \A i \in 1 .. a : Nth(core, i) = S[i]
       /\ \A k \in Nat \ {0} : Nth(core, k + a) = P[k]
  BY <1>3, <1>6, NthParts
<1>18. /\ \A i \in 1 .. a + 1 : Nth(core', i) = X[i]
       /\ \A k \in Nat \ {0} : Nth(core', k + (a + 1)) = Y[k]
  <2>0. PICK d \in Nat : d = a + 1 BY <1>6
  <2>1. PICK x : x = core' /\ d = a + 1 BY <2>0
  <2>2. x.set = X /\ x.pre_set = Y /\ d = Len(x.set) BY <1>8, <1>9, <2>1
  <2>3. /\ \A i \in 1 .. d : Nth(x, i) = x.set[i]
        /\ \A k \in Nat \ {0} : Nth(x, k + d) = x.pre_set[k]
    BY <2>2, NthParts
  <2> QED BY <2>1, <2>2, <2>3
<1>19. Len(core.seq) = a + b BY <1>3, <1>5 DEF Seats
<1>20. \A i \in Ranks(core) : Nth(core', i) = Nth(core, i)
  <2> TAKE i \in Ranks(core)
  <2>0. i \in 1 .. a + b /\ i \in Nat BY <1>6, <1>19 DEF Ranks
  <2>1. CASE i \in 1 .. a
    <3>1. i \in 1 .. a + 1 BY <2>1, <1>6
    <3> QED BY <2>1, <3>1, <1>8, <1>17, <1>18
  <2>2. CASE i = a + 1
    <3>1. i \in 1 .. a + 1 /\ i = 1 + a /\ 1 \in Nat \ {0} BY <2>2, <1>6
    <3>2. Nth(core, 1 + a) = P[1] BY <3>1, <1>17
    <3> QED BY <2>2, <3>1, <3>2, <1>7, <1>8, <1>18
  <2>3. CASE i > a + 1
    <3>1. PICK k \in Nat \ {0} : i = k + (a + 1)
      <4>1. i - (a + 1) \in Nat \ {0} /\ i = (i - (a + 1)) + (a + 1) BY <2>0, <2>3, <1>6
      <4> QED BY <4>1
    <3>2. k \in 1 .. b - 1 /\ k + 1 \in Nat \ {0} /\ i = (k + 1) + a BY <2>0, <3>1, <1>6
    <3>3. Nth(core', i) = Y[k] BY <3>1, <1>18
    <3>4. Nth(core, i) = P[k + 1] BY <3>2, <1>17
    <3> QED BY <3>2, <3>3, <3>4, <1>7
  <2> QED BY <2>0, <2>1, <2>2, <2>3, <1>6
<1>21. Seats(core', cards', seen'.left)
  <2>1. PICK Z, Q, R : Z = core.szone /\ Q = core.seq /\ R = 1 .. Len(core.seq) OBVIOUS
  <2>2. core'.szone = Z /\ core'.seq = Q /\ Ranks(core) = R /\ Ranks(core') = R
    BY <1>9, <2>1 DEF Ranks
  <2>3. /\ \A i, k \in R : Nth(core, i) = Nth(core, k) => i = k
        /\ \A i \in R : Q[i] = 5 <=> Nth(core, i) \in FieldSpells
        /\ \A i, k \in R : Q[i] = Q[k] /\ Q[i] # 5 => i = k
    BY <1>5, <2>1, <2>2 DEF Seats
  <2>4. \A q \in core'.used_zones \ {5} : Z[q] = None /\ \E i \in R : Q[i] = q
    <3> TAKE q \in core'.used_zones \ {5}
    <3>1. q \in core.used_zones \ {5} BY <1>9
    <3>2. core.szone[q] = None /\ \E i \in Ranks(core) : core.seq[i] = q
      BY <1>5, <3>1 DEF Seats
    <3> QED BY <2>1, <2>2, <3>2
  <2>5. \A i \in R : Q[i] # 5 /\ Z[Q[i]] # None =>
          \E k \in R : Nth(core, k) = Z[Q[i]] /\ Nth(core, k) \notin FieldSpells
    BY <1>5, <2>1, <2>2 DEF Seats
  <2>6. \A i \in 1 .. Len(core'.set) : Placed(cards', seen'.left, core'.set[i])
    <3>1. \A i \in 1 .. a : Placed(cards, seen.left, S[i]) BY <1>3, <1>5 DEF Seats
    <3> QED BY <3>1, <1>4, <1>5, <1>8, <1>9
  <2>7. Len(core'.seq) = Len(core'.set) + Len(core'.pre_set)
    <3>1. Len(core'.set) = a + 1 /\ Len(core'.pre_set) = b - 1 /\ Len(core'.seq) = a + b
      BY <1>7, <1>8, <1>9, <1>19
    <3> QED BY <1>6, <3>1
  <2>8. \A i \in R : Nth(core', i) = Nth(core, i) BY <1>20, <2>2
  <2>9. \A i, k \in R : Nth(core', i) = Nth(core', k) => i = k BY <2>3, <2>8
  <2>10. \A i \in R : Q[i] = 5 <=> Nth(core', i) \in FieldSpells BY <2>3, <2>8
  <2>11. \A i \in R : Q[i] # 5 /\ Z[Q[i]] # None =>
           \E k \in R : Nth(core', k) = Z[Q[i]] /\ Nth(core', k) \notin FieldSpells
    BY <2>5, <2>8
  <2> QED BY <2>2, <2>3, <2>4, <2>6, <2>7, <2>9, <2>10, <2>11 DEF Seats
<1>22. Unset(core') = Unset(core) \ {h}
  <2>1. Unset(core) = {P[i] : i \in 1 .. b} \ FieldSpells BY <1>3 DEF Unset
  <2>2. Unset(core') = {Y[i] : i \in 1 .. b - 1} \ FieldSpells BY <1>7, <1>9 DEF Unset
  <2>3. \A i \in 1 .. b - 1 : i + 1 \in 1 .. b /\ Y[i] = P[i + 1] BY <1>6, <1>7
  <2>4. \A i \in 1 .. b : P[i] = h => i = 1
    <3> SUFFICES ASSUME NEW i \in 1 .. b, P[i] = h PROVE i = 1 OBVIOUS
    <3>1. i \in Nat \ {0} /\ 1 \in Nat \ {0} BY <1>6
    <3>2. Nth(core, i + a) = Nth(core, 1 + a) BY <1>7, <1>17, <3>1
    <3>3. i + a \in Ranks(core) /\ 1 + a \in Ranks(core) BY <1>6, <1>7, <1>19 DEF Ranks
    <3>4. i + a = 1 + a BY <1>5, <3>2, <3>3 DEF Seats
    <3> QED BY <1>6, <3>4
  <2>5. {Y[i] : i \in 1 .. b - 1} = {P[i] : i \in 1 .. b} \ {h}
    <3>1. ASSUME NEW i \in 1 .. b - 1 PROVE Y[i] \in {P[j] : j \in 1 .. b} \ {h}
      <4>1. i + 1 # 1 BY <1>6
      <4> QED BY <2>3, <2>4, <4>1
    <3>2. ASSUME NEW i \in 1 .. b, P[i] # h PROVE P[i] \in {Y[j] : j \in 1 .. b - 1}
      <4>1. i # 1 BY <1>7, <3>2
      <4>2. i - 1 \in 1 .. b - 1 /\ (i - 1) + 1 = i BY <1>6, <4>1
      <4>3. Y[i - 1] = P[i] BY <2>3, <4>2
      <4> QED BY <4>2, <4>3
    <3> QED BY <3>1, <3>2
  <2> QED BY <2>1, <2>2, <2>5
<1>23. Seating(units', core', cards', seen'.left, n + 1)
  <2>1. units'[n + 1] = v BY <1>15 DEF Continues
  <2>2. s = 3 => Y # <<>> BY <1>6, <1>7, <1>11
  <2>3. s = 6 => Y = <<>> BY <1>6, <1>7, <1>11, EmptySeq
  <2>4. s # 4 /\ s # 1 BY <1>11
  <2> QED BY <1>5, <1>9, <1>13, <1>22, <2>1, <2>2, <2>3, <2>4 DEF Seating
<1>24. n > 0 => units'[1].kind # "ToField" BY <1>14
<1> QED BY <1>1, <1>10, <1>13, <1>15, <1>16, <1>21, <1>23, <1>24, SetterOn

(* Each card goes to the zone that was chosen for it, which no other has. *)
LEMMA SpellsSeatedKept ==
  ASSUME IInv, SpellsSeated
  PROVE  IInv'
<1>1. units # <<>> /\ Front.kind = "SetGroup" /\ Front.step = 6 /\ Setting1(Front)
  BY DEF SpellsSeated, At, Setting1
<1>2. Front \in UnitType /\ Sane(Front) /\ units \in Seq(UnitType) BY <1>1, FrontTypes
<1>3. PICK s \in Nat, n \in Nat : s = 7 /\ n = 0 OBVIOUS
<1>4. PICK v : v = Now(Front, s) OBVIOUS
<1>5. /\ v \in UnitType /\ v.kind = Front.kind /\ v.step = s /\ v.target = Front.target
      /\ v.group = Front.group /\ v.rest = Front.rest
  BY <1>1, <1>4, Onward
<1>6. Continues(v, n)
  <2>1. GoOnAs(Front, s, <<>>) BY <1>3 DEF GoOn, SpellsSeated
  <2> QED BY <1>1, <1>2, <1>3, <1>4, <2>1, NoneLeft
<1>7. Sane(v) /\ ~Setter(v) BY <1>1, <1>2, <1>3, <1>5 DEF Sane, Setter
<1>8. Settled1 /\ Laid(core', cards', seen'.left)
  <2>0. seen' = seen /\ setting' = setting BY DEF SpellsSeated
  <2>1. CASE cards' = cards /\ core' = core BY <2>0, <2>1, QuietSettled DEF Quiet
  <2>2. CASE /\ cards' = Seated(core.set, core.seq, FieldSpells)
             /\ core' = [core EXCEPT !.szone =
                  [q \in Seqs |->
                     IF \E i \in DOMAIN core.set : core.seq[i] = q /\ core.set[i] \notin FieldSpells
                     THEN core.set[CHOOSE i \in DOMAIN core.set : core.seq[i] = q]
                     ELSE @[q]]]
    <3>1. PICK S, Q, m, Z, W :
            /\ S = core.set /\ Q = core.seq /\ m = Len(S) /\ Z = core.szone
            /\ W = [q \in Seqs |->
                     IF \E i \in DOMAIN S : Q[i] = q /\ S[i] \notin FieldSpells
                     THEN S[CHOOSE i \in DOMAIN S : Q[i] = q] ELSE Z[q]]
      OBVIOUS
    <3>2. /\ S \in Seq(Spells) /\ Q \in Seq(Seqs) /\ m \in Nat /\ Z \in [Seqs -> Members]
          /\ Spells \subseteq Cards /\ FieldSpells \subseteq Spells /\ None \notin Cards
          /\ Laid(core, cards, seen.left) /\ CardsOK(cards)
      BY <3>1, CoreParts, OldTypes
    <3>3. Seats(core, cards, seen.left) /\ core.pre_set = <<>> BY <1>1, FrontSeats
    <3>4. Len(Q) = m
      <4>1. Len(core.seq) = Len(core.set) + Len(core.pre_set) /\ Len(core.pre_set) = 0
        BY <3>3 DEF Seats
      <4> QED BY <3>1, <3>2, <4>1
    <3>5. DOMAIN S = 1 .. m /\ Ranks(core) = 1 .. m /\ \A i \in 1 .. m : S[i] \in Spells /\ Q[i] \in Seqs
      BY <3>1, <3>2, <3>4 DEF Ranks
    <3>6. \A i \in 1 .. m : Nth(core, i) = S[i] BY <3>1, <3>2, NthParts
    <3>7. /\ \A i, k \in 1 .. m : S[i] = S[k] => i = k
          /\ \A i \in 1 .. m : Q[i] = 5 <=> S[i] \in FieldSpells
          /\ \A i, k \in 1 .. m : Q[i] = Q[k] /\ Q[i] # 5 => i = k
          /\ \A i \in 1 .. m : Q[i] # 5 /\ Z[Q[i]] # None =>
               \E k \in 1 .. m : S[k] = Z[Q[i]] /\ S[k] \notin FieldSpells
          /\ \A i \in 1 .. m : Placed(cards, seen.left, S[i])
      <4>1. /\ \A i, k \in 1 .. m : Nth(core, i) = Nth(core, k) => i = k
            /\ \A i \in 1 .. m : Q[i] = 5 <=> Nth(core, i) \in FieldSpells
            /\ \A i, k \in 1 .. m : Q[i] = Q[k] /\ Q[i] # 5 => i = k
        BY <3>1, <3>3, <3>5 DEF Seats
      <4>2. \A i \in 1 .. m : Q[i] # 5 /\ Z[Q[i]] # None =>
              \E k \in 1 .. m : Nth(core, k) = Z[Q[i]] /\ Nth(core, k) \notin FieldSpells
        BY <3>1, <3>3, <3>5 DEF Seats
      <4>3. \A i \in 1 .. m : Placed(cards, seen.left, S[i]) BY <3>1, <3>3 DEF Seats
      <4> QED BY <3>6, <4>1, <4>2, <4>3
    <3>8. ASSUME NEW i \in 1 .. m, S[i] \notin FieldSpells
          PROVE  /\ Q[i] # 5 /\ W[Q[i]] = S[i] /\ cards'[S[i]] = [cards[S[i]] EXCEPT !.seq = Q[i]]
      <4>1. Q[i] # 5 /\ Q[i] \in Seqs /\ S[i] \in Cards BY <3>2, <3>5, <3>7, <3>8
      <4>2. (CHOOSE k \in 1 .. m : Q[k] = Q[i]) = i BY <3>7, <4>1
      <4>3. (CHOOSE k \in 1 .. m : S[k] = S[i]) = i BY <3>7
      <4>4. W[Q[i]] = S[i] BY <3>1, <3>5, <3>8, <4>1, <4>2
      <4>5. cards'[S[i]] = [cards[S[i]] EXCEPT !.seq = Q[i]]
        BY <2>2, <3>1, <3>5, <3>8, <4>1, <4>3 DEF Seated
      <4> QED BY <4>1, <4>4, <4>5
    <3>9. ASSUME NEW q \in Seqs
          PROVE  \/ \E i \in 1 .. m : Q[i] = q /\ S[i] \notin FieldSpells
                 \/ W[q] = Z[q] /\ ~\E i \in 1 .. m : Q[i] = q /\ S[i] \notin FieldSpells
      BY <3>1, <3>5
    <3>10. ASSUME NEW c \in Cards
           PROVE  \/ \E i \in 1 .. m : S[i] = c /\ c \notin FieldSpells
                  \/ /\ ~\E i \in 1 .. m : S[i] = c /\ c \notin FieldSpells
                     /\ cards'[c] = cards[c]
      BY <2>2, <3>1, <3>5 DEF Seated
    <3>11. W \in [Seqs -> Members]
      <4>1. \A q \in Seqs : W[q] \in Members
        <5> TAKE q \in Seqs
        <5>1. CASE \E i \in 1 .. m : Q[i] = q /\ S[i] \notin FieldSpells
          <6>1. PICK i \in 1 .. m : Q[i] = q /\ S[i] \notin FieldSpells BY <5>1
          <6> QED BY <6>1, <3>2, <3>5, <3>8 DEF Members
        <5>2. CASE W[q] = Z[q] BY <5>2, <3>2
        <5> QED BY <5>1, <5>2, <3>9
      <4> QED BY <3>1, <4>1
    <3>12. /\ CoreSetting /\ core'.szone = W
      <4>1. core' = [core EXCEPT !.szone = W] BY <2>2, <3>1
      <4> QED BY <3>11, <4>1, OldTypes DEF CoreSetting, CoreType
    <3>13. \A c \in Cards :
             /\ cards'[c] \in CardType /\ cards'[c].loc = cards[c].loc
             /\ cards'[c].summoning = cards[c].summoning
             /\ cards'[c].spsummon_step = cards[c].spsummon_step
             /\ cards'[c].enabled = cards[c].enabled /\ cards'[c].facedown = cards[c].facedown
      <4> TAKE c \in Cards
      <4>1. cards[c] \in CardType BY <3>2 DEF CardsOK
      <4>2. cards'[c] = cards[c] \/ \E q \in Seqs : cards'[c] = [cards[c] EXCEPT !.seq = q]
        BY <3>5, <3>8, <3>10
      <4> QED BY <4>1, <4>2 DEF CardType
    <3>14. CardsOK(cards')
      <4>1. cards' \in [Cards -> CardType]
        <5>1. cards' = [c \in Cards |-> cards'[c]] BY <2>2 DEF Seated
        <5> QED BY <3>13, <5>1
      <4> QED BY <3>2, <3>13, <4>1 DEF CardsOK
    <3>15. Settled1
      <4>1. DataOK /\ Apart /\ Levelled
        BY <2>0, <3>12, <3>14, OldTypes DEF DataOK, Apart, Levelled, CoreSetting
      <4>2. Tallies(0) BY <2>0, <3>12, SeenSame, TalliesSame DEF CoreSetting
      <4> QED BY <3>12, <3>13, <4>1, <4>2 DEF Settled1, CoreSetting, Bare
    <3>16. \A c \in Cards : cards'[c].loc = "SZONE" => W[cards'[c].seq] = c
      <4> SUFFICES ASSUME NEW c \in Cards, cards'[c].loc = "SZONE" PROVE W[cards'[c].seq] = c
        OBVIOUS
      <4>1. CASE \E i \in 1 .. m : S[i] = c /\ c \notin FieldSpells
        <5>1. PICK i \in 1 .. m : S[i] = c /\ c \notin FieldSpells BY <4>1
        <5>2. cards'[c].seq = Q[i]
          <6>1. cards[c] \in CardType BY <3>2 DEF CardsOK
          <6> QED BY <3>8, <5>1, <6>1 DEF CardType
        <5> QED BY <3>8, <5>1, <5>2
      <4>2. CASE /\ ~\E i \in 1 .. m : S[i] = c /\ c \notin FieldSpells
                 /\ cards'[c] = cards[c]
        <5>1. PICK q : q = cards[c].seq OBVIOUS
        <5>2. q \in Seqs /\ Z[q] = c /\ c # None
          BY <3>1, <3>2, <4>2, <5>1 DEF CardsOK, CardType, Laid
        <5>3. ~\E i \in 1 .. m : Q[i] = q /\ S[i] \notin FieldSpells
          <6> SUFFICES ASSUME NEW i \in 1 .. m, Q[i] = q, S[i] \notin FieldSpells PROVE FALSE
            OBVIOUS
          <6>1. PICK k \in 1 .. m : S[k] = c /\ S[k] \notin FieldSpells BY <3>7, <5>2
          <6> QED BY <4>2, <6>1
        <5> QED BY <3>9, <4>2, <5>1, <5>2, <5>3
      <4> QED BY <3>10, <4>1, <4>2
    <3>17. \A c \in Cards \ seen.left, q \in Seqs : W[q] = c => cards'[c].loc = "SZONE"
      <4> SUFFICES ASSUME NEW c \in Cards \ seen.left, NEW q \in Seqs, W[q] = c
                   PROVE  cards[c].loc = "SZONE"
        BY <3>13
      <4>1. CASE \E i \in 1 .. m : Q[i] = q /\ S[i] \notin FieldSpells
        <5>1. PICK i \in 1 .. m : Q[i] = q /\ S[i] \notin FieldSpells BY <4>1
        <5>2. c = S[i] BY <3>8, <5>1
        <5> QED BY <3>7, <5>1, <5>2 DEF Placed
      <4>2. CASE W[q] = Z[q] BY <3>1, <3>2, <4>2 DEF Laid
      <4> QED BY <3>9, <4>1, <4>2
    <3>18. \A q \in Seqs : W[q] # None => (q = 5 <=> W[q] \in FieldSpells)
      <4> TAKE q \in Seqs
      <4>1. CASE \E i \in 1 .. m : Q[i] = q /\ S[i] \notin FieldSpells
        <5>1. PICK i \in 1 .. m : Q[i] = q /\ S[i] \notin FieldSpells BY <4>1
        <5> QED BY <3>8, <5>1
      <4>2. CASE W[q] = Z[q] BY <3>1, <3>2, <4>2 DEF Laid
      <4> QED BY <3>9, <4>1, <4>2
    <3> QED BY <2>0, <3>12, <3>15, <3>16, <3>17, <3>18 DEF Laid
  <2> QED BY <2>1, <2>2 DEF SpellsSeated
<1>9. n > 0 => units'[1].kind # "ToField" BY <1>3
<1> QED BY <1>1, <1>5, <1>6, <1>7, <1>8, <1>9, SetterOn

-----------------------------------------------------------------------------
(* A spell reaches its zone. *)

LEMMA LaysZones ==
  ASSUME IInv, units # <<>>, Lays(Front), NEW n, Ends(n), n > 0 => units'[1].kind # "ToField",
         Laid(core', cards', seen'.left),
         units[2].kind = "SetGroup" =>
           /\ Seats(core', cards', seen'.left)
           /\ units'[n + 1] = units[2] => Seating(units', core', cards', seen'.left, n + 1)
  PROVE  Zones'
<1>1. /\ Front = units[1] /\ Len(units) \in Nat /\ Len(units) > 1
      /\ \/ units[2].kind = "SSet"
         \/ units[2].kind = "SetGroup"
  BY FrontTypes, Fronts DEF IInv, Zones, Seater
<1>2. /\ n \in Nat /\ Len(units') = Len(units) - 1 + n /\ units' \in Seq(UnitType)
      /\ \A k \in 1 .. Len(units') :
           k <= n \/ (k - n + 1 \in 1 + 1 .. Len(units) /\ units'[k] = units[k - n + 1])
      /\ \A i \in 1 .. n : Brief(units'[i])
  BY DEF Ends, New, Restacked
<1>3. /\ \A i, k \in 1 .. Len(units) : units[i].kind = "SetGroup" /\ units[k].kind = "SetGroup" => i = k
      /\ \A i \in 1 .. Len(units) : units[i].kind = "SSet" => i = Len(units)
  BY DEF IInv, Zones, Lone
<1>4. ASSUME NEW k \in 1 .. Len(units'), Setting1(units'[k])
      PROVE  /\ k - n + 1 \in 2 .. Len(units) /\ units'[k] = units[k - n + 1]
             /\ units'[k].kind = "SetGroup" => k = n + 1 /\ units[2].kind = "SetGroup"
             /\ units'[k].kind = "SSet" => k = Len(units')
  <2>1. ~(k <= n)
    <3> SUFFICES ASSUME k <= n PROVE FALSE OBVIOUS
    <3>1. k \in 1 .. n BY <1>2
    <3> QED BY <1>2, <1>4, <3>1, BriefNotSetting
  <2>2. PICK h \in 2 .. Len(units) : h = k - n + 1 /\ units'[k] = units[h] BY <1>2, <2>1
  <2>3. 2 \in 1 .. Len(units) /\ h \in 1 .. Len(units) /\ h >= 2 BY <1>1, <2>2
  <2>4. units'[k].kind = "SetGroup" => h = 2 /\ units[2].kind = "SetGroup"
    <3> SUFFICES ASSUME units[h].kind = "SetGroup" PROVE h = 2 /\ units[2].kind = "SetGroup"
      BY <2>2
    <3>1. CASE units[2].kind = "SSet"
      <4>1. h = 2 BY <1>1, <1>3, <2>2, <2>3, <3>1
      <4> QED BY <3>1, <4>1
    <3>2. CASE units[2].kind = "SetGroup" BY <1>3, <2>3, <3>2
    <3> QED BY <1>1, <3>1, <3>2
  <2>5. units'[k].kind = "SSet" => h = Len(units) BY <1>3, <2>2, <2>3
  <2> QED BY <1>1, <1>2, <2>2, <2>4, <2>5
<1>5. Lone(units') BY <1>4 DEF Lone, Setting1
<1>6. Seater(units', core')
  <2> SUFFICES ASSUME units' # <<>> PROVE ~Lays(units'[1]) BY DEF Seater
  <2>1. 1 \in 1 .. Len(units') BY <1>2, EmptySeq
  <2>2. CASE n = 0
    <3>1. units'[1] = units[2] /\ 2 \in 2 .. Len(units) BY <1>1, <1>2, <2>1, <2>2
    <3> QED BY <1>1, <3>1 DEF Lays
  <2>3. CASE n # 0 BY <1>2, <2>3 DEF Lays
  <2> QED BY <2>2, <2>3
<1>7. Grouping(units', core', cards', seen'.left)
  <2>1. ASSUME NEW k \in 1 .. Len(units'), Setter(units'[k])
        PROVE  Seats(core', cards', seen'.left) /\ Seating(units', core', cards', seen'.left, k)
    <3>1. k = n + 1 /\ units'[k] = units[k - n + 1] /\ units[2].kind = "SetGroup"
      BY <1>4, <2>1 DEF Setting1, Setter
    <3>2. k - n + 1 = 2 BY <1>2, <3>1
    <3> QED BY <3>1, <3>2
  <2> QED BY <2>1 DEF Grouping
<1> QED BY <1>5, <1>6, <1>7 DEF Zones

(* The zone that a spell takes was free, but for the one before it in the
   field zone, and no other spell that is to be set has it. *)
Taking(c, q, r) ==
  IF r = q THEN c
  ELSE IF cards[c].loc = "SZONE" /\ r = cards[c].seq THEN None ELSE core.szone[r]
Displaced(c, q) == {d \in Cards \ {c} : core.szone[q] = d}
Seated1(x, q) == [x EXCEPT !.loc = "SZONE", !.seq = q, !.facedown = TRUE]
Buried(x) == [x EXCEPT !.loc = "GRAVE"]
Takes(c, q) ==
  /\ cards' = [Changed(Displaced(c, q), LAMBDA x : [x EXCEPT !.loc = "GRAVE"])
               EXCEPT ![c].loc = "SZONE", ![c].seq = q, ![c].facedown = TRUE]
  /\ core' = [core EXCEPT !.szone = [r \in Seqs |-> Taking(c, q, r)]]

LEMMA SeatedCard ==
  ASSUME NEW x \in CardType, NEW q \in Seqs
  PROVE  /\ Seated1(x, q) \in CardType /\ Buried(x) \in CardType
         /\ Seated1(x, q).loc = "SZONE" /\ Seated1(x, q).seq = q /\ Buried(x).loc = "GRAVE"
         /\ Seated1(x, q).summoning = x.summoning /\ Buried(x).summoning = x.summoning
         /\ Seated1(x, q).spsummon_step = x.spsummon_step
         /\ Buried(x).spsummon_step = x.spsummon_step
BY DEF CardType, Locations, Seated1, Buried

LEMMA SpellTakes ==
  ASSUME IInv, NEW c \in Spells, NEW q \in Seqs, q = 5 <=> c \in FieldSpells,
         q # 5 => core.szone[q] = None, seen' = seen, setting' = setting, Takes(c, q)
  PROVE  /\ CoreStill /\ CardsOK(cards') /\ Laid(core', cards', seen'.left)
         /\ \A r \in Seqs : core'.szone[r] = Taking(c, q, r)
         /\ cards'[c].loc = "SZONE"
         /\ \A d \in Cards : /\ cards'[d].summoning = cards[d].summoning
                             /\ cards'[d].spsummon_step = cards[d].spsummon_step
                             /\ Bare(d)' => Bare(d) /\ d # c
                             /\ cards[d].loc = "SZONE" /\ d \notin FieldSpells =>
                                  cards'[d].loc = "SZONE"
<1>0. /\ c \in Cards /\ Spells \subseteq Cards /\ FieldSpells \subseteq Spells /\ None \notin Cards
      /\ Laid(core, cards, seen.left) /\ CardsOK(cards) /\ core.szone \in [Seqs -> Members]
  BY CoreParts, OldTypes
<1>1. PICK Z, W, D : Z = core.szone /\ W = [r \in Seqs |-> Taking(c, q, r)] /\ D = Displaced(c, q)
  OBVIOUS
<1>2. \A r \in Seqs : W[r] = Taking(c, q, r) BY <1>1
<1>3. \A r \in Seqs : /\ r = q => W[r] = c
                      /\ r # q => W[r] \in {None, Z[r]}
                      /\ r # q /\ ~(cards[c].loc = "SZONE" /\ r = cards[c].seq) => W[r] = Z[r]
  BY <1>1, <1>2 DEF Taking
<1>4. \A d \in D : d \in Cards /\ d # c /\ Z[q] = d /\ q = 5 /\ d \in FieldSpells
  BY <1>0, <1>1 DEF Displaced, Laid
<1>5. \A d \in Cards :
        cards'[d] = IF d = c THEN Seated1(cards[d], q)
                    ELSE IF d \in D THEN Buried(cards[d]) ELSE cards[d]
  <2>1. PICK Y : Y = Changed(D, LAMBDA x : [x EXCEPT !.loc = "GRAVE"]) OBVIOUS
  <2>2. \A d \in Cards : Y[d] = IF d \in D THEN Buried(cards[d]) ELSE cards[d]
    BY <2>1 DEF Changed, Buried
  <2>3. DOMAIN Y = Cards BY <2>1 DEF Changed
  <2>4. cards' = [Y EXCEPT ![c].loc = "SZONE", ![c].seq = q, ![c].facedown = TRUE]
    BY <1>1, <2>1 DEF Takes
  <2>5. Y[c] = cards[c] BY <1>0, <1>4, <2>2
  <2>6. cards'[c] = Seated1(Y[c], q) BY <1>0, <2>3, <2>4 DEF Seated1
  <2>7. \A d \in Cards : d # c => cards'[d] = Y[d] BY <2>3, <2>4
  <2> QED BY <2>2, <2>5, <2>6, <2>7
<1>6. \A d \in Cards : cards[d] \in CardType BY <1>0 DEF CardsOK
<1>7. /\ cards'[c].loc = "SZONE" /\ cards'[c].seq = q
      /\ \A d \in Cards :
           /\ cards'[d] \in CardType
           /\ cards'[d].summoning = cards[d].summoning
           /\ cards'[d].spsummon_step = cards[d].spsummon_step
           /\ d # c /\ d \notin D => cards'[d] = cards[d]
           /\ d # c /\ d \in D => cards'[d].loc = "GRAVE"
  <2>1. ASSUME NEW d \in Cards
        PROVE  /\ cards'[d] \in CardType
               /\ cards'[d].summoning = cards[d].summoning
               /\ cards'[d].spsummon_step = cards[d].spsummon_step
               /\ d # c /\ d \notin D => cards'[d] = cards[d]
               /\ d # c /\ d \in D => cards'[d].loc = "GRAVE"
               /\ d = c => cards'[d].loc = "SZONE" /\ cards'[d].seq = q
    <3>1. CASE d = c BY <3>1, <1>5, <1>6, SeatedCard
    <3>2. CASE d # c /\ d \in D BY <3>2, <1>5, <1>6, SeatedCard
    <3>3. CASE d # c /\ d \notin D BY <3>3, <1>5, <1>6
    <3> QED BY <3>1, <3>2, <3>3
  <2> QED BY <1>0, <2>1
<1>8. CardsOK(cards')
  <2>1. cards' \in [Cards -> CardType]
    <3>1. cards' = [d \in Cards |-> cards'[d]] BY DEF Changed, Takes
    <3> QED BY <1>7, <3>1
  <2>2. ASSUME NEW d \in Cards
        PROVE  IF d \in Spells THEN cards'[d].loc # "MZONE" /\ ~cards'[d].summoning
               ELSE cards'[d].loc # "SZONE"
    BY <1>0, <1>7 DEF CardsOK
  <2> QED BY <2>1, <2>2 DEF CardsOK
<1>9. CoreStill /\ core'.szone = W
  <2>1. \A r \in Seqs : W[r] \in Members BY <1>0, <1>1, <1>3 DEF Members
  <2>2. W \in [Seqs -> Members] BY <1>1, <2>1
  <2>3. core' = [core EXCEPT !.szone = W] BY <1>1 DEF Takes
  <2> QED BY <2>2, <2>3, OldTypes DEF CoreStill, CoreType
<1>10. \A d \in Cards : cards'[d].loc = "SZONE" => W[cards'[d].seq] = d
  <2>0. W[cards'[c].seq] = c BY <1>3, <1>7
  <2> SUFFICES ASSUME NEW d \in Cards, cards'[d].loc = "SZONE", d # c PROVE W[cards'[d].seq] = d
    BY <2>0
  <2>1. d \notin D /\ cards'[d] = cards[d] BY <1>7
  <2>2. PICK r : r = cards[d].seq OBVIOUS
  <2>3. r \in Seqs /\ Z[r] = d BY <1>0, <1>1, <1>6, <2>1, <2>2 DEF Laid, CardType
  <2>4. r # q BY <1>1, <2>1, <2>3 DEF Displaced
  <2>5. ~(cards[c].loc = "SZONE" /\ r = cards[c].seq) BY <1>0, <1>1, <2>3 DEF Laid
  <2> QED BY <1>3, <2>1, <2>2, <2>3, <2>4, <2>5
<1>11. \A d \in Cards \ seen.left, r \in Seqs : W[r] = d => cards'[d].loc = "SZONE"
  <2> SUFFICES ASSUME NEW d \in Cards \ seen.left, NEW r \in Seqs, W[r] = d, d # c
               PROVE  cards'[d].loc = "SZONE"
    BY <1>7
  <2>1. r # q /\ Z[r] = d BY <1>0, <1>3
  <2>2. cards[d].loc = "SZONE" BY <1>0, <1>1, <2>1 DEF Laid
  <2>3. d \notin D BY <1>0, <1>1, <1>4, <2>1 DEF Laid
  <2> QED BY <1>7, <2>2, <2>3
<1>12. \A r \in Seqs : W[r] # None => (r = 5 <=> W[r] \in FieldSpells)
  BY <1>0, <1>1, <1>3 DEF Laid
<1>13. Laid(core', cards', seen'.left) BY <1>9, <1>10, <1>11, <1>12 DEF Laid
<1>14. \A d \in Cards : Bare(d)' => Bare(d) /\ d # c BY <1>7 DEF Bare
<1>15. \A d \in Cards : cards[d].loc = "SZONE" /\ d \notin FieldSpells => cards'[d].loc = "SZONE"
  BY <1>4, <1>7
<1> QED BY <1>2, <1>7, <1>8, <1>9, <1>13, <1>14, <1>15

(* The group whose card it is goes on when that card is in its zone. *)
LEMMA SeatsTaken ==
  ASSUME IInv, NEW c \in Spells, NEW q \in Seqs, q = 5 <=> c \in FieldSpells,
         core.pre_set # <<>>, c = Head(core.pre_set), q \notin core.used_zones \/ q = 5,
         Seats(core, cards, seen.left), seen' = seen, CoreStill,
         \A r \in Seqs : core'.szone[r] = Taking(c, q, r),
         \A d \in Cards : cards[d].loc = "SZONE" /\ d \notin FieldSpells => cards'[d].loc = "SZONE"
  PROVE  Seats(core', cards', seen'.left)
<1>1. PICK Z, W, Q, R, a :
        /\ Z = core.szone /\ W = core'.szone /\ Q = core.seq /\ R = Ranks(core)
        /\ a = Len(core.set)
  OBVIOUS
<1>2. /\ core'.seq = Q /\ Ranks(core') = R /\ core'.set = core.set
      /\ core'.pre_set = core.pre_set /\ core'.used_zones = core.used_zones
      /\ \A i \in R : Nth(core', i) = Nth(core, i)
  BY <1>1 DEF CoreStill, Ranks, Nth
<1>3. /\ \A i, k \in R : Nth(core, i) = Nth(core, k) => i = k
      /\ \A i \in R : Q[i] = 5 <=> Nth(core, i) \in FieldSpells
      /\ \A i, k \in R : Q[i] = Q[k] /\ Q[i] # 5 => i = k
      /\ \A r \in core.used_zones \ {5} : Z[r] = None /\ \E i \in R : Q[i] = r
      /\ \A i \in R : Q[i] # 5 /\ Z[Q[i]] # None =>
           \E k \in R : Nth(core, k) = Z[Q[i]] /\ Nth(core, k) \notin FieldSpells
      /\ \A i \in 1 .. a : Placed(cards, seen.left, core.set[i])
      /\ Len(core.seq) = a + Len(core.pre_set)
  BY <1>1 DEF Seats
<1>4. \A r \in Seqs : (r = q /\ W[r] = c) \/ (r # q /\ W[r] \in {None, Z[r]})
  BY <1>1 DEF Taking
<1>5. \A i \in R : Q[i] \in Seqs BY <1>1, CoreParts DEF Ranks
<1>6. \A r \in core.used_zones \ {5} : W[r] = None
  <2> TAKE r \in core.used_zones \ {5}
  <2>1. r \in Seqs /\ r # q /\ Z[r] = None BY <1>3, CoreParts
  <2> QED BY <1>4, <2>1
<1>7. \E k \in R : Nth(core, k) = c
  <2>1. /\ core.pre_set \in Seq(Spells) /\ a \in Nat /\ Len(core.pre_set) \in Nat
    BY <1>1, CoreParts
  <2>2. c = core.pre_set[1] /\ Len(core.pre_set) # 0
    BY <2>1, HeadTailProperties, EmptySeq
  <2>3. PICK z \in Nat \ {0} : z = 1 OBVIOUS
  <2>4. Nth(core, z + a) = core.pre_set[z] BY <1>1, <2>1, NthParts
  <2>5. z + a \in R
    <3>1. PICK b \in Nat : b = Len(core.pre_set) BY <2>1
    <3>2. R = 1 .. a + b BY <1>1, <1>3, <3>1 DEF Ranks
    <3>3. z + a \in 1 .. a + b BY <2>1, <2>2, <2>3, <3>1
    <3> QED BY <3>2, <3>3
  <2> QED BY <2>2, <2>3, <2>4, <2>5
<1>8. ASSUME NEW i \in R, Q[i] # 5, W[Q[i]] # None
      PROVE  \E k \in R : Nth(core, k) = W[Q[i]] /\ Nth(core, k) \notin FieldSpells
  <2>1. CASE Q[i] = q BY <1>4, <1>5, <1>7, <1>8, <2>1
  <2>2. CASE Q[i] # q
    <3>1. W[Q[i]] = Z[Q[i]] BY <1>4, <1>5, <1>8, <2>2
    <3> QED BY <1>3, <1>8, <3>1
  <2> QED BY <2>1, <2>2
<1>9. \A i \in 1 .. a : Placed(cards', seen'.left, core.set[i])
  <2> TAKE i \in 1 .. a
  <2>1. core.set[i] \in Cards BY <1>1, CoreParts, ElementOfSeq
  <2> QED BY <1>3, <2>1 DEF Placed
<1>10. \A i, k \in R : Nth(core', i) = Nth(core', k) => i = k BY <1>2, <1>3
<1>11. \A i \in R : Q[i] = 5 <=> Nth(core', i) \in FieldSpells BY <1>2, <1>3
<1>12. \A i \in R : Q[i] # 5 /\ W[Q[i]] # None =>
         \E k \in R : Nth(core', k) = W[Q[i]] /\ Nth(core', k) \notin FieldSpells
  BY <1>2, <1>8
<1>13. \A r \in core'.used_zones \ {5} : W[r] = None /\ \E i \in R : Q[i] = r
  BY <1>2, <1>3, <1>6
<1>14. Len(core'.seq) = Len(core'.set) + Len(core'.pre_set) BY <1>1, <1>2, <1>3
<1>15. \A i \in 1 .. Len(core'.set) : Placed(cards', seen'.left, core'.set[i])
  BY <1>1, <1>2, <1>9
<1>16. core'.szone = W /\ core'.seq = Q /\ Ranks(core') = R BY <1>1, <1>2
<1>17. \A i, k \in R : Q[i] = Q[k] /\ Q[i] # 5 => i = k BY <1>3
<1> QED BY <1>10, <1>11, <1>12, <1>13, <1>14, <1>15, <1>16, <1>17 DEF Seats

LEMMA SpellMoved ==
  ASSUME MoveSpell, NEW zones,
         zones = IF Front.target \in FieldSpells THEN {5}
                 ELSE IF Front.zone = -1 THEN FreeSeqs ELSE FreeSeqs \cap {Front.zone}
  PROVE  /\ seen' = seen
         /\ \/ zones = {} /\ Finish(<<>>) /\ UNCHANGED <<cards, core>>
            \/ \E q \in zones : Takes(Front.target, q) /\ Finish(Interrupt)
<1>3. seen' = seen BY DEF MoveSpell
<1>1. CASE zones = {} BY <1>1, <1>3 DEF MoveSpell
<1>2. CASE zones # {}
  <2>1. \E q \in zones :
          /\ cards' = [Changed({d \in Cards \ {Front.target} : core.szone[q] = d},
                               LAMBDA x : [x EXCEPT !.loc = "GRAVE"])
                       EXCEPT ![Front.target].loc = "SZONE", ![Front.target].seq = q,
                              ![Front.target].facedown = TRUE]
          /\ core' = [core EXCEPT !.szone =
               [r \in Seqs |-> IF r = q THEN Front.target
                              ELSE IF Target.loc = "SZONE" /\ r = Target.seq THEN None
                              ELSE @[r]]]
          /\ Finish(Interrupt)
    BY <1>2, Zenon DEF MoveSpell
  <2>2. PICK q \in zones :
          /\ cards' = [Changed({d \in Cards \ {Front.target} : core.szone[q] = d},
                               LAMBDA x : [x EXCEPT !.loc = "GRAVE"])
                       EXCEPT ![Front.target].loc = "SZONE", ![Front.target].seq = q,
                              ![Front.target].facedown = TRUE]
          /\ core' = [core EXCEPT !.szone =
               [r \in Seqs |-> IF r = q THEN Front.target
                              ELSE IF Target.loc = "SZONE" /\ r = Target.seq THEN None
                              ELSE @[r]]]
          /\ Finish(Interrupt)
    BY <2>1
  <2>3. Takes(Front.target, q) BY <2>2, Zenon DEF Takes, Taking, Displaced, Target
  <2> QED BY <1>3, <2>2, <2>3
<1> QED BY <1>1, <1>2

LEMMA MoveSpellKept ==
  ASSUME IInv, MoveSpell
  PROVE  IInv'
<1>1. PICK c : c = Front.target OBVIOUS
<1>2. /\ units # <<>> /\ Front.kind = "ToField" /\ c \in Spells /\ Lays(Front)
      /\ setting' = setting
  BY <1>1 DEF MoveSpell, At, Lays
<1>3. /\ Front = units[1] /\ units \in Seq(UnitType) /\ Len(units) \in Nat /\ Len(units) > 1
      /\ \/ units[2].kind = "SSet" /\ Front.zone = -1
         \/ /\ units[2].kind = "SetGroup" /\ units[2].step = 4 /\ c = Head(core.pre_set)
            /\ c \notin FieldSpells =>
                 /\ Front.zone \in Seqs \ {5} /\ Front.zone \notin core.used_zones
                 /\ core.szone[Front.zone] = None
                 /\ \E i \in Ranks(core) : core.seq[i] = Front.zone
  BY <1>1, <1>2, FrontTypes, Fronts DEF IInv, Zones, Seater
<1>4. /\ Free(Front) /\ ~Active(Front) /\ ~Counting(Front) /\ Front.kind # "Solve"
      /\ Front.kind # "ToGrave"
      /\ \A d \in Cards : ~Window(Front, d) /\ ~Grouped(Front, d) /\ (Moved(Front, d) => d = c)
  BY <1>1, <1>2 DEF Free, Sends, Opens, Active, Counting, Window, Grouped, Moved
<1>5. ASSUME NEW n, Leaves(Front, n), Ends(n), n > 0 => units'[1].kind # "ToField",
             CoreStill, CardsOK(cards'), seen' \in SeenType,
             seen'.tries = seen.tries, seen'.successes = seen.successes,
             seen'.promised = seen.promised, Zones',
             \A d \in Cards : /\ cards'[d].summoning = cards[d].summoning
                              /\ cards'[d].spsummon_step = cards[d].spsummon_step
                              /\ Bare(d)' => Bare(d) /\ d # c
      PROVE  IInv'
  <2>1. DataOK /\ Apart /\ Levelled /\ core'.summon_count = core.summon_count
    BY <1>2, <1>5 DEF DataOK, Apart, Levelled, CoreStill
  <2>2. Tallies(0) BY <1>5, TalliesSame DEF CoreStill
  <2>3. /\ core'.summon_depth = core.summon_depth - One(Active(Front))
        /\ 0 - One(Counting(Front)) = 0
    <3>1. One(Active(Front)) = 0 /\ One(Counting(Front)) = 0 BY <1>4 DEF One
    <3> QED BY <1>5, <3>1, OldTypes DEF CoreStill
  <2> QED BY <1>4, <1>5, <2>1, <2>2, <2>3, FrontIsOver
<1>6. PICK zones :
        zones = IF c \in FieldSpells THEN {5}
                ELSE IF Front.zone = -1 THEN FreeSeqs ELSE FreeSeqs \cap {Front.zone}
  OBVIOUS
<1>9. /\ seen' = seen
      /\ \/ zones = {} /\ Finish(<<>>) /\ UNCHANGED <<cards, core>>
         \/ \E q \in zones : Takes(c, q) /\ Finish(Interrupt)
  BY <1>1, <1>6, SpellMoved
<1>7. CASE zones = {} /\ Finish(<<>>) /\ UNCHANGED <<cards, core>>
  <2>1. units[2].kind # "SetGroup"
    <3> SUFFICES ASSUME units[2].kind = "SetGroup" PROVE FALSE OBVIOUS
    <3>1. c \notin FieldSpells BY <1>6, <1>7
    <3>2. Front.zone \in FreeSeqs /\ Front.zone # -1 BY <1>3, <3>1 DEF FreeSeqs, Seqs
    <3> QED BY <1>6, <1>7, <3>1, <3>2
  <2>2. PICK n : n = Len(<<>>) OBVIOUS
  <2>3. Ends(n) /\ (n > 0 => units'[1].kind # "ToField") /\ n = 0
    BY <1>2, <1>7, <2>2, CalledLast, Idling
  <2>4. /\ seen' \in SeenType /\ seen'.tries = seen.tries /\ seen'.successes = seen.successes
        /\ seen'.promised = seen.promised /\ seen'.left = seen.left
    BY <1>9, OldTypes
  <2>5. Laid(core', cards', seen'.left) BY <1>7, <2>4, CoreParts
  <2>6. Zones' BY <1>2, <2>1, <2>3, <2>5, LaysZones
  <2>7. CoreStill /\ CardsOK(cards') BY <1>7, OldTypes DEF CoreStill
  <2>8. \A d \in Cards : Bare(d)' => Bare(d) /\ d # c
    BY <1>2, <1>7, OldTypes DEF Bare, CardsOK
  <2>9. Leaves(Front, n) BY <1>4, <2>3 DEF Leaves
  <2> QED BY <1>5, <1>7, <2>3, <2>4, <2>6, <2>7, <2>8, <2>9
<1>8. CASE \E q \in zones : Takes(c, q) /\ Finish(Interrupt)
  <2>1. PICK q \in zones : Takes(c, q) /\ Finish(Interrupt) /\ seen' = seen BY <1>8, <1>9
  <2>2. q \in Seqs /\ (q = 5 <=> c \in FieldSpells) /\ (q # 5 => core.szone[q] = None)
    BY <1>6 DEF FreeSeqs, Seqs
  <2>3. units[2].kind = "SetGroup" => q = 5 \/ q = Front.zone
    <3>1. \A r \in Seqs : r # -1 BY DEF Seqs
    <3> QED BY <1>3, <1>6, <3>1
  <2>4. /\ CoreStill /\ CardsOK(cards') /\ Laid(core', cards', seen'.left)
        /\ \A r \in Seqs : core'.szone[r] = Taking(c, q, r)
        /\ cards'[c].loc = "SZONE"
        /\ \A d \in Cards : /\ cards'[d].summoning = cards[d].summoning
                            /\ cards'[d].spsummon_step = cards[d].spsummon_step
                            /\ Bare(d)' => Bare(d) /\ d # c
                            /\ cards[d].loc = "SZONE" /\ d \notin FieldSpells =>
                                 cards'[d].loc = "SZONE"
    BY <1>2, <2>1, <2>2, SpellTakes
  <2>5. PICK n : n = Len(Interrupt) OBVIOUS
  <2>6. Ends(n) /\ (n > 0 => units'[1].kind # "ToField")
    BY <1>2, <2>1, <2>5, CalledLast, Idling
  <2>7. ASSUME units[2].kind = "SetGroup"
        PROVE  /\ Seats(core', cards', seen'.left)
               /\ units'[n + 1] = units[2] => Seating(units', core', cards', seen'.left, n + 1)
    <3>1. 2 \in 1 .. Len(units) /\ Setter(units[2]) /\ units[2].step = 4 /\ c = Head(core.pre_set)
      BY <1>3, <2>7 DEF Setter
    <3>2. Seats(core, cards, seen.left) /\ Seating(units, core, cards, seen.left, 2)
      BY <3>1 DEF IInv, Zones, Grouping
    <3>3. /\ core.pre_set # <<>>
          /\ Cardinality(core.used_zones \ {5}) = Cardinality(Unset(core) \ {Head(core.pre_set)})
      BY <3>1, <3>2 DEF Seating
    <3>4. q \notin core.used_zones \/ q = 5 BY <1>3, <2>2, <2>3, <2>7
    <3>5. Seats(core', cards', seen'.left)
      BY <1>2, <2>1, <2>2, <2>4, <3>1, <3>2, <3>3, <3>4, SeatsTaken
    <3>6. /\ core'.pre_set = core.pre_set /\ core'.used_zones = core.used_zones
          /\ Unset(core') = Unset(core)
      BY <2>4 DEF CoreStill, Unset
    <3>7. Placed(cards', seen'.left, c) BY <2>4 DEF Placed
    <3> QED BY <3>1, <3>3, <3>5, <3>6, <3>7 DEF Seating
  <2>8. Zones' BY <1>2, <2>4, <2>6, <2>7, LaysZones
  <2>9. /\ seen' \in SeenType /\ seen'.tries = seen.tries /\ seen'.successes = seen.successes
        /\ seen'.promised = seen.promised
    BY <2>1, OldTypes
  <2>10. Leaves(Front, n) BY <1>4 DEF Leaves
  <2> QED BY <1>5, <2>4, <2>6, <2>8, <2>9, <2>10
<1> QED BY <1>7, <1>8, <1>9

-----------------------------------------------------------------------------
(* Special Summons by effects. *)

LEMMA SpSummonSucceededKept ==
  ASSUME IInv, SpSummonSucceeded
  PROVE  IInv'
<1>1. units # <<>> /\ Front.kind = "SpSummon" /\ Front.step = 4
  BY DEF SpSummonSucceeded, At
<1>2. PICK n : n = Len(Interrupt) OBVIOUS
<1>3. Ends(n) /\ n \in Nat /\ (n > 0 => units'[1].kind # "ToField")
  BY <1>1, <1>2, Idling, CalledLast DEF SpSummonSucceeded
<1>4. /\ Keeps(Front) /\ ~Lays(Front) /\ Leaves(Front, n) /\ ~Active(Front) /\ Counting(Front)
  BY <1>1 DEF Keeps, Free, Other, Sends, Opens, Lays, Leaves, Active, Counting
<1>5. \A c \in Cards : ~Window(Front, c) /\ ~Grouped(Front, c) /\ ~Moved(Front, c)
  BY <1>1 DEF Window, Grouped, Moved
<1>6. Front.group \subseteq Cards BY <1>1, FrontTypes DEF Sane, Monsters
<1>7. /\ SeenFrame /\ seen'.tries = seen.tries /\ seen'.successes = seen.successes + 1
  BY <1>6, RaisedSeen DEF SpSummonSucceeded
<1>8. CoreFrame /\ core'.summon_depth = core.summon_depth /\ core'.state_count = core.state_count
  BY CoreSame DEF SpSummonSucceeded
<1>9. CardsFrame /\ \A c \in Cards : Bare(c)' = Bare(c)
  BY CardsSame DEF SpSummonSucceeded
<1>10. Framed BY <1>7, <1>8, <1>9 DEF Framed, SpSummonSucceeded
<1>11. One(Active(Front)) = 0 /\ One(Counting(Front)) = 1 BY <1>4 DEF One
<1>12. /\ core'.summon_depth = core.summon_depth - One(Active(Front))
       /\ 0 - One(Counting(Front)) = -1
  BY <1>8, <1>11, OldTypes
<1>13. Tallies(-1) BY <1>7, <1>8, OldTypes DEF Tallies
<1>14. \A c \in Cards : /\ cards'[c].summoning => cards[c].summoning /\ ~Window(Front, c)
                        /\ cards'[c].spsummon_step => cards[c].spsummon_step /\ ~Grouped(Front, c)
                        /\ Bare(c)' => Bare(c) /\ ~Moved(Front, c)
  BY <1>5, <1>9 DEF SpSummonSucceeded
<1> QED BY <1>3, <1>4, <1>10, <1>12, <1>13, <1>14, Framing, IsOver

(* A step of a unit of a Special Summon: all but what is half done. *)
LEMMA StepsOn ==
  ASSUME IInv, NEW v, NEW n, Continues(v, n), Sane(v), Other(Front), Other(v), ~Lays(Front),
         ~Lays(v), n > 0 => ~Lays(units'[1]), Follows(Front, v, n), DataOK, Apart, Calm,
         core'.summon_count = core.summon_count,
         core'.summon_depth = core.summon_depth - One(Active(Front)) + One(Active(v)),
         Tallies(One(Counting(v)) - One(Counting(Front))), Half'
  PROVE  IInv'
<1>1. /\ units # <<>> /\ Restacked(1, n + 1) /\ n \in Nat /\ units' \in Seq(UnitType)
      /\ units'[n + 1] = v
      /\ \A i \in 1 .. n : Brief(units'[i])
  BY DEF Continues, New
<1>2. \A i \in 1 .. n + 1 : i \in 1 .. n \/ i = n + 1 BY <1>1
<1>3. \A i \in 1 .. n + 1 : Sane(units'[i]) /\ Other(units'[i])
  <2> TAKE i \in 1 .. n + 1
  <2>1. CASE i = n + 1 BY <2>1, <1>1
  <2>2. CASE i \in 1 .. n BY <2>2, <1>1 DEF Brief, Other
  <2> QED BY <2>1, <2>2, <1>2
<1>4. Types'
  <2>1. setting' = setting BY DEF Apart
  <2> QED BY <1>1, <1>3, <2>1, TypesKept DEF IInv, DataOK
<1>5. Control' BY ControlContinued DEF IInv
<1>6. Front = units[1] BY <1>1, FrontTypes
<1>7. Zones'
  <2>1. PICK m \in Nat : m = n + 1 BY <1>1
  <2>2. \A i \in 1 .. 1 : Other(units[i]) /\ ~Lays(units[i]) BY <1>6
  <2>3. ~Lays(units'[1])
    <3>1. n = 0 => units'[1] = v BY <1>1
    <3>2. n = 0 \/ n > 0 BY <1>1
    <3> QED BY <3>1, <3>2
  <2>4. \A i \in 1 .. m : Other(units'[i]) BY <1>3, <2>1
  <2>5. PICK p \in Nat : p = 1 OBVIOUS
  <2>6. Restacked(p, m) /\ (\A i \in 1 .. p : Other(units[i]) /\ ~Lays(units[i])) /\ ~(p = 0)
    BY <1>1, <2>1, <2>2, <2>5
  <2> QED BY <1>1, <2>3, <2>4, <2>6, ZonesFrame DEF IInv, Control
<1> QED BY <1>4, <1>5, <1>7 DEF IInv

LEMMA StepsOver ==
  ASSUME IInv, NEW n, Ends(n), Other(Front), ~Lays(Front), n > 0 => ~Lays(units'[1]),
         Leaves(Front, n), DataOK, Apart, Calm,
         core'.summon_count = core.summon_count,
         core'.summon_depth = core.summon_depth - One(Active(Front)),
         Tallies(0 - One(Counting(Front))), Half'
  PROVE  IInv'
<1>1. /\ units # <<>> /\ Restacked(1, n) /\ n \in Nat /\ units' \in Seq(UnitType)
      /\ \A i \in 1 .. n : Brief(units'[i])
  BY DEF Ends, New
<1>2. \A i \in 1 .. n : Sane(units'[i]) /\ Other(units'[i]) BY <1>1 DEF Brief, Other
<1>3. Types'
  <2>1. setting' = setting BY DEF Apart
  <2> QED BY <1>1, <1>2, <2>1, TypesKept DEF IInv, DataOK
<1>4. Control' BY ControlEnded DEF IInv
<1>5. Front = units[1] BY <1>1, FrontTypes
<1>6. Zones'
  <2>1. \A i \in 1 .. 1 : Other(units[i]) /\ ~Lays(units[i]) BY <1>5
  <2>2. PICK p \in Nat : p = 1 OBVIOUS
  <2>3. Restacked(p, n) /\ (\A i \in 1 .. p : Other(units[i]) /\ ~Lays(units[i])) /\ ~(p = 0)
    BY <1>1, <2>1, <2>2
  <2> QED BY <1>1, <1>2, <2>3, ZonesFrame DEF IInv, Control
<1> QED BY <1>3, <1>4, <1>6 DEF IInv

LEMMA StepsBegin ==
  ASSUME IInv, NEW n, Lightly(n), n > 0, Other(Front), ~Lays(Front), ~Active(Front),
         ~Counting(Front), Front.kind \notin {"ToGrave", "Solve"}, DataOK, Apart, Calm,
         core'.summon_count = core.summon_count, core'.summon_depth = core.summon_depth,
         Tallies(0), Half',
         \A i \in 1 .. n : /\ Other(units'[i]) /\ ~Live(units'[i]) /\ ~Outside(units'[i])
                           /\ ~Lays(units'[i])
  PROVE  IInv'
<1>1. /\ units # <<>> /\ Restacked(1, n) /\ n \in Nat /\ units' \in Seq(UnitType)
      /\ \A i \in 1 .. n : Light(units'[i]) /\ Sane(units'[i])
  BY DEF Lightly
<1>2. Types'
  <2>1. setting' = setting BY DEF Apart
  <2> QED BY <1>1, <2>1, TypesKept DEF IInv, DataOK
<1>3. Front = units[1] BY <1>1, FrontTypes
<1>4. ~Live(units[1]) /\ units[1].kind # "Solve" BY <1>3 DEF Live
<1>5. n \in 1 .. n /\ 1 \in 1 .. n BY <1>1
<1>6. PICK p \in Nat : p = 1 OBVIOUS
<1>7. Chained'
  <2>1. /\ \A i \in 1 .. n : Live(units'[i]) => i = n
        /\ (n > 0 /\ Live(units'[n])) <=> (p = 1 /\ Live(units[1]))
        /\ \A i, j \in 1 .. n : j < i /\ Live(units'[i]) => ~Outside(units'[j])
        /\ \A i \in 1 .. n : Outside(units'[i]) => core.chain = 0 \/ (p = 1 /\ Outside(units[1]))
    BY <1>4, <1>5
  <2>2. Restacked(p, n) /\ setting' = setting /\ core'.chain = core.chain
    BY <1>1, <1>6 DEF Apart
  <2> QED BY <2>1, <2>2, ChainedSame DEF IInv, Control
<1>8. Waiting'
  <2>1. Restacked(p, n) /\ ~(p = 1 /\ units[1].kind = "Solve") BY <1>1, <1>4, <1>6
  <2> QED BY <2>1, WaitingSame DEF IInv, Control, Apart
<1>9. Control'
  <2>1. setting' = setting BY DEF Apart
  <2> QED BY <1>7, <1>8, <2>1, ControlLight DEF IInv
<1>10. Zones'
  <2>1. /\ Restacked(p, n) /\ ~(p = 0)
        /\ \A i \in 1 .. p : Other(units[i]) /\ ~Lays(units[i])
    BY <1>1, <1>3, <1>6
  <2> QED BY <1>1, <1>5, <2>1, ZonesFrame DEF IInv, Control
<1> QED BY <1>2, <1>9, <1>10 DEF IInv

(* Where each unit of the new stack comes from. *)
LEMMA Splits ==
  ASSUME NEW p, NEW n, Restacked(p, n)
  PROVE  /\ \A i \in 1 .. Len(units') :
              i \in 1 .. n \/ \E h \in p + 1 .. Len(units) : i = h - p + n /\ units'[i] = units[h]
         /\ \A h \in p + 1 .. Len(units) :
              /\ h - p + n \in 1 .. Len(units') /\ units'[h - p + n] = units[h]
              /\ h \in 1 .. Len(units) /\ h - p + n > n
         /\ \A i \in 1 .. n : i \in 1 .. Len(units')
<1>0. /\ p \in 0 .. 1 /\ n \in Nat /\ Len(units) \in Nat /\ Len(units') = Len(units) - p + n
      /\ \A i \in p + 1 .. Len(units) :
           i - p + n \in 1 .. Len(units') /\ units'[i - p + n] = units[i]
      /\ \A k \in 1 .. Len(units') :
           k <= n \/ (k - n + p \in p + 1 .. Len(units) /\ units'[k] = units[k - n + p])
      /\ p <= Len(units)
  BY DEF Restacked
<1>1. ASSUME NEW i \in 1 .. Len(units'), ~(i \in 1 .. n)
      PROVE  \E h \in p + 1 .. Len(units) : i = h - p + n /\ units'[i] = units[h]
  <2>1. i - n + p \in p + 1 .. Len(units) /\ units'[i] = units[i - n + p] BY <1>0, <1>1
  <2>2. i = (i - n + p) - p + n BY <1>0
  <2> QED BY <2>1, <2>2
<1>2. \A h \in p + 1 .. Len(units) : h \in 1 .. Len(units) /\ h - p + n > n BY <1>0
<1>3. \A i \in 1 .. n : i \in 1 .. Len(units') BY <1>0
<1> QED BY <1>0, <1>1, <1>2, <1>3

LEMMA SplitsFront ==
  ASSUME NEW n, Restacked(1, n)
  PROVE  /\ \A i \in 1 .. Len(units') :
              i \in 1 .. n \/ \E h \in 2 .. Len(units) : i = h - 1 + n /\ units'[i] = units[h]
         /\ \A h \in 2 .. Len(units) :
              /\ h - 1 + n \in 1 .. Len(units') /\ units'[h - 1 + n] = units[h]
              /\ h \in 1 .. Len(units) /\ h - 1 + n > n
         /\ \A i \in 1 .. n : i \in 1 .. Len(units')
<1>1. PICK p \in Nat : p = 1 OBVIOUS
<1>2. Restacked(p, n) /\ p + 1 = 2 BY <1>1
<1>3. \A h : h - p + n = h - 1 + n BY <1>1
<1> QED BY <1>2, <1>3, Splits

(* The cards that a step leaves to the units below the front, or to new ones. *)
FreshMarks(c) == c \in core'.special_summoning \/ \E i \in 1 .. Len(units') : Marked(units', i, c)
FreshBares(c) == c \in core'.special_summoning \/ \E i \in 1 .. Len(units') : Pending(units', i, c)
Hands ==
  \A c \in Cards :
    /\ cards'[c].summoning => cards[c].summoning /\ ~Window(Front, c)
    /\ cards'[c].spsummon_step =>
         \/ FreshMarks(c)
         \/ cards[c].spsummon_step /\ c \notin core.special_summoning /\ ~Marked(units, 1, c)
    /\ Bare(c)' =>
         \/ FreshBares(c)
         \/ Bare(c) /\ c \notin core.special_summoning /\ ~Pending(units, 1, c)

LEMMA FlagsHanded ==
  ASSUME IInv, units # <<>>, NEW n, Restacked(1, n), n > 0 => ~Queued(units'[n]),
         units' \in Seq(UnitType), Mounts(units'), Hands
  PROVE  Asked' /\ Stepped' /\ Faceup'
<1>1. Front = units[1] /\ Len(units) \in Nat BY FrontTypes, OldTypes
<1>2. \A k \in 1 .. Len(units) : k = 1 \/ k \in 1 + 1 .. Len(units) BY <1>1
<1>3. ASSUME NEW c \in Cards, cards'[c].summoning
      PROVE  \E k \in 1 + 1 .. Len(units) : Window(units[k], c)
  <2>1. cards[c].summoning /\ ~Window(units[1], c) BY <1>1, <1>3 DEF Hands
  <2>2. PICK k \in 1 .. Len(units) : Window(units[k], c) BY <2>1 DEF IInv, Half, Asked
  <2> QED BY <1>2, <2>1, <2>2
<1>4. ASSUME NEW c \in Cards, cards'[c].spsummon_step
      PROVE  \/ c \in core'.special_summoning
             \/ \E i \in 1 .. Len(units') : Marked(units', i, c)
             \/ \E k \in 1 + 1 .. Len(units) : Marked(units, k, c)
  <2>1. CASE FreshMarks(c) BY <2>1 DEF FreshMarks
  <2>2. CASE cards[c].spsummon_step /\ c \notin core.special_summoning /\ ~Marked(units, 1, c)
    <3>1. PICK k \in 1 .. Len(units) : Marked(units, k, c)
      BY <2>2 DEF IInv, Half, Stepped
    <3> QED BY <1>2, <2>2, <3>1
  <2> QED BY <1>4, <2>1, <2>2 DEF Hands
<1>5. ASSUME NEW c \in Cards, Bare(c)'
      PROVE  \/ c \in core'.special_summoning
             \/ \E i \in 1 .. Len(units') : Pending(units', i, c)
             \/ \E k \in 1 + 1 .. Len(units) : Pending(units, k, c)
  <2>1. CASE FreshBares(c) BY <2>1 DEF FreshBares
  <2>2. CASE Bare(c) /\ c \notin core.special_summoning /\ ~Pending(units, 1, c)
    <3>1. PICK k \in 1 .. Len(units) : Pending(units, k, c)
      BY <2>2 DEF IInv, Half, Faceup
    <3> QED BY <1>2, <2>2, <3>1
  <2> QED BY <1>5, <2>1, <2>2 DEF Hands
<1>6. AsksFor(1, n) /\ MarksOf(1) /\ BaresOf(1)
  BY <1>3, <1>4, <1>5 DEF AsksFor, MarksOf, BaresOf
<1> QED BY <1>6, FlagsShift

(* The SpSummonSteps below the new units keep their SpSummon. *)
LEMMA OwnersShift ==
  ASSUME Owned, NEW p, NEW n, Restacked(p, n), n > 0 => ~Queued(units'[n]),
         NEW h \in p + 1 .. Len(units), Queued(units[h])
  PROVE  Own(units', h - p + n)
<1>0. /\ p \in 0 .. 1 /\ n \in Nat /\ Len(units) \in Nat /\ Len(units') = Len(units) - p + n
      /\ \A i \in p + 1 .. Len(units) :
           i - p + n \in 1 .. Len(units') /\ units'[i - p + n] = units[i]
      /\ \A k \in 1 .. Len(units') :
           k <= n \/ (k - n + p \in p + 1 .. Len(units) /\ units'[k] = units[k - n + p])
  BY DEF Restacked
<1>1. h \in 1 .. Len(units) BY <1>0
<1>2. PICK k \in 1 .. Len(units) :
        /\ OwnerOf(units, h, k) /\ units[h].target \in units[k].group
        /\ \A j \in 1 .. Len(units) : h < j /\ j < k => units[j].target # units[h].target
  BY <1>1 DEF Owned, Own
<1>3. k \in p + 1 .. Len(units) /\ h < k BY <1>0, <1>2 DEF OwnerOf
<1>4. OwnerOf(units', h - p + n, k - p + n) BY <1>2, <1>3, OwnersKept
<1>5. /\ k - p + n \in 1 .. Len(units') /\ units'[k - p + n] = units[k]
      /\ units'[h - p + n] = units[h]
  BY <1>0, <1>3
<1>6. ASSUME NEW j \in 1 .. Len(units'), h - p + n < j, j < k - p + n
      PROVE  units'[j].target # units[h].target
  <2>1. j - n + p \in p + 1 .. Len(units) /\ units'[j] = units[j - n + p] BY <1>0, <1>6
  <2>2. h < j - n + p /\ j - n + p < k /\ j - n + p \in 1 .. Len(units)
    BY <1>0, <1>6, <2>1
  <2> QED BY <2>1, <2>2, <1>2
<1> QED BY <1>2, <1>4, <1>5, <1>6 DEF Own

LEMMA OwnedOf ==
  ASSUME Owned, NEW p, NEW n, Restacked(p, n), n > 0 => ~Queued(units'[n]),
         \A i \in 1 .. n : Queued(units'[i]) => Own(units', i)
  PROVE  Owned'
<1>1. ASSUME NEW i \in 1 .. Len(units'), Queued(units'[i])
      PROVE  Own(units', i)
  <2>1. CASE i \in 1 .. n BY <1>1, <2>1
  <2>2. CASE \E h \in p + 1 .. Len(units) : i = h - p + n /\ units'[i] = units[h]
    BY <1>1, <2>2, OwnersShift
  <2> QED BY <2>1, <2>2, Splits
<1> QED BY <1>1 DEF Owned

LEMMA TwoUnits ==
  ASSUME IInv, units # <<>>, NEW s \in Nat, NEW w \in UnitType, GoOn(s, <<w>>),
         NEW v, v = Now(Front, s)
  PROVE  /\ units' \in Seq(UnitType) /\ Restacked(1, 2) /\ units'[1] = w /\ units'[2] = v
         /\ \A i \in 1 .. 2 : i = 1 \/ i = 2
<1>1. PICK b : b = <<w>> OBVIOUS
<1>2. b \in Seq(UnitType) /\ Len(b) = 1 /\ b[1] = w BY <1>1
<1>3. GoOnAs(Front, s, b) BY <1>1 DEF GoOn
<1>4. /\ units' \in Seq(UnitType) /\ Restacked(1, Len(b) + 1)
      /\ units'[Len(b) + 1] = v /\ \A i \in 1 .. Len(b) : units'[i] = b[i]
  BY <1>2, <1>3, OldTypes, FrontTypes, GoneOn
<1> QED BY <1>2, <1>4

(* An effect that summons step by step is the only one that does, and has
   its SpSummonSteps above it. *)
LEMMA StartStepKept ==
  ASSUME IInv, StartStep
  PROVE  IInv'
<1>1. /\ units # <<>> /\ Front.kind = "Effect"
      /\ cards' = cards /\ core' = core /\ setting' = setting /\ seen' = seen
  BY StartsBetween DEF StartStep, Idle
<1>2. PICK t \in Cards \ Spells : GoOn(1, <<Unit("Step", 0, t)>>) BY DEF StartStep
<1>3. PICK w : w = Unit("Step", 0, t) OBVIOUS
<1>4. w \in UnitType /\ w.kind = "Step" /\ w.step = 0 /\ w.group = {} /\ w.rest = {} /\ w.target = t
  <2>1. "Step" \in Kinds /\ t \in Members BY DEF Kinds, Members
  <2> QED BY <1>3, <2>1, UnitFields
<1>5. PICK v : v = Now(Front, 1) OBVIOUS
<1>6. /\ v \in UnitType /\ v.kind = "Effect" /\ v.step = 1 /\ v.rest = Front.rest
  BY <1>1, <1>5, Onward
<1>7. /\ units' \in Seq(UnitType) /\ Restacked(1, 2) /\ units'[1] = w /\ units'[2] = v
      /\ \A i \in 1 .. 2 : i = 1 \/ i = 2
  BY <1>1, <1>2, <1>3, <1>4, <1>5, TwoUnits
<1>8. Sane(w) /\ Sane(v)
  <2>1. Front.rest = {} BY <1>1, FrontTypes DEF Sane
  <2> QED BY <1>4, <1>6, <2>1 DEF Sane, Monsters
<1>9. /\ Light(w) /\ Light(v) /\ Other(w) /\ Other(v)
      /\ ~Live(w) /\ ~Live(v) /\ ~Outside(w) /\ ~Outside(v) /\ ~Lays(w) /\ ~Lays(v)
  BY <1>4, <1>6 DEF Light, Active, Busy, Counting, Prompt, Other, Live, Outside, Lays
<1>10. Lightly(2) BY <1>1, <1>7, <1>8, <1>9 DEF Lightly
<1>11. /\ DataOK /\ Apart /\ Levelled /\ Calm /\ Tallies(0)
       /\ core'.summon_count = core.summon_count /\ core'.summon_depth = core.summon_depth
  BY <1>1, QuietFacts DEF Quiet
<1>12. Front = units[1] /\ Len(units) \in Nat BY <1>1, FrontTypes, OldTypes
<1>13. \A h \in 2 .. Len(units) : ~Opens(units[h]) /\ ~Loose(units[h])
  <2>1. \A h \in 2 .. Len(units) : ~Opens(units[h]) BY DEF StartStep, Opens
  <2>2. ASSUME NEW h \in 2 .. Len(units), Loose(units[h])
        PROVE  FALSE
    <3>1. h \in 1 .. Len(units) BY <1>12
    <3>2. PICK k \in 1 .. Len(units) : h < k /\ Opens(units[k])
      BY <2>2, <3>1 DEF IInv, Half, Opened
    <3>3. k \in 2 .. Len(units) BY <3>2, <1>12
    <3> QED BY <2>1, <3>2, <3>3
  <2> QED BY <2>1, <2>2
<1>14. /\ \A i \in 1 .. Len(units') :
            i \in 1 .. 2 \/ \E h \in 2 .. Len(units) : units'[i] = units[h]
       /\ 1 \in 1 .. Len(units') /\ 2 \in 1 .. Len(units')
  <2>1. PICK m \in Nat : m = 2 OBVIOUS
  <2>2. Restacked(1, m) /\ 1 \in 1 .. m /\ m \in 1 .. m BY <1>7, <2>1
  <2>3. /\ \A i \in 1 .. Len(units') :
             i \in 1 .. m \/ \E h \in 2 .. Len(units) : units'[i] = units[h]
        /\ \A i \in 1 .. m : i \in 1 .. Len(units')
    BY <2>2, SplitsFront
  <2> QED BY <2>1, <2>2, <2>3
<1>15. ~Queued(w) /\ ~Queued(v) /\ Opens(v) /\ ~Opens(w) /\ ~Loose(v)
  BY <1>4, <1>6 DEF Queued, Opens, Loose
<1>16. Owned' BY <1>7, <1>15, OwnedOf DEF IInv, Half
<1>17. Opened'
  <2>1. \A i \in 1 .. Len(units') : Opens(units'[i]) => i = 2
    BY <1>7, <1>13, <1>14, <1>15
  <2>2. \A i \in 1 .. Len(units') : Loose(units'[i]) => i = 1
    BY <1>7, <1>13, <1>14, <1>15
  <2>3. Opens(units'[2]) /\ Sends(units'[2]) /\ units'[1].step = 0
    BY <1>4, <1>7, <1>15 DEF Sends
  <2> QED BY <1>14, <2>1, <2>2, <2>3 DEF Opened
<1>18. Asked' /\ Stepped' /\ Faceup'
  <2>1. Mounts(units') BY <1>4, <1>7 DEF Mounts
  <2>2. \A c \in Cards : ~Window(Front, c) /\ ~Marked(units, 1, c) /\ ~Pending(units, 1, c)
    BY <1>1, <1>12 DEF Window, Marked, Pending, Grouped, Moved, Collects
  <2>3. Hands BY <1>1, <2>2 DEF Hands, FreshMarks, FreshBares, Bare
  <2> QED BY <1>1, <1>7, <1>15, <2>1, <2>3, FlagsHanded
<1>19. Half' BY <1>16, <1>17, <1>18 DEF Half
<1>20. /\ Other(Front) /\ ~Lays(Front) /\ ~Active(Front)
       /\ ~Counting(Front) /\ Front.kind \notin {"ToGrave", "Solve"}
  BY <1>1 DEF Other, Lays, Active, Counting
<1>21. \A i \in 1 .. 2 : /\ Other(units'[i]) /\ ~Live(units'[i]) /\ ~Outside(units'[i])
                         /\ ~Lays(units'[i])
  BY <1>7, <1>9
<1> QED BY <1>1, <1>10, <1>11, <1>19, <1>20, <1>21, StepsBegin

(* The lists that Special Summons share. *)
Shared(S, G) == [core EXCEPT !.special_summoning = S, !.ss_tograve = G]
LEMMA SharedFrame ==
  ASSUME IInv, NEW S \in SUBSET Monsters, NEW G \in SUBSET Monsters, core' = Shared(S, G),
         CardsFrame, seen' = seen, setting' = setting
  PROVE  /\ DataOK /\ Apart /\ Calm /\ Tallies(0)
         /\ core'.summon_count = core.summon_count /\ core'.summon_depth = core.summon_depth
         /\ core'.special_summoning = S /\ core'.ss_tograve = G
<1>1. PICK x : x = [core EXCEPT !.special_summoning = S] OBVIOUS
<1>2. /\ x \in CoreType /\ x.special_summoning = S
      /\ x.summon_count = core.summon_count /\ x.summon_depth = core.summon_depth
      /\ x.state_count = core.state_count /\ x.chain = core.chain /\ x.reserved = core.reserved
      /\ x.szone = core.szone /\ x.pre_set = core.pre_set /\ x.set = core.set
      /\ x.used_zones = core.used_zones /\ x.seq = core.seq
  BY <1>1, OldTypes DEF CoreType
<1>3. core' = [x EXCEPT !.ss_tograve = G] BY <1>1 DEF Shared
<1>4. /\ core' \in CoreType /\ core'.special_summoning = S /\ core'.ss_tograve = G
      /\ core'.summon_count = core.summon_count /\ core'.summon_depth = core.summon_depth
      /\ core'.state_count = core.state_count /\ core'.chain = core.chain
      /\ core'.reserved = core.reserved
      /\ core'.szone = core.szone /\ core'.pre_set = core.pre_set /\ core'.set = core.set
      /\ core'.used_zones = core.used_zones /\ core'.seq = core.seq
  BY <1>2, <1>3 DEF CoreType
<1>5. SeenFrame /\ seen'.tries = seen.tries /\ seen'.successes = seen.successes
  BY SeenSame
<1>6. Tallies(0) BY <1>4, <1>5, TalliesSame
<1>7. DataOK /\ Apart /\ Calm
  BY <1>4, <1>5 DEF DataOK, Apart, Calm, CardsFrame, SeenFrame
<1> QED BY <1>4, <1>6, <1>7

LEMMA SharedSets ==
  ASSUME IInv
  PROVE  core.special_summoning \in SUBSET Monsters /\ core.ss_tograve \in SUBSET Monsters
BY OldTypes DEF CoreType

LEMMA StartCompleteKept ==
  ASSUME IInv, StartComplete
  PROVE  IInv'
<1>1. /\ units # <<>> /\ Front.kind = "Effect" /\ Front.step = 1
      /\ cards' = cards /\ setting' = setting /\ seen' = seen
      /\ GoOn(0, <<GroupUnit("SpSummon", 1, core.special_summoning)>>)
      /\ core' = [core EXCEPT !.special_summoning = {}]
  BY DEF StartComplete, At
<1>2. PICK S \in SUBSET Monsters : S = core.special_summoning BY SharedSets
<1>3. PICK w : w = GroupUnit("SpSummon", 1, S) OBVIOUS
<1>4. w \in UnitType /\ w.kind = "SpSummon" /\ w.step = 1 /\ w.group = S /\ w.rest = {}
  <2>1. "SpSummon" \in Kinds /\ S \in SUBSET Members BY DEF Kinds, Members, Monsters
  <2> QED BY <1>3, <2>1, GroupFields
<1>5. PICK v : v = Now(Front, 0) OBVIOUS
<1>6. /\ v \in UnitType /\ v.kind = "Effect" /\ v.step = 0 /\ v.rest = Front.rest
  BY <1>1, <1>5, Onward
<1>7. /\ units' \in Seq(UnitType) /\ Restacked(1, 2) /\ units'[1] = w /\ units'[2] = v
      /\ \A i \in 1 .. 2 : i = 1 \/ i = 2
  BY <1>1, <1>2, <1>3, <1>4, <1>5, TwoUnits
<1>8. Sane(w) /\ Sane(v)
  <2>1. Front.rest = {} BY <1>1, FrontTypes DEF Sane
  <2> QED BY <1>4, <1>6, <2>1 DEF Sane
<1>9. /\ Light(w) /\ Light(v) /\ Other(w) /\ Other(v)
      /\ ~Live(w) /\ ~Live(v) /\ ~Outside(w) /\ ~Outside(v) /\ ~Lays(w) /\ ~Lays(v)
  BY <1>4, <1>6 DEF Light, Active, Busy, Counting, Prompt, Other, Live, Outside, Lays
<1>10. Lightly(2) BY <1>1, <1>7, <1>8, <1>9 DEF Lightly
<1>11. /\ DataOK /\ Apart /\ Calm /\ Tallies(0)
       /\ core'.summon_count = core.summon_count /\ core'.summon_depth = core.summon_depth
       /\ core'.special_summoning = {} /\ core'.ss_tograve = core.ss_tograve
  <2>1. PICK E \in SUBSET Monsters : E = {} OBVIOUS
  <2>2. PICK G \in SUBSET Monsters : G = core.ss_tograve BY SharedSets
  <2>3. core' = Shared(E, G)
    <3>1. core \in CoreType BY OldTypes
    <3> QED BY <1>1, <2>1, <2>2, <3>1 DEF Shared, CoreType
  <2>4. CardsFrame BY <1>1, CardsSame
  <2> QED BY <1>1, <2>1, <2>2, <2>3, <2>4, SharedFrame
<1>12. Front = units[1] /\ Len(units) \in Nat /\ 1 \in 1 .. Len(units)
  BY <1>1, FrontTypes, OldTypes
<1>13. \A h \in 2 .. Len(units) : ~Opens(units[h]) /\ ~Loose(units[h])
  <2>1. \A k \in 1 .. Len(units) : Opens(units[k]) => k = 1
    BY <1>1, <1>12 DEF IInv, Half, Opened, Opens
  <2>2. ASSUME NEW h \in 1 .. Len(units), Loose(units[h])
        PROVE  FALSE
    <3>1. PICK k \in 1 .. Len(units) : h < k /\ Opens(units[k])
      BY <2>2 DEF IInv, Half, Opened
    <3> QED BY <2>1, <3>1, <1>12
  <2> QED BY <2>1, <2>2, <1>12
<1>14. /\ \A i \in 1 .. Len(units') :
            i \in 1 .. 2 \/ \E h \in 2 .. Len(units) : units'[i] = units[h]
       /\ 1 \in 1 .. Len(units') /\ 2 \in 1 .. Len(units')
  <2>1. PICK m \in Nat : m = 2 OBVIOUS
  <2>2. Restacked(1, m) /\ 1 \in 1 .. m /\ m \in 1 .. m BY <1>7, <2>1
  <2>3. /\ \A i \in 1 .. Len(units') :
             i \in 1 .. m \/ \E h \in 2 .. Len(units) : units'[i] = units[h]
        /\ \A i \in 1 .. m : i \in 1 .. Len(units')
    BY <2>2, SplitsFront
  <2> QED BY <2>1, <2>2, <2>3
<1>15. /\ ~Queued(w) /\ ~Queued(v) /\ ~Opens(v) /\ ~Opens(w) /\ ~Loose(v) /\ ~Loose(w)
       /\ Sends(w)
  BY <1>4, <1>6 DEF Queued, Opens, Loose, Sends
<1>16. Owned' BY <1>7, <1>15, OwnedOf DEF IInv, Half
<1>17. Opened'
  <2>1. \A i \in 1 .. Len(units') : ~Opens(units'[i]) /\ ~Loose(units'[i])
    BY <1>7, <1>13, <1>14, <1>15
  <2> QED BY <1>7, <1>11, <1>14, <1>15, <2>1 DEF Opened
<1>18. Asked' /\ Stepped' /\ Faceup'
  <2>1. Mounts(units') BY <1>4, <1>7 DEF Mounts
  <2>2. \A c \in Cards : ~Window(Front, c) /\ ~Marked(units, 1, c) /\ ~Pending(units, 1, c)
    BY <1>1, <1>12 DEF Window, Marked, Pending, Grouped, Moved, Collects
  <2>3. \A c \in core.special_summoning : Collects(units', 1, c)
    <3>1. \A c : ~QueuedFor(units', 1, c) BY <1>14 DEF QueuedFor, OwnerOf
    <3> QED BY <1>2, <1>4, <1>7, <3>1 DEF Collects
  <2>4. 1 \in 1 .. Len(units') BY <1>14
  <2>5. \A c \in core.special_summoning : FreshMarks(c) /\ FreshBares(c)
    BY <2>3, <2>4 DEF FreshMarks, FreshBares, Marked, Pending
  <2>6. Hands BY <1>1, <2>2, <2>5 DEF Hands, Bare
  <2> QED BY <1>1, <1>7, <1>15, <2>1, <2>6, FlagsHanded
<1>19. Half' BY <1>16, <1>17, <1>18 DEF Half
<1>20. /\ Other(Front) /\ ~Lays(Front) /\ ~Active(Front)
       /\ ~Counting(Front) /\ Front.kind \notin {"ToGrave", "Solve"}
  BY <1>1 DEF Other, Lays, Active, Counting
<1>21. \A i \in 1 .. 2 : /\ Other(units'[i]) /\ ~Live(units'[i]) /\ ~Outside(units'[i])
                         /\ ~Lays(units'[i])
  BY <1>7, <1>9
<1> QED BY <1>1, <1>10, <1>11, <1>19, <1>20, <1>21, StepsBegin

(* The effect that summons step by step stays below what it summons. *)
OpensBelow(p) == \E k \in p + 1 .. Len(units) : Opens(units[k])
LEMMA OpenedOf ==
  ASSUME Opened, NEW p, NEW n, Restacked(p, n), \A i \in 1 .. p : ~Opens(units[i]),
         \A i \in 1 .. n : ~Opens(units'[i]),
         \A i \in 1 .. n : Loose(units'[i]) =>
           /\ OpensBelow(p)
           /\ units'[i].step = 3 => units'[i].target \in core'.special_summoning,
         core.special_summoning \subseteq core'.special_summoning,
         core'.special_summoning # {} => core.special_summoning # {} \/ OpensBelow(p),
         core'.ss_tograve # {} => \E i \in 1 .. Len(units') : Sends(units'[i])
  PROVE  Opened'
<1>0. /\ p \in 0 .. 1 /\ n \in Nat /\ Len(units) \in Nat /\ p <= Len(units)
  BY DEF Restacked
<1>1. /\ \A i \in 1 .. Len(units') :
            i \in 1 .. n \/ \E h \in p + 1 .. Len(units) : i = h - p + n /\ units'[i] = units[h]
      /\ \A h \in p + 1 .. Len(units) :
            /\ h - p + n \in 1 .. Len(units') /\ units'[h - p + n] = units[h]
            /\ h \in 1 .. Len(units) /\ h - p + n > n
  BY Splits
<1>2. \A k \in 1 .. Len(units) : Opens(units[k]) => k \in p + 1 .. Len(units)
  <2> SUFFICES ASSUME NEW k \in 1 .. Len(units), ~(k \in p + 1 .. Len(units))
               PROVE  ~Opens(units[k])
    OBVIOUS
  <2>1. k \in 1 .. p BY <1>0
  <2> QED BY <2>1
<1>3. ASSUME NEW i \in 1 .. Len(units'), Loose(units'[i])
      PROVE  /\ \E k \in 1 .. Len(units') : i < k /\ Opens(units'[k])
             /\ units'[i].step = 3 => units'[i].target \in core'.special_summoning
  <2>1. CASE i \in 1 .. n
    <3>1. PICK k \in p + 1 .. Len(units) : Opens(units[k]) BY <1>3, <2>1 DEF OpensBelow
    <3>2. i < k - p + n BY <1>0, <2>1
    <3> QED BY <1>1, <1>3, <2>1, <3>1, <3>2
  <2>2. CASE \E h \in p + 1 .. Len(units) : i = h - p + n /\ units'[i] = units[h]
    <3>1. PICK h \in p + 1 .. Len(units) : i = h - p + n /\ units'[i] = units[h] BY <2>2
    <3>2. h \in 1 .. Len(units) BY <1>1
    <3>3. /\ units[h].step = 3 => units[h].target \in core.special_summoning
          /\ \E k \in 1 .. Len(units) : h < k /\ Opens(units[k])
      BY <1>3, <3>1, <3>2 DEF Opened
    <3>4. PICK k \in 1 .. Len(units) : h < k /\ Opens(units[k]) BY <3>3
    <3>5. k \in p + 1 .. Len(units) BY <1>2, <3>4
    <3>6. i < k - p + n BY <1>0, <3>1, <3>4
    <3> QED BY <1>1, <3>1, <3>3, <3>4, <3>5, <3>6
  <2> QED BY <1>1, <2>1, <2>2
<1>4. ASSUME NEW i \in 1 .. Len(units'), NEW k \in 1 .. Len(units'),
             Opens(units'[i]), Opens(units'[k])
      PROVE  i = k
  <2>1. PICK h \in p + 1 .. Len(units) : i = h - p + n /\ units'[i] = units[h]
    BY <1>1, <1>4
  <2>2. PICK m \in p + 1 .. Len(units) : k = m - p + n /\ units'[k] = units[m]
    BY <1>1, <1>4
  <2>3. h = m BY <1>1, <1>4, <2>1, <2>2 DEF Opened
  <2> QED BY <2>1, <2>2, <2>3
<1>5. core'.special_summoning # {} => \E i \in 1 .. Len(units') : Opens(units'[i])
  <2> SUFFICES ASSUME core'.special_summoning # {}
               PROVE  \E i \in 1 .. Len(units') : Opens(units'[i])
    OBVIOUS
  <2>1. PICK k \in p + 1 .. Len(units) : Opens(units[k]) BY <1>2 DEF Opened, OpensBelow
  <2> QED BY <1>1, <2>1
<1> QED BY <1>3, <1>4, <1>5 DEF Opened

(* Who sends the cards for which there was no zone still does. *)
LEMMA SendsOf ==
  ASSUME Opened, core.ss_tograve # {}, NEW n, Restacked(1, n), ~Sends(units[1])
  PROVE  \E i \in 1 .. Len(units') : Sends(units'[i])
<1>1. PICK k \in 1 .. Len(units) : Sends(units[k]) BY DEF Opened
<1>2. k \in 2 .. Len(units)
  <2>1. k # 1 /\ Len(units) \in Nat BY <1>1 DEF Restacked
  <2> QED BY <2>1
<1> QED BY <1>1, <1>2, SplitsFront

LEMMA SpSummonSendsKept ==
  ASSUME IInv, SpSummonSends
  PROVE  IInv'
<1>1. /\ units # <<>> /\ Front.kind = "SpSummon" /\ Front.step = 1
      /\ cards' = cards /\ core' = core /\ setting' = setting /\ seen' = seen
  BY DEF SpSummonSends, At
<1>2. PICK S \in SUBSET Monsters : S = core.ss_tograve BY SharedSets
<1>3. PICK b : b = Sent(S) OBVIOUS
<1>4. Calls(b) /\ Len(b) \in 0 .. 1 BY <1>3, SentCalls
<1>5. GoOnAs(Front, 2, b) BY <1>2, <1>3 DEF SpSummonSends, Sent, GoOn
<1>6. PICK v : v = Now(Front, 2) OBVIOUS
<1>7. PICK n \in Nat : n = Len(b) BY <1>4
<1>8. /\ Continues(v, n)
      /\ n > 0 => units'[1] = b[1] /\ units'[1].kind # "ToField"
  <2>1. /\ Continues(Now(Front, 2), Len(b))
        /\ Len(b) > 0 => units'[1] = b[1] /\ units'[1].kind # "ToField"
    BY <1>1, <1>4, <1>5, FrontTypes, Called
  <2> QED BY <2>1, <1>6, <1>7
<1>9. /\ v \in UnitType /\ v.kind = "SpSummon" /\ v.step = 2
      /\ v.group = Front.group /\ v.rest = Front.rest
  BY <1>1, <1>6, Onward
<1>10. /\ Sane(v) /\ ~Queued(v) /\ ~Loose(v) /\ ~Opens(v) /\ Sends(v)
       /\ ~Active(v) /\ ~Counting(v) /\ ~Active(Front) /\ ~Counting(Front)
       /\ Other(v) /\ Other(Front) /\ ~Lays(v) /\ ~Lays(Front) /\ ~Opens(Front)
  <2>1. Front.rest = {} /\ Front.group \subseteq Monsters BY <1>1, FrontTypes DEF Sane
  <2> QED
    BY <1>1, <1>9, <2>1
       DEF Sane, Queued, Loose, Opens, Sends, Active, Counting, Other, Lays
<1>11. Follows(Front, v, n)
  BY <1>1, <1>9 DEF Follows, Succeeds, Prompt, Ready, Busy, Live, Outside, Claims
<1>12. /\ DataOK /\ Apart /\ Levelled /\ Calm /\ Tallies(0)
       /\ core'.summon_count = core.summon_count /\ core'.summon_depth = core.summon_depth
  BY <1>1, QuietFacts DEF Quiet
<1>13. One(Active(Front)) = 0 /\ One(Active(v)) = 0 /\ One(Counting(v)) - One(Counting(Front)) = 0
  BY <1>10 DEF One
<1>14. core'.summon_depth = core.summon_depth - One(Active(Front)) + One(Active(v))
  BY <1>12, <1>13, OldTypes
<1>15. PICK m \in Nat : m = n + 1 BY <1>7
<1>16. /\ Restacked(1, m) /\ units' \in Seq(UnitType) /\ units'[m] = v /\ m > 0 /\ m \in 1 .. m
       /\ \A i \in 1 .. m : i = m \/ i \in 1 .. n
       /\ \A i \in 1 .. n : Brief(units'[i])
  <2>1. /\ Restacked(1, n + 1) /\ units' \in Seq(UnitType) /\ units'[n + 1] = v
        /\ \A i \in 1 .. n : Brief(units'[i])
    BY <1>8 DEF Continues, New
  <2> QED BY <2>1, <1>15
<1>17. \A i \in 1 .. m : ~Queued(units'[i]) /\ ~Loose(units'[i]) /\ ~Opens(units'[i])
  BY <1>10, <1>16 DEF Brief, Queued, Loose, Opens
<1>18. Front = units[1] /\ \A i \in 1 .. 1 : i = 1 BY <1>1, FrontTypes
<1>19. m \in 1 .. Len(units') BY <1>16, SplitsFront
<1>20. Owned' BY <1>16, <1>17, OwnedOf DEF IInv, Half
<1>21. Opened'
  <2>1. Opened /\ core'.special_summoning = core.special_summoning
    BY <1>1 DEF IInv, Half
  <2>2. \E i \in 1 .. Len(units') : Sends(units'[i]) BY <1>10, <1>16, <1>19
  <2>3. \A i \in 1 .. 1 : ~Opens(units[i]) BY <1>10, <1>18
  <2> QED BY <1>16, <1>17, <2>1, <2>2, <2>3, OpenedOf
<1>22. Mounts(units')
  <2>1. n = 0 => units'[1] = v BY <1>15, <1>16
  <2>2. units'[1].kind # "ToField" BY <1>7, <1>8, <1>9, <2>1
  <2> QED BY <2>2 DEF Mounts
<1>23. Hands
  <2>1. \A c \in Cards : ~Window(Front, c) /\ ~Grouped(Front, c) /\ ~Moved(Front, c)
    BY <1>1 DEF Window, Grouped, Moved
  <2>2. \A c \in Cards : Collects(units, 1, c) => Collects(units', m, c)
    <3>1. \A c : ~QueuedFor(units', m, c) BY <1>9, <1>16 DEF QueuedFor, OwnerOf
    <3> QED BY <1>9, <1>16, <1>18, <3>1 DEF Collects
  <2>3. \A c \in Cards : /\ Marked(units, 1, c) => FreshMarks(c)
                         /\ Pending(units, 1, c) => FreshBares(c)
    BY <1>16, <1>18, <1>19, <2>1, <2>2 DEF FreshMarks, FreshBares, Marked, Pending
  <2>4. \A c \in core.special_summoning : FreshMarks(c) /\ FreshBares(c)
    BY <1>1 DEF FreshMarks, FreshBares
  <2> QED BY <1>1, <2>1, <2>3, <2>4 DEF Hands, Bare
<1>24. Half'
  <2>1. ~Queued(units'[m]) BY <1>16, <1>17
  <2> QED BY <1>1, <1>16, <1>20, <1>21, <1>22, <1>23, <2>1, FlagsHanded DEF Half
<1>25. n > 0 => ~Lays(units'[1]) BY <1>8 DEF Lays
<1> QED BY <1>8, <1>10, <1>11, <1>12, <1>13, <1>14, <1>24, <1>25, StepsOn

(* The group of a SpSummon is on the field, with its effects. *)
Present(S) ==
  Changed(S, LAMBDA x : [x EXCEPT !.spsummon_step = FALSE, !.enabled = @ \/ ~x.facedown])
LEMMA PresentFrame ==
  ASSUME IInv, NEW S \in SUBSET Monsters, cards' = Present(S)
  PROVE  /\ CardsFrame
         /\ \A c \in Cards : /\ cards'[c].summoning = cards[c].summoning
                             /\ cards'[c].spsummon_step => cards[c].spsummon_step /\ c \notin S
                             /\ Bare(c)' => Bare(c) /\ c \notin S
<1>1. CardsOK(cards) BY OldTypes
<1>2. \A c \in Cards :
        cards'[c] = IF c \in S
                    THEN [cards[c] EXCEPT !.spsummon_step = FALSE,
                                          !.enabled = cards[c].enabled \/ ~cards[c].facedown]
                    ELSE cards[c]
  BY DEF Present, Changed
<1>3. \A c \in Cards :
        cards[c] \in CardType /\ (cards[c].enabled \/ ~cards[c].facedown) \in BOOLEAN
  BY <1>1 DEF CardsOK, CardType
<1>4. ASSUME NEW c \in Cards
      PROVE  /\ cards'[c] \in CardType /\ cards'[c].loc = cards[c].loc
             /\ cards'[c].seq = cards[c].seq /\ cards'[c].facedown = cards[c].facedown
             /\ cards'[c].summoning = cards[c].summoning
             /\ cards'[c].spsummon_step => cards[c].spsummon_step /\ c \notin S
             /\ c \notin S => cards'[c].enabled = cards[c].enabled
             /\ c \in S => cards'[c].enabled \/ cards'[c].facedown
  <2>1. CASE c \notin S BY <1>2, <1>3, <2>1
  <2>2. CASE c \in S
    <3>1. PICK b \in BOOLEAN : b = (cards[c].enabled \/ ~cards[c].facedown) BY <1>3
    <3>2. PICK x : x = [cards[c] EXCEPT !.spsummon_step = FALSE] OBVIOUS
    <3>3. /\ x \in CardType /\ x.loc = cards[c].loc /\ x.seq = cards[c].seq
          /\ x.facedown = cards[c].facedown /\ x.summoning = cards[c].summoning
          /\ x.spsummon_step = FALSE
      BY <1>3, <3>2 DEF CardType
    <3>4. cards'[c] = [x EXCEPT !.enabled = b] BY <1>2, <2>2, <3>1, <3>2
    <3>5. /\ cards'[c] \in CardType /\ cards'[c].loc = x.loc /\ cards'[c].seq = x.seq
          /\ cards'[c].facedown = x.facedown /\ cards'[c].summoning = x.summoning
          /\ cards'[c].spsummon_step = FALSE /\ cards'[c].enabled = b
      BY <3>3, <3>4 DEF CardType
    <3>6. cards'[c].enabled \/ cards'[c].facedown BY <3>1, <3>3, <3>5
    <3> QED BY <2>2, <3>3, <3>5, <3>6
  <2> QED BY <2>1, <2>2
<1>5. cards' \in [Cards -> CardType] BY <1>4 DEF Present, Changed
<1>6. CardsFrame BY <1>1, <1>4, <1>5 DEF CardsFrame, CardsOK
<1>7. \A c \in Cards : Bare(c)' => Bare(c) /\ c \notin S BY <1>4 DEF Bare
<1> QED BY <1>4, <1>6, <1>7

(* No card of it was summoned after all. *)
LEMMA NoneSummoned ==
  ASSUME IInv, units # <<>>, Front.kind = "SpSummon", Front.step = 2, Front.group = {},
         Finish(<<>>), core' = [core EXCEPT !.ss_tograve = {}],
         cards' = cards, seen' = seen, setting' = setting
  PROVE  IInv'
<1>1. PICK n \in Nat : n = Len(<<>>) BY NoCalls
<1>2. n = 0 BY <1>1, NoCalls
<1>3. Ends(n) BY <1>1, NoCalls, CalledLast
<1>4. Restacked(1, n) /\ units' \in Seq(UnitType) BY <1>3 DEF Ends, New
<1>5. /\ Other(Front) /\ ~Lays(Front) /\ Leaves(Front, n) /\ ~Opens(Front)
      /\ ~Active(Front) /\ ~Counting(Front)
  BY DEF Other, Lays, Leaves, Opens, Active, Counting
<1>6. /\ DataOK /\ Apart /\ Calm /\ Tallies(0)
      /\ core'.summon_count = core.summon_count /\ core'.summon_depth = core.summon_depth
      /\ core'.special_summoning = core.special_summoning /\ core'.ss_tograve = {}
  <2>1. PICK E \in SUBSET Monsters : E = {} OBVIOUS
  <2>2. PICK G \in SUBSET Monsters : G = core.special_summoning BY SharedSets
  <2>3. core' = Shared(G, E)
    <3>1. core \in CoreType BY OldTypes
    <3> QED BY <2>1, <2>2, <3>1 DEF Shared, CoreType
  <2>4. CardsFrame BY CardsSame
  <2> QED BY <2>1, <2>2, <2>3, <2>4, SharedFrame
<1>7. One(Active(Front)) = 0 /\ 0 - One(Counting(Front)) = 0
  <2>1. One(Active(Front)) = 0 /\ One(Counting(Front)) = 0 BY <1>5 DEF One
  <2> QED BY <2>1
<1>8. core'.summon_depth = core.summon_depth - One(Active(Front))
  BY <1>6, <1>7, OldTypes
<1>9. Front = units[1] /\ \A i \in 1 .. n : FALSE BY <1>2, FrontTypes
<1>10. Owned' BY <1>2, <1>4, <1>9, OwnedOf DEF IInv, Half
<1>11. Opened'
  <2>1. \A i \in 1 .. 1 : ~Opens(units[i]) BY <1>5, <1>9
  <2>2. Opened BY DEF IInv, Half
  <2> QED BY <1>4, <1>6, <1>9, <2>1, <2>2, OpenedOf
<1>12. Mounts(units')
  <2> SUFFICES ASSUME units' # <<>>, units'[1].kind = "ToField" PROVE FALSE
    BY DEF Mounts
  <2>1. Len(units') \in Nat /\ 1 \in 1 .. Len(units') BY <1>4
  <2>2. PICK h \in 2 .. Len(units) : units'[1] = units[h]
    BY <1>4, <1>9, <2>1, SplitsFront
  <2> QED BY <2>2 DEF IInv, Control, Prompts, Prompt
<1>13. Hands
  <2>1. \A c \in Cards : ~Window(Front, c) /\ ~Marked(units, 1, c) /\ ~Pending(units, 1, c)
    BY <1>9 DEF Window, Marked, Pending, Grouped, Moved, Collects
  <2>2. \A c \in core.special_summoning : FreshMarks(c) /\ FreshBares(c)
    BY <1>6 DEF FreshMarks, FreshBares
  <2> QED BY <2>1, <2>2 DEF Hands, Bare
<1>14. Half' BY <1>2, <1>4, <1>10, <1>11, <1>12, <1>13, FlagsHanded DEF Half
<1>15. ~(n > 0) BY <1>2
<1> QED BY <1>3, <1>5, <1>6, <1>7, <1>8, <1>14, <1>15, StepsOver

(* Those that were are counted as one summon. *)
LEMMA SomeSummoned ==
  ASSUME IInv, units # <<>>, Front.kind = "SpSummon", Front.step = 2, GoOn(3, <<>>),
         core' = [core EXCEPT !.ss_tograve = {}, !.state_count = @ + 1],
         cards' = Present(Front.group), seen' = Tried, setting' = setting
  PROVE  IInv'
<1>1. PICK v : v = Now(Front, 3) OBVIOUS
<1>2. /\ v \in UnitType /\ v.kind = "SpSummon" /\ v.step = 3
      /\ v.group = Front.group /\ v.rest = Front.rest
  BY <1>1, Onward
<1>3. Front \in UnitType /\ GoOnAs(Front, 3, <<>>) BY FrontTypes DEF GoOn
<1>4. Continues(v, 0) BY <1>1, <1>3, NoneLeft
<1>5. PICK m \in Nat : m = 1 OBVIOUS
<1>6. /\ Restacked(1, m) /\ units' \in Seq(UnitType) /\ units'[1] = v
      /\ \A i \in 1 .. m : i = 1
  <2>1. Restacked(1, 0 + 1) /\ units' \in Seq(UnitType) /\ units'[0 + 1] = v
    BY <1>4 DEF Continues, New
  <2> QED BY <2>1, <1>5
<1>7. Front.rest = {} /\ Front.group \in SUBSET Monsters BY FrontTypes DEF Sane
<1>8. /\ Sane(v) /\ ~Queued(v) /\ ~Loose(v) /\ ~Opens(v)
      /\ ~Active(v) /\ Counting(v) /\ ~Active(Front) /\ ~Counting(Front)
      /\ Other(v) /\ Other(Front) /\ ~Lays(v) /\ ~Lays(Front) /\ ~Opens(Front)
  BY <1>2, <1>7 DEF Sane, Queued, Loose, Opens, Active, Counting, Other, Lays
<1>9. PICK z \in Nat : z = 0 OBVIOUS
<1>10. Continues(v, z) /\ Follows(Front, v, z) /\ ~(z > 0)
  <2>1. Follows(Front, v, z)
    BY <1>2 DEF Follows, Succeeds, Prompt, Ready, Busy, Live, Outside, Claims
  <2> QED BY <1>4, <1>9, <2>1
<1>11. PICK k \in Nat : k = core.state_count + 1 BY OldTypes
<1>12. PICK G \in SUBSET Monsters : G = core.special_summoning BY SharedSets
<1>13. /\ core' \in CoreType /\ core'.special_summoning = core.special_summoning
       /\ core'.ss_tograve = {} /\ core'.state_count = core.state_count + 1
       /\ core'.summon_count = core.summon_count /\ core'.summon_depth = core.summon_depth
       /\ core'.chain = core.chain /\ core'.reserved = core.reserved
       /\ core'.szone = core.szone /\ core'.pre_set = core.pre_set /\ core'.set = core.set
       /\ core'.used_zones = core.used_zones /\ core'.seq = core.seq
  <2>1. PICK x : x = [core EXCEPT !.ss_tograve = {}] OBVIOUS
  <2>2. /\ x \in CoreType /\ x.special_summoning = core.special_summoning
        /\ x.ss_tograve = {} /\ x.state_count = core.state_count
        /\ x.summon_count = core.summon_count /\ x.summon_depth = core.summon_depth
        /\ x.chain = core.chain /\ x.reserved = core.reserved
        /\ x.szone = core.szone /\ x.pre_set = core.pre_set /\ x.set = core.set
        /\ x.used_zones = core.used_zones /\ x.seq = core.seq
    BY <2>1, OldTypes DEF CoreType
  <2>3. core' = [x EXCEPT !.state_count = k]
    <3>1. core \in CoreType BY OldTypes
    <3> QED BY <1>11, <2>1, <3>1 DEF CoreType
  <2> QED BY <1>11, <2>2, <2>3 DEF CoreType
<1>14. SeenFrame /\ seen'.tries = seen.tries + 1 /\ seen'.successes = seen.successes
  BY TriedOnly
<1>15. /\ CardsFrame
       /\ \A c \in Cards : /\ cards'[c].summoning = cards[c].summoning
                           /\ cards'[c].spsummon_step => cards[c].spsummon_step /\ c \notin Front.group
                           /\ Bare(c)' => Bare(c) /\ c \notin Front.group
  BY <1>7, PresentFrame
<1>16. DataOK /\ Apart /\ Calm
  BY <1>13, <1>14, <1>15 DEF DataOK, Apart, Calm, CardsFrame, SeenFrame
<1>17. /\ One(Active(Front)) = 0 /\ One(Active(v)) = 0
       /\ One(Counting(v)) - One(Counting(Front)) = 1
  <2>1. /\ One(Active(Front)) = 0 /\ One(Active(v)) = 0
        /\ One(Counting(v)) = 1 /\ One(Counting(Front)) = 0
    BY <1>8 DEF One
  <2> QED BY <2>1
<1>18. core'.summon_depth = core.summon_depth - One(Active(Front)) + One(Active(v))
  BY <1>13, <1>17, OldTypes
<1>19. Tallies(1) BY <1>13, <1>14, OldTypes DEF Tallies
<1>20. Front = units[1] /\ \A i \in 1 .. 1 : i = 1 BY FrontTypes
<1>21. \A i \in 1 .. m : ~Queued(units'[i]) /\ ~Loose(units'[i]) /\ ~Opens(units'[i])
  BY <1>6, <1>8
<1>22. m \in 1 .. m /\ m > 0 BY <1>5
<1>23. Owned' BY <1>6, <1>21, <1>22, OwnedOf DEF IInv, Half
<1>24. Opened'
  <2>1. \A i \in 1 .. 1 : ~Opens(units[i]) BY <1>8, <1>20
  <2>2. Opened BY DEF IInv, Half
  <2> QED BY <1>6, <1>13, <1>21, <2>1, <2>2, OpenedOf
<1>25. Mounts(units') BY <1>2, <1>6 DEF Mounts
<1>26. Hands
  <2>1. \A c \in Cards : ~Window(Front, c) /\ ~Grouped(Front, c) /\ ~Moved(Front, c)
    BY DEF Window, Grouped, Moved
  <2>2. \A c \in Cards : /\ Marked(units, 1, c) => c \in Front.group
                         /\ Pending(units, 1, c) => c \in Front.group
    BY <1>20, <2>1 DEF Marked, Pending, Collects
  <2>3. \A c \in core.special_summoning : FreshMarks(c) /\ FreshBares(c)
    BY <1>13 DEF FreshMarks, FreshBares
  <2> QED BY <1>15, <2>1, <2>2, <2>3 DEF Hands
<1>27. Half'
  <2>1. ~Queued(units'[m]) BY <1>21, <1>22
  <2> QED BY <1>6, <1>23, <1>24, <1>25, <1>26, <2>1, FlagsHanded DEF Half
<1> QED BY <1>8, <1>10, <1>13, <1>16, <1>17, <1>18, <1>19, <1>27, StepsOn

LEMMA SpSummonCountedKept ==
  ASSUME IInv, SpSummonCounted
  PROVE  IInv'
<1>1. units # <<>> /\ Front.kind = "SpSummon" /\ Front.step = 2 /\ setting' = setting
  BY DEF SpSummonCounted, At
<1>2. CASE Front.group = {}
  <2>1. /\ Finish(<<>>) /\ core' = [core EXCEPT !.ss_tograve = {}]
        /\ cards' = cards /\ seen' = seen
    BY <1>2 DEF SpSummonCounted
  <2> QED BY <1>1, <1>2, <2>1, NoneSummoned
<1>3. CASE Front.group # {}
  <2>1. /\ core' = [core EXCEPT !.ss_tograve = {}, !.state_count = @ + 1]
        /\ cards' = Present(Front.group) /\ seen' = Tried /\ GoOn(3, <<>>)
    BY Zenon, <1>3 DEF SpSummonCounted, Present
  <2> QED BY <1>1, <2>1, SomeSummoned
<1> QED BY <1>2, <1>3

Queuing(c) == [Unit("Step", 0, c) EXCEPT !.group = {c}]
LEMMA QueuingFields ==
  ASSUME NEW c \in Cards, NEW u, u = Queuing(c)
  PROVE  /\ u \in UnitType /\ u.kind = "Step" /\ u.step = 0 /\ u.target = c
         /\ u.group = {c} /\ u.rest = {}
<1>1. PICK w : w = Unit("Step", 0, c) OBVIOUS
<1>2. w \in UnitType /\ w.kind = "Step" /\ w.step = 0 /\ w.target = c /\ w.rest = {}
  <2>1. "Step" \in Kinds /\ c \in Members BY DEF Kinds, Members
  <2> QED BY <1>1, <2>1, UnitFields
<1>3. PICK G \in SUBSET Members : G = {c} BY DEF Members
<1>4. u = [w EXCEPT !.group = G] BY <1>1, <1>3 DEF Queuing
<1> QED BY <1>2, <1>3, <1>4 DEF UnitType

LEMMA SpSummonStepsKept ==
  ASSUME IInv, SpSummonSteps
  PROVE  IInv'
<1>1. /\ units # <<>> /\ Front.kind = "SpSummon" /\ Front.step = 0
      /\ cards' = cards /\ core' = core /\ setting' = setting /\ seen' = seen
  BY DEF SpSummonSteps, At
<1>2. PICK G \in SUBSET Monsters : G = Front.group BY <1>1, FrontTypes DEF Sane
<1>3. PICK N \in Nat : N = Cardinality(G)
  <2>1. IsFiniteSet(Cards) /\ G \subseteq Cards BY ConstantsAssumption DEF Monsters
  <2> QED BY <2>1, FS_Subset, FS_CardinalityType
<1>4. PICK s \in [1 .. N -> G] :
        /\ \A i, j \in 1 .. N : s[i] = s[j] => i = j
        /\ GoOn(1, [i \in 1 .. N |-> [Unit("Step", 0, s[i]) EXCEPT !.group = {s[i]}]])
  <2>1. PICK t \in {r \in [1 .. N -> G] : \A i, j \in DOMAIN r : r[i] = r[j] => i = j} :
          GoOn(1, [i \in DOMAIN t |-> [Unit("Step", 0, t[i]) EXCEPT !.group = {t[i]}]])
    BY <1>2, <1>3 DEF SpSummonSteps
  <2>2. DOMAIN t = 1 .. N BY <2>1
  <2> QED BY <2>1, <2>2
<1>5. PICK b : b = [i \in 1 .. N |-> Queuing(s[i])] OBVIOUS
<1>6. \A i \in 1 .. N : /\ b[i] \in UnitType /\ b[i].kind = "Step" /\ b[i].step = 0
                        /\ b[i].target = s[i] /\ b[i].group = {s[i]} /\ b[i].rest = {}
                        /\ s[i] \in Monsters /\ s[i] \in Cards
  <2> TAKE i \in 1 .. N
  <2>1. s[i] \in G /\ s[i] \in Monsters /\ s[i] \in Cards BY DEF Monsters
  <2>2. b[i] = Queuing(s[i]) BY <1>5
  <2>3. PICK u : u = Queuing(s[i]) OBVIOUS
  <2>4. /\ u \in UnitType /\ u.kind = "Step" /\ u.step = 0 /\ u.target = s[i]
        /\ u.group = {s[i]} /\ u.rest = {}
    BY <2>1, <2>3, QueuingFields
  <2> QED BY <2>1, <2>2, <2>3, <2>4
<1>7. b \in Seq(UnitType) /\ Len(b) = N
  <2>1. b \in [1 .. N -> UnitType] BY <1>5, <1>6
  <2> QED BY <2>1
<1>8. GoOnAs(Front, 1, b) BY <1>4, <1>5 DEF GoOn, Queuing
<1>9. PICK v : v = Now(Front, 1) OBVIOUS
<1>10. /\ v \in UnitType /\ v.kind = "SpSummon" /\ v.step = 1
       /\ v.group = G /\ v.rest = Front.rest
  BY <1>1, <1>2, <1>9, Onward
<1>11. PICK n \in Nat : n = N + 1 OBVIOUS
<1>12. /\ units' \in Seq(UnitType) /\ Restacked(1, n) /\ units'[n] = v
       /\ \A i \in 1 .. N : units'[i] = b[i]
       /\ \A i \in 1 .. n : i \in 1 .. N \/ i = n
       /\ n > 0 /\ n \in 1 .. n /\ \A i \in 1 .. N : i < n
  <2>1. /\ units' \in Seq(UnitType) /\ Restacked(1, Len(b) + 1)
        /\ units'[Len(b) + 1] = v /\ \A i \in 1 .. Len(b) : units'[i] = b[i]
    BY <1>1, <1>7, <1>8, <1>9, OldTypes, FrontTypes, GoneOn
  <2> QED BY <2>1, <1>7, <1>11
<1>13. /\ Sane(v) /\ Light(v) /\ Other(v) /\ ~Live(v) /\ ~Outside(v) /\ ~Lays(v)
       /\ ~Queued(v) /\ ~Loose(v) /\ ~Opens(v)
  <2>1. Front.rest = {} /\ G \subseteq Monsters BY <1>1, FrontTypes DEF Sane
  <2> QED
    BY <1>10, <2>1 DEF Sane, Light, Active, Busy, Counting, Prompt, Other, Live, Outside, Lays,
                       Queued, Loose, Opens
<1>14. \A i \in 1 .. N :
         /\ Sane(b[i]) /\ Light(b[i]) /\ Other(b[i]) /\ ~Live(b[i]) /\ ~Outside(b[i])
         /\ ~Lays(b[i]) /\ Queued(b[i]) /\ ~Loose(b[i]) /\ ~Opens(b[i])
  BY <1>6 DEF Sane, Light, Active, Busy, Counting, Prompt, Other, Live, Outside, Lays,
              Queued, Loose, Opens
<1>15. \A i \in 1 .. n :
         /\ Sane(units'[i]) /\ Light(units'[i]) /\ Other(units'[i]) /\ ~Live(units'[i])
         /\ ~Outside(units'[i]) /\ ~Lays(units'[i])
         /\ ~Loose(units'[i]) /\ ~Opens(units'[i])
  BY <1>12, <1>13, <1>14
<1>16. Lightly(n) BY <1>1, <1>12, <1>15 DEF Lightly
<1>17. /\ DataOK /\ Apart /\ Levelled /\ Calm /\ Tallies(0)
       /\ core'.summon_count = core.summon_count /\ core'.summon_depth = core.summon_depth
  BY <1>1, QuietFacts DEF Quiet
<1>18. Front = units[1] /\ \A i \in 1 .. 1 : i = 1 BY <1>1, FrontTypes
<1>19. \A i \in 1 .. n : i \in 1 .. Len(units') BY <1>12, SplitsFront
<1>20. ASSUME NEW i \in 1 .. N
       PROVE  Own(units', i)
  <2>1. units'[i].target = s[i] /\ s[i] \in units'[n].group BY <1>6, <1>10, <1>12
  <2>2. \A j \in 1 .. Len(units') : i < j /\ j < n => j \in 1 .. N BY <1>11
  <2>3. OwnerOf(units', i, n) BY <1>10, <1>12, <1>14, <2>2 DEF OwnerOf
  <2>4. \A j \in 1 .. Len(units') : i < j /\ j < n => units'[j].target # units'[i].target
    <3> SUFFICES ASSUME NEW j \in 1 .. N, i < j
                 PROVE  units'[j].target # units'[i].target
      BY <2>2
    <3>1. units'[j].target = s[j] /\ units'[i].target = s[i] /\ i # j BY <1>6, <1>12
    <3> QED BY <1>4, <3>1
  <2> QED BY <1>12, <1>19, <2>1, <2>3, <2>4 DEF Own
<1>21. Owned' BY <1>12, <1>13, <1>20, OwnedOf DEF IInv, Half
<1>22. Opened'
  <2>1. \A i \in 1 .. 1 : ~Opens(units[i]) BY <1>1, <1>18 DEF Opens
  <2>2. Opened /\ core'.special_summoning = core.special_summoning
    BY <1>1 DEF IInv, Half
  <2>3. core'.ss_tograve # {} => \E i \in 1 .. Len(units') : Sends(units'[i])
    <3>1. ~Sends(units[1]) BY <1>1, <1>18 DEF Sends, Opens
    <3> QED BY <1>1, <1>12, <2>2, <3>1, SendsOf
  <2> QED BY <1>12, <1>15, <2>1, <2>2, <2>3, OpenedOf
<1>23. Mounts(units')
  <2>1. units'[1].kind # "ToField"
    <3>1. 1 \in 1 .. n BY <1>12
    <3> QED BY <1>6, <1>10, <1>12, <3>1
  <2> QED BY <2>1 DEF Mounts
<1>24. Hands
  <2>1. \A c \in Cards : ~Window(Front, c) /\ ~Marked(units, 1, c) /\ ~Pending(units, 1, c)
    BY <1>1, <1>18 DEF Window, Marked, Pending, Grouped, Moved, Collects
  <2>2. \A c \in core.special_summoning : FreshMarks(c) /\ FreshBares(c)
    BY <1>1 DEF FreshMarks, FreshBares
  <2> QED BY <1>1, <2>1, <2>2 DEF Hands, Bare
<1>25. Half' BY <1>1, <1>12, <1>13, <1>21, <1>22, <1>23, <1>24, FlagsHanded DEF Half
<1>26. /\ Other(Front) /\ ~Lays(Front) /\ ~Active(Front)
       /\ ~Counting(Front) /\ Front.kind \notin {"ToGrave", "Solve"}
  BY <1>1 DEF Other, Lays, Active, Counting
<1> QED BY <1>12, <1>15, <1>16, <1>17, <1>25, <1>26, StepsBegin

(* A card whose SpSummonStep is over is one that its SpSummon collects, or
   one of core.special_summoning. *)
LEMMA StepOverKept ==
  ASSUME IInv, StepOver
  PROVE  IInv'
<1>1. /\ units # <<>> /\ Front.kind = "Step" /\ Front.step = 3 /\ Finish(<<>>)
      /\ cards' = [cards EXCEPT ![Front.target].spsummon_step = TRUE]
      /\ core' = core /\ setting' = setting /\ seen' = seen
  BY DEF StepOver, At
<1>2. PICK t \in Monsters : t = Front.target BY <1>1, FrontTypes DEF Sane
<1>3. t \in Cards BY DEF Monsters
<1>4. PICK n \in Nat : n = Len(<<>>) BY NoCalls
<1>5. n = 0 /\ Ends(n) BY <1>1, <1>4, NoCalls, CalledLast
<1>6. Restacked(1, n) /\ units' \in Seq(UnitType) BY <1>5 DEF Ends, New
<1>7. /\ Other(Front) /\ ~Lays(Front) /\ Leaves(Front, n) /\ ~Opens(Front) /\ ~Sends(Front)
      /\ ~Active(Front) /\ ~Counting(Front)
  BY <1>1, <1>5 DEF Other, Lays, Leaves, Opens, Sends, Active, Counting
<1>8. /\ CardsFrame
      /\ \A c \in Cards : /\ cards'[c].summoning = cards[c].summoning
                          /\ cards'[c].spsummon_step => cards[c].spsummon_step \/ c = t
                          /\ Bare(c)' => Bare(c)
  BY <1>1, <1>2, <1>3, MarkFrame
<1>9. CoreFrame /\ core'.summon_depth = core.summon_depth /\ core'.state_count = core.state_count
  BY <1>1, CoreSame
<1>10. SeenFrame /\ seen'.tries = seen.tries /\ seen'.successes = seen.successes
  BY <1>1, SeenSame
<1>11. Framed /\ Tallies(0) BY <1>1, <1>8, <1>9, <1>10, TalliesSame DEF Framed
<1>12. DataOK /\ Apart /\ Levelled /\ Calm /\ core'.summon_count = core.summon_count
  BY <1>11, Framing
<1>13. One(Active(Front)) = 0 /\ 0 - One(Counting(Front)) = 0
  <2>1. One(Active(Front)) = 0 /\ One(Counting(Front)) = 0 BY <1>7 DEF One
  <2> QED BY <2>1
<1>14. core'.summon_depth = core.summon_depth - One(Active(Front))
  BY <1>9, <1>13, OldTypes
<1>15. Front = units[1] /\ Len(units) \in Nat /\ 1 \in 1 .. Len(units) /\ \A i \in 1 .. n : FALSE
  BY <1>1, <1>5, FrontTypes, OldTypes
<1>16. Owned' BY <1>5, <1>6, <1>15, OwnedOf DEF IInv, Half
<1>17. Opened'
  <2>1. \A i \in 1 .. 1 : ~Opens(units[i]) BY <1>7, <1>15
  <2>2. Opened BY DEF IInv, Half
  <2>3. core'.ss_tograve # {} => \E i \in 1 .. Len(units') : Sends(units'[i])
    BY <1>1, <1>6, <1>7, <1>15, <2>2, SendsOf
  <2> QED BY <1>1, <1>6, <1>15, <2>1, <2>2, <2>3, OpenedOf
<1>18. Mounts(units')
  <2> SUFFICES ASSUME units' # <<>>, units'[1].kind = "ToField" PROVE FALSE
    BY DEF Mounts
  <2>1. Len(units') \in Nat /\ 1 \in 1 .. Len(units') BY <1>6
  <2>2. PICK h \in 2 .. Len(units) : units'[1] = units[h]
    BY <1>6, <1>15, <2>1, SplitsFront
  <2> QED BY <2>2 DEF IInv, Control, Prompts, Prompt
<1>19. t \in core'.special_summoning \/ \E k \in 1 .. Len(units') : Collects(units', k, t)
  <2>1. CASE Front.group = {} BY <1>1, <1>2, <1>15, <2>1 DEF IInv, Half, Opened, Loose
  <2>2. CASE Front.group # {}
    <3>1. PICK k \in 1 .. Len(units) :
            /\ OwnerOf(units, 1, k) /\ units[1].target \in units[k].group
            /\ \A j \in 1 .. Len(units) : 1 < j /\ j < k => units[j].target # units[1].target
      BY <1>1, <1>15, <2>2 DEF IInv, Half, Owned, Own, Queued
    <3>2. 1 < k /\ units[k].kind = "SpSummon" /\ units[k].step = 1 BY <3>1 DEF OwnerOf
    <3>3. k \in 1 + 1 .. Len(units) /\ k \in 2 .. Len(units) BY <3>2, <1>15
    <3>4. k - 1 + n \in 1 .. Len(units') /\ units'[k - 1 + n] = units[k]
      BY <1>6, <3>3, SplitsFront
    <3>5. ~QueuedFor(units', k - 1 + n, t)
      <4> SUFFICES ASSUME NEW i \in 1 .. Len(units'), Queued(units'[i]), units'[i].target = t,
                          OwnerOf(units', i, k - 1 + n)
                   PROVE  FALSE
        BY DEF QueuedFor
      <4>1. PICK p \in Nat : p = 1 OBVIOUS
      <4>2. Restacked(p, n) /\ k \in p + 1 .. Len(units) /\ OwnerOf(units', i, k - p + n)
            /\ (n > 0 => ~Queued(units'[n]))
        BY <1>5, <1>6, <3>3, <4>1
      <4>3. /\ i - n + p \in p + 1 .. Len(units) /\ units'[i] = units[i - n + p]
            /\ OwnerOf(units, i - n + p, k)
        BY <4>2, OwnersKept
      <4>4. PICK h \in 1 + 1 .. Len(units) : h = i - n + p BY <4>1, <4>3
      <4>5. 1 < h /\ h < k /\ h \in 1 .. Len(units) /\ units[h].target = t
        BY <1>15, <4>3, <4>4 DEF OwnerOf
      <4> QED BY <1>2, <1>15, <3>1, <4>5
    <3>6. Collects(units', k - 1 + n, t)
      BY <1>2, <1>15, <3>1, <3>2, <3>4, <3>5 DEF Collects
    <3> QED BY <3>4, <3>6
  <2> QED BY <2>1, <2>2
<1>20. Hands
  <2>1. \A c \in Cards : /\ ~Window(Front, c) /\ ~Marked(units, 1, c)
                         /\ Pending(units, 1, c) => c = t
    BY <1>1, <1>2, <1>15 DEF Window, Marked, Pending, Grouped, Moved, Collects
  <2>2. \A c \in core.special_summoning : FreshMarks(c) /\ FreshBares(c)
    BY <1>1 DEF FreshMarks, FreshBares
  <2>3. FreshMarks(t) /\ FreshBares(t)
    BY <1>19 DEF FreshMarks, FreshBares, Marked, Pending
  <2> QED BY <1>8, <2>1, <2>2, <2>3 DEF Hands
<1>21. Half' BY <1>1, <1>5, <1>6, <1>16, <1>17, <1>18, <1>20, FlagsHanded DEF Half
<1>22. ~(n > 0) BY <1>5
<1> QED BY <1>5, <1>7, <1>11, <1>12, <1>13, <1>14, <1>21, <1>22, StepsOver

(* A SpSummonStep goes on, or leaves the group of its SpSummon: the units
   are the same but for their places, and what they have still to do. *)
Alike(w, u) ==
  /\ w.kind = u.kind /\ w.target = u.target
  /\ Queued(w) <=> Queued(u)
  /\ u.kind = "SpSummon" => w.step = u.step
Aligned(lo, d) ==
  /\ lo \in Nat \ {0} /\ d \in Int /\ lo + d >= 1
  /\ Len(units) \in Nat /\ Len(units') = Len(units) + d
  /\ \A k \in lo .. Len(units) : k + d \in 1 .. Len(units') /\ Alike(units'[k + d], units[k])
  /\ \A i \in 1 .. lo + d - 1 : ~Queued(units'[i])

LEMMA AlignedOwners ==
  ASSUME NEW lo, NEW d, Aligned(lo, d)
  PROVE  /\ \A i, k \in lo .. Len(units) :
              OwnerOf(units, i, k) => OwnerOf(units', i + d, k + d)
         /\ \A k \in lo .. Len(units), c \in Cards :
              QueuedFor(units', k + d, c) => QueuedFor(units, k, c)
<1>0. /\ lo \in Nat \ {0} /\ d \in Int /\ lo + d >= 1
      /\ Len(units) \in Nat /\ Len(units') = Len(units) + d
      /\ \A k \in lo .. Len(units) : k + d \in 1 .. Len(units') /\ Alike(units'[k + d], units[k])
      /\ \A i \in 1 .. lo + d - 1 : ~Queued(units'[i])
  BY DEF Aligned
<1>1. \A j \in 1 .. Len(units') :
        j \in 1 .. lo + d - 1 \/ (j - d \in lo .. Len(units) /\ (j - d) + d = j)
  BY <1>0
<1>2. ASSUME NEW i \in lo .. Len(units), NEW k \in lo .. Len(units), OwnerOf(units, i, k)
      PROVE  OwnerOf(units', i + d, k + d)
  <2>1. i < k /\ units[k].kind = "SpSummon" /\ units[k].step = 1
        /\ \A j \in 1 .. Len(units) : i < j /\ j < k => Queued(units[j])
    BY <1>2 DEF OwnerOf
  <2>2. /\ i + d < k + d /\ units'[k + d].kind = "SpSummon" /\ units'[k + d].step = 1
    BY <1>0, <2>1 DEF Alike
  <2>3. ASSUME NEW j \in 1 .. Len(units'), i + d < j, j < k + d
        PROVE  Queued(units'[j])
    <3>1. PICK h \in lo .. Len(units) : h + d = j BY <1>0, <1>1, <2>3
    <3>2. i < h /\ h < k /\ h \in 1 .. Len(units) BY <1>0, <2>3, <3>1
    <3>3. Queued(units[h]) BY <2>1, <3>2
    <3> QED BY <1>0, <3>1, <3>3 DEF Alike
  <2> QED BY <2>2, <2>3 DEF OwnerOf
<1>3. ASSUME NEW k \in lo .. Len(units), NEW c \in Cards, QueuedFor(units', k + d, c)
      PROVE  QueuedFor(units, k, c)
  <2>1. PICK i \in 1 .. Len(units') :
          Queued(units'[i]) /\ units'[i].target = c /\ OwnerOf(units', i, k + d)
    BY <1>3 DEF QueuedFor
  <2>2. PICK h \in lo .. Len(units) : h + d = i BY <1>0, <1>1, <2>1
  <2>3. Queued(units[h]) /\ units[h].target = c /\ h \in 1 .. Len(units)
    <3>1. h \in 1 .. Len(units) BY <1>0
    <3>2. Alike(units'[i], units[h]) BY <1>0, <2>2
    <3> QED BY <2>1, <3>1, <3>2 DEF Alike
  <2>4. /\ i < k + d /\ units'[k + d].kind = "SpSummon" /\ units'[k + d].step = 1
        /\ \A j \in 1 .. Len(units') : i < j /\ j < k + d => Queued(units'[j])
    BY <2>1 DEF OwnerOf
  <2>5. h < k /\ units[k].kind = "SpSummon" /\ units[k].step = 1
    BY <1>0, <2>2, <2>4 DEF Alike
  <2>6. ASSUME NEW j \in 1 .. Len(units), h < j, j < k
        PROVE  Queued(units[j])
    <3>1. j \in lo .. Len(units) /\ i < j + d /\ j + d < k + d BY <1>0, <2>2, <2>6
    <3>2. Queued(units'[j + d]) BY <1>0, <2>4, <3>1
    <3> QED BY <1>0, <3>1, <3>2 DEF Alike
  <2> QED BY <2>3, <2>5, <2>6 DEF QueuedFor, OwnerOf
<1> QED BY <1>2, <1>3

LEMMA AlignedOwned ==
  ASSUME Owned, NEW lo, NEW d, Aligned(lo, d),
         \A i, k \in lo .. Len(units) :
           Queued(units[i]) /\ OwnerOf(units, i, k) /\ units[i].target \in units[k].group =>
             units[i].target \in units'[k + d].group
  PROVE  Owned'
<1>0. /\ lo \in Nat \ {0} /\ d \in Int /\ lo + d >= 1
      /\ Len(units) \in Nat /\ Len(units') = Len(units) + d
      /\ \A k \in lo .. Len(units) : k + d \in 1 .. Len(units') /\ Alike(units'[k + d], units[k])
      /\ \A i \in 1 .. lo + d - 1 : ~Queued(units'[i])
  BY DEF Aligned
<1>1. \A j \in 1 .. Len(units') :
        j \in 1 .. lo + d - 1 \/ (j - d \in lo .. Len(units) /\ (j - d) + d = j)
  BY <1>0
<1>2. ASSUME NEW i \in 1 .. Len(units'), Queued(units'[i])
      PROVE  Own(units', i)
  <2>1. PICK h \in lo .. Len(units) : h + d = i BY <1>0, <1>1, <1>2
  <2>2. Queued(units[h]) /\ h \in 1 .. Len(units) /\ units'[i].target = units[h].target
    <3>1. h \in 1 .. Len(units) BY <1>0
    <3>2. Alike(units'[i], units[h]) BY <1>0, <2>1
    <3> QED BY <1>2, <3>1, <3>2 DEF Alike
  <2>3. PICK k \in 1 .. Len(units) :
          /\ OwnerOf(units, h, k) /\ units[h].target \in units[k].group
          /\ \A j \in 1 .. Len(units) : h < j /\ j < k => units[j].target # units[h].target
    BY <2>2 DEF Owned, Own
  <2>4. k \in lo .. Len(units) /\ h < k BY <1>0, <2>3 DEF OwnerOf
  <2>5. OwnerOf(units', i, k + d) BY <2>1, <2>3, <2>4, AlignedOwners
  <2>6. k + d \in 1 .. Len(units') /\ units'[i].target \in units'[k + d].group
    BY <1>0, <2>2, <2>3, <2>4
  <2>7. ASSUME NEW j \in 1 .. Len(units'), i < j, j < k + d
        PROVE  units'[j].target # units'[i].target
    <3>0. ~(j \in 1 .. lo + d - 1) BY <1>0, <2>1, <2>7
    <3>1. PICK m \in lo .. Len(units) : m + d = j BY <1>1, <2>7, <3>0
    <3>2. h < m /\ m < k /\ m \in 1 .. Len(units) BY <1>0, <2>1, <2>7, <3>1
    <3>3. units[m].target # units[h].target BY <2>3, <3>2
    <3> QED BY <1>0, <2>2, <3>1, <3>3 DEF Alike
  <2> QED BY <2>5, <2>6, <2>7 DEF Own
<1> QED BY <1>2 DEF Owned

(* Whoever saw to a card still does. *)
Minds(k, m) ==
  \A c \in Cards :
    /\ Window(units[k], c) => Window(units'[m], c)
    /\ Grouped(units[k], c) => Grouped(units'[m], c)
    /\ Moved(units[k], c) => Moved(units'[m], c)
    /\ Collects(units, k, c) =>
         units'[m].kind = "SpSummon" /\ units'[m].step \in 1 .. 2 /\ c \in units'[m].group
LEMMA AlignedFlags ==
  ASSUME Half, NEW lo, NEW d, Aligned(lo, d), \A k \in lo .. Len(units) : Minds(k, k + d),
         \A k \in 1 .. lo - 1, c \in Cards :
           ~Window(units[k], c) /\ ~Marked(units, k, c) /\ ~Pending(units, k, c),
         core.special_summoning \subseteq core'.special_summoning,
         \A c \in Cards : /\ cards'[c].summoning => cards[c].summoning
                          /\ cards'[c].spsummon_step => cards[c].spsummon_step
                          /\ Bare(c)' => Bare(c) \/ FreshBares(c),
         units' \in Seq(UnitType), Mounts(units')
  PROVE  Asked' /\ Stepped' /\ Faceup'
<1>0. /\ lo \in Nat \ {0} /\ d \in Int
      /\ Len(units) \in Nat /\ Len(units') = Len(units) + d
      /\ \A k \in lo .. Len(units) : k + d \in 1 .. Len(units')
  BY DEF Aligned
<1>1. \A k \in 1 .. Len(units) : k \in 1 .. lo - 1 \/ k \in lo .. Len(units) BY <1>0
<1>2. \A k \in lo .. Len(units), c \in Cards :
        /\ Window(units[k], c) => Window(units'[k + d], c)
        /\ Marked(units, k, c) => Marked(units', k + d, c)
        /\ Pending(units, k, c) => Pending(units', k + d, c)
  <2> TAKE k \in lo .. Len(units), c \in Cards
  <2>1. QueuedFor(units', k + d, c) => QueuedFor(units, k, c) BY AlignedOwners
  <2>2. Minds(k, k + d) OBVIOUS
  <2>3. Collects(units, k, c) => Collects(units', k + d, c)
    BY <2>1, <2>2 DEF Minds, Collects
  <2> QED BY <2>2, <2>3 DEF Minds, Marked, Pending
<1>3. ASSUME NEW c \in Cards, cards'[c].summoning
      PROVE  \E k \in 1 .. Len(units') : Window(units'[k], c)
  <2>1. PICK k \in 1 .. Len(units) : Window(units[k], c) BY <1>3 DEF Half, Asked
  <2> QED BY <1>0, <1>1, <1>2, <2>1
<1>4. ASSUME NEW c \in Cards, cards'[c].spsummon_step, c \notin core'.special_summoning
      PROVE  \E k \in 1 .. Len(units') : Marked(units', k, c)
  <2>1. PICK k \in 1 .. Len(units) : Marked(units, k, c) BY <1>4 DEF Half, Stepped
  <2> QED BY <1>0, <1>1, <1>2, <2>1
<1>5. ASSUME NEW c \in Cards, Bare(c)', c \notin core'.special_summoning
      PROVE  \E k \in 1 .. Len(units') : Pending(units', k, c)
  <2>1. CASE FreshBares(c) BY <1>5, <2>1 DEF FreshBares
  <2>2. CASE Bare(c)
    <3>1. PICK k \in 1 .. Len(units) : Pending(units, k, c)
      BY <1>5, <2>2 DEF Half, Faceup
    <3> QED BY <1>0, <1>1, <1>2, <3>1
  <2> QED BY <1>5, <2>1, <2>2
<1>6. Asked' BY <1>3 DEF Asked
<1>7. Stepped' BY <1>4 DEF Stepped
<1>8. \A c \in Cards : Bare(c)' =>
        c \in core'.special_summoning \/ \E k \in 1 .. Len(units') : Pending(units', k, c)
  BY <1>5
<1>9. units' # <<>> => Front' = units'[1] BY DEF Front
<1>10. Faceup'
  <2>1. units' # <<>> /\ Front'.kind = "ToField" /\ Front'.target \notin Spells
          /\ ~Front'.facedown => Len(units') > 1 /\ Mover(Front', units'[2])
    BY <1>9 DEF Mounts
  <2>2. \A c \in Cards : Bare(c)' =>
          c \in core'.special_summoning \/ \E k \in 1 .. Len(units') : Pending(units, k, c)'
    BY <1>8 DEF Pending, Collects, Moved, QueuedFor, OwnerOf, Queued
  <2> QED BY <2>1, <2>2 DEF Faceup, Mover
<1> QED BY <1>6, <1>7, <1>10

(* A SpSummonStep that moves nothing yet goes on. *)
LEMMA StepProceeds ==
  ASSUME IInv, units # <<>>, Front.kind = "Step", Front.step \in 0 .. 1,
         NEW s \in Nat, NEW v, v = Now(Front, s), NEW n, Continues(v, n),
         DataOK, Apart, Calm, Tallies(0), core'.summon_count = core.summon_count,
         core'.summon_depth = core.summon_depth,
         core.special_summoning \subseteq core'.special_summoning,
         core'.special_summoning # {} => core.special_summoning # {} \/ Loose(Front),
         Loose(v) /\ s = 3 => v.target \in core'.special_summoning,
         \A c \in Cards : /\ cards'[c].summoning => cards[c].summoning
                          /\ cards'[c].spsummon_step => cards[c].spsummon_step
                          /\ Bare(c)' => Bare(c) \/ (s = 3 /\ c = Front.target),
         n > 0 => ~Lays(units'[1]), Mounts(units')
  PROVE  IInv'
<1>1. /\ v \in UnitType /\ v.kind = "Step" /\ v.step = s /\ v.target = Front.target
      /\ v.group = Front.group /\ v.rest = Front.rest
  BY Onward
<1>2. /\ Front = units[1] /\ Len(units) \in Nat /\ 1 \in 1 .. Len(units) /\ Sane(Front)
  BY FrontTypes, OldTypes
<1>3. /\ Restacked(1, n + 1) /\ n \in Nat /\ units' \in Seq(UnitType) /\ units'[n + 1] = v
      /\ \A i \in 1 .. n : Brief(units'[i])
  BY DEF Continues, New
<1>4. PICK m \in Nat : m = n + 1 BY <1>3
<1>5. /\ m > 0 /\ Restacked(1, m) /\ units'[m] = v /\ m = 1 + n
      /\ \A i \in 1 .. m : i = m \/ i \in 1 .. n
      /\ \A k \in 2 .. Len(units) : k - 1 + m = k + n
      /\ \A k \in 1 .. Len(units) : k = 1 \/ k \in 2 .. Len(units)
      /\ m \in 1 .. m /\ 1 + 1 = 2
  BY <1>2, <1>3, <1>4
<1>6. /\ m \in 1 .. Len(units')
      /\ \A k \in 2 .. Len(units) : k + n \in 1 .. Len(units') /\ units'[k + n] = units[k]
  <2>1. Restacked(1, m) BY <1>5
  <2>2. /\ \A k \in 2 .. Len(units) :
             k - 1 + m \in 1 .. Len(units') /\ units'[k - 1 + m] = units[k]
        /\ \A i \in 1 .. m : i \in 1 .. Len(units')
    BY <2>1, SplitsFront
  <2>3. \A k \in 2 .. Len(units) : k + n \in 1 .. Len(units') /\ units'[k + n] = units[k]
    <3> TAKE k \in 2 .. Len(units)
    <3>1. k - 1 + m = k + n BY <1>5
    <3> QED BY <2>2, <3>1
  <2> QED BY <1>5, <2>2, <2>3
<1>7. \A i \in 1 .. n : ~Queued(units'[i]) /\ ~Loose(units'[i]) /\ ~Opens(units'[i])
  BY <1>3 DEF Brief, Queued, Loose, Opens
<1>8. /\ (Queued(v) <=> Queued(Front)) /\ (Loose(v) <=> Loose(Front))
      /\ ~Opens(v) /\ ~Opens(Front)
  BY <1>1 DEF Queued, Loose, Opens
<1>9. Aligned(1, n)
  <2>1. Alike(units'[1 + n], units[1]) BY <1>1, <1>2, <1>5, <1>8 DEF Alike
  <2>2. \A k \in 2 .. Len(units) : Alike(units'[k + n], units[k]) BY <1>6 DEF Alike
  <2>3. \A k \in 1 .. Len(units) : k + n \in 1 .. Len(units') /\ Alike(units'[k + n], units[k])
    BY <1>5, <1>6, <2>1, <2>2
  <2>4. /\ Len(units') = Len(units) + n /\ n \in Int /\ 1 + n >= 1
        /\ \A i \in 1 .. 1 + n - 1 : i \in 1 .. n
    BY <1>2, <1>3 DEF Restacked
  <2> QED BY <1>2, <1>7, <2>3, <2>4 DEF Aligned
<1>10. PICK lo \in Nat : lo = 1 OBVIOUS
<1>11. \A k \in 1 .. Len(units) : units'[k + n].group = units[k].group
  BY <1>1, <1>2, <1>5, <1>6
<1>12. Owned'
  <2>1. \A i, k \in lo .. Len(units) :
          Queued(units[i]) /\ OwnerOf(units, i, k) /\ units[i].target \in units[k].group =>
            units[i].target \in units'[k + n].group
    BY <1>10, <1>11
  <2>2. Aligned(lo, n) /\ Owned BY <1>9, <1>10 DEF IInv, Half
  <2> QED BY <2>1, <2>2, AlignedOwned
<1>13. Opened BY DEF IInv, Half
<1>14. Loose(Front) => OpensBelow(1)
  <2> SUFFICES ASSUME Loose(Front) PROVE OpensBelow(1) OBVIOUS
  <2>1. PICK k \in 1 .. Len(units) : 1 < k /\ Opens(units[k]) BY <1>2, <1>13 DEF Opened
  <2>2. k \in 1 + 1 .. Len(units) BY <1>2, <2>1
  <2> QED BY <2>1, <2>2 DEF OpensBelow
<1>15. \E i \in 1 .. Len(units') : Sends(units'[i])
  <2>1. \E k \in 2 .. Len(units) : Sends(units[k])
    <3>1. CASE Loose(Front) BY <1>5, <1>14, <3>1 DEF OpensBelow, Sends
    <3>2. CASE Queued(Front)
      <4>1. PICK k \in 1 .. Len(units) : OwnerOf(units, 1, k)
        BY <1>2, <3>2 DEF IInv, Half, Owned, Own
      <4>2. k \in 2 .. Len(units) /\ units[k].kind = "SpSummon" /\ units[k].step = 1
        BY <1>2, <4>1 DEF OwnerOf
      <4> QED BY <4>2 DEF Sends
    <3> QED BY <3>1, <3>2 DEF Loose, Queued
  <2> QED BY <1>6, <2>1
<1>16. Opened'
  <2>1. \A i \in 1 .. 1 : ~Opens(units[i]) BY <1>2, <1>8
  <2>2. \A i \in 1 .. m : ~Opens(units'[i]) BY <1>5, <1>7, <1>8
  <2>3. \A i \in 1 .. m : Loose(units'[i]) =>
          /\ OpensBelow(1)
          /\ units'[i].step = 3 => units'[i].target \in core'.special_summoning
    BY <1>1, <1>5, <1>7, <1>8, <1>14
  <2>4. core'.special_summoning # {} => core.special_summoning # {} \/ OpensBelow(1)
    BY <1>14
  <2> QED BY <1>5, <1>13, <1>15, <2>1, <2>2, <2>3, <2>4, OpenedOf
<1>17. Asked' /\ Stepped' /\ Faceup'
  <2>1. \A k \in lo .. Len(units) : Minds(k, k + n)
    <3>1. Minds(1, 1 + n) BY <1>2 DEF Minds, Window, Grouped, Moved, Collects
    <3>2. \A k \in 2 .. Len(units) : Minds(k, k + n) BY <1>6 DEF Minds, Collects
    <3> QED BY <1>5, <1>10, <3>1, <3>2
  <2>2. s = 3 => FreshBares(Front.target)
    BY <1>1, <1>5, <1>6 DEF FreshBares, Pending, Moved
  <2>3. \A k \in 1 .. lo - 1, c \in Cards :
          ~Window(units[k], c) /\ ~Marked(units, k, c) /\ ~Pending(units, k, c)
    BY <1>10
  <2>4. Aligned(lo, n) /\ Half BY <1>9, <1>10 DEF IInv
  <2>5. \A c \in Cards : Bare(c)' => Bare(c) \/ FreshBares(c) BY <2>2
  <2> QED BY <1>3, <2>1, <2>3, <2>4, <2>5, AlignedFlags
<1>18. Half' BY <1>12, <1>16, <1>17 DEF Half
<1>19. /\ Sane(v) /\ Other(Front) /\ Other(v) /\ ~Lays(Front) /\ ~Lays(v)
       /\ ~Active(Front) /\ ~Active(v) /\ ~Counting(Front) /\ ~Counting(v)
  <2>1. Sane(v) BY <1>1, <1>2 DEF Sane
  <2> QED BY <1>1, <2>1 DEF Other, Lays, Active, Counting
<1>20. Follows(Front, v, n)
  BY <1>1 DEF Follows, Succeeds, Prompt, Ready, Busy, Live, Outside, Claims
<1>21. One(Active(Front)) = 0 /\ One(Active(v)) = 0 /\ One(Counting(v)) - One(Counting(Front)) = 0
  BY <1>19 DEF One
<1>22. core'.summon_depth = core.summon_depth - One(Active(Front)) + One(Active(v))
  BY <1>21, OldTypes
<1>23. Tallies(One(Counting(v)) - One(Counting(Front))) BY <1>21
<1> QED BY <1>18, <1>19, <1>20, <1>22, <1>23, StepsOn

LEMMA StepCheckedKept ==
  ASSUME IInv, StepChecked
  PROVE  IInv'
<1>1. /\ units # <<>> /\ Front.kind = "Step" /\ Front.step = 0
      /\ cards' = cards /\ setting' = setting /\ seen' = seen
      /\ (GoOn(1, Interrupt) \/ GoOn(5, <<>>))
      /\ (core' = core \/ core' = [core EXCEPT !.ss_tograve = @ \cup {Front.target}])
  BY DEF StepChecked, At
<1>2. PICK t \in Monsters : t = Front.target BY <1>1, FrontTypes DEF Sane
<1>3. PICK s, b : /\ s \in Nat /\ s # 3 /\ Calls(b) /\ GoOnAs(Front, s, b)
  <2>1. GoOnAs(Front, 1, Interrupt) \/ GoOnAs(Front, 5, <<>>) BY <1>1 DEF GoOn
  <2>2. Calls(Interrupt) /\ Calls(<<>>) /\ 1 \in Nat /\ 5 \in Nat /\ 1 # 3 /\ 5 # 3
    BY Idling
  <2> QED BY <2>1, <2>2
<1>4. PICK v : v = Now(Front, s) OBVIOUS
<1>5. PICK n : n = Len(b) OBVIOUS
<1>6. /\ Continues(v, n) /\ n \in Nat
      /\ n > 0 => units'[1].kind # "ToField"
  <2>1. /\ Continues(Now(Front, s), Len(b)) /\ Len(b) \in Nat
        /\ Len(b) > 0 => units'[1].kind # "ToField"
    BY <1>1, <1>3, FrontTypes, Called
  <2> QED BY <2>1, <1>4, <1>5
<1>7. /\ DataOK /\ Apart /\ Calm /\ Tallies(0)
      /\ core'.summon_count = core.summon_count /\ core'.summon_depth = core.summon_depth
      /\ core'.special_summoning = core.special_summoning
  <2>1. PICK S \in SUBSET Monsters : S = core.special_summoning BY SharedSets
  <2>2. PICK G \in SUBSET Monsters : core' = Shared(S, G)
    <3>1. core \in CoreType BY OldTypes
    <3>2. PICK H \in SUBSET Monsters : H = core.ss_tograve BY SharedSets
    <3>3. CASE core' = core BY <2>1, <3>1, <3>2, <3>3 DEF Shared, CoreType
    <3>4. CASE core' = [core EXCEPT !.ss_tograve = @ \cup {Front.target}]
      <4>1. PICK K \in SUBSET Monsters : K = H \cup {t} OBVIOUS
      <4>2. core' = Shared(S, K)
        BY <1>2, <2>1, <3>1, <3>2, <3>4, <4>1 DEF Shared, CoreType
      <4> QED BY <4>2
    <3> QED BY <1>1, <3>3, <3>4
  <2>3. CardsFrame BY <1>1, CardsSame
  <2> QED BY <1>1, <2>1, <2>2, <2>3, SharedFrame
<1>8. \A c \in Cards : Bare(c)' = Bare(c) BY <1>1, CardsSame
<1>9. v.kind = "Step" /\ v.step = s BY <1>1, <1>3, <1>4, Onward
<1>10. Mounts(units') /\ (n > 0 => ~Lays(units'[1]))
  <2>1. n = 0 => units'[1] = v BY <1>6 DEF Continues
  <2> QED BY <1>6, <1>9, <2>1 DEF Mounts, Lays
<1>11. Front.step \in 0 .. 1 BY <1>1
<1>12. /\ core.special_summoning \subseteq core'.special_summoning
       /\ core'.special_summoning # {} => core.special_summoning # {} \/ Loose(Front)
       /\ Loose(v) /\ s = 3 => v.target \in core'.special_summoning
  BY <1>3, <1>7
<1>13. \A c \in Cards : /\ cards'[c].summoning => cards[c].summoning
                        /\ cards'[c].spsummon_step => cards[c].spsummon_step
                        /\ Bare(c)' => Bare(c) \/ (s = 3 /\ c = Front.target)
  BY <1>1, <1>8
<1> QED BY <1>1, <1>3, <1>4, <1>6, <1>7, <1>10, <1>11, <1>12, <1>13, StepProceeds

LEMMA StepMovesKept ==
  ASSUME IInv, StepMoves
  PROVE  IInv'
<1>1. /\ units # <<>> /\ Front.kind = "Step" /\ Front.step = 1
      /\ cards' = Enabled({Front.target}, FALSE)
      /\ core' = IF Front.group = {}
                 THEN [core EXCEPT !.special_summoning = @ \cup {Front.target}] ELSE core
      /\ GoOn(3, <<MoveToField(Front.target, FALSE, 0)>>)
      /\ setting' = setting /\ seen' = seen
  BY DEF StepMoves, At
<1>2. PICK t \in Monsters : t = Front.target BY <1>1, FrontTypes DEF Sane
<1>3. t \in Cards /\ t \notin Spells BY DEF Monsters
<1>4. PICK s \in Nat : s = 3 OBVIOUS
<1>5. PICK v : v = Now(Front, s) OBVIOUS
<1>6. v.kind = "Step" /\ v.step = s /\ v.target = t /\ v.group = Front.group
  BY <1>1, <1>2, <1>5, Onward
<1>7. PICK u : u = Upward(t) OBVIOUS
<1>8. Batch(<<u>>) /\ u.target = t /\ u.kind = "ToField" BY <1>3, <1>7, Fielders
<1>9. PICK n \in Nat : n = 1 OBVIOUS
<1>10. Continues(v, n) /\ units'[1] = u
  <2>1. GoOnAs(Front, s, <<u>>) BY <1>1, <1>2, <1>4, <1>7 DEF GoOn, Upward
  <2>2. Continues(v, 1) /\ units'[1] = u
    BY <1>1, <1>5, <1>8, <2>1, FrontTypes, ContinuedOne
  <2> QED BY <1>9, <2>2
<1>11. /\ CardsFrame
       /\ \A c \in Cards : /\ cards'[c].summoning = cards[c].summoning
                           /\ cards'[c].spsummon_step = cards[c].spsummon_step
                           /\ Bare(c)' => Bare(c) \/ c \in {Front.target}
  BY <1>1, EnabledFrame
<1>12. PICK S \in SUBSET Monsters, G \in SUBSET Monsters :
         /\ core' = Shared(S, G) /\ core.special_summoning \subseteq S
         /\ S = IF Front.group = {} THEN core.special_summoning \cup {t}
                ELSE core.special_summoning
  <2>1. core \in CoreType BY OldTypes
  <2>2. PICK P \in SUBSET Monsters : P = core.special_summoning BY SharedSets
  <2>3. PICK G \in SUBSET Monsters : G = core.ss_tograve BY SharedSets
  <2>4. CASE Front.group = {}
    <3>1. PICK K \in SUBSET Monsters : K = P \cup {t} OBVIOUS
    <3>2. core' = Shared(K, G)
      BY <1>1, <1>2, <2>1, <2>2, <2>3, <2>4, <3>1 DEF Shared, CoreType
    <3> QED BY <2>2, <2>4, <3>1, <3>2
  <2>5. CASE Front.group # {}
    <3>1. core' = Shared(P, G) BY <1>1, <2>1, <2>2, <2>3, <2>5 DEF Shared, CoreType
    <3> QED BY <2>2, <2>5, <3>1
  <2> QED BY <2>4, <2>5
<1>13. /\ DataOK /\ Apart /\ Calm /\ Tallies(0)
       /\ core'.summon_count = core.summon_count /\ core'.summon_depth = core.summon_depth
       /\ core'.special_summoning = S
  BY <1>1, <1>11, <1>12, SharedFrame
<1>14. /\ core.special_summoning \subseteq core'.special_summoning
       /\ core'.special_summoning # {} => core.special_summoning # {} \/ Loose(Front)
       /\ Loose(v) /\ s = 3 => v.target \in core'.special_summoning
  BY <1>1, <1>6, <1>12, <1>13 DEF Loose
<1>15. Mounts(units') /\ (n > 0 => ~Lays(units'[1]))
  <2>1. units'[2] = v /\ Len(units') > 1
    <3>1. /\ Restacked(1, n + 1) /\ units'[n + 1] = v /\ n + 1 = 2
      BY <1>9, <1>10 DEF Continues
    <3>2. Len(units) \in Nat /\ Len(units) >= 1 /\ Len(units') = Len(units) - 1 + (n + 1)
      BY <3>1 DEF Restacked
    <3> QED BY <3>1, <3>2
  <2>2. Mover(u, v) BY <1>4, <1>6, <1>8 DEF Mover
  <2> QED BY <1>3, <1>8, <1>10, <2>1, <2>2 DEF Mounts, Lays
<1>16. Front.step \in 0 .. 1 BY <1>1
<1>17. \A c \in Cards : Bare(c)' => Bare(c) \/ (s = 3 /\ c = Front.target)
  BY <1>4, <1>11, Zenon
<1> QED BY <1>1, <1>5, <1>10, <1>11, <1>13, <1>14, <1>15, <1>16, <1>17, StepProceeds

(* The front SpSummonStep is over, and may have left the group of its
   SpSummon: nothing else changes. *)
Resembles(w, u) ==
  w = u \/ (w.kind = "SpSummon" /\ u.kind = "SpSummon" /\ w.step = u.step)
Likewise(w, u) ==
  /\ w.kind = u.kind /\ w.step = u.step /\ (Setter(u) => w = u)
  /\ (Prompt(w) <=> Prompt(u)) /\ (Active(w) <=> Active(u)) /\ (Counting(w) <=> Counting(u))
  /\ (Live(w) <=> Live(u)) /\ (Outside(w) <=> Outside(u)) /\ (Busy(w) <=> Busy(u))
  /\ (Claims(w) <=> Claims(u)) /\ (Lays(w) <=> Lays(u)) /\ (Setter(w) <=> Setter(u))
Shortened ==
  /\ units # <<>> /\ Front.kind = "Step" /\ units' \in Seq(UnitType)
  /\ Len(units') = Len(units) - 1
  /\ \A i \in 1 .. Len(units') : Sane(units'[i]) /\ Resembles(units'[i], units[i + 1])

LEMMA Resembling ==
  ASSUME NEW w, NEW u, Resembles(w, u)
  PROVE  Likewise(w, u)
<1>1. CASE w = u BY <1>1 DEF Likewise
<1>2. CASE w.kind = "SpSummon" /\ u.kind = "SpSummon" /\ w.step = u.step
  BY <1>2 DEF Likewise, Setter, Prompt, Active, Counting, Live, Outside, Busy, Claims, Lays
<1> QED BY <1>1, <1>2 DEF Resembles

LEMMA ShorterParts ==
  ASSUME IInv, Shortened
  PROVE  /\ Len(units) \in Nat \ {0} /\ Front = units[1] /\ units[1].kind = "Step"
         /\ \A i \in 1 .. Len(units') :
              /\ i + 1 \in 2 .. Len(units) /\ i + 1 \in 1 .. Len(units)
              /\ Likewise(units'[i], units[i + 1])
         /\ \A i \in 2 .. Len(units) :
              /\ i - 1 \in 1 .. Len(units') /\ Likewise(units'[i - 1], units[i])
         /\ \A i \in 1 .. Len(units) : i = 1 \/ i \in 2 .. Len(units)
<1>1. /\ Len(units) \in Nat \ {0} /\ Front = units[1] /\ units[1].kind = "Step"
      /\ Len(units') = Len(units) - 1
  <2>1. units # <<>> /\ units \in Seq(UnitType) BY OldTypes DEF Shortened
  <2> QED BY <2>1, Fronts DEF Shortened
<1>2. \A i \in 1 .. Len(units') : i + 1 \in 2 .. Len(units) /\ i + 1 \in 1 .. Len(units)
  BY <1>1
<1>3. \A i \in 1 .. Len(units') : Likewise(units'[i], units[i + 1])
  BY Resembling DEF Shortened
<1>4. \A i \in 2 .. Len(units) : i - 1 \in 1 .. Len(units') /\ (i - 1) + 1 = i BY <1>1
<1>5. \A i \in 2 .. Len(units) : Likewise(units'[i - 1], units[i])
  <2> TAKE i \in 2 .. Len(units)
  <2>1. Likewise(units'[i - 1], units[(i - 1) + 1]) BY <1>3, <1>4
  <2> QED BY <1>4, <2>1
<1>6. \A i \in 1 .. Len(units) : i = 1 \/ i \in 2 .. Len(units) BY <1>1
<1> QED BY <1>1, <1>2, <1>3, <1>4, <1>5, <1>6

LEMMA ShorterControl ==
  ASSUME IInv, Shortened, core' = core, setting' = setting, seen' = seen
  PROVE  Control'
<1>1. /\ Len(units) \in Nat \ {0} /\ Front = units[1] /\ units[1].kind = "Step"
      /\ \A i \in 1 .. Len(units') :
           /\ i + 1 \in 2 .. Len(units) /\ i + 1 \in 1 .. Len(units)
           /\ Likewise(units'[i], units[i + 1])
      /\ \A i \in 2 .. Len(units) :
           /\ i - 1 \in 1 .. Len(units') /\ Likewise(units'[i - 1], units[i])
      /\ \A i \in 1 .. Len(units) : i = 1 \/ i \in 2 .. Len(units)
  BY ShorterParts
<1>2. Prompts /\ Depth /\ Tallied /\ Chained /\ Waiting /\ Limited BY DEF IInv, Control
<1>3. \A i \in 1 .. Len(units') : ~Prompt(units'[i])
  <2>1. \A i \in 2 .. Len(units) : ~Prompt(units[i]) BY <1>2 DEF Prompts
  <2> QED BY <1>1, <2>1 DEF Likewise
<1>4. Len(units') = Len(units) - 1 /\ Len(units') \in Nat BY <1>1 DEF Shortened
<1>5. Prompts'
  <2>1. \A i \in 2 .. Len(units') : i \in 1 .. Len(units') BY <1>4
  <2> QED BY <1>3, <2>1 DEF Prompts
<1>6. /\ ~Active(units[1]) /\ ~Counting(units[1]) /\ ~Live(units[1])
  BY <1>1 DEF Active, Counting, Live
<1>7. PICK m \in Nat, p \in Nat, n \in Nat : m = Len(units) /\ p = 1 /\ n = 0 BY <1>1
<1>8. /\ p \in 0 .. 1 /\ p <= m /\ m - p + n = Len(units') /\ p + 1 = 2 /\ \A i \in 1 .. n : FALSE
      /\ \A i \in Int : i - p + n = i - 1
  BY <1>1, <1>4, <1>7
<1>9. Depth'
  <2>1. PICK A, B : A = ActiveAt(units) /\ B = ActiveAt(units') OBVIOUS
  <2>2. A \subseteq 1 .. m /\ B \subseteq 1 .. m - p + n
    BY <1>7, <1>8, <2>1 DEF ActiveAt
  <2>3. \A i \in p + 1 .. m : i \in A <=> i - p + n \in B
    <3> TAKE i \in p + 1 .. m
    <3>1. i \in 2 .. Len(units) /\ i - p + n = i - 1 BY <1>7, <1>8
    <3>2. i \in 1 .. Len(units) /\ i - 1 \in 1 .. Len(units') BY <1>1, <3>1
    <3>3. Active(units'[i - 1]) <=> Active(units[i]) BY <1>1, <3>1 DEF Likewise
    <3> QED BY <2>1, <3>1, <3>2, <3>3 DEF ActiveAt
  <2>4. Cardinality(B) = Cardinality(A)
    <3>1. 1 \notin A /\ ~(n > 0) BY <1>6, <1>7, <2>1 DEF ActiveAt
    <3>2. Carried(m, p, n, A, B) BY <1>8, <2>2, <2>3 DEF Carried
    <3>3. /\ Cardinality(A) \in Nat /\ Cardinality(B) \in Nat
          /\ Cardinality(B) = Cardinality(A) - (IF p = 1 /\ 1 \in A THEN 1 ELSE 0)
                                             + (IF n \in B /\ n > 0 THEN 1 ELSE 0)
      BY <1>8, <3>2, Recounted
    <3> QED BY <3>1, <3>3
  <2> QED BY <1>2, <2>1, <2>4 DEF Depth, ActiveAt
<1>10. Tallied'
  <2>1. PICK A, B : A = CountingAt(units) /\ B = CountingAt(units') OBVIOUS
  <2>2. A \subseteq 1 .. m /\ B \subseteq 1 .. m - p + n
    BY <1>7, <1>8, <2>1 DEF CountingAt
  <2>3. \A i \in p + 1 .. m : i \in A <=> i - p + n \in B
    <3> TAKE i \in p + 1 .. m
    <3>1. i \in 2 .. Len(units) /\ i - p + n = i - 1 BY <1>7, <1>8
    <3>2. i \in 1 .. Len(units) /\ i - 1 \in 1 .. Len(units') BY <1>1, <3>1
    <3>3. Counting(units'[i - 1]) <=> Counting(units[i]) BY <1>1, <3>1 DEF Likewise
    <3> QED BY <2>1, <3>1, <3>2, <3>3 DEF CountingAt
  <2>4. Cardinality(B) = Cardinality(A)
    <3>1. 1 \notin A /\ ~(n > 0) BY <1>6, <1>7, <2>1 DEF CountingAt
    <3>2. Carried(m, p, n, A, B) BY <1>8, <2>2, <2>3 DEF Carried
    <3>3. /\ Cardinality(A) \in Nat /\ Cardinality(B) \in Nat
          /\ Cardinality(B) = Cardinality(A) - (IF p = 1 /\ 1 \in A THEN 1 ELSE 0)
                                             + (IF n \in B /\ n > 0 THEN 1 ELSE 0)
      BY <1>8, <3>2, Recounted
    <3> QED BY <3>1, <3>3
  <2> QED BY <1>2, <2>1, <2>4 DEF Tallied, CountingAt
<1>11. Chained'
  <2>1. (\A i \in 1 .. Len(units') : ~Live(units'[i])) <=> \A i \in 1 .. Len(units) : ~Live(units[i])
    <3>1. ASSUME \A i \in 1 .. Len(units') : ~Live(units'[i]), NEW i \in 1 .. Len(units)
          PROVE  ~Live(units[i])
      BY <1>1, <1>6, <3>1 DEF Likewise
    <3>2. ASSUME \A i \in 1 .. Len(units) : ~Live(units[i]), NEW i \in 1 .. Len(units')
          PROVE  ~Live(units'[i])
      BY <1>1, <3>2 DEF Likewise
    <3> QED BY <3>1, <3>2
  <2>2. \A j, k \in 1 .. Len(units') : j < k /\ Live(units'[k]) => ~Outside(units'[j])
    <3> TAKE j, k \in 1 .. Len(units')
    <3>1. j < k => j + 1 < k + 1 BY <1>4
    <3>2. /\ j + 1 \in 1 .. Len(units) /\ k + 1 \in 1 .. Len(units)
          /\ (Live(units'[k]) <=> Live(units[k + 1]))
          /\ (Outside(units'[j]) <=> Outside(units[j + 1]))
      BY <1>1 DEF Likewise
    <3>3. j + 1 < k + 1 /\ Live(units[k + 1]) => ~Outside(units[j + 1])
      BY <1>2, <3>2 DEF Chained
    <3> QED BY <3>1, <3>2, <3>3
  <2> QED BY <1>2, <2>1, <2>2 DEF Chained
<1>12. Waiting'
  <2>1. (\E i \in 1 .. Len(units) : units[i].kind = "Solve") =>
          \E i \in 1 .. Len(units') : units'[i].kind = "Solve"
    <3> SUFFICES ASSUME NEW i \in 1 .. Len(units), units[i].kind = "Solve"
                 PROVE  \E h \in 1 .. Len(units') : units'[h].kind = "Solve"
      OBVIOUS
    <3>1. i \in 2 .. Len(units) BY <1>1
    <3>2. i - 1 \in 1 .. Len(units') /\ units'[i - 1].kind = "Solve"
      BY <1>1, <3>1 DEF Likewise
    <3> QED BY <3>2
  <2>2. \A u : Waits(u)' <=> Waits(u) BY DEF Waits, Sets
  <2> QED BY <1>2, <2>1, <2>2 DEF Waiting
<1>13. Limited'
  <2>1. \A i \in 1 .. Len(units') : units'[i].kind = "MSet" => Sets
    BY <1>1, <1>2 DEF Limited, Likewise
  <2>2. ~setting.interrupted => \A i \in 1 .. Len(units') : ~Busy(units'[i])
    <3> SUFFICES ASSUME ~setting.interrupted, NEW i \in 1 .. Len(units'), Busy(units'[i])
                 PROVE  FALSE
      OBVIOUS
    <3>1. Busy(units[i + 1]) /\ i + 1 \in 2 .. Len(units) /\ i + 1 \in 1 .. Len(units)
      BY <1>1 DEF Likewise
    <3>2. i + 1 = 1 \/ (i + 1 = 2 /\ units[1].kind = "ToGrave")
      BY <1>2, <3>1 DEF Limited
    <3>3. i + 1 # 1 BY <1>4
    <3> QED BY <1>1, <3>2, <3>3
  <2>3. ASSUME ~Unlimited, NEW i \in 1 .. Len(units'), Claims(units'[i]),
               \A j \in 1 .. Len(units') : j > i => ~Active(units'[j])
        PROVE  core.summon_count < Limit
    <3>1. Claims(units[i + 1]) /\ i + 1 \in 1 .. Len(units) BY <1>1, <2>3 DEF Likewise
    <3>2. ASSUME NEW j \in 1 .. Len(units), j > i + 1
          PROVE  ~Active(units[j])
      <4>1. j - 1 \in 1 .. Len(units') /\ j - 1 > i /\ j \in 2 .. Len(units)
        BY <1>1, <1>4, <3>2
      <4> QED BY <1>1, <2>3, <4>1 DEF Likewise
    <3> QED BY <1>2, <2>3, <3>1, <3>2 DEF Limited
  <2>4. units' # <<>> => Ready(Front)'
    <3> SUFFICES ASSUME units' # <<>> PROVE Ready(Front)' OBVIOUS
    <3>1. 1 \in 1 .. Len(units') /\ Front' = units'[1]
      <4>1. units' \in Seq(UnitType) /\ units' # <<>> BY DEF Shortened
      <4>2. Len(units') # 0 BY <4>1, EmptySeq
      <4> QED BY <1>4, <4>2 DEF Front
    <3>2. ~Prompt(Front') BY <1>3, <3>1
    <3> QED BY <3>2 DEF Ready, Prompt, Busy
  <2>5. (Unlimited' <=> Unlimited) /\ (Sets' <=> Sets) /\ Limit' = Limit
    BY DEF Unlimited, Sets, Limit
  <2>6. /\ \A i \in 1 .. Len(units') : units'[i].kind = "MSet" => Sets'
        /\ ~Unlimited' => core'.summon_count <= Limit'
        /\ ~setting'.interrupted =>
             \A i \in 1 .. Len(units') :
               Busy(units'[i]) => i = 1 \/ (i = 2 /\ units'[1].kind = "ToGrave")
        /\ ~Unlimited' =>
             \A i \in 1 .. Len(units') :
               Claims(units'[i]) /\ (\A j \in 1 .. Len(units') : j > i => ~Active(units'[j])) =>
                 core'.summon_count < Limit'
    <3>1. ~Unlimited => core.summon_count <= Limit BY <1>2 DEF Limited
    <3> QED BY <2>1, <2>2, <2>3, <2>5, <3>1
  <2> QED BY <2>4, <2>6 DEF Limited, Busy, Claims, Active
<1> QED BY <1>5, <1>9, <1>10, <1>11, <1>12, <1>13 DEF Control

LEMMA ShorterZones ==
  ASSUME IInv, Shortened, core' = core, cards' = cards, seen' = seen
  PROVE  Zones'
<1>1. /\ Len(units) \in Nat \ {0} /\ Front = units[1] /\ units[1].kind = "Step"
      /\ \A i \in 1 .. Len(units') :
           /\ i + 1 \in 2 .. Len(units) /\ i + 1 \in 1 .. Len(units)
           /\ Likewise(units'[i], units[i + 1])
  BY ShorterParts
<1>2. Lone(units) /\ Laid(core, cards, seen.left) /\ Grouping(units, core, cards, seen.left)
  BY DEF IInv, Zones
<1>3. Len(units') = Len(units) - 1 /\ Len(units') \in Nat BY <1>1 DEF Shortened
<1>4. Lone(units')
  <2>1. ASSUME NEW i \in 1 .. Len(units'), NEW k \in 1 .. Len(units'),
               units'[i].kind = "SetGroup", units'[k].kind = "SetGroup"
        PROVE  i = k
    <3>1. units[i + 1].kind = "SetGroup" /\ units[k + 1].kind = "SetGroup"
      BY <1>1, <2>1 DEF Likewise
    <3>2. i + 1 = k + 1 BY <1>1, <1>2, <3>1 DEF Lone
    <3> QED BY <1>3, <3>2
  <2>2. ASSUME NEW i \in 1 .. Len(units'), units'[i].kind = "SSet"
        PROVE  i = Len(units')
    <3>1. units[i + 1].kind = "SSet" BY <1>1, <2>2 DEF Likewise
    <3>2. i + 1 = Len(units) BY <1>1, <1>2, <3>1 DEF Lone
    <3> QED BY <1>1, <1>3, <3>2
  <2> QED BY <2>1, <2>2 DEF Lone
<1>5. Seater(units', core)
  <2> SUFFICES ASSUME units' # <<>>, Lays(units'[1]) PROVE FALSE BY DEF Seater
  <2>1. units' \in Seq(UnitType) BY DEF Shortened
  <2>2. 1 \in 1 .. Len(units')
    <3>1. Len(units') # 0 BY <2>1, EmptySeq
    <3> QED BY <1>3, <3>1
  <2>3. Prompt(units'[1]) BY DEF Lays, Prompt
  <2>4. Prompt(units[1 + 1]) /\ 1 + 1 \in 2 .. Len(units)
    BY <1>1, <2>2, <2>3 DEF Likewise
  <2> QED BY <2>4 DEF IInv, Control, Prompts
<1>6. Grouping(units', core, cards, seen.left)
  <2> SUFFICES ASSUME NEW i \in 1 .. Len(units'), Setter(units'[i])
               PROVE  /\ Seats(core, cards, seen.left)
                      /\ Seating(units', core, cards, seen.left, i)
    BY DEF Grouping
  <2>1. PICK k \in 1 .. Len(units) : k = i + 1 BY <1>1
  <2>2. Setter(units[k]) /\ units'[i] = units[k] BY <1>1, <2>1 DEF Likewise
  <2>3. Seats(core, cards, seen.left) /\ Seating(units, core, cards, seen.left, k)
    BY <1>2, <2>2 DEF Grouping
  <2>4. ~Lays(units[1]) BY <1>1 DEF Lays
  <2> QED BY <2>2, <2>3, <2>4 DEF Seating
<1> QED BY <1>2, <1>4, <1>5, <1>6 DEF Zones

LEMMA ShortenedKept ==
  ASSUME IInv, Shortened, core' = core, cards' = cards, seen' = seen, setting' = setting, Half'
  PROVE  IInv'
<1>1. Types' BY DEF IInv, Types, Shortened
<1> QED BY <1>1, ShorterControl, ShorterZones DEF IInv

(* The unit w is u, or the SpSummon u without the card of its first
   SpSummonStep. *)
Drops(w, u, k) ==
  \/ w = u
  \/ /\ w.kind = "SpSummon" /\ u.kind = "SpSummon" /\ w.step = 1 /\ u.step = 1
     /\ w.target = u.target /\ w.group = u.group \ {Front.target}
     /\ Queued(Front) /\ OwnerOf(units, 1, k)
     /\ \A j \in 1 .. Len(units) : 1 < j /\ j < k => units[j].target # Front.target
LEMMA DropsHalf ==
  ASSUME IInv, Shortened, Front.step = 5, core' = core, cards' = cards, seen' = seen,
         \A k \in 2 .. Len(units) : Drops(units'[k - 1], units[k], k)
  PROVE  Half'
<1>1. /\ Len(units) \in Nat \ {0} /\ Front = units[1] /\ units[1].kind = "Step"
      /\ \A i \in 1 .. Len(units') : i + 1 \in 2 .. Len(units) /\ i + 1 \in 1 .. Len(units)
      /\ \A i \in 2 .. Len(units) :
           /\ i - 1 \in 1 .. Len(units') /\ Likewise(units'[i - 1], units[i])
      /\ \A i \in 1 .. Len(units) : i = 1 \/ i \in 2 .. Len(units)
  BY ShorterParts
<1>2. Half BY DEF IInv
<1>3. Len(units') = Len(units) - 1 /\ Len(units') \in Nat /\ units' \in Seq(UnitType)
  BY <1>1 DEF Shortened
<1>4. PICK lo \in Nat : lo = 2 OBVIOUS
<1>5. PICK d \in Int : d = -1 OBVIOUS
<1>6. /\ \A k \in 2 .. Len(units) : k + d = k - 1
      /\ lo + d = 1 /\ lo - 1 = 1 /\ \A i \in 1 .. lo + d - 1 : FALSE
      /\ Len(units') = Len(units) + d
      /\ \A k \in 2 .. Len(units) : k \in 1 .. Len(units) /\ k > 1
  BY <1>1, <1>3, <1>4, <1>5
<1>7. \A k \in 2 .. Len(units) : Drops(units'[k + d], units[k], k) /\ k + d \in 1 .. Len(units')
  BY <1>1, <1>6
<1>8. Aligned(lo, d)
  <2>1. \A k \in 2 .. Len(units) : Alike(units'[k + d], units[k])
    <3> TAKE k \in 2 .. Len(units)
    <3>1. Drops(units'[k + d], units[k], k) BY <1>7
    <3> QED BY <3>1 DEF Drops, Alike, Queued
  <2>2. lo \in Nat \ {0} /\ lo + d >= 1 BY <1>4, <1>6
  <2> QED BY <1>1, <1>4, <1>6, <1>7, <2>1, <2>2 DEF Aligned
<1>9. Owned'
  <2>1. ASSUME NEW i \in 2 .. Len(units), NEW k \in 2 .. Len(units), OwnerOf(units, i, k),
               units[i].target \in units[k].group
        PROVE  units[i].target \in units'[k + d].group
    <3>1. Drops(units'[k + d], units[k], k) BY <1>7
    <3>2. i \in 1 .. Len(units) /\ 1 < i /\ i < k BY <1>6, <2>1 DEF OwnerOf
    <3> QED BY <2>1, <3>1, <3>2 DEF Drops
  <2>2. Owned BY <1>2 DEF Half
  <2>3. \A i, k \in lo .. Len(units) :
          Queued(units[i]) /\ OwnerOf(units, i, k) /\ units[i].target \in units[k].group =>
            units[i].target \in units'[k + d].group
    BY <1>4, <2>1
  <2> QED BY <1>8, <2>2, <2>3, AlignedOwned
<1>10. Asked' /\ Stepped' /\ Faceup'
  <2>1. \A k \in lo .. Len(units) : Minds(k, k + d)
    <3>1. ASSUME NEW k \in 2 .. Len(units), NEW c \in Cards
          PROVE  /\ Window(units[k], c) => Window(units'[k + d], c)
                 /\ Grouped(units[k], c) => Grouped(units'[k + d], c)
                 /\ Moved(units[k], c) => Moved(units'[k + d], c)
                 /\ Collects(units, k, c) =>
                      /\ units'[k + d].kind = "SpSummon" /\ units'[k + d].step \in 1 .. 2
                      /\ c \in units'[k + d].group
      <4>1. CASE units'[k + d] = units[k] BY <4>1 DEF Collects
      <4>2. CASE units'[k + d] # units[k]
        <5>1. /\ units[k].kind = "SpSummon" /\ units'[k + d].kind = "SpSummon"
              /\ units'[k + d].step = 1 /\ OwnerOf(units, 1, k) /\ Queued(Front)
              /\ units'[k + d].group = units[k].group \ {Front.target}
          BY <1>7, <4>2 DEF Drops
        <5>2. ~Window(units[k], c) /\ ~Grouped(units[k], c) /\ ~Moved(units[k], c)
          BY <5>1 DEF Window, Grouped, Moved
        <5>3. Collects(units, k, c) => c # Front.target
          <6>1. 1 \in 1 .. Len(units) BY <1>1
          <6>2. QueuedFor(units, k, Front.target) BY <1>1, <5>1, <6>1 DEF QueuedFor
          <6> QED BY <6>2 DEF Collects
        <5>4. Collects(units, k, c) => c \in units'[k + d].group
          BY <5>1, <5>3 DEF Collects
        <5>5. units'[k + d].step \in 1 .. 2 BY <5>1
        <5> QED BY <5>1, <5>2, <5>4, <5>5
      <4> QED BY <4>1, <4>2
    <3> QED BY <1>4, <3>1 DEF Minds
  <2>2. \A k \in 1 .. lo - 1, c \in Cards :
          ~Window(units[k], c) /\ ~Marked(units, k, c) /\ ~Pending(units, k, c)
    <3>1. \A k \in 1 .. lo - 1 : k = 1 BY <1>4
    <3>2. \A c : ~Window(units[1], c) /\ ~Marked(units, 1, c) /\ ~Pending(units, 1, c)
      <4>1. units[1].kind = "Step" /\ units[1].step = 5 BY <1>1
      <4> QED BY <4>1 DEF Window, Marked, Pending, Grouped, Moved, Collects
    <3> QED BY <3>1, <3>2
  <2>3. \A c \in Cards : Bare(c)' = Bare(c) BY CardsSame
  <2>4. Mounts(units')
    <3> SUFFICES ASSUME units' # <<>>, units'[1].kind = "ToField" PROVE FALSE
      BY DEF Mounts
    <3>1. 1 \in 1 .. Len(units')
      <4>1. Len(units') # 0 BY <1>3, EmptySeq
      <4> QED BY <1>3, <4>1
    <3>2. 2 \in 2 .. Len(units) /\ 2 - 1 = 1 BY <1>1, <1>3, <3>1
    <3>3. units[2].kind = "ToField" BY <1>1, <3>2 DEF Likewise
    <3> QED BY <3>2, <3>3 DEF IInv, Control, Prompts, Prompt
  <2> QED BY <1>2, <1>3, <1>8, <2>1, <2>2, <2>3, <2>4, AlignedFlags
<1>11. Opened'
  <2>1. \A k \in 2 .. Len(units) :
          LET w == units'[k - 1]
              u == units[k]
          IN  /\ (Loose(w) <=> Loose(u)) /\ (Opens(w) <=> Opens(u)) /\ (Sends(w) <=> Sends(u))
              /\ Loose(u) => w = u
    BY DEF Drops, Loose, Opens, Sends
  <2>2. ~Opens(units[1]) /\ ~Sends(units[1]) BY <1>1 DEF Opens, Sends
  <2>3. Opened BY <1>2 DEF Half
  <2>4. \A i \in 1 .. Len(units') : i + 1 \in 2 .. Len(units) /\ (i + 1) - 1 = i
    BY <1>1, <1>3
  <2>5. ASSUME NEW i \in 1 .. Len(units'), Loose(units'[i])
        PROVE  /\ \E k \in 1 .. Len(units') : i < k /\ Opens(units'[k])
               /\ units'[i].step = 3 => units'[i].target \in core.special_summoning
    <3>1. Loose(units[i + 1]) /\ units'[i] = units[i + 1] /\ i + 1 \in 1 .. Len(units)
      BY <1>1, <2>1, <2>4, <2>5
    <3>2. PICK k \in 1 .. Len(units) : i + 1 < k /\ Opens(units[k])
      BY <2>3, <3>1 DEF Opened
    <3>3. k \in 2 .. Len(units) /\ k - 1 > i BY <1>3, <3>2
    <3>4. Opens(units'[k - 1]) /\ k - 1 \in 1 .. Len(units') /\ i < k - 1
      <4>1. i < k - 1 BY <1>3, <3>3
      <4> QED BY <1>1, <2>1, <3>2, <3>3, <4>1
    <3> QED BY <2>3, <3>1, <3>4 DEF Opened
  <2>6. ASSUME NEW i \in 1 .. Len(units'), NEW k \in 1 .. Len(units'),
               Opens(units'[i]), Opens(units'[k])
        PROVE  i = k
    <3>1. /\ Opens(units[i + 1]) /\ Opens(units[k + 1])
          /\ i + 1 \in 1 .. Len(units) /\ k + 1 \in 1 .. Len(units)
      BY <1>1, <2>1, <2>4, <2>6
    <3>2. i + 1 = k + 1 BY <2>3, <3>1 DEF Opened
    <3> QED BY <1>3, <3>2
  <2>7. core.special_summoning # {} => \E i \in 1 .. Len(units') : Opens(units'[i])
    BY <1>1, <2>1, <2>2, <2>3 DEF Opened
  <2>8. core.ss_tograve # {} => \E i \in 1 .. Len(units') : Sends(units'[i])
    BY <1>1, <2>1, <2>2, <2>3 DEF Opened
  <2> QED BY <2>5, <2>6, <2>7, <2>8 DEF Opened
<1> QED BY <1>9, <1>10, <1>11 DEF Half

Parted(u, c) == [u EXCEPT !.group = Without(@, c)]
Shifts == [i \in 1 .. Len(units) - 1 |-> units[i + 1]]
LEMMA PartedFields ==
  ASSUME NEW u \in UnitType, NEW c, NEW w, w = Parted(u, c), u.kind = "SpSummon", Sane(u)
  PROVE  /\ w \in UnitType /\ w.kind = "SpSummon" /\ w.step = u.step /\ w.target = u.target
         /\ w.group = u.group \ {c} /\ w.rest = u.rest /\ Sane(w)
<1>1. /\ w \in UnitType /\ w.kind = "SpSummon" /\ w.step = u.step /\ w.target = u.target
      /\ w.group = u.group \ {c} /\ w.rest = u.rest
  BY DEF Parted, Without, UnitType
<1> QED BY <1>1 DEF Sane

LEMMA StepFailedKept ==
  ASSUME IInv, StepFailed
  PROVE  IInv'
<1>1. /\ units # <<>> /\ Front.kind = "Step" /\ Front.step = 5
      /\ core' = core /\ cards' = cards /\ setting' = setting /\ seen' = seen
      /\ units' = IF Front.group = {} THEN Tail(units)
                  ELSE [Shifts EXCEPT ![Owner - 1].group = Without(@, Front.target)]
  BY DEF StepFailed, At, Shifts
<1>2. /\ Front \in UnitType /\ Front = units[1] /\ Len(units) \in Nat \ {0}
      /\ Tail(units) \in Seq(UnitType) /\ Len(Tail(units)) = Len(units) - 1
      /\ \A i \in 1 .. Len(Tail(units)) : Tail(units)[i] = units[i + 1]
  BY <1>1, OldTypes, Fronts
<1>3. \A i \in 1 .. Len(units) : units[i] \in UnitType /\ Sane(units[i])
  BY DEF IInv, Types
<1>4. \A i \in 1 .. Len(units) - 1 : i + 1 \in 1 .. Len(units) BY <1>2
<1>5. \A k \in 2 .. Len(units) : k - 1 \in 1 .. Len(units) - 1 /\ (k - 1) + 1 = k
  BY <1>2
<1>6. CASE Front.group = {}
  <2>1. units' = Tail(units) BY <1>1, <1>6
  <2>2. \A i \in 1 .. Len(units') : units'[i] = units[i + 1] /\ Sane(units'[i])
    BY <1>2, <1>3, <1>4, <2>1
  <2>3. Shortened BY <1>1, <1>2, <2>1, <2>2 DEF Shortened, Resembles
  <2>4. \A k \in 2 .. Len(units) : Drops(units'[k - 1], units[k], k)
    BY <1>2, <1>5, <2>1, <2>2 DEF Drops
  <2>5. Half' BY <1>1, <2>3, <2>4, DropsHalf
  <2> QED BY <1>1, <2>3, <2>5, ShortenedKept
<1>7. CASE Front.group # {}
  <2>1. Queued(Front) /\ 1 \in 1 .. Len(units) BY <1>1, <1>2, <1>7 DEF Queued
  <2>2. PICK k \in 1 .. Len(units) :
          /\ OwnerOf(units, 1, k) /\ units[1].target \in units[k].group
          /\ \A j \in 1 .. Len(units) : 1 < j /\ j < k => units[j].target # units[1].target
    BY <1>2, <2>1 DEF IInv, Half, Owned, Own
  <2>3. /\ k \in 2 .. Len(units) /\ units[k].kind = "SpSummon" /\ units[k].step = 1
        /\ \A j \in 2 .. Len(units) : j < k => units[j].kind = "Step"
    <3>1. \A j \in 2 .. Len(units) : j \in 1 .. Len(units) /\ 1 < j BY <1>2
    <3>2. 1 < k /\ units[k].kind = "SpSummon" /\ units[k].step = 1 BY <2>2 DEF OwnerOf
    <3>3. k \in 2 .. Len(units) BY <1>2, <3>2
    <3> QED BY <2>2, <3>1, <3>2, <3>3 DEF OwnerOf, Queued
  <2>4. Owner = k
    <3>1. ASSUME NEW i \in 2 .. Len(units)
          PROVE  (units[i].kind = "SpSummon" /\ \A j \in 2 .. i - 1 : units[j].kind = "Step")
                   <=> i = k
      <4>1. CASE i < k BY <2>3, <4>1
      <4>2. CASE i = k
        <5>1. \A j \in 2 .. k - 1 : j \in 2 .. Len(units) /\ j < k BY <1>2, <2>3
        <5> QED BY <2>3, <4>2, <5>1
      <4>3. CASE i > k
        <5>1. k \in 2 .. i - 1 /\ i # k BY <2>3, <4>3
        <5> QED BY <2>3, <5>1
      <4> QED BY <2>3, <4>1, <4>2, <4>3
    <3> QED BY <2>3, <3>1 DEF Owner
  <2>5. PICK w : w = Parted(units[k], Front.target) OBVIOUS
  <2>6. /\ w \in UnitType /\ w.kind = "SpSummon" /\ w.step = 1 /\ w.target = units[k].target
        /\ w.group = units[k].group \ {Front.target} /\ Sane(w)
    BY <1>3, <2>3, <2>5, PartedFields
  <2>7. PICK m \in Nat : m = k - 1 BY <2>3
  <2>8. m \in 1 .. Len(units) - 1 /\ m + 1 = k BY <1>5, <2>3, <2>7
  <2>9. units' = [Shifts EXCEPT ![m] = w]
    <3>1. Shifts[m] = units[k] BY <2>8 DEF Shifts
    <3>2. units' = [Shifts EXCEPT ![m].group = Without(@, Front.target)]
      BY <1>1, <1>7, <2>4, <2>7
    <3> QED BY <2>5, <3>1, <3>2 DEF Parted
  <2>10. /\ DOMAIN units' = 1 .. Len(units) - 1
         /\ \A i \in 1 .. Len(units) - 1 : units'[i] = IF i = m THEN w ELSE units[i + 1]
    BY <2>8, <2>9 DEF Shifts
  <2>11. units' \in Seq(UnitType) /\ Len(units') = Len(units) - 1
    <3>0. Len(units) - 1 \in Nat BY <1>2
    <3>1. PICK N \in Nat : N = Len(units) - 1 BY <3>0
    <3>2. units' = [i \in 1 .. N |-> units'[i]] BY <2>9, <2>10, <3>1 DEF Shifts
    <3>3. \A i \in 1 .. N : units'[i] \in UnitType BY <1>3, <1>4, <2>6, <2>10, <3>1
    <3>4. units' \in [1 .. N -> UnitType] BY <3>2, <3>3
    <3> QED BY <3>1, <3>4
  <2>12. \A i \in 1 .. Len(units') :
           Sane(units'[i]) /\ (units'[i] = units[i + 1] \/ (i = m /\ units'[i] = w))
    BY <1>3, <1>4, <2>6, <2>10, <2>11
  <2>13. Shortened BY <1>1, <2>3, <2>6, <2>8, <2>11, <2>12 DEF Shortened, Resembles
  <2>14. \A i \in 2 .. Len(units) : Drops(units'[i - 1], units[i], i)
    <3> TAKE i \in 2 .. Len(units)
    <3>1. i - 1 \in 1 .. Len(units') /\ (i - 1) + 1 = i BY <1>5, <2>11
    <3>2. CASE units'[i - 1] = units[i] BY <3>2 DEF Drops
    <3>3. CASE units'[i - 1] # units[i]
      <4>1. i - 1 = m /\ units'[i - 1] = w BY <2>12, <3>1, <3>3
      <4>2. i = k BY <2>8, <3>1, <4>1
      <4> QED BY <1>2, <2>1, <2>2, <2>3, <2>6, <4>1, <4>2 DEF Drops
    <3> QED BY <3>2, <3>3
  <2>15. Half' BY <1>1, <2>13, <2>14, DropsHalf
  <2> QED BY <1>1, <2>13, <2>15, ShortenedKept
<1> QED BY <1>6, <1>7

-----------------------------------------------------------------------------
(* At first, nothing runs. *)

LEMMA Beginning ==
  ASSUME Init
  PROVE  IInv
<1>1. /\ setting \in AllSettings /\ units = <<>>
      /\ Start \in [Cards -> Locations \ {"SZONE"}] /\ None \notin Cards
      /\ Spells \subseteq Cards /\ \A c \in Spells : Start[c] # "MZONE"
  BY ConstantsAssumption DEF Init
<1>2. /\ units \in Seq(UnitType) /\ Len(units) = 0
      /\ \A i \in 1 .. Len(units) : FALSE
  BY <1>1, EmptySeq
<1>3. cards = [c \in Cards |->
        [loc |-> Start[c], seq |-> 0, facedown |-> Start[c] = "MZONE" /\ c \notin Geminis,
         enabled |-> TRUE, summoning |-> FALSE, spsummon_step |-> FALSE,
         gemini |-> FALSE]]
  BY DEF Init
<1>4. /\ core.summon_depth = 0 /\ core.summon_count = 0 /\ core.extra_summon = FALSE
      /\ core.state_count = 0 /\ core.chain = 0 /\ core.reserved = <<>>
      /\ core.special_summoning = {} /\ core.ss_tograve = {}
      /\ core.szone = [q \in Seqs |-> None] /\ core.pre_set = <<>> /\ core.set = <<>>
      /\ core.used_zones = {} /\ core.seq = <<>> /\ core \in CoreType
  <2>1. core = [summon_depth |-> 0, summon_count |-> 0, extra_summon |-> FALSE,
                state_count |-> 0, chain |-> 0, reserved |-> <<>>,
                special_summoning |-> {}, ss_tograve |-> {},
                szone |-> [q \in Seqs |-> None], pre_set |-> <<>>, set |-> <<>>,
                used_zones |-> {}, seq |-> <<>>]
    BY DEF Init
  <2>2. <<>> \in Seq(UnitType) /\ <<>> \in Seq(Spells) /\ <<>> \in Seq(Seqs) BY EmptySeq
  <2>3. [q \in Seqs |-> None] \in [Seqs -> Members] BY DEF Members
  <2> QED BY <2>1, <2>2, <2>3 DEF CoreType
<1>5. /\ seen.tries = 0 /\ seen.successes = 0 /\ seen.promised = FALSE /\ seen.left = {}
      /\ seen \in SeenType
  BY DEF Init, SeenType
<1>6. CardsOK(cards)
  <2>1. \A c \in Cards : /\ cards[c] \in CardType /\ cards[c].loc = Start[c]
                         /\ ~cards[c].summoning
    BY <1>1, <1>3 DEF CardType, Seqs
  <2> QED BY <1>1, <1>3, <2>1 DEF CardsOK
<1>7. Types BY <1>1, <1>2, <1>4, <1>5, <1>6 DEF Types
<1>8. Control
  <2>1. ActiveAt(units) = {} /\ CountingAt(units) = {} /\ Cardinality({}) = 0
    BY <1>2, FS_EmptySet DEF ActiveAt, CountingAt
  <2>2. Prompts BY <1>2 DEF Prompts
  <2>3. Depth /\ Tallied BY <1>4, <1>5, <2>1 DEF Depth, Tallied
  <2>4. Chained
    <3>1. setting.links \in Nat BY <1>1 DEF AllSettings
    <3> QED BY <1>2, <1>4, <3>1 DEF Chained
  <2>5. Waiting
    <3>1. Len(core.reserved) = 0 BY <1>4, EmptySeq
    <3> QED BY <1>4, <1>5, <3>1 DEF Waiting
  <2>6. Limited BY <1>1, <1>2, <1>4 DEF Limited, Limit
  <2> QED BY <2>2, <2>3, <2>4, <2>5, <2>6 DEF Control
<1>9. Half
  <2>1. \A c \in Cards : cards[c].enabled /\ ~cards[c].summoning /\ ~cards[c].spsummon_step
    BY <1>3
  <2>2. Asked /\ Stepped /\ Faceup BY <1>1, <2>1 DEF Asked, Stepped, Faceup, Bare
  <2> QED BY <1>2, <1>4, <2>2 DEF Half, Owned, Opened
<1>10. Zones
  <2>1. \A c \in Cards : cards[c].loc # "SZONE" BY <1>1, <1>3
  <2>2. \A q \in Seqs : core.szone[q] = None BY <1>4
  <2>3. Laid(core, cards, seen.left) BY <1>1, <2>1, <2>2 DEF Laid
  <2> QED BY <1>1, <1>2, <2>3 DEF Zones, Lone, Seater, Grouping
<1> QED BY <1>7, <1>8, <1>9, <1>10 DEF IInv

-----------------------------------------------------------------------------
(* Every step keeps the invariant. *)

LEMMA StartingKept ==
  ASSUME IInv, Starting
  PROVE  IInv'
BY StartSummonKept, StartFlipKept, StartSetKept, StartRuleKept, StartGroupsKept,
   StartStepKept, StartCompleteKept, NegateSummonKept, LeaveKept, EndingKept
   DEF Starting

LEMMA ChainingKept ==
  ASSUME IInv, Chaining
  PROVE  IInv'
BY ChainBuiltKept, EndingKept, LinkActsKept, LinkOverKept, ChainOverKept,
   SendCardsKept, MoveMonsterKept, MoveSpellKept
   DEF Chaining

LEMMA NormalSummonKept ==
  ASSUME IInv, NormalSummon
  PROVE  IInv'
BY SummonCheckedKept, SummonProcedureKept, SummonTributesKept, SummonGoesOn,
   SummonCostsKept, ReleasedKept, SummonCountedKept, SummonMovesKept, GeminiSummonedKept,
   LaterCountedKept, SummoningKept, SummonWindowKept, AskedKept, SummonCompletedKept,
   SummonSucceededKept, CheckedOrCosts, FlipTurnedKept, FlipCompletedKept, FlipSucceededKept
   DEF NormalSummon

LEMMA SettingKept ==
  ASSUME IInv, Setting
  PROVE  IInv'
BY SetCheckedKept, SummonProcedureKept, SetTributesKept, CheckedOrCosts, ReleasedKept,
   SetGoesOn, LaterCountedKept, SetMovesKept, EndingKept, SpellCheckedKept, SpellMovesKept,
   SpellsEndKept, SpellsCheckedKept, SpellZonesKept, SpellsMoveKept, SpellsMovedKept,
   SpellsSeatedKept
   DEF Setting

LEMMA SpecialSummonKept ==
  ASSUME IInv, SpecialSummon
  PROVE  IInv'
BY CheckedOrCosts, RuleGoesOn, RuleMovesKept, RuleWindowKept, AskedKept, RuleCompletedKept,
   RuleSucceededKept, GroupOperationKept, GroupCheckedKept, GroupMovesKept, GroupMovedKept,
   GroupWindowKept, GroupAskedKept, GroupCompletedKept, RuleGroupChosenKept, StepCheckedKept,
   StepMovesKept, StepOverKept, StepFailedKept, SpSummonStepsKept, SpSummonSendsKept,
   SpSummonCountedKept, SpSummonGoesOn, SpSummonSucceededKept
   DEF SpecialSummon

LEMMA Unchanged ==
  ASSUME IInv, UNCHANGED vars
  PROVE  IInv'
<1>1. /\ units' = units /\ cards' = cards /\ core' = core /\ setting' = setting
      /\ seen' = seen
  BY DEF vars
<1>2. Types' BY <1>1 DEF IInv, Types
<1>3. Control'
  <2>1. Waiting' BY <1>1 DEF IInv, Control, Waiting, Waits, Sets
  <2> QED BY <1>1, <2>1, ControlStill DEF IInv
<1>4. Half' BY <1>1, CardsSame, HalfStill DEF IInv, Levelled
<1>5. Zones' BY <1>1 DEF IInv, Zones
<1> QED BY <1>2, <1>3, <1>4, <1>5 DEF IInv

LEMMA Invariant ==
  ASSUME IInv, [Next]_vars
  PROVE  IInv'
<1>1. CASE Next
  BY <1>1, StartingKept, ChainingKept, NormalSummonKept, SettingKept, SpecialSummonKept,
     Unchanged
     DEF Next, Done
<1> QED BY <1>1, Unchanged

-----------------------------------------------------------------------------
(* What follows from it. *)

LEMMA ActiveSummons ==
  ASSUME IInv
  PROVE  core.summon_depth <= Cardinality({i \in DOMAIN units : units[i].kind = "Summon"})
<1>1. PICK S : S = {i \in DOMAIN units : units[i].kind = "Summon"} OBVIOUS
<1>2. DOMAIN units = 1 .. Len(units) /\ Len(units) \in Nat BY OldTypes
<1>3. IsFiniteSet(S)
  <2>1. S \subseteq 1 .. Len(units) BY <1>1, <1>2
  <2>2. IsFiniteSet(1 .. Len(units)) BY <1>2, FS_Interval
  <2> QED BY <2>1, <2>2, FS_Subset
<1>4. ActiveAt(units) \subseteq S BY <1>1, <1>2 DEF ActiveAt, Active
<1>5. Cardinality(ActiveAt(units)) <= Cardinality(S) BY <1>3, <1>4, FS_Subset
<1> QED BY <1>1, <1>5 DEF IInv, Control, Depth

LEMMA Typed == ASSUME IInv PROVE TypeOK
<1>1. /\ units \in Seq(UnitType) /\ CardsOK(cards) /\ core \in CoreType /\ Len(units) \in Nat
      /\ DOMAIN units = 1 .. Len(units) /\ setting \in AllSettings
      /\ \A i \in 1 .. Len(units) : units[i] \in UnitType /\ Sane(units[i])
  BY OldTypes DEF IInv, Types
<1>2. \A c \in Cards : /\ cards[c].loc \in Locations /\ cards[c].seq \in Seqs
                       /\ cards[c].summoning => c \notin Spells
  BY <1>1 DEF CardsOK, CardType
<1>3. \A i \in 1 .. Len(units) :
        /\ units[i].target \in Cards \cup {None}
        /\ units[i].group \subseteq Cards \cup {None} /\ units[i].rest \subseteq units[i].group
  BY <1>1 DEF UnitType, Members, Sane
<1>4. core.summon_depth \in Nat /\ core.chain \in 0 .. setting.links
  BY <1>1 DEF CoreType, AllSettings, IInv, Control, Chained
<1>5. core.reserved # <<>> => \E i \in DOMAIN units : units[i].kind = "Solve"
  BY <1>1 DEF IInv, Control, Waiting
<1> QED BY <1>1, <1>2, <1>3, <1>4, <1>5, ActiveSummons DEF TypeOK

LEMMA WithinLimit == ASSUME IInv PROVE SummonLimit
BY DEF IInv, Control, Limited, Unlimited, Sets, SummonLimit

LEMMA SettledOnce == ASSUME IInv PROVE Settled
<1> SUFFICES ASSUME units = <<>>
             PROVE  /\ core.summon_depth = 0 /\ core.reserved = <<>> /\ ~seen.promised
                    /\ core.special_summoning = {} /\ core.ss_tograve = {}
                    /\ \A c \in Cards :
                         /\ ~cards[c].summoning /\ ~cards[c].spsummon_step
                         /\ cards[c].loc = "MZONE" /\ ~cards[c].facedown => cards[c].enabled
                    /\ \A c \in Cards \ seen.left :
                         cards[c].loc = "SZONE" <=>
                           \E q \in Seqs : core.szone[q] = c /\ cards[c].seq = q
                    /\ core.state_count = IF setting.oath_old THEN seen.tries ELSE seen.successes
  BY DEF Settled, Idle
<1>1. Len(units) = 0 /\ \A i \in 1 .. Len(units) : FALSE BY EmptySeq
<1>2. core.special_summoning = {} /\ core.ss_tograve = {} BY <1>1 DEF IInv, Half, Opened
<1>3. core.reserved = <<>> /\ ~seen.promised BY <1>1 DEF IInv, Control, Waiting
<1>4. \A c \in Cards : /\ ~cards[c].summoning /\ ~cards[c].spsummon_step
                       /\ cards[c].loc = "MZONE" /\ ~cards[c].facedown => cards[c].enabled
  BY <1>1, <1>2 DEF IInv, Half, Asked, Stepped, Faceup, Bare
<1>5. /\ core.summon_depth = 0
      /\ core.state_count = IF setting.oath_old THEN seen.tries ELSE seen.successes
  <2>1. ActiveAt(units) = {} /\ CountingAt(units) = {} /\ Cardinality({}) = 0
    BY <1>1, FS_EmptySet DEF ActiveAt, CountingAt
  <2>2. Depth /\ Tallied /\ seen.successes \in Nat BY OldTypes DEF IInv, Control
  <2> QED BY <2>1, <2>2 DEF Depth, Tallied
<1>6. ASSUME NEW c \in Cards \ seen.left
      PROVE  cards[c].loc = "SZONE" <=>
               \E q \in Seqs : core.szone[q] = c /\ cards[c].seq = q
  <2>1. cards[c].seq \in Seqs BY OldTypes DEF CardsOK, CardType
  <2>2. Laid(core, cards, seen.left) BY DEF IInv, Zones
  <2> QED BY <2>1, <2>2 DEF Laid
<1> QED BY <1>2, <1>3, <1>4, <1>5, <1>6

(* The variables have values that the code can give them: the depth is at
   most the number of SummonRules, no chain is longer than it may be, and
   what waits for the end of a chain has one to wait for (processor.cpp,
   operations.cpp: the units of summons and of sets). *)
THEOREM SummonsTypeCorrect == Spec => []TypeOK
<1>1. Init => IInv BY Beginning
<1>2. IInv /\ [Next]_vars => IInv' BY Invariant
<1>3. IInv => TypeOK BY Typed
<1> QED BY <1>1, <1>2, <1>3, PTL DEF Spec

(* However summons and sets interrupt each other, no more monsters are
   Normal Summoned and set in a turn than may be: of the summons inside one
   another only the outermost is counted (SummonRule, steps 8 and 10,
   operations.cpp:2136 and 2194), and nothing was counted since it was
   allowed.  Left out are the duels in which a MonsterSet can be
   interrupted: it takes no part in the depth. *)
THEOREM SummonLimitCorrect == Spec => []SummonLimit
<1>1. Init => IInv BY Beginning
<1>2. IInv /\ [Next]_vars => IInv' BY Invariant
<1>3. IInv => SummonLimit BY WithinLimit
<1> QED BY <1>1, <1>2, <1>3, PTL DEF Spec

(* Whenever no unit is left, nothing of the summons is: no depth, no unit
   that waited for a chain, no card that is being summoned or is on the
   field without its effects, no set card in a zone that is not its own,
   and all that were summoned are counted. *)
THEOREM SettledCorrect == Spec => []Settled
<1>1. Init => IInv BY Beginning
<1>2. IInv /\ [Next]_vars => IInv' BY Invariant
<1>3. IInv => Settled BY SettledOnce
<1> QED BY <1>1, <1>2, <1>3, PTL DEF Spec

==============================================================================
