---------------------------- MODULE SummonsSteps -----------------------------
(* Proofs about Summons: the steps of summons, and of sets of monsters, keep
   the invariant, and so do the moves of cards. *)
EXTENDS SummonsInvariant

-----------------------------------------------------------------------------
(* Steps that only go on. *)

Quiet == UNCHANGED <<cards, core, setting, seen>>
Calls(b) == Batch(b) /\ \A i \in 1 .. Len(b) : b[i].kind # "ToField"
Passes(u, v) ==
  /\ Keeps(u) /\ Keeps(v) /\ Succeeds(u, v) /\ u.kind \notin {"ToField", "ToGrave"}
  /\ ~Prompt(v) /\ (Live(v) <=> Live(u)) /\ (Outside(v) => Outside(u))
  /\ Claims(v) => Claims(u) \/ core.summon_count < Limit
  /\ Active(v) <=> Active(u)
  /\ Counting(v) <=> Counting(u)
  /\ \A c \in Cards : /\ Window(u, c) => Window(v, c)
                      /\ Grouped(u, c) => Grouped(v, c)
                      /\ Moved(u, c) => Moved(v, c)
Passed(u) ==
  /\ Keeps(u) /\ u.kind \notin {"ToField", "ToGrave", "Solve"} /\ ~Active(u) /\ ~Counting(u)
  /\ \A c \in Cards : ~Window(u, c) /\ ~Grouped(u, c) /\ ~Moved(u, c)

LEMMA QuietFacts ==
  ASSUME IInv, Quiet
  PROVE  /\ DataOK /\ Apart /\ Levelled /\ Calm /\ Tallies(0)
         /\ core'.summon_count = core.summon_count /\ core'.summon_depth = core.summon_depth
         /\ core.summon_depth \in Nat
<1>1. DataOK BY DEF IInv, Types, DataOK, Quiet, CardsOK
<1>2. Apart /\ Levelled /\ Calm BY DEF Quiet, Apart, Levelled, Calm
<1>3. seen \in SeenType /\ core \in CoreType /\ core' = core /\ seen' = seen
  BY DEF IInv, Types, Quiet
<1>4. Tallies(0) BY <1>3 DEF Tallies, SeenType, CoreType
<1>5. core.summon_depth \in Nat BY <1>3 DEF CoreType
<1> QED BY <1>1, <1>2, <1>3, <1>4, <1>5

LEMMA Called ==
  ASSUME IInv, units # <<>>, NEW b, Calls(b), NEW u \in UnitType, NEW s \in Nat,
         GoOnAs(u, s, b)
  PROVE  /\ Continues(Now(u, s), Len(b)) /\ Len(b) \in Nat /\ Now(u, s) \in UnitType
         /\ Len(b) > 0 => units'[1] = b[1] /\ units'[1].kind # "ToField"
<1>1. units \in Seq(UnitType) BY DEF IInv, Types
<1>2. Batch(b) /\ b \in Seq(UnitType) BY DEF Calls, Batch
<1>3. Continues(Now(u, s), Len(b)) /\ Len(b) \in Nat /\ Now(u, s) \in UnitType
  BY <1>1, <1>2, Continued
<1>4. \A i \in 1 .. Len(b) : units'[i] = b[i] BY <1>1, <1>2, GoneOn
<1> QED BY <1>3, <1>4 DEF Calls

LEMMA CalledLast ==
  ASSUME IInv, units # <<>>, NEW b, Calls(b), Finish(b)
  PROVE  /\ Ends(Len(b)) /\ Len(b) \in Nat
         /\ Len(b) > 0 => units'[1] = b[1] /\ units'[1].kind # "ToField"
<1>1. units \in Seq(UnitType) BY DEF IInv, Types
<1>2. Batch(b) /\ b \in Seq(UnitType) BY DEF Calls, Batch
<1>3. Ends(Len(b)) /\ Len(b) \in Nat BY <1>1, <1>2, Ended
<1>4. \A i \in 1 .. Len(b) : units'[i] = b[i] BY <1>1, <1>2, Finished
<1> QED BY <1>3, <1>4 DEF Calls

LEMMA NoCalls == Calls(<<>>) /\ Len(<<>>) = 0
BY NoBatch DEF Calls

LEMMA InterruptCalls ==
  Calls(Interrupt) /\ Idled(Len(Interrupt))
<1>1. Effect.kind # "ToField" BY Units
<1> QED BY <1>1, Interrupts DEF Calls

LEMMA QuietGoesOn ==
  ASSUME IInv, units # <<>>, NEW b, Calls(b), NEW u \in UnitType, NEW s \in Nat,
         GoOnAs(u, s, b), Quiet, NEW v, v = Now(u, s), Sane(v), Passes(Front, v),
         Busy(v) => Idled(Len(b))
  PROVE  IInv'
<1>1. PICK n : n = Len(b) OBVIOUS
<1>2. /\ Continues(v, n) /\ n \in Nat
      /\ n > 0 => units'[1].kind # "ToField"
  BY <1>1, Called
<1>3. Follows(Front, v, n) BY <1>1, <1>2 DEF Passes, Follows, Prompt, Ready, Busy, Idled
<1>4. Shows(v, n) BY DEF Passes, Quiet, Shows, Bare
<1>5. /\ core'.summon_depth = core.summon_depth - One(Active(Front)) + One(Active(v))
      /\ One(Counting(v)) - One(Counting(Front)) = 0
  BY QuietFacts DEF Passes, One
<1>6. n > 0 => ~Lays(units'[1]) BY <1>2 DEF Lays
<1>7. Keeps(Front) /\ Keeps(v) /\ ~Lays(Front) /\ v.kind # "ToField"
  BY DEF Passes, Succeeds, Lays
<1> QED BY <1>2, <1>3, <1>4, <1>5, <1>6, <1>7, QuietFacts, GoesOn

LEMMA QuietIsOver ==
  ASSUME IInv, units # <<>>, NEW b, Calls(b), Finish(b), Quiet, Passed(Front)
  PROVE  IInv'
<1>1. PICK n : n = Len(b) OBVIOUS
<1>2. /\ Ends(n) /\ n \in Nat
      /\ n > 0 => units'[1].kind # "ToField"
  BY <1>1, CalledLast
<1>3. Leaves(Front, n) /\ Keeps(Front) /\ ~Lays(Front) BY DEF Passed, Leaves, Lays
<1>5. /\ core'.summon_depth = core.summon_depth - One(Active(Front))
      /\ 0 - One(Counting(Front)) = 0
  <2>1. One(Active(Front)) = 0 /\ One(Counting(Front)) = 0 BY DEF Passed, One
  <2>2. core'.summon_depth = core.summon_depth /\ core.summon_depth \in Nat
    BY QuietFacts
  <2> QED BY <2>1, <2>2
<1>6. \A c \in Cards : /\ cards'[c].summoning => cards[c].summoning /\ ~Window(Front, c)
                       /\ cards'[c].spsummon_step => cards[c].spsummon_step /\ ~Grouped(Front, c)
                       /\ Bare(c)' => Bare(c) /\ ~Moved(Front, c)
  BY DEF Passed, Quiet, Bare
<1> QED BY <1>2, <1>3, <1>5, <1>6, QuietFacts, IsOver

-----------------------------------------------------------------------------
(* The steps that only go on. *)

LEMMA NowFields ==
  ASSUME NEW u \in UnitType, NEW s \in Nat, NEW v, v = Now(u, s)
  PROVE  /\ v \in UnitType /\ v.kind = u.kind /\ v.step = s /\ v.target = u.target
         /\ v.group = u.group /\ v.rest = u.rest /\ v.ignore_count = u.ignore_count
         /\ v.extra = u.extra
BY DEF Now, UnitType

Passing(k, r, s) ==
  \/ /\ k = "Summon"
     /\ \/ r = 2 /\ s = 4
        \/ r = 4 /\ s = 5
        \/ r = 5 /\ s \in {6, 7, 10}
        \/ r = 7 /\ s = 8
        \/ r \in {13, 15} /\ s = 16
        \/ r = 17 /\ s = 18
  \/ /\ k = "Flip"
     /\ \/ r = 0 /\ s = 1
        \/ r = 2 /\ s = 3
  \/ /\ k = "MSet"
     /\ \/ r = 2 /\ s = 4
        \/ r = 4 /\ s \in {5, 6}
        \/ r = 6 /\ s = 7
        \/ r = 7 /\ s = 8
  \/ /\ k = "Rule"
     /\ \/ r \in 0 .. 3 /\ s = r + 1
        \/ r = 5 /\ s = 7
        \/ r \in {7, 11} /\ s = 15
        \/ r = 16 /\ s = 17
  \/ k = "SpSummon" /\ r = 3 /\ s = 4
  \/ k = "Solve" /\ r = 0 /\ s = 10

LEMMA PassingOn ==
  ASSUME NEW u \in UnitType, Sane(u), NEW s \in Nat, NEW v, v = Now(u, s),
         Passing(u.kind, u.step, s)
  PROVE  Sane(v) /\ Passes(u, v)
<1>1. /\ v.kind = u.kind /\ v.step = s /\ v.target = u.target /\ v.group = u.group
      /\ v.rest = u.rest /\ v.ignore_count = u.ignore_count /\ v.extra = u.extra
      /\ u.step \in Nat
  BY NowFields DEF UnitType
<1>2. Sane(v) BY <1>1 DEF Sane, Passing
<1>3. /\ Keeps(u) /\ Keeps(v) /\ u.kind \notin {"ToField", "ToGrave"}
      /\ ~Prompt(v) /\ (Live(v) <=> Live(u)) /\ (Outside(v) => Outside(u))
  BY <1>1 DEF Passing, Keeps, Free, Other, Sends, Opens, Prompt, Live, Outside
<1>4. /\ Claims(v) => Claims(u)
      /\ Active(v) <=> Active(u)
      /\ Counting(v) <=> Counting(u)
  BY <1>1 DEF Passing, Claims, Busy, Active, Counting
<1>5. \A c \in Cards : /\ Window(u, c) => Window(v, c)
                       /\ Grouped(u, c) => Grouped(v, c)
                       /\ Moved(u, c) => Moved(v, c)
  BY <1>1 DEF Passing, Window, Grouped, Moved
<1> QED BY <1>1, <1>2, <1>3, <1>4, <1>5 DEF Passes, Succeeds

LEMMA PassedOn ==
  ASSUME IInv, NEW k, NEW r \in Nat, At(k, r), NEW s \in Nat, NEW b, GoOn(s, b), Calls(b),
         k \in {"Summon", "MSet"} => Idled(Len(b)), Quiet, Passing(k, r, s)
  PROVE  IInv'
<1>1. units # <<>> /\ Front.kind = k /\ Front.step = r /\ GoOnAs(Front, s, b)
  BY DEF At, GoOn
<1>2. Front \in UnitType /\ Sane(Front) BY <1>1, FrontTypes
<1>3. PICK v : v = Now(Front, s) OBVIOUS
<1>4. Sane(v) /\ Passes(Front, v) BY <1>1, <1>2, <1>3, PassingOn
<1>5. Busy(v) => Idled(Len(b)) BY <1>1, <1>4 DEF Busy, Passes, Succeeds
<1> QED BY <1>1, <1>2, <1>3, <1>4, <1>5, QuietGoesOn

LEMMA Idling == Idled(Len(<<>>)) /\ Idled(Len(Interrupt)) /\ Calls(<<>>) /\ Calls(Interrupt)
BY NoCalls, InterruptCalls DEF Idled

LEMMA GoingOn ==
  ASSUME IInv, NEW k, NEW r \in Nat, At(k, r), NEW s \in Nat,
         GoOn(s, <<>>) \/ GoOn(s, Interrupt), Quiet, Passing(k, r, s)
  PROVE  IInv'
BY Idling, PassedOn

LEMMA SummonGoesOn ==
  ASSUME IInv, SummonTarget \/ SummonOperation \/ SummonMaterials
  PROVE  IInv'
<1>1. CASE SummonTarget
  <2>1. At("Summon", 4) /\ GoOn(5, Interrupt) /\ Quiet BY <1>1 DEF SummonTarget, Quiet
  <2>2. Passing("Summon", 4, 5) BY DEF Passing
  <2> QED BY <2>1, <2>2, GoingOn
<1>2. CASE SummonOperation
  <2>1. At("Summon", 7) /\ GoOn(8, Interrupt) /\ Quiet
    BY <1>2 DEF SummonOperation, Quiet
  <2>2. Passing("Summon", 7, 8) BY DEF Passing
  <2> QED BY <2>1, <2>2, GoingOn
<1>3. CASE SummonMaterials
  <2>1. At("Summon", 17) /\ GoOn(18, Interrupt) /\ Quiet
    BY <1>3 DEF SummonMaterials, Quiet
  <2>2. Passing("Summon", 17, 18) BY DEF Passing
  <2> QED BY <2>1, <2>2, GoingOn
<1> QED BY <1>1, <1>2, <1>3

LEMMA SetGoesOn ==
  ASSUME IInv, SetTarget
  PROVE  IInv'
<1>1. At("MSet", 6) /\ GoOn(7, Interrupt) /\ Quiet BY DEF SetTarget, Quiet
<1>2. Passing("MSet", 6, 7) BY DEF Passing
<1> QED BY <1>1, <1>2, GoingOn

LEMMA RuleGoesOn ==
  ASSUME IInv, RuleTarget \/ RuleOperation \/ RuleSummoning \/ RuleMaterials
  PROVE  IInv'
<1>1. CASE RuleTarget
  <2>1. At("Rule", 1) /\ GoOn(2, Interrupt) /\ Quiet BY <1>1 DEF RuleTarget, Quiet
  <2>2. Passing("Rule", 1, 2) BY DEF Passing
  <2> QED BY <2>1, <2>2, GoingOn
<1>2. CASE RuleOperation
  <2>1. At("Rule", 3) /\ GoOn(4, Interrupt) /\ Quiet BY <1>2 DEF RuleOperation, Quiet
  <2>2. Passing("Rule", 3, 4) BY DEF Passing
  <2> QED BY <2>1, <2>2, GoingOn
<1>3. CASE RuleSummoning
  <2>1. At("Rule", 5) /\ GoOn(7, Interrupt) /\ Quiet BY <1>3 DEF RuleSummoning, Quiet
  <2>2. Passing("Rule", 5, 7) BY DEF Passing
  <2> QED BY <2>1, <2>2, GoingOn
<1>4. CASE RuleMaterials
  <2>1. At("Rule", 16) /\ GoOn(17, Interrupt) /\ Quiet BY <1>4 DEF RuleMaterials, Quiet
  <2>2. Passing("Rule", 16, 17) BY DEF Passing
  <2> QED BY <2>1, <2>2, GoingOn
<1> QED BY <1>1, <1>2, <1>3, <1>4

LEMMA SpSummonGoesOn ==
  ASSUME IInv, SpSummonMaterials
  PROVE  IInv'
<1>1. At("SpSummon", 3) /\ GoOn(4, Interrupt) /\ Quiet BY DEF SpSummonMaterials, Quiet
<1>2. Passing("SpSummon", 3, 4) BY DEF Passing
<1> QED BY <1>1, <1>2, GoingOn

-----------------------------------------------------------------------------
(* What is put on the stack. *)

LEMMA OneCall ==
  ASSUME NEW u \in UnitType, Brief(u), u.kind # "ToField"
  PROVE  Calls(<<u>>) /\ Len(<<u>>) = 1 /\ <<u>>[1] = u
<1>1. Batch(<<u>>) /\ Len(<<u>>) = 1 BY OneBatch
<1> QED BY <1>1 DEF Calls

LEMMA TwoCalls ==
  ASSUME NEW u \in UnitType, Brief(u), NEW w \in UnitType, Brief(w), ~Prompt(w),
         u.kind # "ToField", w.kind # "ToField"
  PROVE  Calls(<<u>> \o <<w>>) /\ Len(<<u>> \o <<w>>) = 2 /\ (<<u>> \o <<w>>)[1] = u
<1>1. PICK b : b = <<u>> \o <<w>> OBVIOUS
<1>2. Batch(b) /\ Len(b) = 2 /\ b[1] = u /\ b[2] = w BY <1>1, TwoBatch
<1>3. \A i \in 1 .. Len(b) : b[i].kind # "ToField" BY <1>2
<1> QED BY <1>1, <1>2, <1>3 DEF Calls

LEMMA EffectCalls == Calls(<<Effect>>)
<1>1. Brief(Effect) /\ Effect \in UnitType /\ Effect.kind # "ToField" BY Units DEF Brief
<1> QED BY <1>1, OneCall

LEMMA NoticeCalls ==
  ASSUME core.chain = 0 \/ (Outside(Front) /\ ~Live(Front))
  PROVE  Calls(<<PointEvent>>) /\ Calls(Interrupt \o <<PointEvent>>)
<1>1. /\ Brief(Effect) /\ Effect \in UnitType /\ Brief(PointEvent) /\ PointEvent \in UnitType
      /\ ~Prompt(PointEvent) /\ Effect.kind # "ToField" /\ PointEvent.kind # "ToField"
  BY Units DEF Brief, Prompt
<1>2. Calls(<<PointEvent>>) BY <1>1, OneCall
<1>3. CASE setting.interrupted BY <1>1, <1>2, <1>3, TwoCalls DEF Interrupt
<1>4. CASE ~setting.interrupted
  <2>1. <<PointEvent>> \in Seq(UnitType) BY <1>2 DEF Calls, Batch
  <2>2. <<>> \o <<PointEvent>> = <<PointEvent>> BY <2>1, ConcatEmptySeq
  <2> QED BY <1>2, <1>4, <2>2 DEF Interrupt
<1> QED BY <1>2, <1>3, <1>4

LEMMA AfterwardsCalls == Calls(AfterSummon)
<1>1. CASE core.chain = 0 BY <1>1, NoticeCalls DEF AfterSummon
<1>2. CASE core.chain # 0
  <2>1. Interrupt \in Seq(UnitType) /\ Calls(Interrupt) BY Interrupts, Idling DEF Batch
  <2>2. Interrupt \o <<>> = Interrupt BY <2>1, ConcatEmptySeq
  <2> QED BY <1>2, <2>1, <2>2 DEF AfterSummon
<1> QED BY <1>1, <1>2

LEMMA Graves ==
  ASSUME NEW S \in SUBSET Monsters, NEW u, u = SendToGrave(S)
  PROVE  /\ u \in UnitType /\ Brief(u) /\ u.kind = "ToGrave" /\ u.group = S
         /\ u.kind # "ToField" /\ Calls(<<u>>) /\ Len(<<u>>) = 1 /\ <<u>>[1] = u
<1>1. /\ u \in UnitType /\ u.kind = "ToGrave" /\ u.group = S /\ u.step = 0 /\ u.rest = {}
  <2>1. PICK w : w = Unit("ToGrave", 0, None) OBVIOUS
  <2>2. w \in UnitType /\ w.kind = "ToGrave" /\ w.step = 0 /\ w.rest = {}
    BY <2>1 DEF Unit, UnitType, Kinds, Members
  <2>3. u = [w EXCEPT !.group = S] /\ S \in SUBSET Members
    BY <2>1 DEF SendToGrave, GroupUnit, Members, Monsters
  <2> QED BY <2>2, <2>3 DEF UnitType
<1>2. Brief(u) BY <1>1 DEF Brief, Sane
<1> QED BY <1>1, <1>2, OneCall

(* What a summon that was negated leaves. *)
Sent(S) == IF S = {} THEN <<>> ELSE <<SendToGrave(S)>>
Told(S) == Sent(S) \o <<PointEvent>>
LEMMA NegatedCalls ==
  ASSUME core.chain = 0 \/ (Outside(Front) /\ ~Live(Front)), NEW S \in SUBSET Monsters,
         NEW b, b = Told(S)
  PROVE  /\ Calls(b) /\ Len(b) \in Nat \ {0}
         /\ S # {} => b[1].kind = "ToGrave" /\ b[1].group = S
<1>1. PICK u : u = SendToGrave(S) OBVIOUS
<1>2. /\ u \in UnitType /\ Brief(u) /\ u.kind = "ToGrave" /\ u.group = S
      /\ u.kind # "ToField"
  BY <1>1, Graves
<1>3. /\ Brief(PointEvent) /\ PointEvent \in UnitType
      /\ ~Prompt(PointEvent) /\ PointEvent.kind # "ToField"
  BY Units DEF Brief, Prompt
<1>4. CASE S = {}
  <2>1. Calls(<<PointEvent>>) /\ <<PointEvent>> \in Seq(UnitType) /\ Len(<<PointEvent>>) = 1
    BY <1>3, OneCall DEF Calls, Batch
  <2>2. <<>> \o <<PointEvent>> = <<PointEvent>> BY <2>1, ConcatEmptySeq
  <2> QED BY <1>4, <2>1, <2>2 DEF Sent, Told
<1>5. CASE S # {}
  <2>1. b = <<u>> \o <<PointEvent>> BY <1>1, <1>5 DEF Sent, Told
  <2>2. /\ Calls(<<u>> \o <<PointEvent>>) /\ Len(<<u>> \o <<PointEvent>>) = 2
        /\ (<<u>> \o <<PointEvent>>)[1] = u
    BY <1>2, <1>3, TwoCalls
  <2>3. Calls(b) /\ Len(b) = 2 /\ b[1] = u BY <2>1, <2>2, Zenon
  <2> QED BY <1>2, <2>3
<1> QED BY <1>4, <1>5

-----------------------------------------------------------------------------
(* The steps that only end. *)

Ending(k, r) ==
  \/ k \in {"Summon", "Flip", "RuleGroup", "Point", "Effect"} /\ r = 0
  \/ k = "MSet" /\ r \in {0, 4, 7, 10}
  \/ k = "Rule" /\ r \in {0, 2, 21}

LEMMA PassedOver ==
  ASSUME IInv, NEW k, NEW r \in Nat, At(k, r), NEW b, Finish(b), Calls(b), Quiet, Ending(k, r)
  PROVE  IInv'
<1>1. units # <<>> /\ Front.kind = k /\ Front.step = r BY DEF At
<1>2. /\ Keeps(Front) /\ Front.kind \notin {"ToField", "ToGrave", "Solve"}
      /\ ~Active(Front) /\ ~Counting(Front)
  BY <1>1 DEF Ending, Keeps, Free, Other, Sends, Opens, Active, Counting
<1>3. \A c \in Cards : ~Window(Front, c) /\ ~Grouped(Front, c) /\ ~Moved(Front, c)
  BY <1>1 DEF Ending, Window, Grouped, Moved
<1>4. Passed(Front) BY <1>2, <1>3 DEF Passed
<1> QED BY <1>1, <1>4, QuietIsOver

LEMMA EndingKept ==
  ASSUME IInv, EffectOver \/ NoChain \/ SetOver
  PROVE  IInv'
<1>1. Calls(<<>>) /\ Calls(AfterSummon) BY Idling, AfterwardsCalls
<1>2. Ending("Effect", 0) /\ Ending("Point", 0) /\ Ending("MSet", 10) BY DEF Ending
<1>3. CASE EffectOver
  <2>1. At("Effect", 0) /\ Finish(<<>>) /\ Quiet BY <1>3 DEF EffectOver, Quiet
  <2> QED BY <1>1, <1>2, <2>1, PassedOver
<1>4. CASE NoChain
  <2>1. At("Point", 0) /\ Finish(<<>>) /\ Quiet BY <1>4 DEF NoChain, Quiet
  <2> QED BY <1>1, <1>2, <2>1, PassedOver
<1>5. CASE SetOver
  <2>1. At("MSet", 10) /\ Finish(AfterSummon) /\ Quiet BY <1>5 DEF SetOver, Quiet
  <2> QED BY <1>1, <1>2, <2>1, PassedOver
<1> QED BY <1>3, <1>4, <1>5

LEMMA LinkActsKept ==
  ASSUME IInv, LinkActs
  PROVE  IInv'
<1>1. At("Solve", 0) /\ GoOn(10, <<Effect>>) /\ Quiet BY DEF LinkActs, Quiet
<1>2. Passing("Solve", 0, 10) BY DEF Passing
<1> QED BY <1>1, <1>2, EffectCalls, PassedOn

LEMMA CheckedOrCosts ==
  ASSUME IInv, FlipChecked \/ RuleChecked \/ RuleCosts \/ SetOperation \/ SetCosts
  PROVE  IInv'
<1>1. Calls(<<>>) BY Idling
<1>2. CASE FlipChecked
  <2>1. At("Flip", 0) /\ (GoOn(1, Interrupt) \/ Finish(<<>>)) /\ Quiet
    BY <1>2 DEF FlipChecked, Quiet
  <2>2. Passing("Flip", 0, 1) /\ Ending("Flip", 0) BY DEF Passing, Ending
  <2> QED BY <1>1, <2>1, <2>2, GoingOn, PassedOver
<1>3. CASE RuleChecked
  <2>1. At("Rule", 0) /\ (GoOn(1, <<>>) \/ Finish(<<>>)) /\ Quiet
    BY <1>3 DEF RuleChecked, Quiet
  <2>2. Passing("Rule", 0, 1) /\ Ending("Rule", 0) BY DEF Passing, Ending
  <2> QED BY <1>1, <2>1, <2>2, GoingOn, PassedOver
<1>4. CASE RuleCosts
  <2>1. At("Rule", 2) /\ (GoOn(3, Interrupt) \/ Finish(<<>>)) /\ Quiet
    BY <1>4 DEF RuleCosts, Quiet
  <2>2. Passing("Rule", 2, 3) /\ Ending("Rule", 2) BY DEF Passing, Ending
  <2> QED BY <1>1, <2>1, <2>2, GoingOn, PassedOver
<1>5. CASE SetOperation
  <2>1. At("MSet", 7) /\ (GoOn(8, Interrupt) \/ Finish(<<>>)) /\ Quiet
    BY <1>5 DEF SetOperation, Quiet
  <2>2. Passing("MSet", 7, 8) /\ Ending("MSet", 7) BY DEF Passing, Ending
  <2> QED BY <1>1, <2>1, <2>2, GoingOn, PassedOver
<1>6. CASE SetCosts
  <2>1. /\ At("MSet", 4) /\ Quiet
        /\ GoOn(6, Interrupt) \/ GoOn(5, Interrupt) \/ Finish(<<>>)
    BY <1>6 DEF SetCosts, Quiet
  <2>2. Passing("MSet", 4, 6) /\ Passing("MSet", 4, 5) /\ Ending("MSet", 4)
    BY DEF Passing, Ending
  <2> QED BY <1>1, <2>1, <2>2, GoingOn, PassedOver
<1> QED BY <1>2, <1>3, <1>4, <1>5, <1>6

(* A summon that was negated is over, and its card goes to the grave. *)
LEMMA NegatedOver ==
  ASSUME IInv, NEW k, NEW r \in Nat, At(k, r), Negated, Quiet, ~Target.summoning,
         \/ k = "Summon" /\ r = 15
         \/ k = "Flip" /\ r = 2
         \/ k = "Rule" /\ r = 11
  PROVE  IInv'
<1>1. /\ units # <<>> /\ Front.kind = k /\ Front.step = r BY DEF At
<1>2. Sane(Front) /\ Front.target \in Monsters /\ Monsters \subseteq Cards
  BY <1>1, FrontTypes, ConstantsAssumption DEF Sane, Monsters
<1>3. PICK S : S = (IF Target.loc = "MZONE" THEN {Front.target} ELSE {}) OBVIOUS
<1>4. PICK b : b = Told(S) OBVIOUS
<1>5. Finish(b)
  <2>1. CASE Target.loc = "MZONE" BY <1>3, <1>4, <2>1 DEF Negated, Sent, Told
  <2>2. CASE Target.loc # "MZONE" BY <1>3, <1>4, <2>2 DEF Negated, Sent, Told
  <2> QED BY <2>1, <2>2
<1>6. S \in SUBSET Monsters BY <1>2, <1>3
<1>7. Outside(Front) /\ ~Live(Front) BY <1>1 DEF Outside, Live
<1>8. Calls(b) /\ Len(b) \in Nat \ {0} /\ (S # {} => b[1].kind = "ToGrave" /\ b[1].group = S)
  BY <1>4, <1>6, <1>7, NegatedCalls
<1>9. PICK n : n = Len(b) OBVIOUS
<1>10. Ends(n) /\ n \in Nat /\ n > 0 /\ units'[1] = b[1] /\ units'[1].kind # "ToField"
  BY <1>1, <1>5, <1>8, <1>9, CalledLast
<1>11. Keeps(Front) /\ ~Lays(Front) /\ Leaves(Front, n)
  BY <1>1 DEF Keeps, Free, Other, Sends, Opens, Lays, Leaves
<1>12. /\ core'.summon_depth = core.summon_depth - One(Active(Front))
       /\ 0 - One(Counting(Front)) = 0
  <2>1. One(Active(Front)) = 0 /\ One(Counting(Front)) = 0
    BY <1>1 DEF Active, Counting, One
  <2>2. core'.summon_depth = core.summon_depth /\ core.summon_depth \in Nat
    BY QuietFacts
  <2> QED BY <2>1, <2>2
<1>13. \A c \in Cards : cards'[c].summoning => cards[c].summoning /\ ~Window(Front, c)
  BY <1>1 DEF Window, Quiet, Target
<1>14. \A c \in Cards : cards'[c].spsummon_step => cards[c].spsummon_step /\ ~Grouped(Front, c)
  BY <1>1 DEF Grouped, Quiet
<1>15. \A c \in Cards : Bare(c)' =>
         (Bare(c) /\ ~Moved(Front, c)) \/ (n > 0 /\ Moved(units'[1], c))
  <2> TAKE c \in Cards
  <2>0. Bare(c)' => Bare(c) BY DEF Quiet, Bare
  <2> SUFFICES ASSUME Bare(c)', Moved(Front, c) PROVE Moved(units'[1], c) BY <1>10, <2>0
  <2>1. c = Front.target BY <1>1 DEF Moved
  <2>2. cards[c].loc = "MZONE" BY DEF Bare, Quiet
  <2>3. S = {c} BY <1>3, <2>1, <2>2 DEF Target
  <2> QED BY <1>8, <1>10, <2>3 DEF Moved
<1>16. \A c \in Cards : Bare(c)' =>
         \/ Bare(c) /\ ~Moved(Front, c)
         \/ \E j \in 1 + 1 .. Len(units) : Pending(units, j, c)
         \/ n > 0 /\ Moved(units'[1], c)
  BY <1>15
<1> QED BY <1>1, <1>10, <1>11, <1>12, <1>13, <1>14, <1>16, QuietFacts, IsOver

LEMMA AskedKept ==
  ASSUME IInv, SummonAsked \/ FlipAsked \/ RuleAsked
  PROVE  IInv'
<1>1. CASE SummonAsked
  <2>1. /\ At("Summon", 15) /\ Quiet
        /\ GoOn(16, <<>>) \/ (~Target.summoning /\ Negated)
    BY <1>1 DEF SummonAsked, Quiet
  <2>2. Passing("Summon", 15, 16) BY DEF Passing
  <2> QED BY <2>1, <2>2, GoingOn, NegatedOver
<1>2. CASE FlipAsked
  <2>1. /\ At("Flip", 2) /\ Quiet
        /\ GoOn(3, <<>>) \/ (~Target.summoning /\ Negated)
    BY <1>2 DEF FlipAsked, Quiet
  <2>2. Passing("Flip", 2, 3) BY DEF Passing
  <2> QED BY <2>1, <2>2, GoingOn, NegatedOver
<1>3. CASE RuleAsked
  <2>1. /\ At("Rule", 11) /\ Quiet
        /\ GoOn(15, <<>>) \/ (~Target.summoning /\ Negated)
    BY <1>3 DEF RuleAsked, Quiet
  <2>2. Passing("Rule", 11, 15) BY DEF Passing
  <2> QED BY <2>1, <2>2, GoingOn, NegatedOver
<1> QED BY <1>1, <1>2, <1>3

-----------------------------------------------------------------------------
(* The steps in which cards are chosen. *)

Given(u, G) == [u EXCEPT !.group = G]
LEMMA GivenFields ==
  ASSUME NEW u \in UnitType, NEW G \in SUBSET Members, NEW s \in Nat,
         NEW w, w = Given(u, G), NEW v, v = Now(w, s)
  PROVE  /\ w \in UnitType /\ v \in UnitType /\ v.kind = u.kind /\ v.step = s
         /\ v.target = u.target /\ v.group = G /\ v.rest = u.rest
         /\ v.ignore_count = u.ignore_count /\ v.extra = u.extra
BY DEF Now, Given, UnitType

LEMMA ChosenTypes ==
  ASSUME NEW c
  PROVE  Chosen(c) \subseteq SUBSET Members
BY DEF Chosen, Tributes, Members, On

LEMMA SummonTributesKept ==
  ASSUME IInv, SummonTributes
  PROVE  IInv'
<1>1. /\ At("Summon", 2) /\ Quiet /\ units # <<>> /\ Front.kind = "Summon" /\ Front.step = 2
  BY DEF SummonTributes, At, Quiet
<1>2. Front \in UnitType /\ Sane(Front) BY <1>1, FrontTypes
<1>3. CASE GoOn(4, <<>>)
  <2>1. Passing("Summon", 2, 4) BY DEF Passing
  <2> QED BY <1>1, <1>3, <2>1, GoingOn
<1>4. ASSUME NEW T \in Chosen(Front.target), GoOnAs([Front EXCEPT !.group = T], 5, <<>>)
      PROVE  IInv'
  <2>1. PICK w : w = Given(Front, T) OBVIOUS
  <2>2. PICK v : v = Now(w, 5) OBVIOUS
  <2>3. T \in SUBSET Members BY ChosenTypes
  <2>4. /\ w \in UnitType /\ v \in UnitType /\ v.kind = "Summon" /\ v.step = 5
        /\ v.target = Front.target /\ v.rest = Front.rest
        /\ v.ignore_count = Front.ignore_count /\ v.extra = Front.extra
    BY <1>1, <1>2, <2>1, <2>2, <2>3, GivenFields
  <2>5. GoOnAs(w, 5, <<>>) BY <1>4, <2>1 DEF Given
  <2>6. Sane(v) BY <1>1, <1>2, <2>4 DEF Sane
  <2>7. Passes(Front, v)
    BY <1>1, <2>4 DEF Passes, Succeeds, Keeps, Free, Other, Sends, Opens, Prompt, Live, Outside,
      Claims, Busy, Active, Counting, Window, Grouped, Moved
  <2> QED BY <1>1, <2>2, <2>4, <2>5, <2>6, <2>7, Idling, QuietGoesOn
<1> QED BY <1>3, <1>4 DEF SummonTributes

LEMMA SetTributesKept ==
  ASSUME IInv, SetTributes
  PROVE  IInv'
<1>1. /\ At("MSet", 2) /\ Quiet /\ units # <<>> /\ Front.kind = "MSet" /\ Front.step = 2
  BY DEF SetTributes, At, Quiet
<1>2. Front \in UnitType /\ Sane(Front) BY <1>1, FrontTypes
<1>3. CASE GoOn(4, <<>>)
  <2>1. Passing("MSet", 2, 4) BY DEF Passing
  <2> QED BY <1>1, <1>3, <2>1, GoingOn
<1>4. ASSUME NEW T \in Chosen(Front.target), GoOnAs([Front EXCEPT !.group = T], 4, <<>>)
      PROVE  IInv'
  <2>1. PICK w : w = Given(Front, T) OBVIOUS
  <2>2. PICK v : v = Now(w, 4) OBVIOUS
  <2>3. T \in SUBSET Members BY ChosenTypes
  <2>4. /\ w \in UnitType /\ v \in UnitType /\ v.kind = "MSet" /\ v.step = 4
        /\ v.target = Front.target /\ v.rest = Front.rest
        /\ v.ignore_count = Front.ignore_count /\ v.extra = Front.extra
    BY <1>1, <1>2, <2>1, <2>2, <2>3, GivenFields
  <2>5. GoOnAs(w, 4, <<>>) BY <1>4, <2>1 DEF Given
  <2>6. Sane(v) BY <1>1, <1>2, <2>4 DEF Sane
  <2>7. Passes(Front, v)
    BY <1>1, <2>4 DEF Passes, Succeeds, Keeps, Free, Other, Sends, Opens, Prompt, Live, Outside,
      Claims, Busy, Active, Counting, Window, Grouped, Moved
  <2> QED BY <1>1, <2>2, <2>4, <2>5, <2>6, <2>7, Idling, QuietGoesOn
<1> QED BY <1>3, <1>4 DEF SetTributes

LEMMA GroupOperationKept ==
  ASSUME IInv, GroupOperation
  PROVE  IInv'
<1>1. units # <<>> /\ Front.kind = "Rule" /\ Front.step = 20 /\ Quiet
  BY DEF GroupOperation, At, Quiet
<1>2. Front \in UnitType /\ Sane(Front) BY <1>1, FrontTypes
<1>3. PICK G \in SUBSET {c \in Cards \ Spells : cards[c].loc = "HAND"} :
        GoOnAs([Front EXCEPT !.group = G], 21, Interrupt)
  BY DEF GroupOperation
<1>4. PICK w : w = Given(Front, G) OBVIOUS
<1>5. PICK v : v = Now(w, 21) OBVIOUS
<1>6. G \in SUBSET Members /\ G \subseteq Monsters BY DEF Members, Monsters
<1>7. /\ w \in UnitType /\ v \in UnitType /\ v.kind = "Rule" /\ v.step = 21
      /\ v.target = Front.target /\ v.rest = Front.rest /\ v.group = G
  BY <1>1, <1>2, <1>4, <1>5, <1>6, GivenFields
<1>8. GoOnAs(w, 21, Interrupt) BY <1>3, <1>4 DEF Given
<1>9. Front.rest = {} BY <1>1, <1>2 DEF Sane
<1>10. Sane(v) BY <1>1, <1>2, <1>6, <1>7, <1>9 DEF Sane
<1>11. Passes(Front, v) /\ ~Busy(v)
  BY <1>1, <1>7 DEF Passes, Succeeds, Keeps, Free, Other, Sends, Opens, Prompt, Live, Outside,
    Claims, Busy, Active, Counting, Window, Grouped, Moved
<1> QED BY <1>1, <1>5, <1>7, <1>8, <1>10, <1>11, Idling, QuietGoesOn

GivenBoth(u, G, R) == [u EXCEPT !.group = G, !.rest = R]
LEMMA GivenBothFields ==
  ASSUME NEW u \in UnitType, NEW G \in SUBSET Members, NEW R \in SUBSET Cards, NEW s \in Nat,
         NEW w, w = GivenBoth(u, G, R), NEW v, v = Now(w, s)
  PROVE  /\ w \in UnitType /\ v \in UnitType /\ v.kind = u.kind /\ v.step = s
         /\ v.target = u.target /\ v.group = G /\ v.rest = R
         /\ v.ignore_count = u.ignore_count /\ v.extra = u.extra
BY DEF Now, GivenBoth, UnitType

LEMMA GroupCheckedKept ==
  ASSUME IInv, GroupChecked
  PROVE  IInv'
<1>1. /\ At("Rule", 21) /\ Quiet /\ units # <<>> /\ Front.kind = "Rule" /\ Front.step = 21
  BY DEF GroupChecked, At, Quiet
<1>2. Front \in UnitType /\ Sane(Front) BY <1>1, FrontTypes
<1>3. CASE Finish(<<>>)
  <2>1. Ending("Rule", 21) BY DEF Ending
  <2> QED BY <1>1, <1>3, <2>1, Idling, PassedOver
<1>4. CASE ~Finish(<<>>)
  <2>1. PICK G : G = Front.group \ On("MZONE") OBVIOUS
  <2>2. PICK w : w = GivenBoth(Front, G, G) OBVIOUS
  <2>3. PICK v : v = Now(w, 23) OBVIOUS
  <2>4. G \subseteq Monsters BY <1>1, <1>2, <2>1 DEF Sane
  <2>5. G \in SUBSET Members /\ G \in SUBSET Cards BY <2>4 DEF Members, Monsters
  <2>6. /\ w \in UnitType /\ v \in UnitType /\ v.kind = "Rule" /\ v.step = 23
        /\ v.group = G /\ v.rest = G
    BY <1>1, <1>2, <2>2, <2>3, <2>5, GivenBothFields
  <2>7. GoOnAs(w, 23, Interrupt) BY <1>4, <2>1, <2>2 DEF GroupChecked, GivenBoth
  <2>8. Sane(v) BY <2>4, <2>6 DEF Sane
  <2>9. Passes(Front, v) /\ ~Busy(v)
    BY <1>1, <2>6 DEF Passes, Succeeds, Keeps, Free, Other, Sends, Opens, Prompt, Live,
      Outside, Claims, Busy, Active, Counting, Window, Grouped, Moved
  <2> QED BY <1>1, <2>3, <2>6, <2>7, <2>8, <2>9, Idling, QuietGoesOn
<1> QED BY <1>3, <1>4

LEMMA RuleGroupChosenKept ==
  ASSUME IInv, RuleGroupChosen
  PROVE  IInv'
<1>1. /\ At("RuleGroup", 0) /\ Quiet /\ units # <<>>
      /\ Front.kind = "RuleGroup" /\ Front.step = 0
  BY DEF RuleGroupChosen, At, Quiet
<1>2. CASE Finish(<<>>)
  <2>1. Ending("RuleGroup", 0) BY DEF Ending
  <2> QED BY <1>1, <1>2, <2>1, Idling, PassedOver
<1>3. CASE Finish(<<Unit("Rule", 20, None)>>)
  <2>1. PICK w : w = Unit("Rule", 20, None) OBVIOUS
  <2>2. w \in UnitType /\ w.kind = "Rule" /\ w.step = 20 /\ w.group = {} /\ w.rest = {}
    BY <2>1 DEF Unit, UnitType, Kinds, Members
  <2>3. PICK v : v = Now(w, 20) OBVIOUS
  <2>4. v = w BY <2>2, <2>3 DEF Now, UnitType
  <2>5. <<>> \o <<v>> = <<v>>
    <3>1. <<v>> \in Seq(UnitType) BY <2>2, <2>4
    <3> QED BY <3>1, ConcatEmptySeq
  <2>6. GoOnAs(w, 20, <<>>)
    <3>1. units' = <<v>> \o Tail(units) BY <1>3, <2>1, <2>4 DEF Finish
    <3>2. v = [w EXCEPT !.step = 20] BY <2>3 DEF Now
    <3> QED BY <3>1, <3>2, <2>5 DEF GoOnAs
  <2>7. Sane(v) BY <2>2, <2>4 DEF Sane
  <2>8. Passes(Front, v) /\ ~Busy(v)
    BY <1>1, <2>2, <2>4 DEF Passes, Succeeds, Keeps, Free, Other, Sends, Opens, Prompt, Live,
      Outside, Claims, Busy, Active, Counting, Window, Grouped, Moved
  <2> QED BY <1>1, <2>2, <2>3, <2>6, <2>7, <2>8, Idling, QuietGoesOn
<1> QED BY <1>2, <1>3 DEF RuleGroupChosen

-----------------------------------------------------------------------------
(* Steps that change what is counted, and what cards are, but move none. *)

CoreFrame ==
  /\ core' \in CoreType /\ core'.summon_count = core.summon_count
  /\ core'.extra_summon = core.extra_summon /\ core'.chain = core.chain
  /\ core'.reserved = core.reserved /\ core'.special_summoning = core.special_summoning
  /\ core'.ss_tograve = core.ss_tograve /\ core'.szone = core.szone
  /\ core'.pre_set = core.pre_set /\ core'.set = core.set
  /\ core'.used_zones = core.used_zones /\ core'.seq = core.seq
CardsFrame ==
  /\ CardsOK(cards')
  /\ \A c \in Cards : cards'[c].loc = cards[c].loc /\ cards'[c].seq = cards[c].seq
SeenFrame ==
  /\ seen' \in SeenType /\ seen'.promised = seen.promised /\ seen.left \subseteq seen'.left
Framed == CoreFrame /\ CardsFrame /\ SeenFrame /\ setting' = setting

LEMMA Framing ==
  ASSUME Framed
  PROVE  DataOK /\ Apart /\ Levelled /\ Calm /\ core'.summon_count = core.summon_count
<1>1. DataOK BY DEF Framed, CoreFrame, CardsFrame, SeenFrame, DataOK
<1>2. Apart /\ Levelled /\ Calm
  BY DEF Framed, CoreFrame, CardsFrame, SeenFrame, Apart, Levelled, Calm
<1> QED BY <1>1, <1>2 DEF Framed, CoreFrame

LEMMA OldTypes ==
  ASSUME IInv
  PROVE  /\ units \in Seq(UnitType) /\ CardsOK(cards) /\ core \in CoreType
         /\ seen \in SeenType /\ setting \in AllSettings
         /\ core.summon_depth \in Nat /\ core.state_count \in Nat
         /\ core.summon_count \in Nat /\ seen.tries \in Nat /\ seen.successes \in Nat
         /\ setting.oath_old \in BOOLEAN
<1>1. /\ units \in Seq(UnitType) /\ CardsOK(cards) /\ core \in CoreType
      /\ seen \in SeenType /\ setting \in AllSettings
  BY DEF IInv, Types
<1> QED BY <1>1 DEF CoreType, SeenType, AllSettings

LEMMA CoreSame ==
  ASSUME IInv, core' = core
  PROVE  CoreFrame /\ core'.summon_depth = core.summon_depth
         /\ core'.state_count = core.state_count
BY OldTypes DEF CoreFrame

LEMMA CardsSame ==
  ASSUME IInv, cards' = cards
  PROVE  CardsFrame /\ \A c \in Cards : Bare(c)' = Bare(c)
BY OldTypes DEF CardsFrame, Bare

LEMMA SeenSame ==
  ASSUME IInv, seen' = seen
  PROVE  SeenFrame /\ seen'.tries = seen.tries /\ seen'.successes = seen.successes
BY OldTypes DEF SeenFrame

LEMMA DepthSet ==
  ASSUME IInv, NEW d \in Nat, core' = [core EXCEPT !.summon_depth = d]
  PROVE  /\ CoreFrame /\ core'.summon_depth = d /\ core'.state_count = core.state_count
<1>1. core \in CoreType BY OldTypes
<1> QED BY <1>1 DEF CoreFrame, CoreType

LEMMA StateSet ==
  ASSUME IInv, NEW k \in Nat, core' = [core EXCEPT !.state_count = k]
  PROVE  /\ CoreFrame /\ core'.summon_depth = core.summon_depth /\ core'.state_count = k
<1>1. core \in CoreType BY OldTypes
<1> QED BY <1>1 DEF CoreFrame, CoreType

(* What was tried or has succeeded is counted as the rule says. *)
LEMMA TalliesSame ==
  ASSUME IInv, core'.state_count = core.state_count, seen'.tries = seen.tries,
         seen'.successes = seen.successes
  PROVE  Tallies(0)
BY OldTypes DEF Tallies

LEMMA TriesTally ==
  ASSUME IInv, core'.state_count = CountedAs(TRUE), seen'.tries = seen.tries + 1,
         seen'.successes = seen.successes
  PROVE  Tallies(0)
BY OldTypes DEF Tallies, CountedAs

LEMMA SuccessTally ==
  ASSUME IInv, core'.state_count = CountedAs(FALSE), seen'.tries = seen.tries,
         seen'.successes = seen.successes + 1
  PROVE  Tallies(0)
BY OldTypes DEF Tallies, CountedAs

LEMMA CountedNat == ASSUME IInv, NEW old PROVE CountedAs(old) \in Nat
BY OldTypes DEF CountedAs

LEMMA RaisedSeen ==
  ASSUME IInv, NEW S, S \subseteq Cards, seen' = Raised(S)
  PROVE  SeenFrame /\ seen'.tries = seen.tries /\ seen'.successes = seen.successes + 1
<1>1. seen \in SeenType BY OldTypes
<1>2. PICK w : w = seen.wrong \cup Unreal(S) OBVIOUS
<1>3. w \in SUBSET Cards BY <1>1, <1>2 DEF SeenType, Unreal
<1>4. PICK m : m = [seen EXCEPT !.wrong = w] OBVIOUS
<1>5. m \in SeenType /\ m.successes = seen.successes /\ m.tries = seen.tries
      /\ m.promised = seen.promised /\ m.left = seen.left
  BY <1>1, <1>3, <1>4 DEF SeenType
<1>6. seen' = [m EXCEPT !.successes = seen.successes + 1] BY <1>2, <1>4 DEF Raised
<1> QED BY <1>1, <1>5, <1>6 DEF SeenFrame, SeenType

LEMMA TriedSeen ==
  ASSUME IInv, NEW T, T \subseteq Cards, seen' = [Tried EXCEPT !.negated = T]
  PROVE  SeenFrame /\ seen'.tries = seen.tries + 1 /\ seen'.successes = seen.successes
<1>1. seen \in SeenType BY OldTypes
<1>2. PICK m : m = Tried OBVIOUS
<1>3. m \in SeenType /\ m.successes = seen.successes /\ m.tries = seen.tries + 1
      /\ m.promised = seen.promised /\ m.left = seen.left
  BY <1>1, <1>2 DEF SeenType, Tried
<1>4. seen' = [m EXCEPT !.negated = T] BY <1>2
<1> QED BY <1>1, <1>3, <1>4 DEF SeenFrame, SeenType

LEMMA TriedOnly ==
  ASSUME IInv, seen' = Tried
  PROVE  SeenFrame /\ seen'.tries = seen.tries + 1 /\ seen'.successes = seen.successes
<1>1. seen \in SeenType BY OldTypes
<1> QED BY <1>1 DEF SeenFrame, SeenType, Tried

LEMMA NegatedSeen ==
  ASSUME IInv, NEW T, T \subseteq Cards, seen' = [seen EXCEPT !.negated = T]
  PROVE  SeenFrame /\ seen'.tries = seen.tries /\ seen'.successes = seen.successes
<1>1. seen \in SeenType BY OldTypes
<1> QED BY <1>1 DEF SeenFrame, SeenType

LEMMA EnabledFrame ==
  ASSUME IInv, NEW S, NEW on \in BOOLEAN, cards' = Enabled(S, on)
  PROVE  /\ CardsFrame
         /\ \A c \in Cards : /\ cards'[c].summoning = cards[c].summoning
                             /\ cards'[c].spsummon_step = cards[c].spsummon_step
                             /\ Bare(c)' => Bare(c) \/ c \in S
<1>1. CardsOK(cards) BY OldTypes
<1>2. \A c \in Cards :
        cards'[c] = IF c \in S THEN [cards[c] EXCEPT !.enabled = on] ELSE cards[c]
  BY DEF Enabled, Changed
<1>3. cards' \in [Cards -> CardType]
  <2>1. \A c \in Cards : [cards[c] EXCEPT !.enabled = on] \in CardType
    BY <1>1 DEF CardsOK, CardType
  <2> QED BY <1>1, <2>1 DEF Enabled, Changed, CardsOK
<1>4. \A c \in Cards : /\ cards'[c].summoning = cards[c].summoning
                       /\ cards'[c].spsummon_step = cards[c].spsummon_step
                       /\ cards'[c].loc = cards[c].loc /\ cards'[c].seq = cards[c].seq
                       /\ cards'[c].facedown = cards[c].facedown
                       /\ c \notin S => cards'[c].enabled = cards[c].enabled
  BY <1>1, <1>2 DEF CardsOK, CardType
<1>5. CardsFrame BY <1>1, <1>3, <1>4 DEF CardsFrame, CardsOK
<1> QED BY <1>4, <1>5 DEF Bare

LEMMA CompleteFrame ==
  ASSUME IInv, NEW S, cards' = Complete(S)
  PROVE  /\ CardsFrame
         /\ \A c \in Cards : /\ cards'[c].summoning => cards[c].summoning /\ c \notin S
                             /\ cards'[c].spsummon_step = cards[c].spsummon_step
                             /\ Bare(c)' => Bare(c) /\ c \notin S
<1>1. CardsOK(cards) BY OldTypes
<1>2. \A c \in Cards :
        cards'[c] = IF c \in S THEN [cards[c] EXCEPT !.summoning = FALSE, !.enabled = TRUE]
                    ELSE cards[c]
  BY DEF Complete, Changed
<1>3. cards' \in [Cards -> CardType]
  <2>1. \A c \in Cards : [cards[c] EXCEPT !.summoning = FALSE, !.enabled = TRUE] \in CardType
    BY <1>1 DEF CardsOK, CardType
  <2> QED BY <1>1, <2>1 DEF Complete, Changed, CardsOK
<1>4. \A c \in Cards : /\ cards'[c].spsummon_step = cards[c].spsummon_step
                       /\ cards'[c].loc = cards[c].loc /\ cards'[c].seq = cards[c].seq
                       /\ cards'[c].facedown = cards[c].facedown
                       /\ c \notin S => cards'[c].enabled = cards[c].enabled
                                        /\ cards'[c].summoning = cards[c].summoning
                       /\ c \in S => cards'[c].enabled /\ ~cards'[c].summoning
  <2> TAKE c \in Cards
  <2>1. cards[c] \in CardType BY <1>1 DEF CardsOK
  <2>2. CASE c \in S
    <3>1. cards'[c] = [cards[c] EXCEPT !.summoning = FALSE, !.enabled = TRUE]
      BY <1>2, <2>2
    <3> QED BY <2>1, <2>2, <3>1 DEF CardType
  <2>3. CASE c \notin S BY <1>2, <2>3
  <2> QED BY <2>2, <2>3
<1>5. CardsFrame BY <1>1, <1>3, <1>4 DEF CardsFrame, CardsOK
<1> QED BY <1>4, <1>5 DEF Bare

LEMMA SummoningFrame ==
  ASSUME IInv, NEW t \in Monsters, cards' = [cards EXCEPT ![t].summoning = TRUE]
  PROVE  /\ CardsFrame
         /\ \A c \in Cards : /\ cards'[c].summoning => cards[c].summoning \/ c = t
                             /\ cards'[c].spsummon_step = cards[c].spsummon_step
                             /\ Bare(c)' => Bare(c)
<1>1. CardsOK(cards) /\ t \in Cards /\ t \notin Spells BY OldTypes DEF Monsters
<1>2. PICK w : w = [cards[t] EXCEPT !.summoning = TRUE] OBVIOUS
<1>3. /\ w \in CardType /\ w.spsummon_step = cards[t].spsummon_step /\ w.loc = cards[t].loc
      /\ w.seq = cards[t].seq /\ w.facedown = cards[t].facedown /\ w.enabled = cards[t].enabled
  BY <1>1, <1>2 DEF CardsOK, CardType
<1>4. cards' = [cards EXCEPT ![t] = w] BY <1>2
<1>5. cards' \in [Cards -> CardType] /\ \A c \in Cards : cards'[c] = IF c = t THEN w ELSE cards[c]
  BY <1>1, <1>3, <1>4 DEF CardsOK
<1>6. CardsFrame BY <1>1, <1>3, <1>5 DEF CardsFrame, CardsOK
<1> QED BY <1>3, <1>5, <1>6 DEF Bare

LEMMA MarkFrame ==
  ASSUME IInv, NEW t \in Cards, cards' = [cards EXCEPT ![t].spsummon_step = TRUE]
  PROVE  /\ CardsFrame
         /\ \A c \in Cards : /\ cards'[c].summoning = cards[c].summoning
                             /\ cards'[c].spsummon_step => cards[c].spsummon_step \/ c = t
                             /\ Bare(c)' => Bare(c)
<1>1. CardsOK(cards) BY OldTypes
<1>2. PICK w : w = [cards[t] EXCEPT !.spsummon_step = TRUE] OBVIOUS
<1>3. /\ w \in CardType /\ w.summoning = cards[t].summoning /\ w.loc = cards[t].loc
      /\ w.seq = cards[t].seq /\ w.facedown = cards[t].facedown /\ w.enabled = cards[t].enabled
  BY <1>1, <1>2 DEF CardsOK, CardType
<1>4. cards' = [cards EXCEPT ![t] = w] BY <1>2
<1>5. cards' \in [Cards -> CardType] /\ \A c \in Cards : cards'[c] = IF c = t THEN w ELSE cards[c]
  BY <1>1, <1>3, <1>4 DEF CardsOK
<1>6. CardsFrame BY <1>1, <1>3, <1>5 DEF CardsFrame, CardsOK
<1> QED BY <1>3, <1>5, <1>6 DEF Bare

Upward(c) == MoveToField(c, FALSE, 0)
Downward(c, z) == MoveToField(c, TRUE, z)
LEMMA Fielders ==
  ASSUME NEW c \in Cards, NEW z \in Int, NEW u, u = Upward(c) \/ u = Downward(c, z)
  PROVE  /\ u \in UnitType /\ Brief(u) /\ u.kind = "ToField" /\ u.target = c
         /\ u.facedown <=> u = Downward(c, z)
         /\ u = Downward(c, z) => u.zone = z
         /\ u.rest = {} /\ u.group = {}
         /\ Batch(<<u>>) /\ Len(<<u>>) = 1 /\ <<u>>[1] = u
<1>1. PICK w : w = Unit("ToField", 0, c) OBVIOUS
<1>2. w \in UnitType /\ w.kind = "ToField" /\ w.target = c /\ w.step = 0 /\ w.rest = {}
      /\ w.group = {} /\ ~w.facedown
  BY <1>1 DEF Unit, UnitType, Kinds, Members
<1>3. PICK m : m = [w EXCEPT !.facedown = FALSE, !.zone = 0] OBVIOUS
<1>4. PICK d : d = [w EXCEPT !.facedown = TRUE, !.zone = z] OBVIOUS
<1>5. /\ m \in UnitType /\ m.kind = "ToField" /\ m.target = c /\ m.step = 0
      /\ ~m.facedown /\ m.rest = {} /\ m.group = {}
  <2>1. m = [w EXCEPT !.zone = 0] BY <1>2, <1>3 DEF UnitType
  <2> QED BY <1>2, <2>1 DEF UnitType
<1>6. /\ d \in UnitType /\ d.kind = "ToField" /\ d.target = c /\ d.step = 0
      /\ d.facedown /\ d.zone = z /\ d.rest = {} /\ d.group = {}
  <2>1. PICK x : x = [w EXCEPT !.facedown = TRUE] OBVIOUS
  <2>2. x \in UnitType /\ x.kind = "ToField" /\ x.target = c /\ x.step = 0
        /\ x.facedown /\ x.rest = {} /\ x.group = {}
    BY <1>2, <2>1 DEF UnitType
  <2>3. d = [x EXCEPT !.zone = z] BY <1>4, <2>1
  <2> QED BY <2>2, <2>3 DEF UnitType
<1>7. Upward(c) = m /\ Downward(c, z) = d
  BY <1>1, <1>3, <1>4 DEF Upward, Downward, MoveToField
<1>8. /\ u \in UnitType /\ u.kind = "ToField" /\ u.target = c /\ u.step = 0
      /\ u.facedown <=> u = Downward(c, z)
      /\ u = Downward(c, z) => u.zone = z
      /\ u.rest = {} /\ u.group = {}
  BY <1>5, <1>6, <1>7
<1>9. Brief(u) BY <1>8 DEF Brief, Sane
<1> QED BY <1>8, <1>9, OneBatch

-----------------------------------------------------------------------------
(* The later steps of summons and sets, which nothing counts any more. *)

Moving(k, r, s) ==
  \/ /\ k = "Summon"
     /\ \/ r = 9 /\ s = 12
        \/ r = 12 /\ s = 13
        \/ r = 13 /\ s = 15
        \/ r = 16 /\ s = 17
  \/ /\ k = "Flip"
     /\ \/ r = 1 /\ s \in {2, 3}
        \/ r = 3 /\ s = 4
  \/ k = "MSet" /\ r = 9 /\ s = 10
  \/ /\ k = "Rule"
     /\ \/ r = 4 /\ s = 5
        \/ r = 7 /\ s = 11
        \/ r = 15 /\ s = 16
        \/ r = 23 /\ s = 24
        \/ r = 24 /\ s \in {23, 25}
        \/ r = 25 /\ s \in {26, 27}
        \/ r = 26 /\ s = 27
        \/ r = 27 /\ s = 28

LEMMA MovingOn ==
  ASSUME NEW u, NEW v, v.kind = u.kind, Moving(u.kind, u.step, v.step),
         Outside(v) => Outside(u) \/ core.chain = 0, NEW n
  PROVE  /\ Keeps(u) /\ Keeps(v) /\ ~Lays(u) /\ v.kind # "ToField" /\ Follows(u, v, n)
         /\ ~Active(u) /\ ~Active(v) /\ ~Counting(u) /\ ~Counting(v)
<1>1. Keeps(u) /\ Keeps(v) /\ ~Lays(u) /\ v.kind # "ToField"
  BY DEF Moving, Keeps, Free, Sends, Opens, Other, Lays
<1>2. /\ ~Active(u) /\ ~Active(v) /\ ~Counting(u) /\ ~Counting(v)
      /\ ~Busy(v) /\ ~Prompt(v) /\ ~Live(u) /\ ~Live(v) /\ u.kind # "ToGrave"
  BY DEF Moving, Active, Counting, Busy, Prompt, Live
<1>3. Ready(v)' BY <1>2 DEF Ready, Busy, Moving
<1>4. Follows(u, v, n) BY <1>2, <1>3 DEF Follows, Succeeds, Claims
<1> QED BY <1>1, <1>2, <1>4

LEMMA MovesOn ==
  ASSUME IInv, NEW k, NEW r \in Nat, NEW s \in Nat, At(k, r), Moving(k, r, s),
         NEW v, NEW n, Continues(v, n), v.kind = k, v.step = s, Sane(v),
         Outside(v) => Outside(Front) \/ core.chain = 0,
         Framed, core'.summon_depth = core.summon_depth, Tallies(0), Shows(v, n),
         n > 0 => ~Lays(units'[1]),
         n > 0 => units'[1].kind # "ToField" \/ units'[1].facedown \/ (n = 1 /\ Mover(units'[1], v))
  PROVE  IInv'
<1>1. units # <<>> /\ Front.kind = k /\ Front.step = r BY DEF At
<1>2. /\ Keeps(Front) /\ Keeps(v) /\ ~Lays(Front) /\ v.kind # "ToField" /\ Follows(Front, v, n)
      /\ ~Active(Front) /\ ~Active(v) /\ ~Counting(Front) /\ ~Counting(v)
  BY <1>1, MovingOn
<1>3. /\ core'.summon_depth = core.summon_depth - One(Active(Front)) + One(Active(v))
      /\ One(Counting(v)) - One(Counting(Front)) = 0
  <2>1. /\ One(Active(Front)) = 0 /\ One(Active(v)) = 0
        /\ One(Counting(Front)) = 0 /\ One(Counting(v)) = 0
    BY <1>2 DEF One
  <2> QED BY <2>1, OldTypes
<1> QED BY <1>2, <1>3, Framing, GoesOn

LEMMA CallsOn ==
  ASSUME IInv, NEW k, NEW r \in Nat, NEW s \in Nat, At(k, r), Moving(k, r, s),
         NEW b, Calls(b), GoOn(s, b), NEW v, v = Now(Front, s), Sane(v),
         Outside(v) => Outside(Front) \/ core.chain = 0,
         Framed, core'.summon_depth = core.summon_depth, Tallies(0), Shows(v, Len(b))
  PROVE  IInv'
<1>1. units # <<>> /\ Front.kind = k /\ Front.step = r /\ GoOnAs(Front, s, b)
  BY DEF At, GoOn
<1>2. Front \in UnitType BY <1>1, FrontTypes
<1>3. PICK n : n = Len(b) OBVIOUS
<1>4. Continues(v, n) /\ n \in Nat /\ (n > 0 => units'[1].kind # "ToField")
  BY <1>1, <1>2, <1>3, Called
<1>5. v.kind = k /\ v.step = s
  <2>1. v.kind = Front.kind /\ v.step = s BY <1>2, NowFields
  <2> QED BY <1>1, <2>1
<1>6. n > 0 => ~Lays(units'[1]) BY <1>4 DEF Lays
<1>7. Shows(v, n) BY <1>3
<1> QED BY <1>4, <1>5, <1>6, <1>7, MovesOn

(* The last step of a summon. *)
Final(k, r) ==
  \/ k = "Summon" /\ r = 18
  \/ k = "Flip" /\ r = 4
  \/ k = "Rule" /\ r \in {17, 28}

LEMMA SucceedsOver ==
  ASSUME IInv, NEW k, NEW r \in Nat, At(k, r), Final(k, r), Finish(AfterSummon),
         NEW S, S \subseteq Cards, seen' = Raised(S),
         core' = [core EXCEPT !.state_count = CountedAs(FALSE)],
         cards' = cards, setting' = setting
  PROVE  IInv'
<1>1. units # <<>> /\ Front.kind = k /\ Front.step = r BY DEF At
<1>2. PICK n : n = Len(AfterSummon) OBVIOUS
<1>3. Ends(n) /\ n \in Nat /\ (n > 0 => units'[1].kind # "ToField")
  BY <1>1, <1>2, AfterwardsCalls, CalledLast
<1>4. /\ Keeps(Front) /\ ~Lays(Front) /\ Leaves(Front, n) /\ ~Active(Front) /\ ~Counting(Front)
  BY <1>1 DEF Final, Keeps, Free, Other, Sends, Opens, Lays, Leaves, Active, Counting
<1>5. \A c \in Cards : ~Window(Front, c) /\ ~Grouped(Front, c) /\ ~Moved(Front, c)
  BY <1>1 DEF Final, Window, Grouped, Moved
<1>6. /\ SeenFrame /\ seen'.tries = seen.tries /\ seen'.successes = seen.successes + 1
  BY RaisedSeen
<1>7. PICK m : m = CountedAs(FALSE) OBVIOUS
<1>8. CoreFrame /\ core'.summon_depth = core.summon_depth /\ core'.state_count = m
  BY <1>7, CountedNat, StateSet
<1>9. CardsFrame /\ \A c \in Cards : Bare(c)' = Bare(c) BY CardsSame
<1>10. Framed BY <1>6, <1>8, <1>9 DEF Framed
<1>11. Tallies(0) BY <1>6, <1>7, <1>8, SuccessTally
<1>12. /\ core'.summon_depth = core.summon_depth - One(Active(Front))
       /\ 0 - One(Counting(Front)) = 0
  <2>1. One(Active(Front)) = 0 /\ One(Counting(Front)) = 0 BY <1>4 DEF One
  <2> QED BY <2>1, <1>8, OldTypes
<1>13. \A c \in Cards : /\ cards'[c].summoning => cards[c].summoning /\ ~Window(Front, c)
                        /\ cards'[c].spsummon_step => cards[c].spsummon_step /\ ~Grouped(Front, c)
                        /\ Bare(c)' => Bare(c) /\ ~Moved(Front, c)
  BY <1>5, <1>9
<1> QED BY <1>3, <1>4, <1>10, <1>11, <1>12, <1>13, Framing, IsOver

-----------------------------------------------------------------------------
(* Summons of one card: their later steps. *)

LEMMA Onward ==
  ASSUME IInv, units # <<>>, NEW s \in Nat, NEW v, v = Now(Front, s)
  PROVE  /\ v \in UnitType /\ v.kind = Front.kind /\ v.step = s /\ v.target = Front.target
         /\ v.group = Front.group /\ v.rest = Front.rest
         /\ v.ignore_count = Front.ignore_count /\ v.extra = Front.extra
<1>1. Front \in UnitType BY FrontTypes
<1> QED BY <1>1, NowFields

LEMMA ContinuedOne ==
  ASSUME units \in Seq(UnitType), units # <<>>, NEW u \in UnitType, NEW s \in Nat,
         NEW w, Batch(<<w>>), GoOnAs(u, s, <<w>>), NEW v, v = Now(u, s)
  PROVE  Continues(v, 1) /\ units'[1] = w
<1>1. PICK b : b = <<w>> OBVIOUS
<1>2. Batch(b) /\ Len(b) = 1 /\ b[1] = w /\ b \in Seq(UnitType) /\ GoOnAs(u, s, b)
  BY <1>1 DEF Batch
<1>3. Continues(v, 1) BY <1>2, Continued
<1>4. \A i \in 1 .. Len(b) : units'[i] = b[i] BY <1>2, GoneOn
<1> QED BY <1>2, <1>3, <1>4

LEMMA SummonMovesKept ==
  ASSUME IInv, SummonMoves
  PROVE  IInv'
<1>1. At("Summon", 9) /\ units # <<>> /\ Front.kind = "Summon" /\ Front.step = 9
  BY DEF SummonMoves, At
<1>2. /\ Front \in UnitType /\ Sane(Front) /\ Front.target \in Monsters
      /\ Front.target \in Cards /\ Front.target \notin Spells /\ units \in Seq(UnitType)
  BY <1>1, FrontTypes DEF Sane, Monsters
<1>3. PICK v : v = Now(Front, 12) OBVIOUS
<1>4. /\ v.kind = "Summon" /\ v.step = 12 /\ v.target = Front.target
      /\ v.group = Front.group /\ v.rest = Front.rest
  BY <1>1, <1>3, Onward
<1>5. PICK u : u = Upward(Front.target) OBVIOUS
<1>6. /\ Batch(<<u>>) /\ Len(<<u>>) = 1 /\ <<u>>[1] = u
      /\ u.target = Front.target /\ u.kind = "ToField"
  BY <1>2, <1>5, Fielders
<1>7. GoOnAs(Front, 12, <<u>>) BY <1>5 DEF GoOn, SummonMoves, Upward
<1>8. Continues(v, 1) /\ units'[1] = u BY <1>1, <1>2, <1>3, <1>6, <1>7, ContinuedOne
<1>9. Sane(v) /\ ~Outside(v) /\ Moving("Summon", 9, 12) /\ Mover(u, v) /\ ~Lays(u)
  BY <1>1, <1>2, <1>4, <1>6 DEF Sane, Outside, Moving, Mover, Lays
<1>10. /\ CardsFrame
       /\ \A c \in Cards : /\ cards'[c].summoning = cards[c].summoning
                           /\ cards'[c].spsummon_step = cards[c].spsummon_step
                           /\ Bare(c)' => Bare(c) \/ c \in {Front.target}
  BY EnabledFrame DEF SummonMoves
<1>11. Framed /\ core'.summon_depth = core.summon_depth /\ Tallies(0)
  BY <1>10, CoreSame, SeenSame, TalliesSame DEF Framed, SummonMoves
<1>12. Shows(v, 1)
  <2>1. \A c \in Cards : Bare(c)' => Bare(c) \/ Moved(v, c) BY <1>4, <1>10 DEF Moved
  <2>2. \A c \in Cards : /\ ~Window(Front, c) /\ ~Grouped(Front, c)
                         /\ Moved(Front, c) => Moved(v, c)
    BY <1>1, <1>4 DEF Window, Grouped, Moved
  <2> QED BY <1>10, <2>1, <2>2 DEF Shows
<1> QED BY <1>1, <1>4, <1>8, <1>9, <1>11, <1>12, MovesOn

LEMMA SetMovesKept ==
  ASSUME IInv, SetMoves
  PROVE  IInv'
<1>1. At("MSet", 9) /\ units # <<>> /\ Front.kind = "MSet" /\ Front.step = 9
  BY DEF SetMoves, At
<1>2. /\ Front \in UnitType /\ Sane(Front) /\ Front.target \in Monsters
      /\ Front.target \in Cards /\ Front.target \notin Spells /\ units \in Seq(UnitType)
  BY <1>1, FrontTypes DEF Sane, Monsters
<1>3. PICK v : v = Now(Front, 10) OBVIOUS
<1>4. /\ v.kind = "MSet" /\ v.step = 10 /\ v.target = Front.target
      /\ v.group = Front.group /\ v.rest = Front.rest
  BY <1>1, <1>3, Onward
<1>5. PICK u : u = Downward(Front.target, 0) OBVIOUS
<1>6. /\ Batch(<<u>>) /\ Len(<<u>>) = 1 /\ <<u>>[1] = u
      /\ u.target = Front.target /\ u.kind = "ToField" /\ u.facedown
  BY <1>2, <1>5, Fielders
<1>7. GoOnAs(Front, 10, <<u>>) BY <1>5 DEF GoOn, SetMoves, Downward
<1>8. Continues(v, 1) /\ units'[1] = u BY <1>1, <1>2, <1>3, <1>6, <1>7, ContinuedOne
<1>9. Sane(v) /\ ~Outside(v) /\ Moving("MSet", 9, 10) /\ ~Lays(u)
  BY <1>1, <1>2, <1>4, <1>6 DEF Sane, Outside, Moving, Mover, Lays
<1>10. /\ CardsFrame
       /\ \A c \in Cards : /\ cards'[c].summoning = cards[c].summoning
                           /\ cards'[c].spsummon_step = cards[c].spsummon_step
                           /\ Bare(c)' => Bare(c) \/ c \in {Front.target}
  BY EnabledFrame DEF SetMoves
<1>11. Framed /\ core'.summon_depth = core.summon_depth /\ Tallies(0)
  BY <1>10, CoreSame, SeenSame, TalliesSame DEF Framed, SetMoves
<1>12. Shows(v, 1)
  <2>1. \A c \in Cards : Bare(c)' => Bare(c) \/ Moved(u, c) BY <1>6, <1>10 DEF Moved
  <2>2. \A c \in Cards : /\ ~Window(Front, c) /\ ~Grouped(Front, c) /\ ~Moved(Front, c)
    BY <1>1 DEF Window, Grouped, Moved
  <2> QED BY <1>8, <1>10, <2>1, <2>2 DEF Shows
<1> QED BY <1>1, <1>4, <1>6, <1>8, <1>9, <1>11, <1>12, MovesOn

LEMMA RuleMovesKept ==
  ASSUME IInv, RuleMoves
  PROVE  IInv'
<1>1. At("Rule", 4) /\ units # <<>> /\ Front.kind = "Rule" /\ Front.step = 4
  BY DEF RuleMoves, At
<1>2. /\ Front \in UnitType /\ Sane(Front) /\ Front.target \in Procs
      /\ Front.target \in Cards /\ Front.target \notin Spells /\ units \in Seq(UnitType)
  BY <1>1, FrontTypes, ConstantsAssumption DEF Sane
<1>3. PICK v : v = Now(Front, 5) OBVIOUS
<1>4. /\ v.kind = "Rule" /\ v.step = 5 /\ v.target = Front.target
      /\ v.group = Front.group /\ v.rest = Front.rest
  BY <1>1, <1>3, Onward
<1>5. PICK u : u = Upward(Front.target) OBVIOUS
<1>6. /\ Batch(<<u>>) /\ Len(<<u>>) = 1 /\ <<u>>[1] = u
      /\ u.target = Front.target /\ u.kind = "ToField"
  BY <1>2, <1>5, Fielders
<1>7. GoOnAs(Front, 5, <<u>>) BY <1>5 DEF GoOn, RuleMoves, Upward
<1>8. Continues(v, 1) /\ units'[1] = u BY <1>1, <1>2, <1>3, <1>6, <1>7, ContinuedOne
<1>9. Sane(v) /\ ~Outside(v) /\ Moving("Rule", 4, 5) /\ Mover(u, v) /\ ~Lays(u)
  BY <1>1, <1>2, <1>4, <1>6 DEF Sane, Outside, Moving, Mover, Lays
<1>10. /\ CardsFrame
       /\ \A c \in Cards : /\ cards'[c].summoning = cards[c].summoning
                           /\ cards'[c].spsummon_step = cards[c].spsummon_step
                           /\ Bare(c)' => Bare(c) \/ c \in {Front.target}
  BY EnabledFrame DEF RuleMoves
<1>11. Framed /\ core'.summon_depth = core.summon_depth /\ Tallies(0)
  <2>1. PICK m : m = CountedAs(TRUE) OBVIOUS
  <2>2. CoreFrame /\ core'.summon_depth = core.summon_depth /\ core'.state_count = m
    BY <2>1, CountedNat, StateSet DEF RuleMoves
  <2>3. SeenFrame /\ seen'.tries = seen.tries + 1 /\ seen'.successes = seen.successes
    BY TriedOnly DEF RuleMoves
  <2>4. Tallies(0) BY <2>1, <2>2, <2>3, TriesTally
  <2> QED BY <1>10, <2>2, <2>3, <2>4 DEF Framed, RuleMoves
<1>12. Shows(v, 1)
  <2>1. \A c \in Cards : Bare(c)' => Bare(c) \/ Moved(v, c) BY <1>4, <1>10 DEF Moved
  <2>2. \A c \in Cards : /\ ~Window(Front, c) /\ ~Grouped(Front, c)
                         /\ Moved(Front, c) => Moved(v, c)
    BY <1>1, <1>4 DEF Window, Grouped, Moved
  <2> QED BY <1>10, <2>1, <2>2 DEF Shows
<1> QED BY <1>1, <1>4, <1>8, <1>9, <1>11, <1>12, MovesOn

LEMMA SummoningKept ==
  ASSUME IInv, Summoning
  PROVE  IInv'
<1>1. /\ At("Summon", 12) /\ units # <<>> /\ Front.kind = "Summon" /\ Front.step = 12
      /\ GoOn(13, Interrupt)
  BY DEF Summoning, At
<1>2. Sane(Front) BY <1>1, FrontTypes
<1>3. PICK v : v = Now(Front, 13) OBVIOUS
<1>4. /\ v.kind = "Summon" /\ v.step = 13 /\ v.target = Front.target
      /\ v.group = Front.group /\ v.rest = Front.rest
  BY <1>1, <1>3, Onward
<1>5. Sane(v) /\ ~Outside(v) /\ Moving("Summon", 12, 13)
  BY <1>1, <1>2, <1>4 DEF Sane, Outside, Moving
<1>6. CardsFrame /\ cards' = cards /\ \A c \in Cards : Bare(c)' = Bare(c)
  BY CardsSame DEF Summoning
<1>7. Framed /\ core'.summon_depth = core.summon_depth /\ Tallies(0)
  <2>1. PICK m : m = CountedAs(TRUE) OBVIOUS
  <2>2. CoreFrame /\ core'.summon_depth = core.summon_depth /\ core'.state_count = m
    BY <2>1, CountedNat, StateSet DEF Summoning
  <2>3. SeenFrame /\ seen'.tries = seen.tries + 1 /\ seen'.successes = seen.successes
    BY TriedOnly DEF Summoning
  <2>4. Tallies(0) BY <2>1, <2>2, <2>3, TriesTally
  <2> QED BY <1>6, <2>2, <2>3, <2>4 DEF Framed, Summoning
<1>8. Shows(v, Len(Interrupt))
  <2>1. \A c \in Cards : /\ ~Window(Front, c) /\ ~Grouped(Front, c)
                         /\ Moved(Front, c) => Moved(v, c)
    BY <1>1, <1>4 DEF Window, Grouped, Moved
  <2> QED BY <1>6, <2>1 DEF Shows
<1> QED BY <1>1, <1>3, <1>5, <1>7, <1>8, Idling, CallsOn

LEMMA SummonWindowKept ==
  ASSUME IInv, SummonWindow
  PROVE  IInv'
<1>1. /\ At("Summon", 13) /\ units # <<>> /\ Front.kind = "Summon" /\ Front.step = 13
  BY DEF SummonWindow, At
<1>2. Sane(Front) /\ Front.target \in Monsters BY <1>1, FrontTypes DEF Sane
<1>3. CASE GoOn(16, <<>>) /\ UNCHANGED <<cards, seen>>
  <2>1. GoOn(16, <<>>) /\ Quiet BY <1>3 DEF SummonWindow, Quiet
  <2>2. Passing("Summon", 13, 16) BY DEF Passing
  <2> QED BY <1>1, <2>1, <2>2, GoingOn
<1>4. CASE /\ core.chain = 0
           /\ cards' = [cards EXCEPT ![Front.target].summoning = TRUE]
           /\ seen' = [seen EXCEPT !.negated = @ \ {Front.target}]
           /\ GoOn(15, Interrupt \o <<PointEvent>>)
  <2>1. core.chain = 0 BY <1>4
  <2>2. GoOn(15, Interrupt \o <<PointEvent>>) /\ Calls(Interrupt \o <<PointEvent>>)
    BY <1>4, <2>1, NoticeCalls
  <2>3. PICK v : v = Now(Front, 15) OBVIOUS
  <2>4. /\ v.kind = "Summon" /\ v.step = 15 /\ v.target = Front.target
        /\ v.group = Front.group /\ v.rest = Front.rest
    BY <1>1, <2>3, Onward
  <2>5. Sane(v) /\ Moving("Summon", 13, 15) BY <1>1, <1>2, <2>4 DEF Sane, Moving
  <2>6. /\ CardsFrame
        /\ \A c \in Cards : /\ cards'[c].summoning => cards[c].summoning \/ c = Front.target
                            /\ cards'[c].spsummon_step = cards[c].spsummon_step
                            /\ Bare(c)' => Bare(c)
    BY <1>2, <1>4, SummoningFrame
  <2>7. Framed /\ core'.summon_depth = core.summon_depth /\ Tallies(0)
    <3>1. PICK T : T = seen.negated \ {Front.target} OBVIOUS
    <3>2. T \subseteq Cards BY <3>1, OldTypes DEF SeenType
    <3>3. SeenFrame /\ seen'.tries = seen.tries /\ seen'.successes = seen.successes
      BY <1>4, <3>1, <3>2, NegatedSeen
    <3> QED BY <2>6, <3>3, CoreSame, TalliesSame DEF Framed, SummonWindow
  <2>8. PICK n : n = Len(Interrupt \o <<PointEvent>>) OBVIOUS
  <2>9. Shows(v, n)
    <3>1. \A c \in Cards : /\ ~Window(Front, c) /\ ~Grouped(Front, c)
                           /\ Moved(Front, c) => Moved(v, c)
                           /\ c = Front.target => Window(v, c)
      BY <1>1, <2>4 DEF Window, Grouped, Moved
    <3> QED BY <2>6, <3>1 DEF Shows
  <2> QED BY <1>1, <2>1, <2>2, <2>3, <2>5, <2>7, <2>8, <2>9, CallsOn
<1> QED BY <1>3, <1>4 DEF SummonWindow

LEMMA SummonCompletedKept ==
  ASSUME IInv, SummonCompleted
  PROVE  IInv'
<1>1. /\ At("Summon", 16) /\ units # <<>> /\ Front.kind = "Summon" /\ Front.step = 16
      /\ GoOn(17, <<>>)
  BY DEF SummonCompleted, At
<1>2. Sane(Front) BY <1>1, FrontTypes
<1>3. PICK v : v = Now(Front, 17) OBVIOUS
<1>4. /\ v.kind = "Summon" /\ v.step = 17 /\ v.target = Front.target
      /\ v.group = Front.group /\ v.rest = Front.rest
  BY <1>1, <1>3, Onward
<1>5. Sane(v) /\ ~Outside(v) /\ Moving("Summon", 16, 17)
  BY <1>1, <1>2, <1>4 DEF Sane, Outside, Moving
<1>6. /\ CardsFrame
      /\ \A c \in Cards : /\ cards'[c].summoning => cards[c].summoning /\ c \notin {Front.target}
                          /\ cards'[c].spsummon_step = cards[c].spsummon_step
                          /\ Bare(c)' => Bare(c) /\ c \notin {Front.target}
  BY CompleteFrame DEF SummonCompleted
<1>7. Framed /\ core'.summon_depth = core.summon_depth /\ Tallies(0)
  BY <1>6, CoreSame, SeenSame, TalliesSame DEF Framed, SummonCompleted
<1>8. Shows(v, Len(<<>>))
  <2>1. \A c \in Cards : /\ Window(Front, c) => c \in {Front.target}
                         /\ Moved(Front, c) => c \in {Front.target}
                         /\ ~Grouped(Front, c)
    BY <1>1 DEF Window, Grouped, Moved
  <2> QED BY <1>6, <2>1 DEF Shows
<1> QED BY <1>1, <1>3, <1>5, <1>7, <1>8, Idling, CallsOn

LEMMA SummonSucceededKept ==
  ASSUME IInv, SummonSucceeded
  PROVE  IInv'
<1>1. At("Summon", 18) /\ units # <<>> /\ Front.kind = "Summon" /\ Final("Summon", 18)
  BY DEF SummonSucceeded, At, Final
<1>2. Sane(Front) /\ {Front.target} \subseteq Cards
  BY <1>1, FrontTypes DEF Sane, Monsters
<1> QED BY <1>1, <1>2, SucceedsOver DEF SummonSucceeded

LEMMA FlipTurnedKept ==
  ASSUME IInv, FlipTurned
  PROVE  IInv'
<1>10. PICK window \in BOOLEAN :
         /\ cards' = [cards EXCEPT ![Front.target].facedown = FALSE,
                                   ![Front.target].summoning = @ \/ window]
         /\ IF window THEN GoOn(2, Interrupt \o <<PointEvent>>) ELSE GoOn(3, <<>>)
  BY DEF FlipTurned
<1>11. PICK s \in {2, 3} : GoOn(s, IF s = 2 THEN Interrupt \o <<PointEvent>> ELSE <<>>)
  <2>1. CASE window
    <3>1. GoOn(2, IF 2 = 2 THEN Interrupt \o <<PointEvent>> ELSE <<>>) BY <1>10, <2>1
    <3> QED BY <3>1, Zenon
  <2>2. CASE ~window
    <3>1. GoOn(3, IF 3 = 2 THEN Interrupt \o <<PointEvent>> ELSE <<>>) BY <1>10, <2>2
    <3> QED BY <3>1, Zenon
  <2> QED BY <2>1, <2>2
<1>12. PICK b : /\ b = (IF s = 2 THEN Interrupt \o <<PointEvent>> ELSE <<>>) /\ GoOn(s, b)
  BY <1>11
<1>1. /\ At("Flip", 1) /\ units # <<>> /\ Front.kind = "Flip" /\ Front.step = 1
  BY DEF FlipTurned, At
<1>2. Sane(Front) /\ Front.target \in Monsters BY <1>1, FrontTypes DEF Sane
<1>3. PICK v : v = Now(Front, s) OBVIOUS
<1>4. /\ v.kind = "Flip" /\ v.step = s /\ v.target = Front.target
      /\ v.group = Front.group /\ v.rest = Front.rest
  BY <1>1, <1>3, Onward
<1>5. Sane(v) /\ Moving("Flip", 1, s) /\ Outside(Front) /\ Calls(b)
  <2>1. Sane(v) /\ Moving("Flip", 1, s) /\ Outside(Front) /\ ~Live(Front)
    BY <1>1, <1>2, <1>4 DEF Sane, Moving, Outside, Live
  <2> QED BY <1>12, <2>1, NoticeCalls, NoCalls
<1>6. /\ CardsFrame
      /\ \A c \in Cards : /\ cards'[c].summoning => cards[c].summoning \/ c = Front.target
                          /\ cards'[c].spsummon_step = cards[c].spsummon_step
                          /\ Bare(c)' => Bare(c) \/ c = Front.target
  <2>1. PICK t : t = Front.target OBVIOUS
  <2>2. CardsOK(cards) /\ t \in Cards /\ t \notin Spells
    BY <1>2, <2>1, OldTypes DEF Monsters
  <2>3. PICK x : x = [cards[t] EXCEPT !.facedown = FALSE] OBVIOUS
  <2>4. /\ x \in CardType /\ x.spsummon_step = cards[t].spsummon_step
        /\ x.loc = cards[t].loc /\ x.seq = cards[t].seq
    BY <2>2, <2>3 DEF CardsOK, CardType
  <2>10. PICK z \in BOOLEAN : z = (x.summoning \/ window) BY <2>4 DEF CardType
  <2>5. PICK w : w = [x EXCEPT !.summoning = z] OBVIOUS
  <2>6. /\ w \in CardType /\ w.spsummon_step = cards[t].spsummon_step
        /\ w.loc = cards[t].loc /\ w.seq = cards[t].seq
    BY <2>4, <2>5 DEF CardType
  <2>7. cards' = [cards EXCEPT ![t] = w]
    <3>1. cards \in [Cards -> CardType] BY <2>2 DEF CardsOK
    <3>2. PICK m : m = [cards EXCEPT ![t] = x] OBVIOUS
    <3>3. m[t] = x /\ m \in [Cards -> CardType] BY <2>2, <2>4, <3>1, <3>2
    <3>4. cards' = [m EXCEPT ![t].summoning = @ \/ window] BY <1>10, <2>1, <2>3, <3>2
    <3>5. cards' = [m EXCEPT ![t] = w] BY <2>5, <2>10, <3>3, <3>4
    <3> QED BY <2>2, <3>1, <3>2, <3>5
  <2>8. cards' \in [Cards -> CardType] /\ \A c \in Cards : cards'[c] = IF c = t THEN w ELSE cards[c]
    BY <2>2, <2>6, <2>7 DEF CardsOK
  <2>9. CardsFrame BY <2>2, <2>6, <2>8 DEF CardsFrame, CardsOK
  <2> QED BY <2>1, <2>6, <2>8, <2>9 DEF Bare
<1>7. Framed /\ core'.summon_depth = core.summon_depth /\ Tallies(0)
  <2>1. PICK m : m = CountedAs(TRUE) OBVIOUS
  <2>2. CoreFrame /\ core'.summon_depth = core.summon_depth /\ core'.state_count = m
    BY <2>1, CountedNat, StateSet DEF FlipTurned
  <2>3. SeenFrame /\ seen'.tries = seen.tries + 1 /\ seen'.successes = seen.successes
    <3>1. PICK T : T = Tried.negated \ {Front.target} OBVIOUS
    <3>2. T \subseteq Cards BY <3>1, OldTypes DEF SeenType, Tried
    <3>3. seen' = [Tried EXCEPT !.negated = T] BY <3>1 DEF FlipTurned
    <3> QED BY <3>2, <3>3, TriedSeen
  <2>4. Tallies(0) BY <2>1, <2>2, <2>3, TriesTally
  <2> QED BY <1>6, <2>2, <2>3, <2>4 DEF Framed, FlipTurned
<1>8. PICK n : n = Len(b) OBVIOUS
<1>9. Shows(v, n)
  <2>1. \A c \in Cards : /\ ~Window(Front, c) /\ ~Grouped(Front, c) /\ ~Moved(Front, c)
                         /\ c = Front.target => Window(v, c) /\ Moved(v, c)
    BY <1>1, <1>4 DEF Window, Grouped, Moved
  <2> QED BY <1>6, <2>1 DEF Shows
<1> QED BY <1>1, <1>12, <1>3, <1>5, <1>7, <1>8, <1>9, CallsOn

LEMMA FlipCompletedKept ==
  ASSUME IInv, FlipCompleted
  PROVE  IInv'
<1>1. /\ At("Flip", 3) /\ units # <<>> /\ Front.kind = "Flip" /\ Front.step = 3
      /\ GoOn(4, <<>>)
  BY DEF FlipCompleted, At
<1>2. Sane(Front) BY <1>1, FrontTypes
<1>3. PICK v : v = Now(Front, 4) OBVIOUS
<1>4. /\ v.kind = "Flip" /\ v.step = 4 /\ v.target = Front.target
      /\ v.group = Front.group /\ v.rest = Front.rest
  BY <1>1, <1>3, Onward
<1>5. Sane(v) /\ Outside(Front) /\ Moving("Flip", 3, 4)
  BY <1>1, <1>2, <1>4 DEF Sane, Outside, Moving
<1>6. /\ CardsFrame
      /\ \A c \in Cards : /\ cards'[c].summoning => cards[c].summoning /\ c \notin {Front.target}
                          /\ cards'[c].spsummon_step = cards[c].spsummon_step
                          /\ Bare(c)' => Bare(c) /\ c \notin {Front.target}
  BY CompleteFrame DEF FlipCompleted
<1>7. Framed /\ core'.summon_depth = core.summon_depth /\ Tallies(0)
  BY <1>6, CoreSame, SeenSame, TalliesSame DEF Framed, FlipCompleted
<1>8. Shows(v, Len(<<>>))
  <2>1. \A c \in Cards : /\ Window(Front, c) => c \in {Front.target}
                         /\ Moved(Front, c) => c \in {Front.target}
                         /\ ~Grouped(Front, c)
    BY <1>1 DEF Window, Grouped, Moved
  <2> QED BY <1>6, <2>1 DEF Shows
<1> QED BY <1>1, <1>3, <1>5, <1>7, <1>8, Idling, CallsOn

LEMMA FlipSucceededKept ==
  ASSUME IInv, FlipSucceeded
  PROVE  IInv'
<1>1. At("Flip", 4) /\ units # <<>> /\ Front.kind = "Flip" /\ Final("Flip", 4)
  BY DEF FlipSucceeded, At, Final
<1>2. Sane(Front) /\ {Front.target} \subseteq Cards
  BY <1>1, FrontTypes DEF Sane, Monsters
<1> QED BY <1>1, <1>2, SucceedsOver DEF FlipSucceeded

LEMMA RuleWindowKept ==
  ASSUME IInv, RuleWindow
  PROVE  IInv'
<1>1. /\ At("Rule", 7) /\ units # <<>> /\ Front.kind = "Rule" /\ Front.step = 7
  BY DEF RuleWindow, At
<1>2. Sane(Front) /\ Front.target \in Monsters
  BY <1>1, FrontTypes, ConstantsAssumption DEF Sane, Monsters
<1>3. CASE GoOn(15, <<>>) /\ UNCHANGED <<cards, seen>>
  <2>1. GoOn(15, <<>>) /\ Quiet BY <1>3 DEF RuleWindow, Quiet
  <2>2. Passing("Rule", 7, 15) BY DEF Passing
  <2> QED BY <1>1, <2>1, <2>2, GoingOn
<1>4. CASE /\ core.chain = 0
           /\ cards' = [cards EXCEPT ![Front.target].summoning = TRUE]
           /\ seen' = [seen EXCEPT !.negated = @ \ {Front.target}]
           /\ GoOn(11, Interrupt \o <<PointEvent>>)
  <2>1. core.chain = 0 BY <1>4
  <2>2. GoOn(11, Interrupt \o <<PointEvent>>) /\ Calls(Interrupt \o <<PointEvent>>)
    BY <1>4, <2>1, NoticeCalls
  <2>3. PICK v : v = Now(Front, 11) OBVIOUS
  <2>4. /\ v.kind = "Rule" /\ v.step = 11 /\ v.target = Front.target
        /\ v.group = Front.group /\ v.rest = Front.rest
    BY <1>1, <2>3, Onward
  <2>5. Sane(v) /\ Moving("Rule", 7, 11) BY <1>1, <1>2, <2>4 DEF Sane, Moving
  <2>6. /\ CardsFrame
        /\ \A c \in Cards : /\ cards'[c].summoning => cards[c].summoning \/ c = Front.target
                            /\ cards'[c].spsummon_step = cards[c].spsummon_step
                            /\ Bare(c)' => Bare(c)
    BY <1>2, <1>4, SummoningFrame
  <2>7. Framed /\ core'.summon_depth = core.summon_depth /\ Tallies(0)
    <3>1. PICK T : T = seen.negated \ {Front.target} OBVIOUS
    <3>2. T \subseteq Cards BY <3>1, OldTypes DEF SeenType
    <3>3. SeenFrame /\ seen'.tries = seen.tries /\ seen'.successes = seen.successes
      BY <1>4, <3>1, <3>2, NegatedSeen
    <3> QED BY <2>6, <3>3, CoreSame, TalliesSame DEF Framed, RuleWindow
  <2>8. PICK n : n = Len(Interrupt \o <<PointEvent>>) OBVIOUS
  <2>9. Shows(v, n)
    <3>1. \A c \in Cards : /\ ~Window(Front, c) /\ ~Grouped(Front, c)
                           /\ Moved(Front, c) => Moved(v, c)
                           /\ c = Front.target => Window(v, c)
      BY <1>1, <2>4 DEF Window, Grouped, Moved
    <3> QED BY <2>6, <3>1 DEF Shows
  <2> QED BY <1>1, <2>1, <2>2, <2>3, <2>5, <2>7, <2>8, <2>9, CallsOn
<1> QED BY <1>3, <1>4 DEF RuleWindow

LEMMA RuleCompletedKept ==
  ASSUME IInv, RuleCompleted
  PROVE  IInv'
<1>1. /\ At("Rule", 15) /\ units # <<>> /\ Front.kind = "Rule" /\ Front.step = 15
      /\ GoOn(16, <<>>)
  BY DEF RuleCompleted, At
<1>2. Sane(Front) BY <1>1, FrontTypes
<1>3. PICK v : v = Now(Front, 16) OBVIOUS
<1>4. /\ v.kind = "Rule" /\ v.step = 16 /\ v.target = Front.target
      /\ v.group = Front.group /\ v.rest = Front.rest
  BY <1>1, <1>3, Onward
<1>5. Sane(v) /\ ~Outside(v) /\ Moving("Rule", 15, 16)
  BY <1>1, <1>2, <1>4 DEF Sane, Outside, Moving
<1>6. /\ CardsFrame
      /\ \A c \in Cards : /\ cards'[c].summoning => cards[c].summoning /\ c \notin {Front.target}
                          /\ cards'[c].spsummon_step = cards[c].spsummon_step
                          /\ Bare(c)' => Bare(c) /\ c \notin {Front.target}
  BY CompleteFrame DEF RuleCompleted
<1>7. Framed /\ core'.summon_depth = core.summon_depth /\ Tallies(0)
  BY <1>6, CoreSame, SeenSame, TalliesSame DEF Framed, RuleCompleted
<1>8. Shows(v, Len(<<>>))
  <2>1. \A c \in Cards : /\ Window(Front, c) => c \in {Front.target}
                         /\ Moved(Front, c) => c \in {Front.target}
                         /\ ~Grouped(Front, c)
    BY <1>1 DEF Window, Grouped, Moved
  <2> QED BY <1>6, <2>1 DEF Shows
<1> QED BY <1>1, <1>3, <1>5, <1>7, <1>8, Idling, CallsOn

LEMMA RuleSucceededKept ==
  ASSUME IInv, RuleSucceeded \/ GroupSucceeded
  PROVE  IInv'
<1>1. CASE RuleSucceeded
  <2>1. /\ At("Rule", 17) /\ units # <<>> /\ Front.kind = "Rule" /\ Front.step = 17
        /\ Final("Rule", 17)
    BY <1>1 DEF RuleSucceeded, At, Final
  <2>2. {Front.target} \subseteq Cards BY <2>1, FrontTypes, ConstantsAssumption DEF Sane
  <2> QED BY <1>1, <2>1, <2>2, SucceedsOver DEF RuleSucceeded
<1>2. CASE GroupSucceeded
  <2>1. At("Rule", 28) /\ units # <<>> /\ Front.kind = "Rule" /\ Final("Rule", 28)
    BY <1>2 DEF GroupSucceeded, At, Final
  <2>2. Front.group \subseteq Cards BY <2>1, FrontTypes DEF Sane, Monsters
  <2> QED BY <1>2, <2>1, <2>2, SucceedsOver DEF GroupSucceeded
<1> QED BY <1>1, <1>2

-----------------------------------------------------------------------------
(* The first steps of Normal Summons and Sets, which are counted. *)

LEMMA OptionsKept ==
  ASSUME NEW u, NEW v, v.ignore_count = u.ignore_count,
         core'.summon_count = core.summon_count, core'.extra_summon = core.extra_summon,
         setting' = setting, CountOptions(u) # {}
  PROVE  CountOptions(v)' # {}
BY DEF CountOptions

LEMMA NoneLeft ==
  ASSUME IInv, units # <<>>, NEW u \in UnitType, NEW s \in Nat, GoOnAs(u, s, <<>>),
         NEW v, v = Now(u, s)
  PROVE  Continues(v, 0)
<1>1. PICK b : b = <<>> OBVIOUS
<1>2. Calls(b) /\ Len(b) = 0 /\ GoOnAs(u, s, b) BY <1>1, NoCalls
<1> QED BY <1>2, Called

LEMMA SummonCheckedKept ==
  ASSUME IInv, SummonChecked
  PROVE  IInv'
<1>1. /\ At("Summon", 0) /\ units # <<>> /\ Front.kind = "Summon" /\ Front.step = 0
      /\ cards' = cards /\ seen' = seen /\ setting' = setting
  BY DEF SummonChecked, At
<1>2. Front \in UnitType /\ Sane(Front) BY <1>1, FrontTypes
<1>3. CASE ~Summonable(Front)
  <2>1. Finish(<<>>) /\ Quiet BY <1>1, <1>3 DEF SummonChecked, Quiet
  <2>2. Ending("Summon", 0) BY DEF Ending
  <2> QED BY <1>1, <2>1, <2>2, Idling, PassedOver
<1>4. CASE Summonable(Front)
  <2>1. PICK p \in BOOLEAN : GoOnAs([Front EXCEPT !.proc = p], 1, <<>>)
    BY <1>4 DEF SummonChecked, Procedures
  <2>2. PICK w : w = [Front EXCEPT !.proc = p] OBVIOUS
  <2>3. /\ w \in UnitType /\ w.kind = Front.kind /\ w.target = Front.target
        /\ w.group = Front.group /\ w.rest = Front.rest
        /\ w.ignore_count = Front.ignore_count
    BY <1>2, <2>2 DEF UnitType
  <2>4. PICK v : v = Now(w, 1) OBVIOUS
  <2>5. /\ v.kind = "Summon" /\ v.step = 1 /\ v.target = Front.target
        /\ v.group = Front.group /\ v.rest = Front.rest
        /\ v.ignore_count = Front.ignore_count
    <3>1. /\ v.kind = w.kind /\ v.step = 1 /\ v.target = w.target /\ v.group = w.group
          /\ v.rest = w.rest /\ v.ignore_count = w.ignore_count
      BY <2>3, <2>4, NowFields
    <3> QED BY <3>1, <2>3, <1>1
  <2>6. Continues(v, 0) BY <1>1, <2>1, <2>2, <2>3, <2>4, NoneLeft
  <2>7. PICK d \in Nat : d = core.summon_depth + 1 BY OldTypes
  <2>8. CoreFrame /\ core'.summon_depth = d /\ core'.state_count = core.state_count
    BY <1>4, <2>7, DepthSet DEF SummonChecked
  <2>9. Framed /\ Tallies(0) BY <1>1, <2>8, CardsSame, SeenSame, TalliesSame DEF Framed
  <2>10. /\ Sane(v) /\ Keeps(Front) /\ Keeps(v) /\ ~Lays(Front) /\ v.kind # "ToField"
    BY <1>1, <1>2, <2>5 DEF Sane, Keeps, Free, Other, Sends, Opens, Lays
  <2>11. CountOptions(v)' # {}
    BY <1>1, <1>4, <2>5, <2>8, OptionsKept DEF CoreFrame, Summonable
  <2>12. Follows(Front, v, 0)
    BY <1>1, <2>5, <2>11 DEF Follows, Succeeds, Ready, Live, Outside, Claims
  <2>13. /\ core'.summon_depth = core.summon_depth - One(Active(Front)) + One(Active(v))
         /\ One(Counting(v)) - One(Counting(Front)) = 0
    <3>1. /\ One(Active(Front)) = 0 /\ One(Active(v)) = 1
          /\ One(Counting(Front)) = 0 /\ One(Counting(v)) = 0
      BY <1>1, <2>5 DEF One, Active, Counting
    <3> QED BY <3>1, <2>7, <2>8, OldTypes
  <2>14. Shows(v, 0)
    <3>1. \A c \in Cards : /\ ~Window(Front, c) /\ ~Grouped(Front, c) /\ ~Moved(Front, c)
      BY <1>1 DEF Window, Grouped, Moved
    <3> QED BY <1>1, <3>1, CardsSame DEF Shows
  <2> QED BY <2>6, <2>9, <2>10, <2>12, <2>13, <2>14, Framing, GoesOn
<1> QED BY <1>3, <1>4

LEMMA SetCheckedKept ==
  ASSUME IInv, SetChecked
  PROVE  IInv'
<1>1. /\ At("MSet", 0) /\ units # <<>> /\ Front.kind = "MSet" /\ Front.step = 0
      /\ cards' = cards /\ seen' = seen /\ setting' = setting /\ core' = core
  BY DEF SetChecked, At
<1>2. Front \in UnitType /\ Sane(Front) BY <1>1, FrontTypes
<1>3. CASE Finish(<<>>)
  <2>1. Ending("MSet", 0) /\ Quiet BY <1>1 DEF Ending, Quiet
  <2> QED BY <1>1, <1>3, <2>1, Idling, PassedOver
<1>4. CASE ~Finish(<<>>)
  <2>1. /\ CountOptions(Front) # {}
        /\ \E p \in BOOLEAN : GoOnAs([Front EXCEPT !.proc = p], 1, <<>>)
    BY <1>4 DEF SetChecked, Procedures
  <2>2. PICK p \in BOOLEAN : GoOnAs([Front EXCEPT !.proc = p], 1, <<>>) BY <2>1
  <2>3. PICK w : w = [Front EXCEPT !.proc = p] OBVIOUS
  <2>4. /\ w \in UnitType /\ w.kind = Front.kind /\ w.target = Front.target
        /\ w.group = Front.group /\ w.rest = Front.rest
        /\ w.ignore_count = Front.ignore_count
    BY <1>2, <2>3 DEF UnitType
  <2>5. PICK v : v = Now(w, 1) OBVIOUS
  <2>6. /\ v.kind = "MSet" /\ v.step = 1 /\ v.target = Front.target
        /\ v.group = Front.group /\ v.rest = Front.rest
        /\ v.ignore_count = Front.ignore_count
    <3>1. /\ v.kind = w.kind /\ v.step = 1 /\ v.target = w.target /\ v.group = w.group
          /\ v.rest = w.rest /\ v.ignore_count = w.ignore_count
      BY <2>4, <2>5, NowFields
    <3> QED BY <3>1, <2>4, <1>1
  <2>7. Continues(v, 0) BY <1>1, <2>2, <2>3, <2>4, <2>5, NoneLeft
  <2>8. Framed /\ Tallies(0)
    BY <1>1, CoreSame, CardsSame, SeenSame, TalliesSame DEF Framed
  <2>9. /\ Sane(v) /\ Keeps(Front) /\ Keeps(v) /\ ~Lays(Front) /\ v.kind # "ToField"
    BY <1>1, <1>2, <2>6 DEF Sane, Keeps, Free, Other, Sends, Opens, Lays
  <2>10. CountOptions(v)' # {} BY <1>1, <2>1, <2>6, CoreSame, OptionsKept DEF CoreFrame
  <2>11. Follows(Front, v, 0)
    BY <1>1, <2>6, <2>10 DEF Follows, Succeeds, Ready, Live, Outside, Claims
  <2>12. /\ core'.summon_depth = core.summon_depth - One(Active(Front)) + One(Active(v))
         /\ One(Counting(v)) - One(Counting(Front)) = 0
    <3>1. /\ One(Active(Front)) = 0 /\ One(Active(v)) = 0
          /\ One(Counting(Front)) = 0 /\ One(Counting(v)) = 0
      BY <1>1, <2>6 DEF One, Active, Counting
    <3> QED BY <1>1, <3>1, OldTypes
  <2>13. Shows(v, 0)
    <3>1. \A c \in Cards : /\ ~Window(Front, c) /\ ~Grouped(Front, c) /\ ~Moved(Front, c)
      BY <1>1 DEF Window, Grouped, Moved
    <3> QED BY <1>1, <3>1, CardsSame DEF Shows
  <2> QED BY <2>7, <2>8, <2>9, <2>11, <2>12, <2>13, Framing, GoesOn
<1> QED BY <1>3, <1>4

(* Which summon it is: one that is neither extra nor for free needs one to
   be left. *)
LEMMA ProcedureKept ==
  ASSUME IInv, units # <<>>, Quiet,
         \/ Front.kind = "Summon" /\ Front.step = 1
         \/ Front.kind = "MSet" /\ Front.step = 1,
         NEW e \in BOOLEAN, e \in CountOptions(Front),
         NEW s \in {2, 5}, s = 2 \/ Front.kind = "Summon",
         GoOnAs([Front EXCEPT !.extra = e], s, <<>>)
  PROVE  IInv'
<1>1. Front \in UnitType /\ Sane(Front) /\ s \in Nat BY FrontTypes
<1>2. PICK w : w = [Front EXCEPT !.extra = e] OBVIOUS
<1>3. /\ w \in UnitType /\ w.kind = Front.kind /\ w.target = Front.target
      /\ w.group = Front.group /\ w.rest = Front.rest
      /\ w.ignore_count = Front.ignore_count /\ w.extra = e
  BY <1>1, <1>2 DEF UnitType
<1>4. PICK v : v = Now(w, s) OBVIOUS
<1>5. /\ v.kind = Front.kind /\ v.step = s /\ v.target = Front.target
      /\ v.group = Front.group /\ v.rest = Front.rest
      /\ v.ignore_count = Front.ignore_count /\ v.extra = e
  <2>1. /\ v.kind = w.kind /\ v.step = s /\ v.target = w.target /\ v.group = w.group
        /\ v.rest = w.rest /\ v.ignore_count = w.ignore_count /\ v.extra = w.extra
    BY <1>1, <1>3, <1>4, NowFields
  <2> QED BY <2>1, <1>3
<1>6. Sane(v) BY <1>1, <1>5 DEF Sane
<1>7. Claims(v) => core.summon_count < Limit BY <1>5 DEF Claims, CountOptions
<1>8. Passes(Front, v)
  <2>1. /\ Keeps(Front) /\ Keeps(v) /\ Succeeds(Front, v)
        /\ Front.kind \notin {"ToField", "ToGrave"}
        /\ ~Prompt(v) /\ (Live(v) <=> Live(Front)) /\ (Outside(v) => Outside(Front))
    BY <1>5 DEF Succeeds, Keeps, Free, Other, Sends, Opens, Prompt, Live, Outside
  <2>2. (Active(v) <=> Active(Front)) /\ (Counting(v) <=> Counting(Front))
    BY <1>5 DEF Active, Counting
  <2>3. \A c \in Cards : ~Window(Front, c) /\ ~Grouped(Front, c) /\ ~Moved(Front, c)
    BY DEF Window, Grouped, Moved
  <2> QED BY <1>7, <2>1, <2>2, <2>3 DEF Passes
<1>9. GoOnAs(w, s, <<>>) BY <1>2
<1> QED BY <1>1, <1>3, <1>4, <1>6, <1>8, <1>9, Idling, QuietGoesOn

LEMMA SummonProcedureKept ==
  ASSUME IInv, SummonProcedure \/ SetProcedure
  PROVE  IInv'
<1>1. units # <<>> /\ Quiet /\ CountOptions(Front) \subseteq BOOLEAN
  BY DEF SummonProcedure, SetProcedure, At, Quiet, CountOptions
<1>2. CASE SummonProcedure
  <2>1. Front.kind = "Summon" /\ Front.step = 1 BY <1>2 DEF SummonProcedure, At
  <2>2. PICK e \in CountOptions(Front) :
          \/ GoOnAs([Front EXCEPT !.extra = e], 5, <<>>)
          \/ GoOnAs([Front EXCEPT !.extra = e], 2, <<>>)
    BY <1>2 DEF SummonProcedure
  <2> QED BY <1>1, <2>1, <2>2, ProcedureKept
<1>3. CASE SetProcedure
  <2>1. Front.kind = "MSet" /\ Front.step = 1 BY <1>3 DEF SetProcedure, At
  <2>2. PICK e \in CountOptions(Front) : GoOnAs([Front EXCEPT !.extra = e], 2, <<>>)
    BY <1>3 DEF SetProcedure
  <2> QED BY <1>1, <2>1, <2>2, ProcedureKept
<1> QED BY <1>2, <1>3

LEMMA ActiveDepth ==
  ASSUME IInv, units # <<>>, Active(Front)
  PROVE  core.summon_depth - 1 \in Nat
<1>1. core.summon_depth = Cardinality(ActiveAt(units)) /\ core.summon_depth \in Nat
  BY OldTypes DEF IInv, Control, Depth
<1>2. IsFiniteSet(ActiveAt(units)) /\ 1 \in ActiveAt(units)
  <2>1. units \in Seq(UnitType) /\ Front = units[1] /\ Len(units) \in Nat \ {0}
    BY OldTypes, Fronts
  <2> QED BY <2>1, FiniteCounts DEF ActiveAt, IInv
<1>3. Cardinality(ActiveAt(units)) # 0 BY <1>2, FS_EmptySet
<1> QED BY <1>1, <1>3

(* A summon inside of another one ends without being counted. *)
LEMMA InnerOver ==
  ASSUME IInv, units # <<>>, Front.kind = "Summon", Front.step \in {5, 8, 10}, Finish(<<>>),
         core' = [core EXCEPT !.summon_depth = @ - 1],
         cards' = cards, seen' = seen, setting' = setting
  PROVE  IInv'
<1>1. Ends(0)
  <2>1. PICK b : b = <<>> OBVIOUS
  <2>2. Calls(b) /\ Len(b) = 0 /\ Finish(b) BY <2>1, NoCalls
  <2> QED BY <2>2, CalledLast
<1>2. Active(Front) /\ ~Counting(Front) /\ Keeps(Front) /\ ~Lays(Front) /\ Leaves(Front, 0)
  BY DEF Active, Counting, Keeps, Free, Other, Sends, Opens, Lays, Leaves
<1>3. PICK d \in Nat : d = core.summon_depth - 1 BY <1>2, ActiveDepth
<1>4. CoreFrame /\ core'.summon_depth = d /\ core'.state_count = core.state_count
  BY <1>3, DepthSet
<1>5. Framed /\ Tallies(0) BY <1>4, CardsSame, SeenSame, TalliesSame DEF Framed
<1>6. /\ core'.summon_depth = core.summon_depth - One(Active(Front))
      /\ 0 - One(Counting(Front)) = 0
  <2>1. One(Active(Front)) = 1 /\ One(Counting(Front)) = 0 BY <1>2 DEF One
  <2> QED BY <2>1, <1>3, <1>4
<1>7. \A c \in Cards : /\ cards'[c].summoning => cards[c].summoning /\ ~Window(Front, c)
                       /\ cards'[c].spsummon_step => cards[c].spsummon_step /\ ~Grouped(Front, c)
                       /\ Bare(c)' => Bare(c) /\ ~Moved(Front, c)
  <2>1. \A c \in Cards : /\ ~Window(Front, c) /\ ~Grouped(Front, c) /\ ~Moved(Front, c)
    BY DEF Window, Grouped, Moved
  <2> QED BY <2>1, CardsSame
<1>8. DataOK /\ Apart /\ Levelled /\ Calm /\ core'.summon_count = core.summon_count
  BY <1>5, Framing
<1>9. PICK n \in Nat : n = 0 OBVIOUS
<1>10. /\ Ends(n) /\ Leaves(Front, n) /\ Keeps(Front) /\ ~Lays(Front)
       /\ Tallies(0 - One(Counting(Front)))
       /\ n > 0 => units'[1].kind # "ToField"
  BY <1>1, <1>2, <1>5, <1>6, <1>9
<1> QED BY <1>6, <1>7, <1>8, <1>10, IsOver

LEMMA SummonCostsKept ==
  ASSUME IInv, SummonCosts
  PROVE  IInv'
<1>1. /\ At("Summon", 5) /\ units # <<>> /\ Front.kind = "Summon" /\ Front.step = 5
      /\ cards' = cards /\ seen' = seen /\ setting' = setting
  BY DEF SummonCosts, At
<1>2. CASE /\ core' = core
           /\ GoOn(10, Interrupt) \/ GoOn(7, Interrupt) \/ GoOn(6, Interrupt)
  <2>1. /\ Quiet
        /\ GoOn(10, Interrupt) \/ GoOn(7, Interrupt) \/ GoOn(6, Interrupt)
    BY <1>1, <1>2 DEF Quiet
  <2>2. Passing("Summon", 5, 10) /\ Passing("Summon", 5, 7) /\ Passing("Summon", 5, 6)
    BY DEF Passing
  <2> QED BY <1>1, <2>1, <2>2, GoingOn
<1>3. CASE Finish(<<>>) /\ core' = Withdrawn(core)
  BY <1>1, <1>3, InnerOver DEF Withdrawn
<1> QED BY <1>2, <1>3 DEF SummonCosts

(* The tributes. *)
LEMMA ReleasedKept ==
  ASSUME IInv, SummonReleased \/ SetReleased
  PROVE  IInv'
<1>1. /\ units # <<>>
      /\ \/ Front.kind = "Summon" /\ Front.step = 6
         \/ Front.kind = "MSet" /\ Front.step = 5
      /\ cards' = cards /\ core' = core /\ setting' = setting
      /\ seen' = seen
  BY DEF SummonReleased, SetReleased, At
<1>2. /\ Front \in UnitType /\ Sane(Front) /\ Front.group \subseteq Members
      /\ CardsOK(cards)
  BY <1>1, FrontTypes, OldTypes
<1>3. PICK S : S = Front.group \cap On("MZONE") OBVIOUS
<1>4. S \in SUBSET Monsters BY <1>2, <1>3 DEF CardsOK, On, Monsters
<1>5. PICK b : /\ GoOnAs(Front, 8, b)
               /\ b = <<>> \/ b = <<SendToGrave(S)>>
  BY <1>3 DEF SummonReleased, SetReleased, GoOn
<1>6. Calls(b) /\ (Len(b) = 0 \/ (Len(b) = 1 /\ b[1].kind = "ToGrave"))
  <2>1. CASE b = <<>> BY <2>1, NoCalls
  <2>2. CASE b = <<SendToGrave(S)>>
    <3>1. PICK u : u = SendToGrave(S) OBVIOUS
    <3>2. Calls(<<u>>) /\ Len(<<u>>) = 1 /\ <<u>>[1] = u /\ u.kind = "ToGrave"
      BY <1>4, <3>1, Graves
    <3> QED BY <2>2, <3>1, <3>2
  <2> QED BY <1>5, <2>1, <2>2
<1>7. PICK v : v = Now(Front, 8) OBVIOUS
<1>8. /\ v.kind = Front.kind /\ v.step = 8 /\ v.target = Front.target
      /\ v.group = Front.group /\ v.rest = Front.rest
      /\ v.ignore_count = Front.ignore_count /\ v.extra = Front.extra
  BY <1>1, <1>7, Onward
<1>9. PICK n : n = Len(b) OBVIOUS
<1>10. /\ Continues(v, n) /\ n \in Nat
       /\ n > 0 => units'[1] = b[1] /\ units'[1].kind # "ToField"
  BY <1>1, <1>2, <1>5, <1>6, <1>7, <1>9, Called
<1>11. /\ Sane(v) /\ Keeps(Front) /\ Keeps(v) /\ ~Lays(Front) /\ v.kind # "ToField"
  BY <1>1, <1>2, <1>8 DEF Sane, Keeps, Free, Other, Sends, Opens, Lays
<1>12. Follows(Front, v, n)
  <2>1. n = 0 \/ (n = 1 /\ units'[1].kind = "ToGrave") BY <1>6, <1>9, <1>10
  <2> QED
    BY <1>1, <1>8, <2>1 DEF Follows, Succeeds, Ready, Live, Outside, Claims, Busy, Prompt
<1>13. n > 0 => ~Lays(units'[1]) BY <1>10 DEF Lays
<1>14. SeenFrame /\ seen'.tries = seen.tries /\ seen'.successes = seen.successes
  BY <1>1, SeenSame
<1>15. Framed /\ Tallies(0) BY <1>1, <1>14, CoreSame, CardsSame, TalliesSame DEF Framed
<1>16. /\ core'.summon_depth = core.summon_depth - One(Active(Front)) + One(Active(v))
       /\ One(Counting(v)) - One(Counting(Front)) = 0
  <2>1. One(Active(Front)) = One(Active(v)) /\ One(Active(v)) \in Nat
    BY <1>1, <1>8 DEF One, Active
  <2>2. One(Counting(Front)) = 0 /\ One(Counting(v)) = 0 BY <1>1, <1>8 DEF One, Counting
  <2> QED BY <1>1, <2>1, <2>2, OldTypes
<1>17. Shows(v, n)
  <2>1. \A c \in Cards : /\ ~Window(Front, c) /\ ~Grouped(Front, c) /\ ~Moved(Front, c)
    BY <1>1 DEF Window, Grouped, Moved
  <2> QED BY <1>1, <2>1, CardsSame DEF Shows
<1> QED BY <1>10, <1>11, <1>12, <1>13, <1>15, <1>16, <1>17, Framing, GoesOn

-----------------------------------------------------------------------------
(* The steps that count. *)

(* All of core but what is counted. *)
CoreRest ==
  /\ core' \in CoreType /\ core'.state_count = core.state_count
  /\ core'.chain = core.chain
  /\ core'.reserved = core.reserved /\ core'.special_summoning = core.special_summoning
  /\ core'.ss_tograve = core.ss_tograve /\ core'.szone = core.szone
  /\ core'.pre_set = core.pre_set /\ core'.set = core.set
  /\ core'.used_zones = core.used_zones /\ core'.seq = core.seq
Uncounted(u) == u.ignore_count \/ u.extra

LEMMA CountsFields ==
  ASSUME IInv, NEW d \in Nat, NEW x, x = [core EXCEPT !.summon_depth = d],
         NEW u \in UnitType, core' = Counts(u, x)
  PROVE  /\ CoreRest /\ core'.summon_depth = d
         /\ Uncounted(u) => core'.summon_count = core.summon_count
         /\ ~Uncounted(u) => core'.summon_count = core.summon_count + 1
<1>1. core \in CoreType BY OldTypes
<1>2. /\ x \in CoreType /\ x.summon_count = core.summon_count
      /\ x.state_count = core.state_count /\ x.chain = core.chain /\ x.summon_depth = d
      /\ x.reserved = core.reserved /\ x.special_summoning = core.special_summoning
      /\ x.ss_tograve = core.ss_tograve /\ x.szone = core.szone
      /\ x.pre_set = core.pre_set /\ x.set = core.set
      /\ x.used_zones = core.used_zones /\ x.seq = core.seq
  BY <1>1 DEF CoreType
<1>3. CASE u.ignore_count
  <2>1. core' = x BY <1>3 DEF Counts
  <2> QED BY <1>2, <1>3, <2>1 DEF CoreRest, Uncounted
<1>4. CASE ~u.ignore_count /\ u.extra
  <2>1. core' = [x EXCEPT !.extra_summon = TRUE] BY <1>4 DEF Counts
  <2>2. /\ core' \in CoreType /\ core'.summon_count = x.summon_count
        /\ core'.state_count = x.state_count /\ core'.chain = x.chain
        /\ core'.summon_depth = x.summon_depth
        /\ core'.reserved = x.reserved /\ core'.special_summoning = x.special_summoning
        /\ core'.ss_tograve = x.ss_tograve /\ core'.szone = x.szone
        /\ core'.pre_set = x.pre_set /\ core'.set = x.set
        /\ core'.used_zones = x.used_zones /\ core'.seq = x.seq
    BY <1>2, <2>1 DEF CoreType
  <2> QED BY <1>2, <1>4, <2>2 DEF CoreRest, Uncounted
<1>5. CASE ~u.ignore_count /\ ~u.extra
  <2>1. PICK m \in Nat : m = core.summon_count + 1 BY OldTypes
  <2>2. core' = [x EXCEPT !.summon_count = m] BY <1>2, <1>5, <2>1 DEF Counts
  <2>3. CoreRest /\ core'.summon_depth = d /\ core'.summon_count = m
    BY <1>2, <2>2 DEF CoreRest, CoreType
  <2> QED BY <1>5, <2>1, <2>3 DEF Uncounted
<1> QED BY <1>3, <1>4, <1>5

LEMMA CountFraming ==
  ASSUME IInv, CoreRest, CardsFrame, seen' = seen, setting' = setting
  PROVE  DataOK /\ Apart /\ Levelled /\ Calm /\ Tallies(0)
<1>1. SeenFrame /\ seen'.tries = seen.tries /\ seen'.successes = seen.successes
  BY SeenSame
<1>2. DataOK BY <1>1 DEF CoreRest, CardsFrame, SeenFrame, DataOK
<1>3. Apart /\ Levelled /\ Calm
  BY <1>1 DEF CoreRest, CardsFrame, SeenFrame, Apart, Levelled, Calm
<1>4. Tallies(0) BY <1>1, TalliesSame DEF CoreRest
<1> QED BY <1>2, <1>3, <1>4

(* What is counted is the outermost that claims it. *)
LEMMA NoneActive ==
  ASSUME IInv, units # <<>>,
         \/ Front.kind = "Summon" /\ Front.step \in {8, 10} /\ core.summon_depth = 1
         \/ Front.kind = "Summon" /\ Front.step = 11
  PROVE  \A j \in 2 .. Len(units) : ~Active(units[j])
<1>1. /\ units \in Seq(UnitType) /\ Front = units[1] /\ Len(units) \in Nat \ {0}
      /\ core.summon_depth = Cardinality(ActiveAt(units))
  BY OldTypes, Fronts DEF IInv, Control, Depth
<1>2. PICK A : A = ActiveAt(units) OBVIOUS
<1>3. IsFiniteSet(A) /\ A \subseteq 1 .. Len(units)
      /\ \A j \in 1 .. Len(units) : j \in A <=> Active(units[j])
  BY <1>1, <1>2, FiniteCounts DEF ActiveAt, IInv
<1>4. CASE Front.kind = "Summon" /\ Front.step = 11
  <2>1. core.summon_depth = 0 BY <1>4 DEF IInv, Control, Limited, Ready
  <2>2. A = {} BY <1>1, <1>2, <1>3, <2>1, FS_EmptySet
  <2> QED BY <1>1, <1>3, <2>2
<1>5. CASE Front.kind = "Summon" /\ Front.step \in {8, 10} /\ core.summon_depth = 1
  <2>1. 1 \in A /\ Cardinality(A) = 1 BY <1>1, <1>2, <1>3, <1>5 DEF Active
  <2>2. PICK a : A = {a} BY <1>3, <2>1, FS_Singleton
  <2>3. \A j \in 2 .. Len(units) : j \notin A BY <1>1, <2>1, <2>2
  <2> QED BY <1>1, <1>3, <2>3
<1> QED BY <1>4, <1>5

LEMMA Outermost ==
  ASSUME IInv, units # <<>>, ~Unlimited, Claims(Front),
         Front.kind = "MSet" \/ \A j \in 2 .. Len(units) : ~Active(units[j])
  PROVE  core.summon_count < Limit /\ \A i \in 2 .. Len(units) : ~Claims(units[i])
<1>1. /\ units \in Seq(UnitType) /\ Front = units[1] /\ Len(units) \in Nat \ {0}
      /\ Limited /\ Prompts
  BY OldTypes, Fronts DEF IInv, Control
<1>2. Front.kind # "ToGrave" BY DEF Claims, Busy
<1>3. ~setting.interrupted => \A i \in 2 .. Len(units) : ~Busy(units[i])
  BY <1>1, <1>2, Alone
<1>4. (\E i \in 1 .. Len(units) : units[i].kind = "MSet") => ~setting.interrupted
  BY <1>1 DEF Limited, Unlimited
<1>5. Front.kind = "MSet" => ~setting.interrupted BY <1>1, <1>4
<1>6. \A j \in 2 .. Len(units) : ~Active(units[j]) BY <1>3, <1>5 DEF Active, Busy
<1>7. core.summon_count < Limit
  <2>1. 1 \in 1 .. Len(units) /\ \A j \in 1 .. Len(units) : j > 1 => ~Active(units[j])
    BY <1>1, <1>6
  <2> QED BY <1>1, <2>1 DEF Limited
<1>8. ASSUME NEW i \in 2 .. Len(units), Claims(units[i])
      PROVE  FALSE
  <2>1. i \in 1 .. Len(units) /\ ~Prompt(units[i]) /\ ~Active(units[i])
    BY <1>1, <1>6 DEF Prompts
  <2>2. units[i].kind = "MSet" BY <1>8, <2>1 DEF Claims, Busy, Active, Prompt
  <2> QED BY <1>3, <1>4, <1>8, <2>1, <2>2 DEF Claims
<1> QED BY <1>7, <1>8

LEMMA CountedKept ==
  ASSUME IInv, units # <<>>,
         \/ Front.kind = "Summon" /\ Front.step = 8 /\ core.summon_depth = 1
         \/ Front.kind = "Summon" /\ Front.step = 11
         \/ Front.kind = "MSet" /\ Front.step = 8,
         NEW s \in {9, 12}, NEW b, Calls(b), GoOn(s, b),
         NEW d \in Nat, d = core.summon_depth - One(Active(Front)),
         NEW x, x = [core EXCEPT !.summon_depth = d], core' = Counts(Front, x),
         Front.kind = "Summon" /\ Front.step = 11 => s = 12,
         cards' = cards, seen' = seen, setting' = setting
  PROVE  IInv'
<1>1. Front \in UnitType /\ Sane(Front) /\ s \in Nat /\ GoOnAs(Front, s, b)
  BY FrontTypes DEF GoOn
<1>2. PICK v : v = Now(Front, s) OBVIOUS
<1>3. /\ v.kind = Front.kind /\ v.step = s /\ v.target = Front.target
      /\ v.group = Front.group /\ v.rest = Front.rest
  BY <1>1, <1>2, Onward
<1>4. PICK n : n = Len(b) OBVIOUS
<1>5. Continues(v, n) /\ n \in Nat /\ (n > 0 => units'[1].kind # "ToField")
  BY <1>1, <1>2, <1>4, Called
<1>6. /\ Sane(v) /\ Keeps(Front) /\ Keeps(v) /\ ~Lays(Front) /\ v.kind # "ToField"
  BY <1>1, <1>3 DEF Sane, Keeps, Free, Other, Sends, Opens, Lays
<1>7. ~Busy(v) /\ ~Prompt(v) /\ ~Active(v) /\ ~Counting(v) /\ ~Counting(Front)
  BY <1>3 DEF Busy, Prompt, Active, Counting
<1>8. Follows(Front, v, n)
  <2>1. Ready(v)' BY <1>3 DEF Ready, Busy
  <2> QED BY <1>3, <1>7, <2>1 DEF Follows, Succeeds, Live, Outside, Claims
<1>9. /\ CoreRest /\ core'.summon_depth = d
      /\ Uncounted(Front) => core'.summon_count = core.summon_count
      /\ ~Uncounted(Front) => core'.summon_count = core.summon_count + 1
  BY <1>1, CountsFields
<1>10. DataOK /\ Apart /\ Levelled /\ Calm /\ Tallies(0)
  BY <1>9, CardsSame, CountFraming
<1>11. /\ core'.summon_depth = core.summon_depth - One(Active(Front)) + One(Active(v))
       /\ One(Counting(v)) - One(Counting(Front)) = 0
  <2>1. One(Active(v)) = 0 /\ One(Counting(Front)) = 0 /\ One(Counting(v)) = 0
    BY <1>7 DEF One
  <2> QED BY <1>9, <2>1
<1>12. core'.summon_count = core.summon_count \/ Limited'
  <2> SUFFICES ASSUME ~Uncounted(Front) PROVE Limited' BY <1>9
  <2>1. Types /\ Control /\ Limited BY DEF IInv, Control
  <2>2. Fits(1, n + 1) /\ Ready(Front)'
    BY <1>5, <1>8, <1>10, <1>11, <2>1, ControlContinued
  <2>3. Claims(Front) BY DEF Claims, Busy, Uncounted
  <2>4. Front.kind = "MSet" \/ \A j \in 2 .. Len(units) : ~Active(units[j])
    BY NoneActive
  <2>5. ~Unlimited =>
          core.summon_count < Limit /\ \A i \in 2 .. Len(units) : ~Claims(units[i])
    BY <2>3, <2>4, Outermost
  <2>6. Restacked(1, n + 1) /\ units'[n + 1] = v BY <1>5 DEF Continues
  <2>7. ~Claims(units'[n + 1]) BY <1>7, <2>6 DEF Claims
  <2>8. ~Unlimited => \A i \in 1 + 1 .. Len(units) : ~Deepest(units, i)
    BY <2>5 DEF Deepest
  <2>9. core'.summon_count = core.summon_count + 1 BY <1>9
  <2> QED BY <1>10, <2>1, <2>2, <2>5, <2>6, <2>7, <2>8, <2>9, LimitedCounted DEF Apart
<1>13. Shows(v, n)
  <2>1. \A c \in Cards : /\ ~Window(Front, c) /\ ~Grouped(Front, c)
                         /\ Moved(Front, c) => Moved(v, c)
    BY <1>3 DEF Window, Grouped, Moved
  <2> QED BY <2>1, CardsSame DEF Shows
<1>14. n > 0 => ~Lays(units'[1]) BY <1>5 DEF Lays
<1> QED BY <1>5, <1>6, <1>8, <1>10, <1>11, <1>12, <1>13, <1>14, GoesOn

LEMMA CountedCalls ==
  ASSUME NEW b, b = IF Front.extra THEN Interrupt ELSE <<>>
  PROVE  Calls(b)
BY Idling

LEMMA SummonCountedKept ==
  ASSUME IInv, SummonCounted
  PROVE  IInv'
<1>1. /\ units # <<>> /\ Front.kind = "Summon" /\ Front.step = 8
      /\ cards' = cards /\ seen' = seen /\ setting' = setting
  BY DEF SummonCounted, At
<1>2. PICK d \in Nat : d = core.summon_depth - 1 BY <1>1, ActiveDepth DEF Active
<1>3. PICK x : x = [core EXCEPT !.summon_depth = d] OBVIOUS
<1>4. x.summon_depth = d BY <1>3, OldTypes DEF CoreType
<1>5. CASE Inner(Front, x)
  <2>1. Finish(<<>>) /\ core' = x BY <1>2, <1>3, <1>5 DEF SummonCounted
  <2> QED BY <1>1, <1>2, <1>3, <2>1, InnerOver
<1>6. CASE ~Inner(Front, x)
  <2>1. PICK b : b = IF Front.extra THEN Interrupt ELSE <<>> OBVIOUS
  <2>2. GoOn(9, b) /\ core' = Counts(Front, x)
    BY <1>2, <1>3, <1>6, <2>1 DEF SummonCounted
  <2>3. d = 0 BY <1>4, <1>6 DEF Inner
  <2>4. core.summon_depth = 1 /\ d = core.summon_depth - One(Active(Front))
    <3>1. One(Active(Front)) = 1 BY <1>1 DEF One, Active
    <3> QED BY <1>2, <2>3, <3>1, OldTypes
  <2>5. Calls(b) BY <2>1, CountedCalls
  <2> QED BY <1>1, <1>3, <2>2, <2>4, <2>5, CountedKept
<1> QED BY <1>5, <1>6

LEMMA LaterCountedKept ==
  ASSUME IInv, GeminiCounted \/ SetCounted
  PROVE  IInv'
<1>1. /\ units # <<>> /\ cards' = cards /\ seen' = seen /\ setting' = setting
      /\ core' = Counts(Front, core)
  BY DEF GeminiCounted, SetCounted, At
<1>2. PICK d \in Nat : d = core.summon_depth BY OldTypes
<1>3. core = [core EXCEPT !.summon_depth = d] BY <1>2, OldTypes DEF CoreType
<1>4. PICK b : b = IF Front.extra THEN Interrupt ELSE <<>> OBVIOUS
<1>5. Calls(b) BY <1>4, CountedCalls
<1>6. CASE GeminiCounted
  <2>1. Front.kind = "Summon" /\ Front.step = 11 /\ GoOn(12, b)
    BY <1>4, <1>6 DEF GeminiCounted, At
  <2>2. d = core.summon_depth - One(Active(Front))
    <3>1. One(Active(Front)) = 0 BY <2>1 DEF One, Active
    <3> QED BY <1>2, <3>1
  <2> QED BY <1>1, <1>3, <1>5, <2>1, <2>2, CountedKept
<1>7. CASE SetCounted
  <2>1. Front.kind = "MSet" /\ Front.step = 8 /\ GoOn(9, b)
    BY <1>4, <1>7 DEF SetCounted, At
  <2>2. d = core.summon_depth - One(Active(Front))
    <3>1. One(Active(Front)) = 0 BY <2>1 DEF One, Active
    <3> QED BY <1>2, <3>1
  <2> QED BY <1>1, <1>3, <1>5, <2>1, <2>2, CountedKept
<1> QED BY <1>6, <1>7

LEMMA GeminiFrame ==
  ASSUME IInv, NEW t \in Cards,
         cards' = [Enabled({t}, FALSE) EXCEPT ![t].gemini = TRUE]
  PROVE  /\ CardsFrame
         /\ \A c \in Cards : /\ cards'[c].summoning = cards[c].summoning
                             /\ cards'[c].spsummon_step = cards[c].spsummon_step
                             /\ Bare(c)' => Bare(c) \/ c = t
<1>1. CardsOK(cards) BY OldTypes
<1>2. PICK y : y = Enabled({t}, FALSE) OBVIOUS
<1>3. PICK z : z = [cards[t] EXCEPT !.enabled = FALSE] OBVIOUS
<1>4. /\ z \in CardType /\ z.summoning = cards[t].summoning /\ z.loc = cards[t].loc
      /\ z.seq = cards[t].seq /\ z.spsummon_step = cards[t].spsummon_step
  BY <1>1, <1>3 DEF CardsOK, CardType
<1>5. y = [c \in Cards |-> IF c \in {t} THEN z ELSE cards[c]]
  BY <1>2, <1>3 DEF Enabled, Changed
<1>6. PICK w : w = [z EXCEPT !.gemini = TRUE] OBVIOUS
<1>7. /\ w \in CardType /\ w.summoning = cards[t].summoning /\ w.loc = cards[t].loc
      /\ w.seq = cards[t].seq /\ w.spsummon_step = cards[t].spsummon_step
  BY <1>4, <1>6 DEF CardType
<1>8. cards' = [y EXCEPT ![t] = w]
  <2>1. y[t] = z BY <1>5
  <2> QED BY <1>2, <1>6, <2>1
<1>9. cards' \in [Cards -> CardType] /\ \A c \in Cards : cards'[c] = IF c = t THEN w ELSE cards[c]
  BY <1>1, <1>5, <1>7, <1>8 DEF CardsOK
<1>10. CardsFrame BY <1>1, <1>7, <1>9 DEF CardsFrame, CardsOK
<1> QED BY <1>7, <1>9, <1>10 DEF Bare

LEMMA GeminiSummonedKept ==
  ASSUME IInv, GeminiSummoned
  PROVE  IInv'
<1>1. /\ units # <<>> /\ Front.kind = "Summon" /\ Front.step = 10
      /\ setting' = setting
  BY DEF GeminiSummoned, At
<1>2. Front \in UnitType /\ Sane(Front) BY <1>1, FrontTypes
<1>3. PICK d \in Nat : d = core.summon_depth - 1 BY <1>1, ActiveDepth DEF Active
<1>4. PICK x : x = [core EXCEPT !.summon_depth = d] OBVIOUS
<1>5. x.summon_depth = d /\ core' = x
  BY <1>3, <1>4, OldTypes DEF CoreType, GeminiSummoned
<1>6. CASE Inner(Front, x)
  <2>1. Finish(<<>>) /\ cards' = cards /\ seen' = seen BY <1>3, <1>4, <1>6 DEF GeminiSummoned
  <2> QED BY <1>1, <1>3, <1>4, <1>5, <2>1, InnerOver
<1>7. CASE ~Inner(Front, x)
  <2>1. /\ GoOnAs(Front, 11, <<>>)
        /\ cards' = [Enabled({Front.target}, FALSE) EXCEPT ![Front.target].gemini = TRUE]
        /\ seen' = [seen EXCEPT !.negated = @ \ {Front.target}]
    BY <1>3, <1>4, <1>7 DEF GeminiSummoned, GoOn
  <2>2. d = 0 BY <1>5, <1>7 DEF Inner
  <2>3. PICK v : v = Now(Front, 11) OBVIOUS
  <2>4. /\ v.kind = "Summon" /\ v.step = 11 /\ v.target = Front.target
        /\ v.group = Front.group /\ v.rest = Front.rest
        /\ v.ignore_count = Front.ignore_count /\ v.extra = Front.extra
    BY <1>1, <2>3, Onward
  <2>5. Continues(v, 0) BY <1>1, <1>2, <2>1, <2>3, NoneLeft
  <2>6. CoreFrame /\ core'.summon_depth = d /\ core'.state_count = core.state_count
    BY <1>4, <1>5, DepthSet
  <2>7. Front.target \in Cards BY <1>1, <1>2 DEF Sane, Monsters
  <2>8. /\ CardsFrame
        /\ \A c \in Cards : /\ cards'[c].summoning = cards[c].summoning
                            /\ cards'[c].spsummon_step = cards[c].spsummon_step
                            /\ Bare(c)' => Bare(c) \/ c = Front.target
    BY <2>1, <2>7, GeminiFrame
  <2>9. Framed /\ Tallies(0)
    <3>1. PICK T : T = seen.negated \ {Front.target} OBVIOUS
    <3>2. T \subseteq Cards BY <3>1, OldTypes DEF SeenType
    <3>3. SeenFrame /\ seen'.tries = seen.tries /\ seen'.successes = seen.successes
      BY <2>1, <3>1, <3>2, NegatedSeen
    <3> QED BY <1>1, <2>6, <2>8, <3>3, TalliesSame DEF Framed
  <2>10. /\ Sane(v) /\ Keeps(Front) /\ Keeps(v) /\ ~Lays(Front) /\ v.kind # "ToField"
    BY <1>1, <1>2, <2>4 DEF Sane, Keeps, Free, Other, Sends, Opens, Lays
  <2>11. Follows(Front, v, 0)
    <3>1. Ready(v)' BY <2>2, <2>4, <2>6 DEF Ready, Busy
    <3>2. Claims(v) => Claims(Front) BY <1>1, <2>4 DEF Claims, Busy
    <3> QED BY <1>1, <2>4, <3>1, <3>2 DEF Follows, Succeeds, Live, Outside
  <2>12. /\ core'.summon_depth = core.summon_depth - One(Active(Front)) + One(Active(v))
         /\ One(Counting(v)) - One(Counting(Front)) = 0
    <3>1. /\ One(Active(Front)) = 1 /\ One(Active(v)) = 0
          /\ One(Counting(Front)) = 0 /\ One(Counting(v)) = 0
      BY <1>1, <2>4 DEF One, Active, Counting
    <3> QED BY <3>1, <1>3, <2>6, OldTypes
  <2>13. Shows(v, 0)
    <3>1. \A c \in Cards : /\ ~Window(Front, c) /\ ~Grouped(Front, c) /\ ~Moved(Front, c)
                           /\ c = Front.target => Moved(v, c)
      BY <1>1, <2>4 DEF Window, Grouped, Moved
    <3> QED BY <2>8, <3>1 DEF Shows
  <2> QED BY <2>5, <2>9, <2>10, <2>11, <2>12, <2>13, Framing, GoesOn
<1> QED BY <1>6, <1>7

-----------------------------------------------------------------------------
(* The summon of a group by its procedure. *)

Turned(u, c) == [u EXCEPT !.target = c, !.rest = @ \ {c}]
LEMMA TurnedFields ==
  ASSUME NEW u \in UnitType, NEW c \in Cards, NEW s \in Nat,
         NEW w, w = Turned(u, c), NEW v, v = Now(w, s)
  PROVE  /\ w \in UnitType /\ v \in UnitType /\ v.kind = u.kind /\ v.step = s
         /\ v.target = c /\ v.group = u.group /\ v.rest = u.rest \ {c}
<1>1. PICK x : x = [u EXCEPT !.target = c] OBVIOUS
<1>2. /\ x \in UnitType /\ x.kind = u.kind /\ x.target = c /\ x.group = u.group
      /\ x.rest = u.rest
  BY <1>1 DEF UnitType, Members
<1>3. w = [x EXCEPT !.rest = u.rest \ {c}] BY <1>1 DEF Turned
<1>4. PICK R : R = u.rest \ {c} OBVIOUS
<1>5. R \in SUBSET Cards BY <1>4 DEF UnitType
<1>6. /\ w \in UnitType /\ w.kind = u.kind /\ w.target = c /\ w.group = u.group /\ w.rest = R
  BY <1>2, <1>3, <1>4, <1>5 DEF UnitType
<1> QED BY <1>4, <1>6 DEF Now, UnitType

LEMMA GroupMovesKept ==
  ASSUME IInv, GroupMoves
  PROVE  IInv'
<1>1. /\ At("Rule", 23) /\ units # <<>> /\ Front.kind = "Rule" /\ Front.step = 23
      /\ core' = core /\ seen' = seen /\ setting' = setting
  BY DEF GroupMoves, At
<1>2. /\ Front \in UnitType /\ Sane(Front) /\ Front.group \subseteq Monsters
      /\ Front.rest \subseteq Front.group /\ units \in Seq(UnitType)
  BY <1>1, FrontTypes DEF Sane
<1>3. PICK c \in Front.rest :
        /\ cards' = Enabled({c}, FALSE)
        /\ GoOnAs([Front EXCEPT !.target = c, !.rest = @ \ {c}], 24, <<MoveToField(c, FALSE, 0)>>)
  BY DEF GroupMoves
<1>4. c \in Front.group /\ c \in Cards /\ c \notin Spells BY <1>2 DEF Monsters
<1>5. PICK w : w = Turned(Front, c) OBVIOUS
<1>6. PICK v : v = Now(w, 24) OBVIOUS
<1>7. /\ w \in UnitType /\ v.kind = "Rule" /\ v.step = 24 /\ v.target = c
      /\ v.group = Front.group /\ v.rest = Front.rest \ {c}
  BY <1>1, <1>2, <1>4, <1>5, <1>6, TurnedFields
<1>8. PICK u : u = Upward(c) OBVIOUS
<1>9. /\ Batch(<<u>>) /\ u.target = c /\ u.kind = "ToField" BY <1>4, <1>8, Fielders
<1>10. GoOnAs(w, 24, <<u>>) BY <1>3, <1>5, <1>8 DEF Turned, Upward
<1>11. Continues(v, 1) /\ units'[1] = u
  BY <1>1, <1>2, <1>6, <1>7, <1>9, <1>10, ContinuedOne
<1>12. Sane(v) /\ ~Outside(v) /\ Moving("Rule", 23, 24) /\ Mover(u, v) /\ ~Lays(u)
  BY <1>1, <1>2, <1>4, <1>7, <1>9 DEF Sane, Outside, Moving, Mover, Lays
<1>13. /\ CardsFrame
       /\ \A d \in Cards : /\ cards'[d].summoning = cards[d].summoning
                           /\ cards'[d].spsummon_step = cards[d].spsummon_step
                           /\ Bare(d)' => Bare(d) \/ d \in {c}
  BY <1>3, EnabledFrame
<1>14. Framed /\ core'.summon_depth = core.summon_depth /\ Tallies(0)
  BY <1>1, <1>13, CoreSame, SeenSame, TalliesSame DEF Framed
<1>15. Shows(v, 1)
  <2>1. \A d \in Cards : /\ ~Window(Front, d) /\ (Grouped(Front, d) => Grouped(v, d))
                         /\ (Moved(Front, d) \/ d = c) => Moved(v, d)
    BY <1>1, <1>4, <1>7 DEF Window, Grouped, Moved
  <2> QED BY <1>13, <2>1 DEF Shows
<1> QED BY <1>1, <1>7, <1>11, <1>12, <1>14, <1>15, MovesOn

LEMMA GroupMovedKept ==
  ASSUME IInv, GroupMoved
  PROVE  IInv'
<1>1. /\ At("Rule", 24) /\ units # <<>> /\ Front.kind = "Rule" /\ Front.step = 24
      /\ core' = core /\ seen' = seen /\ setting' = setting
  BY DEF GroupMoved, At
<1>2. Sane(Front) /\ Front.group \subseteq Monsters /\ Front.target \in Front.group
  BY <1>1, FrontTypes DEF Sane
<1>3. PICK s : s = IF Front.rest = {} THEN 25 ELSE 23 OBVIOUS
<1>4. s \in Nat /\ Moving("Rule", 24, s) /\ GoOn(s, <<>>) BY <1>3 DEF Moving, GroupMoved
<1>5. PICK v : v = Now(Front, s) OBVIOUS
<1>6. /\ v.kind = "Rule" /\ v.step = s /\ v.target = Front.target
      /\ v.group = Front.group /\ v.rest = Front.rest
  BY <1>1, <1>4, <1>5, Onward
<1>7. Sane(v) /\ ~Outside(v) BY <1>1, <1>2, <1>3, <1>6 DEF Sane, Outside
<1>8. Front.target \in Cards BY <1>2 DEF Monsters
<1>9. /\ CardsFrame
      /\ \A c \in Cards : /\ cards'[c].summoning = cards[c].summoning
                          /\ cards'[c].spsummon_step => cards[c].spsummon_step \/ c = Front.target
                          /\ Bare(c)' => Bare(c)
  BY <1>8, MarkFrame DEF GroupMoved
<1>10. Framed /\ core'.summon_depth = core.summon_depth /\ Tallies(0)
  BY <1>1, <1>9, CoreSame, SeenSame, TalliesSame DEF Framed
<1>11. Shows(v, Len(<<>>))
  <2>1. \A c \in Cards : /\ ~Window(Front, c)
                         /\ (Grouped(Front, c) \/ c = Front.target) => Grouped(v, c)
                         /\ Moved(Front, c) => Moved(v, c)
    BY <1>1, <1>2, <1>3, <1>6 DEF Window, Grouped, Moved
  <2> QED BY <1>9, <2>1 DEF Shows
<1> QED BY <1>1, <1>4, <1>5, <1>7, <1>10, <1>11, Idling, CallsOn

Opening(S) ==
  Changed(S, LAMBDA x : [x EXCEPT !.spsummon_step = FALSE, !.summoning = @ \/ core.chain = 0])
LEMMA OpeningFrame ==
  ASSUME IInv, NEW S \in SUBSET Monsters, cards' = Opening(S)
  PROVE  /\ CardsFrame
         /\ \A c \in Cards : /\ cards'[c].summoning =>
                                  cards[c].summoning \/ (c \in S /\ core.chain = 0)
                             /\ cards'[c].spsummon_step => cards[c].spsummon_step /\ c \notin S
                             /\ Bare(c)' => Bare(c)
<1>1. CardsOK(cards) BY OldTypes
<1>2. PICK z \in BOOLEAN : z = (core.chain = 0) OBVIOUS
<1>3. \A c \in Cards :
        cards'[c] = IF c \in S
                    THEN [cards[c] EXCEPT !.spsummon_step = FALSE,
                                          !.summoning = cards[c].summoning \/ z]
                    ELSE cards[c]
  BY <1>2 DEF Opening, Changed
<1>4. \A c \in Cards : cards[c] \in CardType /\ (cards[c].summoning \/ z) \in BOOLEAN
  BY <1>1, <1>2 DEF CardsOK, CardType
<1>5. ASSUME NEW c \in Cards
      PROVE  /\ cards'[c] \in CardType /\ cards'[c].loc = cards[c].loc
             /\ cards'[c].seq = cards[c].seq /\ cards'[c].facedown = cards[c].facedown
             /\ cards'[c].enabled = cards[c].enabled
             /\ cards'[c].summoning => cards[c].summoning \/ (c \in S /\ z)
             /\ cards'[c].spsummon_step => cards[c].spsummon_step /\ c \notin S
  <2>1. CASE c \notin S BY <1>3, <1>4, <2>1
  <2>2. CASE c \in S
    <3>1. PICK b \in BOOLEAN : b = (cards[c].summoning \/ z) BY <1>4
    <3>2. PICK x : x = [cards[c] EXCEPT !.spsummon_step = FALSE] OBVIOUS
    <3>3. /\ x \in CardType /\ x.loc = cards[c].loc /\ x.seq = cards[c].seq
          /\ x.facedown = cards[c].facedown /\ x.enabled = cards[c].enabled
          /\ x.spsummon_step = FALSE
      BY <1>4, <3>2 DEF CardType
    <3>4. cards'[c] = [x EXCEPT !.summoning = b] BY <1>3, <2>2, <3>1, <3>2
    <3>5. /\ cards'[c] \in CardType /\ cards'[c].loc = x.loc /\ cards'[c].seq = x.seq
          /\ cards'[c].facedown = x.facedown /\ cards'[c].enabled = x.enabled
          /\ cards'[c].spsummon_step = FALSE /\ cards'[c].summoning = b
      BY <3>3, <3>4 DEF CardType
    <3> QED BY <2>2, <3>1, <3>3, <3>5
  <2> QED BY <2>1, <2>2
<1>6. cards' \in [Cards -> CardType] BY <1>5 DEF Opening, Changed
<1>7. \A c \in Spells : ~cards'[c].summoning /\ c \in Cards
  BY <1>1, <1>5, ConstantsAssumption DEF CardsOK, Monsters
<1>8. CardsFrame BY <1>1, <1>5, <1>6, <1>7 DEF CardsFrame, CardsOK
<1> QED BY <1>2, <1>5, <1>8 DEF Bare

LEMMA GroupWindowKept ==
  ASSUME IInv, GroupWindow
  PROVE  IInv'
<1>1. /\ At("Rule", 25) /\ units # <<>> /\ Front.kind = "Rule" /\ Front.step = 25
      /\ setting' = setting /\ core' = [core EXCEPT !.state_count = CountedAs(TRUE)]
      /\ cards' = Opening(Front.group)
  BY DEF GroupWindow, At, Opening
<1>2. Sane(Front) /\ Front.group \subseteq Monsters BY <1>1, FrontTypes DEF Sane
<1>3. \E s \in {26, 27} : \E b :
        /\ GoOn(s, b) /\ Calls(b) /\ (s = 26 <=> core.chain = 0)
        /\ seen' = Tried \/ seen' = [Tried EXCEPT !.negated = @ \ Front.group]
  <2>1. CASE core.chain = 0
    <3>3. PICK s \in {26, 27} : s = 26 OBVIOUS
    <3>6. GoOn(26, <<>>) \/ GoOn(26, Interrupt \o <<PointEvent>>) BY <2>1 DEF GroupWindow
    <3>1. PICK b : GoOn(26, b) /\ (b = <<>> \/ b = Interrupt \o <<PointEvent>>) BY <3>6
    <3>2. Calls(b) BY <2>1, <3>1, NoticeCalls, NoCalls
    <3>4. GoOn(s, b) /\ seen' = [Tried EXCEPT !.negated = @ \ Front.group]
      BY <2>1, <3>1, <3>3 DEF GroupWindow
    <3>5. s = 26 <=> core.chain = 0 BY <2>1, <3>3
    <3> QED BY <3>2, <3>4, <3>5, Zenon
  <2>2. CASE core.chain # 0
    <3>1. PICK b : b = <<>> OBVIOUS
    <3>2. Calls(b) BY <3>1, Idling
    <3>3. PICK s \in {26, 27} : s = 27 OBVIOUS
    <3>4. GoOn(s, b) /\ seen' = Tried BY <2>2, <3>1, <3>3 DEF GroupWindow
    <3>5. s = 26 <=> core.chain = 0 BY <2>2, <3>3
    <3> QED BY <3>2, <3>4, <3>5, Zenon
  <2> QED BY <2>1, <2>2
<1>31. PICK s \in {26, 27} : \E b :
         /\ GoOn(s, b) /\ Calls(b) /\ (s = 26 <=> core.chain = 0)
         /\ seen' = Tried \/ seen' = [Tried EXCEPT !.negated = @ \ Front.group]
  BY <1>3
<1>32. PICK b :
         /\ GoOn(s, b) /\ Calls(b) /\ (s = 26 <=> core.chain = 0)
         /\ seen' = Tried \/ seen' = [Tried EXCEPT !.negated = @ \ Front.group]
  BY <1>31
<1>4. PICK v : v = Now(Front, s) OBVIOUS
<1>5. /\ v.kind = "Rule" /\ v.step = s /\ v.target = Front.target
      /\ v.group = Front.group /\ v.rest = Front.rest
  BY <1>1, <1>4, Onward
<1>6. Sane(v) /\ Moving("Rule", 25, s) /\ (Outside(v) => core.chain = 0)
  BY <1>1, <1>2, <1>32, <1>5 DEF Sane, Moving, Outside
<1>7. /\ CardsFrame
      /\ \A c \in Cards : /\ cards'[c].summoning =>
                               cards[c].summoning \/ (c \in Front.group /\ core.chain = 0)
                          /\ cards'[c].spsummon_step => cards[c].spsummon_step /\ c \notin Front.group
                          /\ Bare(c)' => Bare(c)
  BY <1>1, <1>2, OpeningFrame
<1>8. SeenFrame /\ seen'.tries = seen.tries + 1 /\ seen'.successes = seen.successes
  <2>1. CASE seen' = Tried BY <2>1, TriedOnly
  <2>2. CASE seen' = [Tried EXCEPT !.negated = @ \ Front.group]
    <3>1. PICK T : T = Tried.negated \ Front.group OBVIOUS
    <3>2. T \subseteq Cards BY <3>1, OldTypes DEF SeenType, Tried
    <3> QED BY <2>2, <3>1, <3>2, TriedSeen
  <2> QED BY <1>32, <2>1, <2>2
<1>9. PICK m : m = CountedAs(TRUE) OBVIOUS
<1>10. CoreFrame /\ core'.summon_depth = core.summon_depth /\ core'.state_count = m
  BY <1>1, <1>9, CountedNat, StateSet
<1>11. Framed /\ core'.summon_depth = core.summon_depth /\ Tallies(0)
  BY <1>1, <1>7, <1>8, <1>9, <1>10, TriesTally DEF Framed
<1>12. PICK n : n = Len(b) OBVIOUS
<1>13. Shows(v, n)
  <2>1. \A c \in Cards : /\ ~Window(Front, c)
                         /\ c \in Front.group => Window(v, c)
                         /\ Grouped(Front, c) => c \in Front.group
                         /\ Moved(Front, c) => Moved(v, c)
    BY <1>1, <1>32, <1>5 DEF Window, Grouped, Moved
  <2> QED BY <1>7, <2>1 DEF Shows
<1> QED BY <1>1, <1>32, <1>4, <1>6, <1>11, <1>12, <1>13, CallsOn

LEMMA GroupCompletedKept ==
  ASSUME IInv, GroupCompleted
  PROVE  IInv'
<1>1. /\ At("Rule", 27) /\ units # <<>> /\ Front.kind = "Rule" /\ Front.step = 27
      /\ GoOn(28, <<>>)
  BY DEF GroupCompleted, At
<1>2. Sane(Front) BY <1>1, FrontTypes
<1>3. PICK v : v = Now(Front, 28) OBVIOUS
<1>4. /\ v.kind = "Rule" /\ v.step = 28 /\ v.target = Front.target
      /\ v.group = Front.group /\ v.rest = Front.rest
  BY <1>1, <1>3, Onward
<1>5. Sane(v) /\ ~Outside(v) /\ Moving("Rule", 27, 28)
  BY <1>1, <1>2, <1>4 DEF Sane, Outside, Moving
<1>6. /\ CardsFrame
      /\ \A c \in Cards : /\ cards'[c].summoning => cards[c].summoning /\ c \notin Front.group
                          /\ cards'[c].spsummon_step = cards[c].spsummon_step
                          /\ Bare(c)' => Bare(c) /\ c \notin Front.group
  BY CompleteFrame DEF GroupCompleted
<1>7. Framed /\ core'.summon_depth = core.summon_depth /\ Tallies(0)
  BY <1>6, CoreSame, SeenSame, TalliesSame DEF Framed, GroupCompleted
<1>8. Shows(v, Len(<<>>))
  <2>1. \A c \in Cards : /\ Window(Front, c) => c \in Front.group
                         /\ Moved(Front, c) => c \in Front.group
                         /\ ~Grouped(Front, c)
    BY <1>1 DEF Window, Grouped, Moved
  <2> QED BY <1>6, <2>1 DEF Shows
<1> QED BY <1>1, <1>3, <1>5, <1>7, <1>8, Idling, CallsOn

LEMMA SentCalls ==
  ASSUME NEW S \in SUBSET Monsters, NEW b, b = Sent(S)
  PROVE  /\ Calls(b) /\ Len(b) \in 0 .. 1 /\ (S = {} => Len(b) = 0)
         /\ S # {} => Len(b) = 1 /\ b[1].kind = "ToGrave" /\ b[1].group = S
<1>1. CASE S = {} BY <1>1, NoCalls DEF Sent
<1>2. CASE S # {}
  <2>1. PICK u : u = SendToGrave(S) OBVIOUS
  <2>2. Calls(<<u>>) /\ Len(<<u>>) = 1 /\ <<u>>[1] = u /\ u.kind = "ToGrave" /\ u.group = S
    BY <2>1, Graves
  <2>3. b = <<u>> BY <1>2, <2>1 DEF Sent
  <2> QED BY <1>2, <2>2, <2>3
<1> QED BY <1>1, <1>2

LEMMA GroupAskedKept ==
  ASSUME IInv, GroupAsked
  PROVE  IInv'
<1>1. /\ At("Rule", 26) /\ units # <<>> /\ Front.kind = "Rule" /\ Front.step = 26 /\ Quiet
  BY DEF GroupAsked, At, Quiet
<1>2. Front \in UnitType /\ Sane(Front) /\ Front.group \subseteq Monsters
  BY <1>1, FrontTypes DEF Sane
<1>3. PICK N : N = {c \in Front.group : ~cards[c].summoning} OBVIOUS
<1>4. PICK S : S = N \cap On("MZONE") OBVIOUS
<1>5. S \in SUBSET Monsters BY <1>2, <1>3, <1>4
<1>6. \A c \in Cards : /\ Window(Front, c) => c \in Front.group
                       /\ Moved(Front, c) => c \in Front.group
                       /\ ~Grouped(Front, c)
                       /\ Bare(c) /\ c \in N => c \in S
  BY <1>1, <1>4 DEF Window, Grouped, Moved, Bare, On
<1>7. /\ ~Active(Front) /\ ~Counting(Front)
      /\ Outside(Front) /\ ~Live(Front)
  BY <1>1 DEF Active, Counting, Outside, Live
<1>8. CASE N = Front.group
  <2>1. PICK b : b = Told(S) OBVIOUS
  <2>2. Finish(b) BY <1>3, <1>4, <1>8, <2>1 DEF GroupAsked, Told, Sent
  <2>3. Calls(b) /\ Len(b) \in Nat \ {0} /\ (S # {} => b[1].kind = "ToGrave" /\ b[1].group = S)
    BY <1>5, <1>7, <2>1, NegatedCalls
  <2>4. PICK n : n = Len(b) OBVIOUS
  <2>5. Ends(n) /\ n \in Nat /\ n > 0 /\ units'[1] = b[1] /\ units'[1].kind # "ToField"
    BY <1>1, <2>2, <2>3, <2>4, CalledLast
  <2>6. Keeps(Front) /\ ~Lays(Front) /\ Leaves(Front, n)
    BY <1>1 DEF Keeps, Free, Other, Sends, Opens, Lays, Leaves
  <2>7. /\ core'.summon_depth = core.summon_depth - One(Active(Front))
        /\ 0 - One(Counting(Front)) = 0
    <3>1. One(Active(Front)) = 0 /\ One(Counting(Front)) = 0 BY <1>7 DEF One
    <3>2. core'.summon_depth = core.summon_depth /\ core.summon_depth \in Nat
      BY <1>1, QuietFacts
    <3> QED BY <3>1, <3>2
  <2>8. \A c \in Cards : cards'[c].summoning => cards[c].summoning /\ ~Window(Front, c)
    BY <1>1, <1>3, <1>6, <1>8 DEF Quiet
  <2>9. \A c \in Cards : cards'[c].spsummon_step => cards[c].spsummon_step /\ ~Grouped(Front, c)
    BY <1>1, <1>6 DEF Quiet
  <2>10. \A c \in Cards : Bare(c)' =>
           (Bare(c) /\ ~Moved(Front, c)) \/ (n > 0 /\ Moved(units'[1], c))
    <3>1. \A c \in S : Moved(units'[1], c) BY <2>3, <2>5 DEF Moved
    <3>2. \A c \in Cards : Bare(c)' = Bare(c) BY <1>1, CardsSame DEF Quiet
    <3> QED BY <1>6, <1>8, <2>5, <3>1, <3>2
  <2> QED BY <1>1, <2>5, <2>6, <2>7, <2>8, <2>9, <2>10, QuietFacts, IsOver
<1>9. CASE N # Front.group
  <2>1. PICK b : b = Sent(S) OBVIOUS
  <2>2. PICK G : G = Front.group \ N OBVIOUS
  <2>3. PICK w : w = Given(Front, G) OBVIOUS
  <2>4. PICK v : v = Now(w, 27) OBVIOUS
  <2>5. G \in SUBSET Members /\ G \subseteq Monsters BY <1>2, <2>2 DEF Members, Monsters
  <2>6. /\ w \in UnitType /\ v.kind = "Rule" /\ v.step = 27 /\ v.group = G /\ v.rest = Front.rest
    BY <1>1, <1>2, <2>3, <2>4, <2>5, GivenFields
  <2>7. GoOnAs(w, 27, b)
    BY <1>3, <1>4, <1>9, <2>1, <2>2, <2>3 DEF GroupAsked, Given, Sent
  <2>8. /\ Calls(b) /\ Len(b) \in 0 .. 1 /\ (S = {} => Len(b) = 0)
        /\ S # {} => Len(b) = 1 /\ b[1].kind = "ToGrave" /\ b[1].group = S
    BY <1>5, <2>1, SentCalls
  <2>9. PICK n : n = Len(b) OBVIOUS
  <2>10. /\ Continues(v, n) /\ n \in Nat
         /\ n > 0 => units'[1] = b[1] /\ units'[1].kind # "ToField"
    BY <1>1, <2>4, <2>6, <2>7, <2>8, <2>9, Called
  <2>11. Sane(v) /\ ~Outside(v) /\ Moving("Rule", 26, 27)
    BY <1>1, <1>2, <2>5, <2>6 DEF Sane, Outside, Moving
  <2>12. Framed /\ core'.summon_depth = core.summon_depth /\ Tallies(0)
    BY <1>1, CoreSame, CardsSame, SeenSame, TalliesSame DEF Quiet, Framed
  <2>13. Shows(v, n)
    <3>1. \A c \in S : n > 0 /\ Moved(units'[1], c) BY <2>8, <2>9, <2>10 DEF Moved
    <3>2. \A c \in Cards : /\ c \in G => Window(v, c) /\ Moved(v, c)
                           /\ c \in Front.group => c \in G \/ c \in N
                           /\ c \in N => ~cards[c].summoning
      BY <1>3, <2>2, <2>6 DEF Window, Moved
    <3>3. \A c \in Cards : Bare(c)' = Bare(c) /\ cards'[c] = cards[c]
      BY <1>1, CardsSame DEF Quiet
    <3> QED BY <1>6, <3>1, <3>2, <3>3 DEF Shows
  <2>14. n > 0 => ~Lays(units'[1]) BY <2>10 DEF Lays
  <2> QED BY <1>1, <2>6, <2>10, <2>11, <2>12, <2>13, <2>14, MovesOn
<1> QED BY <1>8, <1>9

-----------------------------------------------------------------------------
(* The moves of cards. *)

(* What may change when cards move and nothing is counted. *)
CoreStill ==
  /\ core' \in CoreType /\ core'.summon_depth = core.summon_depth
  /\ core'.summon_count = core.summon_count /\ core'.extra_summon = core.extra_summon
  /\ core'.state_count = core.state_count /\ core'.chain = core.chain
  /\ core'.reserved = core.reserved /\ core'.special_summoning = core.special_summoning
  /\ core'.ss_tograve = core.ss_tograve
  /\ core'.pre_set = core.pre_set /\ core'.set = core.set
  /\ core'.used_zones = core.used_zones /\ core'.seq = core.seq

LEMMA GravesFrame ==
  ASSUME IInv, NEW S \in SUBSET Cards, ToGrave(S)
  PROVE  /\ CoreStill /\ CardsOK(cards')
         /\ \A c \in Cards \ S : cards'[c] = cards[c]
         /\ \A c \in S : /\ cards'[c].loc = "GRAVE" /\ cards'[c].seq = cards[c].seq
                         /\ cards'[c].enabled /\ cards'[c].summoning = cards[c].summoning
                         /\ cards'[c].spsummon_step = cards[c].spsummon_step
         /\ \A q \in Seqs : core'.szone[q] =
              IF \E c \in S : cards[c].loc = "SZONE" /\ cards[c].seq = q THEN None
              ELSE core.szone[q]
<1>1. CardsOK(cards) /\ core \in CoreType BY OldTypes
<1>2. PICK Z : Z = [q \in Seqs |->
          IF \E c \in S : cards[c].loc = "SZONE" /\ cards[c].seq = q THEN None ELSE core.szone[q]]
  OBVIOUS
<1>3. Z \in [Seqs -> Members] /\ core' = [core EXCEPT !.szone = Z]
  BY <1>1, <1>2 DEF CoreType, Members, ToGrave
<1>4. CoreStill /\ core'.szone = Z BY <1>1, <1>3 DEF CoreStill, CoreType
<1>5. \A c \in Cards :
        cards'[c] = IF c \in S
                    THEN [cards[c] EXCEPT !.loc = "GRAVE", !.facedown = FALSE, !.enabled = TRUE,
                                          !.gemini = FALSE]
                    ELSE cards[c]
  BY DEF ToGrave, Changed
<1>6. ASSUME NEW c \in S
      PROVE  /\ cards'[c] \in CardType /\ cards'[c].loc = "GRAVE"
             /\ cards'[c].seq = cards[c].seq
             /\ cards'[c].enabled /\ cards'[c].summoning = cards[c].summoning
             /\ cards'[c].spsummon_step = cards[c].spsummon_step
  <2>1. cards[c] \in CardType BY <1>1 DEF CardsOK
  <2>2. PICK x : x = [cards[c] EXCEPT !.loc = "GRAVE", !.facedown = FALSE] OBVIOUS
  <2>3. /\ x \in CardType /\ x.loc = "GRAVE" /\ x.seq = cards[c].seq
        /\ x.summoning = cards[c].summoning /\ x.spsummon_step = cards[c].spsummon_step
    BY <2>1, <2>2 DEF CardType, Locations
  <2>4. cards'[c] = [x EXCEPT !.enabled = TRUE, !.gemini = FALSE] BY <1>5, <2>2
  <2> QED BY <2>3, <2>4 DEF CardType
<1>7. \A c \in Cards \ S : cards'[c] = cards[c] BY <1>5
<1>8. cards' \in [Cards -> CardType]
  <2>1. \A c \in Cards : cards'[c] \in CardType BY <1>1, <1>6, <1>7 DEF CardsOK
  <2> QED BY <2>1 DEF ToGrave, Changed
<1>9. CardsOK(cards') BY <1>1, <1>6, <1>7, <1>8 DEF CardsOK
<1> QED BY <1>2, <1>4, <1>6, <1>7, <1>9

LEMMA SendCardsKept ==
  ASSUME IInv, SendCards
  PROVE  IInv'
<1>1. /\ units # <<>> /\ Front.kind = "ToGrave" /\ Front.step = 0
      /\ seen' = seen /\ setting' = setting /\ Finish(Interrupt)
  BY DEF SendCards, At
<1>2. Front.group \subseteq Monsters /\ Front.group \subseteq Cards
  BY <1>1, FrontTypes DEF Sane, Monsters
<1>3. PICK S : S = {c \in Front.group : cards[c].loc # "GRAVE"} OBVIOUS
<1>4. S \in SUBSET Cards /\ ToGrave(S) /\ \A c \in S : cards[c].loc # "SZONE"
  BY <1>2, <1>3, OldTypes DEF SendCards, CardsOK, Monsters
<1>5. /\ CoreStill /\ CardsOK(cards')
      /\ \A c \in Cards \ S : cards'[c] = cards[c]
      /\ \A c \in S : /\ cards'[c].loc = "GRAVE" /\ cards'[c].seq = cards[c].seq
                      /\ cards'[c].enabled /\ cards'[c].summoning = cards[c].summoning
                      /\ cards'[c].spsummon_step = cards[c].spsummon_step
      /\ \A q \in Seqs : core'.szone[q] = core.szone[q]
  BY <1>4, GravesFrame
<1>6. core'.szone = core.szone
  <2>1. core'.szone \in [Seqs -> Members] /\ core.szone \in [Seqs -> Members]
    BY <1>5, OldTypes DEF CoreStill, CoreType
  <2> QED BY <1>5, <2>1
<1>7. SeenFrame /\ seen'.tries = seen.tries /\ seen'.successes = seen.successes
  BY <1>1, SeenSame
<1>8. DataOK BY <1>5, <1>7 DEF DataOK, CoreStill, SeenFrame
<1>9. Apart /\ Levelled /\ Tallies(0)
  BY <1>1, <1>5, <1>7, TalliesSame DEF Apart, Levelled, CoreStill, SeenFrame
<1>10. Calm BY <1>4, <1>5, <1>6, <1>7 DEF Calm, CoreStill, SeenFrame
<1>11. PICK n : n = Len(Interrupt) OBVIOUS
<1>12. Ends(n) /\ n \in Nat /\ (n > 0 => units'[1].kind # "ToField") /\ Idled(n)
  BY <1>1, <1>11, Idling, CalledLast
<1>13. Keeps(Front) /\ ~Lays(Front) /\ Leaves(Front, n)
  BY <1>1, <1>12 DEF Keeps, Free, Other, Sends, Opens, Lays, Leaves, Idled
<1>14. /\ core'.summon_depth = core.summon_depth - One(Active(Front))
       /\ 0 - One(Counting(Front)) = 0
  <2>1. One(Active(Front)) = 0 /\ One(Counting(Front)) = 0
    BY <1>1 DEF Active, Counting, One
  <2> QED BY <1>5, <2>1, OldTypes DEF CoreStill
<1>15. \A c \in Cards : /\ ~Window(Front, c) /\ ~Grouped(Front, c)
                        /\ Moved(Front, c) => c \in Front.group
  BY <1>1 DEF Window, Grouped, Moved
<1>16. \A c \in Cards : /\ cards'[c].summoning => cards[c].summoning /\ ~Window(Front, c)
                        /\ cards'[c].spsummon_step => cards[c].spsummon_step /\ ~Grouped(Front, c)
                        /\ Bare(c)' => Bare(c) /\ ~Moved(Front, c)
  BY <1>3, <1>5, <1>15 DEF Bare
<1>17. core'.summon_count = core.summon_count BY <1>5 DEF CoreStill
<1> QED BY <1>8, <1>9, <1>10, <1>12, <1>13, <1>14, <1>16, <1>17, IsOver

LEMMA FieldFrame ==
  ASSUME IInv, NEW t \in Monsters, NEW down \in BOOLEAN,
         cards' = [cards EXCEPT ![t].loc = "MZONE", ![t].facedown = down]
  PROVE  /\ CardsOK(cards')
         /\ \A c \in Cards : /\ cards'[c].summoning = cards[c].summoning
                             /\ cards'[c].spsummon_step = cards[c].spsummon_step
                             /\ cards'[c].loc = "SZONE" <=> cards[c].loc = "SZONE"
                             /\ cards'[c].seq = cards[c].seq
                             /\ c # t => cards'[c] = cards[c]
         /\ cards'[t].facedown = down
<1>1. CardsOK(cards) /\ t \in Cards /\ t \notin Spells BY OldTypes DEF Monsters
<1>2. PICK x : x = [cards[t] EXCEPT !.loc = "MZONE"] OBVIOUS
<1>3. /\ x \in CardType /\ x.loc = "MZONE" /\ x.seq = cards[t].seq
      /\ x.summoning = cards[t].summoning /\ x.spsummon_step = cards[t].spsummon_step
  BY <1>1, <1>2 DEF CardsOK, CardType, Locations
<1>4. PICK w : w = [x EXCEPT !.facedown = down] OBVIOUS
<1>5. /\ w \in CardType /\ w.loc = "MZONE" /\ w.seq = cards[t].seq
      /\ w.summoning = cards[t].summoning /\ w.spsummon_step = cards[t].spsummon_step
      /\ w.facedown = down
  BY <1>3, <1>4 DEF CardType
<1>6. cards' = [cards EXCEPT ![t] = w]
  <2>1. PICK y : y = [cards EXCEPT ![t].loc = "MZONE"] OBVIOUS
  <2>2. y = [cards EXCEPT ![t] = x] BY <1>2, <2>1
  <2>3. cards' = [y EXCEPT ![t].facedown = down] BY <2>1
  <2>4. y[t] = x /\ y \in [Cards -> CardType] BY <1>1, <1>3, <2>2 DEF CardsOK
  <2>5. cards' = [y EXCEPT ![t] = w] BY <1>4, <2>3, <2>4
  <2> QED BY <1>1, <2>2, <2>5 DEF CardsOK
<1>7. cards' \in [Cards -> CardType] /\ \A c \in Cards : cards'[c] = IF c = t THEN w ELSE cards[c]
  BY <1>1, <1>5, <1>6 DEF CardsOK
<1>8. CardsOK(cards') BY <1>1, <1>5, <1>7 DEF CardsOK
<1>9. cards[t].loc # "SZONE" BY <1>1 DEF CardsOK
<1> QED BY <1>1, <1>5, <1>7, <1>8, <1>9

LEMMA MoveMonsterKept ==
  ASSUME IInv, MoveMonster
  PROVE  IInv'
<1>1. /\ units # <<>> /\ Front.kind = "ToField" /\ Front.step = 0 /\ Front.target \notin Spells
      /\ core' = core /\ setting' = setting
  BY DEF MoveMonster, At
<1>2. Front.target \in Monsters /\ Front.target \in Cards /\ Front.facedown \in BOOLEAN
  BY <1>1, FrontTypes DEF Sane, Monsters, UnitType
<1>3. PICK t : t = Front.target OBVIOUS
<1>4. PICK fits \in BOOLEAN : fits <=> (cards[t].loc = "MZONE" \/ Room) OBVIOUS
<1>5. /\ cards' = IF fits THEN [cards EXCEPT ![t].loc = "MZONE", ![t].facedown = Front.facedown]
                  ELSE cards
      /\ seen' = IF fits THEN [seen EXCEPT !.negated = @ \ {t}] ELSE seen
      /\ Finish(IF fits THEN Interrupt ELSE <<>>)
  BY <1>3, <1>4 DEF MoveMonster, Target
<1>6. /\ CardsOK(cards')
      /\ \A c \in Cards : /\ cards'[c].summoning = cards[c].summoning
                          /\ cards'[c].spsummon_step = cards[c].spsummon_step
                          /\ cards'[c].loc = "SZONE" <=> cards[c].loc = "SZONE"
                          /\ cards'[c].seq = cards[c].seq
                          /\ c # t => cards'[c] = cards[c]
      /\ fits => cards'[t].facedown = Front.facedown
  <2>1. CASE fits
    <3>1. PICK down \in BOOLEAN : down = Front.facedown BY <1>2
    <3>2. cards' = [cards EXCEPT ![t].loc = "MZONE", ![t].facedown = down]
      BY <1>5, <2>1, <3>1
    <3>3. t \in Monsters BY <1>2, <1>3
    <3> QED BY <3>1, <3>2, <3>3, FieldFrame
  <2>2. CASE ~fits BY <1>5, <2>2, OldTypes
  <2> QED BY <2>1, <2>2
<1>7. /\ seen' \in SeenType /\ seen'.promised = seen.promised /\ seen'.left = seen.left
      /\ seen'.tries = seen.tries /\ seen'.successes = seen.successes
  <2>1. seen \in SeenType /\ t \in Cards BY <1>2, <1>3, OldTypes
  <2>4. CASE fits BY <1>5, <2>1, <2>4 DEF SeenType
  <2>5. CASE ~fits BY <1>5, <2>1, <2>5 DEF SeenType
  <2> QED BY <2>4, <2>5
<1>8. DataOK /\ Apart /\ Levelled /\ Tallies(0)
  BY <1>1, <1>6, <1>7, OldTypes, TalliesSame DEF DataOK, Apart, Levelled
<1>9. Calm BY <1>1, <1>6, <1>7 DEF Calm
<1>10. PICK b : b = IF fits THEN Interrupt ELSE <<>> OBVIOUS
<1>11. Calls(b) /\ Finish(b) BY <1>5, <1>10, Idling, NoCalls
<1>12. PICK n : n = Len(b) OBVIOUS
<1>13. Ends(n) /\ n \in Nat /\ (n > 0 => units'[1].kind # "ToField")
  BY <1>1, <1>11, <1>12, CalledLast
<1>14. Keeps(Front) /\ ~Lays(Front) /\ Leaves(Front, n)
  BY <1>1 DEF Keeps, Free, Other, Sends, Opens, Lays, Leaves
<1>15. /\ core'.summon_depth = core.summon_depth - One(Active(Front))
       /\ 0 - One(Counting(Front)) = 0
  <2>1. One(Active(Front)) = 0 /\ One(Counting(Front)) = 0
    BY <1>1 DEF Active, Counting, One
  <2> QED BY <1>1, <2>1, OldTypes
<1>16. \A c \in Cards : /\ ~Window(Front, c) /\ ~Grouped(Front, c)
                        /\ Moved(Front, c) <=> c = t
  BY <1>1, <1>3 DEF Window, Grouped, Moved
<1>17. ASSUME Bare(t)'
       PROVE  \E k \in 1 + 1 .. Len(units) : Pending(units, k, t)
  <2>1. fits BY <1>4, <1>5, <1>17 DEF Bare
  <2>2. ~Front.facedown BY <1>6, <1>17, <2>1 DEF Bare
  <2>3. Len(units) > 1 /\ Mover(Front, units[2]) BY <1>1, <2>2 DEF IInv, Half, Faceup
  <2>4. Len(units) \in Nat /\ 2 \in 1 .. Len(units) /\ 2 \in 1 + 1 .. Len(units)
    BY <2>3, OldTypes
  <2>5. Sane(units[2]) BY <2>4 DEF IInv, Types
  <2>6. Moved(units[2], t) BY <1>3, <2>3, <2>5 DEF Mover, Moved, Sane
  <2> QED BY <2>4, <2>6 DEF Pending
<1>18. ASSUME NEW c \in Cards
       PROVE  /\ cards'[c].summoning => cards[c].summoning /\ ~Window(Front, c)
              /\ cards'[c].spsummon_step => cards[c].spsummon_step /\ ~Grouped(Front, c)
              /\ Bare(c)' => \/ Bare(c) /\ ~Moved(Front, c)
                             \/ \E k \in 1 + 1 .. Len(units) : Pending(units, k, c)
  <2>1. /\ cards'[c].summoning => cards[c].summoning /\ ~Window(Front, c)
        /\ cards'[c].spsummon_step => cards[c].spsummon_step /\ ~Grouped(Front, c)
    BY <1>6, <1>16
  <2>2. CASE c = t BY <1>17, <2>1, <2>2
  <2>3. CASE c # t BY <1>6, <1>16, <2>1, <2>3 DEF Bare
  <2> QED BY <2>2, <2>3
<1>19. core'.summon_count = core.summon_count BY <1>1
<1> QED BY <1>8, <1>9, <1>13, <1>14, <1>15, <1>18, <1>19, IsOver
=============================================================================
