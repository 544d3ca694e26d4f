-------------------------- MODULE SummonsInvariant ---------------------------
(* Proofs about Summons, for any cards, any duels and any length of play.
   A summon can be interrupted by another one at nearly every step, so the
   invariant says what the units in the stack still have to do: which of
   them are counted, which will settle a card that is only half summoned,
   and which zones a set that is under way may still take. *)
EXTENDS Summons, SequenceTheorems, FiniteSetTheorems, FunctionTheorems, TLAPS

-----------------------------------------------------------------------------
(* The invariant: types. *)

Monsters == Cards \ Spells
Members == Cards \cup {None}
Kinds == {"Summon", "Flip", "MSet", "SSet", "SetGroup", "Rule", "RuleGroup", "Step",
          "SpSummon", "Effect", "Point", "Solve", "ToField", "ToGrave"}
UnitType ==
  [kind : Kinds, step : Nat, target : Members, ignore_count : BOOLEAN,
   proc : BOOLEAN, extra : BOOLEAN, group : SUBSET Members, rest : SUBSET Cards,
   facedown : BOOLEAN, zone : Int]
CardType ==
  [loc : Locations, seq : Seqs, facedown : BOOLEAN, enabled : BOOLEAN,
   summoning : BOOLEAN, spsummon_step : BOOLEAN, gemini : BOOLEAN]
CoreType ==
  [summon_depth : Nat, summon_count : Nat, extra_summon : BOOLEAN, state_count : Nat,
   chain : Nat, reserved : Seq(UnitType), special_summoning : SUBSET Monsters,
   ss_tograve : SUBSET Monsters, szone : [Seqs -> Members], pre_set : Seq(Spells),
   set : Seq(Spells), used_zones : SUBSET Seqs, seq : Seq(Seqs)]
SeenType ==
  [negated : SUBSET Cards, left : SUBSET Cards,
   wrong : SUBSET Cards, tries : Nat, successes : Nat, promised : BOOLEAN]

(* The cards of the units of each kind. *)
Sane(u) ==
  /\ u.rest # {} => u.rest \subseteq u.group /\ u.kind \in {"Rule", "SetGroup"}
  /\ u.kind \in {"Summon", "Flip", "MSet", "Step"} => u.target \in Monsters
  /\ u.kind = "Rule" =>
       /\ u.group \subseteq Monsters
       /\ u.step < 20 => u.target \in Procs
       /\ u.step = 24 => u.target \in u.group
       /\ u.step \notin {23, 24} => u.rest = {}
  /\ u.kind = "SSet" => u.target \in Spells
  /\ u.kind = "SetGroup" => u.group \subseteq Spells /\ (u.step = 1 => u.rest # {})
  /\ u.kind \in {"SpSummon", "ToGrave"} => u.group \subseteq Monsters
  /\ u.kind = "Step" => u.group \in {{}, {u.target}}
  /\ u.kind = "ToField" => u.target \in Cards

CardsOK(y) ==
  /\ y \in [Cards -> CardType]
  /\ \A c \in Cards : IF c \in Spells THEN y[c].loc # "MZONE" /\ ~y[c].summoning
                      ELSE y[c].loc # "SZONE"
Types ==
  /\ units \in Seq(UnitType) /\ \A i \in 1 .. Len(units) : Sane(units[i])
  /\ CardsOK(cards)
  /\ core \in CoreType /\ seen \in SeenType /\ setting \in AllSettings

-----------------------------------------------------------------------------
(* The invariant: what is counted. *)

(* Units that are only ever in front. *)
Prompt(u) ==
  \/ u.kind \in {"ToField", "ToGrave"}
  \/ u.kind = "Summon" /\ u.step \in {1, 11}
  \/ u.kind = "MSet" /\ u.step = 1
Prompts == \A i \in 2 .. Len(units) : ~Prompt(units[i])

(* summon_depth is the number of the SummonRules that have added to it, and
   state_count is what it should be but for the SpSummons that will succeed. *)
Active(u) == u.kind = "Summon" /\ u.step \in 1 .. 8 \cup {10}
Counting(u) == u.kind = "SpSummon" /\ u.step \in {3, 4}
ActiveAt(us) == {i \in 1 .. Len(us) : Active(us[i])}
CountingAt(us) == {i \in 1 .. Len(us) : Counting(us[i])}
Depth == core.summon_depth = Cardinality(ActiveAt(units))
Tallied ==
  core.state_count = IF setting.oath_old THEN seen.tries
                     ELSE seen.successes + Cardinality(CountingAt(units))

(* At most one chain is resolved at a time, and what builds one or asks for
   an answer to a summon is not above it. *)
Live(u) == u.kind = "Solve" /\ u.step # 12
Outside(u) ==
  \/ u.kind \in {"Point", "Solve", "Flip"}
  \/ u.kind = "Summon" /\ u.step = 15
  \/ u.kind = "Rule" /\ u.step \in {11, 26}
Chained ==
  /\ core.chain = 0 <=> \A i \in 1 .. Len(units) : ~Live(units[i])
  /\ core.chain <= setting.links
  /\ \A j, k \in 1 .. Len(units) : j < k /\ Live(units[k]) => ~Outside(units[j])

(* What waits for the end of a chain has one to wait for. *)
Sets == "mset" \in setting.starts \cup setting.acts
Waits(u) ==
  /\ u.kind \in {"Summon", "MSet", "Rule", "RuleGroup"} /\ u.step = 0
  /\ u.kind = "MSet" => Sets
Waiting ==
  /\ core.reserved # <<>> => \E i \in 1 .. Len(units) : units[i].kind = "Solve"
  /\ Len(core.reserved) <= 1
  /\ \A i \in 1 .. Len(core.reserved) : Sane(core.reserved[i]) /\ Waits(core.reserved[i])
  /\ seen.promised => core.reserved # <<>>

(* The outermost of the SummonRules that will count has still one to count;
   those of MonsterSet are not interrupted. *)
Busy(u) ==
  \/ u.kind = "Summon" /\ u.step \in 1 .. 8 \cup {10, 11}
  \/ u.kind = "MSet" /\ u.step \in 1 .. 8
Claims(u) == Busy(u) /\ u.step # 1 /\ ~u.ignore_count /\ ~u.extra
Ready(u) ==
  /\ Busy(u) /\ u.step = 1 => CountOptions(u) # {}
  /\ u.kind = "Summon" /\ u.step = 11 => core.summon_depth = 0
Unlimited == setting.interrupted /\ Sets
Limited ==
  /\ \A i \in 1 .. Len(units) : units[i].kind = "MSet" => Sets
  /\ ~Unlimited => core.summon_count <= Limit
  /\ ~setting.interrupted =>
       \A i \in 1 .. Len(units) :
         Busy(units[i]) => i = 1 \/ (i = 2 /\ units[1].kind = "ToGrave")
  /\ ~Unlimited =>
       \A i \in 1 .. Len(units) :
         Claims(units[i]) /\ (\A j \in 1 .. Len(units) : j > i => ~Active(units[j])) =>
           core.summon_count < Limit
  /\ units # <<>> => Ready(Front)

-----------------------------------------------------------------------------
(* The invariant: what is half done. *)

(* The SpSummonSteps of a SpSummon are right above it, each for one card of
   its group; the others are above the effect that started them. *)
Queued(u) == u.kind = "Step" /\ u.group # {}
Loose(u) == u.kind = "Step" /\ u.group = {}
Opens(u) == u.kind = "Effect" /\ u.step = 1
Sends(u) == Opens(u) \/ (u.kind = "SpSummon" /\ u.step \in 1 .. 2)
OwnerOf(us, i, k) ==
  /\ i < k /\ us[k].kind = "SpSummon" /\ us[k].step = 1
  /\ \A j \in 1 .. Len(us) : i < j /\ j < k => Queued(us[j])
Own(us, i) ==
  \E k \in 1 .. Len(us) :
    /\ OwnerOf(us, i, k) /\ us[i].target \in us[k].group
    /\ \A j \in 1 .. Len(us) : i < j /\ j < k => us[j].target # us[i].target
Owned == \A i \in 1 .. Len(units) : Queued(units[i]) => Own(units, i)
Opened ==
  /\ \A i \in 1 .. Len(units) : Loose(units[i]) =>
       /\ \E k \in 1 .. Len(units) : i < k /\ Opens(units[k])
       /\ units[i].step = 3 => units[i].target \in core.special_summoning
  /\ \A i, k \in 1 .. Len(units) : Opens(units[i]) /\ Opens(units[k]) => i = k
  /\ core.special_summoning # {} => \E i \in 1 .. Len(units) : Opens(units[i])
  /\ core.ss_tograve # {} => \E i \in 1 .. Len(units) : Sends(units[i])

(* Some unit will see to every card that is being summoned, that one step
   of a Special Summon is over for, or that is on the field without its
   effects. *)
Window(u, c) ==
  \/ /\ u.target = c
     /\ \/ u.kind = "Summon" /\ u.step \in {15, 16}
        \/ u.kind = "Flip" /\ u.step \in {2, 3}
        \/ u.kind = "Rule" /\ u.step \in {11, 15}
  \/ u.kind = "Rule" /\ u.step \in {26, 27} /\ c \in u.group
QueuedFor(us, k, c) ==
  \E i \in 1 .. Len(us) : Queued(us[i]) /\ us[i].target = c /\ OwnerOf(us, i, k)
Collects(us, k, c) ==
  us[k].kind = "SpSummon" /\ us[k].step \in 1 .. 2 /\ c \in us[k].group /\ ~QueuedFor(us, k, c)
Grouped(u, c) == u.kind = "Rule" /\ u.step \in 23 .. 25 /\ c \in u.group
Marked(us, k, c) == Grouped(us[k], c) \/ Collects(us, k, c)
Moved(u, c) ==
  \/ /\ u.target = c
     /\ \/ u.kind = "Summon" /\ u.step \in 11 .. 16
        \/ u.kind = "Flip" /\ u.step \in 2 .. 3
        \/ u.kind = "Rule" /\ u.step \in 5 .. 15
        \/ u.kind = "Step" /\ u.step = 3
        \/ u.kind = "ToField"
  \/ /\ c \in u.group
     /\ u.kind = "ToGrave" \/ (u.kind = "Rule" /\ u.step \in 23 .. 27)
Pending(us, k, c) == Moved(us[k], c) \/ Collects(us, k, c)
Bare(c) == cards[c].loc = "MZONE" /\ ~cards[c].facedown /\ ~cards[c].enabled
Mover(u, v) ==
  /\ v.target = u.target
  /\ \/ v.kind = "Summon" /\ v.step = 12
     \/ v.kind = "Rule" /\ v.step \in {5, 24}
     \/ v.kind = "Step" /\ v.step = 3

Asked == \A c \in Cards : cards[c].summoning => \E k \in 1 .. Len(units) : Window(units[k], c)
Stepped ==
  \A c \in Cards : cards[c].spsummon_step =>
    c \in core.special_summoning \/ \E k \in 1 .. Len(units) : Marked(units, k, c)
Faceup ==
  /\ \A c \in Cards : Bare(c) =>
       c \in core.special_summoning \/ \E k \in 1 .. Len(units) : Pending(units, k, c)
  /\ units # <<>> /\ Front.kind = "ToField" /\ Front.target \notin Spells /\ ~Front.facedown =>
       Len(units) > 1 /\ Mover(Front, units[2])

-----------------------------------------------------------------------------
(* The invariant: the zones of the spells. *)

(* The cards of a SpellSetGroup, those that are set first, each with the
   zone that was chosen for it. *)
Nth(x, i) == IF i <= Len(x.set) THEN x.set[i] ELSE x.pre_set[i - Len(x.set)]
Ranks(x) == 1 .. Len(x.seq)
Placed(y, l, c) == c \in FieldSpells \cup l \/ y[c].loc = "SZONE"
Seats(x, y, l) ==
  /\ Len(x.seq) = Len(x.set) + Len(x.pre_set)
  /\ \A i, k \in Ranks(x) : Nth(x, i) = Nth(x, k) => i = k
  /\ \A i \in Ranks(x) : x.seq[i] = 5 <=> Nth(x, i) \in FieldSpells
  /\ \A i, k \in Ranks(x) : x.seq[i] = x.seq[k] /\ x.seq[i] # 5 => i = k
  /\ \A q \in x.used_zones \ {5} : x.szone[q] = None /\ \E i \in Ranks(x) : x.seq[i] = q
  /\ \A i \in Ranks(x) : x.seq[i] # 5 /\ x.szone[x.seq[i]] # None =>
       \E k \in Ranks(x) : Nth(x, k) = x.szone[x.seq[i]] /\ Nth(x, k) \notin FieldSpells
  /\ \A i \in 1 .. Len(x.set) : Placed(y, l, x.set[i])

(* How far it is: there are zones for all that are still to be set. *)
Setter(u) == u.kind = "SetGroup" /\ u.step \in 1 .. 6
Lays(u) == u.kind = "ToField" /\ u.target \in Spells
Unset(x) == {x.pre_set[i] : i \in 1 .. Len(x.pre_set)} \ FieldSpells
Seating(us, x, y, l, i) ==
  /\ us[i].step \in {3, 4} => x.pre_set # <<>>
  /\ us[i].step = 1 =>
       /\ x.set = <<>> /\ \A k \in 1 .. Len(x.pre_set) : x.pre_set[k] \notin us[i].rest
       /\ \A k \in Ranks(x) : x.seq[k] \in x.used_zones
  /\ us[i].step = 6 => x.pre_set = <<>>
  /\ Cardinality(x.used_zones \ {5}) =
       Cardinality(IF us[i].step = 4 THEN Unset(x) \ {Head(x.pre_set)} ELSE Unset(x))
  /\ us[i].step = 4 => Placed(y, l, Head(x.pre_set)) \/ (i = 2 /\ Lays(us[1]))

(* What moves a spell to its zone was started by what sets it. *)
Seater(us, x) ==
  us # <<>> /\ Lays(us[1]) =>
    /\ Len(us) > 1
    /\ \/ us[2].kind = "SSet" /\ us[1].zone = -1
       \/ /\ us[2].kind = "SetGroup" /\ us[2].step = 4 /\ us[1].target = Head(x.pre_set)
          /\ us[1].target \notin FieldSpells =>
               /\ us[1].zone \in Seqs \ {5} /\ us[1].zone \notin x.used_zones
               /\ x.szone[us[1].zone] = None
               /\ \E i \in Ranks(x) : x.seq[i] = us[1].zone
Lone(us) ==
  /\ \A i, k \in 1 .. Len(us) : us[i].kind = "SetGroup" /\ us[k].kind = "SetGroup" => i = k
  /\ \A i \in 1 .. Len(us) : us[i].kind = "SSet" => i = Len(us)
Laid(x, y, l) ==
  /\ \A c \in Cards : y[c].loc = "SZONE" => x.szone[y[c].seq] = c
  /\ \A c \in Cards \ l, q \in Seqs : x.szone[q] = c => y[c].loc = "SZONE"
  /\ \A q \in Seqs : x.szone[q] # None => (q = 5 <=> x.szone[q] \in FieldSpells)
Grouping(us, x, y, l) ==
  \A i \in 1 .. Len(us) : Setter(us[i]) => Seats(x, y, l) /\ Seating(us, x, y, l, i)
Zones ==
  /\ Lone(units) /\ Laid(core, cards, seen.left) /\ Seater(units, core)
  /\ Grouping(units, core, cards, seen.left)

-----------------------------------------------------------------------------
(* What a step does to the stack: the p units in front make way for n. *)

Restacked(p, n) ==
  /\ p \in 0 .. 1 /\ n \in Nat /\ p <= Len(units) /\ Len(units) \in Nat
  /\ Len(units') = Len(units) - p + n
  /\ \A i \in p + 1 .. Len(units) :
       i - p + n \in 1 .. Len(units') /\ units'[i - p + n] = units[i]
  /\ \A k \in 1 .. Len(units') :
       k <= n \/ (k - n + p \in p + 1 .. Len(units) /\ units'[k] = units[k - n + p])

Now(u, s) == [u EXCEPT !.step = s]

LEMMA Concats ==
  ASSUME NEW S, NEW b \in Seq(S), NEW t \in Seq(S)
  PROVE  /\ b \o t \in Seq(S) /\ Len(b \o t) = Len(b) + Len(t)
         /\ Len(b) \in Nat /\ Len(t) \in Nat
         /\ \A i \in 1 .. Len(b) : (b \o t)[i] = b[i]
         /\ \A i \in 1 .. Len(t) : (b \o t)[i + Len(b)] = t[i]
         /\ \A k \in 1 .. Len(b \o t) :
              k <= Len(b) \/ (k - Len(b) \in 1 .. Len(t) /\ (b \o t)[k] = t[k - Len(b)])
<1>1. /\ b \o t \in Seq(S) /\ Len(b \o t) = Len(b) + Len(t)
      /\ Len(b) \in Nat /\ Len(t) \in Nat
      /\ \A i \in 1 .. Len(b) + Len(t) :
           (b \o t)[i] = IF i <= Len(b) THEN b[i] ELSE t[i - Len(b)]
  BY ConcatProperties, LenProperties
<1>2. PICK m, n : m = Len(b) /\ n = Len(t) OBVIOUS
<1>3. PICK w : w = b \o t OBVIOUS
<1>4. \A i \in 1 .. n : i + m \in 1 .. m + n /\ (i + m) - m = i /\ ~(i + m <= m)
  BY <1>1, <1>2
<1>5. \A i \in 1 .. m + n : w[i] = IF i <= m THEN b[i] ELSE t[i - m] BY <1>1, <1>2, <1>3
<1>6. \A i \in 1 .. n : w[i + m] = t[i]
  <2> TAKE i \in 1 .. n
  <2>1. w[i + m] = t[(i + m) - m] BY <1>4, <1>5
  <2> QED BY <2>1, <1>4
<1>7. /\ \A i \in 1 .. m : w[i] = b[i]
      /\ \A k \in 1 .. m + n : k <= m \/ (k - m \in 1 .. n /\ w[k] = t[k - m])
  <2>1. /\ \A i \in 1 .. m : i \in 1 .. m + n /\ i <= m
        /\ \A k \in 1 .. m + n : k <= m \/ k - m \in 1 .. n
    BY <1>1, <1>2
  <2> QED BY <1>5, <2>1
<1> QED BY <1>1, <1>2, <1>3, <1>6, <1>7

LEMMA Fronts ==
  ASSUME units \in Seq(UnitType), units # <<>>
  PROVE  /\ Front \in UnitType /\ Front = units[1] /\ Len(units) \in Nat \ {0}
         /\ Tail(units) \in Seq(UnitType) /\ Len(Tail(units)) = Len(units) - 1
         /\ \A i \in 1 .. Len(Tail(units)) : Tail(units)[i] = units[i + 1]
BY HeadTailProperties, EmptySeq, LenProperties DEF Front

LEMMA Finished ==
  ASSUME units \in Seq(UnitType), units # <<>>, NEW b \in Seq(UnitType), Finish(b)
  PROVE  /\ units' \in Seq(UnitType) /\ Restacked(1, Len(b))
         /\ \A i \in 1 .. Len(b) : units'[i] = b[i]
<1>1. PICK t : t = Tail(units) OBVIOUS
<1>2. /\ t \in Seq(UnitType) /\ Len(t) = Len(units) - 1 /\ Len(units) \in Nat \ {0}
      /\ \A i \in 1 .. Len(t) : t[i] = units[i + 1]
  BY <1>1, Fronts
<1>3. units' = b \o t BY <1>1 DEF Finish
<1>4. /\ units' \in Seq(UnitType) /\ Len(units') = Len(b) + Len(t)
      /\ Len(b) \in Nat /\ Len(t) \in Nat
      /\ \A i \in 1 .. Len(b) : units'[i] = b[i]
      /\ \A i \in 1 .. Len(t) : units'[i + Len(b)] = t[i]
      /\ \A k \in 1 .. Len(units') :
           k <= Len(b) \/ (k - Len(b) \in 1 .. Len(t) /\ units'[k] = t[k - Len(b)])
  BY <1>2, <1>3, Concats
<1>5. PICK n \in Nat : n = Len(b) BY <1>4
<1>6. \A i \in 1 + 1 .. Len(units) :
        i - 1 + n \in 1 .. Len(units') /\ units'[i - 1 + n] = units[i]
  <2> TAKE i \in 1 + 1 .. Len(units)
  <2>1. i - 1 \in 1 .. Len(t) /\ (i - 1) + 1 = i BY <1>2
  <2>2. t[i - 1] = units[i] /\ units'[(i - 1) + n] = t[i - 1] BY <2>1, <1>2, <1>4, <1>5
  <2> QED BY <2>1, <2>2, <1>2, <1>4, <1>5
<1>7. \A k \in 1 .. Len(units') :
        k <= n \/ (k - n + 1 \in 1 + 1 .. Len(units) /\ units'[k] = units[k - n + 1])
  <2> SUFFICES ASSUME NEW k \in 1 .. Len(units'), ~(k <= n)
               PROVE  k - n + 1 \in 1 + 1 .. Len(units) /\ units'[k] = units[k - n + 1]
    OBVIOUS
  <2>1. k - n \in 1 .. Len(t) /\ units'[k] = t[k - n] BY <1>4, <1>5
  <2> QED BY <2>1, <1>2, <1>5
<1> QED BY <1>2, <1>4, <1>5, <1>6, <1>7 DEF Restacked

LEMMA GoneOn ==
  ASSUME units \in Seq(UnitType), units # <<>>, NEW b \in Seq(UnitType),
         NEW u \in UnitType, NEW s \in Nat, GoOnAs(u, s, b)
  PROVE  /\ units' \in Seq(UnitType) /\ Restacked(1, Len(b) + 1) /\ Len(b) \in Nat
         /\ units'[Len(b) + 1] = Now(u, s) /\ Now(u, s) \in UnitType
         /\ \A i \in 1 .. Len(b) : units'[i] = b[i]
<1>1. PICK v : v = Now(u, s) OBVIOUS
<1>2. v \in UnitType BY <1>1 DEF UnitType, Now
<1>3. PICK t : t = Tail(units) OBVIOUS
<1>4. t \in Seq(UnitType) BY <1>3, Fronts
<1>5. PICK w : w = <<v>> OBVIOUS
<1>6. w \in Seq(UnitType) /\ Len(w) = 1 /\ w[1] = v BY <1>2, <1>5
<1>7. PICK c : c = b \o w OBVIOUS
<1>8. c \in Seq(UnitType) /\ Len(c) = Len(b) + 1 /\ Len(b) \in Nat
      /\ (\A i \in 1 .. Len(b) : c[i] = b[i])
      /\ \A i \in 1 .. 1 : c[i + Len(b)] = w[i]
  <2>1. /\ c \in Seq(UnitType) /\ Len(c) = Len(b) + Len(w) /\ Len(b) \in Nat
        /\ \A i \in 1 .. Len(b) : c[i] = b[i]
        /\ \A i \in 1 .. Len(w) : c[i + Len(b)] = w[i]
    <3>1. w \in Seq(UnitType) BY <1>6
    <3> QED BY <3>1, <1>7, Concats
  <2> QED BY <2>1, <1>6
<1>9. c[Len(b) + 1] = v BY <1>6, <1>8
<1>10. units' = b \o w \o t BY <1>1, <1>3, <1>5 DEF GoOnAs, Now
<1>11. b \o w \o t = c \o t BY <1>7
<1>12. Finish(c) BY <1>3, <1>10, <1>11 DEF Finish
<1>13. /\ units' \in Seq(UnitType) /\ Restacked(1, Len(c))
       /\ \A i \in 1 .. Len(c) : units'[i] = c[i]
  BY <1>8, <1>12, Finished
<1> QED BY <1>1, <1>2, <1>8, <1>9, <1>13

LEMMA Started ==
  ASSUME units \in Seq(UnitType), NEW u \in UnitType, units' = <<u>> \o units
  PROVE  units' \in Seq(UnitType) /\ Restacked(0, 1) /\ units'[1] = u
<1>1. PICK w : w = <<u>> OBVIOUS
<1>2. w \in Seq(UnitType) /\ Len(w) = 1 /\ w[1] = u BY <1>1
<1>3. /\ units' \in Seq(UnitType) /\ Len(units') = 1 + Len(units) /\ Len(units) \in Nat
      /\ \A i \in 1 .. 1 : units'[i] = w[i]
      /\ \A i \in 1 .. Len(units) : units'[i + 1] = units[i]
      /\ \A k \in 1 .. Len(units') :
           k <= 1 \/ (k - 1 \in 1 .. Len(units) /\ units'[k] = units[k - 1])
  BY <1>1, <1>2, Concats
<1>4. \A i \in 0 + 1 .. Len(units) :
        i - 0 + 1 \in 1 .. Len(units') /\ units'[i - 0 + 1] = units[i]
  BY <1>3
<1>5. \A k \in 1 .. Len(units') :
        k <= 1 \/ (k - 1 + 0 \in 0 + 1 .. Len(units) /\ units'[k] = units[k - 1 + 0])
  BY <1>3
<1> QED BY <1>2, <1>3, <1>4, <1>5 DEF Restacked

-----------------------------------------------------------------------------
(* Counting again after a step. *)

Carried(m, p, n, A, B) ==
  /\ m \in Nat /\ p \in 0 .. 1 /\ n \in Nat /\ p <= m
  /\ A \subseteq 1 .. m /\ B \subseteq 1 .. m - p + n
  /\ \A i \in p + 1 .. m : i \in A <=> i - p + n \in B

LEMMA Shifted ==
  ASSUME NEW m, NEW p, NEW n, NEW A, NEW B, Carried(m, p, n, A, B)
  PROVE  /\ IsFiniteSet(A) /\ IsFiniteSet(B)
         /\ Cardinality(A \ (1 .. p)) = Cardinality(B \ (1 .. n))
<1> /\ m \in Nat /\ p \in 0 .. 1 /\ n \in Nat /\ p <= m
    /\ A \in SUBSET (1 .. m) /\ B \in SUBSET (1 .. m - p + n)
    /\ \A i \in p + 1 .. m : i \in A <=> i - p + n \in B
  BY DEF Carried
<1>1. IsFiniteSet(A) /\ IsFiniteSet(B)
  <2>1. IsFiniteSet(1 .. m) /\ IsFiniteSet(1 .. m - p + n) BY FS_Interval
  <2> QED BY <2>1, FS_Subset
<1>2. PICK X : X = A \ (1 .. p) OBVIOUS
<1>3. PICK Y : Y = B \ (1 .. n) OBVIOUS
<1>4. IsFiniteSet(X) BY <1>1, <1>2, FS_Subset
<1>5. PICK f : f = [i \in X |-> i - p + n] OBVIOUS
<1>6. \A i \in X : i \in p + 1 .. m BY <1>2
<1>7. f \in [X -> Y] BY <1>2, <1>3, <1>5, <1>6
<1>8. \A i, j \in X : f[i] = f[j] => i = j BY <1>5, <1>6
<1>9. \A k \in Y : \E i \in X : f[i] = k
  <2> TAKE k \in Y
  <2>1. k \in n + 1 .. m - p + n BY <1>3
  <2>2. PICK i \in p + 1 .. m : i = k - n + p BY <2>1
  <2>3. i - p + n = k BY <2>1, <2>2
  <2>4. i \in A /\ i \in X BY <2>2, <2>3, <1>2, <1>3
  <2>5. f[i] = k BY <2>3, <2>4, <1>5
  <2> QED BY <2>4, <2>5
<1>10. f \in Bijection(X, Y)
  <2>1. f \in Injection(X, Y) BY <1>7, <1>8 DEF Injection, IsInjective
  <2>2. f \in Surjection(X, Y) BY <1>7, <1>9 DEF Surjection
  <2> QED BY <2>1, <2>2 DEF Bijection
<1>11. ExistsBijection(X, Y) BY <1>10 DEF ExistsBijection
<1>12. Cardinality(X) = Cardinality(Y) BY <1>4, <1>11, FS_Bijection
<1> QED BY <1>1, <1>2, <1>3, <1>12

LEMMA Recounted ==
  ASSUME NEW m, NEW p, NEW n, NEW A, NEW B, Carried(m, p, n, A, B),
         \A i \in 1 .. n : i \in B => i = n
  PROVE  /\ Cardinality(A) \in Nat /\ Cardinality(B) \in Nat
         /\ Cardinality(B) = Cardinality(A) - (IF p = 1 /\ 1 \in A THEN 1 ELSE 0)
                                            + (IF n \in B /\ n > 0 THEN 1 ELSE 0)
<1>1. /\ IsFiniteSet(A) /\ IsFiniteSet(B)
      /\ Cardinality(A \ (1 .. p)) = Cardinality(B \ (1 .. n))
  BY Shifted
<1> p \in 0 .. 1 /\ n \in Nat /\ B \subseteq 1 .. m - p + n BY DEF Carried
<1>2. Cardinality(A) \in Nat /\ Cardinality(B) \in Nat BY <1>1, FS_CardinalityType
<1>3. Cardinality(A \ (1 .. p)) = Cardinality(A) - (IF p = 1 /\ 1 \in A THEN 1 ELSE 0)
  <2>1. CASE p = 0
    <3>1. A \ (1 .. p) = A BY <2>1
    <3> QED BY <2>1, <3>1, <1>2
  <2>2. CASE p = 1
    <3>1. A \ (1 .. p) = A \ {1} BY <2>2
    <3>2. Cardinality(A \ {1}) = IF 1 \in A THEN Cardinality(A) - 1 ELSE Cardinality(A)
      BY <1>1, FS_RemoveElement
    <3> QED BY <2>2, <3>1, <3>2, <1>2
  <2> QED BY <2>1, <2>2
<1>4. Cardinality(B \ (1 .. n)) = Cardinality(B) - (IF n \in B /\ n > 0 THEN 1 ELSE 0)
  <2>1. B \ (1 .. n) = B \ {n} BY DEF Nat
  <2>2. Cardinality(B \ {n}) = IF n \in B THEN Cardinality(B) - 1 ELSE Cardinality(B)
    BY <1>1, FS_RemoveElement
  <2>3. n \in B => n > 0 OBVIOUS
  <2> QED BY <2>1, <2>2, <2>3, <1>2
<1>5. PICK a \in Nat, b \in Nat : a = Cardinality(A) /\ b = Cardinality(B) BY <1>2
<1> QED BY <1>1, <1>3, <1>4, <1>5

LEMMA FiniteCounts ==
  ASSUME Types
  PROVE  /\ Len(units) \in Nat /\ IsFiniteSet(ActiveAt(units)) /\ IsFiniteSet(CountingAt(units))
         /\ Cardinality(ActiveAt(units)) \in Nat /\ Cardinality(CountingAt(units)) \in Nat
<1>1. Len(units) \in Nat BY DEF Types
<1>2. ActiveAt(units) \in SUBSET (1 .. Len(units)) /\ CountingAt(units) \in SUBSET (1 .. Len(units))
  BY DEF ActiveAt, CountingAt
<1>3. IsFiniteSet(1 .. Len(units)) BY <1>1, FS_Interval
<1>4. IsFiniteSet(ActiveAt(units)) /\ IsFiniteSet(CountingAt(units))
  BY <1>2, <1>3, FS_Subset
<1> QED BY <1>1, <1>4, FS_CardinalityType

(* summon_depth and state_count. *)
LEMMA DepthKept ==
  ASSUME Types, Depth, NEW p, NEW n, Restacked(p, n),
         \A i \in 1 .. n : Active(units'[i]) => i = n,
         core'.summon_depth = core.summon_depth
           - (IF p = 1 /\ Active(units[1]) THEN 1 ELSE 0)
           + (IF n > 0 /\ Active(units'[n]) THEN 1 ELSE 0)
  PROVE  Depth'
<1>1. PICK A : A = ActiveAt(units) OBVIOUS
<1>2. PICK B : B = ActiveAt(units') OBVIOUS
<1>3. PICK m : m = Len(units) OBVIOUS
<1>4. /\ p \in 0 .. 1 /\ n \in Nat /\ p <= m /\ m \in Nat /\ Len(units') = m - p + n
      /\ \A i \in p + 1 .. m : i - p + n \in 1 .. m - p + n /\ units'[i - p + n] = units[i]
  BY <1>3 DEF Restacked
<1>5. A \in SUBSET (1 .. m) /\ B \in SUBSET (1 .. m - p + n)
  BY <1>1, <1>2, <1>3, <1>4 DEF ActiveAt
<1>6. \A i \in p + 1 .. m : i \in A <=> i - p + n \in B
  BY <1>1, <1>2, <1>3, <1>4 DEF ActiveAt
<1>7. \A i \in 1 .. n : i \in B => i = n BY <1>2 DEF ActiveAt
<1>c. Carried(m, p, n, A, B) BY <1>4, <1>5, <1>6 DEF Carried
<1>8. /\ Cardinality(A) \in Nat /\ Cardinality(B) \in Nat
      /\ Cardinality(B) = Cardinality(A) - (IF p = 1 /\ 1 \in A THEN 1 ELSE 0)
                                         + (IF n \in B /\ n > 0 THEN 1 ELSE 0)
  BY <1>c, <1>7, Recounted
<1>9. /\ p = 1 => (1 \in A <=> Active(units[1]))
      /\ n > 0 => (n \in B <=> Active(units'[n]))
  BY <1>1, <1>2, <1>3, <1>4 DEF ActiveAt
<1>10. core'.summon_depth = Cardinality(B) BY <1>1, <1>8, <1>9 DEF Depth
<1> QED BY <1>2, <1>10 DEF Depth

LEMMA TallyKept ==
  ASSUME Types, Tallied, NEW p, NEW n, Restacked(p, n), setting' = setting,
         \A i \in 1 .. n : Counting(units'[i]) => i = n,
         NEW d \in Int,
         d = (IF n > 0 /\ Counting(units'[n]) THEN 1 ELSE 0)
             - (IF p = 1 /\ Counting(units[1]) THEN 1 ELSE 0),
         core'.state_count = core.state_count
           + IF setting.oath_old THEN seen'.tries - seen.tries
                                 ELSE (seen'.successes - seen.successes) + d,
         seen'.tries \in Nat, seen'.successes \in Nat
  PROVE  Tallied'
<1>1. PICK A : A = CountingAt(units) OBVIOUS
<1>2. PICK B : B = CountingAt(units') OBVIOUS
<1>3. PICK m : m = Len(units) OBVIOUS
<1>4. /\ p \in 0 .. 1 /\ n \in Nat /\ p <= m /\ m \in Nat /\ Len(units') = m - p + n
      /\ \A i \in p + 1 .. m : i - p + n \in 1 .. m - p + n /\ units'[i - p + n] = units[i]
  BY <1>3 DEF Restacked
<1>5. A \in SUBSET (1 .. m) /\ B \in SUBSET (1 .. m - p + n)
  BY <1>1, <1>2, <1>3, <1>4 DEF CountingAt
<1>6. \A i \in p + 1 .. m : i \in A <=> i - p + n \in B
  BY <1>1, <1>2, <1>3, <1>4 DEF CountingAt
<1>7. \A i \in 1 .. n : i \in B => i = n BY <1>2 DEF CountingAt
<1>c. Carried(m, p, n, A, B) BY <1>4, <1>5, <1>6 DEF Carried
<1>8. /\ Cardinality(A) \in Nat /\ Cardinality(B) \in Nat
      /\ Cardinality(B) = Cardinality(A) - (IF p = 1 /\ 1 \in A THEN 1 ELSE 0)
                                         + (IF n \in B /\ n > 0 THEN 1 ELSE 0)
  BY <1>c, <1>7, Recounted
<1>9. /\ p = 1 => (1 \in A <=> Counting(units[1]))
      /\ n > 0 => (n \in B <=> Counting(units'[n]))
  BY <1>1, <1>2, <1>3, <1>4 DEF CountingAt
<1>10. Cardinality(B) = Cardinality(A) + d BY <1>8, <1>9
<1>11. seen.tries \in Nat /\ seen.successes \in Nat /\ core.state_count \in Nat
  BY DEF Types, SeenType, CoreType
<1>12. core'.state_count = IF setting.oath_old THEN seen'.tries
                           ELSE seen'.successes + Cardinality(B)
  <2>1. CASE setting.oath_old BY <2>1, <1>11 DEF Tallied
  <2>2. CASE ~setting.oath_old BY <2>2, <1>1, <1>8, <1>10, <1>11 DEF Tallied
  <2> QED BY <2>1, <2>2
<1> QED BY <1>2, <1>12 DEF Tallied

-----------------------------------------------------------------------------
(* The rest of what is counted. *)

LEMMA PromptsKept ==
  ASSUME Prompts, NEW p, NEW n, Restacked(p, n),
         \A i \in 2 .. n : ~Prompt(units'[i]),
         p = 0 /\ units # <<>> => n = 0 \/ ~Prompt(units[1])
  PROVE  Prompts'
<1> SUFFICES ASSUME NEW k \in 2 .. Len(units') PROVE ~Prompt(units'[k]) BY DEF Prompts
<1>1. /\ p \in 0 .. 1 /\ n \in Nat /\ Len(units) \in Nat /\ k \in 1 .. Len(units')
      /\ k <= n \/ (k - n + p \in p + 1 .. Len(units) /\ units'[k] = units[k - n + p])
  BY DEF Restacked
<1>2. CASE k <= n BY <1>2, <1>1
<1>3. CASE ~(k <= n)
  <2>1. PICK i \in p + 1 .. Len(units) : i = k - n + p /\ units'[k] = units[i]
    BY <1>1, <1>3
  <2>2. CASE i = 1
    <3>1. p = 0 /\ n # 0 /\ Len(units) # 0 BY <2>1, <2>2, <1>1
    <3>2. units # <<>> BY <3>1
    <3> QED BY <2>1, <2>2, <3>1, <3>2
  <2>3. CASE i # 1
    <3>1. i \in 2 .. Len(units) BY <2>1, <2>3, <1>1
    <3> QED BY <2>1, <3>1 DEF Prompts
  <2> QED BY <2>2, <2>3
<1> QED BY <1>2, <1>3

(* Nothing that may not be is put above the chain, and the chain is the same. *)
LEMMA ChainedKept ==
  ASSUME Chained, NEW p, NEW n, Restacked(p, n), setting' = setting,
         core'.chain <= setting.links,
         (core'.chain = 0) <=> /\ \A i \in 1 .. n : ~Live(units'[i])
                               /\ \A i \in p + 1 .. Len(units) : ~Live(units[i]),
         \A i, j \in 1 .. n : j < i /\ Live(units'[i]) => ~Outside(units'[j]),
         \A i \in 1 .. n : Outside(units'[i]) =>
           \A k \in p + 1 .. Len(units) : ~Live(units[k])
  PROVE  Chained'
<1>0. /\ p \in 0 .. 1 /\ n \in Nat /\ Len(units) \in Nat /\ Len(units') = Len(units) - p + n
      /\ \A i \in p + 1 .. Len(units) :
           i - p + n \in 1 .. Len(units') /\ units'[i - p + n] = units[i]
      /\ \A k \in 1 .. Len(units') :
           k <= n \/ (k - n + p \in p + 1 .. Len(units) /\ units'[k] = units[k - n + p])
      /\ p <= Len(units)
  BY DEF Restacked
<1>1. core'.chain = 0 <=> \A i \in 1 .. Len(units') : ~Live(units'[i])
  <2>1. ASSUME core'.chain = 0, NEW k \in 1 .. Len(units')
        PROVE  ~Live(units'[k])
    <3>1. CASE k <= n BY <3>1, <2>1
    <3>2. CASE ~(k <= n) BY <3>2, <2>1, <1>0
    <3> QED BY <3>1, <3>2
  <2>2. ASSUME \A i \in 1 .. Len(units') : ~Live(units'[i])
        PROVE  core'.chain = 0
    <3>1. \A i \in 1 .. n : i \in 1 .. Len(units') BY <1>0
    <3>2. \A i \in 1 .. n : ~Live(units'[i]) BY <2>2, <3>1
    <3>3. \A i \in p + 1 .. Len(units) : ~Live(units[i])
      <4> TAKE i \in p + 1 .. Len(units)
      <4>1. i - p + n \in 1 .. Len(units') /\ units'[i - p + n] = units[i] BY <1>0
      <4> QED BY <4>1, <2>2
    <3> QED BY <3>2, <3>3
  <2> QED BY <2>1, <2>2
<1>2. ASSUME NEW j \in 1 .. Len(units'), NEW k \in 1 .. Len(units'), j < k, Live(units'[k])
      PROVE  ~Outside(units'[j])
  <2>1. CASE k <= n BY <2>1, <1>2, <1>0
  <2>2. CASE ~(k <= n)
    <3>1. PICK i \in p + 1 .. Len(units) : i = k - n + p /\ units'[k] = units[i]
      BY <1>0, <2>2
    <3>2. CASE j <= n BY <3>1, <3>2, <1>2, <1>0
    <3>3. CASE ~(j <= n)
      <4>1. PICK l \in p + 1 .. Len(units) : l = j - n + p /\ units'[j] = units[l]
        BY <1>0, <3>3
      <4>2. l < i /\ l \in 1 .. Len(units) /\ i \in 1 .. Len(units)
        BY <1>0, <1>2, <3>1, <4>1
      <4> QED BY <3>1, <4>1, <4>2, <1>2 DEF Chained
    <3> QED BY <3>2, <3>3
  <2> QED BY <2>1, <2>2
<1> QED BY <1>1, <1>2 DEF Chained

LEMMA ChainedSame ==
  ASSUME Chained, NEW p, NEW n, Restacked(p, n), setting' = setting,
         core'.chain = core.chain,
         \A i \in 1 .. n : Live(units'[i]) => i = n,
         (n > 0 /\ Live(units'[n])) <=> (p = 1 /\ Live(units[1])),
         \A i, j \in 1 .. n : j < i /\ Live(units'[i]) => ~Outside(units'[j]),
         \A i \in 1 .. n : Outside(units'[i]) => core.chain = 0 \/ (p = 1 /\ Outside(units[1]))
  PROVE  Chained'
<1>0. /\ p \in 0 .. 1 /\ n \in Nat /\ Len(units) \in Nat /\ p <= Len(units)
  BY DEF Restacked
<1>1. (\A i \in 1 .. Len(units) : ~Live(units[i])) <=>
        /\ p = 1 => ~Live(units[1])
        /\ \A i \in p + 1 .. Len(units) : ~Live(units[i])
  <2>1. p = 1 => 1 \in 1 .. Len(units) BY <1>0
  <2>2. \A i \in 1 .. Len(units) : i \in p + 1 .. Len(units) \/ (p = 1 /\ i = 1) BY <1>0
  <2>3. \A i \in p + 1 .. Len(units) : i \in 1 .. Len(units) BY <1>0
  <2> QED BY <2>1, <2>2, <2>3
<1>2. (\A i \in 1 .. n : ~Live(units'[i])) <=> ~(n > 0 /\ Live(units'[n])) BY <1>0
<1>3. (core'.chain = 0) <=> /\ \A i \in 1 .. n : ~Live(units'[i])
                            /\ \A i \in p + 1 .. Len(units) : ~Live(units[i])
  BY <1>1, <1>2 DEF Chained
<1>4. ASSUME NEW i \in 1 .. n, Outside(units'[i]), NEW k \in p + 1 .. Len(units)
      PROVE  ~Live(units[k])
  <2>1. CASE core.chain = 0 BY <2>1, <1>0 DEF Chained
  <2>2. CASE p = 1 /\ Outside(units[1])
    <3>1. 1 \in 1 .. Len(units) /\ k \in 1 .. Len(units) /\ 1 < k BY <2>2, <1>0
    <3> QED BY <2>2, <3>1 DEF Chained
  <2> QED BY <1>4, <2>1, <2>2
<1>5. core'.chain <= setting.links BY DEF Chained
<1> QED BY <1>3, <1>4, <1>5, ChainedKept

LEMMA WaitingSame ==
  ASSUME Waiting, NEW p, NEW n, Restacked(p, n), setting' = setting,
         core'.reserved = core.reserved, seen'.promised = seen.promised,
         p = 1 /\ units[1].kind = "Solve" => \E i \in 1 .. n : units'[i].kind = "Solve"
  PROVE  Waiting'
<1>0. /\ p \in 0 .. 1 /\ n \in Nat /\ Len(units) \in Nat /\ Len(units') = Len(units) - p + n
      /\ \A i \in p + 1 .. Len(units) :
           i - p + n \in 1 .. Len(units') /\ units'[i - p + n] = units[i]
      /\ p <= Len(units)
  BY DEF Restacked
<1>1. ASSUME core.reserved # <<>>
      PROVE  \E i \in 1 .. Len(units') : units'[i].kind = "Solve"
  <2>1. PICK k \in 1 .. Len(units) : units[k].kind = "Solve" BY <1>1 DEF Waiting
  <2>2. CASE k \in p + 1 .. Len(units) BY <2>1, <2>2, <1>0
  <2>3. CASE ~(k \in p + 1 .. Len(units))
    <3>1. p = 1 /\ k = 1 BY <2>3, <1>0
    <3>2. PICK i \in 1 .. n : units'[i].kind = "Solve" BY <2>1, <3>1
    <3>3. i \in 1 .. Len(units') BY <1>0
    <3> QED BY <3>2, <3>3
  <2> QED BY <2>2, <2>3
<1>2. \A u : Waits(u)' <=> Waits(u) BY DEF Waits, Sets
<1> QED BY <1>1, <1>2 DEF Waiting

-----------------------------------------------------------------------------
(* What the front does: it goes on as v, or is over, and puts units above. *)

Brief(u) ==
  /\ u.kind \in {"Effect", "Point", "ToField", "ToGrave"} /\ u.step = 0 /\ Sane(u)
  /\ u.kind = "Point" => core.chain = 0 \/ (Outside(Front) /\ ~Live(Front))
Batch(b) ==
  /\ b \in Seq(UnitType)
  /\ \A i \in 1 .. Len(b) : Brief(b[i]) /\ (Prompt(b[i]) => i = 1)
New(n) ==
  /\ units' \in Seq(UnitType)
  /\ \A i \in 1 .. n : Brief(units'[i]) /\ (Prompt(units'[i]) => i = 1)
Continues(v, n) ==
  /\ units # <<>> /\ Restacked(1, n + 1) /\ n \in Nat /\ New(n) /\ units'[n + 1] = v
Ends(n) == units # <<>> /\ Restacked(1, n) /\ n \in Nat /\ New(n)
Idled(n) == setting.interrupted \/ n = 0

LEMMA Continued ==
  ASSUME units \in Seq(UnitType), units # <<>>, NEW b, Batch(b),
         NEW u \in UnitType, NEW s \in Nat, GoOnAs(u, s, b)
  PROVE  Continues(Now(u, s), Len(b)) /\ Len(b) \in Nat /\ Now(u, s) \in UnitType
<1>1. b \in Seq(UnitType) BY DEF Batch
<1>2. /\ units' \in Seq(UnitType) /\ Restacked(1, Len(b) + 1) /\ Len(b) \in Nat
      /\ units'[Len(b) + 1] = Now(u, s) /\ Now(u, s) \in UnitType
      /\ \A i \in 1 .. Len(b) : units'[i] = b[i]
  BY <1>1, GoneOn
<1>3. New(Len(b)) BY <1>2 DEF Batch, New
<1> QED BY <1>2, <1>3 DEF Continues

LEMMA Ended ==
  ASSUME units \in Seq(UnitType), units # <<>>, NEW b, Batch(b), Finish(b)
  PROVE  Ends(Len(b)) /\ Len(b) \in Nat
<1>1. b \in Seq(UnitType) /\ Len(b) \in Nat BY DEF Batch
<1>2. /\ units' \in Seq(UnitType) /\ Restacked(1, Len(b))
      /\ \A i \in 1 .. Len(b) : units'[i] = b[i]
  BY <1>1, Finished
<1>3. New(Len(b)) BY <1>2 DEF Batch, New
<1> QED BY <1>1, <1>2, <1>3 DEF Ends

LEMMA NoBatch == Batch(<<>>) /\ Len(<<>>) = 0
BY DEF Batch

LEMMA Units ==
  /\ Effect \in UnitType /\ Effect.kind = "Effect" /\ Effect.step = 0 /\ Effect.target = None
  /\ Effect.group = {} /\ Effect.rest = {}
  /\ PointEvent \in UnitType /\ PointEvent.kind = "Point" /\ PointEvent.step = 0
  /\ PointEvent.target = None /\ PointEvent.group = {} /\ PointEvent.rest = {}
  /\ Sane(Effect) /\ Sane(PointEvent)
BY DEF Effect, PointEvent, Unit, UnitType, Kinds, Members, Sane

LEMMA OneBatch ==
  ASSUME NEW u \in UnitType, Brief(u)
  PROVE  Batch(<<u>>) /\ Len(<<u>>) = 1
BY DEF Batch

LEMMA TwoBatch ==
  ASSUME NEW u \in UnitType, Brief(u), NEW w \in UnitType, Brief(w), ~Prompt(w)
  PROVE  /\ Batch(<<u>> \o <<w>>) /\ Len(<<u>> \o <<w>>) = 2
         /\ (<<u>> \o <<w>>)[1] = u /\ (<<u>> \o <<w>>)[2] = w
<1>1. PICK a : a = <<u>> OBVIOUS
<1>2. PICK d : d = <<w>> OBVIOUS
<1>3. a \in Seq(UnitType) /\ Len(a) = 1 /\ a[1] = u BY <1>1
<1>4. d \in Seq(UnitType) /\ Len(d) = 1 /\ d[1] = w BY <1>2
<1>5. PICK b : b = a \o d OBVIOUS
<1>6. /\ b \in Seq(UnitType) /\ Len(b) = 2
      /\ \A i \in 1 .. 1 : b[i] = a[i]
      /\ \A i \in 1 .. 1 : b[i + 1] = d[i]
  BY <1>3, <1>4, <1>5, Concats
<1>7. b[1] = u /\ b[2] = w BY <1>3, <1>4, <1>6
<1>8. Batch(b) BY <1>6, <1>7 DEF Batch
<1> QED BY <1>1, <1>2, <1>5, <1>6, <1>7, <1>8

LEMMA Interrupts ==
  /\ Batch(Interrupt) /\ Len(Interrupt) \in Nat /\ Idled(Len(Interrupt))
  /\ \A i \in 1 .. Len(Interrupt) : Interrupt[i] = Effect
<1>1. Brief(Effect) /\ Effect \in UnitType BY Units DEF Brief
<1>2. CASE setting.interrupted BY <1>1, <1>2, OneBatch DEF Interrupt, Idled
<1>3. CASE ~setting.interrupted BY <1>3, NoBatch DEF Interrupt, Idled
<1> QED BY <1>2, <1>3

LEMMA Notices ==
  ASSUME core.chain = 0 \/ (Outside(Front) /\ ~Live(Front))
  PROVE  Batch(<<PointEvent>>) /\ Batch(Interrupt \o <<PointEvent>>)
<1>1. Brief(Effect) /\ Effect \in UnitType /\ Brief(PointEvent) /\ PointEvent \in UnitType
      /\ ~Prompt(PointEvent)
  BY Units DEF Brief, Prompt
<1>2. Batch(<<PointEvent>>) BY <1>1, OneBatch
<1>3. CASE setting.interrupted BY <1>1, <1>2, <1>3, TwoBatch DEF Interrupt
<1>4. CASE ~setting.interrupted
  <2>1. <<PointEvent>> \in Seq(UnitType) BY <1>2 DEF Batch
  <2>2. <<>> \o <<PointEvent>> = <<PointEvent>> BY <2>1, ConcatEmptySeq
  <2> QED BY <1>2, <1>4, <2>2 DEF Interrupt
<1> QED BY <1>2, <1>3, <1>4

-----------------------------------------------------------------------------
(* The limit. *)

(* Without interruptions nothing that will count is below what is not. *)
LEMMA Alone ==
  ASSUME Limited, ~setting.interrupted, units # <<>>, units \in Seq(UnitType),
         Front.kind # "ToGrave"
  PROVE  \A i \in 2 .. Len(units) : ~Busy(units[i])
<1>1. Front = units[1] /\ Len(units) \in Nat BY Fronts
<1> SUFFICES ASSUME NEW i \in 2 .. Len(units), Busy(units[i]) PROVE FALSE OBVIOUS
<1>2. i \in 1 .. Len(units) /\ i # 1 BY <1>1
<1>3. i = 1 \/ (i = 2 /\ units[1].kind = "ToGrave") BY <1>2 DEF Limited
<1> QED BY <1>1, <1>2, <1>3

Deepest(us, i) == Claims(us[i]) /\ \A j \in 1 .. Len(us) : j > i => ~Active(us[j])
Fits(p, n) ==
  /\ \A i \in 1 .. n : units'[i].kind = "MSet" => Sets
  /\ \A i \in 1 .. n : Busy(units'[i]) => i = n
  /\ ~setting.interrupted =>
       /\ \A i \in 1 .. n : Busy(units'[i]) => i = 1 \/ (i = 2 /\ units'[1].kind = "ToGrave")
       /\ n = 0 \/ \A i \in p + 1 .. Len(units) : ~Busy(units[i])

LEMMA BusyKept ==
  ASSUME Limited, NEW p, NEW n, Restacked(p, n), setting' = setting, Fits(p, n)
  PROVE  /\ \A i \in 1 .. Len(units') : units'[i].kind = "MSet" => Sets
         /\ ~setting.interrupted =>
              \A i \in 1 .. Len(units') :
                Busy(units'[i]) => i = 1 \/ (i = 2 /\ units'[1].kind = "ToGrave")
<1>0. /\ p \in 0 .. 1 /\ n \in Nat /\ Len(units) \in Nat /\ Len(units') = Len(units) - p + n
      /\ \A i \in p + 1 .. Len(units) :
           i - p + n \in 1 .. Len(units') /\ units'[i - p + n] = units[i]
      /\ \A k \in 1 .. Len(units') :
           k <= n \/ (k - n + p \in p + 1 .. Len(units) /\ units'[k] = units[k - n + p])
      /\ p <= Len(units)
  BY DEF Restacked
<1>1. ASSUME NEW i \in 1 .. Len(units'), units'[i].kind = "MSet"
      PROVE  Sets
  <2>1. CASE i <= n BY <2>1, <1>0, <1>1 DEF Fits
  <2>2. CASE ~(i <= n)
    <3>1. PICK k \in 1 .. Len(units) : units'[i] = units[k] BY <2>2, <1>0
    <3> QED BY <3>1, <1>1 DEF Limited
  <2> QED BY <2>1, <2>2
<1>2. ASSUME ~setting.interrupted, NEW i \in 1 .. Len(units'), Busy(units'[i])
      PROVE  i = 1 \/ (i = 2 /\ units'[1].kind = "ToGrave")
  <2>1. CASE i <= n BY <2>1, <1>0, <1>2 DEF Fits
  <2>2. CASE ~(i <= n)
    <3>1. PICK k \in p + 1 .. Len(units) : k = i - n + p /\ units'[i] = units[k]
      BY <2>2, <1>0
    <3>2. n = 0 BY <3>1, <1>2 DEF Fits
    <3>3. k \in 1 .. Len(units) /\ Busy(units[k]) BY <3>1, <1>2, <1>0
    <3>4. k = 1 \/ (k = 2 /\ units[1].kind = "ToGrave") BY <3>3, <1>2 DEF Limited
    <3>5. CASE p = 1 BY <3>1, <3>2, <3>4, <3>5, <1>0
    <3>6. CASE p = 0
      <4>1. k = i BY <3>1, <3>2, <3>6, <1>0
      <4>2. CASE k = 1 BY <4>1, <4>2
      <4>3. CASE k = 2 /\ units[1].kind = "ToGrave"
        <5>1. 1 \in p + 1 .. Len(units) /\ 1 - p + n = 1 BY <3>1, <3>2, <3>6, <4>3, <1>0
        <5>2. units'[1] = units[1] BY <5>1, <1>0
        <5> QED BY <4>1, <4>3, <5>2
      <4> QED BY <3>4, <4>2, <4>3
    <3> QED BY <3>5, <3>6, <1>0
  <2> QED BY <2>1, <2>2
<1> QED BY <1>1, <1>2

(* Whoever is the outermost claimant already was, or is new. *)
LEMMA DeepestKept ==
  ASSUME NEW p, NEW n, Restacked(p, n), NEW i \in 1 .. Len(units'), Deepest(units', i),
         \A k \in 1 .. n : Claims(units'[k]) => k = n
  PROVE  \/ i = n /\ \A j \in p + 1 .. Len(units) : ~Active(units[j])
         \/ i > n /\ \E k \in p + 1 .. Len(units) : Deepest(units, k)
<1>0. /\ p \in 0 .. 1 /\ n \in Nat /\ Len(units) \in Nat /\ Len(units') = Len(units) - p + n
      /\ \A j \in p + 1 .. Len(units) :
           j - p + n \in 1 .. Len(units') /\ units'[j - p + n] = units[j]
      /\ \A k \in 1 .. Len(units') :
           k <= n \/ (k - n + p \in p + 1 .. Len(units) /\ units'[k] = units[k - n + p])
      /\ p <= Len(units)
  BY DEF Restacked
<1>1. Claims(units'[i]) /\ \A j \in 1 .. Len(units') : j > i => ~Active(units'[j])
  BY DEF Deepest
<1>2. CASE i <= n
  <2>1. i = n BY <1>1, <1>2, <1>0
  <2>2. ASSUME NEW j \in p + 1 .. Len(units)
        PROVE  ~Active(units[j])
    <3>1. j - p + n > i BY <2>1, <1>0
    <3> QED BY <3>1, <1>0, <1>1
  <2> QED BY <2>1, <2>2
<1>3. CASE ~(i <= n)
  <2>1. PICK k \in p + 1 .. Len(units) : k = i - n + p /\ units'[i] = units[k]
    BY <1>0, <1>3
  <2>2. ASSUME NEW j \in 1 .. Len(units), j > k
        PROVE  ~Active(units[j])
    <3>1. j \in p + 1 .. Len(units) /\ j - p + n > i BY <2>1, <2>2, <1>0
    <3>2. j - p + n \in 1 .. Len(units') /\ units'[j - p + n] = units[j] BY <3>1, <1>0
    <3> QED BY <3>1, <3>2, <1>1
  <2>3. Deepest(units, k) BY <2>1, <2>2, <1>1 DEF Deepest
  <2>4. i > n BY <1>3, <1>0
  <2> QED BY <2>1, <2>3, <2>4
<1> QED BY <1>2, <1>3

LEMMA LimitedSame ==
  ASSUME Types, Limited, NEW p, NEW n, Restacked(p, n), setting' = setting, Fits(p, n),
         core'.summon_count = core.summon_count,
         n > 0 /\ Claims(units'[n]) =>
           (p = 1 /\ Claims(units[1])) \/ core.summon_count < Limit,
         units' # <<>> => Ready(Front)'
  PROVE  Limited'
<1>0. /\ p \in 0 .. 1 /\ n \in Nat /\ Len(units) \in Nat /\ p <= Len(units)
      /\ Len(units') = Len(units) - p + n
  BY DEF Restacked
<1>1. /\ \A i \in 1 .. Len(units') : units'[i].kind = "MSet" => Sets
      /\ ~setting.interrupted =>
           \A i \in 1 .. Len(units') :
             Busy(units'[i]) => i = 1 \/ (i = 2 /\ units'[1].kind = "ToGrave")
  BY BusyKept
<1>2. ASSUME ~Unlimited, NEW i \in 1 .. Len(units'), Deepest(units', i)
      PROVE  core.summon_count < Limit
  <2>1. \A k \in 1 .. n : Claims(units'[k]) => k = n BY DEF Claims, Fits
  <2>2. CASE i = n /\ \A j \in p + 1 .. Len(units) : ~Active(units[j])
    <3>1. n > 0 /\ Claims(units'[n]) BY <2>2, <1>2 DEF Deepest
    <3>2. CASE p = 1 /\ Claims(units[1])
      <4>1. 1 \in 1 .. Len(units) /\ \A j \in 1 .. Len(units) : j > 1 => ~Active(units[j])
        BY <2>2, <3>2, <1>0
      <4> QED BY <3>2, <4>1, <1>2 DEF Limited
    <3> QED BY <3>1, <3>2
  <2>3. CASE \E k \in p + 1 .. Len(units) : Deepest(units, k)
    <3>1. PICK k \in 1 .. Len(units) : Deepest(units, k) BY <2>3, <1>0
    <3> QED BY <3>1, <1>2 DEF Limited, Deepest
  <2> QED BY <2>1, <2>2, <2>3, <1>2, DeepestKept
<1>3. Unlimited' <=> Unlimited BY DEF Unlimited, Sets
<1>4. ~Unlimited' => \A i \in 1 .. Len(units') :
        Claims(units'[i]) /\ (\A j \in 1 .. Len(units') : j > i => ~Active(units'[j])) =>
          core'.summon_count < Limit
  BY <1>2, <1>3 DEF Deepest
<1>5. ~Unlimited' => core'.summon_count <= Limit BY <1>3 DEF Limited
<1>6. Sets' <=> Sets BY DEF Sets
<1> QED BY <1>1, <1>4, <1>5, <1>6 DEF Limited, Busy, Claims, Active

(* When one is counted, no other claim is left. *)
LEMMA LimitedCounted ==
  ASSUME Types, Limited, NEW p, NEW n, Restacked(p, n), setting' = setting, Fits(p, n),
         core'.summon_count = core.summon_count + 1,
         ~Unlimited => core.summon_count < Limit,
         n > 0 => ~Claims(units'[n]),
         ~Unlimited => \A i \in p + 1 .. Len(units) : ~Deepest(units, i),
         units' # <<>> => Ready(Front)'
  PROVE  Limited'
<1>1. /\ \A i \in 1 .. Len(units') : units'[i].kind = "MSet" => Sets
      /\ ~setting.interrupted =>
           \A i \in 1 .. Len(units') :
             Busy(units'[i]) => i = 1 \/ (i = 2 /\ units'[1].kind = "ToGrave")
  BY BusyKept
<1>2. ASSUME ~Unlimited, NEW i \in 1 .. Len(units'), Deepest(units', i)
      PROVE  FALSE
  <2>1. \A k \in 1 .. n : Claims(units'[k]) => k = n BY DEF Claims, Fits
  <2>2. CASE i = n /\ \A j \in p + 1 .. Len(units) : ~Active(units[j])
    <3>1. n > 0 /\ Claims(units'[n]) BY <2>2, <1>2 DEF Deepest
    <3> QED BY <3>1
  <2>3. CASE \E k \in p + 1 .. Len(units) : Deepest(units, k) BY <2>3, <1>2
  <2> QED BY <2>1, <2>2, <2>3, <1>2, DeepestKept
<1>3. Unlimited' <=> Unlimited BY DEF Unlimited, Sets
<1>4. ~Unlimited' => \A i \in 1 .. Len(units') :
        Claims(units'[i]) /\ (\A j \in 1 .. Len(units') : j > i => ~Active(units'[j])) =>
          core'.summon_count < Limit
  BY <1>2, <1>3 DEF Deepest
<1>5. ~Unlimited' => core'.summon_count <= Limit
  <2>1. core.summon_count \in Nat BY DEF Types, CoreType
  <2> QED BY <1>3, <2>1 DEF Limit
<1>6. Sets' <=> Sets BY DEF Sets
<1> QED BY <1>1, <1>4, <1>5, <1>6 DEF Limited, Busy, Claims, Active

-----------------------------------------------------------------------------
(* What is counted, together. *)

Control == Prompts /\ Depth /\ Tallied /\ Chained /\ Waiting /\ Limited

One(b) == IF b THEN 1 ELSE 0

(* The front u goes on as v below n others, or is over. *)
Succeeds(u, v) == v.kind = u.kind \/ (u.kind = "RuleGroup" /\ v.kind = "Rule")
Follows(u, v, n) ==
  /\ Succeeds(u, v) /\ u.kind # "ToGrave"
  /\ n > 0 => ~Prompt(v)
  /\ n = 0 => Ready(v)'
  /\ Live(v) <=> Live(u)
  /\ Outside(v) => Outside(u) \/ core.chain = 0
  /\ Claims(v) => Claims(u) \/ core.summon_count < Limit
  /\ ~setting.interrupted /\ Busy(v) => n = 0 \/ (n = 1 /\ units'[1].kind = "ToGrave")
Leaves(u, n) ==
  /\ u.kind # "Solve"
  /\ ~setting.interrupted /\ u.kind = "ToGrave" => n = 0
Apart ==
  /\ setting' = setting /\ core'.chain = core.chain /\ core'.reserved = core.reserved
  /\ seen'.promised = seen.promised
Tallies(d) ==
  /\ d \in Int /\ seen'.tries \in Nat /\ seen'.successes \in Nat
  /\ core'.state_count = core.state_count
       + IF setting.oath_old THEN seen'.tries - seen.tries
                             ELSE (seen'.successes - seen.successes) + d

LEMMA Briefs ==
  ASSUME NEW u, Brief(u)
  PROVE  /\ ~Active(u) /\ ~Counting(u) /\ ~Live(u) /\ ~Busy(u) /\ ~Claims(u)
         /\ Sane(u) /\ u.kind \notin {"MSet", "Solve", "Summon", "SetGroup", "Step", "SpSummon"}
         /\ u.step = 0 /\ (Outside(u) => core.chain = 0 \/ Outside(Front))
BY DEF Brief, Active, Counting, Live, Busy, Claims, Outside

LEMMA ControlContinued ==
  ASSUME Types, Control, NEW v, NEW n, Continues(v, n), Follows(Front, v, n), Apart,
         core'.summon_depth = core.summon_depth - One(Active(Front)) + One(Active(v)),
         Tallies(One(Counting(v)) - One(Counting(Front)))
  PROVE  /\ Fits(1, n + 1) /\ Ready(Front)'
         /\ core'.summon_count = core.summon_count \/ Limited' => Control'
<1>0. /\ units \in Seq(UnitType) /\ units # <<>> /\ n \in Nat
      /\ Restacked(1, n + 1) /\ units' \in Seq(UnitType) /\ units'[n + 1] = v
      /\ \A i \in 1 .. n : Brief(units'[i]) /\ (Prompt(units'[i]) => i = 1)
  BY DEF Types, Continues, New
<1>1. Front = units[1] /\ Len(units) \in Nat \ {0} /\ Len(units') \in Nat \ {0}
      /\ Front.kind \in Kinds /\ Succeeds(Front, v)
  <2>1. Front = units[1] /\ Front \in UnitType /\ Len(units) \in Nat \ {0}
    BY <1>0, Fronts
  <2>2. Front.kind \in Kinds BY <2>1 DEF UnitType
  <2> QED BY <1>0, <2>1, <2>2 DEF Restacked, Follows
<1>2. \A i \in 1 .. n + 1 : i <= n \/ i = n + 1 BY <1>0
<1>3. \A i \in 1 .. n + 1 : i # n + 1 =>
        /\ ~Active(units'[i]) /\ ~Counting(units'[i]) /\ ~Live(units'[i]) /\ ~Busy(units'[i])
        /\ units'[i].kind \notin {"MSet", "Solve", "Summon"} /\ units'[i].step = 0
        /\ Outside(units'[i]) => core.chain = 0 \/ Outside(Front)
  BY <1>0, <1>2, Briefs
<1>4. Prompts'
  <2>1. \A i \in 2 .. n + 1 : ~Prompt(units'[i])
    <3> TAKE i \in 2 .. n + 1
    <3>1. CASE i = n + 1 BY <3>1, <1>0 DEF Follows
    <3>2. CASE i # n + 1 BY <3>2, <1>0
    <3> QED BY <3>1, <3>2
  <2> QED BY <2>1, <1>0, PromptsKept DEF Control
<1>5. Depth'
  <2>1. core'.summon_depth = core.summon_depth
          - (IF 1 = 1 /\ Active(units[1]) THEN 1 ELSE 0)
          + (IF n + 1 > 0 /\ Active(units'[n + 1]) THEN 1 ELSE 0)
    BY <1>0, <1>1 DEF One
  <2>2. \A i \in 1 .. n + 1 : Active(units'[i]) => i = n + 1 BY <1>3
  <2> QED BY <2>1, <2>2, <1>0, DepthKept DEF Control
<1>6. Tallied'
  <2>1. PICK d \in Int : d = One(Counting(v)) - One(Counting(Front)) BY DEF One
  <2>2. d = (IF n + 1 > 0 /\ Counting(units'[n + 1]) THEN 1 ELSE 0)
            - (IF 1 = 1 /\ Counting(units[1]) THEN 1 ELSE 0)
    BY <2>1, <1>0, <1>1 DEF One
  <2>3. \A i \in 1 .. n + 1 : Counting(units'[i]) => i = n + 1 BY <1>3
  <2>4. /\ seen'.tries \in Nat /\ seen'.successes \in Nat /\ setting' = setting
        /\ core'.state_count = core.state_count
             + IF setting.oath_old THEN seen'.tries - seen.tries
                                   ELSE (seen'.successes - seen.successes) + d
    BY <2>1 DEF Tallies, Apart
  <2> QED BY <2>2, <2>3, <2>4, <1>0, TallyKept DEF Control
<1>7. Chained'
  <2>1. (n + 1 > 0 /\ Live(units'[n + 1])) <=> (1 = 1 /\ Live(units[1]))
    BY <1>0, <1>1 DEF Follows
  <2>2. \A i \in 1 .. n + 1 : Live(units'[i]) => i = n + 1 BY <1>3
  <2>3. \A i, j \in 1 .. n + 1 : j < i /\ Live(units'[i]) => ~Outside(units'[j])
    <3> SUFFICES ASSUME NEW i \in 1 .. n + 1, NEW j \in 1 .. n + 1, j < i, Live(units'[i])
                 PROVE  ~Outside(units'[j])
      OBVIOUS
    <3>1. i = n + 1 /\ j # n + 1 BY <2>2, <1>0
    <3>2. Live(Front) /\ core.chain # 0
      <4>1. Live(units[1]) /\ 1 \in 1 .. Len(units) BY <3>1, <2>1, <1>0, <1>1
      <4> QED BY <4>1, <1>1 DEF Chained, Control
    <3>3. Brief(units'[j]) BY <3>1, <1>0, <1>2
    <3> QED BY <3>2, <3>3 DEF Brief, Outside
  <2>4. \A i \in 1 .. n + 1 : Outside(units'[i]) => core.chain = 0 \/ (1 = 1 /\ Outside(units[1]))
    BY <1>0, <1>1, <1>3 DEF Follows
  <2> QED BY <2>1, <2>2, <2>3, <2>4, <1>0, ChainedSame DEF Control, Apart
<1>8. Waiting'
  <2>1. 1 = 1 /\ units[1].kind = "Solve" => \E i \in 1 .. n + 1 : units'[i].kind = "Solve"
    <3>1. n + 1 \in 1 .. n + 1 /\ (units[1].kind = "Solve" => units'[n + 1].kind = "Solve")
      BY <1>0, <1>1 DEF Succeeds
    <3> QED BY <3>1
  <2> QED BY <2>1, <1>0, WaitingSame DEF Control, Apart
<1>9. Fits(1, n + 1)
  <2>1. \A i \in 1 .. n + 1 : Busy(units'[i]) => i = n + 1 BY <1>3
  <2>2. \A i \in 1 .. n + 1 : units'[i].kind = "MSet" => Sets
    <3>1. Front.kind = "MSet" => Sets BY <1>1 DEF Control, Limited
    <3>2. units'[n + 1].kind = "MSet" => Sets BY <3>1, <1>0, <1>1 DEF Succeeds
    <3> QED BY <3>2, <1>3
  <2>3. ~setting.interrupted =>
          /\ \A i \in 1 .. n + 1 :
               Busy(units'[i]) => i = 1 \/ (i = 2 /\ units'[1].kind = "ToGrave")
          /\ \A i \in 1 + 1 .. Len(units) : ~Busy(units[i])
    <3>1. ~setting.interrupted => \A i \in 2 .. Len(units) : ~Busy(units[i])
      BY <1>0, Alone DEF Follows, Control
    <3> QED BY <3>1, <2>1, <1>0 DEF Follows
  <2> QED BY <2>1, <2>2, <2>3 DEF Fits
<1>10. Ready(Front)'
  <2>1. Front' = units'[1] BY <1>0, <1>1, EmptySeq DEF Front
  <2>2. CASE n = 0
    <3>1. Front' = v BY <2>1, <2>2, <1>0
    <3>2. Ready(v)' BY <2>2 DEF Follows
    <3> QED BY <3>1, <3>2 DEF Ready, CountOptions, Busy
  <2>3. CASE n # 0
    <3>1. 1 \in 1 .. n + 1 /\ 1 # n + 1 BY <2>3, <1>0
    <3>2. ~Busy(units'[1]) /\ units'[1].step = 0 BY <3>1, <1>3
    <3> QED BY <2>1, <3>2 DEF Ready, Busy
  <2> QED BY <2>2, <2>3
<1>11. ASSUME core'.summon_count = core.summon_count PROVE Limited'
  <2>2. n + 1 > 0 /\ Claims(units'[n + 1]) =>
          (1 = 1 /\ Claims(units[1])) \/ core.summon_count < Limit
    BY <1>0, <1>1 DEF Follows
  <2> QED BY <2>2, <1>0, <1>9, <1>10, <1>11, LimitedSame DEF Control, Apart
<1> QED BY <1>4, <1>5, <1>6, <1>7, <1>8, <1>9, <1>10, <1>11 DEF Control

LEMMA ControlEnded ==
  ASSUME Types, Control, NEW n, Ends(n), Leaves(Front, n), Apart,
         core'.summon_count = core.summon_count,
         core'.summon_depth = core.summon_depth - One(Active(Front)),
         Tallies(0 - One(Counting(Front)))
  PROVE  Control'
<1>0. /\ units \in Seq(UnitType) /\ units # <<>> /\ n \in Nat
      /\ Restacked(1, n) /\ units' \in Seq(UnitType)
      /\ \A i \in 1 .. n : Brief(units'[i]) /\ (Prompt(units'[i]) => i = 1)
  BY DEF Types, Ends, New
<1>1. Front = units[1] /\ Len(units) \in Nat \ {0} /\ Len(units') \in Nat
      /\ Len(units') = Len(units) - 1 + n
      /\ \A k \in 1 .. Len(units') :
           k <= n \/ (k - n + 1 \in 1 + 1 .. Len(units) /\ units'[k] = units[k - n + 1])
  BY <1>0, Fronts DEF Restacked
<1>2. \A i \in 1 .. n :
        /\ ~Active(units'[i]) /\ ~Counting(units'[i]) /\ ~Live(units'[i]) /\ ~Busy(units'[i])
        /\ ~Claims(units'[i])
        /\ units'[i].kind \notin {"MSet", "Solve", "Summon"} /\ units'[i].step = 0
        /\ Outside(units'[i]) => core.chain = 0 \/ Outside(Front)
  BY <1>0, Briefs
<1>3. n > 0 => n \in 1 .. n BY <1>0
<1>4. Prompts'
  <2>1. \A i \in 2 .. n : ~Prompt(units'[i]) BY <1>0
  <2> QED BY <2>1, <1>0, PromptsKept DEF Control
<1>5. Depth'
  <2>1. core'.summon_depth = core.summon_depth
          - (IF 1 = 1 /\ Active(units[1]) THEN 1 ELSE 0)
          + (IF n > 0 /\ Active(units'[n]) THEN 1 ELSE 0)
    <3>1. ~(n > 0 /\ Active(units'[n])) BY <1>2, <1>3
    <3>2. core.summon_depth \in Nat BY DEF Types, CoreType
    <3> QED BY <3>1, <3>2, <1>1 DEF One
  <2>2. \A i \in 1 .. n : Active(units'[i]) => i = n BY <1>2
  <2> QED BY <2>1, <2>2, <1>0, DepthKept DEF Control
<1>6. Tallied'
  <2>1. PICK d \in Int : d = 0 - One(Counting(Front)) BY DEF One
  <2>2. d = (IF n > 0 /\ Counting(units'[n]) THEN 1 ELSE 0)
            - (IF 1 = 1 /\ Counting(units[1]) THEN 1 ELSE 0)
    <3>1. ~(n > 0 /\ Counting(units'[n])) BY <1>2, <1>3
    <3> QED BY <2>1, <3>1, <1>1 DEF One
  <2>3. \A i \in 1 .. n : Counting(units'[i]) => i = n BY <1>2
  <2>4. /\ seen'.tries \in Nat /\ seen'.successes \in Nat /\ setting' = setting
        /\ core'.state_count = core.state_count
             + IF setting.oath_old THEN seen'.tries - seen.tries
                                   ELSE (seen'.successes - seen.successes) + d
    BY <2>1 DEF Tallies, Apart
  <2> QED BY <2>2, <2>3, <2>4, <1>0, TallyKept DEF Control
<1>7. Chained'
  <2>1. (n > 0 /\ Live(units'[n])) <=> (1 = 1 /\ Live(units[1]))
    BY <1>1, <1>2, <1>3 DEF Leaves, Live
  <2>2. \A i \in 1 .. n : Live(units'[i]) => i = n BY <1>2
  <2>3. \A i, j \in 1 .. n : j < i /\ Live(units'[i]) => ~Outside(units'[j]) BY <1>2
  <2>4. \A i \in 1 .. n : Outside(units'[i]) => core.chain = 0 \/ (1 = 1 /\ Outside(units[1]))
    BY <1>1, <1>2
  <2> QED BY <2>1, <2>2, <2>3, <2>4, <1>0, ChainedSame DEF Control, Apart
<1>8. Waiting'
  <2>1. 1 = 1 /\ units[1].kind = "Solve" => \E i \in 1 .. n : units'[i].kind = "Solve"
    BY <1>1 DEF Leaves
  <2> QED BY <2>1, <1>0, WaitingSame DEF Control, Apart
<1>9. Limited'
  <2>1. Fits(1, n)
    <3>1. \A i \in 1 .. n : ~Busy(units'[i]) /\ units'[i].kind # "MSet" BY <1>2
    <3>2. ~setting.interrupted => n = 0 \/ \A i \in 1 + 1 .. Len(units) : ~Busy(units[i])
      <4>1. ~setting.interrupted /\ n # 0 => \A i \in 2 .. Len(units) : ~Busy(units[i])
        BY <1>0, Alone DEF Leaves, Control
      <4> QED BY <4>1
    <3> QED BY <3>1, <3>2 DEF Fits
  <2>2. ~(n > 0 /\ Claims(units'[n])) BY <1>2, <1>3
  <2>3. units' # <<>> => Ready(Front)'
    <3> SUFFICES ASSUME units' # <<>> PROVE Ready(Front)' OBVIOUS
    <3>1. Front' = units'[1] /\ 1 \in 1 .. Len(units') BY <1>0, EmptySeq DEF Front
    <3>2. CASE n = 0
      <4>1. 2 \in 2 .. Len(units) /\ units'[1] = units[2] BY <3>1, <3>2, <1>1
      <4>2. ~Prompt(units[2]) BY <4>1 DEF Control, Prompts
      <4> QED BY <3>1, <4>1, <4>2 DEF Ready, Prompt, Busy
    <3>3. CASE n # 0
      <4>1. 1 \in 1 .. n BY <3>3, <1>0
      <4>2. ~Busy(units'[1]) /\ units'[1].step = 0 BY <4>1, <1>2
      <4> QED BY <3>1, <4>2 DEF Ready, Busy
    <3> QED BY <3>2, <3>3
  <2> QED BY <2>1, <2>2, <2>3, <1>0, LimitedSame DEF Control, Apart
<1> QED BY <1>4, <1>5, <1>6, <1>7, <1>8, <1>9 DEF Control

(* A unit is put in front, which only players and effects do. *)
Entry(u) ==
  /\ u \in UnitType /\ Sane(u)
  /\ ~Active(u) /\ ~Counting(u) /\ ~Live(u) /\ ~Busy(u) /\ ~Prompt(u)
  /\ u.kind = "MSet" => Sets
  /\ Outside(u) => core.chain = 0
Started1(u) ==
  /\ units' \in Seq(UnitType) /\ Restacked(0, 1) /\ units'[1] = u
  /\ units = <<>> \/ Front.kind = "Effect"

LEMMA ControlStarted ==
  ASSUME Types, Control, NEW u, Entry(u), Started1(u), Apart,
         core'.summon_count = core.summon_count, core'.summon_depth = core.summon_depth,
         Tallies(0)
  PROVE  Control'
<1>0. /\ units \in Seq(UnitType) /\ Restacked(0, 1) /\ units' \in Seq(UnitType)
      /\ units'[1] = u /\ Len(units) \in Nat
  BY DEF Types, Started1
<1>1. units # <<>> => Front = units[1] /\ Front.kind = "Effect"
  BY <1>0, Fronts DEF Started1
<1>2. \A i \in 1 .. 1 : units'[i] = u /\ i = 1 BY <1>0
<1>4. Prompts'
  <2>1. units # <<>> => ~Prompt(units[1]) BY <1>1 DEF Prompt
  <2>2. \A i \in 2 .. 1 : ~Prompt(units'[i]) OBVIOUS
  <2> QED BY <2>1, <2>2, <1>0, PromptsKept DEF Control
<1>5. Depth'
  <2>1. core'.summon_depth = core.summon_depth
          - (IF 0 = 1 /\ Active(units[1]) THEN 1 ELSE 0)
          + (IF 1 > 0 /\ Active(units'[1]) THEN 1 ELSE 0)
    <3>1. core.summon_depth \in Nat BY DEF Types, CoreType
    <3> QED BY <1>0, <3>1 DEF Entry
  <2>2. \A i \in 1 .. 1 : Active(units'[i]) => i = 1 BY <1>2
  <2> QED BY <2>1, <2>2, <1>0, DepthKept DEF Control
<1>6. Tallied'
  <2>2. 0 = (IF 1 > 0 /\ Counting(units'[1]) THEN 1 ELSE 0)
            - (IF 0 = 1 /\ Counting(units[1]) THEN 1 ELSE 0)
    BY <1>0 DEF Entry
  <2>3. \A i \in 1 .. 1 : Counting(units'[i]) => i = 1 BY <1>2
  <2>4. /\ seen'.tries \in Nat /\ seen'.successes \in Nat /\ setting' = setting /\ 0 \in Int
        /\ core'.state_count = core.state_count
             + IF setting.oath_old THEN seen'.tries - seen.tries
                                   ELSE (seen'.successes - seen.successes) + 0
    BY DEF Tallies, Apart
  <2> QED BY <2>2, <2>3, <2>4, <1>0, TallyKept DEF Control
<1>7. Chained'
  <2>1. (1 > 0 /\ Live(units'[1])) <=> (0 = 1 /\ Live(units[1])) BY <1>0 DEF Entry
  <2>2. \A i \in 1 .. 1 : Live(units'[i]) => i = 1 BY <1>2
  <2>3. \A i, j \in 1 .. 1 : j < i /\ Live(units'[i]) => ~Outside(units'[j]) OBVIOUS
  <2>4. \A i \in 1 .. 1 : Outside(units'[i]) => core.chain = 0 \/ (0 = 1 /\ Outside(units[1]))
    BY <1>2 DEF Entry
  <2> QED BY <2>1, <2>2, <2>3, <2>4, <1>0, ChainedSame DEF Control, Apart
<1>8. Waiting'
  <2>1. 0 = 1 /\ units[1].kind = "Solve" => \E i \in 1 .. 1 : units'[i].kind = "Solve"
    OBVIOUS
  <2> QED BY <2>1, <1>0, WaitingSame DEF Control, Apart
<1>9. Limited'
  <2>1. Fits(0, 1)
    <3>2. ~setting.interrupted => \A i \in 0 + 1 .. Len(units) : ~Busy(units[i])
      <4>1. CASE units = <<>> BY <4>1
      <4>2. CASE units # <<>> /\ ~setting.interrupted
        <5>1. \A i \in 2 .. Len(units) : ~Busy(units[i])
          BY <4>2, <1>0, <1>1, Alone DEF Control
        <5>2. ~Busy(units[1]) BY <4>2, <1>1 DEF Busy
        <5> QED BY <5>1, <5>2, <1>0
      <4> QED BY <4>1, <4>2
    <3>3. \A i \in 1 .. 1 : ~Busy(units'[i]) /\ (units'[i].kind = "MSet" => Sets)
      BY <1>2 DEF Entry
    <3> QED BY <3>2, <3>3 DEF Fits
  <2>2. ~(1 > 0 /\ Claims(units'[1])) BY <1>0 DEF Entry, Claims
  <2>3. Ready(Front)'
    <3>1. Front' = units'[1] /\ ~Busy(units'[1])
      <4>1. Len(units') # 0 BY <1>0 DEF Restacked
      <4>2. units' # <<>> BY <4>1
      <4> QED BY <4>2, <1>0 DEF Front, Entry
    <3> QED BY <3>1 DEF Ready, Busy
  <2> QED BY <2>1, <2>2, <2>3, <1>0, LimitedSame DEF Control, Apart
<1> QED BY <1>4, <1>5, <1>6, <1>7, <1>8, <1>9 DEF Control

(* The stack stays as it is. *)
LEMMA ControlStill ==
  ASSUME Types, Control, units' = units, setting' = setting, core'.chain = core.chain,
         core'.summon_count = core.summon_count, core'.summon_depth = core.summon_depth,
         core'.extra_summon = core.extra_summon, core'.state_count = core.state_count,
         seen'.tries = seen.tries, seen'.successes = seen.successes,
         Waiting'
  PROVE  Control'
<1>1. Prompts' /\ Depth' /\ Chained' BY DEF Control, Prompts, Depth, Chained
<1>2. Tallied' BY DEF Control, Tallied
<1>3. Limited'
  <2>1. /\ Sets' <=> Sets
        /\ Unlimited' <=> Unlimited
    BY DEF Sets, Unlimited
  <2>2. units # <<>> => Ready(Front)'
    <3>1. Front' = Front BY DEF Front
    <3> QED BY <3>1 DEF Control, Limited, Ready, CountOptions, Busy
  <2> QED BY <2>1, <2>2 DEF Control, Limited, Claims, Busy, Active
<1> QED BY <1>1, <1>2, <1>3 DEF Control

-----------------------------------------------------------------------------
(* What is half done. *)

Half == Owned /\ Opened /\ Asked /\ Stepped /\ Faceup

(* Units that are not about Special Summons by effects. *)
Free(u) == u.kind # "Step" /\ ~Sends(u)
Frees(p, n) ==
  /\ \A i \in 1 .. n : Free(units'[i])
  /\ \A i \in 1 .. p : Free(units[i])
  /\ core'.special_summoning = core.special_summoning /\ core'.ss_tograve = core.ss_tograve

(* Units that are below one that is no SpSummonStep of a SpSummon, or have
   none of them above, keep those that are right above them. *)
LEMMA OwnersKept ==
  ASSUME NEW p, NEW n, Restacked(p, n), n > 0 => ~Queued(units'[n])
  PROVE  /\ \A i, k \in p + 1 .. Len(units) :
              OwnerOf(units, i, k) => OwnerOf(units', i - p + n, k - p + n)
         /\ \A k \in p + 1 .. Len(units), i \in 1 .. Len(units') :
              Queued(units'[i]) /\ OwnerOf(units', i, k - p + n) =>
                i - n + p \in p + 1 .. Len(units) /\ units'[i] = units[i - n + p]
                /\ OwnerOf(units, i - n + p, k)
<1>0. /\ p \in 0 .. 1 /\ n \in Nat /\ Len(units) \in Nat /\ Len(units') = Len(units) - p + n
      /\ \A i \in p + 1 .. Len(units) :
           i - p + n \in 1 .. Len(units') /\ units'[i - p + n] = units[i]
      /\ \A k \in 1 .. Len(units') :
           k <= n \/ (k - n + p \in p + 1 .. Len(units) /\ units'[k] = units[k - n + p])
      /\ p <= Len(units)
  BY DEF Restacked
<1>1. ASSUME NEW i \in p + 1 .. Len(units), NEW k \in p + 1 .. Len(units), OwnerOf(units, i, k)
      PROVE  OwnerOf(units', i - p + n, k - p + n)
  <2>1. i < k /\ units[k].kind = "SpSummon" /\ units[k].step = 1
        /\ \A j \in 1 .. Len(units) : i < j /\ j < k => Queued(units[j])
    BY <1>1 DEF OwnerOf
  <2>2. i - p + n < k - p + n /\ units'[k - p + n] = units[k] BY <2>1, <1>0
  <2>3. ASSUME NEW j \in 1 .. Len(units'), i - p + n < j, j < k - p + n
        PROVE  Queued(units'[j])
    <3>1. j - n + p \in p + 1 .. Len(units) /\ units'[j] = units[j - n + p]
      BY <2>3, <1>0
    <3>2. i < j - n + p /\ j - n + p < k /\ j - n + p \in 1 .. Len(units)
      BY <2>3, <3>1, <1>0
    <3> QED BY <3>1, <3>2, <2>1
  <2> QED BY <2>1, <2>2, <2>3 DEF OwnerOf
<1>2. ASSUME NEW k \in p + 1 .. Len(units), NEW i \in 1 .. Len(units'), Queued(units'[i]),
             OwnerOf(units', i, k - p + n)
      PROVE  i - n + p \in p + 1 .. Len(units) /\ units'[i] = units[i - n + p]
             /\ OwnerOf(units, i - n + p, k)
  <2>1. ~(i <= n)
    <3> SUFFICES ASSUME i <= n PROVE FALSE OBVIOUS
    <3>1. i \in 1 .. n /\ n > 0 /\ n \in 1 .. Len(units') /\ n < k - p + n BY <1>0
    <3>2. \A j \in 1 .. Len(units') : i < j /\ j < k - p + n => Queued(units'[j])
      BY <1>2 DEF OwnerOf
    <3>3. i = n \/ i < n BY <3>1, <1>0
    <3> QED BY <3>1, <3>2, <3>3, <1>2
  <2>2. i - n + p \in p + 1 .. Len(units) /\ units'[i] = units[i - n + p] BY <2>1, <1>0
  <2>3. /\ i < k - p + n /\ units'[k - p + n].kind = "SpSummon" /\ units'[k - p + n].step = 1
        /\ \A j \in 1 .. Len(units') : i < j /\ j < k - p + n => Queued(units'[j])
    BY <1>2 DEF OwnerOf
  <2>4. i - n + p < k /\ units'[k - p + n] = units[k] BY <2>3, <1>0
  <2>5. ASSUME NEW j \in 1 .. Len(units), i - n + p < j, j < k
        PROVE  Queued(units[j])
    <3>1. j \in p + 1 .. Len(units) /\ i < j - p + n /\ j - p + n < k - p + n
      BY <2>5, <2>2, <1>0
    <3>2. j - p + n \in 1 .. Len(units') /\ units'[j - p + n] = units[j] BY <3>1, <1>0
    <3> QED BY <3>1, <3>2, <2>3
  <2> QED BY <2>2, <2>3, <2>4, <2>5 DEF OwnerOf
<1> QED BY <1>1, <1>2

LEMMA MarksKept ==
  ASSUME NEW p, NEW n, Restacked(p, n), n > 0 => ~Queued(units'[n])
  PROVE  \A k \in p + 1 .. Len(units), c \in Cards :
           /\ k - p + n \in 1 .. Len(units') /\ units'[k - p + n] = units[k]
           /\ Collects(units, k, c) => Collects(units', k - p + n, c)
           /\ Marked(units, k, c) => Marked(units', k - p + n, c)
           /\ Pending(units, k, c) => Pending(units', k - p + n, c)
<1> SUFFICES ASSUME NEW k \in p + 1 .. Len(units), NEW c \in Cards
             PROVE  /\ k - p + n \in 1 .. Len(units') /\ units'[k - p + n] = units[k]
                    /\ Collects(units, k, c) => Collects(units', k - p + n, c)
                    /\ Marked(units, k, c) => Marked(units', k - p + n, c)
                    /\ Pending(units, k, c) => Pending(units', k - p + n, c)
  OBVIOUS
<1>1. k - p + n \in 1 .. Len(units') /\ units'[k - p + n] = units[k] BY DEF Restacked
<1>2. \A i \in 1 .. Len(units') :
        Queued(units'[i]) /\ OwnerOf(units', i, k - p + n) =>
          i - n + p \in p + 1 .. Len(units) /\ units'[i] = units[i - n + p]
          /\ OwnerOf(units, i - n + p, k)
  BY OwnersKept
<1>3. p \in 0 .. 1 BY DEF Restacked
<1>4. QueuedFor(units', k - p + n, c) => QueuedFor(units, k, c)
  <2> SUFFICES ASSUME QueuedFor(units', k - p + n, c) PROVE QueuedFor(units, k, c)
    OBVIOUS
  <2>1. PICK i \in 1 .. Len(units') :
          Queued(units'[i]) /\ units'[i].target = c /\ OwnerOf(units', i, k - p + n)
    BY DEF QueuedFor
  <2>2. PICK h \in 1 .. Len(units) : h = i - n + p /\ units'[i] = units[h] /\ OwnerOf(units, h, k)
    BY <2>1, <1>2, <1>3
  <2> QED BY <2>1, <2>2 DEF QueuedFor
<1>5. Collects(units, k, c) => Collects(units', k - p + n, c) BY <1>1, <1>4 DEF Collects
<1> QED BY <1>1, <1>5 DEF Marked, Pending

LEMMA OwnedFree ==
  ASSUME Owned, Opened, NEW p, NEW n, Restacked(p, n), Frees(p, n)
  PROVE  Owned' /\ Opened'
<1>0. /\ p \in 0 .. 1 /\ n \in Nat /\ Len(units) \in Nat /\ Len(units') = Len(units) - p + n
      /\ \A i \in p + 1 .. Len(units) :
           i - p + n \in 1 .. Len(units') /\ units'[i - p + n] = units[i]
      /\ \A k \in 1 .. Len(units') :
           k <= n \/ (k - n + p \in p + 1 .. Len(units) /\ units'[k] = units[k - n + p])
      /\ p <= Len(units)
  BY DEF Restacked
<1>1. \A i \in 1 .. n : Free(units'[i]) BY DEF Frees
<1>2. \A k \in 1 .. Len(units) : ~Free(units[k]) => k \in p + 1 .. Len(units)
  <2> TAKE k \in 1 .. Len(units)
  <2>1. k \in p + 1 .. Len(units) \/ k \in 1 .. p BY <1>0
  <2> QED BY <2>1 DEF Frees
<1>3. \A i \in 1 .. Len(units') : ~Free(units'[i]) =>
        i - n + p \in p + 1 .. Len(units) /\ units'[i] = units[i - n + p]
  <2> TAKE i \in 1 .. Len(units')
  <2>1. i <= n => i \in 1 .. n BY <1>0
  <2>2. i <= n \/ (i - n + p \in p + 1 .. Len(units) /\ units'[i] = units[i - n + p])
    BY <1>0
  <2> QED BY <1>1, <2>1, <2>2
<1>4. ASSUME NEW i \in 1 .. Len(units'), Queued(units'[i])
      PROVE  Own(units', i)
  <2>1. PICK h \in p + 1 .. Len(units) : h = i - n + p /\ units'[i] = units[h]
    BY <1>3, <1>4 DEF Queued, Free
  <2>2. h \in 1 .. Len(units) /\ i = h - p + n BY <2>1, <1>0
  <2>3. PICK k \in 1 .. Len(units) :
          /\ OwnerOf(units, h, k) /\ units[h].target \in units[k].group
          /\ \A j \in 1 .. Len(units) : h < j /\ j < k => units[j].target # units[h].target
    BY <2>1, <2>2, <1>4 DEF Owned, Own
  <2>4. k \in p + 1 .. Len(units) /\ h < k BY <2>3, <1>0 DEF OwnerOf
  <2>5. OwnerOf(units', i, k - p + n)
    <3>1. n > 0 => ~Queued(units'[n]) BY <1>0, <1>1 DEF Queued, Free
    <3> QED BY <2>2, <2>3, <2>4, <3>1, OwnersKept
  <2>6. k - p + n \in 1 .. Len(units') /\ units'[k - p + n] = units[k] BY <2>4, <1>0
  <2>7. ASSUME NEW j \in 1 .. Len(units'), i < j, j < k - p + n
        PROVE  units'[j].target # units'[i].target
    <3>1. j - n + p \in p + 1 .. Len(units) /\ units'[j] = units[j - n + p]
      BY <2>2, <2>7, <1>0
    <3>2. h < j - n + p /\ j - n + p < k /\ j - n + p \in 1 .. Len(units)
      BY <2>2, <2>7, <3>1, <1>0
    <3> QED BY <3>1, <3>2, <2>1, <2>3
  <2> QED BY <2>1, <2>3, <2>5, <2>6, <2>7 DEF Own
<1>5. Owned' BY <1>4 DEF Owned
<1>6. ASSUME NEW k \in 1 .. Len(units), ~Free(units[k])
      PROVE  k - p + n \in 1 .. Len(units') /\ units'[k - p + n] = units[k]
  BY <1>0, <1>2, <1>6
<1>7. Opened'
  <2>1. ASSUME NEW i \in 1 .. Len(units'), Loose(units'[i])
        PROVE  /\ \E k \in 1 .. Len(units') : i < k /\ Opens(units'[k])
               /\ units'[i].step = 3 => units'[i].target \in core'.special_summoning
    <3>1. PICK h \in p + 1 .. Len(units) : h = i - n + p /\ units'[i] = units[h]
      BY <1>3, <2>1 DEF Loose, Free
    <3>2. h \in 1 .. Len(units) BY <3>1, <1>0
    <3>3. PICK k \in 1 .. Len(units) : h < k /\ Opens(units[k])
      BY <2>1, <3>1, <3>2 DEF Opened
    <3>4. k - p + n \in 1 .. Len(units') /\ units'[k - p + n] = units[k]
      BY <3>3, <1>6 DEF Free, Sends
    <3>5. i < k - p + n BY <3>1, <3>3, <1>0
    <3>6. units[h].step = 3 => units[h].target \in core.special_summoning
      BY <2>1, <3>1, <3>2 DEF Opened
    <3> QED BY <3>1, <3>3, <3>4, <3>5, <3>6 DEF Frees
  <2>2. ASSUME NEW i \in 1 .. Len(units'), NEW k \in 1 .. Len(units'),
               Opens(units'[i]), Opens(units'[k])
        PROVE  i = k
    <3>1. /\ i - n + p \in p + 1 .. Len(units) /\ units'[i] = units[i - n + p]
          /\ k - n + p \in p + 1 .. Len(units) /\ units'[k] = units[k - n + p]
      BY <2>2, <1>3 DEF Free, Sends
    <3>2. i - n + p \in 1 .. Len(units) /\ k - n + p \in 1 .. Len(units) BY <3>1, <1>0
    <3>3. i - n + p = k - n + p BY <2>2, <3>1, <3>2 DEF Opened
    <3> QED BY <3>3, <1>0
  <2>3. core'.special_summoning # {} => \E i \in 1 .. Len(units') : Opens(units'[i])
    <3> SUFFICES ASSUME core.special_summoning # {}
                 PROVE  \E i \in 1 .. Len(units') : Opens(units'[i])
      BY DEF Frees
    <3>1. PICK i \in 1 .. Len(units) : Opens(units[i]) BY DEF Opened
    <3>2. i - p + n \in 1 .. Len(units') /\ units'[i - p + n] = units[i]
      BY <3>1, <1>6 DEF Free, Sends
    <3> QED BY <3>1, <3>2
  <2>4. core'.ss_tograve # {} => \E i \in 1 .. Len(units') : Sends(units'[i])
    <3> SUFFICES ASSUME core.ss_tograve # {}
                 PROVE  \E i \in 1 .. Len(units') : Sends(units'[i])
      BY DEF Frees
    <3>1. PICK i \in 1 .. Len(units) : Sends(units[i]) BY DEF Opened
    <3>2. i - p + n \in 1 .. Len(units') /\ units'[i - p + n] = units[i]
      BY <3>1, <1>6 DEF Free, Sends
    <3> QED BY <3>1, <3>2
  <2> QED BY <2>1, <2>2, <2>3, <2>4 DEF Opened
<1> QED BY <1>5, <1>7

(* Who sees to a card after the step: a new unit, or one below the front. *)
AsksFor(p, n) ==
  \A c \in Cards : cards'[c].summoning =>
    \/ \E i \in 1 .. n : Window(units'[i], c)
    \/ \E k \in p + 1 .. Len(units) : Window(units[k], c)
MarksOf(p) ==
  \A c \in Cards : cards'[c].spsummon_step =>
    \/ c \in core'.special_summoning
    \/ \E i \in 1 .. Len(units') : Marked(units', i, c)
    \/ \E k \in p + 1 .. Len(units) : Marked(units, k, c)
BaresOf(p) ==
  \A c \in Cards : Bare(c)' =>
    \/ c \in core'.special_summoning
    \/ \E i \in 1 .. Len(units') : Pending(units', i, c)
    \/ \E k \in p + 1 .. Len(units) : Pending(units, k, c)
MarksFor(p, n) ==
  \A c \in Cards : cards'[c].spsummon_step =>
    \/ c \in core'.special_summoning
    \/ \E i \in 1 .. n : Grouped(units'[i], c)
    \/ \E k \in p + 1 .. Len(units) : Marked(units, k, c)
BaresFor(p, n) ==
  \A c \in Cards : Bare(c)' =>
    \/ c \in core'.special_summoning
    \/ \E i \in 1 .. n : Moved(units'[i], c)
    \/ \E k \in p + 1 .. Len(units) : Pending(units, k, c)
Mounts(us) ==
  us # <<>> /\ us[1].kind = "ToField" /\ us[1].target \notin Spells /\ ~us[1].facedown =>
    Len(us) > 1 /\ Mover(us[1], us[2])

LEMMA FlagsShift ==
  ASSUME NEW p, NEW n, Restacked(p, n), n > 0 => ~Queued(units'[n]),
         AsksFor(p, n), MarksOf(p), BaresOf(p), units' \in Seq(UnitType),
         Mounts(units')
  PROVE  Asked' /\ Stepped' /\ Faceup'
<1>0. /\ p \in 0 .. 1 /\ n \in Nat /\ Len(units) \in Nat /\ Len(units') = Len(units) - p + n
      /\ p <= Len(units)
  BY DEF Restacked
<1>1. \A i \in 1 .. n : i \in 1 .. Len(units') BY <1>0
<1>2. \A k \in p + 1 .. Len(units), c \in Cards :
        /\ k - p + n \in 1 .. Len(units') /\ units'[k - p + n] = units[k]
        /\ Marked(units, k, c) => Marked(units', k - p + n, c)
        /\ Pending(units, k, c) => Pending(units', k - p + n, c)
  BY MarksKept
<1>3. ASSUME NEW c \in Cards, cards'[c].summoning
      PROVE  \E k \in 1 .. Len(units') : Window(units'[k], c)
  <2>1. CASE \E i \in 1 .. n : Window(units'[i], c) BY <2>1, <1>1
  <2>2. CASE \E k \in p + 1 .. Len(units) : Window(units[k], c) BY <2>2, <1>2
  <2> QED BY <1>3, <2>1, <2>2 DEF AsksFor
<1>4. ASSUME NEW c \in Cards, cards'[c].spsummon_step, c \notin core'.special_summoning
      PROVE  \E k \in 1 .. Len(units') : Marked(units', k, c)
  <2>1. CASE \E i \in 1 .. Len(units') : Marked(units', i, c) BY <2>1
  <2>2. CASE \E k \in p + 1 .. Len(units) : Marked(units, k, c) BY <2>2, <1>2
  <2> QED BY <1>4, <2>1, <2>2 DEF MarksOf
<1>5. ASSUME NEW c \in Cards, Bare(c)', c \notin core'.special_summoning
      PROVE  \E k \in 1 .. Len(units') : Pending(units', k, c)
  <2>1. CASE \E i \in 1 .. Len(units') : Pending(units', i, c) BY <2>1
  <2>2. CASE \E k \in p + 1 .. Len(units) : Pending(units, k, c) BY <2>2, <1>2
  <2> QED BY <1>5, <2>1, <2>2 DEF BaresOf
<1>6. Asked' BY <1>3 DEF Asked
<1>7. Stepped' BY <1>4 DEF Stepped
<1>8. \A c \in Cards : Bare(c)' =>
        c \in core'.special_summoning \/ \E k \in 1 .. Len(units') : Pending(units', k, c)
  BY <1>5
<1>9. units' # <<>> => Front' = units'[1] BY DEF Front
<1>10. Faceup'
  <2>1. units' # <<>> /\ Front'.kind = "ToField" /\ Front'.target \notin Spells
          /\ ~Front'.facedown => Len(units') > 1 /\ Mover(Front', units'[2])
    BY <1>9 DEF Mounts
  <2>2. \A c \in Cards : Bare(c)' =>
          c \in core'.special_summoning \/ \E k \in 1 .. Len(units') : Pending(units, k, c)'
    BY <1>8 DEF Pending, Collects, Moved, QueuedFor, OwnerOf, Queued
  <2> QED BY <2>1, <2>2 DEF Faceup, Mover
<1> QED BY <1>6, <1>7, <1>10

LEMMA FlagsKept ==
  ASSUME NEW p, NEW n, Restacked(p, n), \A j \in 1 .. n : Free(units'[j]),
         AsksFor(p, n), MarksFor(p, n), BaresFor(p, n), units' \in Seq(UnitType),
         Mounts(units')
  PROVE  Asked' /\ Stepped' /\ Faceup'
<1>1. n > 0 => ~Queued(units'[n])
  <2>1. n \in Nat BY DEF Restacked
  <2>2. n > 0 => n \in 1 .. n BY <2>1
  <2> QED BY <2>2 DEF Queued, Free
<1>2. \A i \in 1 .. n : i \in 1 .. Len(units') BY DEF Restacked
<1>3. MarksOf(p) BY <1>2 DEF MarksFor, MarksOf, Marked
<1>4. BaresOf(p) BY <1>2 DEF BaresFor, BaresOf, Pending
<1> QED BY <1>1, <1>3, <1>4, FlagsShift

(* The cards that somebody below the front already saw to. *)
LEMMA Before ==
  ASSUME Types, Half, NEW p \in 0 .. 1, p <= Len(units), \A i \in 1 .. p : Free(units[i]),
         NEW c \in Cards
  PROVE  /\ cards[c].summoning /\ (p = 1 => ~Window(Front, c)) =>
              \E k \in p + 1 .. Len(units) : Window(units[k], c)
         /\ cards[c].spsummon_step /\ (p = 1 => ~Grouped(Front, c)) =>
              c \in core.special_summoning \/ \E k \in p + 1 .. Len(units) : Marked(units, k, c)
         /\ Bare(c) /\ (p = 1 => ~Moved(Front, c)) =>
              c \in core.special_summoning \/ \E k \in p + 1 .. Len(units) : Pending(units, k, c)
<1>0. Len(units) \in Nat /\ units \in Seq(UnitType) BY DEF Types
<1>1. p = 1 => Front = units[1] /\ Free(Front)
  <2>1. p = 1 => units # <<>> BY <1>0
  <2> QED BY <2>1, <1>0, Fronts
<1>2. \A k \in 1 .. Len(units) : k \in p + 1 .. Len(units) \/ (p = 1 /\ k = 1) BY <1>0
<1>3. p = 1 => /\ Marked(units, 1, c) => Grouped(Front, c)
               /\ Pending(units, 1, c) => Moved(Front, c)
  BY <1>1 DEF Marked, Pending, Collects, Free, Sends
<1>4. cards[c].summoning /\ (p = 1 => ~Window(Front, c)) =>
        \E k \in p + 1 .. Len(units) : Window(units[k], c)
  BY <1>1, <1>2 DEF Half, Asked
<1>5. cards[c].spsummon_step /\ (p = 1 => ~Grouped(Front, c)) =>
        c \in core.special_summoning \/ \E k \in p + 1 .. Len(units) : Marked(units, k, c)
  BY <1>2, <1>3 DEF Half, Stepped
<1>6. Bare(c) /\ (p = 1 => ~Moved(Front, c)) =>
        c \in core.special_summoning \/ \E k \in p + 1 .. Len(units) : Pending(units, k, c)
  BY <1>2, <1>3 DEF Half, Faceup
<1> QED BY <1>4, <1>5, <1>6

(* The front goes on as v. *)
Shows(v, n) ==
  /\ \A c \in Cards : cards'[c].summoning =>
       Window(v, c) \/ (cards[c].summoning /\ ~Window(Front, c))
  /\ \A c \in Cards : cards'[c].spsummon_step =>
       Grouped(v, c) \/ (cards[c].spsummon_step /\ ~Grouped(Front, c))
  /\ \A c \in Cards : Bare(c)' =>
       \/ Moved(v, c) \/ (Bare(c) /\ ~Moved(Front, c))
       \/ n > 0 /\ Moved(units'[1], c)
Levelled ==
  core'.special_summoning = core.special_summoning /\ core'.ss_tograve = core.ss_tograve

LEMMA HalfContinued ==
  ASSUME Types, Half, NEW v, NEW n, Continues(v, n), Free(Front), Free(v), Levelled,
         Shows(v, n), n > 0 \/ v.kind # "ToField",
         n > 0 => units'[1].kind # "ToField" \/ units'[1].target \in Spells
                  \/ units'[1].facedown \/ (n = 1 /\ Mover(units'[1], v))
  PROVE  Half'
<1>0. /\ units \in Seq(UnitType) /\ units # <<>> /\ n \in Nat
      /\ Restacked(1, n + 1) /\ units' \in Seq(UnitType) /\ units'[n + 1] = v
      /\ \A i \in 1 .. n : Brief(units'[i])
  BY DEF Types, Continues, New
<1>1. Front = units[1] /\ Len(units) \in Nat \ {0} /\ Len(units') \in Nat \ {0}
      /\ Len(units') >= n + 1
  BY <1>0, Fronts DEF Restacked
<1>2. \A i \in 1 .. n + 1 : i \in 1 .. n \/ i = n + 1 BY <1>0
<1>3. \A i \in 1 .. n + 1 : Free(units'[i])
  <2> TAKE i \in 1 .. n + 1
  <2>1. CASE i = n + 1 BY <2>1, <1>0
  <2>2. CASE i \in 1 .. n BY <2>2, <1>0 DEF Brief, Free, Sends, Opens
  <2> QED BY <2>1, <2>2, <1>2
<1>4. \A i \in 1 .. 1 : Free(units[i]) BY <1>1
<1>5. Frees(1, n + 1) BY <1>3, <1>4 DEF Frees, Levelled
<1>6. Owned' /\ Opened' BY <1>0, <1>5, OwnedFree DEF Half
<1>7. \A c \in Cards :
        /\ cards[c].summoning /\ ~Window(Front, c) =>
             \E k \in 1 + 1 .. Len(units) : Window(units[k], c)
        /\ cards[c].spsummon_step /\ ~Grouped(Front, c) =>
             c \in core.special_summoning \/ \E k \in 1 + 1 .. Len(units) : Marked(units, k, c)
        /\ Bare(c) /\ ~Moved(Front, c) =>
             c \in core.special_summoning \/ \E k \in 1 + 1 .. Len(units) : Pending(units, k, c)
  <2>1. 1 \in 0 .. 1 /\ 1 <= Len(units) BY <1>1
  <2> QED BY <2>1, <1>4, Before
<1>8. n + 1 \in 1 .. n + 1 /\ (n > 0 => 1 \in 1 .. n + 1) BY <1>0
<1>9. AsksFor(1, n + 1) /\ MarksFor(1, n + 1) /\ BaresFor(1, n + 1)
  <2>1. AsksFor(1, n + 1) BY <1>0, <1>7, <1>8 DEF AsksFor, Shows
  <2>2. MarksFor(1, n + 1) BY <1>0, <1>7, <1>8 DEF MarksFor, Shows, Levelled
  <2>3. BaresFor(1, n + 1) BY <1>0, <1>7, <1>8 DEF BaresFor, Shows, Levelled
  <2> QED BY <2>1, <2>2, <2>3
<1>10. Mounts(units')
  <2>1. n = 0 => units'[1] = v BY <1>0
  <2>2. n = 1 => units'[2] = v /\ Len(units') > 1 BY <1>0, <1>1
  <2>3. n = 0 \/ n > 0 BY <1>0
  <2> QED BY <2>1, <2>2, <2>3 DEF Mounts
<1> QED BY <1>0, <1>3, <1>6, <1>9, <1>10, FlagsKept DEF Half

(* The front is over. *)
LEMMA HalfEnded ==
  ASSUME Types, Half, Prompts, NEW n, Ends(n), Free(Front), Levelled,
         \A c \in Cards : cards'[c].summoning => cards[c].summoning /\ ~Window(Front, c),
         \A c \in Cards : cards'[c].spsummon_step => cards[c].spsummon_step /\ ~Grouped(Front, c),
         \A c \in Cards : Bare(c)' =>
           \/ Bare(c) /\ ~Moved(Front, c)
           \/ \E k \in 1 + 1 .. Len(units) : Pending(units, k, c)
           \/ n > 0 /\ Moved(units'[1], c),
         n > 0 => units'[1].kind # "ToField"
  PROVE  Half'
<1>0. /\ units \in Seq(UnitType) /\ units # <<>> /\ n \in Nat
      /\ Restacked(1, n) /\ units' \in Seq(UnitType)
      /\ \A i \in 1 .. n : Brief(units'[i])
  BY DEF Types, Ends, New
<1>1. Front = units[1] /\ Len(units) \in Nat \ {0} /\ Len(units') \in Nat
  BY <1>0, Fronts
<1>3. \A i \in 1 .. n : Free(units'[i]) BY <1>0 DEF Brief, Free, Sends, Opens
<1>4. \A i \in 1 .. 1 : Free(units[i]) BY <1>1
<1>5. Frees(1, n) BY <1>3, <1>4 DEF Frees, Levelled
<1>6. Owned' /\ Opened' BY <1>0, <1>5, OwnedFree DEF Half
<1>7. \A c \in Cards :
        /\ cards[c].summoning /\ ~Window(Front, c) =>
             \E k \in 1 + 1 .. Len(units) : Window(units[k], c)
        /\ cards[c].spsummon_step /\ ~Grouped(Front, c) =>
             c \in core.special_summoning \/ \E k \in 1 + 1 .. Len(units) : Marked(units, k, c)
        /\ Bare(c) /\ ~Moved(Front, c) =>
             c \in core.special_summoning \/ \E k \in 1 + 1 .. Len(units) : Pending(units, k, c)
  <2>1. 1 \in 0 .. 1 /\ 1 <= Len(units) BY <1>1
  <2> QED BY <2>1, <1>4, Before
<1>8. n > 0 => 1 \in 1 .. n BY <1>0
<1>9. AsksFor(1, n) /\ MarksFor(1, n) /\ BaresFor(1, n)
  <2>1. AsksFor(1, n) BY <1>7 DEF AsksFor
  <2>2. MarksFor(1, n) BY <1>7 DEF MarksFor, Levelled
  <2>3. BaresFor(1, n) BY <1>7, <1>8 DEF BaresFor, Levelled
  <2> QED BY <2>1, <2>2, <2>3
<1>10. Mounts(units')
  <2>1. n = 0 /\ units' # <<>> => units'[1].kind # "ToField"
    <3> SUFFICES ASSUME n = 0, units' # <<>> PROVE units'[1].kind # "ToField" OBVIOUS
    <3>1. 1 \in 1 .. Len(units') BY <1>0, <1>1, EmptySeq
    <3>2. 2 \in 2 .. Len(units) /\ units'[1] = units[2] BY <3>1, <1>0 DEF Restacked
    <3> QED BY <3>2 DEF Prompts, Prompt
  <2>2. n = 0 \/ n > 0 BY <1>0
  <2> QED BY <2>1, <2>2 DEF Mounts
<1> QED BY <1>0, <1>3, <1>6, <1>9, <1>10, FlagsKept DEF Half

LEMMA HalfStarted ==
  ASSUME Types, Half, NEW u, Entry(u), Free(u), Started1(u), Levelled, cards' = cards
  PROVE  Half'
<1>0. /\ units \in Seq(UnitType) /\ Restacked(0, 1) /\ units' \in Seq(UnitType)
      /\ units'[1] = u /\ Len(units) \in Nat
  BY DEF Types, Started1
<1>1. \A i \in 1 .. 1 : Free(units'[i]) BY <1>0
<1>2. \A i \in 1 .. 0 : Free(units[i]) OBVIOUS
<1>3. Frees(0, 1) BY <1>1, <1>2 DEF Frees, Levelled
<1>4. Owned' /\ Opened' BY <1>0, <1>3, OwnedFree DEF Half
<1>5. \A c \in Cards :
        /\ cards[c].summoning => \E k \in 0 + 1 .. Len(units) : Window(units[k], c)
        /\ cards[c].spsummon_step =>
             c \in core.special_summoning \/ \E k \in 0 + 1 .. Len(units) : Marked(units, k, c)
        /\ Bare(c) =>
             c \in core.special_summoning \/ \E k \in 0 + 1 .. Len(units) : Pending(units, k, c)
  BY <1>0, <1>2, Before
<1>6. AsksFor(0, 1) /\ MarksFor(0, 1) /\ BaresFor(0, 1)
  <2>1. AsksFor(0, 1) BY <1>5 DEF AsksFor
  <2>2. MarksFor(0, 1) BY <1>5 DEF MarksFor, Levelled
  <2>3. BaresFor(0, 1) BY <1>5 DEF BaresFor, Levelled, Bare
  <2> QED BY <2>1, <2>2, <2>3
<1>7. Mounts(units') BY <1>0 DEF Mounts, Entry, Prompt
<1> QED BY <1>0, <1>1, <1>4, <1>6, <1>7, FlagsKept DEF Half

LEMMA HalfStill ==
  ASSUME Types, Half, units' = units, Levelled,
         \A c \in Cards : /\ cards'[c].summoning => cards[c].summoning
                          /\ cards'[c].spsummon_step => cards[c].spsummon_step
                          /\ Bare(c)' => Bare(c)
  PROVE  Half'
<1>1. Owned' BY DEF Half, Owned, Own, OwnerOf, Queued
<1>2. Opened' BY DEF Half, Opened, Loose, Opens, Sends, Levelled
<1>3. Asked' BY DEF Half, Asked
<1>4. Stepped' BY DEF Half, Stepped, Levelled
<1>5. Faceup'
  <2>1. Front' = Front BY DEF Front
  <2>2. \A c \in Cards : Bare(c)' =>
          c \in core'.special_summoning \/ \E k \in 1 .. Len(units) : Pending(units, k, c)
    BY DEF Half, Faceup, Levelled
  <2>3. \A c \in Cards, k \in 1 .. Len(units) : Pending(units, k, c)' <=> Pending(units, k, c)
    BY DEF Pending, Collects, QueuedFor, OwnerOf, Queued, Moved
  <2>4. \A c \in Cards : Bare(c)' =>
          c \in core'.special_summoning \/ \E k \in 1 .. Len(units') : Pending(units, k, c)'
    BY <2>2, <2>3
  <2>5. units' # <<>> /\ Front'.kind = "ToField" /\ Front'.target \notin Spells /\ ~Front'.facedown =>
          Len(units') > 1 /\ Mover(Front', units'[2])
    BY <2>1 DEF Half, Faceup
  <2> QED BY <2>4, <2>5 DEF Faceup, Mover
<1> QED BY <1>1, <1>2, <1>3, <1>4, <1>5 DEF Half

-----------------------------------------------------------------------------
(* The zones of the spells. *)

(* Nothing moves to or from a zone, and no group is set. *)
Calm ==
  /\ core'.szone = core.szone /\ core'.pre_set = core.pre_set /\ core'.set = core.set
  /\ core'.used_zones = core.used_zones /\ core'.seq = core.seq
  /\ seen.left \subseteq seen'.left
  /\ \A c \in Cards :
       /\ cards'[c].loc = "SZONE" <=> cards[c].loc = "SZONE"
       /\ cards'[c].seq = cards[c].seq
Other(u) == u.kind \notin {"SetGroup", "SSet"}

LEMMA CalmLaid ==
  ASSUME Laid(core, cards, seen.left), Calm
  PROVE  Laid(core', cards', seen'.left)
BY DEF Laid, Calm

LEMMA CalmSeats ==
  ASSUME Types, Seats(core, cards, seen.left), Calm
  PROVE  Seats(core', cards', seen'.left)
<1>1. \A i : Nth(core', i) = Nth(core, i) BY DEF Nth, Calm
<1>2. Ranks(core') = Ranks(core) BY DEF Ranks, Calm
<1>3. \A i \in 1 .. Len(core.set) : core.set[i] \in Cards
  <2>1. core.set \in Seq(Spells) /\ Spells \subseteq Cards
    BY ConstantsAssumption DEF Types, CoreType
  <2> QED BY <2>1
<1>4. \A i \in 1 .. Len(core'.set) : Placed(cards', seen'.left, core'.set[i])
  BY <1>3 DEF Calm, Seats, Placed
<1>5. /\ core'.seq = core.seq /\ core'.set = core.set /\ core'.pre_set = core.pre_set
      /\ core'.used_zones = core.used_zones /\ core'.szone = core.szone
  BY DEF Calm
<1>6. /\ Len(core'.seq) = Len(core'.set) + Len(core'.pre_set)
      /\ \A i, k \in Ranks(core) : Nth(core', i) = Nth(core', k) => i = k
      /\ \A i \in Ranks(core) : core'.seq[i] = 5 <=> Nth(core', i) \in FieldSpells
      /\ \A i, k \in Ranks(core) : core'.seq[i] = core'.seq[k] /\ core'.seq[i] # 5 => i = k
  <2>1. /\ Len(core'.seq) = Len(core'.set) + Len(core'.pre_set)
        /\ \A i, k \in Ranks(core) : core'.seq[i] = core'.seq[k] /\ core'.seq[i] # 5 => i = k
    BY <1>5 DEF Seats
  <2>2. /\ \A i, k \in Ranks(core) : Nth(core, i) = Nth(core, k) => i = k
        /\ \A i \in Ranks(core) : core.seq[i] = 5 <=> Nth(core, i) \in FieldSpells
    BY DEF Seats
  <2> QED BY <1>1, <1>5, <2>1, <2>2
<1>7. /\ \A q \in core'.used_zones \ {5} :
           core'.szone[q] = None /\ \E i \in Ranks(core) : core'.seq[i] = q
      /\ \A i \in Ranks(core) : core'.seq[i] # 5 /\ core'.szone[core'.seq[i]] # None =>
           \E k \in Ranks(core) :
             Nth(core', k) = core'.szone[core'.seq[i]] /\ Nth(core', k) \notin FieldSpells
  <2>1. /\ \A q \in core.used_zones \ {5} :
             core.szone[q] = None /\ \E i \in Ranks(core) : core.seq[i] = q
        /\ \A i \in Ranks(core) : core.seq[i] # 5 /\ core.szone[core.seq[i]] # None =>
             \E k \in Ranks(core) :
               Nth(core, k) = core.szone[core.seq[i]] /\ Nth(core, k) \notin FieldSpells
    BY DEF Seats
  <2> QED BY <1>1, <1>5, <2>1
<1> QED BY <1>2, <1>4, <1>6, <1>7 DEF Seats

LEMMA ZonesFrame ==
  ASSUME Types, Zones, Prompts, NEW p, NEW n, Restacked(p, n), units' \in Seq(UnitType), Calm,
         \A i \in 1 .. n : Other(units'[i]),
         \A i \in 1 .. p : Other(units[i]) /\ ~Lays(units[i]),
         n > 0 => ~Lays(units'[1]), p = 0 /\ units # <<>> => ~Lays(units[1])
  PROVE  Zones'
<1>0. /\ p \in 0 .. 1 /\ n \in Nat /\ Len(units) \in Nat /\ Len(units') = Len(units) - p + n
      /\ \A i \in p + 1 .. Len(units) :
           i - p + n \in 1 .. Len(units') /\ units'[i - p + n] = units[i]
      /\ \A k \in 1 .. Len(units') :
           k <= n \/ (k - n + p \in p + 1 .. Len(units) /\ units'[k] = units[k - n + p])
      /\ p <= Len(units)
  BY DEF Restacked
<1>1. \A i \in 1 .. Len(units') : ~Other(units'[i]) =>
        i - n + p \in p + 1 .. Len(units) /\ units'[i] = units[i - n + p]
  BY <1>0
<1>2. Lone(units')
  <2>1. ASSUME NEW i \in 1 .. Len(units'), NEW k \in 1 .. Len(units'),
               units'[i].kind = "SetGroup", units'[k].kind = "SetGroup"
        PROVE  i = k
    <3>1. /\ i - n + p \in p + 1 .. Len(units) /\ units'[i] = units[i - n + p]
          /\ k - n + p \in p + 1 .. Len(units) /\ units'[k] = units[k - n + p]
      BY <1>1, <2>1 DEF Other
    <3>2. i - n + p \in 1 .. Len(units) /\ k - n + p \in 1 .. Len(units) BY <3>1, <1>0
    <3>3. i - n + p = k - n + p BY <2>1, <3>1, <3>2 DEF Zones, Lone
    <3> QED BY <3>3, <1>0
  <2>2. ASSUME NEW i \in 1 .. Len(units'), units'[i].kind = "SSet"
        PROVE  i = Len(units')
    <3>1. i - n + p \in p + 1 .. Len(units) /\ units'[i] = units[i - n + p]
      BY <1>1, <2>2 DEF Other
    <3>2. i - n + p \in 1 .. Len(units) BY <3>1, <1>0
    <3>3. i - n + p = Len(units) BY <2>2, <3>1, <3>2 DEF Zones, Lone
    <3> QED BY <3>3, <1>0
  <2> QED BY <2>1, <2>2 DEF Lone
<1>3. units' # <<>> => ~Lays(units'[1])
  <2> SUFFICES ASSUME units' # <<>> PROVE ~Lays(units'[1]) OBVIOUS
  <2>1. 1 \in 1 .. Len(units') BY EmptySeq
  <2>2. CASE n > 0 BY <2>2
  <2>3. CASE n = 0 /\ p = 0
    <3>1. 1 \in 0 + 1 .. Len(units) /\ units'[1] = units[1] /\ Len(units) # 0
      BY <2>1, <2>3, <1>0
    <3>2. units # <<>> BY <3>1
    <3> QED BY <3>1, <3>2, <2>3
  <2>4. CASE n = 0 /\ p = 1
    <3>1. 2 \in 2 .. Len(units) /\ units'[1] = units[2] BY <2>1, <2>4, <1>0
    <3> QED BY <3>1 DEF Prompts, Prompt, Lays
  <2> QED BY <2>2, <2>3, <2>4, <1>0
<1>4. ASSUME NEW i \in 1 .. Len(units'), Setter(units'[i])
      PROVE  Seats(core', cards', seen'.left) /\ Seating(units', core', cards', seen'.left, i)
  <2>1. i - n + p \in p + 1 .. Len(units) /\ units'[i] = units[i - n + p]
    BY <1>1, <1>4 DEF Other, Setter
  <2>2. PICK h \in 1 .. Len(units) : h = i - n + p /\ units'[i] = units[h] BY <2>1, <1>0
  <2>3. Seats(core, cards, seen.left) /\ Seating(units, core, cards, seen.left, h)
    BY <2>2, <1>4 DEF Zones, Grouping
  <2>4. Seats(core', cards', seen'.left) BY <2>3, CalmSeats
  <2>5. /\ core'.pre_set = core.pre_set /\ core'.set = core.set
        /\ core'.used_zones = core.used_zones /\ core'.seq = core.seq
        /\ Unset(core') = Unset(core) /\ Ranks(core') = Ranks(core)
    BY DEF Calm, Unset, Ranks
  <2>6. units[h].step = 4 => Placed(cards', seen'.left, Head(core.pre_set))
    <3> SUFFICES ASSUME units[h].step = 4
                 PROVE  Placed(cards', seen'.left, Head(core.pre_set))
      OBVIOUS
    <3>1. ~(h = 2 /\ Lays(units[1]))
      <4> SUFFICES ASSUME h = 2, Lays(units[1]) PROVE FALSE OBVIOUS
      <4>1. p = 0 /\ units # <<>>
        <5>1. 1 \in 1 .. p \/ p = 0 BY <1>0
        <5> QED BY <5>1, <2>2
      <4> QED BY <4>1
    <3>2. Placed(cards, seen.left, Head(core.pre_set)) /\ core.pre_set # <<>>
      BY <2>3, <3>1 DEF Seating
    <3>3. Head(core.pre_set) \in Cards
      <4>1. core.pre_set \in Seq(Spells) /\ Spells \subseteq Cards
        BY ConstantsAssumption DEF Types, CoreType
      <4> QED BY <4>1, <3>2, HeadTailProperties
    <3> QED BY <3>2, <3>3 DEF Placed, Calm
  <2>8. /\ units'[i].step \in {3, 4} => core'.pre_set # <<>>
        /\ units'[i].step = 1 =>
             /\ core'.set = <<>>
             /\ \A k \in 1 .. Len(core'.pre_set) : core'.pre_set[k] \notin units'[i].rest
             /\ \A k \in Ranks(core') : core'.seq[k] \in core'.used_zones
        /\ units'[i].step = 6 => core'.pre_set = <<>>
    BY <2>2, <2>3, <2>5 DEF Seating
  <2>9. Cardinality(core'.used_zones \ {5}) =
          Cardinality(IF units'[i].step = 4 THEN Unset(core') \ {Head(core'.pre_set)}
                      ELSE Unset(core'))
    BY <2>2, <2>3, <2>5 DEF Seating
  <2> QED BY <2>2, <2>4, <2>5, <2>6, <2>8, <2>9 DEF Seating
<1>5. Laid(core', cards', seen'.left) BY CalmLaid DEF Zones
<1>6. Seater(units', core') BY <1>3 DEF Seater
<1>7. Grouping(units', core', cards', seen'.left) BY <1>4 DEF Grouping
<1> QED BY <1>2, <1>5, <1>6, <1>7 DEF Zones

-----------------------------------------------------------------------------
(* The invariant, and a step of the front. *)

IInv == Types /\ Control /\ Half /\ Zones

LEMMA TypesKept ==
  ASSUME Types, NEW p, NEW n, Restacked(p, n), units' \in Seq(UnitType),
         \A i \in 1 .. n : Sane(units'[i]),
         CardsOK(cards'), core' \in CoreType, seen' \in SeenType, setting' = setting
  PROVE  Types'
<1>1. \A i \in 1 .. Len(units') : Sane(units'[i])
  <2> TAKE i \in 1 .. Len(units')
  <2>1. /\ n \in Nat /\ Len(units) \in Nat /\ p \in 0 .. 1
        /\ i <= n \/ (i - n + p \in p + 1 .. Len(units) /\ units'[i] = units[i - n + p])
    BY DEF Restacked
  <2>2. CASE i <= n BY <2>1, <2>2
  <2>3. CASE ~(i <= n)
    <3>1. PICK k \in 1 .. Len(units) : units'[i] = units[k] BY <2>1, <2>3
    <3> QED BY <3>1 DEF Types
  <2> QED BY <2>2, <2>3
<1> QED BY <1>1 DEF Types, CardsOK

LEMMA FrontTypes ==
  ASSUME IInv, units # <<>>
  PROVE  /\ Front \in UnitType /\ Sane(Front) /\ Front = units[1] /\ units \in Seq(UnitType)
         /\ Front.kind \in Kinds /\ Front.step \in Nat /\ Front.target \in Members
         /\ Front.group \subseteq Members /\ Front.rest \subseteq Cards
<1>1. units \in Seq(UnitType) BY DEF IInv, Types
<1>2. Front \in UnitType /\ Front = units[1] /\ Len(units) \in Nat \ {0} BY <1>1, Fronts
<1>3. Sane(Front) BY <1>2 DEF IInv, Types
<1> QED BY <1>1, <1>2, <1>3 DEF UnitType

DataOK == CardsOK(cards') /\ core' \in CoreType /\ seen' \in SeenType
Keeps(u) == Free(u) /\ Other(u)

LEMMA GoesOn ==
  ASSUME IInv, NEW v, NEW n, Continues(v, n), Sane(v), Keeps(Front), Keeps(v), ~Lays(Front),
         Follows(Front, v, n), v.kind # "ToField",
         DataOK, Apart, Levelled, Calm, core'.summon_count = core.summon_count \/ Limited',
         core'.summon_depth = core.summon_depth - One(Active(Front)) + One(Active(v)),
         Tallies(One(Counting(v)) - One(Counting(Front))), Shows(v, n),
         n > 0 => ~Lays(units'[1]),
         n > 0 => units'[1].kind # "ToField" \/ units'[1].facedown \/ (n = 1 /\ Mover(units'[1], v))
  PROVE  IInv'
<1>0. /\ n \in Nat /\ Restacked(1, n + 1) /\ units' \in Seq(UnitType) /\ units'[n + 1] = v
      /\ units # <<>> /\ \A i \in 1 .. n : Brief(units'[i])
  BY DEF Continues, New
<1>1. \A i \in 1 .. n + 1 : i \in 1 .. n \/ i = n + 1 BY <1>0
<1>2. Types'
  <2>1. \A i \in 1 .. n + 1 : Sane(units'[i]) BY <1>0, <1>1 DEF Brief
  <2> QED BY <2>1, <1>0, TypesKept DEF IInv, DataOK, Apart
<1>3. Control' BY ControlContinued DEF IInv
<1>4. Half' BY HalfContinued DEF IInv, Keeps
<1>5. Zones'
  <2>1. \A i \in 1 .. n + 1 : Other(units'[i]) BY <1>0, <1>1 DEF Keeps, Brief, Other
  <2>2. Front = units[1] BY <1>0, FrontTypes
  <2>3. \A i \in 1 .. 1 : Other(units[i]) /\ ~Lays(units[i]) BY <2>2 DEF Keeps
  <2>4. n + 1 > 0 => ~Lays(units'[1]) BY <1>0 DEF Lays
  <2> QED BY <2>1, <2>3, <2>4, <1>0, ZonesFrame DEF IInv, Control
<1> QED BY <1>2, <1>3, <1>4, <1>5 DEF IInv

LEMMA IsOver ==
  ASSUME IInv, NEW n, Ends(n), Keeps(Front), ~Lays(Front), Leaves(Front, n),
         DataOK, Apart, Levelled, Calm, core'.summon_count = core.summon_count,
         core'.summon_depth = core.summon_depth - One(Active(Front)),
         Tallies(0 - One(Counting(Front))),
         \A c \in Cards : cards'[c].summoning => cards[c].summoning /\ ~Window(Front, c),
         \A c \in Cards : cards'[c].spsummon_step => cards[c].spsummon_step /\ ~Grouped(Front, c),
         \A c \in Cards : Bare(c)' =>
           \/ Bare(c) /\ ~Moved(Front, c)
           \/ \E k \in 1 + 1 .. Len(units) : Pending(units, k, c)
           \/ n > 0 /\ Moved(units'[1], c),
         n > 0 => units'[1].kind # "ToField"
  PROVE  IInv'
<1>0. /\ n \in Nat /\ Restacked(1, n) /\ units' \in Seq(UnitType)
      /\ units # <<>> /\ \A i \in 1 .. n : Brief(units'[i])
  BY DEF Ends, New
<1>2. Types'
  <2>1. \A i \in 1 .. n : Sane(units'[i]) BY <1>0 DEF Brief
  <2> QED BY <2>1, <1>0, TypesKept DEF IInv, DataOK, Apart
<1>3. Control' BY ControlEnded DEF IInv
<1>4. Half' BY HalfEnded DEF IInv, Keeps, Control
<1>5. Zones'
  <2>1. \A i \in 1 .. n : Other(units'[i]) BY <1>0 DEF Brief, Other
  <2>2. Front = units[1] BY <1>0, FrontTypes
  <2>3. \A i \in 1 .. 1 : Other(units[i]) /\ ~Lays(units[i]) BY <2>2 DEF Keeps
  <2>4. n > 0 => ~Lays(units'[1]) BY DEF Lays
  <2> QED BY <2>1, <2>3, <2>4, <1>0, ZonesFrame DEF IInv, Control
<1> QED BY <1>2, <1>3, <1>4, <1>5 DEF IInv
=============================================================================
