----------------------------- MODULE MovesProofs -----------------------------
(* Proofs about Moves, for any cards, any duels and any number of acts.
   Effects act in the middle of most units, so the stack has no bounded
   height: the invariant says what the units on it will still do to the
   cards, and the lemmas are about putting units on a sound stack, letting
   one go on, and taking targets away from one in the middle. *)
EXTENDS Moves, FiniteSetTheorems, TLAPS

-----------------------------------------------------------------------------
(* What the units and cards are. *)

Reasons == [kind : Kinds, act : Nat, flags : SUBSET Flags]
CardRecords ==
  [loc : Locations, controler : {0, 1}, facedown : BOOLEAN, dest : Piles,
   confirmed : BOOLEAN, reason : Reasons, temp : Reasons,
   equiping_target : Cards \cup {None}, overlay_target : Cards \cup {None}]

DestroyRecords ==
  [kind : {"Destroy"}, step : {0, 1, 2, 3, 4, 5, 10, 11, 12}, targets : SUBSET Cards,
   reason : Reasons]
DestroyUnits ==
  {u \in DestroyRecords : u.reason.kind = "BATTLE" => u.step \notin {0, 1, 2}}
BattleUnits == [kind : {"Battle"}, step : {29, 30, 33}, targets : SUBSET Cards]
ReleaseUnits ==
  [kind : {"Release"}, step : {0, 1, 2, 3, 4}, targets : SUBSET Cards, reason : Reasons]
SendRecords ==
  [kind : {"SendTo"}, step : {0, 1, 2, 3, 5, 10, 11}, targets : SUBSET Cards,
   reason : Reasons, cv : SUBSET Cards, leave : SUBSET Cards]
SendUnits ==
  {u \in SendRecords :
     /\ u.cv \subseteq u.targets
     /\ u.step \in {0, 1, 2, 3} => u.cv = {}}
AskUnits == [kind : {"Ask"}, step : {0, 10}, target : Cards]
ReplaceUnits ==
  {u \in [kind : {"Replace"}, step : {0, 3, 5, 8, 10, 12, 15},
          target : Cards \cup {None}] :
     u.step \in {0, 10} => u.target # None}
FieldUnits ==
  [kind : {"ToField"}, step : {0, 1, 3}, target : Cards, playerid : {0, 1},
   location : OnField, facedown : BOOLEAN]
PosUnits == [kind : {"Pos"}, step : {0, 5}, targets : SUBSET Cards]
ControlUnits ==
  [kind : {"Control"}, step : {0, 3, 5, 6, 7}, targets : SUBSET Cards,
   rest : SUBSET Cards, destroy_set : SUBSET Cards]
EquipUnits ==
  [kind : {"Equip"}, step : {0, 1, 2, 3}, equip_card : Equips, target : Cards]
OverlayUnits ==
  {u \in [kind : {"Xyz"}, step : {0, 1, 2}, target : Cards,
          materials : SUBSET (Cards \ Tokens), to_grave : BOOLEAN] :
     u.target \notin u.materials}
DetachUnits == [kind : {"Detach"}, step : {2, 4}]
EffectUnits == [kind : {"Effect"}, step : {0}]

Units ==
  DestroyUnits \cup BattleUnits \cup ReleaseUnits \cup SendUnits \cup AskUnits
  \cup ReplaceUnits \cup FieldUnits \cup PosUnits \cup ControlUnits \cup EquipUnits
  \cup OverlayUnits \cup DetachUnits \cup EffectUnits

CardTyped(x, c) ==
  /\ x \in CardRecords
  /\ (x.loc = "OVERLAY") = (x.overlay_target # None)
  /\ c \in Tokens => x.overlay_target = None
CardsTyped(f) == f \in [Cards -> CardRecords] /\ \A c \in Cards : CardTyped(f[c], c)

Typed ==
  /\ units \in Seq(Units)
  /\ CardsTyped(cards)
  /\ destroy_canceled \subseteq Cards /\ battle_destroy_rep \subseteq Cards
  /\ operated_set \subseteq Cards /\ left \subseteq Cards /\ loose \subseteq Cards
  /\ desrep_chain \in Nat /\ returns \in BOOLEAN /\ acts \in Nat
  /\ setting \in AllSettings

(* The stack.  Below a unit that asks for replacements, or has found one,
   there are only such units down to the one whose targets they look at. *)
Asks(u) == u.kind = "Ask" \/ (u.kind = "Replace" /\ u.step # 15)
Owns(u) ==
  \/ /\ u.kind = "Destroy" /\ u.step \in {1, 2, 11, 12}
  \/ /\ u.kind \in {"Release", "SendTo"} /\ u.step \in {1, 2}
Fits(a, u) ==
  IF a.step \in {10, 12} THEN u.kind = "Destroy" /\ u.step \in {11, 12}
  ELSE u.step \in {1, 2}
OwnerAt(s, i, j) ==
  /\ j \in i + 1 .. Len(s) /\ Owns(s[j]) /\ Fits(s[i], s[j])
  /\ \A k \in i + 1 .. j - 1 : Asks(s[k])
Owned(s) ==
  \A i \in 1 .. Len(s) : Asks(s[i]) => \E j \in 1 .. Len(s) : OwnerAt(s, i, j)

(* A battle is at the bottom, and what destroys its losers right above it,
   or there when it is over. *)
Fights(u) ==
  \/ u.kind = "Battle"
  \/ /\ u.kind = "Destroy"
     /\ u.step \in 10 .. 12 \/ u.reason.kind = "BATTLE"
Fought(s, i) ==
  IF s[i].kind = "Destroy" /\ s[i].step \in 10 .. 12
  THEN /\ Len(s) = i + 1
       /\ s[i + 1].kind = "Battle" /\ s[i + 1].step = 29 /\ s[i + 1].targets = {}
  ELSE i = Len(s)
AtBottom(s) == \A i \in 1 .. Len(s) : Fights(s[i]) => Fought(s, i)

(* The status: which cards a unit will take it off, or has taken. *)
Claim(u) ==
  IF \/ /\ u.kind = "Destroy" /\ u.step \in 0 .. 4 /\ u.reason.kind # "BATTLE"
     \/ /\ u.kind = "Destroy" /\ u.step \in 10 .. 12
     \/ /\ u.kind = "Battle" /\ u.step \in {29, 30}
  THEN u.targets ELSE {}
Held(s, c) == \E i \in 1 .. Len(s) : c \in Claim(s[i])
Clears(u) == u.kind = "Destroy" /\ u.step \in {1, 2, 11, 12}
Clearing(s) == \E i \in 1 .. Len(s) : Clears(s[i])
Status ==
  \A c \in Cards :
    cards[c].confirmed =>
      \/ c \in left \/ Held(units, c)
      \/ c \in destroy_canceled /\ Clearing(units)

(* As long as nothing is replaced, no two units have the same card. *)
Apart(s) ==
  \A i, j \in 1 .. Len(s) : i # j => Claim(s[i]) \cap Claim(s[j]) = {}
Unreplaced(s) == \A i \in 1 .. Len(s) : s[i].kind = "Replace" => s[i].step = 15
Asked(s) ==
  \A i, j \in 1 .. Len(s) :
    s[i].kind = "Ask" /\ OwnerAt(s, i, j) =>
      /\ s[i].target \in s[j].targets
      /\ \A k \in i + 1 .. j - 1 : s[k].kind = "Ask" /\ s[k].target # s[i].target
Sole ==
  NothingReplaced =>
    /\ destroy_canceled = {} /\ battle_destroy_rep = {}
    /\ Apart(units) /\ Unreplaced(units) /\ Asked(units)
    /\ \A c \in Cards : Held(units, c) => cards[c].confirmed

(* What is attached: equips are taken off by SendTo when it is done with
   them or their monster, materials are sent to the grave by one of theirs. *)
Leaving(u) == IF u.kind = "SendTo" /\ u.step \in {5, 10} THEN u.targets ELSE {}
Leaves(s, c) == \E i \in 1 .. Len(s) : c \in Leaving(s[i])
Equipped ==
  \A c \in Cards \ loose :
    cards[c].equiping_target # None =>
      /\ cards[c].loc = "SZONE" \/ Leaves(units, c)
      /\ Carries(cards[c].equiping_target) \/ Leaves(units, cards[c].equiping_target)

Falling(u) ==
  IF u.kind # "SendTo" THEN {}
  ELSE IF u.step = 5 THEN u.cv
  ELSE IF u.step \in {1, 2, 3} \/ (u.step = 0 /\ u.reason.kind = "RULE") THEN u.targets
  ELSE {}
Falls(s, c) == \E i \in 1 .. Len(s) : c \in Falling(s[i])
Overlaid ==
  NothingReplaced =>
    \A c \in Cards \ loose :
      LET t == cards[c].overlay_target IN
      t # None => cards[t].loc = "MZONE" \/ Leaves(units, t) \/ Falls(units, c)

Stacked == Owned(units) /\ AtBottom(units)
MovesInvariant == Typed /\ Stacked /\ Status /\ Sole /\ Equipped /\ Overlaid

-----------------------------------------------------------------------------
(* The operators of stacks. *)

(* Units put on a stack. *)
LEMMA OnTop ==
  ASSUME NEW a \in Seq(Units), NEW b \in Seq(Units)
  PROVE  /\ a \o b \in Seq(Units) /\ Len(a \o b) = Len(a) + Len(b)
         /\ \A i \in 1 .. Len(a) : (a \o b)[i] = a[i]
         /\ \A i \in 1 .. Len(b) : (a \o b)[Len(a) + i] = b[i]
  OBVIOUS

LEMMA OnTopEach ==
  ASSUME NEW a \in Seq(Units), NEW b \in Seq(Units), NEW i \in 1 .. Len(a \o b)
  PROVE  \/ /\ i \in 1 .. Len(a) /\ (a \o b)[i] = a[i]
         \/ /\ i - Len(a) \in 1 .. Len(b) /\ (a \o b)[i] = b[i - Len(a)]
  OBVIOUS

(* What is said of some unit of a stack. *)
LEMMA SomeOnTop ==
  ASSUME NEW a \in Seq(Units), NEW b \in Seq(Units)
  PROVE  /\ \A c : Held(a \o b, c) <=> Held(a, c) \/ Held(b, c)
         /\ \A c : Leaves(a \o b, c) <=> Leaves(a, c) \/ Leaves(b, c)
         /\ \A c : Falls(a \o b, c) <=> Falls(a, c) \/ Falls(b, c)
         /\ Clearing(a \o b) <=> Clearing(a) \/ Clearing(b)
<1>1. /\ Len(a \o b) = Len(a) + Len(b) /\ Len(a) \in Nat /\ Len(b) \in Nat
      /\ \A i \in 1 .. Len(a) : i \in 1 .. Len(a \o b) /\ (a \o b)[i] = a[i]
      /\ \A i \in 1 .. Len(b) :
           Len(a) + i \in 1 .. Len(a \o b) /\ (a \o b)[Len(a) + i] = b[i]
  BY OnTop
<1>2. \A i \in 1 .. Len(a \o b) :
        \/ i \in 1 .. Len(a) /\ (a \o b)[i] = a[i]
        \/ i - Len(a) \in 1 .. Len(b) /\ (a \o b)[i] = b[i - Len(a)]
  BY OnTopEach
<1>3. \A c : Held(a \o b, c) <=> Held(a, c) \/ Held(b, c) BY <1>1, <1>2, Zenon DEF Held
<1>4. \A c : Leaves(a \o b, c) <=> Leaves(a, c) \/ Leaves(b, c)
  BY <1>1, <1>2, Zenon DEF Leaves
<1>5. \A c : Falls(a \o b, c) <=> Falls(a, c) \/ Falls(b, c)
  BY <1>1, <1>2, Zenon DEF Falls
<1>6. Clearing(a \o b) <=> Clearing(a) \/ Clearing(b) BY <1>1, <1>2, Zenon DEF Clearing
<1> QED BY <1>3, <1>4, <1>5, <1>6

LEMMA SomeOfOne ==
  ASSUME NEW u \in Units
  PROVE  /\ <<u>> \in Seq(Units)
         /\ \A c : Held(<<u>>, c) <=> c \in Claim(u)
         /\ \A c : Leaves(<<u>>, c) <=> c \in Leaving(u)
         /\ \A c : Falls(<<u>>, c) <=> c \in Falling(u)
         /\ Clearing(<<u>>) <=> Clears(u)
<1>1. Len(<<u>>) = 1 /\ <<u>>[1] = u /\ <<u>> \in Seq(Units) OBVIOUS
<1>2. 1 .. 1 = {1} OBVIOUS
<1> QED BY <1>1, <1>2 DEF Held, Leaves, Falls, Clearing

LEMMA SomeOfNone ==
  /\ << >> \in Seq(Units)
  /\ \A c : ~Held(<< >>, c) /\ ~Leaves(<< >>, c) /\ ~Falls(<< >>, c)
  /\ ~Clearing(<< >>) /\ Owned(<< >>) /\ AtBottom(<< >>) /\ Apart(<< >>)
  /\ Unreplaced(<< >>) /\ Asked(<< >>)
BY DEF Held, Leaves, Falls, Clearing, Owned, AtBottom, Apart, Unreplaced, Asked

(* A stack is its front on the rest. *)
LEMMA FrontOnRest ==
  ASSUME NEW s \in Seq(Units), s # << >>
  PROVE  /\ Head(s) \in Units /\ Tail(s) \in Seq(Units) /\ Head(s) = s[1]
         /\ Len(Tail(s)) = Len(s) - 1 /\ Len(s) >= 1
         /\ \A i \in 1 .. Len(Tail(s)) : Tail(s)[i] = s[i + 1]
         /\ s = <<Head(s)>> \o Tail(s)
  OBVIOUS

LEMMA SomeOfStack ==
  ASSUME NEW s \in Seq(Units), s # << >>
  PROVE  /\ \A c : Held(s, c) <=> c \in Claim(Head(s)) \/ Held(Tail(s), c)
         /\ \A c : Leaves(s, c) <=> c \in Leaving(Head(s)) \/ Leaves(Tail(s), c)
         /\ \A c : Falls(s, c) <=> c \in Falling(Head(s)) \/ Falls(Tail(s), c)
         /\ Clearing(s) <=> Clears(Head(s)) \/ Clearing(Tail(s))
<1> DEFINE h == Head(s)  t == Tail(s)
<1>1. h \in Units /\ t \in Seq(Units) /\ s = <<h>> \o t BY FrontOnRest
<1> HIDE DEF h, t
<1>2. <<h>> \in Seq(Units) BY <1>1
<1>3. /\ \A c : Held(s, c) <=> Held(<<h>>, c) \/ Held(t, c)
      /\ \A c : Leaves(s, c) <=> Leaves(<<h>>, c) \/ Leaves(t, c)
      /\ \A c : Falls(s, c) <=> Falls(<<h>>, c) \/ Falls(t, c)
      /\ Clearing(s) <=> Clearing(<<h>>) \/ Clearing(t)
  BY <1>1, <1>2, SomeOnTop
<1>4. /\ \A c : Held(s, c) <=> c \in Claim(h) \/ Held(t, c)
      /\ \A c : Leaves(s, c) <=> c \in Leaving(h) \/ Leaves(t, c)
      /\ \A c : Falls(s, c) <=> c \in Falling(h) \/ Falls(t, c)
      /\ Clearing(s) <=> Clears(h) \/ Clearing(t)
  BY <1>1, <1>3, SomeOfOne, Zenon
<1> QED BY <1>4 DEF h, t

(* Asks whose owner is below them. *)
Dangles(s, x) ==
  \E j \in 1 .. Len(s) :
    Owns(s[j]) /\ Fits(x, s[j]) /\ \A k \in 1 .. j - 1 : Asks(s[k])

LEMMA OwnedOnTop ==
  ASSUME NEW a \in Seq(Units), NEW b \in Seq(Units), Owned(b),
         \A i \in 1 .. Len(a) :
           Asks(a[i]) => Dangles(b, a[i]) /\ \A k \in i .. Len(a) : Asks(a[k])
  PROVE  Owned(a \o b)
<1> DEFINE s == a \o b
<1>1. /\ s \in Seq(Units) /\ Len(s) = Len(a) + Len(b) /\ Len(a) \in Nat /\ Len(b) \in Nat
      /\ \A i \in 1 .. Len(a) : s[i] = a[i]
      /\ \A i \in 1 .. Len(b) : s[Len(a) + i] = b[i]
  BY OnTop
<1> HIDE DEF s
<1>2. SUFFICES ASSUME NEW i \in 1 .. Len(s), Asks(s[i])
               PROVE  \E j \in 1 .. Len(s) : OwnerAt(s, i, j)
  BY DEF Owned, s
<1>3. CASE i \in 1 .. Len(a)
  <2>1. Asks(a[i]) /\ Dangles(b, a[i]) /\ \A k \in i .. Len(a) : Asks(a[k])
    BY <1>1, <1>2, <1>3
  <2>2. PICK j \in 1 .. Len(b) :
          Owns(b[j]) /\ Fits(a[i], b[j]) /\ \A k \in 1 .. j - 1 : Asks(b[k])
    BY <2>1 DEF Dangles
  <2>3. \A k \in i + 1 .. Len(a) + j - 1 : Asks(s[k])
    <3> TAKE k \in i + 1 .. Len(a) + j - 1
    <3>1. CASE k \in 1 .. Len(a) BY <1>1, <1>3, <2>1, <3>1
    <3>2. CASE k \notin 1 .. Len(a)
      <4>1. k - Len(a) \in 1 .. j - 1 /\ Len(a) + (k - Len(a)) = k BY <1>1, <1>3, <3>2
      <4>2. s[k] = b[k - Len(a)] BY <1>1, <4>1
      <4> QED BY <2>2, <4>1, <4>2
    <3> QED BY <3>1, <3>2
  <2>4. Len(a) + j \in i + 1 .. Len(s) /\ s[Len(a) + j] = b[j] /\ s[i] = a[i]
    BY <1>1, <1>3
  <2> QED BY <1>1, <2>2, <2>3, <2>4 DEF OwnerAt
<1>4. CASE i \notin 1 .. Len(a)
  <2> DEFINE m == i - Len(a)
  <2>1. m \in 1 .. Len(b) /\ i = Len(a) + m /\ s[i] = b[m] BY <1>1, <1>4
  <2> HIDE DEF m
  <2>2. PICK j \in 1 .. Len(b) : OwnerAt(b, m, j) BY <1>2, <2>1 DEF Owned
  <2>3. \A k \in i + 1 .. Len(a) + j - 1 : Asks(s[k])
    <3> TAKE k \in i + 1 .. Len(a) + j - 1
    <3>1. k - Len(a) \in m + 1 .. j - 1 /\ Len(a) + (k - Len(a)) = k
          /\ k - Len(a) \in 1 .. Len(b)
      BY <1>1, <2>1
    <3> QED BY <1>1, <2>2, <3>1 DEF OwnerAt
  <2>4. Len(a) + j \in i + 1 .. Len(s) /\ s[Len(a) + j] = b[j]
    BY <1>1, <2>1, <2>2 DEF OwnerAt
  <2>5. OwnerAt(s, i, Len(a) + j) BY <2>1, <2>2, <2>3, <2>4 DEF OwnerAt
  <2> QED BY <1>1, <2>4, <2>5
<1> QED BY <1>3, <1>4

LEMMA OwnedRest ==
  ASSUME NEW s \in Seq(Units), s # << >>, Owned(s)
  PROVE  Owned(Tail(s)) /\ (Asks(Head(s)) => Dangles(Tail(s), Head(s)))
<1> DEFINE t == Tail(s)
<1>1. /\ t \in Seq(Units) /\ Len(t) = Len(s) - 1 /\ Len(s) \in Nat /\ Len(s) >= 1
      /\ \A i \in 1 .. Len(t) : t[i] = s[i + 1]
      /\ Head(s) = s[1]
  BY FrontOnRest
<1> HIDE DEF t
<1>2. Owned(t)
  <2> SUFFICES ASSUME NEW i \in 1 .. Len(t), Asks(t[i])
               PROVE  \E j \in 1 .. Len(t) : OwnerAt(t, i, j)
    BY DEF Owned
  <2>1. PICK j \in 1 .. Len(s) : OwnerAt(s, i + 1, j) BY <1>1 DEF Owned
  <2>2. j - 1 \in i + 1 .. Len(t) /\ t[j - 1] = s[j] /\ t[i] = s[i + 1]
    BY <1>1, <2>1 DEF OwnerAt
  <2>3. \A k \in i + 1 .. (j - 1) - 1 : Asks(t[k])
    <3> TAKE k \in i + 1 .. (j - 1) - 1
    <3>1. k + 1 \in (i + 1) + 1 .. j - 1 /\ t[k] = s[k + 1] BY <1>1, <2>2
    <3> QED BY <2>1, <3>1 DEF OwnerAt
  <2> QED BY <1>1, <2>1, <2>2, <2>3 DEF OwnerAt
<1>3. ASSUME Asks(Head(s)) PROVE Dangles(t, Head(s))
  <2>1. PICK j \in 1 .. Len(s) : OwnerAt(s, 1, j) BY <1>1, <1>3 DEF Owned
  <2>2. j - 1 \in 1 .. Len(t) /\ t[j - 1] = s[j] BY <1>1, <2>1 DEF OwnerAt
  <2>3. \A k \in 1 .. (j - 1) - 1 : Asks(t[k])
    <3> TAKE k \in 1 .. (j - 1) - 1
    <3>1. k + 1 \in 1 + 1 .. j - 1 /\ t[k] = s[k + 1] BY <1>1, <2>2
    <3> QED BY <2>1, <3>1 DEF OwnerAt
  <2> QED BY <1>1, <2>1, <2>2, <2>3 DEF OwnerAt, Dangles
<1> QED BY <1>2, <1>3 DEF t

LEMMA BottomOnTop ==
  ASSUME NEW a \in Seq(Units), NEW b \in Seq(Units), AtBottom(b),
         \A i \in 1 .. Len(a) : ~Fights(a[i])
  PROVE  AtBottom(a \o b)
<1> DEFINE s == a \o b
<1>1. /\ s \in Seq(Units) /\ Len(s) = Len(a) + Len(b) /\ Len(a) \in Nat /\ Len(b) \in Nat
      /\ \A i \in 1 .. Len(a) : s[i] = a[i]
      /\ \A i \in 1 .. Len(b) : s[Len(a) + i] = b[i]
  BY OnTop
<1> HIDE DEF s
<1>2. SUFFICES ASSUME NEW i \in 1 .. Len(s), Fights(s[i]) PROVE Fought(s, i)
  BY DEF AtBottom, s
<1>3. i - Len(a) \in 1 .. Len(b) /\ s[i] = b[i - Len(a)] /\ Fought(b, i - Len(a))
  <2>1. i \notin 1 .. Len(a) BY <1>1, <1>2
  <2>2. i - Len(a) \in 1 .. Len(b) /\ Len(a) + (i - Len(a)) = i BY <1>1, <2>1
  <2>3. s[i] = b[i - Len(a)] BY <1>1, <2>2
  <2> QED BY <1>2, <2>2, <2>3 DEF AtBottom
<1>4. i + 1 <= Len(s) => s[i + 1] = b[(i - Len(a)) + 1]
  <2> SUFFICES ASSUME i + 1 <= Len(s) PROVE s[i + 1] = b[(i - Len(a)) + 1] OBVIOUS
  <2>1. (i - Len(a)) + 1 \in 1 .. Len(b) /\ Len(a) + ((i - Len(a)) + 1) = i + 1
    BY <1>1, <1>3
  <2> QED BY <1>1, <2>1
<1>5. CASE s[i].kind = "Destroy" /\ s[i].step \in 10 .. 12
  <2>1. Len(b) = (i - Len(a)) + 1 BY <1>3, <1>5 DEF Fought
  <2>2. Len(s) = i + 1 BY <1>1, <2>1
  <2> QED BY <1>3, <1>4, <1>5, <2>2 DEF Fought
<1>6. CASE ~(s[i].kind = "Destroy" /\ s[i].step \in 10 .. 12)
  BY <1>1, <1>3, <1>6 DEF Fought
<1> QED BY <1>5, <1>6

LEMMA BottomRest ==
  ASSUME NEW s \in Seq(Units), s # << >>, AtBottom(s)
  PROVE  /\ AtBottom(Tail(s))
         /\ Fights(Head(s)) =>
              IF Head(s).kind = "Destroy" /\ Head(s).step \in 10 .. 12
              THEN /\ Len(Tail(s)) = 1 /\ Tail(s)[1].kind = "Battle"
                   /\ Tail(s)[1].step = 29 /\ Tail(s)[1].targets = {}
              ELSE Tail(s) = << >>
<1> DEFINE t == Tail(s)
<1>1. /\ t \in Seq(Units) /\ Len(t) = Len(s) - 1 /\ Len(s) \in Nat /\ Len(s) >= 1
      /\ \A i \in 1 .. Len(t) : t[i] = s[i + 1]
      /\ Head(s) = s[1]
  BY FrontOnRest
<1> HIDE DEF t
<1>2. ASSUME NEW i \in 1 .. Len(t), Fights(t[i]) PROVE Fought(t, i)
  <2>1. t[i] = s[i + 1] /\ Fought(s, i + 1) BY <1>1, <1>2 DEF AtBottom
  <2>2. i + 1 <= Len(t) => t[i + 1] = s[(i + 1) + 1] BY <1>1
  <2> QED BY <1>1, <2>1, <2>2 DEF Fought
<1>3. ASSUME Fights(Head(s))
      PROVE  IF Head(s).kind = "Destroy" /\ Head(s).step \in 10 .. 12
             THEN /\ Len(t) = 1 /\ t[1].kind = "Battle"
                  /\ t[1].step = 29 /\ t[1].targets = {}
             ELSE t = << >>
  <2>1. Fought(s, 1) BY <1>1, <1>3 DEF AtBottom
  <2> QED BY <1>1, <2>1 DEF Fought
<1> QED BY <1>2, <1>3 DEF t, AtBottom

LEMMA ApartOnTop ==
  ASSUME NEW a \in Seq(Units), NEW b \in Seq(Units), Apart(a), Apart(b),
         \A c : ~(Held(a, c) /\ Held(b, c))
  PROVE  Apart(a \o b)
<1> DEFINE s == a \o b
<1>1. /\ s \in Seq(Units) /\ Len(s) = Len(a) + Len(b) /\ Len(a) \in Nat /\ Len(b) \in Nat
      /\ \A i \in 1 .. Len(a) : s[i] = a[i]
      /\ \A i \in 1 .. Len(s) :
           \/ i \in 1 .. Len(a) /\ s[i] = a[i]
           \/ i - Len(a) \in 1 .. Len(b) /\ s[i] = b[i - Len(a)]
  BY OnTop, OnTopEach
<1> HIDE DEF s
<1>2. SUFFICES ASSUME NEW i \in 1 .. Len(s), NEW j \in 1 .. Len(s), i # j,
                      NEW c, c \in Claim(s[i]), c \in Claim(s[j])
               PROVE  FALSE
  BY DEF Apart, s
<1>3. CASE i \in 1 .. Len(a) /\ s[i] = a[i] /\ j \in 1 .. Len(a) /\ s[j] = a[j]
  BY <1>2, <1>3 DEF Apart
<1>4. CASE /\ i \in 1 .. Len(a) /\ s[i] = a[i]
           /\ j - Len(a) \in 1 .. Len(b) /\ s[j] = b[j - Len(a)]
  BY <1>2, <1>4 DEF Held
<1>5. CASE /\ j \in 1 .. Len(a) /\ s[j] = a[j]
           /\ i - Len(a) \in 1 .. Len(b) /\ s[i] = b[i - Len(a)]
  BY <1>2, <1>5 DEF Held
<1>6. CASE /\ j - Len(a) \in 1 .. Len(b) /\ s[j] = b[j - Len(a)]
           /\ i - Len(a) \in 1 .. Len(b) /\ s[i] = b[i - Len(a)]
  <2>1. i - Len(a) # j - Len(a) BY <1>1, <1>2
  <2> QED BY <1>2, <1>6, <2>1 DEF Apart
<1> QED BY <1>1, <1>3, <1>4, <1>5, <1>6

LEMMA ApartRest ==
  ASSUME NEW s \in Seq(Units), s # << >>, Apart(s)
  PROVE  /\ Apart(Tail(s))
         /\ \A c : ~(c \in Claim(Head(s)) /\ Held(Tail(s), c))
<1> DEFINE t == Tail(s)
<1>1. /\ t \in Seq(Units) /\ Len(t) = Len(s) - 1 /\ Len(s) \in Nat /\ Len(s) >= 1
      /\ \A i \in 1 .. Len(t) : t[i] = s[i + 1]
      /\ Head(s) = s[1]
  BY FrontOnRest
<1> HIDE DEF t
<1>2. Apart(t)
  <2> SUFFICES ASSUME NEW i \in 1 .. Len(t), NEW j \in 1 .. Len(t), i # j
               PROVE  Claim(t[i]) \cap Claim(t[j]) = {}
    BY DEF Apart
  <2>1. i + 1 \in 1 .. Len(s) /\ j + 1 \in 1 .. Len(s) /\ i + 1 # j + 1 BY <1>1
  <2> QED BY <1>1, <2>1 DEF Apart
<1>3. ASSUME NEW c, c \in Claim(Head(s)), Held(t, c) PROVE FALSE
  <2>1. PICK i \in 1 .. Len(t) : c \in Claim(t[i]) BY <1>3 DEF Held
  <2>2. i + 1 \in 1 .. Len(s) /\ 1 \in 1 .. Len(s) /\ 1 # i + 1 BY <1>1
  <2> QED BY <1>1, <1>3, <2>1, <2>2 DEF Apart
<1> QED BY <1>2, <1>3 DEF t

LEMMA UnreplacedOnTop ==
  ASSUME NEW a \in Seq(Units), NEW b \in Seq(Units), Unreplaced(a), Unreplaced(b)
  PROVE  Unreplaced(a \o b)
<1> SUFFICES ASSUME NEW i \in 1 .. Len(a \o b), (a \o b)[i].kind = "Replace"
             PROVE  (a \o b)[i].step = 15
  BY DEF Unreplaced
<1>1. \/ i \in 1 .. Len(a) /\ (a \o b)[i] = a[i]
      \/ i - Len(a) \in 1 .. Len(b) /\ (a \o b)[i] = b[i - Len(a)]
  BY OnTopEach
<1> QED BY <1>1 DEF Unreplaced

LEMMA UnreplacedRest ==
  ASSUME NEW s \in Seq(Units), s # << >>, Unreplaced(s)
  PROVE  Unreplaced(Tail(s)) /\ (Head(s).kind = "Replace" => Head(s).step = 15)
BY FrontOnRest DEF Unreplaced

(* An owner is the first below, so that there is only one. *)
LEMMA OneOwner ==
  ASSUME NEW s \in Seq(Units), NEW i \in 1 .. Len(s), NEW j, NEW k,
         OwnerAt(s, i, j), OwnerAt(s, i, k)
  PROVE  j = k
<1>1. \A u : ~(Asks(u) /\ Owns(u)) BY DEF Asks, Owns
<1>2. j \in i + 1 .. Len(s) /\ k \in i + 1 .. Len(s) /\ Owns(s[j]) /\ Owns(s[k])
  BY DEF OwnerAt
<1>3. ~(j < k)
  <2> SUFFICES ASSUME j < k PROVE FALSE OBVIOUS
  <2>1. j \in i + 1 .. k - 1 BY <1>2
  <2> QED BY <1>1, <1>2, <2>1 DEF OwnerAt
<1>4. ~(k < j)
  <2> SUFFICES ASSUME k < j PROVE FALSE OBVIOUS
  <2>1. k \in i + 1 .. j - 1 BY <1>2
  <2> QED BY <1>1, <1>2, <2>1 DEF OwnerAt
<1> QED BY <1>2, <1>3, <1>4

(* Units on a stack, those of them that ask being sure of their owner. *)
LEMMA AskedOnTopEach ==
  ASSUME NEW a \in Seq(Units), NEW b \in Seq(Units), Asked(b),
         \A i \in 1 .. Len(a), j \in 1 .. Len(a \o b) :
           a[i].kind = "Ask" /\ OwnerAt(a \o b, i, j) =>
             /\ (a \o b)[i].target \in (a \o b)[j].targets
             /\ \A k \in i + 1 .. j - 1 :
                  (a \o b)[k].kind = "Ask" /\ (a \o b)[k].target # (a \o b)[i].target
  PROVE  Asked(a \o b)
<1> DEFINE s == a \o b
<1>1. /\ s \in Seq(Units) /\ Len(s) = Len(a) + Len(b) /\ Len(a) \in Nat /\ Len(b) \in Nat
      /\ \A i \in 1 .. Len(a) : s[i] = a[i]
      /\ \A i \in 1 .. Len(b) : s[Len(a) + i] = b[i]
  BY OnTop
<1>0. \A i \in 1 .. Len(a), j \in 1 .. Len(s) :
        a[i].kind = "Ask" /\ OwnerAt(s, i, j) =>
          /\ s[i].target \in s[j].targets
          /\ \A k \in i + 1 .. j - 1 : s[k].kind = "Ask" /\ s[k].target # s[i].target
  OBVIOUS
<1> HIDE DEF s
<1>2. SUFFICES ASSUME NEW i \in 1 .. Len(s), NEW j \in 1 .. Len(s),
                      s[i].kind = "Ask", OwnerAt(s, i, j)
               PROVE  /\ s[i].target \in s[j].targets
                      /\ \A k \in i + 1 .. j - 1 :
                           s[k].kind = "Ask" /\ s[k].target # s[i].target
  BY DEF Asked, s
<1> DEFINE m == i - Len(a)  n == j - Len(a)
<1>3. SUFFICES ASSUME i \notin 1 .. Len(a)
               PROVE  /\ s[i].target \in s[j].targets
                      /\ \A k \in i + 1 .. j - 1 :
                           s[k].kind = "Ask" /\ s[k].target # s[i].target
  BY <1>0, <1>1, <1>2, Zenon
<1>4. /\ m \in 1 .. Len(b) /\ Len(a) + m = i /\ s[i] = b[m]
      /\ n \in m + 1 .. Len(b) /\ Len(a) + n = j
  BY <1>1, <1>2, <1>3 DEF OwnerAt
<1> HIDE DEF m, n
<1>5. s[j] = b[n] BY <1>1, <1>4
<1>6. ASSUME NEW k \in m + 1 .. n - 1
      PROVE  /\ Len(a) + k \in i + 1 .. j - 1 /\ k \in 1 .. Len(b)
             /\ s[Len(a) + k] = b[k]
  <2>1. Len(a) + k \in i + 1 .. j - 1 /\ k \in 1 .. Len(b) BY <1>1, <1>4
  <2> QED BY <1>1, <2>1
<1>7. OwnerAt(b, m, n) BY <1>2, <1>4, <1>5, <1>6 DEF OwnerAt
<1>8. /\ b[m].target \in b[n].targets
      /\ \A k \in m + 1 .. n - 1 : b[k].kind = "Ask" /\ b[k].target # b[m].target
  BY <1>2, <1>4, <1>7 DEF Asked
<1>9. ASSUME NEW k \in i + 1 .. j - 1
      PROVE  s[k].kind = "Ask" /\ s[k].target # s[i].target
  <2>1. k - Len(a) \in m + 1 .. n - 1 /\ Len(a) + (k - Len(a)) = k BY <1>1, <1>4
  <2>2. s[k] = b[k - Len(a)] BY <1>6, <2>1
  <2> QED BY <1>4, <1>8, <2>1, <2>2
<1> QED BY <1>4, <1>5, <1>8, <1>9

(* Units that ask for nothing, on a stack. *)
LEMMA AskedOnTop ==
  ASSUME NEW a \in Seq(Units), NEW b \in Seq(Units), Asked(b),
         \A i \in 1 .. Len(a) : a[i].kind # "Ask"
  PROVE  Asked(a \o b)
BY AskedOnTopEach

LEMMA AskedRest ==
  ASSUME NEW s \in Seq(Units), s # << >>, Asked(s)
  PROVE  Asked(Tail(s))
<1> DEFINE t == Tail(s)
<1>1. /\ t \in Seq(Units) /\ Len(t) = Len(s) - 1 /\ Len(s) \in Nat /\ Len(s) >= 1
      /\ \A i \in 1 .. Len(t) : t[i] = s[i + 1]
  BY FrontOnRest
<1> HIDE DEF t
<1>2. SUFFICES ASSUME NEW i \in 1 .. Len(t), NEW j \in 1 .. Len(t),
                      t[i].kind = "Ask", OwnerAt(t, i, j)
               PROVE  /\ t[i].target \in t[j].targets
                      /\ \A k \in i + 1 .. j - 1 :
                           t[k].kind = "Ask" /\ t[k].target # t[i].target
  BY DEF Asked, t
<1>3. t[i] = s[i + 1] /\ t[j] = s[j + 1] /\ j + 1 \in (i + 1) + 1 .. Len(s)
      /\ i + 1 \in 1 .. Len(s) /\ j + 1 \in 1 .. Len(s)
  BY <1>1, <1>2 DEF OwnerAt
<1>4. ASSUME NEW k \in (i + 1) + 1 .. (j + 1) - 1
      PROVE  k - 1 \in i + 1 .. j - 1 /\ k - 1 \in 1 .. Len(t) /\ t[k - 1] = s[k]
  BY <1>1, <1>3
<1>5. OwnerAt(s, i + 1, j + 1) BY <1>2, <1>3, <1>4 DEF OwnerAt
<1>6. /\ s[i + 1].target \in s[j + 1].targets
      /\ \A k \in (i + 1) + 1 .. (j + 1) - 1 :
           s[k].kind = "Ask" /\ s[k].target # s[i + 1].target
  BY <1>2, <1>3, <1>5 DEF Asked
<1>7. ASSUME NEW k \in i + 1 .. j - 1
      PROVE  t[k].kind = "Ask" /\ t[k].target # t[i].target
  <2>1. k + 1 \in (i + 1) + 1 .. (j + 1) - 1 /\ t[k] = s[k + 1] BY <1>1, <1>3
  <2> QED BY <1>3, <1>6, <2>1
<1> QED BY <1>3, <1>6, <1>7

-----------------------------------------------------------------------------
(* Stacks that units are put on. *)

Rest == IF units = << >> THEN << >> ELSE Tail(units)
Stands(s) == Owned(s) /\ AtBottom(s)
Bare(s) == Apart(s) /\ Unreplaced(s) /\ Asked(s)

(* Units that neither look at the targets of one below nor fight. *)
Plain(s) ==
  s \in Seq(Units) /\ \A i \in 1 .. Len(s) : ~Asks(s[i]) /\ ~Fights(s[i])

LEMMA RestFacts ==
  ASSUME Typed, Stacked
  PROVE  /\ Rest \in Seq(Units) /\ Stands(Rest)
         /\ Bare(units) => Bare(Rest)
         /\ \A c : Held(Rest, c) => Held(units, c)
         /\ units # << >> =>
              /\ Front \in Units /\ Rest = Tail(units)
              /\ \A c : Held(units, c) <=> c \in Claim(Front) \/ Held(Rest, c)
              /\ \A c : Leaves(units, c) <=> c \in Leaving(Front) \/ Leaves(Rest, c)
              /\ \A c : Falls(units, c) <=> c \in Falling(Front) \/ Falls(Rest, c)
              /\ Clearing(units) <=> Clears(Front) \/ Clearing(Rest)
              /\ Bare(units) => \A c : ~(c \in Claim(Front) /\ Held(Rest, c))
              /\ Asks(Front) => Dangles(Rest, Front)
         /\ units = << >> => Rest = << >>
<1>1. CASE units = << >> BY <1>1, SomeOfNone DEF Rest, Stands, Bare
<1>2. CASE units # << >>
  <2>1. units \in Seq(Units) /\ Owned(units) /\ AtBottom(units) BY DEF Typed, Stacked
  <2>2. Front \in Units /\ Rest = Tail(units) /\ Rest \in Seq(Units)
    BY <1>2, <2>1, FrontOnRest DEF Rest, Front
  <2>3. Stands(Rest) /\ (Asks(Front) => Dangles(Rest, Front))
    BY <1>2, <2>1, <2>2, OwnedRest, BottomRest DEF Stands, Front
  <2>4. Bare(units) => Bare(Rest) /\ \A c : ~(c \in Claim(Front) /\ Held(Rest, c))
    BY <1>2, <2>1, <2>2, ApartRest, UnreplacedRest, AskedRest DEF Bare, Front
  <2>5. /\ \A c : Held(units, c) <=> c \in Claim(Front) \/ Held(Rest, c)
        /\ \A c : Leaves(units, c) <=> c \in Leaving(Front) \/ Leaves(Rest, c)
        /\ \A c : Falls(units, c) <=> c \in Falling(Front) \/ Falls(Rest, c)
        /\ Clearing(units) <=> Clears(Front) \/ Clearing(Rest)
    BY <1>2, <2>1, <2>2, SomeOfStack DEF Front
  <2> HIDE DEF Rest
  <2> QED BY <1>2, <2>2, <2>3, <2>4, <2>5
<1> QED BY <1>1, <1>2

LEMMA PlainNone == Plain(<< >>)
BY DEF Plain

LEMMA PlainOne ==
  ASSUME NEW u \in Units, ~Asks(u), ~Fights(u)
  PROVE  Plain(<<u>>)
BY DEF Plain

LEMMA PlainBoth ==
  ASSUME NEW a, NEW b, Plain(a), Plain(b)
  PROVE  Plain(a \o b)
<1>1. a \in Seq(Units) /\ b \in Seq(Units) BY DEF Plain
<1>2. a \o b \in Seq(Units) BY <1>1
<1>3. ASSUME NEW i \in 1 .. Len(a \o b)
      PROVE  ~Asks((a \o b)[i]) /\ ~Fights((a \o b)[i])
  <2>1. \/ i \in 1 .. Len(a) /\ (a \o b)[i] = a[i]
        \/ i - Len(a) \in 1 .. Len(b) /\ (a \o b)[i] = b[i - Len(a)]
    BY <1>1, OnTopEach
  <2> QED BY <2>1 DEF Plain
<1> QED BY <1>2, <1>3 DEF Plain

LEMMA PlainStands ==
  ASSUME NEW b, NEW t \in Seq(Units), Plain(b), Stands(t)
  PROVE  Stands(b \o t)
BY OwnedOnTop, BottomOnTop DEF Plain, Stands

LEMMA PlainBare ==
  ASSUME NEW b, NEW t \in Seq(Units), Plain(b), Apart(b), Bare(t),
         \A c : ~(Held(b, c) /\ Held(t, c))
  PROVE  Bare(b \o t)
<1>1. b \in Seq(Units) /\ \A i \in 1 .. Len(b) : b[i].kind # "Ask" BY DEF Plain, Asks
<1>2. Unreplaced(b) BY DEF Plain, Asks, Unreplaced
<1> QED BY <1>1, <1>2, ApartOnTop, UnreplacedOnTop, AskedOnTop DEF Bare

LEMMA ApartOne ==
  ASSUME NEW u \in Units
  PROVE  Apart(<<u>>)
BY DEF Apart

(* One unit goes on in the place of another. *)
LEMMA GoesOn ==
  ASSUME Typed, Stacked, units # << >>, NEW u \in Units, ~Asks(u),
         Fights(u) =>
           /\ Fights(Front)
           /\ (u.kind = "Destroy" /\ u.step \in 10 .. 12) <=>
                (Front.kind = "Destroy" /\ Front.step \in 10 .. 12)
  PROVE  /\ <<u>> \o Rest \in Seq(Units) /\ Stands(<<u>> \o Rest)
         /\ \A c : Held(<<u>> \o Rest, c) <=> c \in Claim(u) \/ Held(Rest, c)
         /\ \A c : Leaves(<<u>> \o Rest, c) <=> c \in Leaving(u) \/ Leaves(Rest, c)
         /\ \A c : Falls(<<u>> \o Rest, c) <=> c \in Falling(u) \/ Falls(Rest, c)
         /\ Clearing(<<u>> \o Rest) <=> Clears(u) \/ Clearing(Rest)
         /\ Bare(units) /\ (\A c \in Claim(u) : ~Held(Rest, c)) => Bare(<<u>> \o Rest)
<1>1. Rest \in Seq(Units) /\ Stands(Rest) /\ <<u>> \in Seq(Units) /\ (Bare(units) => Bare(Rest))
  BY RestFacts
<1>2. <<u>> \o Rest \in Seq(Units) BY <1>1
<1>3. /\ \A c : Held(<<u>> \o Rest, c) <=> c \in Claim(u) \/ Held(Rest, c)
      /\ \A c : Leaves(<<u>> \o Rest, c) <=> c \in Leaving(u) \/ Leaves(Rest, c)
      /\ \A c : Falls(<<u>> \o Rest, c) <=> c \in Falling(u) \/ Falls(Rest, c)
      /\ Clearing(<<u>> \o Rest) <=> Clears(u) \/ Clearing(Rest)
  BY <1>1, SomeOnTop, SomeOfOne, Zenon
<1>4. Owned(<<u>> \o Rest)
  <2>1. \A i \in 1 .. Len(<<u>>) : ~Asks(<<u>>[i]) OBVIOUS
  <2> QED BY <1>1, <2>1, OwnedOnTop DEF Stands
<1>5. AtBottom(<<u>> \o Rest)
  <2>1. CASE ~Fights(u)
    <3>1. \A i \in 1 .. Len(<<u>>) : ~Fights(<<u>>[i]) BY <2>1
    <3> QED BY <1>1, <3>1, BottomOnTop DEF Stands
  <2>2. CASE Fights(u)
    <3> DEFINE s == <<u>> \o Rest
    <3>1. /\ s \in Seq(Units) /\ Len(s) = 1 + Len(Rest) /\ s[1] = u
          /\ Len(Rest) \in Nat
          /\ \A i \in 1 .. Len(Rest) : s[1 + i] = Rest[i]
      BY <1>1
    <3>2. /\ Front.kind = "Destroy" /\ Front.step \in 10 .. 12 =>
               /\ Len(Rest) = 1 /\ Rest[1].kind = "Battle"
               /\ Rest[1].step = 29 /\ Rest[1].targets = {}
          /\ ~(Front.kind = "Destroy" /\ Front.step \in 10 .. 12) => Rest = << >>
      BY <2>2, BottomRest, RestFacts DEF Typed, Stacked, Front
    <3> HIDE DEF s
    <3>3. ASSUME NEW i \in 1 .. Len(s), Fights(s[i]) PROVE Fought(s, i)
      <4>1. CASE Front.kind = "Destroy" /\ Front.step \in 10 .. 12
        <5>1. Len(s) = 2 /\ s[1] = u /\ s[2] = Rest[1] BY <3>1, <3>2, <4>1
        <5>2. u.kind = "Destroy" /\ u.step \in 10 .. 12 BY <2>2, <4>1
        <5>3. s[2].kind = "Battle" /\ s[2].step = 29 /\ s[2].targets = {}
          BY <3>2, <4>1, <5>1
        <5>4. i = 1 \/ i = 2 BY <5>1
        <5> QED BY <5>1, <5>2, <5>3, <5>4 DEF Fought
      <4>2. CASE ~(Front.kind = "Destroy" /\ Front.step \in 10 .. 12)
        <5>1. Len(s) = 1 /\ s[1] = u BY <3>1, <3>2, <4>2
        <5>2. ~(u.kind = "Destroy" /\ u.step \in 10 .. 12) BY <2>2, <4>2
        <5>3. i = 1 BY <5>1
        <5> QED BY <5>1, <5>2, <5>3 DEF Fought
      <4> QED BY <4>1, <4>2
    <3> QED BY <3>3 DEF s, AtBottom
  <2> QED BY <2>1, <2>2
<1>6. Bare(units) /\ (\A c \in Claim(u) : ~Held(Rest, c)) => Bare(<<u>> \o Rest)
  <2> SUFFICES ASSUME Bare(units), \A c \in Claim(u) : ~Held(Rest, c)
               PROVE  Bare(<<u>> \o Rest)
    OBVIOUS
  <2>1. Bare(Rest) /\ Apart(<<u>>) /\ \A c : ~(Held(<<u>>, c) /\ Held(Rest, c))
    BY <1>1, ApartOne, SomeOfOne, Zenon
  <2>2. /\ \A i \in 1 .. Len(<<u>>) : <<u>>[i].kind # "Ask"
        /\ Unreplaced(<<u>>)
    BY DEF Asks, Unreplaced
  <2> QED BY <1>1, <2>1, <2>2, ApartOnTop, UnreplacedOnTop, AskedOnTop DEF Bare
<1> QED BY <1>2, <1>3, <1>4, <1>5, <1>6 DEF Stands

(* What plain units do: D is destroyed, and F falls. *)
Does(b, D, F) ==
  /\ Plain(b) /\ Apart(b) /\ ~Clearing(b)
  /\ \A c : (Held(b, c) <=> c \in D) /\ (Falls(b, c) <=> c \in F) /\ ~Leaves(b, c)

LEMMA DoesNothing == Does(<< >>, {}, {})
BY SomeOfNone, PlainNone DEF Does

LEMMA DoesOne ==
  ASSUME NEW u \in Units, ~Asks(u), ~Fights(u), ~Clears(u), Leaving(u) = {}
  PROVE  Does(<<u>>, Claim(u), Falling(u))
BY SomeOfOne, PlainOne, ApartOne DEF Does

LEMMA DoesBoth ==
  ASSUME NEW a, NEW b, NEW D, NEW E, NEW F, NEW G, Does(a, D, F), Does(b, E, G),
         D \cap E = {}
  PROVE  Does(a \o b, D \cup E, F \cup G)
<1>1. a \in Seq(Units) /\ b \in Seq(Units) /\ Plain(a \o b) BY PlainBoth DEF Does, Plain
<1>2. /\ \A c : (Held(a \o b, c) <=> c \in D \cup E)
      /\ \A c : (Falls(a \o b, c) <=> c \in F \cup G)
      /\ \A c : ~Leaves(a \o b, c)
      /\ ~Clearing(a \o b)
  BY <1>1, SomeOnTop DEF Does
<1>3. Apart(a \o b) BY <1>1, ApartOnTop DEF Does
<1> QED BY <1>1, <1>2, <1>3 DEF Does

(* A step in which a unit goes on and others come before it. *)
Followed(b, u, D, F) ==
  /\ units' \in Seq(Units) /\ Stacked'
  /\ \A c : Held(units', c) <=> c \in D \/ c \in Claim(u) \/ Held(Rest, c)
  /\ \A c : Leaves(units', c) <=> c \in Leaving(u) \/ Leaves(Rest, c)
  /\ \A c : Falls(units', c) <=> c \in F \/ c \in Falling(u) \/ Falls(Rest, c)
  /\ Clearing(units') <=> Clears(u) \/ Clearing(Rest)
  /\ /\ NothingReplaced /\ Bare(units) /\ D \cap Claim(u) = {}
     /\ \A c \in D \cup Claim(u) : ~Held(Rest, c)
     => Bare(units')

LEMMA Continued ==
  ASSUME Typed, Stacked, units # << >>, NEW u \in Units, ~Asks(u),
         Fights(u) =>
           /\ Fights(Front)
           /\ (u.kind = "Destroy" /\ u.step \in 10 .. 12) <=>
                (Front.kind = "Destroy" /\ Front.step \in 10 .. 12),
         NEW b, NEW D, NEW F, Does(b, D, F), units' = b \o <<u>> \o Tail(units)
  PROVE  Followed(b, u, D, F)
<1> DEFINE t == <<u>> \o Rest
<1>1. /\ t \in Seq(Units) /\ Stands(t)
      /\ \A c : Held(t, c) <=> c \in Claim(u) \/ Held(Rest, c)
      /\ \A c : Leaves(t, c) <=> c \in Leaving(u) \/ Leaves(Rest, c)
      /\ \A c : Falls(t, c) <=> c \in Falling(u) \/ Falls(Rest, c)
      /\ Clearing(t) <=> Clears(u) \/ Clearing(Rest)
      /\ Bare(units) /\ (\A c \in Claim(u) : ~Held(Rest, c)) => Bare(t)
  BY GoesOn
<1>2. units' = b \o t
  <2>1. Rest = Tail(units) /\ Rest \in Seq(Units) /\ b \in Seq(Units) /\ <<u>> \in Seq(Units)
    BY RestFacts DEF Does, Plain
  <2>2. \A x, y, z \in Seq(Units) : (x \o y) \o z = x \o (y \o z) OBVIOUS
  <2> QED BY <2>1, <2>2
<1> HIDE DEF t
<1>3. b \in Seq(Units) /\ Plain(b) BY DEF Does, Plain
<1>4. b \o t \in Seq(Units) BY <1>1, <1>3
<1>5. Stands(b \o t) BY <1>1, <1>3, PlainStands
<1>6. /\ \A c : Held(b \o t, c) <=> Held(b, c) \/ Held(t, c)
      /\ \A c : Leaves(b \o t, c) <=> Leaves(b, c) \/ Leaves(t, c)
      /\ \A c : Falls(b \o t, c) <=> Falls(b, c) \/ Falls(t, c)
      /\ Clearing(b \o t) <=> Clearing(b) \/ Clearing(t)
  BY <1>1, <1>3, SomeOnTop, Zenon
<1>7. /\ \A c : Held(b, c) <=> c \in D
      /\ \A c : Falls(b, c) <=> c \in F
      /\ \A c : ~Leaves(b, c)
      /\ ~Clearing(b) /\ Apart(b)
  BY DEF Does
<1>8. ASSUME Bare(units), D \cap Claim(u) = {},
             \A c \in D \cup Claim(u) : ~Held(Rest, c)
      PROVE  Bare(b \o t)
  <2>1. Bare(t) /\ \A c : ~(Held(b, c) /\ Held(t, c)) BY <1>1, <1>7, <1>8
  <2> QED BY <1>1, <1>3, <1>7, <2>1, PlainBare
<1>9. Stacked' BY <1>2, <1>5 DEF Stacked, Stands
<1>10. /\ \A c : Held(units', c) <=> c \in D \/ c \in Claim(u) \/ Held(Rest, c)
       /\ \A c : Leaves(units', c) <=> c \in Leaving(u) \/ Leaves(Rest, c)
       /\ \A c : Falls(units', c) <=> c \in F \/ c \in Falling(u) \/ Falls(Rest, c)
       /\ Clearing(units') <=> Clears(u) \/ Clearing(Rest)
  BY <1>1, <1>2, <1>6, <1>7
<1> QED BY <1>2, <1>4, <1>8, <1>9, <1>10 DEF Followed

(* A step in which a unit is done, or none was there. *)
Ended(b, D, F) ==
  /\ units' \in Seq(Units) /\ Stacked'
  /\ \A c : Held(units', c) <=> c \in D \/ Held(Rest, c)
  /\ \A c : Leaves(units', c) <=> Leaves(Rest, c)
  /\ \A c : Falls(units', c) <=> c \in F \/ Falls(Rest, c)
  /\ Clearing(units') <=> Clearing(Rest)
  /\ Bare(units) /\ (\A c \in D : ~Held(Rest, c)) => Bare(units')

LEMMA Finished ==
  ASSUME Typed, Stacked, NEW b, NEW D, NEW F, Does(b, D, F), units' = b \o Rest
  PROVE  Ended(b, D, F)
<1>1. b \in Seq(Units) /\ Plain(b) /\ Rest \in Seq(Units) /\ Stands(Rest)
  BY RestFacts DEF Does, Plain
<1>2. b \o Rest \in Seq(Units) BY <1>1
<1>3. Stands(b \o Rest) BY <1>1, PlainStands
<1>4. /\ \A c : Held(b \o Rest, c) <=> Held(b, c) \/ Held(Rest, c)
      /\ \A c : Leaves(b \o Rest, c) <=> Leaves(b, c) \/ Leaves(Rest, c)
      /\ \A c : Falls(b \o Rest, c) <=> Falls(b, c) \/ Falls(Rest, c)
      /\ Clearing(b \o Rest) <=> Clearing(b) \/ Clearing(Rest)
  BY <1>1, SomeOnTop, Zenon
<1>5. /\ \A c : Held(b, c) <=> c \in D
      /\ \A c : Falls(b, c) <=> c \in F
      /\ \A c : ~Leaves(b, c)
      /\ ~Clearing(b) /\ Apart(b)
  BY DEF Does
<1>6. ASSUME Bare(units), \A c \in D : ~Held(Rest, c)
      PROVE  Bare(b \o Rest)
  <2>1. Bare(Rest) /\ \A c : ~(Held(b, c) /\ Held(Rest, c)) BY <1>5, <1>6, RestFacts
  <2> QED BY <1>1, <1>5, <2>1, PlainBare
<1>7. Stacked' BY <1>3 DEF Stacked, Stands
<1>8. /\ \A c : Held(units', c) <=> c \in D \/ Held(Rest, c)
      /\ \A c : Leaves(units', c) <=> Leaves(Rest, c)
      /\ \A c : Falls(units', c) <=> c \in F \/ Falls(Rest, c)
      /\ Clearing(units') <=> Clearing(Rest)
  BY <1>4, <1>5
<1> QED BY <1>2, <1>6, <1>7, <1>8 DEF Ended

-----------------------------------------------------------------------------
(* What the functions of the cards change. *)

Placement(x, y) ==
  /\ x.loc = y.loc /\ x.controler = y.controler /\ x.facedown = y.facedown
  /\ x.overlay_target = y.overlay_target
Same(x, y) ==
  Placement(x, y) /\ x.equiping_target = y.equiping_target /\ x.confirmed = y.confirmed

LEMMA ReasonTyped ==
  /\ \A kind \in Kinds, n \in Nat : Reason(kind, n) \in Reasons
  /\ Rule \in Reasons
  /\ \A r \in Reasons, f \in Flags : Flagged(r, f) \in Reasons
  /\ \A r \in Reasons : \A f : Flagged(r, f).kind = r.kind
  /\ Substitute \in Reasons
BY DEF Reasons, Reason, Rule, Flagged, Substitute, Kinds, Flags

LEMMA RestoredCards ==
  ASSUME NEW f, CardsTyped(f), NEW S
  PROVE  /\ CardsTyped(Restored(f, S))
         /\ \A c \in Cards : Same(Restored(f, S)[c], f[c])
<1> DEFINE g == Restored(f, S)
<1>1. \A c \in Cards : g[c] = IF c \in S THEN [f[c] EXCEPT !.reason = f[c].temp] ELSE f[c]
  BY DEF Restored, Change
<1>2. DOMAIN g = Cards /\ g = [c \in Cards |-> g[c]] BY DEF Restored, Change
<1> HIDE DEF g
<1>3. ASSUME NEW c \in Cards PROVE CardTyped(g[c], c) /\ Same(g[c], f[c])
  BY <1>1 DEF CardsTyped, CardTyped, CardRecords, Same, Placement
<1> QED BY <1>2, <1>3 DEF g, CardsTyped, CardTyped

LEMMA GivenCards ==
  ASSUME NEW f, CardsTyped(f), NEW S, NEW r \in Reasons, NEW dest \in Piles
  PROVE  /\ CardsTyped(Given(f, S, r, dest))
         /\ \A c \in Cards : Same(Given(f, S, r, dest)[c], f[c])
<1> DEFINE g == Given(f, S, r, dest)
<1>1. \A c \in Cards :
        g[c] = IF c \in S
               THEN [f[c] EXCEPT !.temp = f[c].reason, !.reason = r, !.dest = dest]
               ELSE f[c]
  BY DEF Given, Change
<1>2. DOMAIN g = Cards /\ g = [c \in Cards |-> g[c]] BY DEF Given, Change
<1> HIDE DEF g
<1>3. ASSUME NEW c \in Cards PROVE CardTyped(g[c], c) /\ Same(g[c], f[c])
  BY <1>1 DEF CardsTyped, CardTyped, CardRecords, Same, Placement
<1> QED BY <1>2, <1>3 DEF g, CardsTyped, CardTyped

LEMMA FlaggedCards ==
  ASSUME NEW f, CardsTyped(f), NEW S, NEW flag \in Flags
  PROVE  /\ CardsTyped(WithFlag(f, S, flag))
         /\ \A c \in Cards : Same(WithFlag(f, S, flag)[c], f[c])
<1> DEFINE g == WithFlag(f, S, flag)
<1>1. \A c \in Cards :
        g[c] = IF c \in S THEN [f[c] EXCEPT !.reason = Flagged(f[c].reason, flag)]
               ELSE f[c]
  BY DEF WithFlag, Change
<1>2. DOMAIN g = Cards /\ g = [c \in Cards |-> g[c]] BY DEF WithFlag, Change
<1> HIDE DEF g
<1>3. ASSUME NEW c \in Cards PROVE CardTyped(g[c], c) /\ Same(g[c], f[c])
  <2>1. f[c] \in CardRecords /\ f[c].reason \in Reasons
    BY DEF CardsTyped, CardTyped, CardRecords
  <2>2. Flagged(f[c].reason, flag) \in Reasons BY <2>1, ReasonTyped
  <2> QED BY <1>1, <2>1, <2>2 DEF CardsTyped, CardTyped, CardRecords, Same, Placement
<1> QED BY <1>2, <1>3 DEF g, CardsTyped, CardTyped

LEMMA UnconfirmedCards ==
  ASSUME NEW f, CardsTyped(f), NEW S
  PROVE  /\ CardsTyped(Unconfirmed(f, S))
         /\ \A c \in Cards :
              /\ Placement(Unconfirmed(f, S)[c], f[c])
              /\ Unconfirmed(f, S)[c].equiping_target = f[c].equiping_target
              /\ Unconfirmed(f, S)[c].confirmed <=> f[c].confirmed /\ c \notin S
<1> DEFINE g == Unconfirmed(f, S)
<1>1. \A c \in Cards : g[c] = IF c \in S THEN [f[c] EXCEPT !.confirmed = FALSE] ELSE f[c]
  BY DEF Unconfirmed, Change
<1>2. DOMAIN g = Cards /\ g = [c \in Cards |-> g[c]] BY DEF Unconfirmed, Change
<1> HIDE DEF g
<1>3. ASSUME NEW c \in Cards
      PROVE  /\ CardTyped(g[c], c) /\ Placement(g[c], f[c])
             /\ g[c].equiping_target = f[c].equiping_target
             /\ g[c].confirmed <=> f[c].confirmed /\ c \notin S
  BY <1>1 DEF CardsTyped, CardTyped, CardRecords, Placement
<1> QED BY <1>2, <1>3 DEF g, CardsTyped, CardTyped

LEMMA ConfirmedCards ==
  ASSUME NEW f, CardsTyped(f), NEW S, NEW r \in Reasons
  PROVE  /\ CardsTyped(Confirmed(f, S, r))
         /\ \A c \in Cards :
              /\ Placement(Confirmed(f, S, r)[c], f[c])
              /\ Confirmed(f, S, r)[c].equiping_target = f[c].equiping_target
              /\ Confirmed(f, S, r)[c].confirmed <=> f[c].confirmed \/ c \in S
<1> DEFINE g == Confirmed(f, S, r)
<1>1. CardsTyped(Given(f, S, r, "GRAVE")) /\ \A c \in Cards : Same(Given(f, S, r, "GRAVE")[c], f[c])
  BY GivenCards DEF Piles
<1>2. \A c \in Cards :
        g[c] = IF c \in S THEN [Given(f, S, r, "GRAVE")[c] EXCEPT !.confirmed = TRUE]
               ELSE Given(f, S, r, "GRAVE")[c]
  BY DEF Confirmed, Change
<1>3. DOMAIN g = Cards /\ g = [c \in Cards |-> g[c]] BY DEF Confirmed, Change
<1> HIDE DEF g
<1>4. ASSUME NEW c \in Cards
      PROVE  /\ CardTyped(g[c], c) /\ Placement(g[c], f[c])
             /\ g[c].equiping_target = f[c].equiping_target
             /\ g[c].confirmed <=> f[c].confirmed \/ c \in S
  <2> DEFINE x == Given(f, S, r, "GRAVE")[c]
  <2>1. CardTyped(x, c) /\ Same(x, f[c]) BY <1>1 DEF CardsTyped
  <2>2. g[c] = IF c \in S THEN [x EXCEPT !.confirmed = TRUE] ELSE x BY <1>2
  <2> HIDE DEF x
  <2>3. CardTyped(g[c], c) BY <2>1, <2>2 DEF CardTyped, CardRecords
  <2>4. Placement(g[c], f[c]) /\ g[c].equiping_target = f[c].equiping_target
    BY <2>1, <2>2 DEF CardTyped, CardRecords, Same, Placement
  <2>5. CASE c \in S
    <3>1. g[c].confirmed = TRUE BY <2>1, <2>2, <2>5 DEF CardTyped, CardRecords
    <3> QED BY <2>3, <2>4, <2>5, <3>1
  <2>6. CASE c \notin S
    <3>1. g[c].confirmed = f[c].confirmed BY <2>1, <2>2, <2>6 DEF Same
    <3> QED BY <2>3, <2>4, <2>6, <3>1
  <2> QED BY <2>5, <2>6
<1> QED BY <1>3, <1>4 DEF g, CardsTyped, CardTyped

LEMMA UnequippedCards ==
  ASSUME NEW f, CardsTyped(f), NEW S
  PROVE  /\ CardsTyped(Unequipped(f, S))
         /\ \A c \in Cards :
              /\ Placement(Unequipped(f, S)[c], f[c])
              /\ Unequipped(f, S)[c].equiping_target =
                   IF c \in S THEN None ELSE f[c].equiping_target
              /\ Unequipped(f, S)[c].confirmed = f[c].confirmed
<1> DEFINE g == Unequipped(f, S)
<1>1. \A c \in Cards : g[c] = IF c \in S THEN [f[c] EXCEPT !.equiping_target = None] ELSE f[c]
  BY DEF Unequipped, Change
<1>2. DOMAIN g = Cards /\ g = [c \in Cards |-> g[c]] BY DEF Unequipped, Change
<1> HIDE DEF g
<1>3. ASSUME NEW c \in Cards
      PROVE  /\ CardTyped(g[c], c) /\ Placement(g[c], f[c])
             /\ g[c].equiping_target = IF c \in S THEN None ELSE f[c].equiping_target
             /\ g[c].confirmed = f[c].confirmed
  BY <1>1 DEF CardsTyped, CardTyped, CardRecords, Placement
<1> QED BY <1>2, <1>3 DEF g, CardsTyped, CardTyped

-----------------------------------------------------------------------------
(* Steps that change nothing of what the invariant says. *)

LEMMA AttachedKept ==
  ASSUME Typed, Equipped, Overlaid, UNCHANGED <<loose, setting>>,
         \A c \in Cards :
           /\ Placement(cards'[c], cards[c])
           /\ cards'[c].equiping_target \in {None, cards[c].equiping_target},
         \A c : Leaves(units, c) => Leaves(units', c),
         NothingReplaced =>
           \A c : Falls(units, c) /\ cards[c].overlay_target # None => Falls(units', c)
  PROVE  Equipped' /\ Overlaid'
<1>1. /\ \A c \in Cards : cards[c].equiping_target \in Cards \cup {None}
      /\ \A c \in Cards : cards[c].overlay_target \in Cards \cup {None}
  BY DEF Typed, CardsTyped, CardTyped, CardRecords
<1>2. \A c \in Cards : Carries(c) => Carries(c)' BY DEF Carries, Placement
<1>3. Equipped' BY <1>1, <1>2 DEF Equipped, Placement
<1>4. NothingReplaced' = NothingReplaced BY DEF NothingReplaced
<1>5. Overlaid' BY <1>1, <1>4 DEF Overlaid, Placement
<1> QED BY <1>3, <1>5

LEMMA StatusKept ==
  ASSUME Status, left \subseteq left', destroy_canceled \subseteq destroy_canceled',
         \A c \in Cards :
           cards'[c].confirmed =>
             /\ cards[c].confirmed \/ Held(units', c)
             /\ Held(units, c) =>
                  \/ Held(units', c) \/ c \in left'
                  \/ c \in destroy_canceled' /\ Clearing(units'),
         Clearing(units) => Clearing(units')
  PROVE  Status'
BY DEF Status

LEMMA Calm ==
  ASSUME MovesInvariant, units # << >>, NEW b, NEW u, NEW F, Followed(b, u, {}, F),
         \A c \in Cards : Same(cards'[c], cards[c]),
         Claim(u) = Claim(Front), Clears(Front) => Clears(u),
         Leaving(Front) \subseteq Leaving(u), Falling(Front) \subseteq Falling(u),
         UNCHANGED <<destroy_canceled, battle_destroy_rep, left, loose, setting>>
  PROVE  Status' /\ Sole' /\ Equipped' /\ Overlaid'
<1>1. Typed /\ Stacked /\ Status /\ Sole /\ Equipped /\ Overlaid BY DEF MovesInvariant
<1>2. /\ \A c : Held(units, c) <=> c \in Claim(Front) \/ Held(Rest, c)
      /\ \A c : Leaves(units, c) <=> c \in Leaving(Front) \/ Leaves(Rest, c)
      /\ \A c : Falls(units, c) <=> c \in Falling(Front) \/ Falls(Rest, c)
      /\ Clearing(units) <=> Clears(Front) \/ Clearing(Rest)
      /\ Bare(units) => \A c : ~(c \in Claim(Front) /\ Held(Rest, c))
  BY <1>1, RestFacts
<1>3. /\ \A c : Held(units, c) <=> Held(units', c)
      /\ \A c : Leaves(units, c) => Leaves(units', c)
      /\ \A c : Falls(units, c) => Falls(units', c)
      /\ Clearing(units) => Clearing(units')
      /\ NothingReplaced /\ Bare(units) => Bare(units')
  BY <1>2 DEF Followed
<1>4. Status' BY <1>1, <1>3, StatusKept DEF Same
<1>5. Sole' BY <1>1, <1>3 DEF Sole, Bare, Same, NothingReplaced
<1>6. Equipped' /\ Overlaid' BY <1>1, <1>3, AttachedKept DEF Same
<1> QED BY <1>4, <1>5, <1>6

LEMMA CalmEnd ==
  ASSUME MovesInvariant, NEW b, NEW F, Ended(b, {}, F),
         \A c \in Cards : Same(cards'[c], cards[c]),
         units # << >> =>
           /\ Claim(Front) = {} /\ ~Clears(Front)
           /\ Leaving(Front) = {} /\ Falling(Front) \subseteq F,
         UNCHANGED <<destroy_canceled, battle_destroy_rep, left, loose, setting>>
  PROVE  Status' /\ Sole' /\ Equipped' /\ Overlaid'
<1>1. Typed /\ Stacked /\ Status /\ Sole /\ Equipped /\ Overlaid BY DEF MovesInvariant
<1>2. units # << >> =>
        /\ \A c : Held(units, c) <=> c \in Claim(Front) \/ Held(Rest, c)
        /\ \A c : Leaves(units, c) <=> c \in Leaving(Front) \/ Leaves(Rest, c)
        /\ \A c : Falls(units, c) <=> c \in Falling(Front) \/ Falls(Rest, c)
        /\ Clearing(units) <=> Clears(Front) \/ Clearing(Rest)
  BY <1>1, RestFacts
<1>3. /\ \A c : Held(units, c) => Held(Rest, c)
      /\ \A c : Leaves(units, c) => Leaves(Rest, c)
      /\ \A c : Falls(units, c) => c \in F \/ Falls(Rest, c)
      /\ Clearing(units) => Clearing(Rest)
  <2>1. CASE units = << >>
    <3>1. Rest = units BY <2>1 DEF Rest
    <3> QED BY <3>1
  <2>2. CASE units # << >> BY <1>2, <2>2
  <2> QED BY <2>1, <2>2
<1>4. /\ \A c : Held(units, c) => Held(units', c)
      /\ \A c : Held(units', c) => Held(units, c)
      /\ \A c : Leaves(units, c) => Leaves(units', c)
      /\ \A c : Falls(units, c) => Falls(units', c)
      /\ Clearing(units) => Clearing(units')
      /\ Bare(units) => Bare(units')
  BY <1>1, <1>3, RestFacts DEF Ended
<1>5. Status' BY <1>1, <1>4, StatusKept DEF Same
<1>6. Sole' BY <1>1, <1>4 DEF Sole, Bare, Same, NothingReplaced
<1>7. Equipped' /\ Overlaid' BY <1>1, <1>4, AttachedKept DEF Same
<1> QED BY <1>5, <1>6, <1>7

-----------------------------------------------------------------------------
(* The units and what they do. *)

LEMMA KindOf ==
  ASSUME NEW u \in Units
  PROVE  /\ u.kind = "Destroy" => u \in DestroyUnits
         /\ u.kind = "Battle" => u \in BattleUnits
         /\ u.kind = "Release" => u \in ReleaseUnits
         /\ u.kind = "SendTo" => u \in SendUnits
         /\ u.kind = "Ask" => u \in AskUnits
         /\ u.kind = "Replace" => u \in ReplaceUnits
         /\ u.kind = "ToField" => u \in FieldUnits
         /\ u.kind = "Pos" => u \in PosUnits
         /\ u.kind = "Control" => u \in ControlUnits
         /\ u.kind = "Equip" => u \in EquipUnits
         /\ u.kind = "Xyz" => u \in OverlayUnits
         /\ u.kind = "Detach" => u \in DetachUnits
         /\ u.kind = "Effect" => u \in EffectUnits
<1>1. CASE u \in DestroyUnits BY <1>1 DEF DestroyUnits, DestroyRecords
<1>2. CASE u \in BattleUnits BY <1>2 DEF BattleUnits
<1>3. CASE u \in ReleaseUnits BY <1>3 DEF ReleaseUnits
<1>4. CASE u \in SendUnits BY <1>4 DEF SendUnits, SendRecords
<1>5. CASE u \in AskUnits BY <1>5 DEF AskUnits
<1>6. CASE u \in ReplaceUnits BY <1>6 DEF ReplaceUnits
<1>7. CASE u \in FieldUnits BY <1>7 DEF FieldUnits
<1>8. CASE u \in PosUnits BY <1>8 DEF PosUnits
<1>9. CASE u \in ControlUnits BY <1>9 DEF ControlUnits
<1>10. CASE u \in EquipUnits BY <1>10 DEF EquipUnits
<1>11. CASE u \in OverlayUnits BY <1>11 DEF OverlayUnits
<1>12. CASE u \in DetachUnits BY <1>12 DEF DetachUnits
<1>13. CASE u \in EffectUnits BY <1>13 DEF EffectUnits
<1> QED
  BY <1>1, <1>2, <1>3, <1>4, <1>5, <1>6, <1>7, <1>8, <1>9, <1>10, <1>11, <1>12, <1>13
     DEF Units

LEMMA UnitsTyped ==
  /\ \A s \in {0, 3, 10}, T \in SUBSET Cards, r \in Reasons :
       (r.kind = "BATTLE" => s # 0) => Destroy(s, T, r) \in Units
  /\ \A T \in SUBSET Cards : Battle(T) \in Units
  /\ \A T \in SUBSET Cards, r \in Reasons : Release(T, r) \in Units
  /\ \A s \in {0, 1, 2, 3, 5, 10, 11}, T \in SUBSET Cards, r \in Reasons :
       SendTo(s, T, r) \in Units
  /\ \A s \in {0, 10}, c \in Cards : AskReplace(s, c) \in Units
  /\ \A s \in {0, 3, 5, 8, 10, 12, 15}, c \in Cards : OperationReplace(s, c) \in Units
  /\ \A s \in {5, 12, 15} : OperationReplace(s, None) \in Units
  /\ \A c \in Cards, p \in {0, 1}, loc \in OnField, down \in BOOLEAN :
       MoveToField(c, p, loc, down) \in Units
  /\ \A T \in SUBSET Cards : ChangePos(T) \in Units /\ GetControl(T) \in Units
  /\ \A c \in Equips, t \in Cards : Equip(c, t) \in Units
  /\ \A t \in Cards, b \in BOOLEAN : \A M \in SUBSET (Cards \ (Tokens \cup {t})) :
       XyzOverlay(t, M, b) \in Units
  /\ RemoveOverlay \in Units /\ Effect \in Units
<1>1. \A s \in {0, 3, 10}, T \in SUBSET Cards, r \in Reasons :
        (r.kind = "BATTLE" => s # 0) => Destroy(s, T, r) \in DestroyUnits
  BY DEF Destroy, DestroyUnits, DestroyRecords
<1>2. \A T \in SUBSET Cards : Battle(T) \in BattleUnits BY DEF Battle, BattleUnits
<1>3. \A T \in SUBSET Cards, r \in Reasons : Release(T, r) \in ReleaseUnits
  BY DEF Release, ReleaseUnits
<1>4. \A s \in {0, 1, 2, 3, 5, 10, 11}, T \in SUBSET Cards, r \in Reasons :
        SendTo(s, T, r) \in SendUnits
  BY DEF SendTo, SendUnits, SendRecords
<1>5. \A s \in {0, 10}, c \in Cards : AskReplace(s, c) \in AskUnits
  BY DEF AskReplace, AskUnits
<1>6. /\ \A s \in {0, 3, 5, 8, 10, 12, 15}, c \in Cards :
           OperationReplace(s, c) \in ReplaceUnits
      /\ \A s \in {5, 12, 15} : OperationReplace(s, None) \in ReplaceUnits
  BY ConstantsAssumption DEF OperationReplace, ReplaceUnits
<1>7. \A c \in Cards, p \in {0, 1}, loc \in OnField, down \in BOOLEAN :
        MoveToField(c, p, loc, down) \in FieldUnits
  BY DEF MoveToField, FieldUnits
<1>8. \A T \in SUBSET Cards : ChangePos(T) \in PosUnits /\ GetControl(T) \in ControlUnits
  BY DEF ChangePos, PosUnits, GetControl, ControlUnits
<1>9. \A c \in Equips, t \in Cards : Equip(c, t) \in EquipUnits BY DEF Equip, EquipUnits
<1>10. \A t \in Cards, b \in BOOLEAN : \A M \in SUBSET (Cards \ (Tokens \cup {t})) :
         XyzOverlay(t, M, b) \in OverlayUnits
  BY DEF XyzOverlay, OverlayUnits
<1>11. RemoveOverlay \in DetachUnits /\ Effect \in EffectUnits
  BY DEF RemoveOverlay, DetachUnits, Effect, EffectUnits
<1> QED BY <1>1, <1>2, <1>3, <1>4, <1>5, <1>6, <1>7, <1>8, <1>9, <1>10, <1>11 DEF Units

(* What each of the units that effects start does. *)
LEMMA EffectDoes == Does(<<Effect>>, {}, {})
<1>1. /\ ~Asks(Effect) /\ ~Fights(Effect) /\ ~Clears(Effect) /\ Leaving(Effect) = {}
      /\ Claim(Effect) = {} /\ Falling(Effect) = {}
  BY DEF Effect, Asks, Fights, Clears, Leaving, Claim, Falling
<1> QED BY <1>1, DoesOne, UnitsTyped

LEMMA EventsDo == Does(Events, {}, {})
BY EffectDoes, DoesNothing DEF Events

LEMMA DestroyDoes ==
  ASSUME NEW T \in SUBSET Cards, NEW r \in Reasons, r.kind # "BATTLE"
  PROVE  Does(<<Destroy(0, T, r)>>, T, {})
<1> DEFINE u == Destroy(0, T, r)
<1>1. u \in Units BY UnitsTyped
<1>2. /\ ~Asks(u) /\ ~Fights(u) /\ ~Clears(u) /\ Leaving(u) = {}
      /\ Claim(u) = T /\ Falling(u) = {}
  BY DEF Destroy, Asks, Fights, Clears, Leaving, Claim, Falling
<1> HIDE DEF u
<1> QED BY <1>1, <1>2, DoesOne DEF u

LEMMA DestroyDoesAny ==
  ASSUME NEW S, NEW D \in SUBSET Cards, D \subseteq S
  PROVE  Does(IF S = {} THEN << >> ELSE <<Destroy(0, D, Rule)>>, D, {})
<1>1. Rule \in Reasons /\ Rule.kind # "BATTLE" BY ReasonTyped DEF Rule, Reason
<1>2. CASE S = {}
  <2>1. D = {} BY <1>2
  <2> QED BY <1>2, <2>1, DoesNothing
<1>3. CASE S # {} BY <1>1, <1>3, DestroyDoes
<1> QED BY <1>2, <1>3

LEMMA SendDoes ==
  ASSUME NEW T \in SUBSET Cards, NEW r \in Reasons
  PROVE  /\ Does(<<SendTo(0, T, r)>>, {}, IF r.kind = "RULE" THEN T ELSE {})
         /\ Does(<<SendTo(1, T, r)>>, {}, T)
<1>1. ASSUME NEW s \in {0, 1}
      PROVE  /\ SendTo(s, T, r) \in Units
             /\ ~Asks(SendTo(s, T, r)) /\ ~Fights(SendTo(s, T, r)) /\ ~Clears(SendTo(s, T, r))
             /\ Leaving(SendTo(s, T, r)) = {} /\ Claim(SendTo(s, T, r)) = {}
             /\ Falling(SendTo(s, T, r)) =
                  IF s = 1 \/ r.kind = "RULE" THEN T ELSE {}
  BY UnitsTyped DEF SendTo, Asks, Fights, Clears, Leaving, Claim, Falling
<1>2. Does(<<SendTo(0, T, r)>>, {}, IF r.kind = "RULE" THEN T ELSE {})
  <2>1. PICK s \in {0, 1} : s = 0 OBVIOUS
  <2> QED BY <1>1, <2>1, DoesOne
<1>3. Does(<<SendTo(1, T, r)>>, {}, T)
  <2>1. PICK s \in {0, 1} : s = 1 OBVIOUS
  <2> QED BY <1>1, <2>1, DoesOne
<1> QED BY <1>2, <1>3

LEMMA SendDoesAny ==
  ASSUME NEW T \in SUBSET Cards
  PROVE  Does(IF T = {} THEN << >> ELSE <<SendTo(0, T, Rule)>>, {}, T)
<1>1. Rule \in Reasons /\ Rule.kind = "RULE" BY ReasonTyped DEF Rule, Reason
<1> QED BY <1>1, SendDoes, DoesNothing

LEMMA MovingDoes ==
  ASSUME NEW c \in Cards, NEW p \in {0, 1}, NEW loc \in OnField, NEW down \in BOOLEAN
  PROVE  /\ LET m == MoveToField(c, p, loc, down) IN
              /\ m \in Units /\ ~Asks(m) /\ ~Fights(m) /\ ~Clears(m)
              /\ Leaving(m) = {} /\ Claim(m) = {} /\ Falling(m) = {}
         /\ Does(MoveTo(c, p, loc, down), {}, {})
<1> DEFINE m == MoveToField(c, p, loc, down)
<1>1. m \in Units BY UnitsTyped
<1>2. /\ ~Asks(m) /\ ~Fights(m) /\ ~Clears(m) /\ Leaving(m) = {}
      /\ Claim(m) = {} /\ Falling(m) = {}
  BY DEF MoveToField, Asks, Fights, Clears, Leaving, Claim, Falling
<1> HIDE DEF m
<1>3. Does(<<m>>, {}, {}) BY <1>1, <1>2, DoesOne
<1>4. Does(MoveTo(c, p, loc, down), {}, {}) BY <1>3, DoesNothing DEF m, MoveTo
<1> QED BY <1>1, <1>2, <1>4 DEF m

(* A set in some order: units for each of some cards. *)
LEMMA SetOrder ==
  ASSUME NEW S, IsFiniteSet(S)
  PROVE  /\ Seqs!SetToSeq(S) \in Seq(S)
         /\ \A i, j \in 1 .. Len(Seqs!SetToSeq(S)) :
              Seqs!SetToSeq(S)[i] = Seqs!SetToSeq(S)[j] => i = j
<1> DEFINE n == Cardinality(S)  f == Seqs!SetToSeq(S)
<1>1. n \in Nat /\ ExistsBijection(1 .. n, S) BY FS_CardinalityType
<1> HIDE DEF n
<1>2. PICK g \in [1 .. n -> S] : \A a, b \in 1 .. n : g[a] = g[b] => a = b
  BY <1>1 DEF ExistsBijection, Bijection, Injection, IsInjective
<1>3. f \in [1 .. n -> S] /\ \A a, b \in 1 .. n : f[a] = f[b] => a = b
  <2>1. Seqs!Cardinality(S) = Cardinality(S) BY DEF Seqs!Cardinality, Cardinality
  <2>2. f = CHOOSE h \in [1 .. n -> S] : \A a, b \in DOMAIN h : h[a] = h[b] => a = b
    BY <2>1 DEF Seqs!SetToSeq, Seqs!IsInjective, n
  <2> HIDE DEF f
  <2>3. \E h \in [1 .. n -> S] : \A a, b \in DOMAIN h : h[a] = h[b] => a = b BY <1>2
  <2>4. f \in [1 .. n -> S] /\ \A a, b \in DOMAIN f : f[a] = f[b] => a = b BY <2>2, <2>3
  <2> QED BY <2>4
<1> HIDE DEF f
<1>4. f \in Seq(S) /\ Len(f) = n BY <1>1, <1>3
<1> QED BY <1>3, <1>4 DEF f

LEMMA EachMovedDoes ==
  ASSUME CardsTyped(cards), NEW S \in SUBSET Cards
  PROVE  Does(Seqs!SetToSeq({MoveToField(c, cards[c].controler, "SZONE", TRUE) : c \in S}),
              {}, {})
<1> DEFINE T == {MoveToField(c, cards[c].controler, "SZONE", TRUE) : c \in S}
           a == Seqs!SetToSeq(T)
<1>1. IsFiniteSet(S) BY ConstantsAssumption, FS_Subset
<1>2. IsFiniteSet(T)
  <2> DEFINE f == [c \in S |-> MoveToField(c, cards[c].controler, "SZONE", TRUE)]
  <2>1. f \in Surjection(S, T) BY DEF Surjection
  <2> QED BY <1>1, <2>1, FS_Surjection
<1>3. ASSUME NEW m \in T
      PROVE  /\ m \in Units /\ ~Asks(m) /\ ~Fights(m) /\ ~Clears(m)
             /\ Leaving(m) = {} /\ Claim(m) = {} /\ Falling(m) = {}
  <2>1. PICK c \in S : m = MoveToField(c, cards[c].controler, "SZONE", TRUE) OBVIOUS
  <2>2. c \in Cards /\ cards[c].controler \in {0, 1} /\ "SZONE" \in OnField
    BY DEF CardsTyped, CardTyped, CardRecords, OnField
  <2> QED BY <2>1, <2>2, MovingDoes
<1>4. a \in Seq(T) BY <1>2, SetOrder
<1> HIDE DEF T, a
<1>5. a \in Seq(Units) /\ \A i \in 1 .. Len(a) : a[i] \in T
  <2>1. T \subseteq Units BY <1>3
  <2> QED BY <1>4, <2>1
<1>6. Plain(a) BY <1>3, <1>5 DEF Plain
<1>7. Apart(a) BY <1>3, <1>5 DEF Apart
<1>8. ~Clearing(a) /\ \A c : ~Held(a, c) /\ ~Falls(a, c) /\ ~Leaves(a, c)
  BY <1>3, <1>5 DEF Clearing, Held, Falls, Leaves
<1> QED BY <1>6, <1>7, <1>8 DEF Does, a, T

-----------------------------------------------------------------------------
(* Units that end or go on and change nothing that the invariant is about. *)

LEMMA AtFront ==
  ASSUME Typed, NEW kind, NEW s, At(kind, s)
  PROVE  /\ units # << >> /\ Front \in Units /\ Rest = Tail(units)
         /\ Front.kind = kind /\ Front.step = s
BY FrontOnRest DEF Typed, At, Front, Rest

LEMMA SameCards ==
  ASSUME UNCHANGED cards
  PROVE  \A c \in Cards : Same(cards'[c], cards[c])
BY DEF Same, Placement

LEMMA CalmFinish ==
  ASSUME MovesInvariant, NEW b, NEW F, Does(b, {}, F), units' = b \o Rest,
         units # << >> =>
           /\ Claim(Front) = {} /\ ~Clears(Front)
           /\ Leaving(Front) = {} /\ Falling(Front) \subseteq F,
         CardsTyped(cards'), \A c \in Cards : Same(cards'[c], cards[c]),
         UNCHANGED <<canceled, left, loose, setting>>,
         operated_set' \subseteq Cards, returns' \in BOOLEAN, acts' \in Nat
  PROVE  MovesInvariant'
<1>1. Typed /\ Stacked BY DEF MovesInvariant
<1>2. Ended(b, {}, F) BY <1>1, Finished
<1>3. Status' /\ Sole' /\ Equipped' /\ Overlaid' BY <1>2, CalmEnd DEF canceled
<1>4. Typed' /\ Stacked' BY <1>1, <1>2 DEF Typed, Ended, canceled
<1> QED BY <1>3, <1>4 DEF MovesInvariant

LEMMA CalmGoOn ==
  ASSUME MovesInvariant, units # << >>, NEW b, NEW F, Does(b, {}, F),
         NEW u \in Units, ~Asks(u), units' = b \o <<u>> \o Tail(units),
         Fights(u) =>
           /\ Fights(Front)
           /\ (u.kind = "Destroy" /\ u.step \in 10 .. 12) <=>
                (Front.kind = "Destroy" /\ Front.step \in 10 .. 12),
         Claim(u) = Claim(Front), Clears(Front) => Clears(u),
         Leaving(Front) \subseteq Leaving(u), Falling(Front) \subseteq Falling(u),
         CardsTyped(cards'), \A c \in Cards : Same(cards'[c], cards[c]),
         UNCHANGED <<canceled, left, loose, setting>>,
         operated_set' \subseteq Cards, returns' \in BOOLEAN, acts' \in Nat
  PROVE  MovesInvariant'
<1>1. Typed /\ Stacked BY DEF MovesInvariant
<1>2. Followed(b, u, {}, F) BY <1>1, Continued
<1>3. Status' /\ Sole' /\ Equipped' /\ Overlaid' BY <1>2, Calm DEF canceled
<1>4. Typed' /\ Stacked' BY <1>1, <1>2 DEF Typed, Followed, canceled
<1> QED BY <1>3, <1>4 DEF MovesInvariant

(* The last steps of the units. *)
LEMMA FinishNothing ==
  ASSUME MovesInvariant, units # << >>, Finish(<< >>),
         Claim(Front) = {}, ~Clears(Front), Leaving(Front) = {}, Falling(Front) = {},
         UNCHANGED <<cards, canceled, setting, left, loose, acts>>,
         operated_set' \subseteq Cards, returns' \in BOOLEAN
  PROVE  MovesInvariant'
<1>1. Typed BY DEF MovesInvariant
<1>2. units' = << >> \o Rest BY DEF Finish, Rest
<1>3. CardsTyped(cards') /\ acts' \in Nat BY <1>1 DEF Typed
<1> QED BY <1>2, <1>3, SameCards, DoesNothing, CalmFinish

LEMMA LastSteps ==
  ASSUME MovesInvariant,
         \/ DestroyOver \/ ReleaseOver \/ SendOver \/ CardMoved \/ PositionsOver
         \/ ControlOver \/ EquipOver \/ OverlayOver \/ NoAct
  PROVE  MovesInvariant'
<1> USE DEF history, canceled, result, Claim, Clears, Leaving, Falling
<1>1. Typed BY DEF MovesInvariant
<1>2. returns \in BOOLEAN /\ operated_set \subseteq Cards BY <1>1 DEF Typed
<1>3. CASE DestroyOver
  <2>1. units # << >> /\ Front \in DestroyUnits /\ Front.kind = "Destroy" /\ Front.step = 5
    BY <1>1, <1>3, AtFront, KindOf DEF DestroyOver
  <2>2. operated_set' \subseteq Cards /\ returns' \in BOOLEAN
    BY <1>3, <2>1 DEF DestroyOver, DestroyUnits, DestroyRecords
  <2> QED BY <1>3, <2>1, <2>2, FinishNothing DEF DestroyOver
<1>4. CASE ReleaseOver
  <2>1. units # << >> /\ Front \in ReleaseUnits /\ Front.kind = "Release" /\ Front.step = 4
    BY <1>1, <1>4, AtFront, KindOf DEF ReleaseOver
  <2>2. operated_set' \subseteq Cards /\ returns' \in BOOLEAN
    BY <1>4, <2>1 DEF ReleaseOver, ReleaseUnits
  <2> QED BY <1>4, <2>1, <2>2, FinishNothing DEF ReleaseOver
<1>5. CASE SendOver
  <2>1. units # << >> /\ Front \in SendUnits /\ Front.kind = "SendTo" /\ Front.step = 11
    BY <1>1, <1>5, AtFront, KindOf DEF SendOver
  <2>2. operated_set' \subseteq Cards /\ returns' \in BOOLEAN
    BY <1>5, <2>1 DEF SendOver, SendUnits, SendRecords
  <2> QED BY <1>5, <2>1, <2>2, FinishNothing DEF SendOver
<1>6. CASE CardMoved
  <2>1. units # << >> /\ Front.kind = "ToField" /\ Front.step = 3
    BY <1>1, <1>6, AtFront DEF CardMoved
  <2> QED BY <1>2, <1>6, <2>1, FinishNothing DEF CardMoved
<1>7. CASE PositionsOver
  <2>1. units # << >> /\ Front \in PosUnits /\ Front.kind = "Pos" /\ Front.step = 5
    BY <1>1, <1>7, AtFront, KindOf DEF PositionsOver
  <2>2. operated_set' \subseteq Cards /\ returns' \in BOOLEAN
    BY <1>7, <2>1 DEF PositionsOver, PosUnits
  <2> QED BY <1>7, <2>1, <2>2, FinishNothing DEF PositionsOver
<1>8. CASE ControlOver
  <2>1. units # << >> /\ Front \in ControlUnits /\ Front.kind = "Control" /\ Front.step = 7
    BY <1>1, <1>8, AtFront, KindOf DEF ControlOver
  <2>2. operated_set' \subseteq Cards /\ returns' \in BOOLEAN
    BY <1>8, <2>1 DEF ControlOver, ControlUnits
  <2> QED BY <1>8, <2>1, <2>2, FinishNothing DEF ControlOver
<1>9. CASE EquipOver
  <2>1. units # << >> /\ Front.kind = "Equip" /\ returns' \in BOOLEAN
    BY <1>1, <1>9, AtFront DEF EquipOver
  <2> QED BY <1>2, <1>9, <2>1, FinishNothing DEF EquipOver
<1>10. CASE OverlayOver
  <2>1. units # << >> /\ Front.kind = "Xyz" BY <1>1, <1>10, AtFront DEF OverlayOver
  <2> QED BY <1>2, <1>10, <2>1, FinishNothing DEF OverlayOver
<1>11. CASE NoAct
  <2>1. units # << >> /\ Front.kind = "Effect" BY <1>1, <1>11, AtFront DEF NoAct
  <2> QED BY <1>2, <1>11, <2>1, FinishNothing DEF NoAct
<1> QED BY <1>3, <1>4, <1>5, <1>6, <1>7, <1>8, <1>9, <1>10, <1>11

(* Units that go on with none before them, or only with raised events. *)
LEMMA SendNowKept ==
  ASSUME MovesInvariant, SendNow
  PROVE  MovesInvariant'
<1>1. Typed BY DEF MovesInvariant
<1>2. units # << >> /\ Front \in SendUnits /\ Front.kind = "SendTo" /\ Front.step = 2
  BY <1>1, AtFront, KindOf DEF SendNow
<1>3. returns' \in BOOLEAN /\ operated_set' \subseteq Cards /\ acts' \in Nat /\ CardsTyped(cards')
  BY <1>1 DEF Typed, SendNow, result, history
<1>4. CASE Front.targets = {}
  <2>1. Claim(Front) = {} /\ ~Clears(Front) /\ Leaving(Front) = {} /\ Falling(Front) = {}
    BY <1>2, <1>4 DEF Claim, Clears, Leaving, Falling
  <2> QED BY <1>2, <1>3, <1>4, <2>1, FinishNothing DEF SendNow, canceled, history
<1>5. CASE Front.targets # {}
  <2> DEFINE b == IF \E c \in Front.targets : ~Off(cards, c) THEN Events ELSE << >>
             u == [Front EXCEPT !.step = 3]
  <2>1. units' = b \o <<u>> \o Tail(units) BY <1>5 DEF SendNow, GoOn, GoOnAs
  <2>2. Does(b, {}, {}) BY EventsDo, DoesNothing
  <2>3. u \in SendUnits /\ u.kind = "SendTo" /\ u.step = 3 /\ u.targets = Front.targets
    BY <1>2 DEF SendUnits, SendRecords
  <2> HIDE DEF b, u
  <2>4. /\ u \in Units /\ ~Asks(u) /\ ~Fights(u) /\ Claim(u) = Claim(Front)
        /\ ~Clears(Front) /\ Leaving(Front) = {} /\ Falling(Front) \subseteq Falling(u)
    BY <1>2, <2>3 DEF Units, Asks, Fights, Claim, Clears, Leaving, Falling
  <2>5. UNCHANGED <<cards, canceled, left, loose, setting>> BY DEF SendNow, history
  <2> QED BY <1>2, <1>3, <2>1, <2>2, <2>4, <2>5, SameCards, CalmGoOn
<1> QED BY <1>4, <1>5

LEMMA RedirectKept ==
  ASSUME MovesInvariant, Redirect
  PROVE  MovesInvariant'
<1>1. Typed BY DEF MovesInvariant
<1>2. units # << >> /\ Front \in SendUnits /\ Front.kind = "SendTo" /\ Front.step = 3
  BY <1>1, AtFront, KindOf DEF Redirect
<1>3. /\ returns' \in BOOLEAN /\ operated_set' \subseteq Cards /\ acts' \in Nat
      /\ UNCHANGED <<canceled, left, loose, setting>>
  BY <1>1 DEF Typed, Redirect, result, history
<1>4. PICK R \in SUBSET (Front.targets \ Tokens), dest \in {"REMOVED", "DECK"} :
        cards' = Change(WithFlag(cards, R, "REDIRECT"), R,
                        LAMBDA x : [x EXCEPT !.dest = dest])
  BY DEF Redirect
<1> DEFINE f == WithFlag(cards, R, "REDIRECT")
<1>5. CardsTyped(f) /\ \A c \in Cards : Same(f[c], cards[c])
  BY <1>1, FlaggedCards DEF Typed, Flags
<1>6. /\ \A c \in Cards : cards'[c] = IF c \in R THEN [f[c] EXCEPT !.dest = dest] ELSE f[c]
      /\ DOMAIN cards' = Cards /\ cards' = [c \in Cards |-> cards'[c]]
  BY <1>4 DEF Change
<1> HIDE DEF f
<1>7. ASSUME NEW c \in Cards PROVE CardTyped(cards'[c], c) /\ Same(cards'[c], cards[c])
  <2>1. CardTyped(f[c], c) /\ Same(f[c], cards[c]) /\ dest \in Piles
    BY <1>5 DEF CardsTyped, Piles
  <2> QED BY <1>6, <2>1 DEF CardTyped, CardRecords, Same, Placement
<1>8. CardsTyped(cards') /\ \A c \in Cards : Same(cards'[c], cards[c])
  BY <1>6, <1>7 DEF CardsTyped, CardTyped
<1> DEFINE u == [Front EXCEPT !.cv = Front.targets, !.step = 5]
<1>9. units' = << >> \o <<u>> \o Tail(units)
  BY <1>2 DEF Redirect, GoOnAs, SendUnits, SendRecords
<1>10. /\ u \in SendUnits /\ u.kind = "SendTo" /\ u.step = 5 /\ u.targets = Front.targets
       /\ u.cv = Front.targets
  <2>1. Front \in SendRecords BY <1>2 DEF SendUnits, SendRecords
  <2>2. /\ u \in SendRecords /\ u.kind = "SendTo" /\ u.step = 5
        /\ u.targets = Front.targets /\ u.cv = Front.targets
    BY <1>2, <2>1 DEF SendRecords
  <2> HIDE DEF u
  <2> QED BY <2>2 DEF SendUnits, SendRecords
<1> HIDE DEF u
<1>11. /\ u \in Units /\ ~Asks(u) /\ ~Fights(u) /\ Claim(u) = Claim(Front)
       /\ ~Clears(Front) /\ Leaving(Front) = {} /\ Falling(Front) \subseteq Falling(u)
  BY <1>2, <1>10 DEF Units, Asks, Fights, Claim, Clears, Leaving, Falling
<1> QED BY <1>2, <1>3, <1>8, <1>9, <1>11, DoesNothing, CalmGoOn

LEMMA CardsLeftKept ==
  ASSUME MovesInvariant, CardsLeft
  PROVE  MovesInvariant'
<1>1. Typed BY DEF MovesInvariant
<1>2. /\ units # << >> /\ Front \in SendUnits /\ Front.kind = "SendTo" /\ Front.step = 5
      /\ Front.cv = {}
  BY <1>1, AtFront, KindOf DEF CardsLeft
<1>3. /\ returns' \in BOOLEAN /\ operated_set' \subseteq Cards /\ acts' \in Nat
      /\ UNCHANGED <<cards, canceled, left, loose, setting>> /\ CardsTyped(cards')
  BY <1>1 DEF Typed, CardsLeft, result, history
<1> DEFINE b == IF Front.leave = {} THEN << >> ELSE Events
           u == [Front EXCEPT !.step = 10]
<1>4. units' = b \o <<u>> \o Tail(units) BY DEF CardsLeft, GoOn, GoOnAs
<1>5. Does(b, {}, {}) BY EventsDo, DoesNothing
<1>6. u \in SendUnits /\ u.kind = "SendTo" /\ u.step = 10 /\ u.targets = Front.targets
  BY <1>2 DEF SendUnits, SendRecords
<1> HIDE DEF b, u
<1>7. /\ u \in Units /\ ~Asks(u) /\ ~Fights(u) /\ Claim(u) = Claim(Front)
      /\ ~Clears(Front) /\ Leaving(Front) = Leaving(u) /\ Falling(Front) \subseteq Falling(u)
  BY <1>2, <1>6 DEF Units, Asks, Fights, Claim, Clears, Leaving, Falling
<1> QED BY <1>2, <1>3, <1>4, <1>5, <1>7, SameCards, CalmGoOn

LEMMA ReleaseNowKept ==
  ASSUME MovesInvariant, ReleaseNow
  PROVE  MovesInvariant'
<1>1. Typed BY DEF MovesInvariant
<1>2. units # << >> /\ Front \in ReleaseUnits /\ Front.kind = "Release" /\ Front.step = 2
  BY <1>1, AtFront, KindOf DEF ReleaseNow
<1>3. /\ returns' \in BOOLEAN /\ operated_set' \subseteq Cards /\ acts' \in Nat
      /\ UNCHANGED <<canceled, left, loose, setting, acts>>
  BY <1>1 DEF Typed, ReleaseNow, result, history
<1>4. Claim(Front) = {} /\ ~Clears(Front) /\ Leaving(Front) = {} /\ Falling(Front) = {}
  BY <1>2 DEF Claim, Clears, Leaving, Falling
<1>5. CASE Front.targets = {} BY <1>2, <1>3, <1>4, <1>5, FinishNothing DEF ReleaseNow
<1>6. CASE Front.targets # {}
  <2> DEFINE gone == Settled(cards, Front.targets)  rest == Front.targets \ gone
             u == [[Front EXCEPT !.targets = rest] EXCEPT !.step = 3]
             f == Restored(cards, gone)
  <2>1. units' = << >> \o <<u>> \o Tail(units) /\ cards' = WithFlag(f, rest, "RELEASE")
    BY <1>2, <1>6 DEF ReleaseNow, GoOnAs, ReleaseUnits
  <2>2. u \in ReleaseUnits /\ u.kind = "Release"
    <3>1. rest \in SUBSET Cards BY <1>2 DEF ReleaseUnits
    <3> HIDE DEF rest
    <3>2. [Front EXCEPT !.targets = rest] \in ReleaseUnits
      BY <1>2, <3>1 DEF ReleaseUnits
    <3> QED BY <1>2, <3>2 DEF ReleaseUnits
  <2>3. CardsTyped(f) /\ \A c \in Cards : Same(f[c], cards[c])
    BY <1>1, RestoredCards DEF Typed
  <2> HIDE DEF f, u
  <2>4. CardsTyped(cards') /\ \A c \in Cards : Same(cards'[c], f[c])
    BY <2>1, <2>3, FlaggedCards DEF Flags
  <2>5. \A c \in Cards : Same(cards'[c], cards[c]) BY <2>3, <2>4 DEF Same, Placement
  <2>6. u \in Units /\ ~Asks(u) /\ ~Fights(u) /\ Claim(u) = {}
    BY <2>2 DEF Units, Asks, Fights, Claim
  <2> QED BY <1>2, <1>3, <1>4, <2>1, <2>4, <2>5, <2>6, DoesNothing, CalmGoOn
<1> QED BY <1>5, <1>6

LEMMA ControlKept ==
  ASSUME MovesInvariant, ControlChecked \/ TakeControl \/ ControlTaken
  PROVE  MovesInvariant'
<1>1. Typed BY DEF MovesInvariant
<1>2. /\ units # << >> /\ Front \in ControlUnits /\ Front.kind = "Control"
      /\ Front.step \in {0, 3, 5}
  BY <1>1, AtFront, KindOf DEF ControlChecked, TakeControl, ControlTaken
<1>3. /\ returns' \in BOOLEAN /\ operated_set' \subseteq Cards /\ acts' \in Nat
      /\ UNCHANGED <<cards, canceled, left, loose, setting>> /\ CardsTyped(cards')
  BY <1>1 DEF Typed, ControlChecked, TakeControl, ControlTaken, result, history
<1>4. ~Clears(Front) /\ Claim(Front) = {} /\ Leaving(Front) = {} /\ Falling(Front) = {}
  BY <1>2 DEF Clears, Claim, Leaving, Falling
<1>5. \E u \in ControlUnits : \E b :
        Does(b, {}, {}) /\ units' = b \o <<u>> \o Tail(units)
  <2>1. CASE ControlChecked
    <3>1. PICK kept \in SUBSET Front.targets, crowded \in SUBSET Front.targets :
            LET T == {c \in Front.targets \ kept :
                       cards[c].loc = "MZONE" /\ cards[c].controler = 0}
            IN GoOnAs([Front EXCEPT !.targets = T \ crowded, !.rest = T \ crowded,
                                    !.destroy_set = crowded],
                      IF T \subseteq crowded THEN 6 ELSE 3, << >>)
      BY <2>1 DEF ControlChecked
    <3> DEFINE T == {c \in Front.targets \ kept :
                       cards[c].loc = "MZONE" /\ cards[c].controler = 0}
               D == T \ crowded  s == IF T \subseteq crowded THEN 6 ELSE 3
               u == [[Front EXCEPT !.targets = D, !.rest = D, !.destroy_set = crowded]
                       EXCEPT !.step = s]
    <3>2. units' = << >> \o <<u>> \o Tail(units) BY <3>1 DEF GoOnAs
    <3>3. D \in SUBSET Cards /\ crowded \in SUBSET Cards /\ s \in {3, 6}
      BY <1>2 DEF ControlUnits
    <3> HIDE DEF D, s
    <3>4. u \in ControlUnits BY <1>2, <3>3 DEF ControlUnits
    <3> QED BY <3>2, <3>4, DoesNothing
  <2>2. CASE TakeControl
    <3>1. CASE Front.rest = {}
      <4> DEFINE u == [Front EXCEPT !.step = 5]
      <4>1. units' = << >> \o <<u>> \o Tail(units)
        BY <2>2, <3>1 DEF TakeControl, GoOn, GoOnAs
      <4>2. u \in ControlUnits BY <1>2 DEF ControlUnits
      <4> QED BY <4>1, <4>2, DoesNothing
    <3>2. CASE Front.rest # {}
      <4> DEFINE c == CHOOSE c \in Front.rest : TRUE
                 D == Front.rest \ {c}
                 b == MoveTo(c, 1, "MZONE", cards[c].facedown)
                 u == [[Front EXCEPT !.rest = D] EXCEPT !.step = 3]
      <4>1. units' = b \o <<u>> \o Tail(units)
        BY <1>2, <2>2, <3>2 DEF TakeControl, GoOnAs, ControlUnits
      <4>2. c \in Cards /\ D \in SUBSET Cards BY <1>2, <3>2 DEF ControlUnits
      <4>3. Does(b, {}, {})
        <5>1. cards[c].facedown \in BOOLEAN /\ "MZONE" \in OnField
          BY <1>1, <4>2 DEF Typed, CardsTyped, CardTyped, CardRecords, OnField
        <5> QED BY <4>2, <5>1, MovingDoes
      <4> HIDE DEF c, D, b
      <4>4. u \in ControlUnits BY <1>2, <4>2 DEF ControlUnits
      <4> QED BY <4>1, <4>3, <4>4
    <3> QED BY <3>1, <3>2
  <2>3. CASE ControlTaken
    <3> DEFINE D == {c \in Front.targets : ~Off(cards, c)}
               u == [[Front EXCEPT !.targets = D] EXCEPT !.step = 6]
    <3>1. units' = Events \o <<u>> \o Tail(units)
      BY <1>2, <2>3 DEF ControlTaken, GoOnAs, ControlUnits
    <3>2. D \in SUBSET Cards BY <1>2 DEF ControlUnits
    <3> HIDE DEF D
    <3>3. u \in ControlUnits BY <1>2, <3>2 DEF ControlUnits
    <3> QED BY <3>1, <3>3, EventsDo
  <2> QED BY <2>1, <2>2, <2>3
<1>6. PICK u \in ControlUnits : \E b : Does(b, {}, {}) /\ units' = b \o <<u>> \o Tail(units)
  BY <1>5
<1>7. /\ u \in Units /\ ~Asks(u) /\ ~Fights(u) /\ Claim(u) = {}
  BY DEF Units, Asks, Fights, Claim, ControlUnits
<1> QED BY <1>2, <1>3, <1>4, <1>6, <1>7, SameCards, CalmGoOn

(* What effects do that destroys nothing. *)
LEMMA ActFacts ==
  ASSUME Typed, NEW name, Act(name)
  PROVE  /\ units # << >> =>
              /\ Claim(Front) = {} /\ ~Clears(Front)
              /\ Leaving(Front) = {} /\ Falling(Front) = {}
         /\ acts' \in Nat
         /\ \A kind \in Kinds : NewReason(kind) \in Reasons /\ NewReason(kind).kind = kind
<1>1. units # << >> => Front.kind = "Effect" BY DEF Act, At
<1>2. acts \in Nat /\ acts' = acts + 1 BY DEF Act, Typed
<1>3. \A kind \in Kinds : NewReason(kind) \in Reasons BY <1>2, ReasonTyped DEF NewReason
<1>4. \A kind \in Kinds : NewReason(kind).kind = kind BY DEF NewReason, Reason
<1> QED BY <1>1, <1>2, <1>3, <1>4 DEF Claim, Clears, Leaving, Falling

LEMMA OneStarts ==
  ASSUME MovesInvariant, NEW name, Act(name), NEW u \in Units, Start(<<u>>),
         ~Asks(u), ~Fights(u), ~Clears(u), Leaving(u) = {}, Claim(u) = {},
         CardsTyped(cards'), \A c \in Cards : Same(cards'[c], cards[c]),
         UNCHANGED <<canceled, left, loose, setting, result>>
  PROVE  MovesInvariant'
<1>1. Typed BY DEF MovesInvariant
<1>2. units' = <<u>> \o Rest BY DEF Start, Rest
<1>3. Does(<<u>>, {}, Falling(u)) BY DoesOne
<1>4. /\ units # << >> =>
           /\ Claim(Front) = {} /\ ~Clears(Front)
           /\ Leaving(Front) = {} /\ Falling(Front) \subseteq Falling(u)
      /\ acts' \in Nat
  BY <1>1, ActFacts
<1>5. operated_set' \subseteq Cards /\ returns' \in BOOLEAN BY <1>1 DEF Typed, result
<1> QED BY <1>2, <1>3, <1>4, <1>5, CalmFinish

LEMMA StartsKept ==
  ASSUME MovesInvariant,
         \/ ReleaseCards \/ SendCards \/ SetCard \/ ControlCards \/ EquipCard
         \/ OverlayCards \/ DetachMaterials
  PROVE  MovesInvariant'
<1> USE DEF Asks, Fights, Clears, Leaving, Claim
<1>1. Typed /\ CardsTyped(cards) BY DEF MovesInvariant, Typed
<1>2. CASE ReleaseCards
  <2>1. PICK T \in SUBSET Cards, kind \in {"EFFECT", "COST"} :
          /\ cards' = Given(cards, T, NewReason(kind), "GRAVE")
          /\ Start(<<Release(T, NewReason(kind))>>)
    BY <1>2 DEF ReleaseCards, Chosen
  <2>2. Act("release") /\ UNCHANGED <<canceled, left, loose, setting, result>>
    BY <1>2 DEF ReleaseCards
  <2>3. NewReason(kind) \in Reasons BY <1>1, <2>2, ActFacts DEF Kinds
  <2>4. CardsTyped(cards') /\ \A c \in Cards : Same(cards'[c], cards[c])
    BY <1>1, <2>1, <2>3, GivenCards DEF Piles
  <2> DEFINE u == Release(T, NewReason(kind))
  <2>5. u \in Units /\ u.kind = "Release" BY <2>3, UnitsTyped DEF Release
  <2> HIDE DEF u
  <2>6. Start(<<u>>) BY <2>1 DEF u
  <2> QED BY <2>2, <2>4, <2>5, <2>6, OneStarts
<1>3. CASE SendCards
  <2>1. PICK T \in SUBSET Cards, dest \in {"HAND", "REMOVED"} :
          /\ cards' = Given(cards, T, NewReason("EFFECT"), dest)
          /\ Start(<<SendTo(0, T, NewReason("EFFECT"))>>)
    BY <1>3 DEF SendCards, Chosen
  <2>2. Act("send") /\ UNCHANGED <<canceled, left, loose, setting, result>>
    BY <1>3 DEF SendCards
  <2>3. NewReason("EFFECT") \in Reasons BY <1>1, <2>2, ActFacts DEF Kinds
  <2>4. CardsTyped(cards') /\ \A c \in Cards : Same(cards'[c], cards[c])
    BY <1>1, <2>1, <2>3, GivenCards DEF Piles
  <2> DEFINE u == SendTo(0, T, NewReason("EFFECT"))
  <2>5. u \in Units /\ u.kind = "SendTo" /\ u.step = 0 BY <2>3, UnitsTyped DEF SendTo
  <2> HIDE DEF u
  <2>6. Start(<<u>>) BY <2>1 DEF u
  <2> QED BY <2>2, <2>4, <2>5, <2>6, OneStarts
<1>4. CASE SetCard \/ ControlCards \/ EquipCard \/ OverlayCards \/ DetachMaterials
  <2>1. \E name : Act(name)
    BY <1>4 DEF SetCard, ControlCards, EquipCard, OverlayCards, DetachMaterials
  <2>2. UNCHANGED <<cards, canceled, left, loose, setting, result>>
    BY <1>4 DEF SetCard, ControlCards, EquipCard, OverlayCards, DetachMaterials
  <2>3. \E u \in Units : Start(<<u>>) /\ u.kind \in {"Pos", "Control", "Equip", "Xyz", "Detach"}
    <3>1. CASE SetCard BY <3>1, UnitsTyped DEF SetCard, ChangePos
    <3>2. CASE ControlCards
      <4>1. PICK T \in SUBSET Cards : Start(<<GetControl(T)>>)
        BY <3>2 DEF ControlCards, Chosen
      <4>2. GetControl(T) \in Units BY UnitsTyped
      <4> QED BY <4>1, <4>2 DEF GetControl
    <3>3. CASE EquipCard BY <3>3, UnitsTyped DEF EquipCard, Equip
    <3>4. CASE OverlayCards
      <4>1. PICK t \in Cards, send \in BOOLEAN, M \in SUBSET (Cards \ Tokens) :
              t \notin M /\ Start(<<XyzOverlay(t, M, send)>>)
        BY <3>4 DEF OverlayCards, Chosen
      <4>2. M \in SUBSET (Cards \ (Tokens \cup {t})) BY <4>1
      <4>3. XyzOverlay(t, M, send) \in Units BY <4>2, UnitsTyped
      <4> QED BY <4>1, <4>3 DEF XyzOverlay
    <3>5. CASE DetachMaterials BY <3>5, UnitsTyped DEF DetachMaterials, RemoveOverlay
    <3> QED BY <1>4, <3>1, <3>2, <3>3, <3>4, <3>5
  <2>4. PICK u \in Units : Start(<<u>>) /\ u.kind \in {"Pos", "Control", "Equip", "Xyz", "Detach"}
    BY <2>3
  <2> QED BY <1>1, <2>1, <2>2, <2>4, SameCards, OneStarts
<1> QED BY <1>2, <1>3, <1>4

LEMMA PlaceCardKept ==
  ASSUME MovesInvariant, PlaceCard
  PROVE  MovesInvariant'
<1>1. Typed /\ CardsTyped(cards') /\ Act("place")
      /\ UNCHANGED <<cards, canceled, left, loose, setting, result>>
  BY DEF MovesInvariant, Typed, PlaceCard
<1>2. PICK c \in Cards, loc \in OnField, down \in BOOLEAN :
        Start(MoveTo(c, 0, loc, down))
  BY DEF PlaceCard
<1>3. Does(MoveTo(c, 0, loc, down), {}, {}) BY MovingDoes
<1>4. units' = MoveTo(c, 0, loc, down) \o Rest BY <1>2 DEF Start, Rest
<1>5. /\ units # << >> =>
           /\ Claim(Front) = {} /\ ~Clears(Front)
           /\ Leaving(Front) = {} /\ Falling(Front) \subseteq {}
      /\ acts' \in Nat
  BY <1>1, ActFacts
<1>6. operated_set' \subseteq Cards /\ returns' \in BOOLEAN BY <1>1 DEF Typed, result
<1> QED BY <1>1, <1>3, <1>4, <1>5, <1>6, SameCards, CalmFinish

-----------------------------------------------------------------------------
(* Steps that destroy cards. *)

LEMMA Busy ==
  ASSUME MovesInvariant, units # << >>, NEW b, NEW u, NEW D \in SUBSET Cards, NEW F,
         Followed(b, u, D, F),
         \A c \in D : ~cards[c].confirmed \/ c \in destroy_canceled,
         \A c \in Cards : cards'[c].confirmed <=> cards[c].confirmed \/ c \in D,
         Claim(u) = Claim(Front), Clears(Front) => Clears(u),
         UNCHANGED <<destroy_canceled, battle_destroy_rep, left, setting>>
  PROVE  Status' /\ Sole'
<1>1. Typed /\ Stacked /\ Status /\ Sole BY DEF MovesInvariant
<1>2. /\ \A c : Held(units, c) <=> c \in Claim(Front) \/ Held(Rest, c)
      /\ Clearing(units) <=> Clears(Front) \/ Clearing(Rest)
      /\ Bare(units) => \A c : ~(c \in Claim(Front) /\ Held(Rest, c))
  BY <1>1, RestFacts
<1>3. /\ \A c : Held(units', c) <=> c \in D \/ Held(units, c)
      /\ Clearing(units) => Clearing(units')
  BY <1>2 DEF Followed
<1>4. Status' BY <1>1, <1>3, StatusKept
<1>5. Sole'
  <2> SUFFICES ASSUME NothingReplaced PROVE Sole' BY DEF Sole, NothingReplaced
  <2>1. /\ destroy_canceled = {} /\ battle_destroy_rep = {} /\ Bare(units)
        /\ \A c \in Cards : Held(units, c) => cards[c].confirmed
    BY <1>1 DEF Sole, Bare
  <2>2. \A c \in D : ~Held(units, c) BY <2>1
  <2>3. Bare(units') BY <1>2, <2>1, <2>2 DEF Followed
  <2>4. \A c \in Cards : Held(units', c) => cards'[c].confirmed BY <1>3, <2>1
  <2> QED BY <2>1, <2>3, <2>4 DEF Sole, Bare
<1> QED BY <1>4, <1>5

LEMMA BusyEnd ==
  ASSUME MovesInvariant, NEW b, NEW D \in SUBSET Cards, NEW F, Ended(b, D, F),
         \A c \in D : ~cards[c].confirmed \/ c \in destroy_canceled,
         \A c \in Cards : cards'[c].confirmed <=> cards[c].confirmed \/ c \in D,
         units # << >> => Claim(Front) = {} /\ ~Clears(Front),
         UNCHANGED <<destroy_canceled, battle_destroy_rep, left, setting>>
  PROVE  Status' /\ Sole'
<1>1. Typed /\ Stacked /\ Status /\ Sole BY DEF MovesInvariant
<1>2. (\A c : Held(units, c) <=> Held(Rest, c)) /\ (Clearing(units) <=> Clearing(Rest))
  <2>1. CASE units = << >>
    <3>1. Rest = units BY <2>1 DEF Rest
    <3> QED BY <3>1
  <2>2. CASE units # << >> BY <1>1, <2>2, RestFacts
  <2> QED BY <2>1, <2>2
<1>3. /\ \A c : Held(units', c) <=> c \in D \/ Held(units, c)
      /\ Clearing(units) => Clearing(units')
  BY <1>2 DEF Ended
<1>4. Status' BY <1>1, <1>3, StatusKept
<1>5. Sole'
  <2> SUFFICES ASSUME NothingReplaced PROVE Sole' BY DEF Sole, NothingReplaced
  <2>1. /\ destroy_canceled = {} /\ battle_destroy_rep = {} /\ Bare(units)
        /\ \A c \in Cards : Held(units, c) => cards[c].confirmed
    BY <1>1 DEF Sole, Bare
  <2>2. \A c \in D : ~Held(units, c) BY <2>1
  <2>3. Bare(units') BY <1>2, <2>1, <2>2 DEF Ended
  <2>4. \A c \in Cards : Held(units', c) => cards'[c].confirmed BY <1>3, <2>1
  <2> QED BY <2>1, <2>3, <2>4 DEF Sole, Bare
<1> QED BY <1>4, <1>5

(* What effects destroy. *)
LEMMA DestroyCardsKept ==
  ASSUME MovesInvariant, DestroyCards \/ SelfDestroy
  PROVE  MovesInvariant'
<1>1. Typed /\ Stacked /\ CardsTyped(cards) /\ Equipped /\ Overlaid
  BY DEF MovesInvariant, Typed
<1>2. \E name : Act(name) BY DEF DestroyCards, SelfDestroy
<1>3. UNCHANGED <<canceled, result, setting, left, loose>>
  BY DEF DestroyCards, SelfDestroy
<1>4. \E D \in SUBSET Cards, r \in Reasons :
        /\ r.kind # "BATTLE" /\ Start(<<Destroy(0, D, r)>>)
        /\ \A c \in D : ~cards[c].confirmed \/ c \in destroy_canceled
        /\ \E f : /\ CardsTyped(f) /\ \A c \in Cards : Same(f[c], cards[c])
                  /\ cards' = Confirmed(f, D, r)
  <2>1. CASE DestroyCards
    <3>1. PICK T \in SUBSET Cards :
            LET D == NotConfirmed(cards, T)  r == NewReason("EFFECT") IN
            cards' = Confirmed(cards, D, r) /\ Start(<<Destroy(0, D, r)>>)
      BY <2>1 DEF DestroyCards, Chosen
    <3> DEFINE D == NotConfirmed(cards, T)  r == NewReason("EFFECT")
    <3>2. D \in SUBSET Cards /\ \A c \in D : ~cards[c].confirmed \/ c \in destroy_canceled
      BY DEF NotConfirmed
    <3>3. r \in Reasons /\ r.kind # "BATTLE" BY <1>1, <1>2, ActFacts DEF Kinds
    <3>4. cards' = Confirmed(cards, D, r) /\ Start(<<Destroy(0, D, r)>>) BY <3>1
    <3>5. \A c \in Cards : Same(cards[c], cards[c]) BY DEF Same, Placement
    <3> HIDE DEF D, r
    <3> QED BY <1>1, <3>2, <3>3, <3>4, <3>5
  <2>2. CASE SelfDestroy
    <3>1. PICK c \in Cards :
            LET D == NotConfirmed(cards, {c})  r == NewReason("SELF") IN
            /\ cards' = Confirmed(Given(cards, {c} \ D, r, cards[c].dest), D, r)
            /\ Start(<<Destroy(0, D, r)>>)
      BY <2>2 DEF SelfDestroy
    <3> DEFINE D == NotConfirmed(cards, {c})  r == NewReason("SELF")
               f == Given(cards, {c} \ D, r, cards[c].dest)
    <3>2. D \in SUBSET Cards /\ \A d \in D : ~cards[d].confirmed \/ d \in destroy_canceled
      BY DEF NotConfirmed
    <3>3. r \in Reasons /\ r.kind # "BATTLE" /\ cards[c].dest \in Piles
      BY <1>1, <1>2, ActFacts DEF Kinds, CardsTyped, CardTyped, CardRecords
    <3>4. cards' = Confirmed(f, D, r) /\ Start(<<Destroy(0, D, r)>>) BY <3>1
    <3>5. CardsTyped(f) /\ \A d \in Cards : Same(f[d], cards[d])
      BY <1>1, <3>3, GivenCards
    <3> HIDE DEF D, r, f
    <3> QED BY <3>2, <3>3, <3>4, <3>5
  <2> QED BY <2>1, <2>2
<1>5. PICK D \in SUBSET Cards, r \in Reasons :
        /\ r.kind # "BATTLE" /\ Start(<<Destroy(0, D, r)>>)
        /\ \A c \in D : ~cards[c].confirmed \/ c \in destroy_canceled
        /\ \E f : /\ CardsTyped(f) /\ \A c \in Cards : Same(f[c], cards[c])
                  /\ cards' = Confirmed(f, D, r)
  BY <1>4
<1>6. PICK f : /\ CardsTyped(f) /\ \A c \in Cards : Same(f[c], cards[c])
               /\ cards' = Confirmed(f, D, r)
  BY <1>5
<1>7. /\ CardsTyped(cards')
      /\ \A c \in Cards :
           /\ Placement(cards'[c], cards[c])
           /\ cards'[c].equiping_target = cards[c].equiping_target
           /\ cards'[c].confirmed <=> cards[c].confirmed \/ c \in D
  <2>1. /\ CardsTyped(cards')
        /\ \A c \in Cards :
             /\ Placement(cards'[c], f[c])
             /\ cards'[c].equiping_target = f[c].equiping_target
             /\ cards'[c].confirmed <=> f[c].confirmed \/ c \in D
    BY <1>6, ConfirmedCards
  <2> QED BY <1>6, <2>1 DEF Same, Placement
<1> DEFINE b == <<Destroy(0, D, r)>>
<1>8. units' = b \o Rest /\ Does(b, D, {}) BY <1>5, DestroyDoes DEF Start, Rest
<1> HIDE DEF b
<1>9. Ended(b, D, {}) BY <1>1, <1>8, Finished
<1>10. /\ units # << >> =>
            /\ Claim(Front) = {} /\ ~Clears(Front)
            /\ Leaving(Front) = {} /\ Falling(Front) = {}
       /\ acts' \in Nat
  BY <1>1, <1>2, ActFacts
<1>11. Status' /\ Sole' BY <1>3, <1>5, <1>7, <1>9, <1>10, BusyEnd DEF canceled
<1>12. Equipped' /\ Overlaid'
  <2>1. (\A c : Leaves(units, c) => Leaves(Rest, c)) /\ \A c : Falls(units, c) => Falls(Rest, c)
    <3>1. CASE units = << >>
      <4>1. Rest = units BY <3>1 DEF Rest
      <4> QED BY <4>1
    <3>2. CASE units # << >> BY <1>1, <1>10, <3>2, RestFacts
    <3> QED BY <3>1, <3>2
  <2>2. /\ \A c : Leaves(units, c) => Leaves(units', c)
        /\ \A c : Falls(units, c) => Falls(units', c)
    BY <1>9, <2>1 DEF Ended
  <2> QED BY <1>1, <1>3, <1>7, <2>2, AttachedKept
<1>13. Typed' /\ Stacked'
  BY <1>1, <1>3, <1>7, <1>9, <1>10 DEF Typed, Ended, canceled, result
<1> QED BY <1>11, <1>12, <1>13 DEF MovesInvariant

LEMMA BusyGoOn ==
  ASSUME MovesInvariant, units # << >>, NEW b, NEW D \in SUBSET Cards, NEW F,
         Does(b, D, F), NEW u \in Units, ~Asks(u), units' = b \o <<u>> \o Tail(units),
         Fights(u) =>
           /\ Fights(Front)
           /\ (u.kind = "Destroy" /\ u.step \in 10 .. 12) <=>
                (Front.kind = "Destroy" /\ Front.step \in 10 .. 12),
         Claim(u) = Claim(Front), Clears(Front) => Clears(u),
         Leaving(Front) \subseteq Leaving(u), Falling(Front) \subseteq Falling(u),
         \A c \in D : ~cards[c].confirmed \/ c \in destroy_canceled,
         NEW r \in Reasons, cards' = Confirmed(cards, D, r),
         UNCHANGED <<canceled, result, left, loose, setting, acts>>
  PROVE  MovesInvariant'
<1>1. Typed /\ Stacked /\ CardsTyped(cards) /\ Equipped /\ Overlaid
  BY DEF MovesInvariant, Typed
<1>2. Followed(b, u, D, F) BY <1>1, Continued
<1>3. /\ CardsTyped(cards')
      /\ \A c \in Cards :
           /\ Placement(cards'[c], cards[c])
           /\ cards'[c].equiping_target = cards[c].equiping_target
           /\ cards'[c].confirmed <=> cards[c].confirmed \/ c \in D
  BY <1>1, ConfirmedCards
<1>4. Status' /\ Sole' BY <1>2, <1>3, Busy DEF canceled
<1>5. Equipped' /\ Overlaid'
  <2>1. /\ \A c : Leaves(units, c) => Leaves(units', c)
        /\ \A c : Falls(units, c) => Falls(units', c)
    BY <1>1, <1>2, RestFacts DEF Followed
  <2> QED BY <1>1, <1>3, <2>1, AttachedKept
<1>6. Typed' /\ Stacked' BY <1>1, <1>2, <1>3 DEF Typed, Followed, canceled, result
<1> QED BY <1>4, <1>5, <1>6 DEF MovesInvariant

LEMMA CrowdedDestroyedKept ==
  ASSUME MovesInvariant, CrowdedDestroyed
  PROVE  MovesInvariant'
<1>1. Typed BY DEF MovesInvariant
<1>2. /\ units # << >> /\ Front \in ControlUnits /\ Front.kind = "Control"
      /\ Front.step = 6
  BY <1>1, AtFront, KindOf DEF CrowdedDestroyed
<1> DEFINE D == NotConfirmed(cards, Front.destroy_set)
           b == IF Front.destroy_set = {} THEN << >> ELSE <<Destroy(0, D, Rule)>>
           u == [Front EXCEPT !.step = 7]
<1>3. units' = b \o <<u>> \o Tail(units) /\ cards' = Confirmed(cards, D, Rule)
  BY DEF CrowdedDestroyed, GoOn, GoOnAs
<1>4. /\ D \in SUBSET Cards /\ D \subseteq Front.destroy_set
      /\ \A c \in D : ~cards[c].confirmed \/ c \in destroy_canceled
  BY <1>2 DEF NotConfirmed, ControlUnits
<1>5. Does(b, D, {}) BY <1>4, DestroyDoesAny
<1>6. u \in ControlUnits BY <1>2 DEF ControlUnits
<1> HIDE DEF D, b, u
<1>7. /\ u \in Units /\ ~Asks(u) /\ ~Fights(u) /\ Claim(u) = Claim(Front)
      /\ ~Clears(Front) /\ Leaving(Front) = {} /\ Falling(Front) = {}
  BY <1>2, <1>6 DEF Units, ControlUnits, Asks, Fights, Claim, Clears, Leaving, Falling
<1>8. UNCHANGED <<canceled, result, left, loose, setting, acts>>
  BY DEF CrowdedDestroyed, history
<1> QED BY <1>2, <1>3, <1>4, <1>5, <1>7, <1>8, ReasonTyped, BusyGoOn

LEMMA BattleReplacedKept ==
  ASSUME MovesInvariant, BattleReplaced
  PROVE  MovesInvariant'
<1>1. Typed BY DEF MovesInvariant
<1>2. units # << >> /\ Front \in BattleUnits /\ Front.kind = "Battle" /\ Front.step = 29
  BY <1>1, AtFront, KindOf DEF BattleReplaced
<1> DEFINE r == Flagged(Reason("EFFECT", 0), "REPLACE")
           D == NotConfirmed(cards, battle_destroy_rep)
           d == IF battle_destroy_rep = {} THEN << >> ELSE <<Destroy(0, D, r)>>
           e == IF desrep_chain = 0 THEN << >> ELSE <<OperationReplace(15, None)>>
           b == d \o e
           u == [Front EXCEPT !.step = 30]
<1>3. units' = b \o <<u>> \o Tail(units) /\ cards' = Confirmed(cards, D, r)
  BY DEF BattleReplaced, GoOn, GoOnAs
<1>4. r \in Reasons /\ r.kind # "BATTLE" BY DEF Reasons, Flagged, Reason, Kinds, Flags
<1>5. /\ D \in SUBSET Cards /\ D \subseteq battle_destroy_rep
      /\ \A c \in D : ~cards[c].confirmed \/ c \in destroy_canceled
  BY <1>1 DEF NotConfirmed, Typed
<1>6. u \in BattleUnits /\ u.step = 30 /\ u.targets = Front.targets
  BY <1>2 DEF BattleUnits
<1> HIDE DEF D, r, u
<1>7. Does(d, D, {})
  <2>1. CASE battle_destroy_rep = {}
    <3>1. D = {} BY <1>5, <2>1
    <3> QED BY <2>1, <3>1, DoesNothing
  <2>2. CASE battle_destroy_rep # {} BY <1>4, <1>5, <2>2, DestroyDoes
  <2> QED BY <2>1, <2>2
<1>8. Does(e, {}, {})
  <2> DEFINE o == OperationReplace(15, None)
  <2>1. o \in Units BY UnitsTyped
  <2>2. /\ ~Asks(o) /\ ~Fights(o) /\ ~Clears(o) /\ Leaving(o) = {}
        /\ Claim(o) = {} /\ Falling(o) = {}
    BY DEF OperationReplace, Asks, Fights, Clears, Leaving, Claim, Falling
  <2> HIDE DEF o
  <2>3. Does(<<o>>, {}, {}) BY <2>1, <2>2, DoesOne
  <2> QED BY <2>3, DoesNothing DEF o
<1> HIDE DEF d, e
<1>9. Does(b, D, {})
  <2>1. Does(b, D \cup {}, {} \cup {}) BY <1>7, <1>8, DoesBoth
  <2>2. D \cup {} = D /\ {} \cup {} = {} OBVIOUS
  <2> QED BY <2>1, <2>2
<1> HIDE DEF b
<1>10. /\ u \in Units /\ ~Asks(u) /\ Fights(Front) /\ u.kind = "Battle" /\ Claim(u) = Claim(Front)
       /\ ~Clears(Front) /\ Leaving(Front) = {} /\ Falling(Front) = {}
  BY <1>2, <1>6 DEF Units, BattleUnits, Asks, Fights, Claim, Clears, Leaving, Falling
<1>11. UNCHANGED <<canceled, result, left, loose, setting, acts>>
  BY DEF BattleReplaced, history
<1> QED BY <1>2, <1>3, <1>4, <1>5, <1>9, <1>10, <1>11, BusyGoOn

LEMMA MaterialsSentKept ==
  ASSUME MovesInvariant, MaterialsSent \/ MaterialsDetached
  PROVE  MovesInvariant'
<1>1. Typed /\ CardsTyped(cards) /\ acts \in Nat BY DEF MovesInvariant, Typed
<1>2. UNCHANGED <<canceled, result, left, loose, setting, acts>>
  BY DEF MaterialsSent, MaterialsDetached, history
<1>3. operated_set' \subseteq Cards /\ returns' \in BOOLEAN /\ acts' \in Nat
  BY <1>1, <1>2 DEF Typed, result
<1>4. CASE MaterialsSent
  <2>1. units # << >> /\ Front \in OverlayUnits /\ Front.kind = "Xyz" /\ Front.step = 0
    BY <1>1, <1>4, AtFront, KindOf DEF MaterialsSent
  <2> DEFINE over == Materials(cards, Front.materials)
             b == IF Front.to_grave THEN <<SendTo(0, over, Rule)>> ELSE << >>
             u == [Front EXCEPT !.step = 1]
  <2>2. /\ units' = b \o <<u>> \o Tail(units)
        /\ cards' = IF Front.to_grave THEN Given(cards, over, Rule, "GRAVE") ELSE cards
    BY <1>4 DEF MaterialsSent, GoOn, GoOnAs
  <2>3. over \in SUBSET Cards /\ Rule \in Reasons BY ReasonTyped DEF Materials
  <2>4. u \in OverlayUnits BY <2>1 DEF OverlayUnits
  <2> HIDE DEF over, u
  <2>5. \E F : Does(b, {}, F) BY <2>3, SendDoes, DoesNothing
  <2>6. CardsTyped(cards') /\ \A c \in Cards : Same(cards'[c], cards[c])
    <3>1. CASE Front.to_grave BY <1>1, <2>2, <2>3, <3>1, GivenCards DEF Piles
    <3>2. CASE ~Front.to_grave BY <1>1, <2>2, <3>2, SameCards
    <3> QED BY <3>1, <3>2
  <2> HIDE DEF b
  <2>7. /\ u \in Units /\ ~Asks(u) /\ ~Fights(u) /\ Claim(u) = Claim(Front)
        /\ ~Clears(Front) /\ Leaving(Front) = {} /\ Falling(Front) = {}
    BY <2>1, <2>4 DEF Units, OverlayUnits, Asks, Fights, Claim, Clears, Leaving, Falling
  <2> QED BY <1>2, <1>3, <2>1, <2>2, <2>5, <2>6, <2>7, CalmGoOn
<1>5. CASE At("Detach", 2) /\ MaterialsDetached
  <2>1. units # << >> /\ Front \in DetachUnits /\ Front.kind = "Detach" /\ Front.step = 2
    BY <1>1, <1>5, AtFront, KindOf
  <2> DEFINE r == Reason("COST", acts)  u == [Front EXCEPT !.step = 4]
  <2>2. PICK M \in SUBSET Cards :
          /\ cards' = Given(cards, M, r, "GRAVE")
          /\ units' = <<SendTo(0, M, r)>> \o <<u>> \o Tail(units)
    BY <1>5, <2>1 DEF MaterialsDetached, GoOn, GoOnAs, Materials, At
  <2>3. r \in Reasons BY <1>1, ReasonTyped DEF Kinds
  <2>4. u \in DetachUnits BY <2>1 DEF DetachUnits
  <2> HIDE DEF r, u
  <2>5. \E F : Does(<<SendTo(0, M, r)>>, {}, F) BY <2>3, SendDoes
  <2>6. CardsTyped(cards') /\ \A c \in Cards : Same(cards'[c], cards[c])
    BY <1>1, <2>2, <2>3, GivenCards DEF Piles
  <2>7. /\ u \in Units /\ ~Asks(u) /\ ~Fights(u) /\ Claim(u) = Claim(Front)
        /\ ~Clears(Front) /\ Leaving(Front) = {} /\ Falling(Front) = {}
    BY <2>1, <2>4 DEF Units, DetachUnits, Asks, Fights, Claim, Clears, Leaving, Falling
  <2> QED BY <1>2, <1>3, <2>1, <2>2, <2>5, <2>6, <2>7, CalmGoOn
<1>6. CASE At("Detach", 4) /\ MaterialsDetached
  <2>1. units # << >> /\ Front.kind = "Detach" /\ Front.step = 4 BY <1>1, <1>6, AtFront
  <2>2. Finish(<< >>) /\ UNCHANGED cards BY <1>6, <2>1 DEF MaterialsDetached, At
  <2>3. Claim(Front) = {} /\ ~Clears(Front) /\ Leaving(Front) = {} /\ Falling(Front) = {}
    BY <2>1 DEF Claim, Clears, Leaving, Falling
  <2> QED BY <1>2, <1>3, <2>1, <2>2, <2>3, FinishNothing
<1> QED BY <1>4, <1>5, <1>6 DEF MaterialsDetached

-----------------------------------------------------------------------------
(* Steps that turn cards, place them or attach them. *)

(* The same of a step that turns cards face up. *)
LEMMA AttachedOpened ==
  ASSUME Typed, Equipped, Overlaid, UNCHANGED <<loose, setting>>,
         \A c \in Cards :
           /\ cards'[c].loc = cards[c].loc
           /\ cards'[c].facedown => cards[c].facedown
           /\ cards'[c].overlay_target = cards[c].overlay_target
           /\ cards'[c].equiping_target \in {None, cards[c].equiping_target},
         \A c : Leaves(units, c) => Leaves(units', c),
         NothingReplaced => \A c : Falls(units, c) => Falls(units', c)
  PROVE  Equipped' /\ Overlaid'
<1>1. /\ \A c \in Cards : cards[c].equiping_target \in Cards \cup {None}
      /\ \A c \in Cards : cards[c].overlay_target \in Cards \cup {None}
  BY DEF Typed, CardsTyped, CardTyped, CardRecords
<1>2. \A c \in Cards : Carries(c) => Carries(c)' BY DEF Carries
<1>3. Equipped' BY <1>1, <1>2 DEF Equipped
<1>4. NothingReplaced' = NothingReplaced BY DEF NothingReplaced
<1>5. Overlaid' BY <1>1, <1>4 DEF Overlaid
<1> QED BY <1>3, <1>5

LEMMA EquipPlacedKept ==
  ASSUME MovesInvariant, EquipPlaced
  PROVE  MovesInvariant'
<1>1. Typed /\ Stacked /\ CardsTyped(cards) /\ Equipped /\ Overlaid
  BY DEF MovesInvariant, Typed
<1>2. units # << >> /\ Front \in EquipUnits /\ Front.kind = "Equip" /\ Front.step = 0
  BY <1>1, AtFront, KindOf DEF EquipPlaced
<1>3. /\ UNCHANGED <<canceled, operated_set, left, loose, setting, acts>>
      /\ returns' \in BOOLEAN
  BY DEF EquipPlaced, history
<1>4. ~Clears(Front) /\ Claim(Front) = {} /\ Leaving(Front) = {} /\ Falling(Front) = {}
  BY <1>2 DEF Clears, Claim, Leaving, Falling
<1> DEFINE c == Front.equip_card  x == cards[c]
<1>5. c \in Cards /\ CardTyped(x, c)
  BY <1>1, <1>2, ConstantsAssumption DEF EquipUnits, CardsTyped
<1> DEFINE Turned ==
             /\ \E u \in EquipUnits : \E b : \E F :
                  Does(b, {}, F) /\ units' = b \o <<u>> \o Tail(units)
             /\ CardsTyped(cards')
             /\ \A d \in Cards :
                  /\ cards'[d].loc = cards[d].loc
                  /\ cards'[d].facedown => cards[d].facedown
                  /\ cards'[d].overlay_target = cards[d].overlay_target
                  /\ cards'[d].equiping_target \in {None, cards[d].equiping_target}
                  /\ cards'[d].confirmed = cards[d].confirmed
<1>6. Turned
  <2>1. ASSUME NEW b, NEW F, NEW s \in {1, 3}, Does(b, {}, F), GoOn(s, b)
        PROVE  \E u \in EquipUnits : \E bb : \E FF :
                 Does(bb, {}, FF) /\ units' = bb \o <<u>> \o Tail(units)
    <3> DEFINE u == [Front EXCEPT !.step = s]
    <3>1. u \in EquipUnits BY <1>2 DEF EquipUnits
    <3>2. units' = b \o <<u>> \o Tail(units) BY <2>1 DEF GoOn, GoOnAs
    <3> HIDE DEF u
    <3> QED BY <2>1, <3>1, <3>2
  <2>2. CASE /\ ~Carries(Front.target) \/ x.loc # "SZONE"
             /\ cards' = IF x.loc = "GRAVE" THEN cards ELSE Given(cards, {c}, Rule, "GRAVE")
             /\ GoOn(3, IF x.loc = "GRAVE" THEN << >> ELSE <<SendTo(0, {c}, Rule)>>)
    <3> DEFINE b == IF x.loc = "GRAVE" THEN << >> ELSE <<SendTo(0, {c}, Rule)>>
    <3>1. \E F : Does(b, {}, F) BY <1>5, SendDoes, DoesNothing, ReasonTyped
    <3>2. GoOn(3, b) BY <2>2
    <3> HIDE DEF b
    <3>3. CardsTyped(cards') /\ \A d \in Cards : Same(cards'[d], cards[d])
      <4>1. CASE x.loc = "GRAVE" BY <1>1, <2>2, <4>1, SameCards
      <4>2. CASE x.loc # "GRAVE"
        <5>1. cards' = Given(cards, {c}, Rule, "GRAVE") BY <2>2, <4>2
        <5> QED BY <1>1, <5>1, ReasonTyped, GivenCards DEF Piles
      <4> QED BY <4>1, <4>2
    <3>4. PICK s \in {1, 3} : s = 3 OBVIOUS
    <3> QED BY <2>1, <3>1, <3>2, <3>3, <3>4 DEF Same, Placement
  <2>3. ASSUME NEW down \in {FALSE, x.facedown},
               cards' = [cards EXCEPT ![c] =
                 IF x.equiping_target # None THEN [x EXCEPT !.equiping_target = None]
                 ELSE IF x.loc = "SZONE" THEN [x EXCEPT !.facedown = down]
                 ELSE x],
               GoOn(1, IF x.equiping_target # None THEN << >>
                       ELSE MoveTo(c, 0, "SZONE", down))
        PROVE  Turned
    <3> DEFINE b == IF x.equiping_target # None THEN << >>
                    ELSE MoveTo(c, 0, "SZONE", down)
               y == IF x.equiping_target # None THEN [x EXCEPT !.equiping_target = None]
                    ELSE IF x.loc = "SZONE" THEN [x EXCEPT !.facedown = down]
                    ELSE x
    <3>1. Does(b, {}, {})
      <4>1. down \in BOOLEAN BY <1>5 DEF CardTyped, CardRecords
      <4> QED BY <1>5, <4>1, MovingDoes, DoesNothing DEF OnField
    <3>2. GoOn(1, b) BY <2>3
    <3> HIDE DEF b
    <3>3. /\ CardTyped(y, c)
          /\ y.loc = x.loc /\ (y.facedown => x.facedown)
          /\ y.overlay_target = x.overlay_target
          /\ y.equiping_target \in {None, x.equiping_target}
          /\ y.confirmed = x.confirmed
      BY <1>5 DEF CardTyped, CardRecords
    <3>4. cards' = [cards EXCEPT ![c] = y] BY <2>3
    <3> HIDE DEF y
    <3>5. /\ DOMAIN cards' = Cards /\ cards' = [d \in Cards |-> cards'[d]]
          /\ \A d \in Cards : cards'[d] = IF d = c THEN y ELSE cards[d]
      BY <1>1, <3>4 DEF CardsTyped
    <3>6. CardsTyped(cards')
      <4>1. \A d \in Cards : CardTyped(cards'[d], d) BY <1>1, <3>3, <3>5 DEF CardsTyped
      <4> QED BY <3>5, <4>1 DEF CardsTyped, CardTyped
    <3>7. PICK s \in {1, 3} : s = 1 OBVIOUS
    <3> HIDE DEF c
    <3> QED BY <2>1, <3>1, <3>2, <3>3, <3>5, <3>6, <3>7
  <2> QED BY <2>2, <2>3 DEF EquipPlaced
<1>7. PICK u \in EquipUnits : \E b : \E F :
        Does(b, {}, F) /\ units' = b \o <<u>> \o Tail(units)
  BY <1>6
<1>8. PICK b, F : Does(b, {}, F) /\ units' = b \o <<u>> \o Tail(units) BY <1>7
<1>9. u \in Units /\ ~Asks(u) /\ ~Fights(u) /\ Claim(u) = {}
  BY DEF Units, Asks, Fights, Claim, EquipUnits
<1>10. Followed(b, u, {}, F) BY <1>1, <1>2, <1>8, <1>9, Continued
<1>11. Status' /\ Sole' BY <1>2, <1>3, <1>4, <1>6, <1>9, <1>10, Busy DEF canceled
<1>12. Equipped' /\ Overlaid'
  <2>1. /\ \A d : Leaves(units, d) => Leaves(units', d)
        /\ \A d : Falls(units, d) => Falls(units', d)
    BY <1>1, <1>2, <1>4, <1>10, RestFacts DEF Followed
  <2> QED BY <1>1, <1>3, <1>6, <2>1, AttachedOpened
<1>13. Typed' /\ Stacked' BY <1>1, <1>3, <1>6, <1>10 DEF Typed, Followed, canceled
<1> QED BY <1>11, <1>12, <1>13 DEF MovesInvariant

LEMMA EquipAttachedKept ==
  ASSUME MovesInvariant, EquipAttached
  PROVE  MovesInvariant'
<1>1. Typed /\ Stacked /\ CardsTyped(cards) /\ Equipped /\ Overlaid
  BY DEF MovesInvariant, Typed
<1>2. units # << >> /\ Front \in EquipUnits /\ Front.kind = "Equip" /\ Front.step = 1
  BY <1>1, AtFront, KindOf DEF EquipAttached
<1>3. UNCHANGED <<canceled, result, left, setting, acts>> BY DEF EquipAttached
<1>4. ~Clears(Front) /\ Claim(Front) = {} /\ Leaving(Front) = {} /\ Falling(Front) = {}
  BY <1>2 DEF Clears, Claim, Leaving, Falling
<1> DEFINE c == Front.equip_card  t == Front.target  u == [Front EXCEPT !.step = 2]
<1>5. c \in Cards /\ t \in Cards /\ t # None /\ u \in EquipUnits
  BY <1>1, <1>2, ConstantsAssumption DEF EquipUnits
<1>6. units' = Events \o <<u>> \o Tail(units) BY DEF EquipAttached, GoOn, GoOnAs
<1>7. /\ loose \subseteq loose' /\ loose' \subseteq Cards
      /\ \/ UNCHANGED cards
         \/ /\ cards' = [cards EXCEPT ![c].equiping_target = t]
            /\ c \in loose' \/ (cards[c].loc = "SZONE" /\ Carries(t))
  BY <1>1, <1>5 DEF EquipAttached, Loose, Typed
<1> HIDE DEF c, t, u
<1>8. /\ CardsTyped(cards')
      /\ \A d \in Cards :
           /\ Placement(cards'[d], cards[d]) /\ cards'[d].confirmed = cards[d].confirmed
           /\ \/ cards'[d].equiping_target = cards[d].equiping_target
              \/ /\ d = c /\ cards'[d].equiping_target = t
                 /\ c \in loose' \/ (cards[c].loc = "SZONE" /\ Carries(t))
  <2>1. CASE UNCHANGED cards BY <1>1, <2>1 DEF Placement
  <2>2. CASE /\ cards' = [cards EXCEPT ![c].equiping_target = t]
             /\ c \in loose' \/ (cards[c].loc = "SZONE" /\ Carries(t))
    <3> DEFINE x == cards[c]  y == [x EXCEPT !.equiping_target = t]
    <3>1. CardTyped(x, c) BY <1>1, <1>5 DEF CardsTyped
    <3>2. CardTyped(y, c) /\ Placement(y, x) /\ y.confirmed = x.confirmed
          /\ y.equiping_target = t
      BY <1>5, <3>1 DEF CardTyped, CardRecords, Placement
    <3>3. cards' = [cards EXCEPT ![c] = y] BY <1>1, <1>5, <2>2 DEF CardsTyped
    <3> HIDE DEF y
    <3>4. /\ DOMAIN cards' = Cards /\ cards' = [d \in Cards |-> cards'[d]]
          /\ \A d \in Cards : cards'[d] = IF d = c THEN y ELSE cards[d]
      BY <1>1, <3>3 DEF CardsTyped
    <3>5. CardsTyped(cards')
      <4>1. \A d \in Cards : CardTyped(cards'[d], d) BY <1>1, <3>2, <3>4 DEF CardsTyped
      <4> QED BY <3>4, <4>1 DEF CardsTyped, CardTyped
    <3> QED BY <2>2, <3>2, <3>4, <3>5 DEF Placement
  <2> QED BY <1>7, <2>1, <2>2
<1>9. u \in Units /\ ~Asks(u) /\ ~Fights(u) /\ Claim(u) = {}
  BY <1>5 DEF Units, Asks, Fights, Claim, EquipUnits
<1>10. Followed(Events, u, {}, {}) BY <1>1, <1>2, <1>6, <1>9, EventsDo, Continued
<1>11. Status' /\ Sole' BY <1>2, <1>3, <1>4, <1>8, <1>9, <1>10, Busy DEF canceled
<1>12. /\ \A d : Leaves(units, d) => Leaves(units', d)
       /\ \A d : Falls(units, d) => Falls(units', d)
  BY <1>1, <1>2, <1>4, <1>10, RestFacts DEF Followed
<1>13. Equipped'
  <2>1. \A d \in Cards : Carries(d) => Carries(d)' BY <1>8 DEF Carries, Placement
  <2> SUFFICES ASSUME NEW d \in Cards \ loose', cards'[d].equiping_target # None
               PROVE  /\ cards'[d].loc = "SZONE" \/ Leaves(units', d)
                      /\ \/ Carries(cards[d].equiping_target)'
                         \/ Leaves(units', cards'[d].equiping_target)
    BY DEF Equipped
  <2>2. CASE cards'[d].equiping_target = cards[d].equiping_target
    <3>1. cards[d].equiping_target \in Cards
      BY <1>1, <2>2 DEF CardsTyped, CardTyped, CardRecords
    <3>2. /\ cards[d].loc = "SZONE" \/ Leaves(units, d)
          /\ Carries(cards[d].equiping_target) \/ Leaves(units, cards[d].equiping_target)
      BY <1>1, <1>7, <2>2 DEF Equipped
    <3>3. Carries(cards[d].equiping_target)' \/ Leaves(units', cards[d].equiping_target)
      <4> DEFINE e == cards[d].equiping_target
      <4>1. CASE Carries(e)
        <5>1. cards[e].loc = "MZONE" /\ ~cards[e].facedown /\ Placement(cards'[e], cards[e])
          BY <1>8, <3>1, <4>1 DEF Carries
        <5> QED BY <2>2, <5>1 DEF Carries, Placement
      <4>2. CASE Leaves(units, e) BY <1>12, <4>2
      <4> QED BY <3>2, <4>1, <4>2
    <3> QED BY <1>8, <1>12, <2>2, <3>2, <3>3 DEF Placement
  <2>3. CASE d = c /\ cards'[d].equiping_target = t /\ cards[c].loc = "SZONE" /\ Carries(t)
    BY <1>5, <1>8, <2>3 DEF Placement, Carries
  <2> QED BY <1>8, <2>2, <2>3
<1>14. Overlaid'
  <2>1. NothingReplaced' = NothingReplaced BY <1>3 DEF NothingReplaced
  <2>2. \A d \in Cards : cards[d].overlay_target \in Cards \cup {None}
    BY <1>1 DEF CardsTyped, CardTyped, CardRecords
  <2> QED BY <1>1, <1>7, <1>8, <1>12, <2>1, <2>2 DEF Overlaid, Placement
<1>15. Typed' /\ Stacked'
  BY <1>1, <1>3, <1>7, <1>8, <1>10 DEF Typed, Followed, canceled, result
<1> QED BY <1>11, <1>13, <1>14, <1>15 DEF MovesInvariant

(* Some cards are set face-down, and their equips destroyed. *)
LEMMA PositionsChangedKept ==
  ASSUME MovesInvariant, PositionsChanged
  PROVE  MovesInvariant'
<1>1. Typed /\ Stacked /\ CardsTyped(cards) /\ Equipped /\ Overlaid
  BY DEF MovesInvariant, Typed
<1>2. units # << >> /\ Front \in PosUnits /\ Front.kind = "Pos" /\ Front.step = 0
  BY <1>1, AtFront, KindOf DEF PositionsChanged
<1>3. UNCHANGED <<canceled, result, left, loose, setting, acts>>
  BY DEF PositionsChanged, history
<1>4. ~Clears(Front) /\ Claim(Front) = {} /\ Leaving(Front) = {} /\ Falling(Front) = {}
  BY <1>2 DEF Clears, Claim, Leaving, Falling
<1>5. PICK kept \in SUBSET Front.targets, crowded \in SUBSET TrapMonsters :
        LET T == {c \in Front.targets \ kept : CanBeSet(c)}
            traps == {c \in T \cap TrapMonsters : cards[c].loc = "MZONE"}
            down == T \ (Tokens \cup crowded)
            set == Change(cards, down, LAMBDA x : [x EXCEPT !.facedown = TRUE])
            equips == EquipsOf(cards, down)
            des == NotConfirmed(cards, equips)
            ToSpellZone(c) == MoveToField(c, cards[c].controler, "SZONE", TRUE)
        IN /\ crowded \subseteq traps
           /\ cards' = Given(Confirmed(Unequipped(set, down \cup equips), des, Rule),
                             crowded, Rule, "GRAVE")
           /\ GoOnAs([Front EXCEPT !.targets = T \ crowded], 5,
                 Each(ToSpellZone, traps \ crowded) \o Events
                 \o (IF equips = {} THEN << >> ELSE <<Destroy(0, des, Rule)>>)
                 \o (IF crowded = {} THEN << >> ELSE <<SendTo(0, crowded, Rule)>>))
  BY DEF PositionsChanged
<1> DEFINE T == {c \in Front.targets \ kept : CanBeSet(c)}
           traps == {c \in T \cap TrapMonsters : cards[c].loc = "MZONE"}
           S == T \ (Tokens \cup crowded)
           set == Change(cards, S, LAMBDA x : [x EXCEPT !.facedown = TRUE])
           equips == EquipsOf(cards, S)
           D == NotConfirmed(cards, equips)
           free == Unequipped(set, S \cup equips)
           sure == Confirmed(free, D, Rule)
           e1 == Seqs!SetToSeq({MoveToField(c, cards[c].controler, "SZONE", TRUE) :
                                  c \in traps \ crowded})
           d1 == IF equips = {} THEN << >> ELSE <<Destroy(0, D, Rule)>>
           s1 == IF crowded = {} THEN << >> ELSE <<SendTo(0, crowded, Rule)>>
           b == ((e1 \o Events) \o d1) \o s1
           rest == T \ crowded
           u == [[Front EXCEPT !.targets = rest] EXCEPT !.step = 5]
<1>6. /\ units' = b \o <<u>> \o Tail(units)
      /\ cards' = Given(sure, crowded, Rule, "GRAVE")
  BY <1>5 DEF GoOnAs, Each
<1>7. T \in SUBSET Cards /\ rest \in SUBSET Cards /\ crowded \in SUBSET Cards
  BY <1>2, ConstantsAssumption DEF PosUnits
<1>8. u \in PosUnits
  <2> HIDE DEF T, rest
  <2>1. [Front EXCEPT !.targets = rest] \in PosUnits BY <1>2, <1>7 DEF PosUnits
  <2> QED BY <2>1 DEF PosUnits
<1>9. /\ equips \in SUBSET Cards /\ S \in SUBSET Cards
      /\ \A d \in Cards : d \in equips <=> cards[d].equiping_target \in S
  BY <1>7 DEF EquipsOf
<1>10. /\ D \in SUBSET Cards /\ D \subseteq equips
       /\ \A c \in D : ~cards[c].confirmed \/ c \in destroy_canceled
  BY <1>9 DEF NotConfirmed
<1>11. Does(b, D, crowded)
  <2>1. Does(e1, {}, {}) BY <1>1, <1>7, EachMovedDoes
  <2>2. Does(d1, D, {}) /\ Does(s1, {}, crowded)
    BY <1>7, <1>10, DestroyDoesAny, SendDoesAny
  <2> HIDE DEF e1, d1, s1, D
  <2>3. Does(e1 \o Events, {}, {})
    <3>1. Does(e1 \o Events, {} \cup {}, {} \cup {}) BY <2>1, EventsDo, DoesBoth
    <3> QED BY <3>1
  <2>4. Does((e1 \o Events) \o d1, {} \cup D, {} \cup {}) BY <2>2, <2>3, DoesBoth
  <2>5. Does(b, ({} \cup D) \cup {}, ({} \cup {}) \cup crowded) BY <2>2, <2>4, DoesBoth
  <2>6. ({} \cup D) \cup {} = D /\ ({} \cup {}) \cup crowded = crowded OBVIOUS
  <2> QED BY <2>5, <2>6
<1>12. /\ CardsTyped(set)
       /\ \A d \in Cards :
            /\ set[d].loc = cards[d].loc /\ set[d].confirmed = cards[d].confirmed
            /\ set[d].overlay_target = cards[d].overlay_target
            /\ set[d].equiping_target = cards[d].equiping_target
            /\ d \notin S => set[d].facedown = cards[d].facedown
  <2> HIDE DEF S
  <2>1. /\ DOMAIN set = Cards /\ set = [d \in Cards |-> set[d]]
        /\ \A d \in Cards : set[d] = IF d \in S THEN [cards[d] EXCEPT !.facedown = TRUE]
                                     ELSE cards[d]
    BY DEF Change
  <2> HIDE DEF set
  <2>2. ASSUME NEW d \in Cards
        PROVE  /\ CardTyped(set[d], d)
               /\ set[d].loc = cards[d].loc /\ set[d].confirmed = cards[d].confirmed
               /\ set[d].overlay_target = cards[d].overlay_target
               /\ set[d].equiping_target = cards[d].equiping_target
               /\ d \notin S => set[d].facedown = cards[d].facedown
    <3>1. CardTyped(cards[d], d) BY <1>1 DEF CardsTyped
    <3> QED BY <2>1, <3>1 DEF CardTyped, CardRecords
  <2> QED BY <2>1, <2>2 DEF CardsTyped, CardTyped
<1> HIDE DEF T, traps, rest, S, set, equips, D, b, u
<1>13. /\ CardsTyped(free)
       /\ \A d \in Cards :
            /\ Placement(free[d], set[d]) /\ free[d].confirmed = set[d].confirmed
            /\ free[d].equiping_target =
                 IF d \in S \cup equips THEN None ELSE set[d].equiping_target
  BY <1>12, UnequippedCards
<1> HIDE DEF free
<1>14. /\ CardsTyped(cards')
       /\ \A d \in Cards :
            /\ Placement(cards'[d], free[d])
            /\ cards'[d].equiping_target = free[d].equiping_target
            /\ cards'[d].confirmed <=> free[d].confirmed \/ d \in D
  <2>1. /\ CardsTyped(sure)
        /\ \A d \in Cards :
             /\ Placement(sure[d], free[d])
             /\ sure[d].equiping_target = free[d].equiping_target
             /\ sure[d].confirmed <=> free[d].confirmed \/ d \in D
    BY <1>13, ReasonTyped, ConfirmedCards
  <2> HIDE DEF sure
  <2>2. CardsTyped(cards') /\ \A d \in Cards : Same(cards'[d], sure[d])
    BY <1>6, <2>1, ReasonTyped, GivenCards DEF Piles
  <2> QED BY <2>1, <2>2 DEF Same, Placement
<1>15. \A d \in Cards :
         /\ cards'[d].loc = cards[d].loc
         /\ cards'[d].overlay_target = cards[d].overlay_target
         /\ cards'[d].equiping_target # None =>
              /\ cards'[d].equiping_target = cards[d].equiping_target
              /\ cards[d].equiping_target \notin S
         /\ d \notin S => cards'[d].facedown = cards[d].facedown
         /\ cards'[d].confirmed <=> cards[d].confirmed \/ d \in D
  BY <1>9, <1>12, <1>13, <1>14 DEF Placement
<1>16. u \in Units /\ ~Asks(u) /\ ~Fights(u) /\ Claim(u) = {}
  BY <1>8 DEF Units, Asks, Fights, Claim, PosUnits
<1>17. Followed(b, u, D, crowded) BY <1>1, <1>2, <1>6, <1>11, <1>16, Continued
<1>18. Status' /\ Sole'
  BY <1>2, <1>3, <1>4, <1>10, <1>15, <1>16, <1>17, Busy DEF canceled
<1>19. /\ \A d : Leaves(units, d) => Leaves(units', d)
       /\ \A d : Falls(units, d) => Falls(units', d)
  BY <1>1, <1>2, <1>4, <1>17, RestFacts DEF Followed
<1>20. Equipped'
  <2> SUFFICES ASSUME NEW d \in Cards \ loose, cards'[d].equiping_target # None
               PROVE  /\ cards'[d].loc = "SZONE" \/ Leaves(units', d)
                      /\ \/ Carries(cards[d].equiping_target)'
                         \/ Leaves(units', cards'[d].equiping_target)
    BY <1>3 DEF Equipped
  <2> DEFINE e == cards[d].equiping_target
  <2>1. cards'[d].equiping_target = e /\ e \notin S /\ e # None BY <1>15
  <2>2. e \in Cards BY <1>1, <2>1 DEF CardsTyped, CardTyped, CardRecords
  <2> HIDE DEF e
  <2>3. /\ cards[d].loc = "SZONE" \/ Leaves(units, d)
        /\ Carries(e) \/ Leaves(units, e)
    BY <1>1, <2>1 DEF Equipped, e
  <2>4. cards'[e].loc = cards[e].loc /\ cards'[e].facedown = cards[e].facedown
    BY <1>15, <2>1, <2>2
  <2> QED BY <1>15, <1>19, <2>1, <2>3, <2>4 DEF Carries, e
<1>21. Overlaid'
  <2>1. NothingReplaced' = NothingReplaced BY <1>3 DEF NothingReplaced
  <2>2. \A d \in Cards : cards[d].overlay_target \in Cards \cup {None}
    BY <1>1 DEF CardsTyped, CardTyped, CardRecords
  <2> QED BY <1>1, <1>3, <1>15, <1>19, <2>1, <2>2 DEF Overlaid
<1>22. Typed' /\ Stacked'
  BY <1>1, <1>3, <1>14, <1>17 DEF Typed, Followed, canceled, result
<1> QED BY <1>18, <1>20, <1>21, <1>22 DEF MovesInvariant

(* The card in the field zone makes room for another. *)
LEMMA FieldReplacedKept ==
  ASSUME MovesInvariant, FieldReplaced
  PROVE  MovesInvariant'
<1>1. Typed /\ Stacked /\ CardsTyped(cards) /\ Equipped /\ Overlaid
  BY DEF MovesInvariant, Typed
<1>2. units # << >> /\ Front \in FieldUnits /\ Front.kind = "ToField" /\ Front.step = 0
  BY <1>1, AtFront, KindOf DEF FieldReplaced
<1>3. /\ UNCHANGED <<canceled, operated_set, left, loose, setting, acts>>
      /\ returns' \in BOOLEAN
  BY DEF FieldReplaced, history
<1>4. ~Clears(Front) /\ Claim(Front) = {} /\ Leaving(Front) = {} /\ Falling(Front) = {}
  BY <1>2 DEF Clears, Claim, Leaving, Falling
<1> DEFINE old == InFieldZone(Front.playerid)  des == NotConfirmed(cards, old)
           u == [Front EXCEPT !.step = 1]
<1>5. old \in SUBSET Cards BY DEF InFieldZone
<1>6. des \in SUBSET Cards /\ \A c \in des : ~cards[c].confirmed \/ c \in destroy_canceled
  BY <1>5 DEF NotConfirmed
<1>7. Rule \in Reasons /\ Rule.kind # "BATTLE" BY ReasonTyped DEF Rule, Reason
<1>8. \E b, D, F :
        /\ D \in SUBSET Cards /\ \A c \in D : ~cards[c].confirmed \/ c \in destroy_canceled
        /\ Does(b, D, F) /\ units' = b \o <<u>> \o Tail(units)
        /\ CardsTyped(cards')
        /\ \A c \in Cards :
             /\ Placement(cards'[c], cards[c])
             /\ cards'[c].equiping_target = cards[c].equiping_target
             /\ cards'[c].confirmed <=> cards[c].confirmed \/ c \in D
  <2>0. ASSUME NEW b, NEW F, Does(b, {}, F), units' = b \o <<u>> \o Tail(units),
               CardsTyped(cards'), \A c \in Cards : Same(cards'[c], cards[c])
        PROVE  <1>8!:
    <3>1. PICK D \in SUBSET Cards : D = {} OBVIOUS
    <3>2. /\ \A c \in D : ~cards[c].confirmed \/ c \in destroy_canceled
          /\ Does(b, D, F)
          /\ \A c \in Cards :
               /\ Placement(cards'[c], cards[c])
               /\ cards'[c].equiping_target = cards[c].equiping_target
               /\ cards'[c].confirmed <=> cards[c].confirmed \/ c \in D
      BY <2>0, <3>1 DEF Same
    <3> QED BY <2>0, <3>2, Zenon
  <2>1. CASE GoOn(1, << >>) /\ UNCHANGED cards
    <3>1. units' = << >> \o <<u>> \o Tail(units) BY <2>1 DEF GoOn, GoOnAs
    <3> HIDE DEF u
    <3> QED BY <1>1, <2>0, <2>1, <3>1, SameCards, DoesNothing
  <2>2. CASE cards' = Given(cards, old, Rule, "GRAVE") /\ GoOn(1, <<SendTo(0, old, Rule)>>)
    <3>1. units' = <<SendTo(0, old, Rule)>> \o <<u>> \o Tail(units)
      BY <2>2 DEF GoOn, GoOnAs
    <3>2. \E F : Does(<<SendTo(0, old, Rule)>>, {}, F) BY <1>5, <1>7, SendDoes
    <3> HIDE DEF u, old
    <3>3. CardsTyped(cards') /\ \A c \in Cards : Same(cards'[c], cards[c])
      BY <1>1, <1>7, <2>2, GivenCards DEF Piles
    <3> QED BY <2>0, <3>1, <3>2, <3>3
  <2>3. CASE cards' = Confirmed(cards, des, Rule) /\ GoOn(1, <<Destroy(0, des, Rule)>>)
    <3>1. units' = <<Destroy(0, des, Rule)>> \o <<u>> \o Tail(units)
      BY <2>3 DEF GoOn, GoOnAs
    <3>2. Does(<<Destroy(0, des, Rule)>>, des, {}) BY <1>6, <1>7, DestroyDoes
    <3> HIDE DEF u, des
    <3>3. /\ CardsTyped(cards')
          /\ \A c \in Cards :
               /\ Placement(cards'[c], cards[c])
               /\ cards'[c].equiping_target = cards[c].equiping_target
               /\ cards'[c].confirmed <=> cards[c].confirmed \/ c \in des
      BY <1>1, <1>7, <2>3, ConfirmedCards
    <3> QED BY <1>6, <3>1, <3>2, <3>3
  <2> QED BY <2>1, <2>2, <2>3 DEF FieldReplaced
<1>9. PICK b, D, F :
        /\ D \in SUBSET Cards /\ \A c \in D : ~cards[c].confirmed \/ c \in destroy_canceled
        /\ Does(b, D, F) /\ units' = b \o <<u>> \o Tail(units)
        /\ CardsTyped(cards')
        /\ \A c \in Cards :
             /\ Placement(cards'[c], cards[c])
             /\ cards'[c].equiping_target = cards[c].equiping_target
             /\ cards'[c].confirmed <=> cards[c].confirmed \/ c \in D
  BY <1>8
<1>10. u \in FieldUnits BY <1>2 DEF FieldUnits
<1> HIDE DEF u
<1>11. u \in Units /\ ~Asks(u) /\ ~Fights(u) /\ Claim(u) = {}
  BY <1>10 DEF Units, Asks, Fights, Claim, FieldUnits
<1>12. Followed(b, u, D, F) BY <1>1, <1>2, <1>9, <1>11, Continued
<1>13. Status' /\ Sole' BY <1>2, <1>3, <1>4, <1>9, <1>11, <1>12, Busy DEF canceled
<1>14. Equipped' /\ Overlaid'
  <2>1. /\ \A c : Leaves(units, c) => Leaves(units', c)
        /\ \A c : Falls(units, c) => Falls(units', c)
    BY <1>1, <1>2, <1>4, <1>12, RestFacts DEF Followed
  <2> QED BY <1>1, <1>3, <1>9, <2>1, AttachedKept
<1>15. Typed' /\ Stacked' BY <1>1, <1>3, <1>9, <1>12 DEF Typed, Followed, canceled
<1> QED BY <1>13, <1>14, <1>15 DEF MovesInvariant

(* A card moves, or is only turned; what it carried does not follow it to
   the spell zones, and is loose when it is face-down now. *)
LEMMA MoveCardKept ==
  ASSUME MovesInvariant, MoveCard
  PROVE  MovesInvariant'
<1>1. Typed /\ Stacked /\ CardsTyped(cards) /\ Equipped /\ Overlaid
  BY DEF MovesInvariant, Typed
<1>2. /\ units # << >> /\ Front \in FieldUnits /\ Front.kind = "ToField"
      /\ Front.step \in {0, 1}
  BY <1>1, AtFront, KindOf DEF MoveCard
<1>3. UNCHANGED <<canceled, operated_set, left, setting, acts>> BY DEF MoveCard
<1>4. ~Clears(Front) /\ Claim(Front) = {} /\ Leaving(Front) = {} /\ Falling(Front) = {}
  BY <1>2 DEF Clears, Claim, Leaving, Falling
<1>5. CASE returns' = FALSE /\ Finish(<< >>) /\ UNCHANGED <<cards, loose>>
  <2>1. operated_set' \subseteq Cards /\ returns' \in BOOLEAN
    BY <1>1, <1>3, <1>5 DEF Typed
  <2> QED BY <1>2, <1>3, <1>4, <1>5, <2>1, FinishNothing
<1> DEFINE c == Front.target  down == Front.facedown
           refused == Front.location = "FZONE" /\ InFieldZone(Front.playerid) # {}
           x == cards[c]
           y == IF refused THEN NotPlaced(x, down)
                ELSE Placed(x, Front.playerid, Front.location, down)
           now == [cards EXCEPT ![c] = y]
           away == now[c].loc # "MZONE"
           equips == IF away THEN EquipsOf(now, {c}) ELSE {}
           over == IF away THEN Materials(now, {c}) ELSE {}
           D == NotConfirmed(now, equips)
           sure == Confirmed(now, D, Rule)
           free == Unequipped(sure, equips)
           d1 == IF equips = {} THEN << >> ELSE <<Destroy(0, D, Rule)>>
           s1 == IF over = {} THEN << >> ELSE <<SendTo(0, over, Rule)>>
           b == (d1 \o s1) \o Events
           u == [Front EXCEPT !.step = 3]
<1>6. CASE /\ cards' = Given(free, over, Rule, "GRAVE")
           /\ loose' = IF down /\ ~away THEN loose \cup EquipsOf(now, {c}) ELSE loose
           /\ GoOn(3, b) /\ UNCHANGED returns
  <2>1. units' = b \o <<u>> \o Tail(units) BY <1>6 DEF GoOn, GoOnAs
  <2>2. /\ c \in Cards /\ u \in FieldUnits /\ Front.location \in OnField
        /\ Front.playerid \in {0, 1} /\ down \in BOOLEAN
    BY <1>2 DEF FieldUnits
  <2>3. CardTyped(x, c) BY <1>1, <2>2 DEF CardsTyped
  <2>4. /\ CardTyped(y, c) /\ y.facedown = down
        /\ y.overlay_target = None /\ y.confirmed = x.confirmed
        /\ y.equiping_target # None =>
             /\ y.equiping_target = x.equiping_target
             /\ y.loc = x.loc \/ x.loc # "SZONE"
    <3> DEFINE loc == IF refused THEN IF x.loc = "OVERLAY" THEN "NOWHERE" ELSE x.loc
                      ELSE Front.location
               p == IF refused THEN x.controler ELSE Front.playerid
               e == IF ~refused /\ x.loc = "SZONE" THEN None ELSE x.equiping_target
               z == [x EXCEPT !.loc = loc, !.controler = p, !.overlay_target = None,
                              !.facedown = down]
    <3>1. /\ loc \in Locations \ {"OVERLAY"} /\ p \in {0, 1} /\ e \in Cards \cup {None}
          /\ e # None => e = x.equiping_target /\ (loc = x.loc \/ x.loc # "SZONE")
      BY <2>2, <2>3 DEF CardTyped, CardRecords, Locations, OnField
    <3>2. y = [z EXCEPT !.equiping_target = e]
      <4>1. CASE refused BY <2>3, <4>1 DEF NotPlaced, CardTyped, CardRecords
      <4>2. CASE ~refused BY <2>3, <4>2 DEF Placed, CardTyped, CardRecords
      <4> QED BY <4>1, <4>2
    <3> HIDE DEF loc, p, e, y
    <3>3. z \in CardRecords /\ z.loc = loc /\ z.overlay_target = None
          /\ z.facedown = down /\ z.confirmed = x.confirmed
      BY <2>2, <2>3, <3>1 DEF CardTyped, CardRecords
    <3> HIDE DEF z
    <3>4. /\ y \in CardRecords /\ y.loc = z.loc /\ y.overlay_target = z.overlay_target
          /\ y.facedown = z.facedown /\ y.confirmed = z.confirmed /\ y.equiping_target = e
      BY <3>1, <3>2, <3>3 DEF CardRecords
    <3> QED BY <3>1, <3>3, <3>4 DEF CardTyped
  <2> HIDE DEF x, y
  <2>5. /\ CardsTyped(now)
        /\ \A d \in Cards : now[d] = IF d = c THEN y ELSE cards[d]
        /\ away <=> y.loc # "MZONE"
    <3>1. /\ DOMAIN now = Cards /\ now = [d \in Cards |-> now[d]]
          /\ \A d \in Cards : now[d] = IF d = c THEN y ELSE cards[d]
      BY <1>1 DEF CardsTyped
    <3>3. now[c] = y BY <2>2, <3>1
    <3> HIDE DEF now, c
    <3>2. \A d \in Cards : CardTyped(now[d], d) BY <1>1, <2>4, <3>1 DEF CardsTyped
    <3> QED BY <3>1, <3>2, <3>3 DEF CardsTyped, CardTyped
  <2>6. \A d \in Cards : now[d].confirmed = cards[d].confirmed BY <2>4, <2>5 DEF x
  <2> HIDE DEF now, away
  <2>7. /\ loose \subseteq loose' /\ loose' \subseteq Cards
        /\ down /\ ~away => \A d \in Cards : now[d].equiping_target = c => d \in loose'
        /\ equips \in SUBSET Cards /\ over \in SUBSET Cards
        /\ \A d \in Cards : d \in equips <=> away /\ now[d].equiping_target = c
        /\ \A d \in Cards : d \in over <=> away /\ now[d].overlay_target = c
    BY <1>1, <1>6 DEF EquipsOf, Materials, Typed
  <2>8. /\ D \in SUBSET Cards /\ D \subseteq equips
        /\ \A d \in D : ~cards[d].confirmed \/ d \in destroy_canceled
    BY <2>6, <2>7 DEF NotConfirmed
  <2> HIDE DEF equips, over, D, u
  <2>9. Does(d1, D, {}) /\ Does(s1, {}, over) BY <2>7, <2>8, DestroyDoesAny, SendDoesAny
  <2> HIDE DEF d1, s1
  <2>10. Does(b, D, over)
    <3>1. Does(d1 \o s1, D \cup {}, {} \cup over) BY <2>9, DoesBoth
    <3>2. Does(b, (D \cup {}) \cup {}, ({} \cup over) \cup {})
      BY <3>1, EventsDo, DoesBoth
    <3>3. (D \cup {}) \cup {} = D /\ ({} \cup over) \cup {} = over OBVIOUS
    <3> QED BY <3>2, <3>3
  <2> HIDE DEF b
  <2>11. /\ CardsTyped(sure)
         /\ \A d \in Cards :
              /\ Placement(sure[d], now[d])
              /\ sure[d].equiping_target = now[d].equiping_target
              /\ sure[d].confirmed <=> now[d].confirmed \/ d \in D
    BY <2>5, ReasonTyped, ConfirmedCards
  <2> HIDE DEF sure
  <2>12. /\ CardsTyped(free)
         /\ \A d \in Cards :
              /\ Placement(free[d], sure[d]) /\ free[d].confirmed = sure[d].confirmed
              /\ free[d].equiping_target =
                   IF d \in equips THEN None ELSE sure[d].equiping_target
    BY <2>11, UnequippedCards
  <2> HIDE DEF free
  <2>13. CardsTyped(cards') /\ \A d \in Cards : Same(cards'[d], free[d])
    BY <1>6, <2>12, ReasonTyped, GivenCards DEF Piles
  <2>14. \A d \in Cards :
           /\ cards'[d].loc = now[d].loc /\ cards'[d].facedown = now[d].facedown
           /\ cards'[d].overlay_target = now[d].overlay_target
           /\ cards'[d].equiping_target # None =>
                cards'[d].equiping_target = now[d].equiping_target /\ d \notin equips
           /\ cards'[d].confirmed <=> cards[d].confirmed \/ d \in D
    BY <2>6, <2>11, <2>12, <2>13 DEF Same, Placement
  <2>15. u \in Units /\ ~Asks(u) /\ ~Fights(u) /\ Claim(u) = {}
    BY <2>2 DEF Units, Asks, Fights, Claim, FieldUnits
  <2>16. Followed(b, u, D, over) BY <1>1, <1>2, <2>1, <2>10, <2>15, Continued
  <2>17. Status' /\ Sole'
    BY <1>2, <1>3, <1>4, <2>8, <2>14, <2>15, <2>16, Busy DEF canceled
  <2>18. /\ \A d : Leaves(units, d) => Leaves(units', d)
         /\ \A d : Falls(units, d) => Falls(units', d)
         /\ \A d \in over : Falls(units', d)
    BY <1>1, <1>2, <1>4, <2>16, RestFacts DEF Followed
  <2> HIDE DEF c, refused, down
  <2>19. \A d \in Cards :
           \/ Carries(d) => cards'[d].loc = "MZONE" /\ ~cards'[d].facedown
           \/ d = c /\ (away \/ down)
    BY <2>4, <2>5, <2>14 DEF Carries
  <2>20. \A d \in Cards : cards[d].loc = "MZONE" =>
           cards'[d].loc = "MZONE" \/ (d = c /\ away)
    BY <2>4, <2>5, <2>14
  <2>21. Equipped'
    <3> SUFFICES ASSUME NEW d \in Cards \ loose', cards'[d].equiping_target # None
                 PROVE  /\ cards'[d].loc = "SZONE" \/ Leaves(units', d)
                        /\ \/ Carries(cards[d].equiping_target)'
                           \/ Leaves(units', cards'[d].equiping_target)
      BY DEF Equipped
    <3> DEFINE e == cards'[d].equiping_target
    <3>1. e = now[d].equiping_target /\ d \notin equips /\ e # None BY <2>14
    <3>2. e \in Cards /\ (away \/ down => e # c)
      BY <2>5, <2>7, <3>1 DEF CardsTyped, CardTyped, CardRecords
    <3>3. /\ e = cards[d].equiping_target
          /\ cards[d].loc = "SZONE" => cards'[d].loc = "SZONE"
      <4>1. CASE d = c BY <2>4, <2>5, <2>14, <3>1, <4>1 DEF x
      <4>2. CASE d # c BY <2>5, <2>14, <3>1, <4>2
      <4> QED BY <4>1, <4>2
    <3> HIDE DEF e
    <3>4. /\ cards[d].loc = "SZONE" \/ Leaves(units, d)
          /\ Carries(e) \/ Leaves(units, e)
      BY <1>1, <2>7, <3>1, <3>3 DEF Equipped
    <3>5. cards'[d].loc = "SZONE" \/ Leaves(units', d) BY <2>18, <3>3, <3>4
    <3>6. (cards'[e].loc = "MZONE" /\ ~cards'[e].facedown) \/ Leaves(units', e)
      BY <2>18, <2>19, <3>2, <3>4
    <3> QED BY <3>5, <3>6 DEF Carries, e
  <2>22. Overlaid'
    <3> SUFFICES ASSUME NothingReplaced, NEW d \in Cards \ loose',
                        cards'[d].overlay_target # None
                 PROVE  \/ cards'[cards'[d].overlay_target].loc = "MZONE"
                        \/ Leaves(units', cards'[d].overlay_target) \/ Falls(units', d)
      BY <1>3 DEF Overlaid, NothingReplaced
    <3> DEFINE e == cards'[d].overlay_target
    <3>1. e = now[d].overlay_target /\ e # None /\ e \in Cards
      BY <2>5, <2>14 DEF CardsTyped, CardTyped, CardRecords
    <3>2. d # c /\ e = cards[d].overlay_target BY <2>4, <2>5, <3>1
    <3> HIDE DEF e
    <3>3. cards[e].loc = "MZONE" \/ Leaves(units, e) \/ Falls(units, d)
      BY <1>1, <2>7, <3>1, <3>2 DEF Overlaid
    <3>4. e = c /\ away => d \in over BY <2>7, <3>1
    <3> QED BY <2>18, <2>20, <3>1, <3>3, <3>4 DEF e
  <2>23. Typed' /\ Stacked'
    BY <1>1, <1>3, <1>6, <2>7, <2>13, <2>16 DEF Typed, Followed, canceled
  <2> QED BY <2>17, <2>21, <2>22, <2>23 DEF MovesInvariant
<1> QED BY <1>5, <1>6 DEF MoveCard

(* Materials come under a monster, and their equips are destroyed. *)
LEMMA MaterialsAttachedKept ==
  ASSUME MovesInvariant, MaterialsAttached
  PROVE  MovesInvariant'
<1>1. Typed /\ Stacked /\ CardsTyped(cards) /\ Equipped /\ Overlaid
  BY DEF MovesInvariant, Typed
<1>2. units # << >> /\ Front \in OverlayUnits /\ Front.kind = "Xyz" /\ Front.step = 1
  BY <1>1, AtFront, KindOf DEF MaterialsAttached
<1>3. UNCHANGED <<canceled, result, left, setting, acts>> BY DEF MaterialsAttached
<1>4. ~Clears(Front) /\ Claim(Front) = {} /\ Leaving(Front) = {} /\ Falling(Front) = {}
  BY <1>2 DEF Clears, Claim, Leaving, Falling
<1> DEFINE t == Front.target
           M == {m \in Front.materials : cards[m].overlay_target # t}
                \cup (IF Front.to_grave THEN {} ELSE Materials(cards, Front.materials))
           equips == EquipsOf(cards, M)
           under == Change(cards, M, LAMBDA x :
                      [x EXCEPT !.loc = "OVERLAY", !.controler = 0, !.facedown = FALSE,
                        !.overlay_target = t, !.reason = Reason("XYZ", 0)])
           D == NotConfirmed(cards, equips)
           free == Unequipped(under, M \cup equips)
           e1 == IF \E m \in M : cards[m].loc = "GRAVE" THEN Events ELSE << >>
           d1 == IF equips = {} THEN << >> ELSE <<Destroy(0, D, Rule)>>
           b == e1 \o d1
           u == [Front EXCEPT !.step = 2]
<1>5. /\ cards' = Confirmed(free, D, Rule)
      /\ loose' = loose \cup (IF cards[t].loc = "MZONE" THEN {} ELSE M)
                       \cup (Materials(cards, M) \ M)
      /\ units' = b \o <<u>> \o Tail(units)
  BY DEF MaterialsAttached, GoOn, GoOnAs
<1>6. /\ t \in Cards /\ t # None /\ t \notin Front.materials /\ u \in OverlayUnits
      /\ Front.materials \subseteq Cards \ Tokens
  BY <1>2, ConstantsAssumption DEF OverlayUnits
<1>7. /\ M \in SUBSET (Cards \ Tokens)
      /\ cards[t].loc = "MZONE" => t \notin M
  <2>1. \A m \in Materials(cards, Front.materials) :
          m \in Cards /\ cards[m].overlay_target \in Front.materials
    BY DEF Materials
  <2>2. \A m \in Materials(cards, Front.materials) : m \notin Tokens /\ cards[m].loc = "OVERLAY"
    BY <1>1, <1>6, <2>1, ConstantsAssumption DEF CardsTyped, CardTyped
  <2> QED BY <1>6, <2>1, <2>2
<1> HIDE DEF t, M
<1>8. /\ equips \in SUBSET Cards
      /\ \A d \in Cards : d \in equips <=> cards[d].equiping_target \in M
      /\ D \in SUBSET Cards /\ D \subseteq equips
      /\ \A c \in D : ~cards[c].confirmed \/ c \in destroy_canceled
  BY DEF EquipsOf, NotConfirmed
<1> HIDE DEF equips, D
<1>9. Does(b, D, {})
  <2>1. Does(e1, {}, {}) /\ Does(d1, D, {})
    BY <1>8, EventsDo, DoesNothing, DestroyDoesAny
  <2> HIDE DEF e1, d1
  <2>2. Does(b, {} \cup D, {} \cup {}) BY <2>1, DoesBoth
  <2>3. {} \cup D = D /\ {} \cup {} = {} OBVIOUS
  <2> QED BY <2>2, <2>3
<1> HIDE DEF b, u
<1>10. /\ CardsTyped(under)
       /\ \A d \in Cards :
            /\ under[d].confirmed = cards[d].confirmed
            /\ under[d].equiping_target = cards[d].equiping_target
            /\ d \in M => under[d].overlay_target = t
            /\ d \notin M => under[d] = cards[d]
  <2>1. /\ DOMAIN under = Cards /\ under = [d \in Cards |-> under[d]]
        /\ \A d \in Cards :
             under[d] = IF d \in M
                        THEN [cards[d] EXCEPT
                               !.loc = "OVERLAY", !.controler = 0, !.facedown = FALSE,
                               !.overlay_target = t, !.reason = Reason("XYZ", 0)]
                        ELSE cards[d]
    BY DEF Change
  <2> HIDE DEF under
  <2>2. ASSUME NEW d \in Cards
        PROVE  /\ CardTyped(under[d], d)
               /\ under[d].confirmed = cards[d].confirmed
               /\ under[d].equiping_target = cards[d].equiping_target
               /\ d \in M => under[d].overlay_target = t
               /\ d \notin M => under[d] = cards[d]
    <3>1. CardTyped(cards[d], d) BY <1>1 DEF CardsTyped
    <3>2. CASE d \notin M BY <2>1, <3>1, <3>2
    <3>3. CASE d \in M
      <4> DEFINE x == cards[d]
                 z == [x EXCEPT !.loc = "OVERLAY", !.controler = 0, !.facedown = FALSE,
                                !.overlay_target = t]
                 r == Reason("XYZ", 0)
      <4>1. r \in Reasons BY ReasonTyped DEF Kinds
      <4>2. /\ z \in CardRecords /\ z.loc = "OVERLAY" /\ z.overlay_target = t
            /\ z.confirmed = x.confirmed /\ z.equiping_target = x.equiping_target
        BY <1>6, <3>1 DEF CardTyped, CardRecords, Locations
      <4>3. under[d] = [z EXCEPT !.reason = r]
        BY <2>1, <3>1, <3>3 DEF CardTyped, CardRecords
      <4> HIDE DEF x, z, r
      <4>4. /\ under[d] \in CardRecords /\ under[d].loc = z.loc
            /\ under[d].overlay_target = z.overlay_target
            /\ under[d].confirmed = z.confirmed /\ under[d].equiping_target = z.equiping_target
        BY <4>1, <4>2, <4>3 DEF CardRecords
      <4>5. d \notin Tokens BY <1>7, <3>3
      <4> QED BY <1>6, <3>3, <4>2, <4>4, <4>5 DEF CardTyped, x
    <3> QED BY <3>2, <3>3
  <2> QED BY <2>1, <2>2 DEF CardsTyped, CardTyped
<1> HIDE DEF under
<1>11. /\ CardsTyped(free)
       /\ \A d \in Cards :
            /\ Placement(free[d], under[d]) /\ free[d].confirmed = under[d].confirmed
            /\ free[d].equiping_target =
                 IF d \in M \cup equips THEN None ELSE under[d].equiping_target
  BY <1>10, UnequippedCards
<1> HIDE DEF free
<1>12. /\ CardsTyped(cards')
       /\ \A d \in Cards :
            /\ Placement(cards'[d], free[d])
            /\ cards'[d].equiping_target = free[d].equiping_target
            /\ cards'[d].confirmed <=> free[d].confirmed \/ d \in D
  BY <1>5, <1>11, ReasonTyped, ConfirmedCards
<1>13. \A d \in Cards :
         /\ d \notin M => Placement(cards'[d], cards[d])
         /\ d \in M => cards'[d].overlay_target = t
         /\ cards'[d].equiping_target # None =>
              /\ cards'[d].equiping_target = cards[d].equiping_target
              /\ d \notin M /\ cards[d].equiping_target \notin M
         /\ cards'[d].confirmed <=> cards[d].confirmed \/ d \in D
  BY <1>8, <1>10, <1>11, <1>12 DEF Placement
<1>14. u \in Units /\ ~Asks(u) /\ ~Fights(u) /\ Claim(u) = {}
  BY <1>6 DEF Units, Asks, Fights, Claim, OverlayUnits
<1>15. Followed(b, u, D, {}) BY <1>1, <1>2, <1>5, <1>9, <1>14, Continued
<1>16. Status' /\ Sole'
  BY <1>2, <1>3, <1>4, <1>8, <1>13, <1>14, <1>15, Busy DEF canceled
<1>17. /\ \A d : Leaves(units, d) => Leaves(units', d)
       /\ \A d : Falls(units, d) => Falls(units', d)
  BY <1>1, <1>2, <1>4, <1>15, RestFacts DEF Followed
<1>18. Equipped'
  <2> SUFFICES ASSUME NEW d \in Cards \ loose', cards'[d].equiping_target # None
               PROVE  /\ cards'[d].loc = "SZONE" \/ Leaves(units', d)
                      /\ \/ Carries(cards[d].equiping_target)'
                         \/ Leaves(units', cards'[d].equiping_target)
    BY DEF Equipped
  <2> DEFINE e == cards[d].equiping_target
  <2>1. cards'[d].equiping_target = e /\ e \notin M /\ e # None /\ d \notin M /\ d \notin loose
    BY <1>5, <1>13
  <2>2. e \in Cards BY <1>1, <2>1 DEF CardsTyped, CardTyped, CardRecords
  <2> HIDE DEF e
  <2>3. /\ cards[d].loc = "SZONE" \/ Leaves(units, d)
        /\ Carries(e) \/ Leaves(units, e)
    BY <1>1, <2>1 DEF Equipped, e
  <2>4. Placement(cards'[e], cards[e]) /\ Placement(cards'[d], cards[d])
    BY <1>13, <2>1, <2>2
  <2> QED BY <1>17, <2>1, <2>3, <2>4 DEF Carries, e, Placement
<1>19. Overlaid'
  <2> SUFFICES ASSUME NothingReplaced, NEW d \in Cards \ loose',
                      cards'[d].overlay_target # None
               PROVE  \/ cards'[cards'[d].overlay_target].loc = "MZONE"
                      \/ Leaves(units', cards'[d].overlay_target) \/ Falls(units', d)
    BY <1>3 DEF Overlaid, NothingReplaced
  <2>1. CASE d \in M
    <3>1. cards[t].loc = "MZONE" /\ cards'[d].overlay_target = t BY <1>5, <1>13, <2>1
    <3>2. cards'[t].loc = "MZONE" BY <1>6, <1>7, <1>13, <3>1 DEF Placement
    <3> QED BY <3>1, <3>2
  <2>2. CASE d \notin M
    <3> DEFINE e == cards[d].overlay_target
    <3>1. cards'[d].overlay_target = e /\ e # None /\ d \notin loose
      BY <1>5, <1>13, <2>2 DEF Placement
    <3>2. e \in Cards BY <1>1, <3>1 DEF CardsTyped, CardTyped, CardRecords
    <3>3. e \notin M BY <1>5, <2>2 DEF Materials
    <3> HIDE DEF e
    <3>4. cards[e].loc = "MZONE" \/ Leaves(units, e) \/ Falls(units, d)
      BY <1>1, <3>1 DEF Overlaid, e
    <3>5. Placement(cards'[e], cards[e]) BY <1>13, <3>2, <3>3
    <3> QED BY <1>17, <3>1, <3>4, <3>5 DEF Placement, e
  <2> QED BY <2>1, <2>2
<1>20. loose' \subseteq Cards BY <1>1, <1>5, <1>7 DEF Typed, Materials
<1>21. Typed' /\ Stacked'
  BY <1>1, <1>3, <1>12, <1>15, <1>20 DEF Typed, Followed, canceled, result
<1> QED BY <1>16, <1>18, <1>19, <1>21 DEF MovesInvariant

(* A card goes where it is sent, or stays in the spell zone. *)
LEMMA SendCardKept ==
  ASSUME MovesInvariant, SendCard
  PROVE  MovesInvariant'
<1>1. Typed /\ Stacked /\ CardsTyped(cards) /\ Equipped /\ Overlaid
  BY DEF MovesInvariant, Typed
<1>2. /\ units # << >> /\ Front \in SendUnits /\ Front.kind = "SendTo" /\ Front.step = 5
      /\ Front.cv # {}
  BY <1>1, AtFront, KindOf DEF SendCard
<1>3. UNCHANGED <<canceled, result, left, loose, setting, acts>> BY DEF SendCard
<1>4. /\ ~Clears(Front) /\ Claim(Front) = {}
      /\ Leaving(Front) = Front.targets /\ Falling(Front) = Front.cv
  BY <1>2 DEF Clears, Claim, Leaving, Falling
<1>5. Front \in SendRecords /\ Front.cv \subseteq Front.targets BY <1>2 DEF SendUnits
<1> DEFINE c == CHOOSE c \in Front.cv : TRUE
           x == cards[c]
           rest == Front.cv \ {c}
           gone == IF cards[c].loc \in OnField \cup {"GRAVE"} THEN Front.leave \cup {c}
                   ELSE Front.leave
           v == [Front EXCEPT !.cv = rest, !.leave = gone]
           u == [v EXCEPT !.step = 5]
<1>6. c \in Front.cv /\ c \in Front.targets /\ c \in Cards BY <1>2, <1>5 DEF SendRecords
<1>7. rest \in SUBSET Cards /\ rest \subseteq Front.targets /\ gone \in SUBSET Cards
  BY <1>5, <1>6 DEF SendRecords
<1>8. CardTyped(x, c) BY <1>1, <1>6 DEF CardsTyped
<1>9. /\ units' = << >> \o <<u>> \o Tail(units) \/ units' = <<Effect>> \o <<u>> \o Tail(units)
      /\ \E y : /\ cards' = [cards EXCEPT ![c] = y] /\ CardTyped(y, c)
                /\ y.overlay_target = None /\ y.confirmed = x.confirmed
                /\ y.equiping_target = x.equiping_target
  <2>1. v = [Front EXCEPT !.cv = @ \ {c},
               !.leave = IF cards[c].loc \in OnField \cup {"GRAVE"} THEN @ \cup {c}
                         ELSE @]
    BY <1>5 DEF SendRecords
  <2> DEFINE y1 == IF c \in Tokens THEN [x EXCEPT !.loc = "NOWHERE"]
                   ELSE IF x.loc # x.dest \/ x.controler # 0 THEN Sent(x) ELSE x
             y2 == [x EXCEPT !.loc = "SZONE", !.facedown = FALSE]
  <2>2. \/ cards' = [cards EXCEPT ![c] = y1] /\ GoOnAs(v, 5, << >>)
        \/ /\ cards[c].loc = "MZONE" /\ GoOnAs(v, 5, <<Effect>>)
           /\ cards' = [cards EXCEPT ![c].loc = "SZONE", ![c].facedown = FALSE]
    BY <2>1 DEF SendCard
  <2> HIDE DEF c, v
  <2>3. /\ CardTyped(y1, c) /\ y1.overlay_target = None /\ y1.confirmed = x.confirmed
        /\ y1.equiping_target = x.equiping_target
    <3>1. x \in CardRecords /\ x.dest \in Piles /\ (x.loc = "OVERLAY") = (x.overlay_target # None)
      BY <1>8 DEF CardTyped, CardRecords
    <3>2. CASE c \in Tokens BY <1>8, <3>2 DEF CardTyped, CardRecords, Locations
    <3>3. CASE c \notin Tokens /\ ~(x.loc # x.dest \/ x.controler # 0)
      BY <1>8, <3>1, <3>3 DEF Piles
    <3>4. CASE c \notin Tokens /\ (x.loc # x.dest \/ x.controler # 0)
      <4> HIDE DEF x
      <4>1. y1 = Sent(x) BY <3>4
      <4>2. /\ Sent(x) \in CardRecords /\ Sent(x).loc = x.dest
            /\ Sent(x).overlay_target = None /\ Sent(x).confirmed = x.confirmed
            /\ Sent(x).equiping_target = x.equiping_target
        BY <3>1 DEF Sent, CardRecords, Locations, Piles
      <4> HIDE DEF y1
      <4> QED BY <3>1, <4>1, <4>2 DEF CardTyped, Piles
    <3> QED BY <3>2, <3>3, <3>4
  <2>4. ASSUME cards[c].loc = "MZONE"
        PROVE  /\ CardTyped(y2, c) /\ y2.overlay_target = None /\ y2.confirmed = x.confirmed
               /\ y2.equiping_target = x.equiping_target
    BY <1>8, <2>4 DEF CardTyped, CardRecords, Locations, OnField
  <2>5. CASE cards' = [cards EXCEPT ![c] = y1] /\ GoOnAs(v, 5, << >>)
    <3> HIDE DEF y1
    <3> QED BY <2>3, <2>5 DEF GoOnAs
  <2>6. CASE /\ cards[c].loc = "MZONE" /\ GoOnAs(v, 5, <<Effect>>)
             /\ cards' = [cards EXCEPT ![c].loc = "SZONE", ![c].facedown = FALSE]
    <3>1. cards' = [cards EXCEPT ![c] = y2] BY <1>1, <1>6, <2>6 DEF CardsTyped
    <3> HIDE DEF y2
    <3> QED BY <2>4, <2>6, <3>1 DEF GoOnAs
  <2> QED BY <2>2, <2>5, <2>6
<1>10. u \in SendUnits /\ u.step = 5 /\ u.targets = Front.targets /\ u.cv = rest
       /\ u.kind = "SendTo"
  <2> HIDE DEF rest, gone
  <2>1. /\ v \in SendRecords /\ v.targets = Front.targets /\ v.cv = rest
    BY <1>5, <1>7 DEF SendRecords
  <2> HIDE DEF v
  <2>2. /\ u \in SendRecords /\ u.targets = v.targets /\ u.cv = v.cv /\ u.step = 5
        /\ u.kind = "SendTo"
    BY <2>1 DEF SendRecords
  <2> HIDE DEF u
  <2> QED BY <1>7, <2>1, <2>2 DEF SendUnits
<1> HIDE DEF c, u
<1>11. PICK y : /\ cards' = [cards EXCEPT ![c] = y] /\ CardTyped(y, c)
                /\ y.overlay_target = None /\ y.confirmed = x.confirmed
                /\ y.equiping_target = x.equiping_target
  BY <1>9
<1>12. /\ DOMAIN cards' = Cards /\ cards' = [d \in Cards |-> cards'[d]]
       /\ \A d \in Cards : cards'[d] = IF d = c THEN y ELSE cards[d]
  BY <1>1, <1>11 DEF CardsTyped
<1>13. CardsTyped(cards')
  <2>1. \A d \in Cards : CardTyped(cards'[d], d) BY <1>1, <1>11, <1>12 DEF CardsTyped
  <2> QED BY <1>12, <2>1 DEF CardsTyped, CardTyped
<1>14. \A d \in Cards : cards'[d].confirmed = cards[d].confirmed
                        /\ cards'[d].equiping_target = cards[d].equiping_target
  BY <1>11, <1>12
<1>15. /\ u \in Units /\ ~Asks(u) /\ ~Fights(u) /\ Claim(u) = {}
       /\ Leaving(u) = Front.targets /\ Falling(u) = rest
  BY <1>10 DEF Units, Asks, Fights, Claim, Leaving, Falling
<1>16. PICK b : Followed(b, u, {}, {})
  <2>1. Does(<< >>, {}, {}) /\ Does(<<Effect>>, {}, {}) BY DoesNothing, EffectDoes
  <2> QED BY <1>1, <1>2, <1>9, <1>15, <2>1, Continued
<1>17. Status' /\ Sole' BY <1>2, <1>3, <1>4, <1>14, <1>15, <1>16, Busy DEF canceled
<1>18. /\ \A d : Leaves(units, d) => Leaves(units', d)
       /\ \A d : Falls(units, d) /\ d # c => Falls(units', d)
       /\ Leaves(units', c)
  BY <1>1, <1>2, <1>4, <1>6, <1>15, <1>16, RestFacts DEF Followed
<1>19. Equipped'
  <2> SUFFICES ASSUME NEW d \in Cards \ loose, cards'[d].equiping_target # None
               PROVE  /\ cards'[d].loc = "SZONE" \/ Leaves(units', d)
                      /\ \/ Carries(cards[d].equiping_target)'
                         \/ Leaves(units', cards'[d].equiping_target)
    BY <1>3 DEF Equipped
  <2> DEFINE e == cards[d].equiping_target
  <2>1. cards'[d].equiping_target = e /\ e # None BY <1>14
  <2>2. e \in Cards BY <1>1, <2>1 DEF CardsTyped, CardTyped, CardRecords
  <2> HIDE DEF e
  <2>3. /\ cards[d].loc = "SZONE" \/ Leaves(units, d)
        /\ Carries(e) \/ Leaves(units, e)
    BY <1>1, <2>1 DEF Equipped, e
  <2> QED BY <1>12, <1>18, <2>1, <2>2, <2>3 DEF Carries, e
<1>20. Overlaid'
  <2> SUFFICES ASSUME NothingReplaced, NEW d \in Cards \ loose,
                      cards'[d].overlay_target # None
               PROVE  \/ cards'[cards'[d].overlay_target].loc = "MZONE"
                      \/ Leaves(units', cards'[d].overlay_target) \/ Falls(units', d)
    BY <1>3 DEF Overlaid, NothingReplaced
  <2> DEFINE e == cards[d].overlay_target
  <2>1. d # c /\ cards'[d].overlay_target = e /\ e # None BY <1>11, <1>12
  <2>2. e \in Cards BY <1>1, <2>1 DEF CardsTyped, CardTyped, CardRecords
  <2> HIDE DEF e
  <2>3. cards[e].loc = "MZONE" \/ Leaves(units, e) \/ Falls(units, d)
    BY <1>1, <2>1 DEF Overlaid, e
  <2> QED BY <1>12, <1>18, <2>1, <2>2, <2>3 DEF e
<1>21. Typed' /\ Stacked'
  BY <1>1, <1>3, <1>13, <1>16 DEF Typed, Followed, canceled, result
<1> QED BY <1>17, <1>19, <1>20, <1>21 DEF MovesInvariant

(* The cards have arrived: equips and materials of theirs follow them. *)
LEMMA CardsArrivedKept ==
  ASSUME MovesInvariant, CardsArrived
  PROVE  MovesInvariant'
<1>1. Typed /\ Stacked /\ CardsTyped(cards) /\ Equipped /\ Overlaid
  BY DEF MovesInvariant, Typed
<1>2. units # << >> /\ Front \in SendUnits /\ Front.kind = "SendTo" /\ Front.step = 10
  BY <1>1, AtFront, KindOf DEF CardsArrived
<1>3. UNCHANGED <<canceled, result, left, loose, setting, acts>>
  BY DEF CardsArrived, history
<1>4. ~Clears(Front) /\ Claim(Front) = {} /\ Leaving(Front) = Front.targets /\ Falling(Front) = {}
  BY <1>2 DEF Clears, Claim, Leaving, Falling
<1>5. Front \in SendRecords /\ Front.cv \subseteq Front.targets BY <1>2 DEF SendUnits
<1> DEFINE T == Front.targets
           equips == {e \in EquipsOf(cards, T) : cards[e].loc = "SZONE"}
           lost == T \cup EquipsOf(cards, T)
           free == Unequipped(cards, lost)
           D == NotConfirmed(cards, equips)
           over == Materials(cards, T)
           sure == Confirmed(free, D, Rule)
           d1 == IF equips = {} THEN << >> ELSE <<Destroy(0, D, Rule)>>
           s1 == IF over = {} THEN << >> ELSE <<SendTo(0, over, Rule)>>
           b == (Events \o d1) \o s1
           u == [Front EXCEPT !.step = 11]
<1>6. cards' = Given(sure, over, Rule, "GRAVE") /\ units' = b \o <<u>> \o Tail(units)
  BY DEF CardsArrived, GoOn, GoOnAs
<1>7. u \in SendUnits
  <2>1. u \in SendRecords /\ u.cv = Front.cv /\ u.targets = Front.targets /\ u.step = 11
    BY <1>5 DEF SendRecords
  <2> HIDE DEF u
  <2> QED BY <1>5, <2>1 DEF SendUnits
<1>8. /\ over \in SUBSET Cards
      /\ \A d \in Cards : d \in over <=> cards[d].overlay_target \in T
      /\ \A d \in Cards : d \in lost <=> d \in T \/ cards[d].equiping_target \in T
      /\ equips \in SUBSET Cards
  BY DEF Materials, EquipsOf
<1>9. /\ D \in SUBSET Cards /\ D \subseteq equips
      /\ \A c \in D : ~cards[c].confirmed \/ c \in destroy_canceled
  BY <1>8 DEF NotConfirmed
<1> HIDE DEF T, equips, over, D, lost, u
<1>10. Does(d1, D, {}) /\ Does(s1, {}, over) BY <1>8, <1>9, DestroyDoesAny, SendDoesAny
<1> HIDE DEF d1, s1
<1>11. Does(b, D, over)
  <2>1. Does(Events \o d1, {} \cup D, {} \cup {}) BY <1>10, EventsDo, DoesBoth
  <2>2. Does(Events \o d1, D, {})
    <3>1. {} \cup D = D /\ {} \cup {} = {} OBVIOUS
    <3> QED BY <2>1, <3>1
  <2>3. Does(b, D \cup {}, {} \cup over) BY <1>10, <2>2, DoesBoth
  <2>4. D \cup {} = D /\ {} \cup over = over OBVIOUS
  <2> QED BY <2>3, <2>4
<1> HIDE DEF b
<1>12. /\ CardsTyped(free)
       /\ \A d \in Cards :
            /\ Placement(free[d], cards[d]) /\ free[d].confirmed = cards[d].confirmed
            /\ free[d].equiping_target = IF d \in lost THEN None ELSE cards[d].equiping_target
  BY <1>1, UnequippedCards
<1> HIDE DEF free
<1>13. /\ CardsTyped(sure)
       /\ \A d \in Cards :
            /\ Placement(sure[d], free[d])
            /\ sure[d].equiping_target = free[d].equiping_target
            /\ sure[d].confirmed <=> free[d].confirmed \/ d \in D
  BY <1>12, ReasonTyped, ConfirmedCards
<1> HIDE DEF sure
<1>14. CardsTyped(cards') /\ \A d \in Cards : Same(cards'[d], sure[d])
  BY <1>6, <1>13, ReasonTyped, GivenCards DEF Piles
<1>15. \A d \in Cards :
         /\ Placement(cards'[d], cards[d])
         /\ cards'[d].confirmed <=> cards[d].confirmed \/ d \in D
         /\ cards'[d].equiping_target # None =>
              cards'[d].equiping_target = cards[d].equiping_target /\ d \notin lost
  BY <1>12, <1>13, <1>14 DEF Same, Placement
<1>16. u \in Units /\ ~Asks(u) /\ ~Fights(u) /\ Claim(u) = {}
  BY <1>7 DEF Units, Asks, Fights, Claim, SendUnits, SendRecords
<1>17. Followed(b, u, D, over) BY <1>1, <1>2, <1>6, <1>11, <1>16, Continued
<1>18. Status' /\ Sole'
  BY <1>2, <1>3, <1>4, <1>9, <1>15, <1>16, <1>17, Busy DEF canceled
<1>19. /\ \A d : Leaves(units, d) /\ d \notin T => Leaves(units', d)
       /\ \A d : Falls(units, d) => Falls(units', d)
       /\ \A d \in over : Falls(units', d)
  BY <1>1, <1>2, <1>4, <1>17, RestFacts DEF Followed, T
<1>20. Equipped'
  <2> SUFFICES ASSUME NEW d \in Cards \ loose, cards'[d].equiping_target # None
               PROVE  /\ cards'[d].loc = "SZONE" \/ Leaves(units', d)
                      /\ \/ Carries(cards[d].equiping_target)'
                         \/ Leaves(units', cards'[d].equiping_target)
    BY <1>3 DEF Equipped
  <2> DEFINE e == cards[d].equiping_target
  <2>1. cards'[d].equiping_target = e /\ e # None /\ d \notin T /\ e \notin T
    BY <1>8, <1>15
  <2>2. e \in Cards BY <1>1, <2>1 DEF CardsTyped, CardTyped, CardRecords
  <2> HIDE DEF e
  <2>3. /\ cards[d].loc = "SZONE" \/ Leaves(units, d)
        /\ Carries(e) \/ Leaves(units, e)
    BY <1>1, <2>1 DEF Equipped, e
  <2>4. Placement(cards'[e], cards[e]) /\ Placement(cards'[d], cards[d]) BY <1>15, <2>2
  <2> QED BY <1>19, <2>1, <2>3, <2>4 DEF Carries, e, Placement
<1>21. Overlaid'
  <2> SUFFICES ASSUME NothingReplaced, NEW d \in Cards \ loose,
                      cards'[d].overlay_target # None
               PROVE  \/ cards'[cards'[d].overlay_target].loc = "MZONE"
                      \/ Leaves(units', cards'[d].overlay_target) \/ Falls(units', d)
    BY <1>3 DEF Overlaid, NothingReplaced
  <2> DEFINE e == cards[d].overlay_target
  <2>1. cards'[d].overlay_target = e /\ e # None BY <1>15 DEF Placement
  <2>2. e \in Cards BY <1>1, <2>1 DEF CardsTyped, CardTyped, CardRecords
  <2>3. e \in T => Falls(units', d) BY <1>8, <1>19
  <2> HIDE DEF e
  <2>4. cards[e].loc = "MZONE" \/ Leaves(units, e) \/ Falls(units, d)
    BY <1>1, <2>1 DEF Overlaid, e
  <2>5. Placement(cards'[e], cards[e]) BY <1>15, <2>2
  <2> QED BY <1>19, <2>1, <2>3, <2>4, <2>5 DEF Placement, e
<1>22. Typed' /\ Stacked'
  BY <1>1, <1>3, <1>14, <1>17 DEF Typed, Followed, canceled, result
<1> QED BY <1>18, <1>20, <1>21, <1>22 DEF MovesInvariant

-----------------------------------------------------------------------------
(* Steps of Destroy and of a battle after which cards are claimed no more. *)

(* The front goes on, claims no card that it did not, and lets go of those
   in G, which are not confirmed any more, or known to be. *)
LEMMA LetGo ==
  ASSUME MovesInvariant, units # << >>, NEW b, NEW u, NEW F, Followed(b, u, {}, F),
         NEW G, Claim(u) \subseteq Claim(Front), Claim(Front) \ Claim(u) \subseteq G,
         G \cap Claim(u) = {}, G \subseteq Claim(Front) \/ Rest = << >>,
         \A c \in Cards :
           cards'[c].confirmed <=> cards[c].confirmed /\ ~(c \in G /\ c \notin left'),
         \A c \in left \ left' : c \in G,
         Clears(Front) => Clears(u),
         UNCHANGED <<destroy_canceled, battle_destroy_rep, setting>>
  PROVE  Status' /\ Sole'
<1>1. Typed /\ Stacked /\ Status /\ Sole BY DEF MovesInvariant
<1>2. /\ \A c : Held(units, c) <=> c \in Claim(Front) \/ Held(Rest, c)
      /\ Clearing(units) <=> Clears(Front) \/ Clearing(Rest)
      /\ Bare(units) => \A c : ~(c \in Claim(Front) /\ Held(Rest, c))
  BY <1>1, RestFacts
<1>3. /\ \A c : Held(units', c) <=> c \in Claim(u) \/ Held(Rest, c)
      /\ Clearing(units) => Clearing(units')
      /\ NothingReplaced /\ Bare(units) => Bare(units')
  BY <1>2 DEF Followed
<1>4. Status' BY <1>1, <1>2, <1>3 DEF Status
<1>5. Sole'
  <2> SUFFICES ASSUME NothingReplaced PROVE Sole' BY DEF Sole, NothingReplaced
  <2>1. /\ destroy_canceled = {} /\ battle_destroy_rep = {} /\ Bare(units)
        /\ \A c \in Cards : Held(units, c) => cards[c].confirmed
    BY <1>1 DEF Sole, Bare
  <2>2. Rest = << >> => \A c : ~Held(Rest, c) BY SomeOfNone
  <2>3. \A c \in Cards : Held(units', c) => cards'[c].confirmed
    BY <1>2, <1>3, <2>1, <2>2
  <2> QED BY <1>3, <2>1, <2>3 DEF Sole, Bare
<1> QED BY <1>4, <1>5

(* Units that ask, on what a unit that goes on and others make. *)
LEMMA Regrouped ==
  \A x, y, z \in Seq(Units) : (x \o y) \o z = x \o (y \o z)
OBVIOUS

LEMMA TopNotEmpty ==
  \A x, y \in Seq(Units) : x \o y \in Seq(Units) /\ (y # << >> => x \o y # << >>)
OBVIOUS

LEMMA AsksTop ==
  ASSUME NEW t \in Seq(Units), t # << >>, NEW x, Owns(t[1]), Fits(x, t[1])
  PROVE  Dangles(t, x)
<1>1. 1 \in 1 .. Len(t) OBVIOUS
<1> QED BY <1>1 DEF Dangles

LEMMA AsksOnTop ==
  ASSUME NEW a \in Seq(Units), NEW t \in Seq(Units), Stands(t),
         \A i \in 1 .. Len(a) : Asks(a[i]) /\ Dangles(t, a[i])
  PROVE  /\ a \o t \in Seq(Units) /\ Stands(a \o t)
         /\ \A c : Held(a \o t, c) <=> Held(t, c)
         /\ \A c : Leaves(a \o t, c) <=> Leaves(t, c)
         /\ \A c : Falls(a \o t, c) <=> Falls(t, c)
         /\ Clearing(a \o t) <=> Clearing(t)
<1>1. \A i \in 1 .. Len(a) :
        /\ ~Fights(a[i]) /\ Claim(a[i]) = {} /\ Leaving(a[i]) = {} /\ Falling(a[i]) = {}
        /\ ~Clears(a[i])
  BY DEF Asks, Fights, Claim, Leaving, Falling, Clears
<1>2. /\ \A c : ~Held(a, c) /\ ~Leaves(a, c) /\ ~Falls(a, c)
      /\ ~Clearing(a)
  BY <1>1 DEF Held, Leaves, Falls, Clearing
<1>3. /\ \A c : Held(a \o t, c) <=> Held(t, c)
      /\ \A c : Leaves(a \o t, c) <=> Leaves(t, c)
      /\ \A c : Falls(a \o t, c) <=> Falls(t, c)
      /\ Clearing(a \o t) <=> Clearing(t)
  BY <1>2, SomeOnTop
<1>4. Owned(a \o t)
  <2>1. Owned(t) /\ \A i \in 1 .. Len(a) : \A k \in i .. Len(a) : Asks(a[k])
    BY DEF Stands
  <2> QED BY <2>1, OwnedOnTop
<1>5. AtBottom(a \o t) BY <1>1, BottomOnTop DEF Stands
<1>6. a \o t \in Seq(Units) OBVIOUS
<1> QED BY <1>3, <1>4, <1>5, <1>6 DEF Stands

(* As long as nothing is replaced they must be sure of their owner. *)
AsksAlone(a, t) == NothingReplaced /\ Bare(t) => Bare(a \o t)

LEMMA ContinuedAsking ==
  ASSUME Typed, Stacked, units # << >>, NEW u \in Units, ~Asks(u),
         Fights(u) =>
           /\ Fights(Front)
           /\ (u.kind = "Destroy" /\ u.step \in 10 .. 12) <=>
                (Front.kind = "Destroy" /\ Front.step \in 10 .. 12),
         NEW b, NEW D, NEW F, Does(b, D, F),
         NEW t, t = b \o <<u>> \o Tail(units),
         NEW a \in Seq(Units), units' = a \o t,
         \A i \in 1 .. Len(a) : Asks(a[i]) /\ Fits(a[i], t[1]),
         a # << >> => Owns(t[1]),
         AsksAlone(a, t)
  PROVE  Followed(b, u, D, F)
<1> DEFINE w == <<u>> \o Rest
<1>1. /\ w \in Seq(Units) /\ Stands(w) /\ w # << >>
      /\ \A c : Held(w, c) <=> c \in Claim(u) \/ Held(Rest, c)
      /\ \A c : Leaves(w, c) <=> c \in Leaving(u) \/ Leaves(Rest, c)
      /\ \A c : Falls(w, c) <=> c \in Falling(u) \/ Falls(Rest, c)
      /\ Clearing(w) <=> Clears(u) \/ Clearing(Rest)
      /\ Bare(units) /\ (\A c \in Claim(u) : ~Held(Rest, c)) => Bare(w)
  <2>1. Rest \in Seq(Units) BY RestFacts
  <2>2. w # << >> BY <2>1
  <2> QED BY <2>2, GoesOn
<1>2. t = b \o w
  <2>1. Rest = Tail(units) /\ Rest \in Seq(Units) /\ b \in Seq(Units) /\ <<u>> \in Seq(Units)
    BY RestFacts DEF Does, Plain
  <2>2. (b \o <<u>>) \o Rest = b \o (<<u>> \o Rest) BY <2>1, Regrouped
  <2> QED BY <2>1, <2>2
<1> HIDE DEF w
<1>3. b \in Seq(Units) /\ Plain(b) BY DEF Does, Plain
<1>4. t \in Seq(Units) /\ t # << >>
  <2>1. \A x, y \in Seq(Units) : x \o y \in Seq(Units) /\ (y # << >> => x \o y # << >>)
    BY TopNotEmpty
  <2> QED BY <1>1, <1>2, <1>3, <2>1
<1>5. Stands(t) BY <1>1, <1>2, <1>3, PlainStands
<1>6. /\ \A c : Held(t, c) <=> Held(b, c) \/ Held(w, c)
      /\ \A c : Leaves(t, c) <=> Leaves(b, c) \/ Leaves(w, c)
      /\ \A c : Falls(t, c) <=> Falls(b, c) \/ Falls(w, c)
      /\ Clearing(t) <=> Clearing(b) \/ Clearing(w)
  <2>1. /\ \A c : Held(b \o w, c) <=> Held(b, c) \/ Held(w, c)
        /\ \A c : Leaves(b \o w, c) <=> Leaves(b, c) \/ Leaves(w, c)
        /\ \A c : Falls(b \o w, c) <=> Falls(b, c) \/ Falls(w, c)
        /\ Clearing(b \o w) <=> Clearing(b) \/ Clearing(w)
    BY <1>1, <1>3, SomeOnTop, Zenon
  <2> QED BY <1>2, <2>1, Zenon
<1>7. /\ \A c : Held(b, c) <=> c \in D
      /\ \A c : Falls(b, c) <=> c \in F
      /\ \A c : ~Leaves(b, c)
      /\ ~Clearing(b) /\ Apart(b)
  BY DEF Does
<1>8. ASSUME Bare(units), D \cap Claim(u) = {},
             \A c \in D \cup Claim(u) : ~Held(Rest, c)
      PROVE  Bare(t)
  <2>1. Bare(w) /\ \A c : ~(Held(b, c) /\ Held(w, c)) BY <1>1, <1>7, <1>8
  <2> QED BY <1>1, <1>2, <1>3, <1>7, <2>1, PlainBare
<1>9. \A i \in 1 .. Len(a) : Asks(a[i]) /\ Dangles(t, a[i])
  <2> SUFFICES ASSUME NEW i \in 1 .. Len(a) PROVE Asks(a[i]) /\ Dangles(t, a[i]) OBVIOUS
  <2>1. a # << >> OBVIOUS
  <2> QED BY <1>4, <2>1, AsksTop
<1>10. /\ a \o t \in Seq(Units) /\ Stands(a \o t)
       /\ \A c : Held(a \o t, c) <=> Held(t, c)
       /\ \A c : Leaves(a \o t, c) <=> Leaves(t, c)
       /\ \A c : Falls(a \o t, c) <=> Falls(t, c)
       /\ Clearing(a \o t) <=> Clearing(t)
  BY <1>4, <1>5, <1>9, AsksOnTop
<1>11. units' \in Seq(Units) /\ Stacked' BY <1>10 DEF Stacked, Stands
<1>12. /\ \A c : Held(units', c) <=> c \in D \/ c \in Claim(u) \/ Held(Rest, c)
       /\ \A c : Leaves(units', c) <=> c \in Leaving(u) \/ Leaves(Rest, c)
       /\ \A c : Falls(units', c) <=> c \in F \/ c \in Falling(u) \/ Falls(Rest, c)
       /\ Clearing(units') <=> Clears(u) \/ Clearing(Rest)
  BY <1>1, <1>6, <1>7, <1>10
<1>13. ASSUME NothingReplaced, Bare(units), D \cap Claim(u) = {},
              \A c \in D \cup Claim(u) : ~Held(Rest, c)
       PROVE  Bare(units')
  BY <1>8, <1>13 DEF AsksAlone
<1> QED BY <1>11, <1>12, <1>13 DEF Followed

(* The units that ask for a group, and for each card. *)
AskAll(s, S) == Seqs!SetToSeq({AskReplace(s, c) : c \in S})

LEMMA EachAsks ==
  ASSUME NEW S \in SUBSET Cards, NEW s \in {0, 10}
  PROVE  /\ AskAll(s, S) \in Seq(Units)
         /\ \A i \in 1 .. Len(AskAll(s, S)) :
              /\ AskAll(s, S)[i].kind = "Ask" /\ AskAll(s, S)[i].step = s
              /\ AskAll(s, S)[i].target \in S
              /\ \A j \in 1 .. Len(AskAll(s, S)) :
                   AskAll(s, S)[i].target = AskAll(s, S)[j].target => i = j
         /\ S = {} => AskAll(s, S) = << >>
<1> DEFINE T == {AskReplace(s, c) : c \in S}  a == Seqs!SetToSeq(T)
<1>2. IsFiniteSet(S) BY ConstantsAssumption, FS_Subset
<1>3. IsFiniteSet(T)
  <2> DEFINE f == [c \in S |-> AskReplace(s, c)]
  <2>1. f \in Surjection(S, T) BY DEF Surjection
  <2> QED BY <1>2, <2>1, FS_Surjection
<1>4. /\ a \in Seq(T)
      /\ \A i, j \in 1 .. Len(a) : a[i] = a[j] => i = j
  BY <1>3, SetOrder
<1>5. \A u \in T : u \in Units /\ u.kind = "Ask" /\ u.step = s /\ u.target \in S
                   /\ u = AskReplace(s, u.target)
  BY UnitsTyped DEF AskReplace
<1>6. S = {} => T = {} OBVIOUS
<1> HIDE DEF T, a
<1>7. a \in Seq(Units) /\ \A i \in 1 .. Len(a) : a[i] \in T
  <2>1. T \subseteq Units BY <1>5
  <2> QED BY <1>4, <2>1
<1>8. S = {} => a = << >>
  <2> SUFFICES ASSUME T = {} PROVE a = << >> BY <1>6
  <2>1. Len(a) \in Nat /\ (Len(a) # 0 => 1 \in 1 .. Len(a)) BY <1>4
  <2>2. Len(a) = 0 BY <1>7, <2>1
  <2> QED BY <1>4, <2>2
<1>9. ASSUME NEW i \in 1 .. Len(a)
      PROVE  /\ a[i].kind = "Ask" /\ a[i].step = s /\ a[i].target \in S
             /\ \A j \in 1 .. Len(a) : a[i].target = a[j].target => i = j
  <2>1. a[i] \in T BY <1>7
  <2>2. ASSUME NEW j \in 1 .. Len(a), a[i].target = a[j].target PROVE i = j
    <3>1. a[j] \in T BY <1>7
    <3>2. a[i] = a[j] BY <1>5, <2>1, <2>2, <3>1
    <3> QED BY <1>4, <3>2
  <2> QED BY <1>5, <2>1, <2>2
<1> QED BY <1>7, <1>8, <1>9 DEF a, T, AskAll

LEMMA GroupAsks ==
  ASSUME NEW s \in {5, 12}
  PROVE  /\ GroupReplace(s) \in Seq(Units)
         /\ \A i \in 1 .. Len(GroupReplace(s)) :
              Asks(GroupReplace(s)[i]) /\ GroupReplace(s)[i].step = s
         /\ NothingReplaced => GroupReplace(s) = << >>
<1> DEFINE u == OperationReplace(s, None)
<1>1. u \in Units /\ Asks(u) /\ u.step = s BY UnitsTyped DEF OperationReplace, Asks
<1> HIDE DEF u
<1>2. CASE setting.group_replace BY <1>1, <1>2 DEF GroupReplace, u, NothingReplaced
<1>3. CASE ~setting.group_replace BY <1>3 DEF GroupReplace
<1> QED BY <1>2, <1>3

LEMMA NoneAsksAlone ==
  ASSUME NEW a, NEW t \in Seq(Units), NothingReplaced => a = << >>
  PROVE  AsksAlone(a, t)
<1>1. << >> \o t = t OBVIOUS
<1> QED BY <1>1 DEF AsksAlone

(* Each card that is asked for is one of the owner's, and asked for once. *)
LEMMA EachAlone ==
  ASSUME NEW a \in Seq(Units), NEW t \in Seq(Units), t # << >>, Owns(t[1]),
         \A i \in 1 .. Len(a) :
           /\ a[i].kind = "Ask" /\ Fits(a[i], t[1]) /\ a[i].target \in t[1].targets
           /\ \A j \in 1 .. Len(a) : a[i].target = a[j].target => i = j
  PROVE  AsksAlone(a, t)
<1> SUFFICES ASSUME Bare(t) PROVE Bare(a \o t) BY DEF AsksAlone
<1> DEFINE s == a \o t  n == Len(a) + 1
<1>1. /\ s \in Seq(Units) /\ Len(s) = Len(a) + Len(t) /\ Len(a) \in Nat /\ Len(t) \in Nat
      /\ \A i \in 1 .. Len(a) : s[i] = a[i]
      /\ \A i \in 1 .. Len(t) : s[Len(a) + i] = t[i]
  BY OnTop
<1>2. Len(t) >= 1 OBVIOUS
<1>3. n \in 1 .. Len(s) /\ s[n] = t[1] BY <1>1, <1>2
<1> HIDE DEF s, n
<1>4. \A i \in 1 .. Len(a) : Claim(a[i]) = {} /\ Asks(a[i]) /\ a[i].kind # "Replace"
  BY DEF Claim, Asks
<1>5. Unreplaced(s)
  <2>1. Unreplaced(a) BY <1>4 DEF Unreplaced
  <2> QED BY <2>1, UnreplacedOnTop DEF Bare, s
<1>6. Apart(s)
  <2>1. Apart(a) /\ \A c : ~Held(a, c) BY <1>4 DEF Apart, Held
  <2> QED BY <2>1, ApartOnTop DEF Bare, s
<1>7. ASSUME NEW i \in 1 .. Len(a), NEW j \in 1 .. Len(s), OwnerAt(s, i, j)
      PROVE  /\ s[i].target \in s[j].targets
             /\ \A k \in i + 1 .. j - 1 : s[k].kind = "Ask" /\ s[k].target # s[i].target
  <2>1. i \in 1 .. Len(s) /\ n \in i + 1 .. Len(s) BY <1>1, <1>3 DEF n
  <2>2. \A k \in i + 1 .. n - 1 : k \in 1 .. Len(a) /\ k # i BY <1>1 DEF n
  <2>3. Fits(s[i], s[n]) BY <1>1, <1>3
  <2>4. \A k \in i + 1 .. n - 1 : Asks(s[k]) BY <1>1, <1>4, <2>2
  <2>5. OwnerAt(s, i, n) BY <1>3, <2>1, <2>3, <2>4 DEF OwnerAt
  <2>6. j = n BY <1>1, <1>7, <2>1, <2>5, OneOwner
  <2>7. s[i].target \in s[j].targets BY <1>1, <1>3, <2>6
  <2>8. \A k \in i + 1 .. n - 1 : s[k].kind = "Ask" /\ s[k].target # s[i].target
    BY <1>1, <2>2
  <2> QED BY <2>6, <2>7, <2>8
<1>8. Asked(s) BY <1>1, <1>7, AskedOnTopEach DEF Bare, s
<1> QED BY <1>5, <1>6, <1>8 DEF Bare, s

(* Units that go on after they have asked, when nothing else happens. *)
LEMMA CalmAsking ==
  ASSUME MovesInvariant, units # << >>, NEW u \in Units, ~Asks(u),
         Fights(u) =>
           /\ Fights(Front)
           /\ (u.kind = "Destroy" /\ u.step \in 10 .. 12) <=>
                (Front.kind = "Destroy" /\ Front.step \in 10 .. 12),
         NEW b, NEW F, Does(b, {}, F),
         NEW t, t = b \o <<u>> \o Tail(units),
         NEW a \in Seq(Units), units' = a \o t,
         \A i \in 1 .. Len(a) : Asks(a[i]) /\ Fits(a[i], t[1]),
         a # << >> => Owns(t[1]),
         AsksAlone(a, t),
         Claim(u) = Claim(Front), Clears(Front) => Clears(u),
         Leaving(Front) \subseteq Leaving(u), Falling(Front) \subseteq Falling(u),
         CardsTyped(cards'), \A c \in Cards : Same(cards'[c], cards[c]),
         UNCHANGED <<canceled, left, loose, setting>>,
         operated_set' \subseteq Cards, returns' \in BOOLEAN, acts' \in Nat
  PROVE  MovesInvariant'
<1>1. Typed /\ Stacked BY DEF MovesInvariant
<1>2. Followed(b, u, {}, F) BY <1>1, ContinuedAsking
<1>3. Status' /\ Sole' /\ Equipped' /\ Overlaid' BY <1>2, Calm DEF canceled
<1>4. Typed' /\ Stacked' BY <1>1, <1>2 DEF Typed, Followed, canceled
<1> QED BY <1>3, <1>4 DEF MovesInvariant

(* Nothing but the unit that goes on is below those that ask. *)
LEMMA AlmostFront ==
  ASSUME NEW u \in Units, NEW r \in Seq(Units)
  PROVE  /\ << >> \o <<u>> \o r \in Seq(Units) /\ << >> \o <<u>> \o r # << >>
         /\ (<< >> \o <<u>> \o r)[1] = u /\ << >> \o <<u>> \o r = <<u>> \o r
OBVIOUS

(* Steps 1 of Destroy, Release and SendTo, and 11 of Destroy. *)
LEMMA AskedKept ==
  ASSUME MovesInvariant,
         DestroyAsked \/ ReleaseAsked \/ SendAsked \/ BattleDestroyAsked
  PROVE  MovesInvariant'
<1>1. Typed /\ Stacked BY DEF MovesInvariant
<1>2. UNCHANGED <<cards, canceled, result, setting, history>>
  BY DEF DestroyAsked, ReleaseAsked, SendAsked, BattleDestroyAsked
<1>3. PICK s \in {0, 10}, n \in {2, 12} :
        /\ GoOn(n, Each(LAMBDA c : AskReplace(s, c), Front.targets))
        /\ \/ At("Destroy", 1) /\ n = 2 /\ s = 0
           \/ At("Release", 1) /\ n = 2 /\ s = 0
           \/ At("SendTo", 1) /\ n = 2 /\ s = 0
           \/ At("Destroy", 11) /\ n = 12 /\ s = 10
  BY DEF DestroyAsked, ReleaseAsked, SendAsked, BattleDestroyAsked
<1> DEFINE a == AskAll(s, Front.targets)
           u == [Front EXCEPT !.step = n]
           t == << >> \o <<u>> \o Tail(units)
<1>4. units # << >> /\ Front \in Units /\ Tail(units) \in Seq(Units)
  BY <1>1, <1>3, AtFront, RestFacts DEF At
<1>5. /\ u \in Units /\ u.kind = Front.kind /\ u.step = n /\ u.targets = Front.targets
      /\ Front.targets \in SUBSET Cards
      /\ u.kind = "Destroy" => u.reason = Front.reason
  <2>1. CASE At("Destroy", 1) \/ At("Destroy", 11)
    <3>1. Front \in DestroyUnits /\ Front.kind = "Destroy"
      BY <1>1, <2>1, AtFront, KindOf
    <3>2. Front.reason.kind = "BATTLE" => n # 2
      BY <1>1, <1>3, <2>1, <3>1, AtFront DEF DestroyUnits, At
    <3>3. /\ u \in DestroyUnits /\ u.kind = Front.kind /\ u.step = n
          /\ u.targets = Front.targets /\ Front.targets \in SUBSET Cards
          /\ u.reason = Front.reason
      <4>1. Front \in DestroyRecords BY <3>1 DEF DestroyUnits
      <4>2. /\ u \in DestroyRecords /\ u.kind = Front.kind /\ u.step = n
            /\ u.targets = Front.targets /\ Front.targets \in SUBSET Cards
            /\ u.reason = Front.reason
        BY <4>1 DEF DestroyRecords
      <4> HIDE DEF u
      <4> QED BY <3>2, <4>2 DEF DestroyUnits
    <3> HIDE DEF u
    <3> QED BY <3>3 DEF Units
  <2>2. CASE At("Release", 1)
    <3>1. Front \in ReleaseUnits /\ Front.kind = "Release" /\ n = 2
      BY <1>1, <1>3, <2>2, AtFront, KindOf DEF At
    <3>2. /\ u \in ReleaseUnits /\ u.kind = Front.kind /\ u.step = n
          /\ u.targets = Front.targets /\ Front.targets \in SUBSET Cards
      BY <3>1 DEF ReleaseUnits
    <3> HIDE DEF u
    <3> QED BY <3>1, <3>2 DEF Units
  <2>3. CASE At("SendTo", 1)
    <3>1. Front \in SendUnits /\ Front.kind = "SendTo" /\ Front.step = 1 /\ n = 2
      BY <1>1, <1>3, <2>3, AtFront, KindOf DEF At
    <3>2. Front \in SendRecords /\ Front.cv = {} BY <3>1 DEF SendUnits
    <3>3. /\ u \in SendRecords /\ u.kind = Front.kind /\ u.step = n
          /\ u.targets = Front.targets /\ Front.targets \in SUBSET Cards /\ u.cv = {}
      BY <3>1, <3>2 DEF SendRecords
    <3> HIDE DEF u
    <3>4. u \in SendUnits BY <3>3 DEF SendUnits
    <3> QED BY <3>1, <3>3, <3>4 DEF Units
  <2> QED BY <1>3, <2>1, <2>2, <2>3
<1>6. units' = a \o t
  <2>1. units' = a \o <<u>> \o Tail(units) BY <1>3 DEF GoOn, GoOnAs, Each, AskAll
  <2>2. a \in Seq(Units) /\ <<u>> \in Seq(Units) BY <1>5, EachAsks
  <2>3. t = <<u>> \o Tail(units) BY <1>4, <1>5, AlmostFront
  <2> HIDE DEF a, u, t
  <2> QED BY <1>4, <2>1, <2>2, <2>3, Regrouped
<1>7. t \in Seq(Units) /\ t # << >> /\ t[1] = u BY <1>4, <1>5, AlmostFront
<1>8. /\ a \in Seq(Units)
      /\ \A i \in 1 .. Len(a) :
           /\ a[i].kind = "Ask" /\ a[i].step = s /\ a[i].target \in u.targets
           /\ \A j \in 1 .. Len(a) : a[i].target = a[j].target => i = j
  BY <1>5, EachAsks
<1>9. t = << >> \o <<u>> \o Tail(units) OBVIOUS
<1> HIDE DEF a, u, t
<1>10. Owns(u) /\ \A i \in 1 .. Len(a) : Asks(a[i]) /\ Fits(a[i], u)
  BY <1>3, <1>5, <1>8 DEF Owns, At, Asks, Fits
<1>11. AsksAlone(a, t) BY <1>7, <1>8, <1>10, EachAlone
<1>12. /\ ~Asks(u) /\ Claim(u) = Claim(Front) /\ (Clears(Front) => Clears(u))
       /\ Leaving(Front) = {} /\ Falling(Front) \subseteq Falling(u)
       /\ Fights(u) =>
            /\ Fights(Front)
            /\ (u.kind = "Destroy" /\ u.step \in 10 .. 12) <=>
                 (Front.kind = "Destroy" /\ Front.step \in 10 .. 12)
  BY <1>3, <1>5 DEF At, Asks, Claim, Clears, Leaving, Falling, Fights
<1>13. /\ CardsTyped(cards') /\ operated_set' \subseteq Cards /\ returns' \in BOOLEAN
       /\ acts' \in Nat /\ UNCHANGED <<canceled, left, loose, setting>>
       /\ \A c \in Cards : Same(cards'[c], cards[c])
  BY <1>1, <1>2, SameCards DEF Typed, result, history
<1>14. Leaving(Front) \subseteq Leaving(u) BY <1>12
<1>15. /\ \A i \in 1 .. Len(a) : Asks(a[i]) /\ Fits(a[i], t[1])
       /\ a # << >> => Owns(t[1])
  BY <1>7, <1>10
<1>16. u \in Units /\ units # << >> /\ a \in Seq(Units) BY <1>4, <1>5, <1>8
<1> QED BY <1>6, <1>9, <1>11, <1>12, <1>13, <1>14, <1>15, <1>16, DoesNothing, CalmAsking

(* Steps 0 of Release and SendTo. *)
LEMMA CheckedKept ==
  ASSUME MovesInvariant, ReleaseChecked \/ SendChecked
  PROVE  MovesInvariant'
<1>1. Typed /\ Stacked BY DEF MovesInvariant
<1>2. UNCHANGED <<canceled, result, setting, history>>
  BY DEF ReleaseChecked, SendChecked
<1>3. PICK kept \in SUBSET Front.targets :
        /\ \/ At("Release", 0)
           \/ At("SendTo", 0) /\ (Front.reason.kind = "RULE" => kept = {})
        /\ cards' = Restored(cards, kept)
        /\ GoOnAs([Front EXCEPT !.targets = @ \ kept], 1,
                  IF Front.reason.kind = "RULE" THEN <<>> ELSE GroupReplace(5))
  BY DEF ReleaseChecked, SendChecked, LeftOut
<1> DEFINE a == IF Front.reason.kind = "RULE" THEN <<>> ELSE GroupReplace(5)
           u == [[Front EXCEPT !.targets = Front.targets \ kept] EXCEPT !.step = 1]
           t == << >> \o <<u>> \o Tail(units)
<1>4. units # << >> /\ Front \in Units /\ Tail(units) \in Seq(Units) /\ Front.step = 0
  BY <1>1, <1>3, AtFront, RestFacts DEF At
<1>5. /\ u \in Units /\ u.kind = Front.kind /\ u.step = 1
      /\ u.targets = Front.targets \ kept /\ u.kind \in {"Release", "SendTo"}
      /\ u.kind = "SendTo" => (Front.reason.kind = "RULE" => kept = {})
  <2>1. CASE At("Release", 0)
    <3>1. Front \in ReleaseUnits /\ Front.kind = "Release"
      BY <1>1, <2>1, AtFront, KindOf
    <3> DEFINE v == [Front EXCEPT !.targets = Front.targets \ kept]
    <3>2. v \in ReleaseUnits /\ v.targets = Front.targets \ kept
      BY <3>1 DEF ReleaseUnits
    <3> HIDE DEF v
    <3>3. /\ u \in ReleaseUnits /\ u.kind = "Release" /\ u.step = 1
          /\ u.targets = Front.targets \ kept
      BY <3>2 DEF ReleaseUnits, v
    <3> HIDE DEF u
    <3> QED BY <3>1, <3>3 DEF Units
  <2>2. CASE At("SendTo", 0)
    <3>1. Front \in SendUnits /\ Front.kind = "SendTo" /\ Front.step = 0
      BY <1>1, <2>2, AtFront, KindOf
    <3>2. Front \in SendRecords /\ Front.cv = {} BY <3>1 DEF SendUnits
    <3> DEFINE v == [Front EXCEPT !.targets = Front.targets \ kept]
    <3>3. v \in SendRecords /\ v.targets = Front.targets \ kept /\ v.cv = {}
      BY <3>2 DEF SendRecords
    <3> HIDE DEF v
    <3>4. /\ u \in SendRecords /\ u.kind = "SendTo" /\ u.step = 1 /\ u.cv = {}
          /\ u.targets = Front.targets \ kept
      BY <3>3 DEF SendRecords, v
    <3> HIDE DEF u
    <3>5. u \in SendUnits BY <3>4 DEF SendUnits
    <3>6. Front.reason.kind = "RULE" => kept = {} BY <1>3, <3>1 DEF At
    <3> QED BY <3>1, <3>4, <3>5, <3>6 DEF Units
  <2> QED BY <1>3, <2>1, <2>2
<1>6. /\ a \in Seq(Units)
      /\ \A i \in 1 .. Len(a) : Asks(a[i]) /\ a[i].step = 5
      /\ NothingReplaced => a = << >>
  <2>1. /\ GroupReplace(5) \in Seq(Units) /\ << >> \in Seq(Units) /\ Len(<< >>) = 0
        /\ \A i \in 1 .. Len(GroupReplace(5)) :
              Asks(GroupReplace(5)[i]) /\ GroupReplace(5)[i].step = 5
        /\ NothingReplaced => GroupReplace(5) = << >>
    BY GroupAsks
  <2> QED BY <2>1
<1>7. units' = a \o t
  <2>1. units' = a \o <<u>> \o Tail(units) BY <1>3 DEF GoOnAs
  <2>2. <<u>> \in Seq(Units) /\ t = <<u>> \o Tail(units) BY <1>4, <1>5, AlmostFront
  <2> HIDE DEF a, u, t
  <2> QED BY <1>4, <1>6, <2>1, <2>2, Regrouped
<1>8. t \in Seq(Units) /\ t # << >> /\ t[1] = u BY <1>4, <1>5, AlmostFront
<1>9. t = << >> \o <<u>> \o Tail(units) OBVIOUS
<1> HIDE DEF a, u, t
<1>10. Owns(u) /\ \A i \in 1 .. Len(a) : Asks(a[i]) /\ Fits(a[i], u)
  BY <1>5, <1>6 DEF Owns, Fits
<1>11. AsksAlone(a, t) BY <1>6, <1>8, NoneAsksAlone
<1>12. /\ ~Asks(u) /\ Claim(u) = Claim(Front) /\ ~Clears(Front) /\ ~Fights(u)
       /\ Leaving(Front) = {} /\ Falling(Front) \subseteq Falling(u)
  BY <1>4, <1>5 DEF Asks, Claim, Clears, Leaving, Falling, Fights
<1>13. /\ CardsTyped(cards') /\ operated_set' \subseteq Cards /\ returns' \in BOOLEAN
       /\ acts' \in Nat /\ UNCHANGED <<canceled, left, loose, setting>>
       /\ \A c \in Cards : Same(cards'[c], cards[c])
  BY <1>1, <1>2, <1>3, RestoredCards DEF Typed, result, history
<1>14. Leaving(Front) \subseteq Leaving(u) BY <1>12
<1>15. /\ \A i \in 1 .. Len(a) : Asks(a[i]) /\ Fits(a[i], t[1])
       /\ a # << >> => Owns(t[1])
  BY <1>8, <1>10
<1>16. u \in Units /\ units # << >> /\ (Clears(Front) => Clears(u)) BY <1>4, <1>5, <1>12
<1> QED
  BY <1>6, <1>7, <1>9, <1>11, <1>12, <1>13, <1>14, <1>15, <1>16, DoesNothing, CalmAsking

(* The SendTo that Release and Destroy leave the rest to. *)
LEMMA SendAlone ==
  ASSUME NEW T \in SUBSET Cards, NEW r \in Reasons, NEW u \in Units, NEW s \in Seq(Units)
  PROVE  LET t == <<SendTo(1, T, r)>> \o <<u>> \o s IN
         /\ t \in Seq(Units) /\ Owns(t[1])
         /\ \A i \in 1 .. Len(GroupReplace(5)) :
              Asks(GroupReplace(5)[i]) /\ Fits(GroupReplace(5)[i], t[1])
         /\ GroupReplace(5) \o <<SendTo(1, T, r)>> \o <<u>> \o s = GroupReplace(5) \o t
         /\ AsksAlone(GroupReplace(5), t)
<1> DEFINE v == SendTo(1, T, r)  a == GroupReplace(5)  t == <<v>> \o <<u>> \o s
<1>1. v \in Units /\ v.kind = "SendTo" /\ v.step = 1 BY UnitsTyped DEF SendTo
<1>2. /\ a \in Seq(Units)
      /\ \A i \in 1 .. Len(a) : Asks(a[i]) /\ a[i].step = 5
      /\ NothingReplaced => a = << >>
  BY GroupAsks
<1> HIDE DEF v, a
<1>3. t \in Seq(Units) /\ t[1] = v BY <1>1
<1>4. Owns(v) /\ \A i \in 1 .. Len(a) : Fits(a[i], v) BY <1>1, <1>2 DEF Owns, Fits
<1>5. a \o <<v>> \o <<u>> \o s = a \o t
  <2>1. <<v>> \in Seq(Units) /\ <<u>> \in Seq(Units) /\ a \o <<v>> \in Seq(Units)
        /\ <<v>> \o <<u>> \in Seq(Units)
    BY <1>1, <1>2
  <2>2. (a \o <<v>>) \o <<u>> = a \o (<<v>> \o <<u>>) BY <1>2, <2>1, Regrouped
  <2>3. (a \o (<<v>> \o <<u>>)) \o s = a \o ((<<v>> \o <<u>>) \o s)
    BY <1>2, <2>1, Regrouped
  <2> QED BY <2>2, <2>3
<1>6. AsksAlone(a, t) BY <1>2, <1>3, NoneAsksAlone
<1> QED BY <1>2, <1>3, <1>4, <1>5, <1>6 DEF v, a, t

LEMMA ReleaseSendsKept ==
  ASSUME MovesInvariant, ReleaseSends
  PROVE  MovesInvariant'
<1>1. Typed /\ Stacked BY DEF MovesInvariant
<1>2. /\ units # << >> /\ Front \in ReleaseUnits /\ Front.kind = "Release"
      /\ Front.step = 3 /\ Tail(units) \in Seq(Units)
  BY <1>1, AtFront, KindOf, RestFacts DEF ReleaseSends
<1> DEFINE r == Flagged(Front.reason, "RELEASE")
           b == <<SendTo(1, Front.targets, r)>>
           u == [Front EXCEPT !.step = 4]
           a == GroupReplace(5)
           t == b \o <<u>> \o Tail(units)
<1>3. r \in Reasons /\ Front.targets \in SUBSET Cards
  BY <1>2, ReasonTyped DEF ReleaseUnits, Flags
<1>4. u \in ReleaseUnits /\ u.kind = "Release" /\ u.step = 4 BY <1>2 DEF ReleaseUnits
<1>5. units' = a \o b \o <<u>> \o Tail(units) BY DEF ReleaseSends, GoOn, GoOnAs
<1> HIDE DEF u, r
<1>6. u \in Units BY <1>4 DEF Units
<1>7. /\ t \in Seq(Units) /\ Owns(t[1])
      /\ \A i \in 1 .. Len(a) : Asks(a[i]) /\ Fits(a[i], t[1])
      /\ units' = a \o t /\ AsksAlone(a, t)
  BY <1>2, <1>3, <1>5, <1>6, SendAlone
<1>8. Does(b, {}, Front.targets) BY <1>3, SendDoes
<1>9. t = b \o <<u>> \o Tail(units) OBVIOUS
<1>10. a \in Seq(Units) BY GroupAsks
<1> HIDE DEF a, b, t
<1>11. /\ ~Asks(u) /\ Claim(u) = Claim(Front) /\ ~Clears(Front) /\ ~Fights(u)
       /\ Leaving(Front) = {} /\ Falling(Front) = {}
  BY <1>2, <1>4 DEF Asks, Claim, Clears, Leaving, Falling, Fights
<1>12. /\ CardsTyped(cards') /\ operated_set' \subseteq Cards /\ returns' \in BOOLEAN
       /\ acts' \in Nat /\ UNCHANGED <<cards, canceled, left, loose, setting>>
  BY <1>1 DEF ReleaseSends, Typed, result, history
<1> QED BY <1>2, <1>6, <1>7, <1>8, <1>9, <1>10, <1>11, <1>12, SameCards, CalmAsking

(* Cards are let go of while what is attached stays attached. *)
LEMMA LetGoKept ==
  ASSUME MovesInvariant, units # << >>, NEW b, NEW u, NEW F, Followed(b, u, {}, F),
         NEW G, Claim(u) \subseteq Claim(Front), Claim(Front) \ Claim(u) \subseteq G,
         G \cap Claim(u) = {}, G \subseteq Claim(Front) \/ Rest = << >>,
         CardsTyped(cards'),
         \A c \in Cards :
           /\ cards'[c].confirmed <=> cards[c].confirmed /\ ~(c \in G /\ c \notin left')
           /\ Placement(cards'[c], cards[c])
           /\ cards'[c].equiping_target = cards[c].equiping_target,
         \A c \in left \ left' : c \in G, left' \subseteq Cards,
         Clears(Front) => Clears(u),
         Leaving(Front) = {}, Falling(Front) = {},
         UNCHANGED <<canceled, result, acts, loose, setting>>
  PROVE  MovesInvariant'
<1>1. Typed /\ Stacked /\ Equipped /\ Overlaid BY DEF MovesInvariant
<1>2. Status' /\ Sole' BY LetGo DEF canceled
<1>3. /\ \A c : Leaves(units, c) => Leaves(units', c)
      /\ \A c : Falls(units, c) => Falls(units', c)
  BY <1>1, RestFacts DEF Followed
<1>4. Equipped' /\ Overlaid' BY <1>1, <1>3, AttachedKept
<1>5. Typed' /\ Stacked' BY <1>1 DEF Typed, Followed, canceled, result
<1> QED BY <1>2, <1>4, <1>5 DEF MovesInvariant

LEMMA DestroySendsKept ==
  ASSUME MovesInvariant, DestroySends
  PROVE  MovesInvariant'
<1>1. Typed /\ Stacked BY DEF MovesInvariant
<1>2. /\ units # << >> /\ Front \in DestroyUnits /\ Front.kind = "Destroy"
      /\ Front.step = 4 /\ Tail(units) \in Seq(Units)
  BY <1>1, AtFront, KindOf, RestFacts DEF DestroySends
<1> DEFINE r == Flagged(Front.reason, "DESTROY")
           b == <<SendTo(1, Front.targets, r)>>
           u == [Front EXCEPT !.step = 5]
           a == GroupReplace(5)
           t == b \o <<u>> \o Tail(units)
<1>3. r \in Reasons /\ Front.targets \in SUBSET Cards
  BY <1>2, ReasonTyped DEF DestroyUnits, DestroyRecords, Flags
<1>4. u \in DestroyUnits /\ u.kind = "Destroy" /\ u.step = 5 /\ u.reason = Front.reason
  <2>1. /\ u \in DestroyRecords /\ u.kind = "Destroy" /\ u.step = 5
        /\ u.reason = Front.reason
    BY <1>2 DEF DestroyUnits, DestroyRecords
  <2> HIDE DEF u
  <2> QED BY <2>1 DEF DestroyUnits
<1>5. units' = a \o b \o <<u>> \o Tail(units)
  <2>1. units' = (a \o b) \o <<u>> \o Tail(units) BY DEF DestroySends, GoOn, GoOnAs
  <2> QED BY <2>1
<1> HIDE DEF u, r
<1>6. u \in Units BY <1>4 DEF Units
<1>7. /\ t \in Seq(Units) /\ Owns(t[1])
      /\ \A i \in 1 .. Len(a) : Asks(a[i]) /\ Fits(a[i], t[1])
      /\ units' = a \o t /\ AsksAlone(a, t)
  BY <1>2, <1>3, <1>5, <1>6, SendAlone
<1>8. Does(b, {}, Front.targets) BY <1>3, SendDoes
<1>9. t = b \o <<u>> \o Tail(units) OBVIOUS
<1>10. a \in Seq(Units) BY GroupAsks
<1> HIDE DEF a, b, t
<1>11. /\ ~Asks(u) /\ Claim(u) = {} /\ ~Clears(Front)
       /\ Leaving(Front) = {} /\ Falling(Front) = {}
       /\ Fights(u) => Fights(Front)
       /\ ~(u.kind = "Destroy" /\ u.step \in 10 .. 12)
       /\ ~(Front.kind = "Destroy" /\ Front.step \in 10 .. 12)
  BY <1>2, <1>4 DEF Asks, Claim, Clears, Leaving, Falling, Fights
<1>12. Front.targets \subseteq Claim(Front) \/ Rest = << >>
  <2>1. CASE Front.reason.kind # "BATTLE" BY <1>2, <2>1 DEF Claim
  <2>2. CASE Front.reason.kind = "BATTLE"
    <3>1. Fights(Front) BY <1>2, <2>2 DEF Fights
    <3> QED BY <1>1, <1>2, <1>11, <3>1, BottomRest, RestFacts DEF Typed, Stacked, Front
  <2> QED BY <2>1, <2>2
<1>13. Claim(Front) \subseteq Front.targets BY <1>2 DEF Claim
<1>14. Followed(b, u, {}, Front.targets)
  BY <1>1, <1>2, <1>6, <1>7, <1>8, <1>9, <1>10, <1>11, ContinuedAsking
<1>15. /\ CardsTyped(cards')
       /\ \A c \in Cards :
            /\ cards'[c].confirmed <=> cards[c].confirmed /\ c \notin Front.targets
            /\ Placement(cards'[c], cards[c])
            /\ cards'[c].equiping_target = cards[c].equiping_target
  BY <1>1, UnconfirmedCards DEF DestroySends, Typed
<1>16. /\ UNCHANGED <<canceled, result, acts, loose, setting>>
       /\ left' = left \ Front.targets /\ left' \subseteq Cards
  BY <1>1 DEF DestroySends, Typed
<1> DEFINE G == Front.targets
<1>17. /\ Claim(u) \subseteq Claim(Front) /\ Claim(Front) \ Claim(u) \subseteq G
       /\ G \cap Claim(u) = {} /\ \A c \in left \ left' : c \in G
  BY <1>11, <1>13, <1>16
<1>18. \A c \in Cards :
         /\ cards'[c].confirmed <=> cards[c].confirmed /\ ~(c \in G /\ c \notin left')
         /\ Placement(cards'[c], cards[c])
         /\ cards'[c].equiping_target = cards[c].equiping_target
  <2>1. \A c : ~(c \in G /\ c \notin left') <=> c \notin G BY <1>16
  <2> QED BY <1>15, <2>1, Zenon
<1>19. /\ G \subseteq Claim(Front) \/ Rest = << >>
       /\ units # << >> /\ CardsTyped(cards') /\ (Clears(Front) => Clears(u))
  BY <1>2, <1>11, <1>12, <1>15
<1> HIDE DEF G
<1> QED BY <1>11, <1>14, <1>16, <1>17, <1>18, <1>19, LetGoKept

(* Steps 3 and 2 of Destroy. *)
LEMMA DestroyNowKept ==
  ASSUME MovesInvariant, DestroyNow
  PROVE  MovesInvariant'
<1>1. Typed /\ Stacked /\ CardsTyped(cards) BY DEF MovesInvariant, Typed
<1>2. /\ units # << >> /\ Front \in DestroyUnits /\ Front.kind = "Destroy"
      /\ Front.step = 3
  BY <1>1, AtFront, KindOf DEF DestroyNow
<1>3. ~Clears(Front) /\ Leaving(Front) = {} /\ Falling(Front) = {}
  BY <1>2 DEF Clears, Leaving, Falling
<1>4. UNCHANGED <<canceled, setting, acts, loose>> BY DEF DestroyNow
<1>5. CASE Front.targets = {}
  <2>1. Claim(Front) = {} BY <1>5 DEF Claim
  <2>2. /\ returns' \in BOOLEAN /\ operated_set' \subseteq Cards
        /\ Finish(<< >>) /\ UNCHANGED <<cards, left>>
    BY <1>5 DEF DestroyNow
  <2> QED BY <1>2, <1>3, <1>4, <2>1, <2>2, FinishNothing
<1>6. CASE Front.targets # {}
  <2> DEFINE gone == Settled(cards, Front.targets)  rest == Front.targets \ gone
             u == [[Front EXCEPT !.targets = rest] EXCEPT !.step = 4]
             f == Restored(cards, gone)
             G == Claim(Front) \ Claim(u)
  <2>1. /\ units' = Events \o <<u>> \o Tail(units) /\ cards' = WithFlag(f, rest, "DESTROY")
        /\ left' = left \cup {c \in gone : cards[c].confirmed}
        /\ UNCHANGED result
    BY <1>6 DEF DestroyNow, GoOnAs
  <2>2. /\ u \in DestroyUnits /\ u.kind = "Destroy" /\ u.step = 4 /\ u.targets = rest
        /\ u.reason = Front.reason
    <3>1. rest \in SUBSET Cards /\ Front \in DestroyRecords
      BY <1>2 DEF DestroyUnits, DestroyRecords
    <3> HIDE DEF rest
    <3> DEFINE v == [Front EXCEPT !.targets = rest]
    <3>2. v \in DestroyRecords /\ v.reason = Front.reason /\ v.targets = rest
      BY <3>1 DEF DestroyRecords
    <3> HIDE DEF v
    <3>3. /\ u \in DestroyRecords /\ u.kind = "Destroy" /\ u.step = 4
          /\ u.targets = rest /\ u.reason = Front.reason
      BY <3>2 DEF DestroyRecords, v
    <3> HIDE DEF u
    <3> QED BY <3>3 DEF DestroyUnits
  <2>3. CardsTyped(f) /\ \A c \in Cards : Same(f[c], cards[c]) BY <1>1, RestoredCards
  <2>4. gone \subseteq Front.targets /\ gone \subseteq Cards /\ rest = Front.targets \ gone
    BY <1>2 DEF Settled, DestroyUnits, DestroyRecords
  <2> HIDE DEF f, u, gone, rest
  <2>5. CardsTyped(cards') /\ \A c \in Cards : Same(cards'[c], f[c])
    BY <2>1, <2>3, FlaggedCards DEF Flags
  <2>6. \A c \in Cards :
          /\ cards'[c].confirmed = cards[c].confirmed
          /\ Placement(cards'[c], cards[c])
          /\ cards'[c].equiping_target = cards[c].equiping_target
    BY <2>3, <2>5 DEF Same, Placement
  <2>7. /\ u \in Units /\ ~Asks(u) /\ Claim(u) \subseteq Claim(Front) /\ G \subseteq gone
        /\ Fights(u) => Fights(Front)
        /\ ~(u.kind = "Destroy" /\ u.step \in 10 .. 12)
        /\ ~(Front.kind = "Destroy" /\ Front.step \in 10 .. 12)
    BY <1>2, <2>2, <2>4 DEF Units, Asks, Claim, Fights
  <2>8. Followed(Events, u, {}, {}) BY <1>1, <1>2, <2>1, <2>7, EventsDo, Continued
  <2>9. /\ Claim(Front) \ Claim(u) \subseteq G /\ G \cap Claim(u) = {}
        /\ G \subseteq Claim(Front)
    OBVIOUS
  <2> HIDE DEF G
  <2>10. /\ \A c \in left \ left' : c \in G
         /\ left' \subseteq Cards
         /\ \A c \in Cards : cards[c].confirmed => ~(c \in G /\ c \notin left')
    BY <1>1, <2>1, <2>4, <2>7 DEF Typed
  <2>11. \A c \in Cards :
           /\ cards'[c].confirmed <=> cards[c].confirmed /\ ~(c \in G /\ c \notin left')
           /\ Placement(cards'[c], cards[c])
           /\ cards'[c].equiping_target = cards[c].equiping_target
    BY <2>6, <2>10, Zenon
  <2> QED BY <1>2, <1>3, <1>4, <2>1, <2>5, <2>7, <2>8, <2>9, <2>10, <2>11, LetGoKept
<1> QED BY <1>5, <1>6

LEMMA DestroyCanceledKept ==
  ASSUME MovesInvariant, DestroyCanceled
  PROVE  MovesInvariant'
<1>1. Typed /\ Stacked /\ CardsTyped(cards) /\ Status /\ Sole /\ Equipped /\ Overlaid
  BY DEF MovesInvariant, Typed
<1>2. /\ units # << >> /\ Front \in DestroyUnits /\ Front.kind = "Destroy"
      /\ Front.step = 2
  BY <1>1, AtFront, KindOf DEF DestroyCanceled
<1> DEFINE u == [Front EXCEPT !.step = 3]
<1>3. /\ units' = << >> \o <<u>> \o Tail(units)
      /\ cards' = Unconfirmed(cards, destroy_canceled) /\ destroy_canceled' = {}
      /\ UNCHANGED <<battle_destroy_rep, desrep_chain, result, setting, left, loose, acts>>
  BY DEF DestroyCanceled, GoOn, GoOnAs, NotDestroyed, history
<1>4. /\ u \in DestroyUnits /\ u.kind = "Destroy" /\ u.step = 3
      /\ u.targets = Front.targets /\ u.reason = Front.reason
  <2>1. /\ u \in DestroyRecords /\ u.kind = "Destroy" /\ u.step = 3
        /\ u.targets = Front.targets /\ u.reason = Front.reason
    BY <1>2 DEF DestroyUnits, DestroyRecords
  <2> HIDE DEF u
  <2> QED BY <2>1 DEF DestroyUnits
<1> HIDE DEF u
<1>5. /\ u \in Units /\ ~Asks(u) /\ Claim(u) = Claim(Front)
      /\ Fights(u) => Fights(Front)
      /\ ~(u.kind = "Destroy" /\ u.step \in 10 .. 12)
      /\ ~(Front.kind = "Destroy" /\ Front.step \in 10 .. 12)
      /\ Leaving(Front) = {} /\ Falling(Front) = {}
  BY <1>2, <1>4 DEF Units, Asks, Claim, Fights, Leaving, Falling
<1>6. Followed(<< >>, u, {}, {}) BY <1>1, <1>2, <1>3, <1>5, DoesNothing, Continued
<1>7. /\ CardsTyped(cards')
      /\ \A c \in Cards :
           /\ Placement(cards'[c], cards[c])
           /\ cards'[c].equiping_target = cards[c].equiping_target
           /\ cards'[c].confirmed <=> cards[c].confirmed /\ c \notin destroy_canceled
  BY <1>1, <1>3, UnconfirmedCards
<1>8. /\ \A c : Held(units', c) <=> Held(units, c)
      /\ \A c : Leaves(units, c) => Leaves(units', c)
      /\ \A c : Falls(units, c) => Falls(units', c)
      /\ NothingReplaced /\ Bare(units) => Bare(units')
  BY <1>1, <1>2, <1>5, <1>6, RestFacts DEF Followed
<1>9. Status' BY <1>1, <1>3, <1>7, <1>8 DEF Status
<1>10. Sole'
  <2> SUFFICES ASSUME NothingReplaced PROVE Sole' BY <1>3 DEF Sole, NothingReplaced
  <2>1. /\ destroy_canceled = {} /\ battle_destroy_rep = {} /\ Bare(units)
        /\ \A c \in Cards : Held(units, c) => cards[c].confirmed
    BY <1>1 DEF Sole, Bare
  <2>2. \A c \in Cards : Held(units', c) => cards'[c].confirmed BY <1>7, <1>8, <2>1
  <2> QED BY <1>3, <1>8, <2>1, <2>2 DEF Sole, Bare
<1>11. Equipped' /\ Overlaid' BY <1>1, <1>3, <1>7, <1>8, AttachedKept
<1>12. Typed' /\ Stacked' BY <1>1, <1>3, <1>6, <1>7 DEF Typed, Followed, result
<1> QED BY <1>9, <1>10, <1>11, <1>12 DEF MovesInvariant

(* The end of a battle. *)
LEMMA BattleDestroyedKept ==
  ASSUME MovesInvariant, BattleDestroyed
  PROVE  MovesInvariant'
<1>1. Typed /\ Stacked /\ CardsTyped(cards) BY DEF MovesInvariant, Typed
<1>2. CASE /\ At("Battle", 30)
           /\ cards' = Unconfirmed(cards, Front.targets)
           /\ left' = left \ Front.targets
           /\ GoOn(33, <<Effect>>)
           /\ UNCHANGED <<canceled, result, setting, acts, moved, loose>>
  <2>1. /\ units # << >> /\ Front \in BattleUnits /\ Front.kind = "Battle"
        /\ Front.step = 30
    BY <1>1, <1>2, AtFront, KindOf
  <2> DEFINE u == [Front EXCEPT !.step = 33]  G == Front.targets
  <2>2. units' = <<Effect>> \o <<u>> \o Tail(units) BY <1>2 DEF GoOn, GoOnAs
  <2>3. u \in BattleUnits /\ u.kind = "Battle" /\ u.step = 33 BY <2>1 DEF BattleUnits
  <2> HIDE DEF u
  <2>4. /\ u \in Units /\ ~Asks(u) /\ Claim(u) = {} /\ Claim(Front) = G /\ Fights(Front)
        /\ ~Clears(Front) /\ Leaving(Front) = {} /\ Falling(Front) = {}
    BY <2>1, <2>3 DEF Units, Asks, Claim, Fights, Clears, Leaving, Falling
  <2>5. Followed(<<Effect>>, u, {}, {})
    BY <1>1, <2>1, <2>2, <2>3, <2>4, EffectDoes, Continued
  <2>6. /\ CardsTyped(cards')
        /\ \A c \in Cards :
             /\ cards'[c].confirmed <=> cards[c].confirmed /\ c \notin G
             /\ Placement(cards'[c], cards[c])
             /\ cards'[c].equiping_target = cards[c].equiping_target
    BY <1>1, <1>2, UnconfirmedCards
  <2>7. UNCHANGED <<canceled, result, acts, loose, setting>> /\ left' = left \ G BY <1>2
  <2> HIDE DEF G
  <2>8. /\ Claim(u) \subseteq Claim(Front) /\ Claim(Front) \ Claim(u) \subseteq G
        /\ G \cap Claim(u) = {} /\ G \subseteq Claim(Front)
        /\ \A c \in left \ left' : c \in G
        /\ left' \subseteq Cards
    BY <1>1, <2>4, <2>7 DEF Typed
  <2>9. \A c \in Cards :
          /\ cards'[c].confirmed <=> cards[c].confirmed /\ ~(c \in G /\ c \notin left')
          /\ Placement(cards'[c], cards[c])
          /\ cards'[c].equiping_target = cards[c].equiping_target
    <3>1. \A c : ~(c \in G /\ c \notin left') <=> c \notin G BY <2>7
    <3> QED BY <2>6, <3>1, Zenon
  <2> QED BY <2>1, <2>4, <2>5, <2>6, <2>7, <2>8, <2>9, LetGoKept
<1>3. CASE /\ At("Battle", 33)
           /\ LET des == {c \in Front.targets : cards[c].loc = "MZONE"} IN
                Finish(<<Destroy(3, des, Reason("BATTLE", 0))>>)
           /\ UNCHANGED <<cards, canceled, result, setting, history>>
  <2>1. /\ units # << >> /\ Front \in BattleUnits /\ Front.kind = "Battle"
        /\ Front.step = 33 /\ Tail(units) \in Seq(Units)
    BY <1>1, <1>3, AtFront, KindOf, RestFacts
  <2> DEFINE des == {c \in Front.targets : cards[c].loc = "MZONE"}
             r == Reason("BATTLE", 0)  u == Destroy(3, des, r)
  <2>2. des \in SUBSET Cards /\ r \in Reasons /\ r.kind = "BATTLE"
    BY <2>1, ReasonTyped DEF BattleUnits, Kinds, Reason
  <2>3. units' = <<u>> \o Tail(units) BY <1>3 DEF Finish
  <2> HIDE DEF des, r
  <2>4. u \in Units /\ u.kind = "Destroy" /\ u.step = 3 /\ u.reason = r
    BY <2>2, UnitsTyped DEF Destroy
  <2> HIDE DEF u
  <2>5. units' = << >> \o <<u>> \o Tail(units) BY <2>1, <2>3, <2>4, AlmostFront
  <2>6. /\ ~Asks(u) /\ Claim(u) = {} /\ Claim(Front) = {} /\ Fights(Front)
        /\ ~Clears(Front) /\ Leaving(Front) = {} /\ Falling(Front) = {}
    BY <2>1, <2>2, <2>4 DEF Asks, Claim, Fights, Clears, Leaving, Falling
  <2>7. /\ CardsTyped(cards') /\ operated_set' \subseteq Cards /\ returns' \in BOOLEAN
        /\ acts' \in Nat /\ UNCHANGED <<cards, canceled, left, loose, setting>>
    BY <1>1, <1>3 DEF Typed, result, history
  <2>8. /\ \A c \in Cards : Same(cards'[c], cards[c])
        /\ ~(u.kind = "Destroy" /\ u.step \in 10 .. 12)
        /\ ~(Front.kind = "Destroy" /\ Front.step \in 10 .. 12)
    BY <2>1, <2>4, <2>7, SameCards
  <2>9. /\ Claim(u) = Claim(Front) /\ (Clears(Front) => Clears(u))
        /\ Leaving(Front) \subseteq Leaving(u) /\ Falling(Front) \subseteq Falling(u)
    BY <2>6
  <2> QED BY <2>1, <2>4, <2>5, <2>6, <2>7, <2>8, <2>9, DoesNothing, CalmGoOn
<1> QED BY <1>2, <1>3 DEF BattleDestroyed

(* A battle alone on the stack, and what destroys its losers above it. *)
LEMMA BattleAlone ==
  ASSUME NEW T \in SUBSET Cards, NEW s \in {29, 30, 33}, NEW u \in Units,
         u.kind = "Battle", u.step = s, u.targets = T
  PROVE  /\ <<u>> \in Seq(Units) /\ Stands(<<u>>) /\ Bare(<<u>>)
         /\ \A c : Held(<<u>>, c) <=> s \in {29, 30} /\ c \in T
         /\ \A c : ~Leaves(<<u>>, c) /\ ~Falls(<<u>>, c)
         /\ ~Clearing(<<u>>)
<1>1. /\ Claim(u) = (IF s \in {29, 30} THEN T ELSE {}) /\ Leaving(u) = {} /\ Falling(u) = {}
      /\ ~Clears(u) /\ ~Asks(u)
  BY DEF Claim, Leaving, Falling, Clears, Asks
<1>2. Len(<<u>>) = 1 /\ <<u>>[1] = u /\ 1 .. 1 = {1} OBVIOUS
<1>3. Owned(<<u>>) /\ Unreplaced(<<u>>) /\ Asked(<<u>>) /\ Apart(<<u>>)
  BY <1>1, <1>2 DEF Owned, Unreplaced, Asked, Apart
<1>4. AtBottom(<<u>>) BY <1>2 DEF AtBottom, Fought
<1> QED BY <1>1, <1>3, <1>4, SomeOfOne DEF Stands, Bare

LEMMA LosersAlone ==
  ASSUME NEW T \in SUBSET Cards, NEW r \in Reasons
  PROVE  LET s == <<Destroy(10, T, r), Battle({})>> IN
         /\ s \in Seq(Units) /\ Stands(s) /\ Bare(s)
         /\ \A c : Held(s, c) <=> c \in T
<1> DEFINE d == Destroy(10, T, r)  b == Battle({})  s == <<d, b>>
<1>1. /\ d \in Units /\ d.kind = "Destroy" /\ d.step = 10 /\ d.targets = T
      /\ b \in Units /\ b.kind = "Battle" /\ b.step = 29 /\ b.targets = {}
  BY UnitsTyped DEF Destroy, Battle
<1> HIDE DEF d, b
<1>2. s \in Seq(Units) /\ Len(s) = 2 /\ s[1] = d /\ s[2] = b /\ 1 .. 2 = {1, 2} BY <1>1
<1> HIDE DEF s
<1>3. Claim(d) = T /\ Claim(b) = {} /\ ~Asks(d) /\ ~Asks(b) BY <1>1 DEF Claim, Asks
<1>4. Owned(s) /\ Unreplaced(s) /\ Asked(s)
  BY <1>1, <1>2, <1>3 DEF Owned, Unreplaced, Asked
<1>5. Apart(s) BY <1>2, <1>3 DEF Apart
<1>6. AtBottom(s) BY <1>1, <1>2 DEF AtBottom, Fought
<1>7. \A c : Held(s, c) <=> c \in T BY <1>2, <1>3 DEF Held
<1> QED BY <1>2, <1>4, <1>5, <1>6, <1>7 DEF s, d, b, Stands, Bare

LEMMA LoseBattleKept ==
  ASSUME MovesInvariant, LoseBattle
  PROVE  MovesInvariant'
<1>1. Typed /\ Stacked /\ CardsTyped(cards) /\ Status /\ Sole /\ Equipped /\ Overlaid
  BY DEF MovesInvariant, Typed
<1>2. units = << >> /\ Act("battle") BY DEF LoseBattle
<1>3. PICK T \in SUBSET Cards :
        /\ cards' = Confirmed(cards, T, NewReason("BATTLE"))
        /\ Start(<<Destroy(10, T, NewReason("BATTLE")), Battle({})>>)
  BY DEF LoseBattle, Chosen
<1> DEFINE r == NewReason("BATTLE")  s == <<Destroy(10, T, r), Battle({})>>
<1>4. r \in Reasons /\ acts' \in Nat BY <1>1, <1>2, ActFacts DEF Kinds
<1>5. cards' = Confirmed(cards, T, r) /\ units' = s \o << >> BY <1>2, <1>3 DEF Start
<1> HIDE DEF r
<1>6. s \in Seq(Units) /\ Stands(s) /\ Bare(s) /\ \A c : Held(s, c) <=> c \in T
  BY <1>4, LosersAlone
<1> HIDE DEF s
<1>7. units' = s BY <1>5, <1>6
<1>8. /\ CardsTyped(cards')
      /\ \A c \in Cards :
           /\ Placement(cards'[c], cards[c])
           /\ cards'[c].equiping_target = cards[c].equiping_target
           /\ cards'[c].confirmed <=> cards[c].confirmed \/ c \in T
  BY <1>1, <1>4, <1>5, ConfirmedCards
<1>9. /\ battle_destroy_rep' = {} /\ desrep_chain' = 0
      /\ UNCHANGED <<destroy_canceled, result, setting, left, loose>>
  BY DEF LoseBattle
<1>10. \A c : ~Held(units, c) /\ ~Leaves(units, c) /\ ~Falls(units, c) /\ ~Clearing(units)
  BY <1>2, SomeOfNone
<1>11. Status' BY <1>1, <1>6, <1>7, <1>8, <1>9, <1>10 DEF Status
<1>12. Sole'
  <2> SUFFICES ASSUME NothingReplaced PROVE Sole' BY <1>9 DEF Sole, NothingReplaced
  <2>1. destroy_canceled' = {} BY <1>1, <1>9 DEF Sole
  <2>2. \A c \in Cards : Held(units', c) => cards'[c].confirmed BY <1>6, <1>7, <1>8
  <2> QED BY <1>6, <1>7, <1>9, <2>1, <2>2 DEF Sole, Bare
<1>13. Equipped' /\ Overlaid' BY <1>1, <1>8, <1>9, <1>10, AttachedKept
<1>14. Typed' /\ Stacked'
  BY <1>1, <1>4, <1>6, <1>7, <1>8, <1>9 DEF Typed, result, Stacked, Stands
<1> QED BY <1>11, <1>12, <1>13, <1>14 DEF MovesInvariant

LEMMA BattleDestroyOverKept ==
  ASSUME MovesInvariant, BattleDestroyOver
  PROVE  MovesInvariant'
<1>1. Typed /\ Stacked /\ CardsTyped(cards) /\ Status /\ Sole /\ Equipped /\ Overlaid
  BY DEF MovesInvariant, Typed
<1>2. /\ units # << >> /\ Front \in DestroyUnits /\ Front.kind = "Destroy"
      /\ Front.step = 12 /\ Rest = Tail(units) /\ units \in Seq(Units)
  BY <1>1, AtFront, KindOf DEF BattleDestroyOver, Typed
<1> DEFINE T == Front.targets  u == [units[2] EXCEPT !.targets = T]
<1>3. T \in SUBSET Cards BY <1>2 DEF DestroyUnits, DestroyRecords
<1>4. /\ Len(Tail(units)) = 1 /\ Tail(units)[1].kind = "Battle"
      /\ Tail(units)[1].step = 29 /\ Tail(units)[1].targets = {}
  <2>1. Fights(Front) /\ Front.step \in 10 .. 12 BY <1>2 DEF Fights
  <2> QED BY <1>1, <1>2, <2>1, BottomRest DEF Stacked, Front
<1>5. /\ Len(units) = 2 /\ Tail(units)[1] = units[2] /\ units[2] \in Units
      /\ Rest = <<units[2]>>
  <2>1. \A x \in Seq(Units) : Len(x) = 1 => x = <<x[1]>> OBVIOUS
  <2>2. /\ Tail(units) \in Seq(Units) /\ Len(units) = 2 /\ Tail(units)[1] = units[2]
        /\ units[2] \in Units
    <3>1. /\ Tail(units) \in Seq(Units) /\ Len(Tail(units)) = Len(units) - 1
          /\ Len(units) >= 1
          /\ \A i \in 1 .. Len(Tail(units)) : Tail(units)[i] = units[i + 1]
      BY <1>2, FrontOnRest
    <3>2. Len(units) = 2 /\ Len(units) \in Nat BY <1>2, <1>4, <3>1
    <3>3. 1 \in 1 .. Len(Tail(units)) /\ 1 + 1 = 2 /\ 2 \in 1 .. Len(units)
      BY <1>4, <3>2
    <3>4. Tail(units)[1] = units[2] BY <3>1, <3>3
    <3>5. \A x \in Seq(Units) : \A i \in 1 .. Len(x) : x[i] \in Units OBVIOUS
    <3>6. units[2] \in Units BY <1>2, <3>3, <3>5
    <3> QED BY <3>1, <3>2, <3>4, <3>6
  <2> QED BY <1>2, <1>4, <2>1, <2>2
<1>6. units[2] \in BattleUnits /\ units[2].step = 29 /\ units[2].targets = {}
  BY <1>4, <1>5, KindOf
<1>7. u \in BattleUnits /\ u.kind = "Battle" /\ u.step = 29 /\ u.targets = T
  BY <1>3, <1>6 DEF BattleUnits
<1>8. units' = <<u>>
  <2>1. units' = <<u>> \o SubSeq(units, 3, Len(units)) BY DEF BattleDestroyOver
  <2>2. SubSeq(units, 3, 2) = << >> /\ u \in BattleUnits BY <1>2, <1>7
  <2> HIDE DEF u
  <2>3. <<u>> \in Seq(BattleUnits) BY <2>2
  <2>4. <<u>> \o << >> = <<u>> BY <2>3
  <2>5. SubSeq(units, 3, Len(units)) = << >> BY <1>5, <2>2
  <2> QED BY <2>1, <2>4, <2>5
<1> HIDE DEF u, T
<1>9. u \in Units BY <1>7 DEF Units
<1>10. /\ <<u>> \in Seq(Units) /\ Stands(<<u>>) /\ Bare(<<u>>)
       /\ \A c : Held(<<u>>, c) <=> c \in T
  <2>1. PICK s \in {29, 30, 33} : s = 29 OBVIOUS
  <2> QED BY <1>3, <1>7, <1>9, <2>1, BattleAlone
<1>11. /\ \A c : ~Held(Rest, c) /\ ~Leaves(Rest, c) /\ ~Falls(Rest, c)
  <2>1. /\ Claim(units[2]) = {} /\ Leaving(units[2]) = {} /\ Falling(units[2]) = {}
    BY <1>6 DEF BattleUnits, Claim, Leaving, Falling
  <2> QED BY <1>5, <2>1, SomeOfOne
<1>12. Claim(Front) = T /\ Leaving(Front) = {} /\ Falling(Front) = {}
  BY <1>2 DEF Claim, Leaving, Falling, T
<1>13. /\ \A c : Held(units, c) <=> c \in T
       /\ \A c : ~Leaves(units, c) /\ ~Falls(units, c)
  BY <1>1, <1>2, <1>11, <1>12, RestFacts
<1>14. /\ cards' = Unconfirmed(cards, destroy_canceled) /\ destroy_canceled' = {}
       /\ UNCHANGED <<battle_destroy_rep, desrep_chain, result, setting, acts, left, loose>>
  BY DEF BattleDestroyOver, NotDestroyed, history
<1>15. /\ CardsTyped(cards')
       /\ \A c \in Cards :
            /\ Placement(cards'[c], cards[c])
            /\ cards'[c].equiping_target = cards[c].equiping_target
            /\ cards'[c].confirmed <=> cards[c].confirmed /\ c \notin destroy_canceled
  BY <1>1, <1>14, UnconfirmedCards
<1>16. \A c : Held(units', c) <=> Held(units, c) BY <1>8, <1>10, <1>13
<1>17. Status' BY <1>1, <1>14, <1>15, <1>16 DEF Status
<1>18. Sole'
  <2> SUFFICES ASSUME NothingReplaced PROVE Sole' BY <1>14 DEF Sole, NothingReplaced
  <2>1. /\ destroy_canceled = {} /\ battle_destroy_rep = {}
        /\ \A c \in Cards : Held(units, c) => cards[c].confirmed
    BY <1>1 DEF Sole
  <2>2. \A c \in Cards : Held(units', c) => cards'[c].confirmed BY <1>15, <1>16, <2>1
  <2> QED BY <1>8, <1>10, <1>14, <2>1, <2>2 DEF Sole, Bare
<1>19. Equipped' /\ Overlaid' BY <1>1, <1>13, <1>14, <1>15, AttachedKept
<1>20. Typed' /\ Stacked'
  BY <1>1, <1>8, <1>10, <1>14, <1>15 DEF Typed, result, Stacked, Stands
<1> QED BY <1>17, <1>18, <1>19, <1>20 DEF MovesInvariant

-----------------------------------------------------------------------------
(* What replaces. *)

(* Operations that are done, and effects that do not replace. *)
LEMMA OperationReplacedKept ==
  ASSUME MovesInvariant, OperationReplaced \/ NotReplaced
  PROVE  MovesInvariant'
<1>1. Typed /\ Stacked BY DEF MovesInvariant
<1>2. \E s \in {0, 3, 5, 8, 10, 12, 15} : At("Replace", s)
  BY DEF OperationReplaced, NotReplaced, At
<1>3. /\ units # << >> /\ Front \in ReplaceUnits /\ Front.kind = "Replace"
      /\ Claim(Front) = {} /\ ~Clears(Front) /\ Leaving(Front) = {} /\ Falling(Front) = {}
  BY <1>1, <1>2, AtFront, KindOf DEF Claim, Clears, Leaving, Falling
<1>4. /\ UNCHANGED <<cards, destroy_canceled, battle_destroy_rep, operated_set, setting,
                     left, loose, acts>>
      /\ returns' \in BOOLEAN
  BY <1>1 DEF OperationReplaced, NotReplaced, canceled, result, history, Typed
<1>5. CASE Finish(<< >>) /\ UNCHANGED desrep_chain
  <2>1. operated_set' \subseteq Cards BY <1>1, <1>4 DEF Typed
  <2> QED BY <1>3, <1>4, <1>5, <2>1, FinishNothing DEF canceled
<1>6. CASE /\ At("Replace", 15) /\ desrep_chain # 0
           /\ GoOn(15, <<Effect>>) /\ desrep_chain' = desrep_chain - 1
  <2> DEFINE u == [Front EXCEPT !.step = 15]
  <2>1. units' = <<Effect>> \o <<u>> \o Tail(units) BY <1>6 DEF GoOn, GoOnAs
  <2>2. u \in ReplaceUnits /\ u.kind = "Replace" /\ u.step = 15 BY <1>3 DEF ReplaceUnits
  <2> HIDE DEF u
  <2>3. u \in Units /\ ~Asks(u) /\ ~Fights(u) /\ Claim(u) = {}
    BY <2>2 DEF Units, Asks, Fights, Claim
  <2>4. Followed(<<Effect>>, u, {}, {}) BY <1>1, <1>3, <2>1, <2>3, EffectDoes, Continued
  <2>5. Status' /\ Sole' /\ Equipped' /\ Overlaid'
    <3>1. /\ Claim(u) = Claim(Front) /\ Leaving(Front) \subseteq Leaving(u)
          /\ Falling(Front) \subseteq Falling(u)
      BY <1>3, <2>3
    <3>2. /\ \A c \in Cards : Same(cards'[c], cards[c])
          /\ UNCHANGED <<destroy_canceled, battle_destroy_rep, left, loose, setting>>
      BY <1>4, SameCards
    <3> QED BY <1>3, <2>4, <3>1, <3>2, Calm
  <2>6. Typed' /\ Stacked' BY <1>1, <1>4, <1>6, <2>4 DEF Typed, Followed
  <2> QED BY <2>5, <2>6 DEF MovesInvariant
<1>7. \/ Finish(<< >>) /\ UNCHANGED desrep_chain
      \/ /\ At("Replace", 15) /\ desrep_chain # 0
         /\ GoOn(15, <<Effect>>) /\ desrep_chain' = desrep_chain - 1
  BY DEF OperationReplaced, NotReplaced, canceled
<1> QED BY <1>5, <1>6, <1>7

(* Steps 0 and 10 of Destroy: cards are spared, or have a substitute. *)
LEMMA SparedStatus ==
  ASSUME MovesInvariant, units # << >>, NEW b, NEW u, NEW F, Followed(b, u, {}, F),
         NEW spared \in SUBSET Claim(Front), NEW sub \in SUBSET Claim(Front),
         NEW extra, Claim(u) = (Claim(Front) \ (spared \cup sub)) \cup extra,
         NothingReplaced => sub = {} /\ extra = {} /\ battle_destroy_rep' = {},
         destroy_canceled' = destroy_canceled \cup sub,
         \A c \in Cards : cards'[c].confirmed <=> cards[c].confirmed /\ c \notin spared,
         Clears(u), UNCHANGED <<left, setting>>
  PROVE  Status' /\ Sole'
<1>1. Typed /\ Stacked /\ Status /\ Sole BY DEF MovesInvariant
<1>2. /\ \A c : Held(units, c) <=> c \in Claim(Front) \/ Held(Rest, c)
      /\ Bare(units) => \A c : ~(c \in Claim(Front) /\ Held(Rest, c))
  BY <1>1, RestFacts
<1>3. /\ \A c : Held(units', c) <=> c \in Claim(u) \/ Held(Rest, c)
      /\ Clearing(units')
  BY DEF Followed
<1>4. Status'
  <2> SUFFICES ASSUME NEW c \in Cards, cards'[c].confirmed
               PROVE  \/ c \in left' \/ Held(units', c)
                      \/ c \in destroy_canceled' /\ Clearing(units')
    BY DEF Status
  <2>1. cards[c].confirmed /\ c \notin spared OBVIOUS
  <2>2. \/ c \in left \/ c \in Claim(Front) \/ Held(Rest, c)
        \/ c \in destroy_canceled /\ Clearing(units)
    BY <1>1, <1>2, <2>1 DEF Status
  <2> QED BY <1>3, <2>1, <2>2
<1>5. Sole'
  <2> SUFFICES ASSUME NothingReplaced PROVE Sole' BY DEF Sole, NothingReplaced
  <2>1. /\ destroy_canceled = {} /\ Bare(units)
        /\ \A c \in Cards : Held(units, c) => cards[c].confirmed
    BY <1>1 DEF Sole, Bare
  <2>2. Claim(u) = Claim(Front) \ spared
    <3>1. sub = {} /\ extra = {} OBVIOUS
    <3> QED BY <3>1
  <2>3. \A c \in Cards : Held(units', c) => cards'[c].confirmed
    BY <1>2, <1>3, <2>1, <2>2
  <2>4. Bare(units') BY <1>2, <2>1, <2>2 DEF Followed
  <2>5. destroy_canceled' = {} /\ battle_destroy_rep' = {} BY <2>1
  <2> QED BY <2>3, <2>4, <2>5 DEF Sole, Bare
<1> QED BY <1>4, <1>5

LEMMA SparedKept ==
  ASSUME MovesInvariant, NEW m, NEW n, NEW g,
         \/ m = 0 /\ n = 1 /\ g = 5
         \/ m = 10 /\ n = 11 /\ g = 12,
         At("Destroy", m),
         NEW spared \in SUBSET Front.targets, NEW sub \in SUBSET Front.targets,
         NEW extra \in SUBSET Cards, NEW v,
         v = [Front EXCEPT !.targets = (Front.targets \ (spared \cup sub)) \cup extra],
         GoOnAs(v, n, GroupReplace(g)),
         NothingReplaced => sub = {} /\ extra = {} /\ battle_destroy_rep' = {},
         destroy_canceled' = destroy_canceled \cup sub,
         battle_destroy_rep' \subseteq Cards,
         CardsTyped(cards'),
         \A c \in Cards :
           /\ Placement(cards'[c], cards[c])
           /\ cards'[c].equiping_target = cards[c].equiping_target
           /\ cards'[c].confirmed <=> cards[c].confirmed /\ c \notin spared,
         UNCHANGED <<desrep_chain, result, setting, left, loose, acts>>
  PROVE  MovesInvariant'
<1>1. Typed /\ Stacked /\ Equipped /\ Overlaid BY DEF MovesInvariant
<1>2. /\ units # << >> /\ Front \in DestroyUnits /\ Front.kind = "Destroy"
      /\ Front.step = m /\ Tail(units) \in Seq(Units)
      /\ m = 0 => Front.reason.kind # "BATTLE"
  <2>1. /\ units # << >> /\ Front \in DestroyUnits /\ Front.kind = "Destroy"
        /\ Front.step = m /\ Tail(units) \in Seq(Units)
    BY <1>1, AtFront, KindOf, RestFacts
  <2>2. m = 0 => Front.reason.kind # "BATTLE" BY <2>1 DEF DestroyUnits
  <2> QED BY <2>1, <2>2
<1> DEFINE T == (Front.targets \ (spared \cup sub)) \cup extra
           a == GroupReplace(g)
           u == [v EXCEPT !.step = n]
           t == << >> \o <<u>> \o Tail(units)
<1>3. /\ u \in Units /\ u.kind = "Destroy" /\ u.step = n /\ u.targets = T
      /\ u.reason = Front.reason
  <2>1. Front \in DestroyRecords /\ T \in SUBSET Cards
    BY <1>2 DEF DestroyUnits, DestroyRecords
  <2>2. v = [Front EXCEPT !.targets = T] OBVIOUS
  <2> HIDE DEF T
  <2>3. /\ v \in DestroyRecords /\ v.kind = "Destroy" /\ v.targets = T
        /\ v.reason = Front.reason
    BY <2>1, <2>2 DEF DestroyRecords
  <2>4. /\ u \in DestroyRecords /\ u.kind = "Destroy" /\ u.step = n
        /\ u.targets = T /\ u.reason = Front.reason
    BY <2>3 DEF DestroyRecords
  <2> HIDE DEF u
  <2>5. u \in DestroyUnits BY <1>2, <2>4 DEF DestroyUnits
  <2> QED BY <2>4, <2>5 DEF Units
<1>4. /\ a \in Seq(Units)
      /\ \A i \in 1 .. Len(a) : Asks(a[i]) /\ a[i].step = g
      /\ NothingReplaced => a = << >>
  BY GroupAsks
<1>5. units' = a \o t
  <2>1. units' = a \o <<u>> \o Tail(units) BY DEF GoOnAs
  <2>2. <<u>> \in Seq(Units) /\ t = <<u>> \o Tail(units) BY <1>2, <1>3, AlmostFront
  <2> HIDE DEF a, u, t
  <2> QED BY <1>2, <1>4, <2>1, <2>2, Regrouped
<1>6. t \in Seq(Units) /\ t # << >> /\ t[1] = u BY <1>2, <1>3, AlmostFront
<1>7. t = << >> \o <<u>> \o Tail(units) OBVIOUS
<1> HIDE DEF a, u, t
<1>8. Owns(u) /\ \A i \in 1 .. Len(a) : Asks(a[i]) /\ Fits(a[i], u)
  BY <1>3, <1>4 DEF Owns, Fits
<1>9. AsksAlone(a, t) BY <1>4, <1>6, NoneAsksAlone
<1>10. /\ ~Asks(u) /\ Claim(u) = T /\ Claim(Front) = Front.targets /\ Clears(u)
       /\ Leaving(Front) = {} /\ Falling(Front) = {}
       /\ Fights(u) =>
            /\ Fights(Front)
            /\ (u.kind = "Destroy" /\ u.step \in 10 .. 12) <=>
                 (Front.kind = "Destroy" /\ Front.step \in 10 .. 12)
  BY <1>2, <1>3 DEF Asks, Claim, Clears, Leaving, Falling, Fights
<1>11. Followed(<< >>, u, {}, {})
  BY <1>1, <1>2, <1>3, <1>4, <1>5, <1>6, <1>7, <1>8, <1>9, <1>10, DoesNothing, ContinuedAsking
<1>12. Status' /\ Sole' BY <1>2, <1>10, <1>11, SparedStatus
<1>13. /\ \A c : Leaves(units, c) => Leaves(units', c)
       /\ \A c : Falls(units, c) => Falls(units', c)
  BY <1>1, <1>2, <1>10, <1>11, RestFacts DEF Followed
<1>14. Equipped' /\ Overlaid' BY <1>1, <1>13, AttachedKept
<1>15. Typed' /\ Stacked'
  <2>1. destroy_canceled' \subseteq Cards
    BY <1>1, <1>2 DEF Typed, DestroyUnits, DestroyRecords
  <2> QED BY <1>1, <1>11, <2>1 DEF Typed, Followed, result
<1> QED BY <1>12, <1>14, <1>15 DEF MovesInvariant

LEMMA DestroyCheckedKept ==
  ASSUME MovesInvariant, DestroyChecked
  PROVE  MovesInvariant'
<1>1. Typed /\ CardsTyped(cards) /\ Sole BY DEF MovesInvariant, Typed
<1>2. PICK spared \in SUBSET Front.targets :
        \E sub \in SUBSET (Front.targets \ spared),
             extra \in {{}} \cup {{c} : c \in {d \in Cards : ~Off(cards, d)}} :
            /\ (sub = {}) = (extra = {}) /\ (sub # {} => setting.substitutes)
            /\ LET rest == Front.targets \ (spared \cup sub)
                   back == Unconfirmed(Restored(cards, spared \cup sub), spared)
               IN /\ cards' = Given(back, extra \ rest, Substitute, "GRAVE")
                  /\ destroy_canceled' = destroy_canceled \cup sub
                  /\ GoOnAs([Front EXCEPT !.targets = rest \cup extra], 1,
                            GroupReplace(5))
  BY DEF DestroyChecked
<1>3. PICK sub \in SUBSET (Front.targets \ spared),
           extra \in {{}} \cup {{c} : c \in {d \in Cards : ~Off(cards, d)}} :
            /\ (sub = {}) = (extra = {}) /\ (sub # {} => setting.substitutes)
            /\ LET rest == Front.targets \ (spared \cup sub)
                   back == Unconfirmed(Restored(cards, spared \cup sub), spared)
               IN /\ cards' = Given(back, extra \ rest, Substitute, "GRAVE")
                  /\ destroy_canceled' = destroy_canceled \cup sub
                  /\ GoOnAs([Front EXCEPT !.targets = rest \cup extra], 1,
                            GroupReplace(5))
  BY <1>2
<1> DEFINE rest == Front.targets \ (spared \cup sub)
           f == Restored(cards, spared \cup sub)
           h == Unconfirmed(f, spared)
<1>4. CardsTyped(f) /\ \A c \in Cards : Same(f[c], cards[c]) BY <1>1, RestoredCards
<1> HIDE DEF f
<1>5. /\ CardsTyped(h)
      /\ \A c \in Cards :
           /\ Placement(h[c], f[c]) /\ h[c].equiping_target = f[c].equiping_target
           /\ h[c].confirmed <=> f[c].confirmed /\ c \notin spared
  BY <1>4, UnconfirmedCards
<1>6. cards' = Given(h, extra \ rest, Substitute, "GRAVE") BY <1>3 DEF f
<1> HIDE DEF h
<1>7. CardsTyped(cards') /\ \A c \in Cards : Same(cards'[c], h[c])
  BY <1>5, <1>6, ReasonTyped, GivenCards DEF Piles
<1>8. \A c \in Cards :
        /\ Placement(cards'[c], cards[c])
        /\ cards'[c].equiping_target = cards[c].equiping_target
  BY <1>4, <1>5, <1>7 DEF Same, Placement
<1>9. \A c \in Cards : cards'[c].confirmed <=> cards[c].confirmed /\ c \notin spared
  <2> TAKE c \in Cards
  <2>1. cards'[c].confirmed = h[c].confirmed /\ f[c].confirmed = cards[c].confirmed
    BY <1>4, <1>7 DEF Same
  <2> QED BY <1>5, <2>1, Zenon
<1>10. extra \in SUBSET Cards /\ (NothingReplaced => sub = {} /\ extra = {})
  BY <1>3 DEF NothingReplaced
<1>11. UNCHANGED <<battle_destroy_rep, desrep_chain, result, setting, left, loose, acts>>
  BY DEF DestroyChecked, history
<1>12. /\ NothingReplaced => battle_destroy_rep' = {}
       /\ battle_destroy_rep' \subseteq Cards
  BY <1>1, <1>11 DEF Sole, Typed
<1>13. /\ destroy_canceled' = destroy_canceled \cup sub /\ At("Destroy", 0)
       /\ GoOnAs([Front EXCEPT !.targets = (Front.targets \ (spared \cup sub)) \cup extra],
                 1, GroupReplace(5))
  BY <1>3 DEF DestroyChecked
<1>14. sub \in SUBSET Front.targets OBVIOUS
<1> QED BY <1>7, <1>8, <1>9, <1>10, <1>11, <1>12, <1>13, <1>14, SparedKept

LEMMA BattleDestroyKept ==
  ASSUME MovesInvariant, BattleDestroy
  PROVE  MovesInvariant'
<1>1. Typed /\ CardsTyped(cards) /\ Sole BY DEF MovesInvariant, Typed
<1>2. PICK spared \in SUBSET Front.targets :
        \E sub \in SUBSET (Front.targets \ spared), extra \in SUBSET Cards :
            /\ (sub = {}) = (extra = {}) /\ (sub # {} => setting.substitutes)
            /\ cards' = Unconfirmed(Restored(cards, spared \cup sub), spared)
            /\ destroy_canceled' = destroy_canceled \cup sub
            /\ battle_destroy_rep' = battle_destroy_rep \cup extra
            /\ GoOnAs([Front EXCEPT !.targets = Front.targets \ (spared \cup sub)], 11,
                      GroupReplace(12))
  BY DEF BattleDestroy
<1>3. PICK sub \in SUBSET (Front.targets \ spared), extra \in SUBSET Cards :
            /\ (sub = {}) = (extra = {}) /\ (sub # {} => setting.substitutes)
            /\ cards' = Unconfirmed(Restored(cards, spared \cup sub), spared)
            /\ destroy_canceled' = destroy_canceled \cup sub
            /\ battle_destroy_rep' = battle_destroy_rep \cup extra
            /\ GoOnAs([Front EXCEPT !.targets = Front.targets \ (spared \cup sub)], 11,
                      GroupReplace(12))
  BY <1>2
<1> DEFINE f == Restored(cards, spared \cup sub)
<1>4. CardsTyped(f) /\ \A c \in Cards : Same(f[c], cards[c]) BY <1>1, RestoredCards
<1>5. cards' = Unconfirmed(f, spared) BY <1>3
<1> HIDE DEF f
<1>6. /\ CardsTyped(cards')
      /\ \A c \in Cards :
           /\ Placement(cards'[c], f[c])
           /\ cards'[c].equiping_target = f[c].equiping_target
           /\ cards'[c].confirmed <=> f[c].confirmed /\ c \notin spared
  BY <1>4, <1>5, UnconfirmedCards
<1>7. \A c \in Cards :
        /\ Placement(cards'[c], cards[c])
        /\ cards'[c].equiping_target = cards[c].equiping_target
  BY <1>4, <1>6 DEF Same, Placement
<1>8. \A c \in Cards : cards'[c].confirmed <=> cards[c].confirmed /\ c \notin spared
  <2> TAKE c \in Cards
  <2>1. f[c].confirmed = cards[c].confirmed BY <1>4 DEF Same
  <2> QED BY <1>6, <2>1, Zenon
<1>9. NothingReplaced => sub = {} /\ extra = {} BY <1>3 DEF NothingReplaced
<1>10. UNCHANGED <<desrep_chain, result, setting, left, loose, acts>>
  BY DEF BattleDestroy, history
<1>11. /\ NothingReplaced => battle_destroy_rep' = {}
       /\ battle_destroy_rep' \subseteq Cards
  BY <1>1, <1>3, <1>9 DEF Sole, Typed
<1>12. (Front.targets \ (spared \cup sub)) \cup {} = Front.targets \ (spared \cup sub)
  OBVIOUS
<1>13. /\ destroy_canceled' = destroy_canceled \cup sub /\ At("Destroy", 10)
       /\ GoOnAs([Front EXCEPT !.targets = (Front.targets \ (spared \cup sub)) \cup {}],
                 11, GroupReplace(12))
  BY <1>3, <1>12 DEF BattleDestroy
<1>14. sub \in SUBSET Front.targets /\ {} \in SUBSET Cards OBVIOUS
<1> QED BY <1>6, <1>7, <1>8, <1>9, <1>10, <1>11, <1>13, <1>14, SparedKept

(* The owner is the one that the invariant knows. *)
LEMMA OwnerFound ==
  ASSUME Typed, Stacked, units # << >>, Asks(Front)
  PROVE  OwnerIndex \in 2 .. Len(units) /\ OwnerAt(units, 1, OwnerIndex)
<1> DEFINE Has(i) == units[i].kind \in {"Destroy", "Release", "SendTo"}
           First(i) == Has(i) /\ \A j \in 2 .. i - 1 : ~Has(j)
<1>1. /\ units \in Seq(Units) /\ Len(units) \in Nat /\ 1 \in 1 .. Len(units)
      /\ Front = units[1]
  BY FrontOnRest DEF Typed, Front
<1>2. PICK j \in 1 .. Len(units) : OwnerAt(units, 1, j) BY <1>1 DEF Stacked, Owned
<1>3. /\ j \in 2 .. Len(units) /\ Owns(units[j])
      /\ \A k \in 2 .. j - 1 : Asks(units[k])
  <2>1. 1 + 1 = 2 OBVIOUS
  <2> QED BY <1>2, <2>1 DEF OwnerAt
<1>4. First(j) BY <1>3 DEF Owns, Asks
<1>5. ASSUME NEW i \in 2 .. Len(units), First(i) PROVE i = j
  <2>1. ~(i < j)
    <3> SUFFICES ASSUME i < j PROVE FALSE OBVIOUS
    <3>1. i \in 2 .. j - 1 BY <1>1, <1>3
    <3> QED BY <1>4, <1>5, <3>1
  <2>2. ~(j < i)
    <3> SUFFICES ASSUME j < i PROVE FALSE OBVIOUS
    <3>1. j \in 2 .. i - 1 BY <1>1, <1>3
    <3> QED BY <1>4, <1>5, <3>1
  <2> QED BY <1>1, <1>3, <2>1, <2>2
<1>6. OwnerIndex = CHOOSE i \in 2 .. Len(units) : First(i) BY DEF OwnerIndex
<1> HIDE DEF First
<1>7. OwnerIndex = j BY <1>3, <1>4, <1>5, <1>6
<1> QED BY <1>2, <1>3, <1>7

(* A stack in which an owner has lost the targets in S. *)
Shrunk(s, t, o, S) ==
  /\ s \in Seq(Units) /\ t \in Seq(Units) /\ Len(t) = Len(s)
  /\ o \in 1 .. Len(s) /\ Owns(s[o])
  /\ \A k \in 1 .. Len(s) : k # o => t[k] = s[k]
  /\ t[o].kind = s[o].kind /\ t[o].step = s[o].step /\ t[o].targets = s[o].targets \ S
  /\ s[o].kind = "Destroy" => t[o].reason = s[o].reason

LEMMA ShrunkUnits ==
  ASSUME NEW s, NEW t, NEW o, NEW S, Shrunk(s, t, o, S), NEW k \in 1 .. Len(s)
  PROVE  /\ Asks(t[k]) <=> Asks(s[k])
         /\ Owns(t[k]) <=> Owns(s[k])
         /\ Fights(t[k]) <=> Fights(s[k])
         /\ Clears(t[k]) <=> Clears(s[k])
         /\ t[k].kind = s[k].kind /\ t[k].step = s[k].step
         /\ Leaving(t[k]) = Leaving(s[k])
         /\ Claim(t[k]) \subseteq Claim(s[k])
         /\ \A c : c \in Claim(s[k]) /\ ~(c \in S /\ s[o].kind = "Destroy") =>
                   c \in Claim(t[k])
         /\ \A c : c \in Falling(s[k]) /\ ~(c \in S /\ s[o].kind = "SendTo") =>
                   c \in Falling(t[k])
<1>1. CASE k = o BY <1>1 DEF Shrunk, Asks, Owns, Fights, Clears, Leaving, Claim, Falling
<1>2. CASE k # o
  <2>1. t[k] = s[k] BY <1>2 DEF Shrunk
  <2> QED BY <2>1
<1> QED BY <1>1, <1>2

LEMMA ShrunkStands ==
  ASSUME NEW s, NEW t, NEW o, NEW S, Shrunk(s, t, o, S), Stands(s)
  PROVE  Stands(t) /\ \A x : Dangles(s, x) => Dangles(t, x)
<1>1. /\ s \in Seq(Units) /\ t \in Seq(Units) /\ Len(t) = Len(s) /\ Len(s) \in Nat
      /\ o \in 1 .. Len(s) /\ Owns(s[o])
      /\ \A k \in 1 .. Len(s) : k # o => t[k] = s[k]
  BY DEF Shrunk
<1>2. \A k \in 1 .. Len(s) :
        /\ Asks(t[k]) <=> Asks(s[k])
        /\ Owns(t[k]) <=> Owns(s[k])
        /\ Fights(t[k]) <=> Fights(s[k])
        /\ t[k].kind = s[k].kind /\ t[k].step = s[k].step
  BY ShrunkUnits
<1>3. \A x : \A k \in 1 .. Len(s) : Fits(x, s[k]) => Fits(x, t[k]) BY <1>2 DEF Fits
<1>4. \A i, k \in 1 .. Len(s) : Fits(s[i], s[k]) => Fits(t[i], t[k]) BY <1>2 DEF Fits
<1>5. Owned(t)
  <2> SUFFICES ASSUME NEW i \in 1 .. Len(s), Asks(t[i])
               PROVE  \E j \in 1 .. Len(s) : OwnerAt(t, i, j)
    BY <1>1 DEF Owned
  <2>1. PICK j \in 1 .. Len(s) : OwnerAt(s, i, j) BY <1>2 DEF Stands, Owned
  <2>2. \A k \in i + 1 .. j - 1 : k \in 1 .. Len(s) BY <1>1
  <2>3. OwnerAt(t, i, j) BY <1>1, <1>2, <1>4, <2>1, <2>2 DEF OwnerAt
  <2> QED BY <2>3
<1>6. AtBottom(t)
  <2> SUFFICES ASSUME NEW i \in 1 .. Len(s), Fights(t[i]) PROVE Fought(t, i)
    BY <1>1 DEF AtBottom
  <2>1. Fought(s, i) BY <1>2 DEF Stands, AtBottom
  <2>2. CASE s[i].kind = "Destroy" /\ s[i].step \in 10 .. 12
    <3>1. /\ Len(s) = i + 1
          /\ s[i + 1].kind = "Battle" /\ s[i + 1].step = 29 /\ s[i + 1].targets = {}
      BY <2>1, <2>2 DEF Fought
    <3>2. i + 1 \in 1 .. Len(s) /\ i + 1 # o BY <1>1, <3>1 DEF Owns
    <3>3. t[i + 1] = s[i + 1] BY <1>1, <3>2
    <3> QED BY <1>1, <1>2, <2>2, <3>1, <3>3 DEF Fought
  <2>3. CASE ~(s[i].kind = "Destroy" /\ s[i].step \in 10 .. 12)
    BY <1>1, <1>2, <2>1, <2>3 DEF Fought
  <2> QED BY <2>2, <2>3
<1>7. ASSUME NEW x, Dangles(s, x) PROVE Dangles(t, x)
  <2>1. PICK j \in 1 .. Len(s) :
          Owns(s[j]) /\ Fits(x, s[j]) /\ \A k \in 1 .. j - 1 : Asks(s[k])
    BY <1>7 DEF Dangles
  <2>2. \A k \in 1 .. j - 1 : k \in 1 .. Len(s) BY <1>1
  <2> QED BY <1>1, <1>2, <1>3, <2>1, <2>2 DEF Dangles
<1> QED BY <1>5, <1>6, <1>7 DEF Stands

LEMMA ShrunkSome ==
  ASSUME NEW s, NEW t, NEW o, NEW S, Shrunk(s, t, o, S)
  PROVE  /\ \A c : Held(t, c) => Held(s, c)
         /\ \A c : Held(s, c) /\ ~(c \in S /\ s[o].kind = "Destroy") => Held(t, c)
         /\ \A c : Leaves(t, c) <=> Leaves(s, c)
         /\ \A c : Falls(s, c) /\ ~(c \in S /\ s[o].kind = "SendTo") => Falls(t, c)
         /\ Clearing(t) <=> Clearing(s)
         /\ s[o].kind = "Destroy" => Clearing(t)
<1>1. Len(t) = Len(s) /\ o \in 1 .. Len(s) /\ Owns(s[o]) BY DEF Shrunk
<1>2. \A k \in 1 .. Len(s) :
         /\ Clears(t[k]) <=> Clears(s[k])
         /\ Leaving(t[k]) = Leaving(s[k])
         /\ Claim(t[k]) \subseteq Claim(s[k])
         /\ \A c : c \in Claim(s[k]) /\ ~(c \in S /\ s[o].kind = "Destroy") =>
                   c \in Claim(t[k])
         /\ \A c : c \in Falling(s[k]) /\ ~(c \in S /\ s[o].kind = "SendTo") =>
                   c \in Falling(t[k])
  BY ShrunkUnits
<1>3. /\ \A c : Held(t, c) => Held(s, c)
      /\ \A c : Held(s, c) /\ ~(c \in S /\ s[o].kind = "Destroy") => Held(t, c)
  BY <1>1, <1>2 DEF Held
<1>4. \A c : Leaves(t, c) <=> Leaves(s, c) BY <1>1, <1>2 DEF Leaves
<1>5. \A c : Falls(s, c) /\ ~(c \in S /\ s[o].kind = "SendTo") => Falls(t, c)
  BY <1>1, <1>2 DEF Falls
<1>6. Clearing(t) <=> Clearing(s) BY <1>1, <1>2 DEF Clearing
<1>7. s[o].kind = "Destroy" => Clearing(s) BY <1>1 DEF Owns, Clears, Clearing
<1> QED BY <1>3, <1>4, <1>5, <1>6, <1>7

(* Nobody else has what the owner has lost, and nobody asks for it. *)
LEMMA ShrunkBare ==
  ASSUME NEW s, NEW t, NEW o, NEW S, Shrunk(s, t, o, S), Bare(s),
         \A i \in 1 .. Len(s) :
           s[i].kind = "Ask" /\ OwnerAt(s, i, o) => s[i].target \notin S
  PROVE  /\ Bare(t)
         /\ \A c \in S : c \in Claim(s[o]) => ~Held(t, c)
<1>1. /\ s \in Seq(Units) /\ t \in Seq(Units) /\ Len(t) = Len(s) /\ Len(s) \in Nat
      /\ o \in 1 .. Len(s) /\ t[o].targets = s[o].targets \ S
      /\ \A k \in 1 .. Len(s) : k # o => t[k] = s[k]
  BY DEF Shrunk
<1>2. \A k \in 1 .. Len(s) :
        /\ Asks(t[k]) <=> Asks(s[k])
        /\ Owns(t[k]) <=> Owns(s[k])
        /\ t[k].kind = s[k].kind /\ t[k].step = s[k].step
        /\ Claim(t[k]) \subseteq Claim(s[k])
  BY ShrunkUnits
<1>3. Apart(t) /\ Unreplaced(t) BY <1>1, <1>2 DEF Bare, Apart, Unreplaced
<1>4. Asked(t)
  <2> SUFFICES ASSUME NEW i \in 1 .. Len(s), NEW j \in 1 .. Len(s),
                      t[i].kind = "Ask", OwnerAt(t, i, j)
               PROVE  /\ t[i].target \in t[j].targets
                      /\ \A k \in i + 1 .. j - 1 :
                           t[k].kind = "Ask" /\ t[k].target # t[i].target
    BY <1>1 DEF Asked
  <2>1. ~Owns(t[i]) /\ Asks(t[i]) BY DEF Owns, Asks
  <2>2. Owns(s[o]) BY DEF Shrunk
  <2>3. i # o /\ t[i] = s[i] /\ s[i].kind = "Ask" BY <1>1, <1>2, <2>1, <2>2
  <2>4. \A k \in i + 1 .. j - 1 : k \in 1 .. Len(s) BY <1>1
  <2>5. Fits(s[i], s[j]) BY <1>2, <2>3 DEF OwnerAt, Fits
  <2>6. OwnerAt(s, i, j) BY <1>1, <1>2, <2>4, <2>5 DEF OwnerAt
  <2>7. /\ s[i].target \in s[j].targets
        /\ \A k \in i + 1 .. j - 1 : s[k].kind = "Ask" /\ s[k].target # s[i].target
    BY <2>3, <2>6 DEF Bare, Asked
  <2>8. t[i].target \in t[j].targets
    <3>1. CASE j = o BY <1>1, <2>3, <2>6, <2>7, <3>1
    <3>2. CASE j # o BY <1>1, <2>3, <2>7, <3>2
    <3> QED BY <3>1, <3>2
  <2>9. ASSUME NEW k \in i + 1 .. j - 1
        PROVE  t[k].kind = "Ask" /\ t[k].target # t[i].target
    <3>1. s[k].kind = "Ask" /\ k # o /\ k \in 1 .. Len(s) BY <2>2, <2>4, <2>7 DEF Owns
    <3>2. t[k] = s[k] BY <1>1, <3>1
    <3> QED BY <2>3, <2>7, <3>2
  <2> QED BY <2>8, <2>9
<1>5. ASSUME NEW c \in S, c \in Claim(s[o]), Held(t, c) PROVE FALSE
  <2>1. PICK k \in 1 .. Len(s) : c \in Claim(t[k]) BY <1>1, <1>5 DEF Held
  <2>2. k # o
    <3>1. Claim(t[o]) \subseteq t[o].targets BY DEF Claim
    <3> QED BY <1>1, <2>1, <3>1
  <2> QED BY <1>1, <1>2, <1>5, <2>1, <2>2 DEF Bare, Apart
<1> QED BY <1>3, <1>4, <1>5 DEF Bare

Losing(w, S) == [w EXCEPT !.targets = w.targets \ S]

LEMMA OwnerLoses ==
  ASSUME NEW w \in Units, Owns(w), NEW S
  PROVE  /\ Losing(w, S) \in Units
         /\ Losing(w, S).kind = w.kind /\ Losing(w, S).step = w.step
         /\ Losing(w, S).targets = w.targets \ S /\ w.targets \subseteq Cards
         /\ w.kind = "Destroy" => Losing(w, S).reason = w.reason
<1> DEFINE T == w.targets \ S  v == Losing(w, S)
<1>1. T = w.targets \ S /\ v = [w EXCEPT !.targets = T] /\ T \subseteq w.targets
  BY DEF Losing
<1> SUFFICES /\ v \in Units /\ v.kind = w.kind /\ v.step = w.step
             /\ v.targets = T /\ w.targets \subseteq Cards
             /\ w.kind = "Destroy" => v.reason = w.reason
  OBVIOUS
<1> HIDE DEF T, v
<1>2. CASE w.kind = "Destroy"
  <2>1. w \in DestroyRecords /\ w \in DestroyUnits BY <1>2, KindOf DEF DestroyUnits
  <2>2. /\ v \in DestroyRecords /\ v.kind = w.kind /\ v.step = w.step
        /\ v.targets = T /\ w.targets \subseteq Cards /\ v.reason = w.reason
    BY <1>1, <2>1 DEF DestroyRecords
  <2>3. v \in DestroyUnits BY <2>1, <2>2 DEF DestroyUnits
  <2> QED BY <1>1, <2>2, <2>3 DEF Units
<1>3. CASE w.kind = "Release"
  <2>1. w \in ReleaseUnits BY <1>3, KindOf
  <2>2. /\ v \in ReleaseUnits /\ v.kind = w.kind /\ v.step = w.step
        /\ v.targets = T /\ w.targets \subseteq Cards
    BY <1>1, <2>1 DEF ReleaseUnits
  <2> QED BY <1>1, <1>3, <2>2 DEF Units
<1>4. CASE w.kind = "SendTo"
  <2>1. w \in SendRecords /\ w \in SendUnits /\ w.step \in {1, 2} /\ w.cv = {}
    BY <1>4, KindOf DEF SendUnits, Owns
  <2>2. /\ v \in SendRecords /\ v.kind = w.kind /\ v.step = w.step
        /\ v.targets = T /\ w.targets \subseteq Cards /\ v.cv = {}
    BY <1>1, <2>1 DEF SendRecords
  <2>3. v \in SendUnits BY <2>1, <2>2 DEF SendUnits
  <2> QED BY <1>1, <1>4, <2>2, <2>3 DEF Units
<1> QED BY <1>2, <1>3, <1>4 DEF Owns

(* What TakenOut does to the stack. *)
LEMMA TakenOutDoes ==
  ASSUME Typed, Stacked, units # << >>, Asks(Front), NEW S
  PROVE  /\ Shrunk(Rest, Tail(TakenOut(S)), OwnerIndex - 1, S)
         /\ Rest[OwnerIndex - 1] = Owner /\ Owner.targets \subseteq Cards /\ Owns(Owner)
         /\ OwnerIndex \in 2 .. Len(units) /\ OwnerAt(units, 1, OwnerIndex)
         /\ \A u \in Units : \A s :
              u = [Front EXCEPT !.step = s] =>
                [TakenOut(S) EXCEPT ![1].step = s] = <<u>> \o Tail(TakenOut(S))
<1> DEFINE o == OwnerIndex  w == units[o]  v == [w EXCEPT !.targets = w.targets \ S]
           z == TakenOut(S)  t == Tail(z)
<1>1. /\ units \in Seq(Units) /\ Len(units) \in Nat /\ Rest = Tail(units)
      /\ Rest \in Seq(Units) /\ Front = units[1]
      /\ Len(Rest) = Len(units) - 1
      /\ \A i \in 1 .. Len(Rest) : Rest[i] = units[i + 1]
  BY FrontOnRest DEF Typed, Front, Rest
<1>2. o \in 2 .. Len(units) /\ OwnerAt(units, 1, o) BY OwnerFound
<1>3. w \in Units /\ Owns(w) /\ Owner = w BY <1>1, <1>2 DEF OwnerAt, Owner
<1>4. /\ v \in Units /\ v.kind = w.kind /\ v.step = w.step
      /\ v.targets = w.targets \ S /\ w.targets \subseteq Cards
      /\ w.kind = "Destroy" => v.reason = w.reason
  <2>1. v = Losing(w, S) BY DEF Losing
  <2> HIDE DEF v, w
  <2> QED BY <1>3, <2>1, OwnerLoses
<1>5. z = [units EXCEPT ![o] = v] BY DEF TakenOut
<1> HIDE DEF z, v, w, o
<1>6. /\ z \in Seq(Units) /\ Len(z) = Len(units) /\ z[o] = v /\ z # << >>
      /\ \A k \in 1 .. Len(units) : k # o => z[k] = units[k]
  BY <1>1, <1>2, <1>4, <1>5
<1>7. /\ t \in Seq(Units) /\ Len(t) = Len(Rest)
      /\ \A k \in 1 .. Len(Rest) : t[k] = z[k + 1]
  BY <1>1, <1>6, FrontOnRest
<1>8. o - 1 \in 1 .. Len(Rest) /\ (o - 1) + 1 = o BY <1>1, <1>2
<1>9. Rest[o - 1] = w /\ t[o - 1] = v BY <1>1, <1>6, <1>7, <1>8 DEF w
<1>10. \A k \in 1 .. Len(Rest) : k # o - 1 => t[k] = Rest[k]
  <2> TAKE k \in 1 .. Len(Rest)
  <2>1. k + 1 \in 1 .. Len(units) /\ (k # o - 1 => k + 1 # o) BY <1>1, <1>2
  <2> QED BY <1>1, <1>6, <1>7, <2>1
<1>11. Shrunk(Rest, t, o - 1, S) BY <1>1, <1>3, <1>4, <1>7, <1>8, <1>9, <1>10 DEF Shrunk
<1>12. ASSUME NEW u \in Units, NEW s, u = [Front EXCEPT !.step = s]
       PROVE  [z EXCEPT ![1].step = s] = <<u>> \o t
  <2>1. 1 \in 1 .. Len(units) /\ 1 # o BY <1>1, <1>2
  <2>2. z[1] = Front BY <1>1, <1>6, <2>1
  <2>3. [z EXCEPT ![1].step = s] = [z EXCEPT ![1] = u] BY <1>12, <2>2
  <2>4. \A x \in Seq(Units) : x # << >> => [x EXCEPT ![1] = u] = <<u>> \o Tail(x)
    OBVIOUS
  <2> QED BY <1>6, <2>3, <2>4
<1> QED BY <1>2, <1>3, <1>4, <1>9, <1>11, <1>12 DEF z, w, o

(* Cards are replaced, which take no part any more in what their owner does. *)
LEMMA ReplacedCards ==
  ASSUME MovesInvariant, units # << >>, Asks(Front), Front.kind = "Replace",
         NEW S \in SUBSET Cards, Replaced(S), NEW t, t = Tail(TakenOut(S)),
         units' \in Seq(Units), Stacked',
         \A c : Held(units', c) <=> Held(t, c),
         \A c : Leaves(units', c) <=> Leaves(t, c),
         Clearing(units') <=> Clearing(t),
         UNCHANGED <<battle_destroy_rep, operated_set, setting, left, loose, acts>>,
         desrep_chain' \in Nat, returns' \in BOOLEAN
  PROVE  MovesInvariant'
<1>1. Typed /\ Stacked /\ CardsTyped(cards) /\ Status /\ Sole /\ Equipped /\ Overlaid
  BY DEF MovesInvariant, Typed
<1> DEFINE o == OwnerIndex - 1
<1>2. Shrunk(Rest, t, o, S) /\ Rest[o] = Owner BY <1>1, TakenOutDoes
<1>3. /\ \A c : Held(Rest, c) /\ ~(c \in S /\ Owner.kind = "Destroy") => Held(t, c)
      /\ \A c : Leaves(t, c) <=> Leaves(Rest, c)
      /\ Clearing(t) <=> Clearing(Rest)
      /\ Owner.kind = "Destroy" => Clearing(t)
  <2> HIDE DEF o
  <2>1. /\ \A c : Held(Rest, c) /\ ~(c \in S /\ Rest[o].kind = "Destroy") => Held(t, c)
        /\ \A c : Leaves(t, c) <=> Leaves(Rest, c)
        /\ Clearing(t) <=> Clearing(Rest)
        /\ Rest[o].kind = "Destroy" => Clearing(t)
    BY <1>2, ShrunkSome
  <2> QED BY <1>2, <2>1
<1>4. Claim(Front) = {} /\ ~Clears(Front) /\ Leaving(Front) = {}
  BY DEF Claim, Clears, Leaving
<1>5. /\ \A c : Held(units, c) => Held(units', c) \/ (c \in S /\ Owner.kind = "Destroy")
      /\ \A c : Leaves(units, c) => Leaves(units', c)
      /\ Clearing(units) => Clearing(units')
      /\ Owner.kind = "Destroy" => Clearing(units')
  BY <1>1, <1>3, <1>4, RestFacts
<1>6. CardsTyped(cards') /\ \A c \in Cards : Same(cards'[c], cards[c])
  BY <1>1, RestoredCards DEF Replaced
<1>7. /\ destroy_canceled \subseteq destroy_canceled' /\ destroy_canceled' \subseteq Cards
      /\ Owner.kind = "Destroy" => S \subseteq destroy_canceled'
  BY <1>1 DEF Replaced, Typed
<1>8. Status'
  <2>1. \A c \in Cards :
           cards'[c].confirmed =>
             /\ cards[c].confirmed
             /\ Held(units, c) =>
                  Held(units', c) \/ (c \in destroy_canceled' /\ Clearing(units'))
    BY <1>5, <1>6, <1>7 DEF Same
  <2> QED BY <1>1, <1>5, <1>7, <2>1, StatusKept
<1>9. ~NothingReplaced
  <2>1. 1 \in 1 .. Len(units) /\ Front = units[1] BY <1>1, FrontOnRest DEF Typed, Front
  <2>2. Front.step # 15 BY DEF Asks
  <2> QED BY <1>1, <2>1, <2>2 DEF Sole, Unreplaced
<1>10. Sole' BY <1>9 DEF Sole, NothingReplaced
<1>11. Equipped' /\ Overlaid'
  <2>1. \A c \in Cards :
          /\ Placement(cards'[c], cards[c])
          /\ cards'[c].equiping_target \in {None, cards[c].equiping_target}
    BY <1>6 DEF Same
  <2> QED BY <1>1, <1>5, <1>9, <2>1, AttachedKept
<1>12. Typed' BY <1>1, <1>6, <1>7 DEF Typed
<1> QED BY <1>8, <1>10, <1>11, <1>12 DEF MovesInvariant

LEMMA ReplacedKept ==
  ASSUME MovesInvariant,
         ReplacedForCard \/ ReplacedForGroup \/ SavedForCard \/ SavedForGroup
  PROVE  MovesInvariant'
<1>1. Typed /\ Stacked BY DEF MovesInvariant
<1>2. /\ UNCHANGED <<battle_destroy_rep, operated_set, setting, left, loose, acts>>
      /\ desrep_chain' \in Nat /\ returns' \in BOOLEAN
  <2>1. desrep_chain \in Nat /\ returns \in BOOLEAN BY <1>1 DEF Typed
  <2>2. CASE ReplacedForCard BY <2>1, <2>2 DEF ReplacedForCard, history
  <2>3. CASE ReplacedForGroup BY <2>1, <2>3 DEF ReplacedForGroup, history
  <2>4. CASE SavedForCard BY <2>1, <2>4 DEF SavedForCard, history
  <2>5. CASE SavedForGroup BY <2>1, <2>5 DEF SavedForGroup, history
  <2> QED BY <2>2, <2>3, <2>4, <2>5
<1>3. PICK m \in {0, 5, 10, 12} :
        /\ At("Replace", m)
        /\ m = 0 => ReplacedForCard
        /\ m = 5 => ReplacedForGroup
        /\ m = 10 => SavedForCard
        /\ m = 12 => SavedForGroup
  <2>2. CASE ReplacedForCard
    <3>1. At("Replace", 0) BY <2>2 DEF ReplacedForCard
    <3> QED BY <2>2, <3>1
  <2>3. CASE ReplacedForGroup
    <3>1. At("Replace", 5) BY <2>3 DEF ReplacedForGroup
    <3> QED BY <2>3, <3>1
  <2>4. CASE SavedForCard
    <3>1. At("Replace", 10) BY <2>4 DEF SavedForCard
    <3> QED BY <2>4, <3>1
  <2>5. CASE SavedForGroup
    <3>1. At("Replace", 12) BY <2>5 DEF SavedForGroup
    <3> QED BY <2>5, <3>1
  <2> QED BY <2>2, <2>3, <2>4, <2>5
<1>4. /\ units # << >> /\ Front \in ReplaceUnits /\ Front.kind = "Replace"
      /\ Front.step = m /\ Rest = Tail(units) /\ Rest \in Seq(Units) /\ Stands(Rest)
  BY <1>1, <1>3, AtFront, KindOf, RestFacts
<1>5. Asks(Front) /\ (m \in {0, 10} => Front.target \in Cards)
  BY <1>4 DEF Asks, ReplaceUnits
<1>6. Owner.targets \subseteq Cards BY <1>1, <1>4, <1>5, TakenOutDoes
<1>7. PICK S \in SUBSET Cards :
        /\ Replaced(S)
        /\ \/ m \in {10, 12} /\ units' = Tail(TakenOut(S))
           \/ m = 0 /\ units' = <<Effect>> \o [TakenOut(S) EXCEPT ![1].step = 3]
           \/ m = 5 /\ units' = <<Effect>> \o [TakenOut(S) EXCEPT ![1].step = 8]
  <2>1. CASE m = 0
    <3> DEFINE S == Replaceable({Front.target})
    <3>1. /\ S \in SUBSET Cards /\ Replaced(S)
          /\ units' = <<Effect>> \o [TakenOut(S) EXCEPT ![1].step = 3]
      BY <1>3, <1>5, <2>1 DEF ReplacedForCard, Replaceable
    <3> HIDE DEF S
    <3> QED BY <2>1, <3>1
  <2>2. CASE m = 5
    <3>1. PICK R \in SUBSET Targets :
            /\ Replaced(Replaceable(R))
            /\ units' = <<Effect>> \o [TakenOut(Replaceable(R)) EXCEPT ![1].step = 8]
      BY <1>3, <2>2 DEF ReplacedForGroup
    <3>2. Replaceable(R) \in SUBSET Cards BY <1>6 DEF Targets, Replaceable
    <3> QED BY <2>2, <3>1, <3>2
  <2>3. CASE m = 10
    <3> DEFINE S == {Front.target}
    <3>1. /\ S \in SUBSET Cards /\ Replaced(S)
          /\ units' = Tail(TakenOut(S))
      BY <1>3, <1>5, <2>3 DEF SavedForCard
    <3> HIDE DEF S
    <3> QED BY <2>3, <3>1
  <2>4. CASE m = 12
    <3>1. PICK R \in SUBSET Targets : Replaced(R) /\ units' = Tail(TakenOut(R))
      BY <1>3, <2>4 DEF SavedForGroup
    <3> QED BY <1>6, <2>4, <3>1 DEF Targets
  <2> QED BY <2>1, <2>2, <2>3, <2>4
<1> DEFINE t == Tail(TakenOut(S))  o == OwnerIndex - 1
<1>8. Shrunk(Rest, t, o, S) BY <1>1, <1>4, <1>5, TakenOutDoes
<1>9. t \in Seq(Units) /\ Stands(t) /\ \A x : Dangles(Rest, x) => Dangles(t, x)
  <2> HIDE DEF t, o
  <2> QED BY <1>4, <1>8, ShrunkStands DEF Shrunk
<1>10. /\ units' \in Seq(Units) /\ Stands(units')
       /\ \A c : Held(units', c) <=> Held(t, c)
       /\ \A c : Leaves(units', c) <=> Leaves(t, c)
       /\ Clearing(units') <=> Clearing(t)
  <2>1. CASE m \in {10, 12}
    <3>1. units' = t BY <1>7, <2>1
    <3> HIDE DEF t
    <3> QED BY <1>9, <3>1
  <2>2. CASE m \in {0, 5}
    <3> DEFINE n == IF m = 0 THEN 3 ELSE 8
               u == [Front EXCEPT !.step = n]  w == <<u>> \o t
    <3>1. units' = <<Effect>> \o [TakenOut(S) EXCEPT ![1].step = n] BY <1>7, <2>2
    <3>2. u \in ReplaceUnits /\ u.kind = "Replace" /\ u.step = n /\ n \in {3, 8}
      BY <1>4, <2>2 DEF ReplaceUnits
    <3>3. u \in Units BY <3>2 DEF Units
    <3>4. [TakenOut(S) EXCEPT ![1].step = n] = w BY <1>1, <1>4, <1>5, <3>3, TakenOutDoes
    <3> HIDE DEF t, u, n
    <3>5. Asks(u) /\ Dangles(t, u)
      <4>1. Asks(u) BY <3>2 DEF Asks
      <4>2. Dangles(t, Front) BY <1>1, <1>4, <1>5, <1>9, RestFacts
      <4>3. \A x : Fits(Front, x) => Fits(u, x) BY <1>4, <2>2, <3>2 DEF Fits
      <4> QED BY <4>1, <4>2, <4>3 DEF Dangles
    <3>6. /\ <<u>> \in Seq(Units)
          /\ \A i \in 1 .. Len(<<u>>) : Asks(<<u>>[i]) /\ Dangles(t, <<u>>[i])
      BY <3>3, <3>5
    <3>7. /\ w \in Seq(Units) /\ Stands(w)
          /\ \A c : Held(w, c) <=> Held(t, c)
          /\ \A c : Leaves(w, c) <=> Leaves(t, c)
          /\ Clearing(w) <=> Clearing(t)
      BY <1>9, <3>6, AsksOnTop
    <3> HIDE DEF w
    <3>8. Plain(<<Effect>>) /\ <<Effect>> \in Seq(Units) BY EffectDoes DEF Does, Plain
    <3>9. /\ <<Effect>> \o w \in Seq(Units) /\ Stands(<<Effect>> \o w)
      BY <3>7, <3>8, PlainStands
    <3>10. /\ \A c : Held(<<Effect>> \o w, c) <=> Held(w, c)
           /\ \A c : Leaves(<<Effect>> \o w, c) <=> Leaves(w, c)
           /\ Clearing(<<Effect>> \o w) <=> Clearing(w)
      BY <3>7, <3>8, EffectDoes, SomeOnTop DEF Does
    <3>11. units' = <<Effect>> \o w BY <3>1, <3>4
    <3> QED BY <3>7, <3>9, <3>10, <3>11
  <2> QED BY <2>1, <2>2
<1>11. Stacked' BY <1>10 DEF Stacked, Stands
<1>12. t = Tail(TakenOut(S)) OBVIOUS
<1> HIDE DEF t, o
<1> QED BY <1>2, <1>4, <1>5, <1>7, <1>10, <1>11, <1>12, ReplacedCards
(* A card that is there is asked for no more, and its owner leaves it out. *)
LEMMA ThereKept ==
  ASSUME MovesInvariant, units # << >>, Front.kind = "Ask", There(Front.target),
         units' = Tail(TakenOut({Front.target})),
         cards' = IF Owner.kind = "Destroy"
                  THEN Unconfirmed(Restored(cards, {Front.target}), {Front.target})
                  ELSE Restored(cards, {Front.target}),
         UNCHANGED <<canceled, result, setting, left, loose, acts>>
  PROVE  MovesInvariant'
<1>1. Typed /\ Stacked /\ CardsTyped(cards) /\ Status /\ Sole /\ Equipped /\ Overlaid
  BY DEF MovesInvariant, Typed
<1>2. /\ units \in Seq(Units) /\ Front \in Units /\ Front \in AskUnits /\ Asks(Front)
      /\ Claim(Front) = {} /\ ~Clears(Front) /\ Leaving(Front) = {} /\ Falling(Front) = {}
  BY <1>1, RestFacts, KindOf DEF Typed, Asks, Claim, Clears, Leaving, Falling
<1>3. /\ \A c : Held(units, c) <=> Held(Rest, c)
      /\ \A c : Leaves(units, c) <=> Leaves(Rest, c)
      /\ \A c : Falls(units, c) <=> Falls(Rest, c)
      /\ Clearing(units) <=> Clearing(Rest)
      /\ Bare(units) => Bare(Rest)
      /\ Rest = Tail(units) /\ Rest \in Seq(Units) /\ Stands(Rest)
  BY <1>1, <1>2, RestFacts
<1> DEFINE x == Front.target  S == {x}  t == Tail(TakenOut(S))  o == OwnerIndex - 1
<1>4. /\ Shrunk(Rest, t, o, S) /\ Rest[o] = Owner /\ Owns(Owner)
      /\ OwnerIndex \in 2 .. Len(units) /\ OwnerAt(units, 1, OwnerIndex)
  BY <1>1, <1>2, TakenOutDoes
<1>5. x \in Cards /\ S = {x} /\ units' = t BY <1>2 DEF AskUnits
<1>6. o = OwnerIndex - 1 OBVIOUS
<1>7. Owner.kind = "SendTo" => cards[x].overlay_target = None
  BY <1>1, <1>5 DEF There, CardsTyped, CardTyped, CardRecords, Piles
<1>8. /\ CardsTyped(cards')
      /\ \A c \in Cards :
           /\ Placement(cards'[c], cards[c])
           /\ cards'[c].equiping_target = cards[c].equiping_target
           /\ cards'[c].confirmed <=>
                cards[c].confirmed /\ ~(c \in S /\ Owner.kind = "Destroy")
  <2> DEFINE f == Restored(cards, S)
  <2>1. CardsTyped(f) /\ \A c \in Cards : Same(f[c], cards[c]) BY <1>1, RestoredCards
  <2>2. cards' = IF Owner.kind = "Destroy" THEN Unconfirmed(f, S) ELSE f OBVIOUS
  <2> HIDE DEF f, S
  <2>3. CASE Owner.kind = "Destroy"
    <3> DEFINE g == Unconfirmed(f, S)
    <3>0. cards' = g BY <2>2, <2>3
    <3>1. /\ CardsTyped(g)
          /\ \A c \in Cards :
               /\ Placement(g[c], f[c])
               /\ g[c].equiping_target = f[c].equiping_target
               /\ g[c].confirmed <=> f[c].confirmed /\ c \notin S
      BY <2>1, UnconfirmedCards
    <3> HIDE DEF g
    <3>2. ASSUME NEW c \in Cards
          PROVE  /\ Placement(cards'[c], cards[c])
                 /\ cards'[c].equiping_target = cards[c].equiping_target
                 /\ cards'[c].confirmed <=> cards[c].confirmed /\ c \notin S
      BY <2>1, <3>0, <3>1 DEF Same, Placement
    <3> QED BY <2>3, <3>0, <3>1, <3>2
  <2>4. CASE Owner.kind # "Destroy" BY <2>1, <2>2, <2>4 DEF Same
  <2> QED BY <2>3, <2>4
<1> HIDE DEF x, S, t, o
<1>9. /\ \A c : Held(t, c) => Held(Rest, c)
      /\ \A c : Held(Rest, c) /\ ~(c \in S /\ Owner.kind = "Destroy") => Held(t, c)
      /\ \A c : Leaves(t, c) <=> Leaves(Rest, c)
      /\ \A c : Falls(Rest, c) /\ ~(c \in S /\ Owner.kind = "SendTo") => Falls(t, c)
      /\ Clearing(t) <=> Clearing(Rest)
  <2>1. /\ \A c : Held(t, c) => Held(Rest, c)
        /\ \A c : Held(Rest, c) /\ ~(c \in S /\ Rest[o].kind = "Destroy") => Held(t, c)
        /\ \A c : Leaves(t, c) <=> Leaves(Rest, c)
        /\ \A c : Falls(Rest, c) /\ ~(c \in S /\ Rest[o].kind = "SendTo") => Falls(t, c)
        /\ Clearing(t) <=> Clearing(Rest)
    BY <1>4, ShrunkSome
  <2> QED BY <1>4, <2>1
<1>10. UNCHANGED <<destroy_canceled, battle_destroy_rep, left, loose, setting>>
  BY DEF canceled
<1>11. Status'
  <2>1. \A c \in Cards :
           cards'[c].confirmed => cards[c].confirmed /\ (Held(units, c) => Held(units', c))
    BY <1>3, <1>5, <1>8, <1>9
  <2> QED BY <1>1, <1>3, <1>5, <1>9, <1>10, <2>1, StatusKept
<1>12. Sole'
  <2> SUFFICES ASSUME NothingReplaced
               PROVE  /\ destroy_canceled = {} /\ battle_destroy_rep = {}
                      /\ Bare(t) /\ \A c \in Cards : Held(t, c) => cards'[c].confirmed
    BY <1>5, <1>10 DEF Sole, Bare, NothingReplaced
  <2>1. /\ destroy_canceled = {} /\ battle_destroy_rep = {} /\ Bare(units) /\ Asked(units)
        /\ \A c \in Cards : Held(units, c) => cards[c].confirmed
    BY <1>1 DEF Sole, Bare
  <2>2. /\ 1 \in 1 .. Len(units) /\ units[1] = Front /\ units[1].kind = "Ask"
        /\ OwnerIndex \in 1 .. Len(units) /\ units[1].target = x
        /\ Len(Rest) = Len(units) - 1 /\ Len(units) \in Nat
        /\ \A i \in 1 .. Len(Rest) : Rest[i] = units[i + 1]
    BY <1>2, <1>3, <1>4, FrontOnRest DEF Front, x
  <2>3. /\ x \in units[OwnerIndex].targets
        /\ \A k \in 2 .. OwnerIndex - 1 : units[k].target # x
    <3>1. /\ units[1].target \in units[OwnerIndex].targets
          /\ \A k \in 1 + 1 .. OwnerIndex - 1 :
               units[k].kind = "Ask" /\ units[k].target # units[1].target
      BY <1>4, <2>1, <2>2 DEF Asked
    <3>2. 1 + 1 = 2 OBVIOUS
    <3> QED BY <2>2, <3>1, <3>2
  <2>4. ASSUME NEW i \in 1 .. Len(Rest), OwnerAt(Rest, i, o)
        PROVE  Rest[i].target \notin S
    <3>1. i + 1 \in 2 .. OwnerIndex - 1 BY <1>4, <1>6, <2>2, <2>4 DEF OwnerAt
    <3> QED BY <1>5, <2>2, <2>3, <3>1
  <2>5. Bare(t) /\ \A c \in S : c \in Claim(Owner) => ~Held(t, c)
    <3>1. Bare(t) /\ \A c \in S : c \in Claim(Rest[o]) => ~Held(t, c)
      BY <1>3, <1>4, <2>1, <2>4, ShrunkBare
    <3> QED BY <1>4, <3>1
  <2>6. Owner.kind = "Destroy" => x \in Claim(Owner)
    <3>1. SUFFICES ASSUME Owner.kind = "Destroy" PROVE x \in Claim(Owner) OBVIOUS
    <3>2. Owner \in Units /\ x \in Owner.targets BY <1>2, <2>2, <2>3 DEF Owner
    <3>3. Owner.reason.kind = "BATTLE" => Owner.step \notin {0, 1, 2}
      BY <3>1, <3>2, KindOf DEF DestroyUnits
    <3>4. Owner.step \in {1, 2, 11, 12} BY <1>4, <3>1 DEF Owns
    <3> QED BY <3>1, <3>2, <3>3, <3>4 DEF Claim
  <2>7. ASSUME NEW c \in Cards, Held(t, c) PROVE cards'[c].confirmed
    <3>1. cards[c].confirmed BY <1>3, <1>9, <2>1, <2>7
    <3>2. ~(c \in S /\ Owner.kind = "Destroy") BY <1>5, <2>5, <2>6, <2>7
    <3> QED BY <1>8, <3>1, <3>2
  <2> QED BY <2>1, <2>5, <2>7
<1>13. Equipped' /\ Overlaid'
  <2>1. \A c \in Cards :
           /\ Placement(cards'[c], cards[c])
           /\ cards'[c].equiping_target \in {None, cards[c].equiping_target}
    BY <1>8
  <2>2. \A c : Leaves(units, c) => Leaves(units', c) BY <1>3, <1>5, <1>9
  <2>3. \A c : Falls(units, c) /\ cards[c].overlay_target # None => Falls(units', c)
    BY <1>3, <1>5, <1>7, <1>9
  <2> QED BY <1>1, <1>10, <2>1, <2>2, <2>3, AttachedKept
<1>14. Typed' /\ Stacked'
  <2>1. t \in Seq(Units) /\ Stands(t) BY <1>3, <1>4, ShrunkStands DEF Shrunk
  <2> QED BY <1>1, <1>5, <1>8, <2>1 DEF Typed, Stacked, Stands, canceled, result
<1> QED BY <1>11, <1>12, <1>13, <1>14 DEF MovesInvariant

(* Effects that replace come before what is left to be asked. *)
LEMMA MayReplaceKept ==
  ASSUME MovesInvariant, units # << >>, Front.kind = "Ask",
         NEW a, a \in {<< >>, CardReplace(Front.step, Front.target)},
         units' = a \o Tail(units), returns' \in BOOLEAN,
         UNCHANGED <<cards, canceled, operated_set, setting, left, loose, acts>>
  PROVE  MovesInvariant'
<1>1. Typed /\ Stacked /\ Status /\ Sole /\ Equipped /\ Overlaid BY DEF MovesInvariant
<1>2. /\ Front \in AskUnits /\ Asks(Front)
      /\ Claim(Front) = {} /\ ~Clears(Front) /\ Leaving(Front) = {} /\ Falling(Front) = {}
  BY <1>1, RestFacts, KindOf DEF Asks, Claim, Clears, Leaving, Falling
<1>3. /\ \A c : Held(units, c) <=> Held(Rest, c)
      /\ \A c : Leaves(units, c) <=> Leaves(Rest, c)
      /\ \A c : Falls(units, c) <=> Falls(Rest, c)
      /\ Clearing(units) <=> Clearing(Rest)
      /\ Bare(units) => Bare(Rest)
      /\ Rest = Tail(units) /\ Rest \in Seq(Units) /\ Stands(Rest) /\ Dangles(Rest, Front)
  BY <1>1, <1>2, RestFacts
<1>4. /\ a \in Seq(Units)
      /\ NothingReplaced => a = << >>
      /\ \A i \in 1 .. Len(a) : Asks(a[i]) /\ Dangles(Rest, a[i])
  <2> DEFINE u == OperationReplace(Front.step, Front.target)
  <2>1. /\ Front.step \in {0, 10} /\ Front.target \in Cards
        /\ u.kind = "Replace" /\ u.step = Front.step
    BY <1>2 DEF AskUnits, OperationReplace
  <2>2. u \in Units BY <2>1, UnitsTyped
  <2>3. setting.replaces \in 0 .. 2 BY <1>1 DEF Typed, AllSettings
  <2>4. a \in {<< >>, [i \in 1 .. setting.replaces |-> u]} BY DEF CardReplace
  <2> HIDE DEF u
  <2>5. Asks(u) /\ Dangles(Rest, u)
    <3>1. Asks(u) BY <2>1 DEF Asks
    <3>2. \A y : Fits(Front, y) => Fits(u, y) BY <2>1 DEF Fits
    <3> QED BY <1>3, <3>1, <3>2 DEF Dangles
  <2>6. a \in Seq(Units) /\ \A i \in 1 .. Len(a) : a[i] = u
    <3>1. CASE a = << >> BY <3>1
    <3>2. CASE a = [i \in 1 .. setting.replaces |-> u]
      <4>1. \A n \in Nat : /\ [i \in 1 .. n |-> u] \in Seq(Units)
                           /\ Len([i \in 1 .. n |-> u]) = n
                           /\ \A j \in 1 .. n : [i \in 1 .. n |-> u][j] = u
        BY <2>2
      <4>2. setting.replaces \in Nat BY <2>3
      <4> QED BY <3>2, <4>1, <4>2
    <3> QED BY <2>4, <3>1, <3>2
  <2>7. NothingReplaced => a = << >> BY <2>4, <2>6 DEF NothingReplaced
  <2> QED BY <2>5, <2>6, <2>7
<1>5. /\ units' \in Seq(Units) /\ Stands(units')
      /\ \A c : Held(units', c) <=> Held(Rest, c)
      /\ \A c : Leaves(units', c) <=> Leaves(Rest, c)
      /\ \A c : Falls(units', c) <=> Falls(Rest, c)
      /\ Clearing(units') <=> Clearing(Rest)
  BY <1>3, <1>4, AsksOnTop
<1>6. UNCHANGED <<destroy_canceled, battle_destroy_rep, left, loose, setting>>
  BY DEF canceled
<1>7. Status'
  <2>1. /\ \A c \in Cards :
             cards'[c].confirmed => cards[c].confirmed /\ (Held(units, c) => Held(units', c))
        /\ Clearing(units) => Clearing(units')
    BY <1>3, <1>5
  <2> QED BY <1>1, <1>6, <2>1, StatusKept
<1>8. Sole'
  <2> SUFFICES ASSUME NothingReplaced
               PROVE  /\ destroy_canceled = {} /\ battle_destroy_rep = {}
                      /\ Bare(units') /\ \A c \in Cards : Held(units', c) => cards[c].confirmed
    BY <1>6 DEF Sole, Bare, NothingReplaced
  <2>1. units' = Rest BY <1>3, <1>4
  <2> QED BY <1>1, <1>3, <2>1 DEF Sole, Bare
<1>9. Equipped' /\ Overlaid'
  <2>1. /\ \A c : Leaves(units, c) => Leaves(units', c)
        /\ \A c : Falls(units, c) => Falls(units', c)
    BY <1>3, <1>5
  <2>2. \A c \in Cards : Same(cards'[c], cards[c]) BY SameCards
  <2> QED BY <1>1, <1>6, <2>1, <2>2, AttachedKept DEF Same
<1>10. Typed' /\ Stacked' BY <1>1, <1>5 DEF Typed, Stacked, Stands, canceled
<1> QED BY <1>7, <1>8, <1>9, <1>10 DEF MovesInvariant

LEMMA AskedToReplaceKept ==
  ASSUME MovesInvariant, AskedToReplace
  PROVE  MovesInvariant'
<1>1. /\ units # << >> /\ Front.kind = "Ask" /\ returns \in BOOLEAN
      /\ UNCHANGED <<canceled, operated_set, setting, left, loose, acts>>
  BY DEF AskedToReplace, history, MovesInvariant, Typed
<1>2. CASE /\ There(Front.target)
           /\ cards' = IF Owner.kind = "Destroy"
                       THEN Unconfirmed(Restored(cards, {Front.target}), {Front.target})
                       ELSE Restored(cards, {Front.target})
           /\ units' = Tail(TakenOut({Front.target}))
           /\ UNCHANGED returns
  BY <1>1, <1>2, ThereKept DEF result
<1>3. CASE /\ \/ units' = << >> \o Tail(units)
              \/ units' = CardReplace(Front.step, Front.target) \o Tail(units)
           /\ returns' \in BOOLEAN /\ UNCHANGED cards
  BY <1>1, <1>3, MayReplaceKept
<1> QED BY <1>1, <1>2, <1>3 DEF AskedToReplace, Finish
-----------------------------------------------------------------------------
(* The invariant. *)

LEMMA InitHolds ==
  ASSUME Init
  PROVE  MovesInvariant
<1>1. /\ units = << >> /\ setting \in AllSettings /\ acts = 0
      /\ destroy_canceled = {} /\ battle_destroy_rep = {} /\ desrep_chain = 0
      /\ returns = FALSE /\ operated_set = {} /\ left = {} /\ loose = {}
  BY ConstantsAssumption DEF Init
<1>2. ASSUME NEW loc \in Locations
      PROVE  /\ Card(loc) \in CardRecords /\ Card(loc).loc = loc
             /\ ~Card(loc).confirmed /\ ~Card(loc).facedown
             /\ Card(loc).equiping_target = None /\ Card(loc).overlay_target = None
  <2>1. Reason("NONE", 0) \in Reasons BY ReasonTyped DEF Kinds
  <2> QED BY <2>1 DEF Card, CardRecords, Piles
<1>3. Host \in Cards /\ Host \notin Equips \cup Fields \cup Overlays
  BY ConstantsAssumption
<1>4. ASSUME NEW c \in Cards
      PROVE  /\ CardTyped(cards[c], c) /\ ~cards[c].confirmed /\ ~cards[c].facedown
             /\ cards[c].equiping_target # None =>
                  cards[c].loc = "SZONE" /\ cards[c].equiping_target = Host
             /\ cards[c].overlay_target \in {None, Host}
             /\ c = Host => cards[c].loc = "MZONE"
  <2> DEFINE x == Card("SZONE")  y == Card("OVERLAY")
             z == IF c \in Fields THEN Card("HAND") ELSE Card("MZONE")
  <2>1. /\ x \in CardRecords /\ x.loc = "SZONE" /\ ~x.confirmed /\ ~x.facedown
        /\ x.overlay_target = None
        /\ y \in CardRecords /\ y.loc = "OVERLAY" /\ ~y.confirmed /\ ~y.facedown
        /\ y.equiping_target = None
        /\ z \in CardRecords /\ z.loc \in {"HAND", "MZONE"} /\ ~z.confirmed /\ ~z.facedown
        /\ z.equiping_target = None /\ z.overlay_target = None
        /\ c = Host => z.loc = "MZONE"
    BY <1>2, <1>3 DEF Locations, OnField, Piles
  <2>2. cards[c] = IF c \in Equips THEN [x EXCEPT !.equiping_target = Host]
                   ELSE IF c \in Overlays THEN [y EXCEPT !.overlay_target = Host]
                   ELSE z
    BY ConstantsAssumption DEF Init
  <2> HIDE DEF x, y, z
  <2>3. CASE c \in Equips
    BY <1>3, <2>1, <2>2, <2>3, ConstantsAssumption DEF CardTyped, CardRecords
  <2>4. CASE c \in Overlays /\ c \notin Equips
    BY <1>3, <2>1, <2>2, <2>4, ConstantsAssumption DEF CardTyped, CardRecords
  <2>5. CASE c \notin Overlays /\ c \notin Equips
    BY <1>3, <2>1, <2>2, <2>5 DEF CardTyped
  <2> QED BY <2>3, <2>4, <2>5
<1>5. CardsTyped(cards)
  <2>1. \A c \in Cards : cards[c] \in CardRecords /\ CardTyped(cards[c], c)
    BY <1>4 DEF CardTyped
  <2>2. cards = [c \in Cards |-> cards[c]] BY DEF Init
  <2> QED BY <2>1, <2>2 DEF CardsTyped
<1>6. Typed /\ Stacked BY <1>1, <1>5, SomeOfNone DEF Typed, Stacked
<1>7. Status /\ Sole BY <1>1, <1>4, SomeOfNone DEF Status, Sole
<1>8. Equipped /\ Overlaid BY <1>3, <1>4 DEF Equipped, Overlaid, Carries
<1> QED BY <1>6, <1>7, <1>8 DEF MovesInvariant

LEMMA StutterHolds ==
  ASSUME MovesInvariant, UNCHANGED vars
  PROVE  MovesInvariant'
<1>1. Typed' BY DEF MovesInvariant, vars, canceled, result, history, Typed
<1>2. Stacked' /\ Status'
  BY DEF MovesInvariant, vars, canceled, result, history, Stacked, Status
<1>3. NothingReplaced' = NothingReplaced /\ \A c : Carries(c)' = Carries(c)
  BY DEF vars, NothingReplaced, Carries
<1>4. Sole' BY <1>3 DEF MovesInvariant, vars, canceled, result, history, Sole
<1>5. Equipped' /\ Overlaid'
  BY <1>3 DEF MovesInvariant, vars, canceled, result, history, Equipped, Overlaid
<1> QED BY <1>1, <1>2, <1>4, <1>5 DEF MovesInvariant

LEMMA StepHolds ==
  ASSUME MovesInvariant, [Next]_vars
  PROVE  MovesInvariant'
<1>1. CASE Acting
  BY <1>1, StartsKept, DestroyCardsKept, LoseBattleKept, PlaceCardKept, LastSteps
     DEF Acting
<1>2. CASE Destroying
  BY <1>2, DestroyCheckedKept, AskedKept, DestroyCanceledKept, DestroyNowKept,
     DestroySendsKept, LastSteps, BattleDestroyKept, BattleDestroyOverKept,
     BattleReplacedKept, BattleDestroyedKept
     DEF Destroying
<1>3. CASE Replacing
  BY <1>3, AskedToReplaceKept, OperationReplacedKept, ReplacedKept DEF Replacing
<1>4. CASE Sending
  BY <1>4, CheckedKept, AskedKept, ReleaseNowKept, ReleaseSendsKept, LastSteps,
     SendNowKept, RedirectKept, SendCardKept, CardsLeftKept, CardsArrivedKept
     DEF Sending
<1>5. CASE Placing
  BY <1>5, FieldReplacedKept, MoveCardKept, LastSteps, PositionsChangedKept,
     ControlKept, CrowdedDestroyedKept
     DEF Placing
<1>6. CASE Attaching
  BY <1>6, EquipPlacedKept, EquipAttachedKept, LastSteps, MaterialsSentKept,
     MaterialsAttachedKept
     DEF Attaching
<1>7. CASE Done \/ UNCHANGED vars BY <1>7, StutterHolds DEF Done
<1> QED BY <1>1, <1>2, <1>3, <1>4, <1>5, <1>6, <1>7 DEF Next

(* The inductive invariant: what the units on the stack owe to the cards,
   and what the cards may expect of them.  It holds in every state. *)
THEOREM MovesInductive == Spec => []MovesInvariant
<1>1. Init => MovesInvariant BY InitHolds
<1>2. MovesInvariant /\ [Next]_vars => MovesInvariant' BY StepHolds
<1> QED BY <1>1, <1>2, PTL DEF Spec

LEMMA TypesFollow ==
  ASSUME MovesInvariant
  PROVE  TypeOK
<1>1. Typed /\ Stacked /\ CardsTyped(cards) BY DEF MovesInvariant, Typed
<1>2. ASSUME NEW i \in 1 .. Len(units)
      PROVE  /\ units[i].kind \in {"Destroy", "Release", "SendTo"} =>
                  units[i].targets \subseteq Cards
             /\ units[i].kind \in {"Ask", "Replace"} /\ units[i].step # 15 =>
                  \E j \in i + 1 .. Len(units) :
                    units[j].kind \in {"Destroy", "Release", "SendTo"}
  <2>1. units[i] \in Units BY <1>1 DEF Typed
  <2>2. units[i].kind \in {"Destroy", "Release", "SendTo"} => units[i].targets \subseteq Cards
    BY <2>1, KindOf DEF DestroyUnits, DestroyRecords, ReleaseUnits, SendUnits, SendRecords
  <2>3. ASSUME units[i].kind \in {"Ask", "Replace"}, units[i].step # 15
        PROVE  \E j \in i + 1 .. Len(units) :
                 units[j].kind \in {"Destroy", "Release", "SendTo"}
    <3>1. PICK j \in 1 .. Len(units) : OwnerAt(units, i, j)
      BY <1>1, <2>3 DEF Stacked, Owned, Asks
    <3> QED BY <3>1 DEF OwnerAt, Owns
  <2> QED BY <2>2, <2>3
<1>3. ASSUME NEW c \in Cards
      PROVE  /\ cards[c].loc \in Locations /\ cards[c].controler \in {0, 1}
             /\ cards[c].dest \in Piles
             /\ cards[c].reason.kind \in Kinds /\ cards[c].reason.flags \subseteq Flags
             /\ (cards[c].loc = "OVERLAY") = (cards[c].overlay_target # None)
  BY <1>1 DEF CardsTyped, CardTyped, CardRecords, Reasons
<1>4. /\ destroy_canceled \cup battle_destroy_rep \cup operated_set \cup left
           \cup loose \subseteq Cards
      /\ desrep_chain \in Nat /\ returns \in BOOLEAN
  BY <1>1 DEF Typed
<1> QED BY <1>2, <1>3, <1>4 DEF TypeOK

(* Type correctness: every unit that asks for a replacement, or has found
   one, finds the Destroy, Release or SendTo that it belongs to below it,
   and a card has an overlay_target exactly when it lies under a monster. *)
THEOREM MovesTypeCorrect == Spec => []TypeOK
<1>1. MovesInvariant => TypeOK BY TypesFollow
<1> QED BY <1>1, MovesInductive, PTL

(* STATUS_DESTROY_CONFIRMED does not outlive the units, but for the cards
   that something else moved before Destroy got to them; and as long as
   nothing is replaced no card is in two Destroys at once. *)
THEOREM ConfirmedDestroyedCorrect == Spec => []ConfirmedDestroyed
<1>1. MovesInvariant => StatusTakenOff
  BY SomeOfNone DEF MovesInvariant, Status, StatusTakenOff
<1>2. MovesInvariant => OneDestroyer
  <2>1. \A i \in 1 .. Len(units) : BeingDestroyed(i) \subseteq Claim(units[i])
    BY DEF BeingDestroyed, Claim
  <2> QED BY <2>1 DEF MovesInvariant, Sole, Apart, OneDestroyer
<1>3. MovesInvariant => ConfirmedDestroyed BY <1>1, <1>2 DEF ConfirmedDestroyed
<1> QED BY <1>3, MovesInductive, PTL

(* Whatever moves or turns monsters and equips, however the moves are nested
   and whatever is replaced: in the end equips are in the spell zone, on
   face-up monsters.  Loose are only those that Equip attached to what was
   no such monster any more, or that had not come to the zone themselves,
   and those of a monster that MoveToField turned face-down. *)
THEOREM EquipsOnMonstersCorrect == Spec => []EquipsOnMonsters
<1>1. MovesInvariant => EquipsOnMonsters
  BY SomeOfNone DEF MovesInvariant, Equipped, EquipsOnMonsters
<1> QED BY <1>1, MovesInductive, PTL

(* And as long as nothing is replaced materials are under monsters, however
   much effects do, so that everything attached is where it belongs.  What
   is not stated here is where materials are when something was replaced. *)
THEOREM AttachedCorrect == Spec => [](NothingReplaced => Attached)
<1>1. MovesInvariant => EquipsOnMonsters
  BY SomeOfNone DEF MovesInvariant, Equipped, EquipsOnMonsters
<1>2. MovesInvariant /\ NothingReplaced => MaterialsUnderMonsters
  BY SomeOfNone DEF MovesInvariant, Overlaid, MaterialsUnderMonsters
<1>3. MovesInvariant => (NothingReplaced => Attached) BY <1>1, <1>2 DEF Attached
<1> QED BY <1>3, MovesInductive, PTL
=============================================================================
