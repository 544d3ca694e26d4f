----------------------------- MODULE ChainProofs -----------------------------
(* Proofs about Chain, for any settings, any number of triggers per event
   and either turn player.  The units over and under the one that works on
   the chain say which lists can hold anything; from that follows who
   passed before a chain resolves, that no trigger is activated twice, and
   the order in which they were chosen. *)
EXTENDS Chain, SequenceTheorems, FiniteSetTheorems, TLAPS

-----------------------------------------------------------------------------
(* Types without the bounds, which follow from the identities. *)
AnyLink ==
  [id : Nat, kind : Kinds, player : Players, delay : BOOLEAN, event : Nat,
   causes : Nat, at : Nat, chain_count : Nat, negated : BOOLEAN]

OfKind(K) == {c \in AnyLink : c.kind \in K}
Forced == OfKind({"forced"})
Optional == OfKind({"optional", "hidden"})
Hidden == OfKind({"hidden"})
Quick == OfKind({"quick"})

DataTyped ==
  /\ new_fchain \subseteq Forced /\ new_fchain_s \subseteq Forced
  /\ new_ochain \subseteq Optional /\ new_ochain_s \subseteq Optional
  /\ new_ochain_h \subseteq Hidden /\ quick_f_chain \subseteq Quick
  /\ ignition_priority_chains \in BOOLEAN
  /\ new_chains \in Seq(AnyLink) /\ current_chain \in Seq(AnyLink)
  /\ real_chain_count \in Nat
  /\ current_player \in Players
  /\ priorities \in [Players -> BOOLEAN]
  /\ chaining \subseteq Nat
  /\ chain_solving \in BOOLEAN
  /\ hand_adjusted \in BOOLEAN
  /\ setting \in Settings /\ duel_options \in setting.options
  /\ next_id \in 1 .. MaxLinks + 1
  /\ passed \subseteq Players /\ started \in Nat

Typed == units \in Seq(UnitType) /\ DataTyped

-----------------------------------------------------------------------------
(* The stack.  A worker goes through its steps; over it there may be units
   that run on its behalf, and under it units that rest between two of
   their steps, where there is no chain and nothing is offered. *)
IsAt(u, k, s) == u.kind = k /\ u.step = s

Resting(u) ==
  IsAt(u, "Idle", 0) \/ IsAt(u, "PointEvent", 0) \/ IsAt(u, "SolveChain", 11)

(* The units over which QuickEffect runs. *)
Keeps(u) ==
  \/ u.kind = "Idle" /\ u.step \in {2, 10}
  \/ IsAt(u, "PointEvent", 10) \/ IsAt(u, "ActivateEffect", 1)

(* Those over which AddChain puts a trigger on the chain. *)
Asks(u) == u.kind = "PointEvent" /\ u.step \in {2, 4}

Floor(u) ==
  \/ u.kind = "Idle" /\ u.step \in {0, 2, 10}
  \/ u.kind = "PointEvent" /\ u.step \in {0, 2, 3, 4, 6, 9, 10}
  \/ u.kind = "SolveChain" /\ u.step \in {0, 1, 2, 5, 10, 11}
  \/ u.kind = "ActivateEffect" /\ u.step \in {0, 1}

(* The stacks t under a unit that runs on behalf of w. *)
Rest(t) == \A i \in DOMAIN t : Resting(t[i])
On(t, w) == t # <<>> /\ w = Head(t) /\ Rest(Tail(t))
Held(t, w) == On(t, w) /\ Keeps(w)
Asking(t, w) == On(t, w) /\ Asks(w)
Paused(t, w) ==
  \/ t = <<>> /\ w = Idle
  \/ On(t, w) /\ (Resting(w) \/ IsAt(w, "SolveChain", 0))
Layer(t, w) ==
  \E n \in DOMAIN t :
    /\ \A i \in 1 .. n - 1 : IsAt(t[i], "Adjust", 0)
    /\ IsAt(t[n], "QuickEffect", 0)
    /\ n < Len(t) /\ w = t[n + 1] /\ Keeps(w)
    /\ \A i \in n + 2 .. Len(t) : Resting(t[i])

Shape(us, w) ==
  \/ us = <<>> /\ w = Idle
  \/ /\ us # <<>>
     /\ LET u == Head(us)
            t == Tail(us)
        IN \/ /\ u.kind = "AddChain" /\ u.step \in {0, 2, 8}
              /\ Layer(t, w) \/ Asking(t, w)
           \/ /\ IsAt(u, "Adjust", 0)
              /\ Layer(t, w) \/ Asking(t, w) \/ Paused(t, w)
           \/ /\ u.kind = "QuickEffect" /\ u.step \in {0, 1, 2}
              /\ Held(t, w)
           \/ Floor(u) /\ w = u /\ Rest(t)

HasAdjust(us) == \E i \in DOMAIN us : us[i].kind = "Adjust"

-----------------------------------------------------------------------------
(* What the step of the worker says of the lists and of the chain. *)
ListsEmpty(w) ==
  /\ ~(w.kind = "PointEvent" /\ w.step \in {2, 3}) => new_fchain_s = {}
  /\ ~(w.kind = "PointEvent" /\ w.step \in {2, 3, 4, 6}) => new_ochain_s = {}
  /\ ~(w.kind = "PointEvent" /\ w.step \in {4, 6, 9, 10}) => new_ochain_h = {}

ChainEmpty(w) ==
  Resting(w) \/ IsAt(w, "ActivateEffect", 0) => Chosen = <<>>

ChainThere(w) ==
  /\ w.kind = "SolveChain" /\ w.step \in {1, 2, 5, 10} => current_chain # <<>>
  /\ HasAdjust(units) /\ ~Resting(w) => current_chain # <<>>
  /\ At("AddChain", 8) => current_chain # <<>>

(* The effects that wait to be put on the chain. *)
Trigger(c) == c.kind \in {"forced", "optional", "hidden"}
NewChains(w) ==
  /\ At("AddChain", 0) \/ At("AddChain", 2) => new_chains # <<>>
  /\ Asks(w) => IF At("AddChain", 0) \/ At("AddChain", 2)
                THEN Len(new_chains) = 1 /\ Trigger(new_chains[1])
                ELSE new_chains = <<>>
  /\ (units # <<>> /\ Floor(Front)) \/ w.kind = "SolveChain" => new_chains = <<>>
  /\ At("QuickEffect", 1) \/ At("QuickEffect", 2) => new_chains = <<>>

(* Who passed, and what QuickEffect leaves behind. *)
Passes ==
  /\ \A p \in Players : priorities[p] => p \in passed
  /\ At("QuickEffect", 2) => quick_f_chain = {}
  /\ units # <<>> /\ Keeps(Front) /\ current_chain # <<>> =>
       passed = Players /\ quick_f_chain = {}

IgnitionOpen(w) ==
  ignition_priority_chains => IsAt(w, "PointEvent", 10) /\ Front # w

Facts(w) ==
  ListsEmpty(w) /\ ChainEmpty(w) /\ ChainThere(w) /\ NewChains(w) /\ Passes /\ IgnitionOpen(w)

Control == \E w \in UnitType : Shape(units, w) /\ Facts(w)

-----------------------------------------------------------------------------
(* The identities of triggers and links, and what is said of each of them. *)
Ids(S) == {c.id : c \in S}
Single(S) == \A c, d \in S : c.id = d.id => c = d
LinkIds(s) == {s[i].id : i \in DOMAIN s}
Distinct(s) == \A i, j \in DOMAIN s : s[i].id = s[j].id => i = j

Lists == Waiting \cup new_ochain_h
Live == Ids(Lists) \cup LinkIds(Chosen)
Known == Live \cup chaining \subseteq 1 .. next_id - 1

(* The identities of the six lists, of the chosen links, and of the cards
   that are chaining: a trigger waits once, and not when it is chosen.  A
   copy in new_ochain_h may be of an optional trigger that PointEvent has
   not done with, or of one that was chosen and is chaining. *)
ApartIn(f, g, o, p, q, h, k, u) ==
  /\ f \cap g = {} /\ f \cap o = {} /\ f \cap p = {} /\ f \cap q = {}
  /\ g \cap o = {} /\ g \cap p = {} /\ g \cap q = {}
  /\ o \cap p = {} /\ o \cap q = {} /\ p \cap q = {}
  /\ h \cap f = {} /\ h \cap g = {} /\ h \cap o = {} /\ h \cap q = {}
  /\ k \cap f = {} /\ k \cap g = {} /\ k \cap o = {} /\ k \cap p = {} /\ k \cap q = {}
  /\ k \cap h \subseteq u

Apart ==
  ApartIn(Ids(new_fchain), Ids(new_fchain_s), Ids(new_ochain), Ids(new_ochain_s),
          Ids(quick_f_chain), Ids(new_ochain_h), LinkIds(Chosen), chaining)

MadeIn(c, n, now) == c.event \in 1 .. n /\ c.causes \in 0 .. n /\ c.at \in 0 .. now
WellMade(c) == MadeIn(c, MaxLinks, started)
Made ==
  /\ \A c \in Lists : WellMade(c) /\ c.chain_count = 0
  /\ \A i \in DOMAIN Chosen : WellMade(Chosen[i])
Counted ==
  /\ \A i \in DOMAIN new_chains : new_chains[i].chain_count = 0
  /\ \A i \in DOMAIN current_chain : current_chain[i].chain_count = i

Identities ==
  Known /\ Apart /\ Distinct(Chosen) /\ Made /\ Counted /\ MissedTiming

(* Every link that began to resolve has left the chain or is its last, and
   there are no more of them than identities used up. *)
Resolving == units # <<>> /\ Front.kind = "SolveChain" /\ Front.step \in {2, 5, 10}
Spent ==
  \E D \in SUBSET (1 .. next_id - 1) :
    /\ D \cap Live = {}
    /\ started <= Cardinality(D) + (IF Resolving THEN 1 ELSE 0)

RealFront ==
  real_chain_count = Len(current_chain) - (IF At("AddChain", 8) THEN 1 ELSE 0)

-----------------------------------------------------------------------------
(* The order in which triggers are chosen. *)
Ordered(s) ==
  /\ \A i, j \in DOMAIN s : i < j /\ Trigger(s[i]) /\ Trigger(s[j]) =>
       /\ s[j].kind = "forced" => s[i].kind = "forced"
       /\ \/ (s[i].kind = "forced") # (s[j].kind = "forced")
          \/ s[j].player # turn_player \/ s[i].player = turn_player
  /\ \A i, j \in DOMAIN s : i < j /\ s[j].kind = "ignition" => s[i].kind = "quick"

(* What has been chosen while PointEvent goes through the mandatory
   triggers, through the optional ones, and while an ignition effect may be
   activated. *)
Has(us, k, s) == \E i \in DOMAIN us : IsAt(us[i], k, s)
OnlyForced(s, p) ==
  \A i \in DOMAIN s : Trigger(s[i]) =>
    s[i].kind = "forced" /\ (p = turn_player => s[i].player = turn_player)
TurnPlayerFirst(s, p) ==
  \A i \in DOMAIN s : s[i].kind \in {"optional", "hidden"} /\ p = turn_player =>
    s[i].player = turn_player
OnlyQuick(s) == \A i \in DOMAIN s : s[i].kind = "quick"

Asked ==
  /\ Has(units, "PointEvent", 2) \/ Has(units, "PointEvent", 3) =>
       OnlyForced(Chosen, current_player)
  /\ Has(units, "PointEvent", 4) \/ Has(units, "PointEvent", 6) =>
       TurnPlayerFirst(Chosen, current_player)
  /\ ignition_priority_chains => OnlyQuick(Chosen)

-----------------------------------------------------------------------------
(* Stacks: what a handler emplaces comes before what was there. *)
Push(u, t) == <<u>> \o t

LEMMA PushProperties ==
  ASSUME NEW S, NEW t \in Seq(S), NEW u \in S
  PROVE  /\ Push(u, t) \in Seq(S) /\ Push(u, t) # <<>>
         /\ Head(Push(u, t)) = u /\ Tail(Push(u, t)) = t
         /\ Len(t) \in Nat /\ Len(Push(u, t)) = Len(t) + 1
         /\ Push(u, t)[1] = u
         /\ \A i \in 1 .. Len(t) : Push(u, t)[i + 1] = t[i]
<1>1. /\ Push(u, t) \in Seq(S) /\ Len(t) \in Nat /\ Len(Push(u, t)) = Len(t) + 1
      /\ \A i \in 1 .. Len(t) + 1 : Push(u, t)[i] = IF i = 1 THEN u ELSE t[i - 1]
  BY DEF Push
<1>2. Push(u, t) # <<>> /\ Head(Push(u, t)) = u BY <1>1
<1>3. /\ Tail(Push(u, t)) \in Seq(S) /\ Len(Tail(Push(u, t))) = Len(t)
      /\ \A i \in 1 .. Len(t) : Tail(Push(u, t))[i] = t[i]
  BY <1>1, <1>2
<1>4. Tail(Push(u, t)) = t BY <1>1, <1>3, SeqEqual
<1> QED BY <1>1, <1>2, <1>4

LEMMA PushUnit ==
  ASSUME NEW t \in Seq(UnitType), NEW u \in UnitType
  PROVE  /\ Push(u, t) \in Seq(UnitType) /\ Push(u, t) # <<>>
         /\ Head(Push(u, t)) = u /\ Tail(Push(u, t)) = t
BY PushProperties

LEMMA HeadTailPush ==
  ASSUME NEW S, NEW s \in Seq(S), s # <<>>
  PROVE  Head(s) \in S /\ Tail(s) \in Seq(S) /\ s = Push(Head(s), Tail(s))
<1>1. /\ Head(s) \in S /\ Tail(s) \in Seq(S) /\ Len(s) \in Nat \ {0}
      /\ Len(Tail(s)) = Len(s) - 1 /\ Head(s) = s[1]
      /\ \A i \in 1 .. Len(s) - 1 : Tail(s)[i] = s[i + 1]
  BY EmptySeq
<1>2. /\ Push(Head(s), Tail(s)) \in Seq(S)
      /\ Len(Push(Head(s), Tail(s))) = Len(Tail(s)) + 1
      /\ \A i \in 1 .. Len(Tail(s)) + 1 :
           Push(Head(s), Tail(s))[i] = IF i = 1 THEN Head(s) ELSE Tail(s)[i - 1]
  BY <1>1 DEF Push
<1>3. \A i \in 1 .. Len(s) : Push(Head(s), Tail(s))[i] = s[i] BY <1>1, <1>2
<1> QED BY <1>1, <1>2, <1>3, SeqEqual

LEMMA Pair ==
  ASSUME NEW S, NEW a \in S, NEW b \in S
  PROVE  <<a>> \o <<b>> = <<a, b>>
<1> DEFINE s == <<a>> \o <<b>>
           t == <<a, b>>
<1>1. /\ <<a>> \in Seq(S) /\ <<b>> \in Seq(S) /\ t \in Seq(S)
      /\ Len(<<a>>) = 1 /\ Len(<<b>>) = 1 /\ Len(t) = 2
      /\ <<a>>[1] = a /\ <<b>>[1] = b /\ t[1] = a /\ t[2] = b
  OBVIOUS
<1>2. s \in Seq(S) /\ Len(s) = 2 /\ s[1] = a /\ s[2] = b BY <1>1, ConcatProperties
<1>3. Len(s) = Len(t) /\ \A i \in 1 .. Len(s) : s[i] = t[i]
  <2> HIDE DEF s, t
  <2> QED BY <1>1, <1>2
<1> HIDE DEF s, t
<1>4. s = t BY <1>1, <1>2, <1>3, SeqEqual
<1> QED BY <1>4 DEF s, t

LEMMA ConcatTwice ==
  ASSUME NEW S, NEW s \in Seq(S), NEW t \in Seq(S), NEW u \in Seq(S)
  PROVE  (s \o t) \o u = s \o (t \o u)
BY ConcatAssociative

LEMMA PushBatch ==
  ASSUME NEW t \in Seq(UnitType), NEW a \in UnitType, NEW b \in UnitType
  PROVE  /\ <<>> \o t = t
         /\ <<a>> \o t = Push(a, t)
         /\ <<a, b>> \o t = Push(a, Push(b, t))
         /\ (<<>> \o <<a>>) \o t = Push(a, t)
         /\ (<<a>> \o <<b>>) \o t = Push(a, Push(b, t))
<1>1. <<>> \o t = t /\ <<a>> \o t = Push(a, t) BY DEF Push
<1>2. <<a>> \in Seq(UnitType) /\ <<b>> \in Seq(UnitType) /\ <<>> \o <<a>> = <<a>>
  OBVIOUS
<1>3. ASSUME NEW s \in Seq(UnitType)
      PROVE  (<<a>> \o <<b>>) \o s = Push(a, Push(b, s))
  <2> DEFINE x == <<a>>
             y == <<b>>
  <2>1. (x \o y) \o s = x \o (y \o s)
    <3>1. x \in Seq(UnitType) /\ y \in Seq(UnitType) BY <1>2
    <3> HIDE DEF x, y
    <3> QED BY <3>1, ConcatTwice
  <2> QED BY <2>1 DEF Push
<1> QED BY <1>1, <1>2, <1>3, Pair, Zenon

LEMMA PushThree ==
  ASSUME NEW t \in Seq(UnitType), NEW a \in UnitType, NEW b \in UnitType,
         NEW c \in UnitType
  PROVE  (<<a, b>> \o <<c>>) \o t = Push(a, Push(b, Push(c, t)))
<1>1. (<<a, b>> \o <<c>>) \o t = Push(a, Push(b, Push(c, t)))
  <2> DEFINE x == <<a, b>>
             y == <<c>>
  <2>1. (x \o y) \o t = x \o (y \o t)
    <3>1. x \in Seq(UnitType) /\ y \in Seq(UnitType) OBVIOUS
    <3> HIDE DEF x, y
    <3> QED BY <3>1, ConcatTwice
  <2>2. Push(c, t) \in Seq(UnitType) BY PushProperties
  <2>3. (<<a>> \o <<b>>) \o Push(c, t) = Push(a, Push(b, Push(c, t)))
    BY <2>2, PushBatch, Zenon
  <2> QED BY <2>1, <2>3, Pair, Zenon DEF Push
<1> QED BY <1>1

(* What GoOn and Finish make of the stack. *)
LEMMA UnitTypes ==
  /\ Idle \in UnitType /\ Adjust \in UnitType /\ AddChain \in UnitType
  /\ ActivateEffect \in UnitType
  /\ \A s \in Skips : PointEvent(s) \in UnitType /\ SolveChain(s) \in UnitType
  /\ \A s \in Skips, k \in {0, 1}, p \in Players : QuickEffect(k, s, p) \in UnitType
  /\ \A p \in Players : Opponent(p) \in Players
  /\ NoSkip \in Skips
BY ConstantsAssumption DEF Idle, Adjust, AddChain, ActivateEffect, PointEvent, SolveChain,
   QuickEffect, Unit, UnitType, NoSkip, Skips, Players, Opponent

LEMMA FrontType ==
  ASSUME units \in Seq(UnitType), units # <<>>
  PROVE  /\ Front \in UnitType /\ Tail(units) \in Seq(UnitType)
         /\ units = Push(Front, Tail(units))
         /\ Front.skips \in Skips /\ Front.player \in Players
         /\ \A s \in 0 .. 11 : [Front EXCEPT !.step = s] \in UnitType
<1>1. Front \in UnitType /\ Tail(units) \in Seq(UnitType) /\ units = Push(Front, Tail(units))
  BY HeadTailPush DEF Front
<1> QED BY <1>1 DEF UnitType

LEMMA Finishes ==
  ASSUME units \in Seq(UnitType), units # <<>>, NEW a \in UnitType, NEW b \in UnitType
  PROVE  /\ Finish(<<>>) => units' = Tail(units)
         /\ Finish(<<a>>) => units' = Push(a, Tail(units))
         /\ Finish(<<a, b>>) => units' = Push(a, Push(b, Tail(units)))
<1> DEFINE t == Tail(units)
<1>1. t \in Seq(UnitType) BY FrontType
<1>2. /\ <<>> \o t = t /\ <<a>> \o t = Push(a, t)
      /\ <<a, b>> \o t = Push(a, Push(b, t))
  BY <1>1, PushBatch, Zenon
<1> QED BY <1>2, Zenon DEF Finish

LEMMA GoesOn ==
  ASSUME units \in Seq(UnitType), units # <<>>, NEW a \in UnitType, NEW b \in UnitType,
         NEW s \in 0 .. 11, NEW f \in UnitType, f = [Front EXCEPT !.step = s]
  PROVE  /\ GoOn(s, <<>>) => units' = Push(f, Tail(units))
         /\ GoOn(s, <<a>>) => units' = Push(a, Push(f, Tail(units)))
         /\ GoOn(s, <<a, b>>) => units' = Push(a, Push(b, Push(f, Tail(units))))
<1> DEFINE t == Tail(units)
<1>1. t \in Seq(UnitType) BY FrontType
<1>2. (<<>> \o <<f>>) \o t = Push(f, t) BY <1>1, PushBatch, Zenon
<1>3. (<<a>> \o <<f>>) \o t = Push(a, Push(f, t)) BY <1>1, PushBatch, Zenon
<1>4. (<<a, b>> \o <<f>>) \o t = Push(a, Push(b, Push(f, t))) BY <1>1, PushThree, Zenon
<1>5. GoOn(s, <<>>) => units' = Push(f, t) BY <1>2 DEF GoOn
<1>6. GoOn(s, <<a>>) => units' = Push(a, Push(f, t)) BY <1>3 DEF GoOn
<1>7. GoOn(s, <<a, b>>) => units' = Push(a, Push(b, Push(f, t))) BY <1>4 DEF GoOn
<1> QED BY <1>5, <1>6, <1>7, Zenon

-----------------------------------------------------------------------------
(* What the shape of a stack becomes when a unit is put on it or taken off. *)

LEMMA RestPush ==
  ASSUME NEW t \in Seq(UnitType), NEW u \in UnitType
  PROVE  Rest(Push(u, t)) <=> Resting(u) /\ Rest(t)
<1>1. /\ Push(u, t) \in Seq(UnitType) /\ Len(t) \in Nat
      /\ Len(Push(u, t)) = Len(t) + 1 /\ Push(u, t)[1] = u
      /\ \A i \in 1 .. Len(t) : Push(u, t)[i + 1] = t[i]
  BY PushProperties
<1>2. DOMAIN Push(u, t) = 1 .. Len(t) + 1 /\ DOMAIN t = 1 .. Len(t)
  BY <1>1, LenProperties
<1>3. ASSUME Rest(Push(u, t))
      PROVE  Resting(u) /\ Rest(t)
  <2>1. Resting(u)
    <3>1. 1 \in DOMAIN Push(u, t) BY <1>1, <1>2
    <3> QED BY <1>1, <1>3, <3>1 DEF Rest
  <2>2. ASSUME NEW i \in DOMAIN t
        PROVE  Resting(t[i])
    <3>1. i + 1 \in DOMAIN Push(u, t) /\ Push(u, t)[i + 1] = t[i] BY <1>1, <1>2
    <3> QED BY <1>3, <3>1 DEF Rest
  <2> QED BY <2>1, <2>2 DEF Rest
<1>4. ASSUME Resting(u), Rest(t), NEW i \in DOMAIN Push(u, t)
      PROVE  Resting(Push(u, t)[i])
  <2>1. CASE i = 1 BY <1>1, <1>4, <2>1
  <2>2. CASE i # 1
    <3>1. i - 1 \in DOMAIN t /\ Push(u, t)[(i - 1) + 1] = t[i - 1] /\ (i - 1) + 1 = i
      BY <1>1, <1>2, <2>2
    <3> QED BY <1>4, <3>1 DEF Rest
  <2> QED BY <2>1, <2>2
<1> QED BY <1>3, <1>4 DEF Rest

LEMMA HasAdjustPush ==
  ASSUME NEW t \in Seq(UnitType), NEW u \in UnitType
  PROVE  HasAdjust(Push(u, t)) <=> u.kind = "Adjust" \/ HasAdjust(t)
<1>1. /\ Push(u, t) \in Seq(UnitType) /\ Len(t) \in Nat
      /\ Len(Push(u, t)) = Len(t) + 1 /\ Push(u, t)[1] = u
      /\ \A i \in 1 .. Len(t) : Push(u, t)[i + 1] = t[i]
  BY PushProperties
<1>2. DOMAIN Push(u, t) = 1 .. Len(t) + 1 /\ DOMAIN t = 1 .. Len(t)
  BY <1>1, LenProperties
<1>3. ASSUME NEW i \in DOMAIN Push(u, t), i # 1
      PROVE  i - 1 \in DOMAIN t /\ Push(u, t)[i] = t[i - 1]
  <2>1. i - 1 \in DOMAIN t /\ Push(u, t)[(i - 1) + 1] = t[i - 1] /\ (i - 1) + 1 = i
    BY <1>1, <1>2, <1>3
  <2> QED BY <2>1
<1>4. \A i \in DOMAIN t : i + 1 \in DOMAIN Push(u, t) BY <1>1, <1>2
<1>5. 1 \in DOMAIN Push(u, t) BY <1>1, <1>2
<1> QED BY <1>1, <1>2, <1>3, <1>4, <1>5 DEF HasAdjust

LEMMA RestHasNoAdjust ==
  ASSUME NEW t \in Seq(UnitType), Rest(t)
  PROVE  ~HasAdjust(t)
BY DEF Rest, HasAdjust, Resting, IsAt

LEMMA OnPush ==
  ASSUME NEW t \in Seq(UnitType), NEW u \in UnitType
  PROVE  On(Push(u, t), u) <=> Rest(t)
BY PushProperties DEF On

LEMMA OnNoAdjust ==
  ASSUME NEW t \in Seq(UnitType), NEW w, On(t, w), w.kind # "Adjust"
  PROVE  ~HasAdjust(t) /\ t # <<>> /\ Head(t) = w
<1>1. t # <<>> /\ w = Head(t) /\ Rest(Tail(t)) BY DEF On
<1>2. t = Push(w, Tail(t)) /\ Tail(t) \in Seq(UnitType) /\ w \in UnitType
  BY <1>1, HeadTailPush
<1>3. ~HasAdjust(Tail(t)) BY <1>1, <1>2, RestHasNoAdjust
<1> QED BY <1>1, <1>2, <1>3, HasAdjustPush

LEMMA LayerAdjust ==
  ASSUME NEW t \in Seq(UnitType), NEW u \in UnitType, IsAt(u, "Adjust", 0),
         NEW w, Layer(t, w)
  PROVE  Layer(Push(u, t), w)
<1> DEFINE p == Push(u, t)
<1>1. /\ p \in Seq(UnitType) /\ Len(t) \in Nat /\ Len(p) = Len(t) + 1 /\ p[1] = u
      /\ \A i \in 1 .. Len(t) : p[i + 1] = t[i]
  BY PushProperties
<1>2. DOMAIN p = 1 .. Len(t) + 1 /\ DOMAIN t = 1 .. Len(t) BY <1>1, LenProperties
<1>3. PICK n \in DOMAIN t :
        /\ \A i \in 1 .. n - 1 : IsAt(t[i], "Adjust", 0)
        /\ IsAt(t[n], "QuickEffect", 0)
        /\ n < Len(t) /\ w = t[n + 1] /\ Keeps(w)
        /\ \A i \in n + 2 .. Len(t) : Resting(t[i])
  BY DEF Layer
<1> HIDE DEF p
<1>4. n + 1 \in DOMAIN p /\ n + 1 < Len(p) /\ p[n + 1] = t[n] /\ p[(n + 1) + 1] = t[n + 1]
  BY <1>1, <1>2, <1>3
<1>5. ASSUME NEW i \in 1 .. (n + 1) - 1
      PROVE  IsAt(p[i], "Adjust", 0)
  <2>1. CASE i = 1 BY <1>1, <2>1
  <2>2. CASE i # 1
    <3>1. i - 1 \in 1 .. n - 1 /\ i - 1 \in 1 .. Len(t) /\ (i - 1) + 1 = i
      BY <1>1, <1>2, <1>3, <2>2
    <3>2. p[i] = t[i - 1] BY <1>1, <3>1
    <3> QED BY <1>3, <3>1, <3>2
  <2> QED BY <2>1, <2>2
<1>6. ASSUME NEW i \in (n + 1) + 2 .. Len(p)
      PROVE  Resting(p[i])
  <2>1. i - 1 \in n + 2 .. Len(t) /\ i - 1 \in 1 .. Len(t) /\ (i - 1) + 1 = i
    BY <1>1, <1>2, <1>3
  <2>2. p[i] = t[i - 1] BY <1>1, <2>1
  <2> QED BY <1>3, <2>1, <2>2
<1>7. Layer(p, w) BY <1>3, <1>4, <1>5, <1>6 DEF Layer
<1> QED BY <1>7 DEF p

LEMMA LayerQuick ==
  ASSUME NEW t \in Seq(UnitType), NEW u \in UnitType, IsAt(u, "QuickEffect", 0),
         NEW w, Held(t, w)
  PROVE  Layer(Push(u, t), w)
<1> DEFINE p == Push(u, t)
<1>1. /\ p \in Seq(UnitType) /\ Len(t) \in Nat /\ Len(p) = Len(t) + 1 /\ p[1] = u
      /\ \A i \in 1 .. Len(t) : p[i + 1] = t[i]
  BY PushProperties
<1>2. t # <<>> /\ w = Head(t) /\ Rest(Tail(t)) /\ Keeps(w) BY DEF Held, On
<1>3. /\ Len(t) >= 1 /\ w = t[1] /\ Len(Tail(t)) = Len(t) - 1
      /\ Tail(t) \in Seq(UnitType)
      /\ \A i \in 1 .. Len(t) - 1 : Tail(t)[i] = t[i + 1]
  BY <1>1, <1>2, EmptySeq, HeadTailProperties
<1>4. DOMAIN p = 1 .. Len(t) + 1 /\ DOMAIN Tail(t) = 1 .. Len(t) - 1
  BY <1>1, <1>3, LenProperties
<1> HIDE DEF p
<1>5. /\ 1 \in DOMAIN p /\ 1 < Len(p) /\ IsAt(p[1], "QuickEffect", 0)
      /\ w = p[1 + 1]
      /\ \A i \in 1 .. 1 - 1 : IsAt(p[i], "Adjust", 0)
  BY <1>1, <1>3, <1>4
<1>6. ASSUME NEW i \in 1 + 2 .. Len(p)
      PROVE  Resting(p[i])
  <2>1. i - 1 \in 1 .. Len(t) /\ i - 2 \in DOMAIN Tail(t) /\ i - 2 \in 1 .. Len(t) - 1
    BY <1>1, <1>4
  <2>2. p[(i - 1) + 1] = t[i - 1] /\ Tail(t)[i - 2] = t[(i - 2) + 1] BY <1>1, <1>3, <2>1
  <2>3. (i - 1) + 1 = i /\ (i - 2) + 1 = i - 1 BY <2>1
  <2>4. Resting(Tail(t)[i - 2]) BY <1>2, <2>1 DEF Rest
  <2> QED BY <2>2, <2>3, <2>4
<1>7. Layer(p, w) BY <1>2, <1>5, <1>6 DEF Layer
<1> QED BY <1>7 DEF p

LEMMA LayerPop ==
  ASSUME NEW t \in Seq(UnitType), NEW w, Layer(t, w)
  PROVE  /\ t # <<>> /\ Keeps(w)
         /\ \/ IsAt(Head(t), "Adjust", 0) /\ Layer(Tail(t), w)
            \/ IsAt(Head(t), "QuickEffect", 0) /\ Held(Tail(t), w)
<1> DEFINE q == Tail(t)
<1>1. PICK n \in DOMAIN t :
        /\ \A i \in 1 .. n - 1 : IsAt(t[i], "Adjust", 0)
        /\ IsAt(t[n], "QuickEffect", 0)
        /\ n < Len(t) /\ w = t[n + 1] /\ Keeps(w)
        /\ \A i \in n + 2 .. Len(t) : Resting(t[i])
  BY DEF Layer
<1>2. Len(t) \in Nat /\ DOMAIN t = 1 .. Len(t) BY LenProperties
<1>3. t # <<>> BY <1>1, <1>2
<1>4. /\ q \in Seq(UnitType) /\ Len(q) = Len(t) - 1 /\ Head(t) = t[1]
      /\ \A i \in 1 .. Len(t) - 1 : q[i] = t[i + 1]
  BY <1>3, HeadTailProperties
<1>5. DOMAIN q = 1 .. Len(t) - 1 BY <1>2, <1>4, LenProperties
<1> HIDE DEF q
<1>6. CASE n = 1
  <2>1. q # <<>> /\ Head(q) = q[1] /\ q[1] = t[2] BY <1>1, <1>2, <1>4, <1>5, <1>6
  <2>2. /\ Tail(q) \in Seq(UnitType) /\ Len(Tail(q)) = Len(t) - 2
        /\ \A i \in 1 .. Len(t) - 2 : Tail(q)[i] = q[i + 1]
    <3>1. /\ Tail(q) \in Seq(UnitType) /\ Len(Tail(q)) = Len(q) - 1
          /\ \A i \in 1 .. Len(q) - 1 : Tail(q)[i] = q[i + 1]
      BY <1>4, <2>1, HeadTailProperties
    <3>2. Len(q) - 1 = Len(t) - 2 BY <1>2, <1>4
    <3> QED BY <3>1, <3>2
  <2>3. DOMAIN Tail(q) = 1 .. Len(t) - 2 BY <1>2, <2>2, LenProperties
  <2>4. ASSUME NEW i \in DOMAIN Tail(q)
        PROVE  Resting(Tail(q)[i])
    <3>1. i + 1 \in 1 .. Len(t) - 1 /\ i + 2 \in n + 2 .. Len(t) /\ (i + 1) + 1 = i + 2
      <4>1. i \in 1 .. Len(t) - 2 BY <2>3
      <4> QED BY <1>2, <1>6, <4>1
    <3>2. Tail(q)[i] = q[i + 1] /\ q[i + 1] = t[(i + 1) + 1] BY <1>4, <2>2, <2>3, <3>1
    <3> QED BY <1>1, <3>1, <3>2
  <2>5. Held(q, w) BY <1>1, <1>6, <2>1, <2>4 DEF Held, On, Rest
  <2> QED BY <1>1, <1>3, <1>4, <1>6, <2>5 DEF q
<1>7. CASE n # 1
  <2>1. n - 1 \in DOMAIN q /\ n - 1 < Len(q) /\ n \in 1 .. Len(t) - 1 /\ (n - 1) + 1 = n
    BY <1>1, <1>2, <1>4, <1>5, <1>7
  <2>2. q[n - 1] = t[n] /\ q[(n - 1) + 1] = t[n + 1]
    <3>1. q[n - 1] = t[(n - 1) + 1] /\ q[n] = t[n + 1] BY <1>4, <1>5, <2>1
    <3> QED BY <2>1, <3>1
  <2>3. ASSUME NEW i \in 1 .. (n - 1) - 1
        PROVE  IsAt(q[i], "Adjust", 0)
    <3>1. i \in 1 .. Len(t) - 1 /\ i + 1 \in 1 .. n - 1 BY <1>2, <2>1
    <3>2. q[i] = t[i + 1] BY <1>4, <3>1
    <3> QED BY <1>1, <3>1, <3>2
  <2>4. ASSUME NEW i \in (n - 1) + 2 .. Len(q)
        PROVE  Resting(q[i])
    <3>1. i \in 1 .. Len(t) - 1 /\ i + 1 \in n + 2 .. Len(t) BY <1>2, <1>4, <2>1
    <3>2. q[i] = t[i + 1] BY <1>4, <3>1
    <3> QED BY <1>1, <3>1, <3>2
  <2>5. Layer(q, w) BY <1>1, <2>1, <2>2, <2>3, <2>4 DEF Layer
  <2>6. IsAt(Head(t), "Adjust", 0)
    <3>1. 1 \in 1 .. n - 1 BY <1>2, <2>1, <1>7
    <3> QED BY <1>1, <1>4, <3>1
  <2> QED BY <1>1, <1>3, <2>5, <2>6 DEF q
<1> QED BY <1>6, <1>7

(* What the kind of the front unit says of the stack. *)
LEMMA ShapeKinds ==
  ASSUME units \in Seq(UnitType), units # <<>>, NEW w, Shape(units, w)
  PROVE  /\ Front.kind = "AddChain" =>
              /\ Front.step \in {0, 2, 8}
              /\ Layer(Tail(units), w) \/ Asking(Tail(units), w)
         /\ Front.kind = "Adjust" =>
              /\ Front.step = 0
              /\ Layer(Tail(units), w) \/ Asking(Tail(units), w) \/ Paused(Tail(units), w)
         /\ Front.kind = "QuickEffect" =>
              /\ Front.step \in {0, 1, 2}
              /\ Held(Tail(units), w)
         /\ Front.kind \notin {"AddChain", "Adjust", "QuickEffect"} =>
              Floor(Front) /\ w = Front /\ Rest(Tail(units))
BY DEF Shape, Front, IsAt, Floor

(* The shapes that a unit put on a stack makes. *)
LEMMA ShapePush ==
  ASSUME NEW t \in Seq(UnitType), NEW u \in UnitType, NEW w
  PROVE  /\ u.kind = "AddChain" /\ u.step \in {0, 2, 8} /\ (Layer(t, w) \/ Asking(t, w)) =>
              Shape(Push(u, t), w)
         /\ IsAt(u, "Adjust", 0) /\ (Layer(t, w) \/ Asking(t, w) \/ Paused(t, w)) =>
              Shape(Push(u, t), w)
         /\ u.kind = "QuickEffect" /\ u.step \in {0, 1, 2} /\ Held(t, w) =>
              Shape(Push(u, t), w)
         /\ Floor(u) /\ Rest(t) => Shape(Push(u, t), u)
<1>1. Push(u, t) # <<>> /\ Head(Push(u, t)) = u /\ Tail(Push(u, t)) = t
  BY PushProperties
<1> QED BY <1>1, Zenon DEF Shape

(* The shapes that are left when a unit is taken off. *)
LEMMA ShapeLeft ==
  ASSUME NEW t \in Seq(UnitType), NEW w
  PROVE  /\ Layer(t, w) => Shape(t, w) /\ t # <<>>
         /\ Asking(t, w) => Shape(t, w) /\ t # <<>> /\ Head(t) = w
         /\ Held(t, w) => Shape(t, w) /\ t # <<>> /\ Head(t) = w
         /\ Paused(t, w) => Shape(t, w) /\ (t # <<>> => Head(t) = w)
<1>1. ASSUME On(t, w), Floor(w)
      PROVE  Shape(t, w) /\ t # <<>> /\ Head(t) = w
  BY <1>1 DEF On, Shape
<1>2. ASSUME Layer(t, w)
      PROVE  Shape(t, w) /\ t # <<>>
  <2>1. t # <<>> /\ \/ IsAt(Head(t), "Adjust", 0) /\ Layer(Tail(t), w)
                    \/ IsAt(Head(t), "QuickEffect", 0) /\ Held(Tail(t), w)
    BY <1>2, LayerPop
  <2> QED BY <2>1 DEF Shape, IsAt
<1>3. /\ Asks(w) => Floor(w)
      /\ Keeps(w) => Floor(w)
      /\ Resting(w) \/ IsAt(w, "SolveChain", 0) => Floor(w)
  BY DEF Asks, Keeps, Resting, IsAt, Floor
<1>4. Paused(t, w) => Shape(t, w) /\ (t # <<>> => Head(t) = w)
  BY <1>1, <1>3 DEF Paused, Shape
<1> QED BY <1>1, <1>2, <1>3, <1>4 DEF Asking, Held

(* ... and under a unit that rested. *)
LEMMA RestLeft ==
  ASSUME NEW t \in Seq(UnitType), Rest(t)
  PROVE  \E w \in UnitType :
           Resting(w) /\ Paused(t, w) /\ ~HasAdjust(t)
<1>1. CASE t = <<>>
  BY <1>1, UnitTypes, RestHasNoAdjust DEF Paused, Resting, IsAt, Idle, Unit
<1>2. CASE t # <<>>
  <2>1. Head(t) \in UnitType /\ Tail(t) \in Seq(UnitType) /\ t = Push(Head(t), Tail(t))
    BY <1>2, HeadTailPush
  <2>2. Resting(Head(t)) /\ Rest(Tail(t)) BY <2>1, RestPush
  <2> QED BY <1>2, <2>1, <2>2, RestHasNoAdjust DEF Paused, On
<1> QED BY <1>1, <1>2

-----------------------------------------------------------------------------
(* What an event leaves, and what a change of control does to it. *)

(* The triggers of one event, with the identities from first to next - 1. *)
NewLinks(first, next, kinds, causes, now) ==
  [id : first .. next - 1, kind : kinds, player : Players, delay : BOOLEAN,
   event : {first}, causes : {causes}, at : {now}, chain_count : {0}, negated : {FALSE}]

LEMMA Settled ==
  ASSUME Typed
  PROVE  /\ setting \in AllSettings /\ MaxLinks \in Nat
         /\ next_id \in Nat /\ next_id >= 1 /\ next_id <= MaxLinks + 1
         /\ TriggerKinds \subseteq {"forced", "optional", "hidden", "quick"}
<1>1. setting \in AllSettings BY ConstantsAssumption DEF Typed, DataTyped
<1> QED BY <1>1 DEF Typed, DataTyped, AllSettings, MaxLinks, TriggerKinds

(* An event leaves f, o and q. *)
Leaves(fc, oc, causes, now, f, o, q) ==
  /\ new_fchain' = fc \cup f /\ new_ochain' = oc \cup o
  /\ quick_f_chain' = quick_f_chain \cup q
  /\ f \subseteq NewLinks(next_id, next_id', {"forced"}, causes, now)
  /\ o \subseteq NewLinks(next_id, next_id', {"optional", "hidden"}, causes, now)
  /\ q \subseteq NewLinks(next_id, next_id', {"quick"}, causes, now)
  /\ Single(f \cup o \cup q)

LEMMA RaiseLeaves ==
  ASSUME Typed, NEW fc, NEW oc, NEW causes, NEW now, RaiseAt(fc, oc, causes, now)
  PROVE  /\ next_id' \in Nat /\ next_id <= next_id' /\ next_id' <= MaxLinks + 1
         /\ \E f, o, q : Leaves(fc, oc, causes, now, f, o, q)
<1> DEFINE Link1(s, i) ==
             NewLink(next_id + i - 1, next_id, s[i].kind, s[i].player, s[i].delay, causes, now)
           R(n, s, kinds) == {Link1(s, i) : i \in {j \in 1 .. n : s[j].kind \in kinds}}
<1>0. PICK n \in 0 .. MaxPerEvent : \E s \in [1 .. n -> Sorts] :
        /\ next_id + n <= MaxLinks + 1
        /\ next_id' = next_id + n
        /\ new_fchain' = fc \cup R(n, s, {"forced"})
        /\ new_ochain' = oc \cup R(n, s, {"optional", "hidden"})
        /\ quick_f_chain' = quick_f_chain \cup R(n, s, {"quick"})
  BY DEF RaiseAt
<1>1. PICK s \in [1 .. n -> Sorts] :
        /\ next_id + n <= MaxLinks + 1
        /\ next_id' = next_id + n
        /\ new_fchain' = fc \cup R(n, s, {"forced"})
        /\ new_ochain' = oc \cup R(n, s, {"optional", "hidden"})
        /\ quick_f_chain' = quick_f_chain \cup R(n, s, {"quick"})
  BY <1>0
<1>2. n \in Nat /\ next_id \in Nat /\ MaxLinks \in Nat BY Settled, ConstantsAssumption
<1>3. \A i \in 1 .. n : s[i] \in [kind : TriggerKinds, player : Players, delay : BOOLEAN]
  BY DEF Sorts
<1>4. ASSUME NEW kinds, NEW i \in 1 .. n, s[i].kind \in kinds
      PROVE  Link1(s, i) \in NewLinks(next_id, next_id', kinds, causes, now)
  <2>1. next_id + i - 1 \in next_id .. next_id' - 1 BY <1>1, <1>2
  <2> QED BY <1>3, <1>4, <2>1 DEF NewLinks, NewLink
<1>5. \A kinds : R(n, s, kinds) \subseteq NewLinks(next_id, next_id', kinds, causes, now)
  BY <1>4
<1>6. ASSUME NEW i \in 1 .. n, NEW j \in 1 .. n, Link1(s, i).id = Link1(s, j).id
      PROVE  Link1(s, i) = Link1(s, j)
  <2>1. next_id + i - 1 = next_id + j - 1 BY <1>6 DEF NewLink
  <2>2. i = j BY <1>2, <2>1
  <2> QED BY <2>2
<1>7. Single(R(n, s, {"forced"}) \cup R(n, s, {"optional", "hidden"}) \cup R(n, s, {"quick"}))
  <2> HIDE DEF Link1
  <2>1. \A kinds : \A c \in R(n, s, kinds) : \E i \in 1 .. n : c = Link1(s, i) OBVIOUS
  <2> HIDE DEF R
  <2>2. \A c, d : (\E i \in 1 .. n : c = Link1(s, i)) /\ (\E i \in 1 .. n : d = Link1(s, i)) =>
          (c.id = d.id => c = d)
    BY <1>6
  <2> QED BY <2>1, <2>2, Zenon DEF Single
<1>8. next_id' \in Nat /\ next_id <= next_id' /\ next_id' <= MaxLinks + 1 BY <1>1, <1>2
<1> HIDE DEF R
<1>9. Leaves(fc, oc, causes, now, R(n, s, {"forced"}), R(n, s, {"optional", "hidden"}),
             R(n, s, {"quick"}))
  BY <1>1, <1>5, <1>7, Zenon DEF Leaves
<1> QED BY <1>8, <1>9, Zenon

LEMMA RearrangedKeeps ==
  ASSUME NEW S \in SUBSET AnyLink, NEW T \in Rearranged(S)
  PROVE  /\ T \subseteq AnyLink
         /\ \A d \in T : \E c \in S : \E p \in Players : d = [c EXCEPT !.player = p]
         /\ S = {} => T = {}
         /\ \A K : S \subseteq OfKind(K) => T \subseteq OfKind(K)
<1>1. CASE ~ControlChanges
  <2>1. T = S BY <1>1 DEF Rearranged
  <2>2. \A d \in T : d.player \in Players /\ d = [d EXCEPT !.player = d.player]
    BY <2>1 DEF AnyLink
  <2> QED BY <2>1, <2>2, Zenon
<1>2. CASE ControlChanges
  <2>1. /\ T \subseteq UNION {Moved(c) : c \in S}
        /\ \A c \in S : \E d \in T : {e \in T : e.id = c.id} = {d}
    BY <1>2 DEF Rearranged
  <2>2. \A d \in T : \E c \in S : \E p \in Players : d = [c EXCEPT !.player = p]
    BY <2>1, Zenon DEF Moved
  <2>3. \A d \in T : d \in AnyLink BY <2>2 DEF AnyLink
  <2>5. \A d \in T : \E c \in S : d.kind = c.kind BY <2>2 DEF AnyLink
  <2>6. \A K : S \subseteq OfKind(K) => T \subseteq OfKind(K) BY <2>3, <2>5 DEF OfKind
  <2> QED BY <2>2, <2>3, <2>6
<1> QED BY <1>1, <1>2

-----------------------------------------------------------------------------
(* Every action keeps the types. *)

LEMMA RaiseTyped ==
  ASSUME Typed, NEW fc, NEW oc, fc \subseteq Forced, oc \subseteq Optional,
         NEW causes \in Nat, NEW now \in Nat, RaiseAt(fc, oc, causes, now)
  PROVE  /\ new_fchain' \subseteq Forced /\ new_ochain' \subseteq Optional
         /\ quick_f_chain' \subseteq Quick /\ next_id' \in 1 .. MaxLinks + 1
<1>0. next_id' \in Nat /\ next_id <= next_id' /\ next_id' <= MaxLinks + 1 BY RaiseLeaves
<1>1. PICK f, o, q : Leaves(fc, oc, causes, now, f, o, q) BY RaiseLeaves
<1>2. next_id \in Nat /\ next_id >= 1 /\ MaxLinks \in Nat BY Settled
<1>3. ASSUME NEW K \in SUBSET Kinds
      PROVE  NewLinks(next_id, next_id', K, causes, now) \subseteq OfKind(K)
  <2>1. \A i \in next_id .. next_id' - 1 : i \in Nat BY <1>0, <1>2
  <2>2. ASSUME NEW c \in NewLinks(next_id, next_id', K, causes, now)
        PROVE  c \in AnyLink /\ c.kind \in K
    <3>1. K \subseteq Kinds /\ 0 \in Nat /\ FALSE \in BOOLEAN OBVIOUS
    <3> QED BY <1>2, <2>1, <2>2, <3>1 DEF NewLinks, AnyLink
  <2> QED BY <2>2 DEF OfKind
<1>4. {"forced"} \subseteq Kinds /\ {"optional", "hidden"} \subseteq Kinds /\ {"quick"} \subseteq Kinds
  BY DEF Kinds
<1>5. /\ NewLinks(next_id, next_id', {"forced"}, causes, now) \subseteq Forced
      /\ NewLinks(next_id, next_id', {"optional", "hidden"}, causes, now) \subseteq Optional
      /\ NewLinks(next_id, next_id', {"quick"}, causes, now) \subseteq Quick
  BY <1>3, <1>4 DEF Forced, Optional, Quick
<1>6. new_fchain' \subseteq Forced /\ new_ochain' \subseteq Optional /\ quick_f_chain' \subseteq Quick
  BY <1>1, <1>5, Zenon DEF Typed, DataTyped, Leaves
<1> QED BY <1>0, <1>2, <1>6

LEMMA KindTypes ==
  /\ Forced \subseteq AnyLink /\ Optional \subseteq AnyLink
  /\ Hidden \subseteq AnyLink /\ Quick \subseteq AnyLink
  /\ \A c \in Forced : c.kind = "forced"
  /\ \A c \in Optional : c.kind \in {"optional", "hidden"}
  /\ \A c \in Hidden : c.kind = "hidden"
  /\ \A c \in Quick : c.kind = "quick"
  /\ \A c \in Optional : c.kind = "hidden" => c \in Hidden
BY DEF Forced, Optional, Hidden, Quick, OfKind

LEMMA ControlTyped ==
  ASSUME Typed, ControlMoves
  PROVE  /\ new_fchain_s' \subseteq Forced /\ new_ochain_s' \subseteq Optional
         /\ new_ochain_h' \subseteq Hidden
         /\ new_fchain_s = {} => new_fchain_s' = {}
         /\ new_ochain_s = {} => new_ochain_s' = {}
         /\ new_ochain_h = {} => new_ochain_h' = {}
         /\ current_player' = current_player
         /\ ignition_priority_chains' = ignition_priority_chains
<1>1. /\ new_fchain_s \in SUBSET AnyLink /\ new_ochain_s \in SUBSET AnyLink
      /\ new_ochain_h \in SUBSET AnyLink
      /\ new_fchain_s \subseteq Forced /\ new_ochain_s \subseteq Optional
      /\ new_ochain_h \subseteq Hidden
  BY KindTypes DEF Typed, DataTyped
<1> QED BY <1>1, RearrangedKeeps DEF ControlMoves, Forced, Optional, Hidden

LEMMA ChooseTyped ==
  ASSUME Typed, NEW c \in AnyLink, Choose(c)
  PROVE  /\ new_chains' \in Seq(AnyLink) /\ chaining' \subseteq Nat
         /\ new_chains' # <<>>
<1>1. new_chains \in Seq(AnyLink) /\ chaining \subseteq Nat BY DEF Typed, DataTyped
<1>2. c.id \in Nat BY DEF AnyLink
<1>3. Append(new_chains, c) \in Seq(AnyLink) /\ Append(new_chains, c) # <<>>
  BY <1>1, AppendProperties
<1> QED BY <1>1, <1>2, <1>3 DEF Choose

LEMMA ActivationTyped ==
  ASSUME Typed, CanActivate, NEW p \in Players
  PROVE  /\ Activation(p) \in AnyLink /\ next_id + 1 \in 1 .. MaxLinks + 1
         /\ [Activation(p) EXCEPT !.kind = "ignition"] \in AnyLink
<1>1. next_id \in Nat /\ next_id >= 1 /\ MaxLinks \in Nat /\ started \in Nat
  BY Settled DEF Typed, DataTyped
<1>2. "activated" \in Kinds /\ "ignition" \in Kinds BY DEF Kinds
<1>3. next_id + 1 \in 1 .. MaxLinks + 1 BY <1>1 DEF CanActivate
<1>4. Activation(p) \in AnyLink BY <1>1, <1>2 DEF Activation, NewLink, AnyLink
<1>5. [Activation(p) EXCEPT !.kind = "ignition"] \in AnyLink BY <1>2, <1>4 DEF AnyLink
<1> QED BY <1>3, <1>4, <1>5

LEMMA Others ==
  ASSUME Typed
  PROVE  /\ FirstPlayer \in Players /\ Opponent(FirstPlayer) \in Players
         /\ CheckPlayer \in Players /\ turn_player \in Players
         /\ \A S \in SUBSET AnyLink : Selectable(S) \subseteq S
BY ConstantsAssumption, Settled DEF FirstPlayer, Opponent, CheckPlayer, Players, Selectable, Typed, DataTyped

(* What the members of a setting are, before and after a step. *)
LEMMA SameSetting ==
  ASSUME UNCHANGED fixed
  PROVE  /\ setting' = setting /\ duel_options' = duel_options
         /\ hand_adjusted' = hand_adjusted /\ MaxLinks' = MaxLinks
BY DEF fixed, MaxLinks

(* What is not empty when a handler looks at it. *)
LEMMA NotEmpty ==
  ASSUME Typed, Control
  PROVE  /\ At("AddChain", 0) \/ At("AddChain", 2) => new_chains # <<>>
         /\ At("AddChain", 8) => current_chain # <<>>
         /\ \A s \in {1, 2, 5, 10} : At("SolveChain", s) => current_chain # <<>>
<1>1. PICK w \in UnitType : Shape(units, w) /\ Facts(w) BY DEF Control
<1>2. ASSUME units # <<>>, Front.kind = "SolveChain"
      PROVE  w = Front
  BY <1>1, <1>2, ShapeKinds DEF Typed, DataTyped
<1> QED BY <1>1, <1>2 DEF Facts, NewChains, ChainThere, At

LEMMA WithoutLast ==
  ASSUME NEW S, NEW s \in Seq(S), s # <<>>
  PROVE  /\ SubSeq(s, 1, Len(s) - 1) \in Seq(S)
         /\ Len(s) \in Nat \ {0} /\ Len(SubSeq(s, 1, Len(s) - 1)) = Len(s) - 1
         /\ \A i \in 1 .. Len(s) - 1 : SubSeq(s, 1, Len(s) - 1)[i] = s[i]
         /\ s[Len(s)] \in S
<1> DEFINE k == Len(s) - 1
           L == Len(SubSeq(s, 1, Len(s) - 1))
<1>1. Len(s) \in Nat \ {0} BY EmptySeq
<1>2. /\ SubSeq(s, 1, Len(s) - 1) \in Seq(S)
      /\ \A i \in 1 .. Len(s) - 1 : SubSeq(s, 1, Len(s) - 1)[i] = s[i]
      /\ s[Len(s)] \in S
  BY <1>1
<1>3. k \in Nat BY <1>1
<1>4. L = IF 1 <= k THEN k - 1 + 1 ELSE 0
  <2>1. \A i \in 1 .. Len(s) - 1 : s[i] \in S BY <1>1
  <2> QED BY <1>1, <2>1, SubSeqProperties
<1>5. L = k
  <2> HIDE DEF L, k
  <2> QED BY <1>3, <1>4, SMT
<1> QED BY <1>1, <1>2, <1>5

LEMMA LastTyped ==
  ASSUME Typed, current_chain # <<>>
  PROVE  /\ Last \in AnyLink /\ Last.chain_count \in Nat
         /\ Len(current_chain) \in Nat \ {0}
         /\ SubSeq(current_chain, 1, Len(current_chain) - 1) \in Seq(AnyLink)
<1>1. current_chain \in Seq(AnyLink) /\ Len(current_chain) \in Nat \ {0}
  BY EmptySeq DEF Typed, DataTyped
<1>2. \A i \in 1 .. Len(current_chain) : current_chain[i] \in AnyLink BY <1>1
<1>3. Last \in AnyLink BY <1>1, <1>2 DEF Last
<1>4. SubSeq(current_chain, 1, Len(current_chain) - 1) \in Seq(AnyLink) BY <1>1
<1> QED BY <1>1, <1>3, <1>4 DEF AnyLink

LEMMA NegateTyped ==
  ASSUME Typed, Negate
  PROVE  /\ current_chain' \in Seq(AnyLink) /\ Len(current_chain') = Len(current_chain)
         /\ \A i \in 1 .. Len(current_chain) :
              /\ current_chain'[i].id = current_chain[i].id
              /\ current_chain'[i].kind = current_chain[i].kind
              /\ current_chain'[i].player = current_chain[i].player
              /\ current_chain'[i].chain_count = current_chain[i].chain_count
              /\ current_chain'[i].event = current_chain[i].event
              /\ current_chain'[i].causes = current_chain[i].causes
              /\ current_chain'[i].at = current_chain[i].at
<1>1. current_chain \in Seq(AnyLink) /\ DOMAIN current_chain = 1 .. Len(current_chain)
  BY LenProperties DEF Typed, DataTyped
<1>2. CASE UNCHANGED current_chain BY <1>1, <1>2
<1>3. CASE ~UNCHANGED current_chain
  <2>1. PICK i \in DOMAIN current_chain :
          current_chain' = [current_chain EXCEPT ![i].negated = TRUE]
    BY <1>3 DEF Negate
  <2> DEFINE c == [current_chain[i] EXCEPT !.negated = TRUE]
  <2>2. current_chain' = [current_chain EXCEPT ![i] = c] /\ i \in 1 .. Len(current_chain)
    BY <1>1, <2>1
  <2>3. current_chain[i] \in AnyLink BY <1>1, <2>2
  <2>4. /\ c \in AnyLink /\ c.id = current_chain[i].id /\ c.kind = current_chain[i].kind
        /\ c.player = current_chain[i].player /\ c.chain_count = current_chain[i].chain_count
        /\ c.event = current_chain[i].event /\ c.causes = current_chain[i].causes
        /\ c.at = current_chain[i].at
    BY <2>3 DEF AnyLink
  <2> HIDE DEF c
  <2>5. /\ current_chain' \in Seq(AnyLink) /\ Len(current_chain') = Len(current_chain)
        /\ \A j \in 1 .. Len(current_chain) :
             current_chain'[j] = IF j = i THEN c ELSE current_chain[j]
    BY <1>1, <2>2, <2>4, ExceptSeq
  <2> QED BY <2>4, <2>5
<1> QED BY <1>2, <1>3


-----------------------------------------------------------------------------
(* The step of one action after another. *)

(* What the front unit says when it is on the floor. *)
LEMMA FloorFront ==
  ASSUME Typed, Control, units # <<>>,
         Front.kind \notin {"AddChain", "Adjust", "QuickEffect"}
  PROVE  /\ Floor(Front) /\ Rest(Tail(units)) /\ Shape(units, Front) /\ Facts(Front)
         /\ Tail(units) \in Seq(UnitType) /\ ~HasAdjust(Tail(units))
         /\ Front \in UnitType
<1>1. PICK w \in UnitType : Shape(units, w) /\ Facts(w) BY DEF Control
<1>2. units \in Seq(UnitType) BY DEF Typed
<1>3. Floor(Front) /\ w = Front /\ Rest(Tail(units)) BY <1>1, <1>2, ShapeKinds
<1>4. Tail(units) \in Seq(UnitType) /\ Front \in UnitType BY <1>2, FrontType
<1> QED BY <1>1, <1>3, <1>4, RestHasNoAdjust

(* A unit on the floor goes on by itself. *)
LEMMA FloorGoesOn ==
  ASSUME Typed, Control, units # <<>>,
         Front.kind \notin {"AddChain", "Adjust", "QuickEffect"},
         NEW s \in 0 .. 11, NEW f, f = [Front EXCEPT !.step = s], Floor(f), GoOn(s, <<>>)
  PROVE  /\ units' \in Seq(UnitType) /\ units' # <<>> /\ Front' = f
         /\ f \in UnitType /\ f.kind = Front.kind /\ f.step = s
         /\ Shape(units', f) /\ ~HasAdjust(units')
<1>1. /\ Rest(Tail(units)) /\ Tail(units) \in Seq(UnitType) /\ ~HasAdjust(Tail(units))
      /\ Front \in UnitType /\ units \in Seq(UnitType)
  BY FloorFront DEF Typed
<1>2. f \in UnitType /\ f.kind = Front.kind /\ f.step = s
  BY <1>1, FrontType DEF UnitType
<1>3. units' = Push(f, Tail(units)) BY <1>1, <1>2, GoesOn
<1>4. Head(Push(f, Tail(units))) = f /\ Push(f, Tail(units)) # <<>> /\ Push(f, Tail(units)) \in Seq(UnitType)
  BY <1>1, <1>2, PushUnit, Zenon
<1>5. Shape(Push(f, Tail(units)), f) BY <1>1, <1>2, ShapePush
<1>6. ~HasAdjust(Push(f, Tail(units))) BY <1>1, <1>2, HasAdjustPush DEF Floor
<1>7. Front' = f BY <1>3, <1>4 DEF Front
<1> QED BY <1>2, <1>3, <1>4, <1>5, <1>6, <1>7

(* A unit on the floor emplaces one unit and goes on after it. *)
LEMMA FloorPushes ==
  ASSUME Typed, Control, units # <<>>,
         Front.kind \notin {"AddChain", "Adjust", "QuickEffect"},
         NEW s \in 0 .. 11, NEW f, f = [Front EXCEPT !.step = s], Floor(f),
         NEW a \in UnitType, GoOn(s, <<a>>)
  PROVE  /\ units' \in Seq(UnitType) /\ units' # <<>> /\ Front' = a
         /\ f \in UnitType /\ f.kind = Front.kind /\ f.step = s
         /\ HasAdjust(units') <=> a.kind = "Adjust"
         /\ IsAt(a, "Adjust", 0) /\ (Resting(f) \/ IsAt(f, "SolveChain", 0)) => Shape(units', f)
         /\ IsAt(a, "AddChain", 0) /\ Asks(f) => Shape(units', f)
         /\ IsAt(a, "QuickEffect", 0) /\ Keeps(f) => Shape(units', f)
         /\ Floor(a) /\ Resting(f) => Shape(units', a)
<1> DEFINE t == Push(f, Tail(units))
<1>1. /\ Rest(Tail(units)) /\ Tail(units) \in Seq(UnitType) /\ ~HasAdjust(Tail(units))
      /\ Front \in UnitType /\ units \in Seq(UnitType)
  BY FloorFront DEF Typed
<1>2. f \in UnitType /\ f.kind = Front.kind /\ f.step = s
  BY <1>1, FrontType DEF UnitType
<1>3. units' = Push(a, t) BY <1>1, <1>2, GoesOn
<1>4. /\ t \in Seq(UnitType) /\ On(t, f) /\ ~HasAdjust(t)
      /\ Resting(f) => Rest(t)
  <2>1. t \in Seq(UnitType) BY <1>1, <1>2, PushUnit, Zenon
  <2>2. On(t, f) /\ (Resting(f) => Rest(t)) BY <1>1, <1>2, OnPush, RestPush
  <2>3. ~HasAdjust(t) BY <1>1, <1>2, HasAdjustPush DEF Floor
  <2> QED BY <2>1, <2>2, <2>3
<1> HIDE DEF t
<1>5. Head(units') = a /\ units' # <<>> /\ units' \in Seq(UnitType)
  BY <1>3, <1>4, PushUnit, Zenon
<1>6. HasAdjust(units') <=> a.kind = "Adjust" BY <1>3, <1>4, HasAdjustPush
<1>7. /\ IsAt(a, "Adjust", 0) /\ (Layer(t, f) \/ Asking(t, f) \/ Paused(t, f)) => Shape(units', f)
      /\ a.kind = "AddChain" /\ a.step \in {0, 2, 8} /\ (Layer(t, f) \/ Asking(t, f)) =>
           Shape(units', f)
      /\ a.kind = "QuickEffect" /\ a.step \in {0, 1, 2} /\ Held(t, f) => Shape(units', f)
      /\ Floor(a) /\ Rest(t) => Shape(units', a)
  BY <1>3, <1>4, ShapePush
<1>8. Front' = a BY <1>5 DEF Front
<1> QED BY <1>2, <1>4, <1>5, <1>6, <1>7, <1>8 DEF Paused, Asking, Held, IsAt

(* A unit on the floor has an effect activated and answered. *)
LEMMA FloorActivates ==
  ASSUME Typed, Control, units # <<>>,
         Front.kind \notin {"AddChain", "Adjust", "QuickEffect"},
         NEW s \in 0 .. 11, NEW f, f = [Front EXCEPT !.step = s], Floor(f), Keeps(f),
         NEW b \in UnitType, IsAt(b, "QuickEffect", 0), GoOn(s, <<AddChain, b>>)
  PROVE  /\ units' \in Seq(UnitType) /\ units' # <<>> /\ Front' = AddChain
         /\ f \in UnitType /\ f.kind = Front.kind /\ f.step = s
         /\ Shape(units', f) /\ ~HasAdjust(units')
<1> DEFINE t == Push(f, Tail(units))
<1>1. /\ Rest(Tail(units)) /\ Tail(units) \in Seq(UnitType) /\ ~HasAdjust(Tail(units))
      /\ Front \in UnitType /\ units \in Seq(UnitType) /\ AddChain \in UnitType
  BY FloorFront, UnitTypes DEF Typed
<1>2. f \in UnitType /\ f.kind = Front.kind /\ f.step = s
  BY <1>1, FrontType DEF UnitType
<1>3. units' = Push(AddChain, Push(b, t)) BY <1>1, <1>2, GoesOn, Zenon
<1>4. t \in Seq(UnitType) /\ Held(t, f) /\ ~HasAdjust(t)
  <2>1. t \in Seq(UnitType) BY <1>1, <1>2, PushUnit, Zenon
  <2>2. On(t, f) BY <1>1, <1>2, OnPush
  <2>3. ~HasAdjust(t) BY <1>1, <1>2, HasAdjustPush DEF Floor
  <2> QED BY <2>1, <2>2, <2>3 DEF Held
<1> HIDE DEF t
<1>5. Push(b, t) \in Seq(UnitType) /\ Layer(Push(b, t), f) /\ ~HasAdjust(Push(b, t))
  <2>1. Push(b, t) \in Seq(UnitType) BY <1>4, PushUnit, Zenon
  <2>2. Layer(Push(b, t), f) BY <1>4, LayerQuick
  <2>3. ~HasAdjust(Push(b, t)) BY <1>4, HasAdjustPush DEF IsAt
  <2> QED BY <2>1, <2>2, <2>3
<1>6. Head(units') = AddChain /\ units' # <<>> /\ units' \in Seq(UnitType)
  BY <1>1, <1>3, <1>5, PushUnit, Zenon
<1>7. Shape(units', f) /\ ~HasAdjust(units')
  BY <1>1, <1>3, <1>5, ShapePush, HasAdjustPush DEF AddChain, Unit
<1>8. Front' = AddChain BY <1>6 DEF Front
<1> QED BY <1>2, <1>6, <1>7, <1>8

(* A unit on the floor is done. *)
LEMMA FloorEnds ==
  ASSUME Typed, Control, units # <<>>,
         Front.kind \notin {"AddChain", "Adjust", "QuickEffect"}, Finish(<<>>)
  PROVE  /\ units' \in Seq(UnitType) /\ ~HasAdjust(units')
         /\ \E w \in UnitType :
              Resting(w) /\ Shape(units', w) /\ (units' # <<>> => Front' = w)
<1>1. Rest(Tail(units)) /\ Tail(units) \in Seq(UnitType) /\ ~HasAdjust(Tail(units))
  BY FloorFront
<1>2. units' = Tail(units) BY <1>1, UnitTypes, Finishes DEF Typed
<1>3. PICK w \in UnitType : Resting(w) /\ Paused(Tail(units), w) BY <1>1, RestLeft
<1>4. Shape(Tail(units), w) /\ (Tail(units) # <<>> => Head(Tail(units)) = w)
  BY <1>1, <1>3, ShapeLeft
<1> QED BY <1>1, <1>2, <1>3, <1>4 DEF Front

(* A unit on the floor is replaced by another. *)
LEMMA FloorReplaced ==
  ASSUME Typed, Control, units # <<>>,
         Front.kind \notin {"AddChain", "Adjust", "QuickEffect"},
         NEW a \in UnitType, Finish(<<a>>)
  PROVE  /\ units' \in Seq(UnitType) /\ units' # <<>> /\ Front' = a
         /\ HasAdjust(units') <=> a.kind = "Adjust"
         /\ Floor(a) => Shape(units', a)
         /\ IsAt(a, "Adjust", 0) => \E w \in UnitType : Resting(w) /\ Shape(units', w)
<1>1. Rest(Tail(units)) /\ Tail(units) \in Seq(UnitType) /\ ~HasAdjust(Tail(units))
  BY FloorFront
<1>2. units' = Push(a, Tail(units)) BY Finishes DEF Typed
<1>3. PICK w \in UnitType : Resting(w) /\ Paused(Tail(units), w) BY <1>1, RestLeft
<1>4. Head(units') = a /\ units' # <<>> /\ units' \in Seq(UnitType)
  BY <1>1, <1>2, PushUnit, Zenon
<1>5. HasAdjust(units') <=> a.kind = "Adjust" BY <1>1, <1>2, HasAdjustPush
<1>6. /\ Floor(a) => Shape(units', a)
      /\ IsAt(a, "Adjust", 0) => Shape(units', w)
  BY <1>1, <1>2, <1>3, ShapePush
<1>7. Front' = a BY <1>4 DEF Front
<1> QED BY <1>3, <1>4, <1>5, <1>6, <1>7

LEMMA PointEventStartStep ==
  ASSUME Typed, Control, PointEventStart
  PROVE  Typed' /\ Control'
<1>1. /\ units # <<>> /\ Front.kind = "PointEvent" /\ Front.step = 0
  BY DEF PointEventStart, At
<1>2. Facts(Front) BY <1>1, FloorFront
<1>3. PICK s \in {2, 9} : /\ GoOn(s, <<>>)
                          /\ s = 9 => UNCHANGED <<pending, triggers>>
  BY DEF PointEventStart
<1>4. PICK f : f = [Front EXCEPT !.step = s] OBVIOUS
<1>5. Floor(f)
  <2>1. f.kind = "PointEvent" /\ f.step = s BY <1>1, <1>4, FrontType DEF Typed, UnitType
  <2> QED BY <1>1, <2>1 DEF Floor
<1>6. /\ units' \in Seq(UnitType) /\ units' # <<>> /\ Front' = f
      /\ f \in UnitType /\ f.kind = Front.kind /\ f.step = s
      /\ Shape(units', f) /\ ~HasAdjust(units')
  BY <1>1, <1>3, <1>4, <1>5, FloorGoesOn
<1>7. DataTyped'
  BY SameSetting, Others DEF Typed, DataTyped, PointEventStart, pending, triggers, offers, links, solving, fixed
<1>8. Facts(f)'
  <2> USE <1>1, <1>2, <1>3, <1>6 DEF Facts, PointEventStart, pending, triggers,
        offers, links, solving, fixed, At, Front
  <2>1. ListsEmpty(f)' BY DEF ListsEmpty
  <2>2. ChainEmpty(f)' /\ ChainThere(f)' BY DEF ChainEmpty, ChainThere, Resting, IsAt
  <2>3. NewChains(f)' BY DEF NewChains, Floor, Trigger, Asks
  <2>4. Passes' BY DEF Passes, Keeps, IsAt
  <2>5. IgnitionOpen(f)' BY DEF IgnitionOpen, IsAt
  <2> QED BY <2>1, <2>2, <2>3, <2>4, <2>5
<1> QED BY <1>6, <1>7, <1>8 DEF Typed, Control


LEMMA PointEventForcedStep ==
  ASSUME Typed, Control, PointEventForced
  PROVE  Typed' /\ Control'
<1>1. units # <<>> /\ Front.kind = "PointEvent" /\ Front.step = 2
  BY DEF PointEventForced, At
<1>2. Facts(Front) BY <1>1, FloorFront
<1>3. DataTyped'
  <2>1. CASE UNCHANGED <<new_chains, chaining>> /\ new_fchain_s' \in SUBSET new_fchain_s
    BY <2>1, SameSetting DEF Typed, DataTyped, PointEventForced, triggers, offers, solving, fixed
  <2>2. ASSUME NEW left \in SUBSET new_fchain_s, NEW c \in Selectable(left),
               Choose(c), new_fchain_s' = Without(left, c)
        PROVE  DataTyped'
    <3>1. left \subseteq AnyLink /\ left \subseteq Forced
      BY KindTypes DEF Typed, DataTyped
    <3>2. c \in AnyLink BY <3>1, Others
    <3>3. new_chains' \in Seq(AnyLink) /\ chaining' \subseteq Nat
      BY <2>2, <3>2, ChooseTyped
    <3>4. new_fchain_s' \subseteq Forced BY <2>2, <3>1 DEF Without
    <3> QED
      BY <3>3, <3>4, SameSetting DEF Typed, DataTyped, PointEventForced, triggers, offers, solving, fixed
  <2> QED BY <2>1, <2>2 DEF PointEventForced
<1>4. ASSUME NEW left \in SUBSET new_fchain_s, new_fchain_s' = left, GoOn(3, <<>>),
             UNCHANGED <<new_chains, chaining>>
      PROVE  units' \in Seq(UnitType) /\ Control'
  <2>1. PICK f : f = [Front EXCEPT !.step = 3] OBVIOUS
  <2>2. f.kind = "PointEvent" /\ f.step = 3 /\ Floor(f)
    BY <1>1, <2>1, FrontType DEF Typed, UnitType, Floor
  <2>3. /\ units' \in Seq(UnitType) /\ units' # <<>> /\ Front' = f
        /\ f \in UnitType /\ Shape(units', f) /\ ~HasAdjust(units')
    BY <1>1, <1>4, <2>1, <2>2, FloorGoesOn
  <2>4. Facts(f)'
    <3> USE <1>1, <1>2, <1>4, <2>2, <2>3 DEF Facts, Keeps, Asks, Resting, IsAt,
          PointEventForced, triggers, pending, links, offers, solving, fixed, At,
          Front
    <3>1. ListsEmpty(f)' BY DEF ListsEmpty, Floor
    <3>2. ChainEmpty(f)' /\ ChainThere(f)' BY DEF ChainEmpty, ChainThere
    <3>3. NewChains(f)' BY DEF NewChains, Floor, Trigger
    <3>4. Passes' BY DEF Passes
    <3>5. IgnitionOpen(f)' BY DEF IgnitionOpen
    <3> QED BY <3>1, <3>2, <3>3, <3>4, <3>5
  <2> QED BY <2>3, <2>4 DEF Control
<1>5. ASSUME NEW left \in SUBSET new_fchain_s, NEW c \in Selectable(left),
             Choose(c), GoOn(2, <<AddChain>>)
      PROVE  units' \in Seq(UnitType) /\ Control'
  <2>1. PICK f : f = [Front EXCEPT !.step = 2] OBVIOUS
  <2>2. f.kind = "PointEvent" /\ f.step = 2 /\ Floor(f) /\ Asks(f)
    BY <1>1, <2>1, FrontType DEF Typed, UnitType, Floor, Asks
  <2>3. AddChain \in UnitType /\ IsAt(AddChain, "AddChain", 0)
    BY UnitTypes DEF IsAt, AddChain, Unit
  <2>4. /\ units' \in Seq(UnitType) /\ units' # <<>> /\ Front' = AddChain
        /\ f \in UnitType /\ Shape(units', f) /\ ~HasAdjust(units')
    BY <1>1, <1>5, <2>1, <2>2, <2>3, FloorPushes DEF IsAt
  <2>5. c.kind = "forced" BY Others, KindTypes DEF Typed, DataTyped
  <2>6. Len(new_chains') = 1 /\ new_chains'[1] = c
    BY <1>1, <1>2, <1>5 DEF Choose, Facts, NewChains, Floor
  <2>7. Facts(f)'
    <3> USE <1>1, <1>2, <1>5, <2>2, <2>3, <2>4, <2>5, <2>6 DEF Facts, Keeps, Asks,
          Resting, IsAt, PointEventForced, triggers, pending, links, offers,
          solving, fixed, At, Front
    <3>1. ListsEmpty(f)' BY DEF ListsEmpty, Floor
    <3>2. ChainEmpty(f)' /\ ChainThere(f)' BY DEF ChainEmpty, ChainThere
    <3>3. NewChains(f)' BY DEF NewChains, Floor, Trigger
    <3>4. Passes' BY DEF Passes
    <3>5. IgnitionOpen(f)' BY DEF IgnitionOpen
    <3> QED BY <3>1, <3>2, <3>3, <3>4, <3>5
  <2> QED BY <2>4, <2>7 DEF Control
<1> QED BY <1>3, <1>4, <1>5 DEF PointEventForced, Typed


LEMMA PointEventOptionalStep ==
  ASSUME Typed, Control, PointEventOptional
  PROVE  Typed' /\ Control'
<1>1. units # <<>> /\ Front.kind = "PointEvent" /\ Front.step = 4
  BY DEF PointEventOptional, At
<1>2. Facts(Front) BY <1>1, FloorFront
<1>3. PICK left \in SUBSET new_ochain_s : \E gone \in SUBSET {c \in left : c.kind = "hidden"} :
        LET hidden == {c \in left : c.kind = "hidden"}
            list == left \ gone
            mine == Selectable(list)
            kept == IF duel_options.non_public /\ mine # {} THEN {} ELSE new_ochain_h \cup hidden
        IN \/ /\ new_ochain_s' = list \ mine
              /\ new_ochain_h' = kept
              /\ GoOn(6, <<>>) \/ GoOn(4, <<>>)
              /\ UNCHANGED <<new_chains, chaining>>
           \/ \E c \in mine :
               /\ Choose(c)
               /\ new_ochain_s' = Without(list, c)
               /\ new_ochain_h' = Without(kept, c)
               /\ GoOn(4, <<AddChain>>)
  BY Zenon DEF PointEventOptional
<1>4. PICK gone \in SUBSET {c \in left : c.kind = "hidden"} :
        LET hidden == {c \in left : c.kind = "hidden"}
            list == left \ gone
            mine == Selectable(list)
            kept == IF duel_options.non_public /\ mine # {} THEN {} ELSE new_ochain_h \cup hidden
        IN \/ /\ new_ochain_s' = list \ mine
              /\ new_ochain_h' = kept
              /\ GoOn(6, <<>>) \/ GoOn(4, <<>>)
              /\ UNCHANGED <<new_chains, chaining>>
           \/ \E c \in mine :
               /\ Choose(c)
               /\ new_ochain_s' = Without(list, c)
               /\ new_ochain_h' = Without(kept, c)
               /\ GoOn(4, <<AddChain>>)
  BY <1>3
<1> DEFINE hidden == {c \in left : c.kind = "hidden"}
           list == left \ gone
           mine == Selectable(list)
           kept == IF duel_options.non_public /\ mine # {} THEN {} ELSE new_ochain_h \cup hidden
<1>5. \/ /\ new_ochain_s' = list \ mine
         /\ new_ochain_h' = kept
         /\ GoOn(6, <<>>) \/ GoOn(4, <<>>)
         /\ UNCHANGED <<new_chains, chaining>>
      \/ \E c \in mine :
           /\ Choose(c)
           /\ new_ochain_s' = Without(list, c)
           /\ new_ochain_h' = Without(kept, c)
           /\ GoOn(4, <<AddChain>>)
  BY <1>4
<1>6. left \subseteq AnyLink /\ left \subseteq Optional /\ list \subseteq left
  BY KindTypes DEF Typed, DataTyped
<1>7. mine \subseteq list BY <1>6, Others
<1>8. kept \subseteq Hidden BY <1>6, KindTypes DEF Typed, DataTyped
<1> HIDE DEF mine, kept, list
<1>9. DataTyped'
  <2>1. new_ochain_s' \subseteq Optional /\ new_ochain_h' \subseteq Hidden
    BY <1>5, <1>6, <1>8 DEF Without
  <2>2. new_chains' \in Seq(AnyLink) /\ chaining' \subseteq Nat
    <3>1. CASE UNCHANGED <<new_chains, chaining>> BY <3>1 DEF Typed, DataTyped
    <3>2. ASSUME NEW c \in mine, Choose(c)
          PROVE  new_chains' \in Seq(AnyLink) /\ chaining' \subseteq Nat
      BY <1>6, <1>7, <3>2, ChooseTyped
    <3> QED BY <1>5, <3>1, <3>2
  <2> QED
    BY <2>1, <2>2, SameSetting DEF Typed, DataTyped, PointEventOptional, triggers, solving, fixed
<1>10. ASSUME NEW s \in {4, 6}, GoOn(s, <<>>), UNCHANGED <<new_chains, chaining>>
       PROVE  units' \in Seq(UnitType) /\ Control'
  <2>1. PICK f : f = [Front EXCEPT !.step = s] OBVIOUS
  <2>2. f.kind = "PointEvent" /\ f.step = s /\ Floor(f)
    BY <1>1, <2>1, FrontType DEF Typed, UnitType, Floor
  <2>3. /\ units' \in Seq(UnitType) /\ units' # <<>> /\ Front' = f
        /\ f \in UnitType /\ Shape(units', f) /\ ~HasAdjust(units')
    BY <1>1, <1>10, <2>1, <2>2, FloorGoesOn
  <2>4. Facts(f)'
    <3> USE <1>1, <1>2, <1>10, <2>2, <2>3 DEF Facts, Keeps, Asks, Resting, IsAt,
          PointEventOptional, triggers, pending, links, offers, solving, fixed, At,
          Front
    <3>1. ListsEmpty(f)' BY DEF ListsEmpty, Floor
    <3>2. ChainEmpty(f)' /\ ChainThere(f)' BY DEF ChainEmpty, ChainThere
    <3>3. NewChains(f)' BY DEF NewChains, Floor, Trigger
    <3>4. Passes' BY DEF Passes
    <3>5. IgnitionOpen(f)' BY DEF IgnitionOpen
    <3> QED BY <3>1, <3>2, <3>3, <3>4, <3>5
  <2> QED BY <2>3, <2>4 DEF Control
<1>11. ASSUME NEW c \in mine, Choose(c), GoOn(4, <<AddChain>>)
       PROVE  units' \in Seq(UnitType) /\ Control'
  <2>1. PICK f : f = [Front EXCEPT !.step = 4] OBVIOUS
  <2>2. f.kind = "PointEvent" /\ f.step = 4 /\ Floor(f) /\ Asks(f)
    BY <1>1, <2>1, FrontType DEF Typed, UnitType, Floor, Asks
  <2>3. AddChain \in UnitType /\ IsAt(AddChain, "AddChain", 0)
    BY UnitTypes DEF IsAt, AddChain, Unit
  <2>4. /\ units' \in Seq(UnitType) /\ units' # <<>> /\ Front' = AddChain
        /\ f \in UnitType /\ Shape(units', f) /\ ~HasAdjust(units')
    BY <1>1, <1>11, <2>1, <2>2, <2>3, FloorPushes DEF IsAt
  <2>5. c.kind \in {"optional", "hidden"} BY <1>6, <1>7, KindTypes
  <2>6. Len(new_chains') = 1 /\ new_chains'[1] = c
    BY <1>1, <1>2, <1>11 DEF Choose, Facts, NewChains, Floor
  <2>7. Facts(f)'
    <3> USE <1>1, <1>2, <1>11, <2>2, <2>3, <2>4, <2>5, <2>6 DEF Facts, Keeps, Asks,
          Resting, IsAt, PointEventOptional, triggers, pending, links, offers,
          solving, fixed, At, Front
    <3>1. ListsEmpty(f)' BY DEF ListsEmpty, Floor
    <3>2. ChainEmpty(f)' /\ ChainThere(f)' BY DEF ChainEmpty, ChainThere
    <3>3. NewChains(f)' BY DEF NewChains, Floor, Trigger
    <3>4. Passes' BY DEF Passes
    <3>5. IgnitionOpen(f)' BY DEF IgnitionOpen
    <3> QED BY <3>1, <3>2, <3>3, <3>4, <3>5
  <2> QED BY <2>4, <2>7 DEF Control
<1> QED BY <1>5, <1>9, <1>10, <1>11 DEF Typed

(* Steps 3 and 6 go on with the other player, or with what comes next. *)
LEMMA PointEventNextPlayerStep ==
  ASSUME Typed, Control, PointEventNextPlayer
  PROVE  Typed' /\ Control'
<1>1. /\ units # <<>> /\ Front.kind = "PointEvent" /\ Front.step \in {3, 6}
      /\ Front.step = 3 => NextPlayer(new_fchain_s, 2, 4)
      /\ Front.step = 6 => NextPlayer(new_ochain_s, 4, 9)
  BY DEF PointEventNextPlayer, At
<1>2. Facts(Front) BY <1>1, FloorFront
<1>3. DataTyped'
  BY <1>1, Others, SameSetting DEF Typed, DataTyped, PointEventNextPlayer, NextPlayer, triggers, offers, links,
     solving, fixed
<1>4. PICK s \in {2, 4, 9} : /\ GoOn(s, <<>>)
                             /\ s = 2 => Front.step = 3
                             /\ s = 4 => Front.step = 6 \/ new_fchain_s = {}
                             /\ s = 9 => Front.step = 6 /\ new_ochain_s = {}
  BY <1>1 DEF NextPlayer
<1>5. PICK f : f = [Front EXCEPT !.step = s] OBVIOUS
<1>6. f.kind = "PointEvent" /\ f.step = s /\ Floor(f)
  BY <1>1, <1>5, FrontType DEF Typed, UnitType, Floor
<1>7. /\ units' \in Seq(UnitType) /\ units' # <<>> /\ Front' = f
      /\ f \in UnitType /\ Shape(units', f) /\ ~HasAdjust(units')
  BY <1>1, <1>4, <1>5, <1>6, FloorGoesOn
<1>8. Facts(f)'
  <2> USE <1>1, <1>2, <1>4, <1>6, <1>7 DEF Facts, Keeps, Asks, Resting, IsAt,
        PointEventNextPlayer, triggers, pending, links, offers, solving, fixed, At,
        Front
  <2>1. ListsEmpty(f)' BY DEF ListsEmpty, Floor
  <2>2. ChainEmpty(f)' /\ ChainThere(f)' BY DEF ChainEmpty, ChainThere
  <2>3. NewChains(f)' BY DEF NewChains, Floor, Trigger
  <2>4. Passes' BY DEF Passes
  <2>5. IgnitionOpen(f)' BY DEF IgnitionOpen
  <2> QED BY <2>1, <2>2, <2>3, <2>4, <2>5
<1> QED BY <1>3, <1>7, <1>8 DEF Typed, Control

LEMMA PointEventQuickStep ==
  ASSUME Typed, Control, PointEventQuick
  PROVE  Typed' /\ Control'
<1>1. units # <<>> /\ Front.kind = "PointEvent" /\ Front.step = 9
  BY DEF PointEventQuick, At
<1>2. Facts(Front) BY <1>1, FloorFront
<1>3. DataTyped'
  BY SameSetting DEF Typed, DataTyped, PointEventQuick, IgnitionPriority, triggers, pending, links,
     solving, fixed
<1>4. PICK f : f = [Front EXCEPT !.step = 10] OBVIOUS
<1>5. f.kind = "PointEvent" /\ f.step = 10 /\ Floor(f) /\ Keeps(f)
  BY <1>1, <1>4, FrontType DEF Typed, UnitType, Floor, Keeps, IsAt
<1>6. CASE current_chain = <<>> /\ hand_adjusted
  <2>1. GoOn(10, <<>>) BY <1>6 DEF PointEventQuick
  <2>2. /\ units' \in Seq(UnitType) /\ units' # <<>> /\ Front' = f
        /\ f \in UnitType /\ Shape(units', f) /\ ~HasAdjust(units')
    BY <1>1, <1>4, <1>5, <2>1, FloorGoesOn
  <2>3. ~ignition_priority_chains'
    BY <1>1, <1>2, <1>6 DEF PointEventQuick, IgnitionPriority, Facts, IgnitionOpen, IsAt, Typed, DataTyped
  <2>4. Facts(f)'
    <3> USE <1>1, <1>2, <1>5, <1>6, <2>2, <2>3 DEF Facts, Keeps, Asks, Resting,
          IsAt, PointEventQuick, triggers, pending, links, offers, solving, fixed,
          At, Front
    <3>1. ListsEmpty(f)' BY DEF ListsEmpty, Floor
    <3>2. ChainEmpty(f)' /\ ChainThere(f)' BY DEF ChainEmpty, ChainThere
    <3>3. NewChains(f)' BY DEF NewChains, Floor, Trigger
    <3>4. Passes' BY DEF Passes
    <3>5. IgnitionOpen(f)' BY DEF IgnitionOpen
    <3> QED BY <3>1, <3>2, <3>3, <3>4, <3>5
  <2> QED BY <1>3, <2>2, <2>4 DEF Typed, Control
<1>7. CASE ~(current_chain = <<>> /\ hand_adjusted)
  <2>1. Front.skips \in Skips /\ \A p \in Players : Opponent(p) \in Players
    BY <1>1, FrontType, UnitTypes DEF Typed
  <2>2. current_chain # <<>> => Last.player \in Players BY LastTyped DEF AnyLink
  <2>3. PICK p \in Players : GoOn(10, <<QuickEffect(0, Front.skips, p)>>)
    <3>1. turn_player \in Players BY ConstantsAssumption
    <3> QED BY <1>7, <2>1, <2>2, <3>1 DEF PointEventQuick
  <2>4. PICK q \in UnitType : q = QuickEffect(0, Front.skips, p) BY <2>1, UnitTypes
  <2>5. IsAt(q, "QuickEffect", 0) BY <2>4 DEF QuickEffect, Unit, IsAt
  <2>6. /\ units' \in Seq(UnitType) /\ units' # <<>> /\ Front' = q
        /\ f \in UnitType /\ Shape(units', f) /\ ~HasAdjust(units')
    BY <1>1, <1>4, <1>5, <2>3, <2>4, <2>5, FloorPushes DEF IsAt
  <2>7. Facts(f)'
    <3> USE <1>1, <1>2, <1>5, <2>5, <2>6 DEF Facts, Keeps, Asks, Resting, IsAt,
          PointEventQuick, triggers, pending, links, offers, solving, fixed, At,
          Front
    <3>1. ListsEmpty(f)' BY DEF ListsEmpty, Floor
    <3>2. ChainEmpty(f)' /\ ChainThere(f)' BY DEF ChainEmpty, ChainThere
    <3>3. NewChains(f)' BY DEF NewChains, Floor, Trigger
    <3>4. Passes' BY DEF Passes
    <3>5. IgnitionOpen(f)' BY DEF IgnitionOpen
    <3> QED BY <3>1, <3>2, <3>3, <3>4, <3>5
  <2> QED BY <1>3, <2>6, <2>7 DEF Typed, Control
<1> QED BY <1>6, <1>7


LEMMA ReleaseTyped ==
  ASSUME Typed, ReleaseChaining
  PROVE  chaining' \subseteq Nat
BY DEF Typed, DataTyped, ReleaseChaining

LEMMA PointEventEndStep ==
  ASSUME Typed, Control, PointEventEnd
  PROVE  Typed' /\ Control'
<1>1. units # <<>> /\ Front.kind = "PointEvent" /\ Front.step = 10
  BY DEF PointEventEnd, At
<1>2. Facts(Front) BY <1>1, FloorFront
<1>3. DataTyped'
  BY ReleaseTyped, SameSetting DEF Typed, DataTyped, PointEventEnd, triggers, pending, solving, fixed
<1>4. CASE current_chain = <<>>
  <2>1. Finish(<<>>) BY <1>4 DEF PointEventEnd
  <2>2. PICK w \in UnitType :
          /\ Resting(w) /\ Shape(units', w) /\ (units' # <<>> => Front' = w)
          /\ units' \in Seq(UnitType) /\ ~HasAdjust(units')
    BY <1>1, <2>1, FloorEnds
  <2>3. Chosen' = <<>>
    BY <1>1, <1>2, <1>4 DEF PointEventEnd, Chosen, Facts, NewChains, Floor
  <2>4. Facts(w)'
    <3> USE <1>1, <1>2, <1>4, <2>2, <2>3 DEF Facts, Keeps, Asks, Resting, IsAt,
          PointEventEnd, triggers, pending, links, offers, solving, fixed, At, Front
    <3>1. ListsEmpty(w)' BY DEF ListsEmpty, Floor
    <3>2. ChainEmpty(w)' /\ ChainThere(w)' BY DEF ChainEmpty, ChainThere
    <3>3. NewChains(w)' BY DEF NewChains, Floor, Trigger
    <3>4. Passes' BY DEF Passes
    <3>5. IgnitionOpen(w)' BY DEF IgnitionOpen
    <3> QED BY <3>1, <3>2, <3>3, <3>4, <3>5
  <2> QED BY <1>3, <2>2, <2>4 DEF Typed, Control
<1>5. CASE current_chain # <<>>
  <2>1. PICK f \in UnitType : f = SolveChain(Front.skips)
    BY <1>1, FrontType, UnitTypes DEF Typed
  <2>2. f.kind = "SolveChain" /\ f.step = 0 /\ Floor(f)
    BY <2>1 DEF SolveChain, Unit, Floor
  <2>3. Finish(<<f>>) BY <1>5, <2>1 DEF PointEventEnd
  <2>4. /\ units' \in Seq(UnitType) /\ units' # <<>> /\ Front' = f
        /\ Shape(units', f) /\ ~HasAdjust(units')
    BY <1>1, <2>2, <2>3, FloorReplaced
  <2>5. Facts(f)'
    <3> USE <1>1, <1>2, <1>5, <2>2, <2>4 DEF Facts, Keeps, Asks, Resting, IsAt,
          PointEventEnd, triggers, pending, links, offers, solving, fixed, At, Front
    <3>1. ListsEmpty(f)' BY DEF ListsEmpty, Floor
    <3>2. ChainEmpty(f)' /\ ChainThere(f)' BY DEF ChainEmpty, ChainThere
    <3>3. NewChains(f)' BY DEF NewChains, Floor, Trigger
    <3>4. Passes' BY DEF Passes
    <3>5. IgnitionOpen(f)' BY DEF IgnitionOpen
    <3> QED BY <3>1, <3>2, <3>3, <3>4, <3>5
  <2> QED BY <1>3, <2>4, <2>5 DEF Typed, Control
<1> QED BY <1>4, <1>5

(* SolveChain goes on to a step at which there is a chain. *)
LEMMA SolveGoesOn ==
  ASSUME Typed, Control, units # <<>>, Front.kind = "SolveChain", Front.step \in {0, 1, 2, 5},
         NEW s \in {1, 2, 5, 10}, GoOn(s, <<>>), current_chain' # <<>>,
         UNCHANGED <<pending, offers, new_chains, priorities, passed>>
  PROVE  units' \in Seq(UnitType) /\ Control'
<1>1. Facts(Front) BY FloorFront
<1>2. PICK f : f = [Front EXCEPT !.step = s] OBVIOUS
<1>3. f.kind = "SolveChain" /\ f.step = s /\ Floor(f)
  BY <1>2, FrontType DEF Typed, UnitType, Floor
<1>4. /\ units' \in Seq(UnitType) /\ units' # <<>> /\ Front' = f
      /\ f \in UnitType /\ Shape(units', f) /\ ~HasAdjust(units')
  BY <1>2, <1>3, FloorGoesOn
<1>5. Facts(f)'
  <2> USE <1>1, <1>3, <1>4 DEF Facts, Keeps, Asks, Resting, IsAt, triggers, pending,
        links, offers, solving, fixed, At, Front
  <2>1. ListsEmpty(f)' BY DEF ListsEmpty, Floor
  <2>2. ChainEmpty(f)' /\ ChainThere(f)' BY DEF ChainEmpty, ChainThere
  <2>3. NewChains(f)' BY DEF NewChains, Floor, Trigger
  <2>4. Passes' BY DEF Passes
  <2>5. IgnitionOpen(f)' BY DEF IgnitionOpen
  <2> QED BY <2>1, <2>2, <2>3, <2>4, <2>5
<1> QED BY <1>4, <1>5 DEF Control

LEMMA SolveChainSteps ==
  ASSUME Typed, Control, SolveActivating \/ SolveNegated \/ SolveStart \/ SolveOperation \/ SolveEnd
  PROVE  Typed' /\ Control'
<1>1. /\ units # <<>> /\ Front.kind = "SolveChain" /\ Front.step \in {0, 1, 2, 5}
      /\ Front.step = 0 => current_chain # <<>>
  BY DEF SolveActivating, SolveNegated, SolveStart, SolveOperation, SolveEnd, At
<1>2. current_chain # <<>> BY <1>1, NotEmpty DEF At
<1>3. Len(current_chain) \in Nat \ {0} /\ Last.chain_count \in Nat BY <1>2, LastTyped
<1>4. /\ current_chain' \in Seq(AnyLink) /\ current_chain' # <<>>
  <2>1. CASE Negate
    <3>1. current_chain' \in Seq(AnyLink) /\ Len(current_chain') = Len(current_chain)
      BY <2>1, NegateTyped
    <3> QED BY <1>3, <3>1, EmptySeq
  <2>2. CASE current_chain' = current_chain BY <1>2, <2>2 DEF Typed, DataTyped
  <2> QED
    BY <2>1, <2>2 DEF SolveActivating, SolveNegated, SolveStart, SolveOperation, SolveEnd, links
<1>5. PICK s \in {1, 2, 5, 10} : GoOn(s, <<>>)
  BY DEF SolveActivating, SolveNegated, SolveStart, SolveOperation, SolveEnd
<1>6. UNCHANGED <<pending, offers, new_chains, priorities, passed>>
  BY DEF SolveActivating, SolveNegated, SolveStart, SolveOperation, SolveEnd, links
<1>7. units' \in Seq(UnitType) /\ Control' BY <1>1, <1>4, <1>5, <1>6, SolveGoesOn
<1>8. /\ new_fchain' \subseteq Forced /\ new_ochain' \subseteq Optional
      /\ quick_f_chain' \subseteq Quick /\ next_id' \in 1 .. MaxLinks + 1
      /\ started' \in Nat
  <2>0. started \in Nat BY DEF Typed, DataTyped
  <2>1. PICK fc, oc, now : /\ fc \subseteq new_fchain /\ oc \subseteq new_ochain
                           /\ now \in Nat /\ RaiseAt(fc, oc, 0, now) /\ started' \in Nat
    <3>1. CASE SolveActivating \/ SolveOperation \/ SolveEnd
      BY <2>0, <3>1 DEF SolveActivating, SolveOperation, SolveEnd, Raise, solving
    <3>2. CASE SolveNegated
      <4>1. NotCausedBy(new_fchain, Last) \subseteq new_fchain /\ NotCausedBy(new_ochain, Last) \subseteq new_ochain
        BY DEF NotCausedBy
      <4> QED BY <2>0, <3>2, <4>1 DEF SolveNegated, Raise, solving
    <3>3. CASE SolveStart BY <2>0, <3>3 DEF SolveStart, BreakEffect
    <3> QED BY <1>3, <3>1, <3>2, <3>3
  <2>2. fc \subseteq Forced /\ oc \subseteq Optional BY <2>1 DEF Typed, DataTyped
  <2> QED BY <2>1, <2>2, RaiseTyped
<1>9. /\ UNCHANGED fixed /\ chain_solving' \in BOOLEAN
      /\ UNCHANGED <<real_chain_count, chaining>>
  BY DEF SolveActivating, SolveNegated, SolveStart, SolveOperation, SolveEnd, links, solving,
     Typed, DataTyped
<1>10. DataTyped'
  BY <1>4, <1>6, <1>8, <1>9, SameSetting DEF Typed, DataTyped, pending, offers
<1> QED BY <1>7, <1>10 DEF Typed

LEMMA SolvePopStep ==
  ASSUME Typed, Control, SolvePop
  PROVE  Typed' /\ Control'
<1>1. units # <<>> /\ Front.kind = "SolveChain" /\ Front.step = 10 BY DEF SolvePop, At
<1>2. Facts(Front) /\ current_chain # <<>> BY <1>1, FloorFront, NotEmpty DEF At
<1>3. /\ Len(current_chain) \in Nat \ {0} /\ current_chain' \in Seq(AnyLink)
      /\ Len(current_chain') = Len(current_chain) - 1
  <2>1. /\ Len(current_chain) \in Nat \ {0}
        /\ SubSeq(current_chain, 1, Len(current_chain) - 1) \in Seq(AnyLink)
    BY <1>2, LastTyped
  <2>2. Len(SubSeq(current_chain, 1, Len(current_chain) - 1)) = Len(current_chain) - 1
    BY <1>2, WithoutLast DEF Typed, DataTyped
  <2> QED BY <2>1, <2>2 DEF SolvePop
<1>4. DataTyped'
  BY <1>3, SameSetting DEF Typed, DataTyped, SolvePop, triggers, pending, offers, solving, fixed
<1>5. PICK s \in {0, 11} : GoOn(s, <<Adjust>>) /\ (s = 0 <=> Len(current_chain) > 1)
  BY DEF SolvePop
<1>6. PICK f : f = [Front EXCEPT !.step = s] OBVIOUS
<1>7. /\ f.kind = "SolveChain" /\ f.step = s /\ Floor(f)
      /\ Resting(f) \/ IsAt(f, "SolveChain", 0)
  BY <1>1, <1>6, FrontType DEF Typed, UnitType, Floor, Resting, IsAt
<1>8. Adjust \in UnitType /\ IsAt(Adjust, "Adjust", 0)
  BY UnitTypes DEF IsAt, Adjust, Unit
<1>9. /\ units' \in Seq(UnitType) /\ units' # <<>> /\ Front' = Adjust
      /\ f \in UnitType /\ Shape(units', f) /\ HasAdjust(units')
  BY <1>1, <1>5, <1>6, <1>7, <1>8, FloorPushes DEF IsAt
<1>10. s = 0 => current_chain' # <<>> BY <1>3, <1>5
<1>11. s = 11 => Chosen' = <<>>
  <2>1. ASSUME s = 11
        PROVE  current_chain' = <<>>
    BY <1>3, <1>5, <2>1, EmptySeq
  <2>2. new_chains' = <<>> BY <1>1, <1>2 DEF SolvePop, Facts, NewChains, Floor
  <2> QED BY <2>1, <2>2 DEF Chosen
<1>12. Facts(f)'
  <2> USE <1>1, <1>2, <1>7, <1>8, <1>9, <1>10, <1>11 DEF Facts, Keeps, Asks,
        Resting, IsAt, SolvePop, triggers, pending, links, offers, solving, fixed,
        At, Front
  <2>1. ListsEmpty(f)' BY DEF ListsEmpty, Floor
  <2>2. ChainEmpty(f)' /\ ChainThere(f)' BY DEF ChainEmpty, ChainThere
  <2>3. NewChains(f)' BY DEF NewChains, Floor, Trigger
  <2>4. Passes' BY DEF Passes
  <2>5. IgnitionOpen(f)' BY DEF IgnitionOpen
  <2> QED BY <2>1, <2>2, <2>3, <2>4, <2>5
<1> QED BY <1>4, <1>9, <1>12 DEF Typed, Control

LEMMA SolveLastStep ==
  ASSUME Typed, Control, SolveLast
  PROVE  Typed' /\ Control'
<1>1. units # <<>> /\ Front.kind = "SolveChain" /\ Front.step = 11 BY DEF SolveLast, At
<1>2. Facts(Front) /\ Rest(Tail(units)) /\ ~HasAdjust(Tail(units)) /\ Tail(units) \in Seq(UnitType)
  BY <1>1, FloorFront
<1>3. DataTyped'
  <2>1. /\ new_fchain' \subseteq Forced /\ new_ochain' \subseteq Optional
        /\ quick_f_chain' \subseteq Quick /\ next_id' \in 1 .. MaxLinks + 1
    BY RaiseTyped DEF SolveLast, Raise, Typed, DataTyped
  <2> QED
    BY <2>1, SameSetting DEF Typed, DataTyped, SolveLast, pending, links, offers, solving, fixed
<1>4. Adjust \in UnitType /\ IsAt(Adjust, "Adjust", 0)
  BY UnitTypes DEF IsAt, Adjust, Unit
<1>5. /\ units' \in Seq(UnitType) /\ units' # <<>> /\ Front' = Adjust
      /\ \E w \in UnitType : Resting(w) /\ Shape(units', w)
  <2> DEFINE s == Front.skips
             g == [s EXCEPT !.skip_freechain = @ \/ s.skip_new]
  <2>1. s \in Skips /\ g \in Skips BY <1>1, FrontType DEF Typed, Skips
  <2>2. CASE s.skip_trigger /\ s.skip_new
    <3>1. Finish(<<Adjust>> \o <<>>) BY <2>2 DEF SolveLast
    <3>2. Finish(<<Adjust>>) BY <3>1
    <3> QED BY <1>1, <1>4, <3>2, FloorReplaced
  <2>3. CASE ~(s.skip_trigger /\ s.skip_new)
    <3>1. Finish(<<Adjust>> \o <<PointEvent(g)>>) BY <2>3 DEF SolveLast
    <3>2. PICK e \in UnitType : e = PointEvent(g) BY <2>1, UnitTypes
    <3>3. Finish(<<Adjust, e>>) BY <1>4, <3>1, <3>2, Pair, Zenon
    <3>4. Resting(e) BY <3>2 DEF PointEvent, Unit, Resting, IsAt
    <3>5. units' = Push(Adjust, Push(e, Tail(units)))
      BY <1>1, <1>4, <3>3, Finishes DEF Typed
    <3>6. Push(e, Tail(units)) \in Seq(UnitType) /\ Paused(Push(e, Tail(units)), e)
      <4>1. Push(e, Tail(units)) \in Seq(UnitType) BY <1>2, PushUnit, Zenon
      <4>2. On(Push(e, Tail(units)), e) BY <1>2, OnPush
      <4> QED BY <3>4, <4>1, <4>2 DEF Paused
    <3>7. Shape(units', e) BY <1>4, <3>5, <3>6, ShapePush
    <3>8. units' \in Seq(UnitType) /\ units' # <<>> /\ Head(units') = Adjust
      BY <1>4, <3>5, <3>6, PushUnit, Zenon
    <3> QED BY <3>4, <3>7, <3>8 DEF Front
  <2> QED BY <2>2, <2>3
<1>6. PICK w \in UnitType : Resting(w) /\ Shape(units', w) BY <1>5
<1>7. Facts(w)'
  <2> USE <1>1, <1>2, <1>4, <1>5, <1>6 DEF Facts, Keeps, Asks, Resting, IsAt,
        SolveLast, triggers, pending, links, offers, solving, fixed, At, Front
  <2>1. ListsEmpty(w)' BY DEF ListsEmpty, Floor
  <2>2. ChainEmpty(w)' /\ ChainThere(w)' BY DEF ChainEmpty, Chosen, ChainThere
  <2>3. NewChains(w)' BY DEF NewChains, Floor, Trigger
  <2>4. Passes' BY DEF Passes
  <2>5. IgnitionOpen(w)' BY DEF IgnitionOpen
  <2> QED BY <2>1, <2>2, <2>3, <2>4, <2>5
<1> QED BY <1>3, <1>5, <1>6, <1>7 DEF Typed, Control


LEMMA ActivateSolveStep ==
  ASSUME Typed, Control, ActivateSolve
  PROVE  Typed' /\ Control'
<1>1. units # <<>> /\ Front.kind = "ActivateEffect" /\ Front.step = 1
  BY DEF ActivateSolve, At
<1>2. Facts(Front) BY <1>1, FloorFront
<1>3. DataTyped'
  BY ReleaseTyped, SameSetting DEF Typed, DataTyped, ActivateSolve, triggers, pending, offers, solving, fixed
<1>4. PICK f \in UnitType : f = SolveChain(NoSkip) BY UnitTypes
<1>5. f.kind = "SolveChain" /\ f.step = 0 /\ Floor(f)
  BY <1>4 DEF SolveChain, Unit, Floor
<1>6. Finish(<<f>>) BY <1>4 DEF ActivateSolve
<1>7. /\ units' \in Seq(UnitType) /\ units' # <<>> /\ Front' = f
      /\ Shape(units', f) /\ ~HasAdjust(units')
  BY <1>1, <1>5, <1>6, FloorReplaced
<1>8. Facts(f)'
  <2> USE <1>1, <1>2, <1>5, <1>7 DEF Facts, Keeps, Asks, Resting, IsAt,
        ActivateSolve, triggers, pending, links, offers, solving, fixed, At, Front
  <2>1. ListsEmpty(f)' BY DEF ListsEmpty, Floor
  <2>2. ChainEmpty(f)' /\ ChainThere(f)' BY DEF ChainEmpty, ChainThere
  <2>3. NewChains(f)' BY DEF NewChains, Floor, Trigger
  <2>4. Passes' BY DEF Passes
  <2>5. IgnitionOpen(f)' BY DEF IgnitionOpen
  <2> QED BY <2>1, <2>2, <2>3, <2>4, <2>5
<1> QED BY <1>3, <1>7, <1>8 DEF Typed, Control

LEMMA ActivateStep ==
  ASSUME Typed, Control, Activate
  PROVE  Typed' /\ Control'
<1>1. units # <<>> /\ Front.kind = "ActivateEffect" /\ Front.step = 0
  BY DEF Activate, At
<1>2. Facts(Front) BY <1>1, FloorFront
<1>3. CASE ~CanActivate /\ Finish(<<>>) /\ UNCHANGED <<links, priorities, next_id, passed>>
  <2>1. DataTyped'
    BY <1>3, SameSetting DEF Typed, DataTyped, Activate, links, pending, offers, solving, fixed
  <2>2. PICK w \in UnitType :
          /\ Resting(w) /\ Shape(units', w) /\ (units' # <<>> => Front' = w)
          /\ units' \in Seq(UnitType) /\ ~HasAdjust(units')
    BY <1>1, <1>3, FloorEnds
  <2>3. Facts(w)'
    <3> USE <1>1, <1>2, <1>3, <2>2 DEF Facts, Keeps, Asks, Resting, IsAt, Activate,
          triggers, pending, links, offers, solving, fixed, At, Front
    <3>1. ListsEmpty(w)' BY DEF ListsEmpty, Floor
    <3>2. ChainEmpty(w)' /\ ChainThere(w)' BY DEF ChainEmpty, Chosen, ChainThere
    <3>3. NewChains(w)' BY DEF NewChains, Floor, Trigger
    <3>4. Passes' BY DEF Passes
    <3>5. IgnitionOpen(w)' BY DEF IgnitionOpen
    <3> QED BY <3>1, <3>2, <3>3, <3>4, <3>5
  <2> QED BY <2>1, <2>2, <2>3 DEF Typed, Control
<1>4. ASSUME CanActivate, NEW p \in Players,
             Choose(Activation(p)), next_id' = next_id + 1,
             GoOn(1, <<AddChain, QuickEffect(0, NoSkip, Opponent(p))>>),
             ResetPriority, passed' = {}, UNCHANGED <<current_chain, real_chain_count>>
      PROVE  Typed' /\ Control'
  <2>1. DataTyped'
    <3>1. Activation(p) \in AnyLink /\ next_id' \in 1 .. MaxLinks + 1
      BY <1>4, ActivationTyped
    <3>2. new_chains' \in Seq(AnyLink) /\ chaining' \subseteq Nat
      BY <1>4, <3>1, ChooseTyped
    <3> QED
      BY <1>4, <3>1, <3>2, SameSetting DEF Typed, DataTyped, Activate, pending, offers, solving, fixed,
         ResetPriority
  <2>2. PICK f : f = [Front EXCEPT !.step = 1] OBVIOUS
  <2>3. f.kind = "ActivateEffect" /\ f.step = 1 /\ Floor(f) /\ Keeps(f)
    BY <1>1, <2>2, FrontType DEF Typed, UnitType, Floor, Keeps, IsAt
  <2>4. PICK q \in UnitType : q = QuickEffect(0, NoSkip, Opponent(p)) BY UnitTypes
  <2>5. IsAt(q, "QuickEffect", 0) BY <2>4 DEF QuickEffect, Unit, IsAt
  <2>6. /\ units' \in Seq(UnitType) /\ units' # <<>> /\ Front' = AddChain
        /\ f \in UnitType /\ Shape(units', f) /\ ~HasAdjust(units')
    BY <1>1, <1>4, <2>2, <2>3, <2>4, <2>5, FloorActivates
  <2>7. new_chains' # <<>> BY <1>4, ActivationTyped, ChooseTyped
  <2>8. AddChain.kind = "AddChain" /\ AddChain.step = 0 BY DEF AddChain, Unit
  <2>9. Facts(f)'
    <3> USE <1>1, <1>2, <1>4, <2>3, <2>6, <2>7, <2>8 DEF Facts, Keeps, Asks,
          Resting, IsAt, Activate, triggers, pending, links, offers, solving, fixed,
          At, Front
    <3>1. ListsEmpty(f)' BY DEF ListsEmpty, Floor
    <3>2. ChainEmpty(f)' /\ ChainThere(f)' BY DEF ChainEmpty, Chosen, ChainThere
    <3>3. NewChains(f)' BY DEF NewChains, Floor, Trigger
    <3>4. Passes' BY DEF Passes, ResetPriority
    <3>5. IgnitionOpen(f)' BY DEF IgnitionOpen
    <3> QED BY <3>1, <3>2, <3>3, <3>4, <3>5
  <2> QED BY <2>1, <2>6, <2>9 DEF Typed, Control
<1> QED BY <1>3, <1>4 DEF Activate

LEMMA IdleActivateStep ==
  ASSUME Typed, Control, IdleActivate
  PROVE  Typed' /\ Control'
<1>1. units # <<>> /\ Front.kind = "Idle" /\ Front.step = 0 BY DEF IdleActivate, At
<1>2. Facts(Front) BY <1>1, FloorFront
<1>3. turn_player \in Players BY ConstantsAssumption
<1>4. DataTyped'
  <2>1. Activation(turn_player) \in AnyLink /\ next_id' \in 1 .. MaxLinks + 1
    BY <1>3, ActivationTyped DEF IdleActivate
  <2>2. new_chains' \in Seq(AnyLink) /\ chaining' \subseteq Nat
    BY <2>1, ChooseTyped DEF IdleActivate
  <2> QED
    BY <2>1, <2>2, SameSetting DEF Typed, DataTyped, IdleActivate, pending, offers, solving, fixed,
       ResetPriority
<1>5. PICK f : f = [Front EXCEPT !.step = 2] OBVIOUS
<1>6. f.kind = "Idle" /\ f.step = 2 /\ Floor(f) /\ Keeps(f)
  BY <1>1, <1>5, FrontType DEF Typed, UnitType, Floor, Keeps, IsAt
<1>7. PICK q \in UnitType : q = QuickEffect(0, NoSkip, Opponent(turn_player))
  BY <1>3, UnitTypes
<1>8. IsAt(q, "QuickEffect", 0) BY <1>7 DEF QuickEffect, Unit, IsAt
<1>9. /\ units' \in Seq(UnitType) /\ units' # <<>> /\ Front' = AddChain
      /\ f \in UnitType /\ Shape(units', f) /\ ~HasAdjust(units')
  <2>1. GoOn(2, <<AddChain, q>>) BY <1>7 DEF IdleActivate
  <2> QED BY <1>1, <1>5, <1>6, <1>8, <2>1, FloorActivates
<1>10. new_chains' # <<>> BY <1>3, ActivationTyped, ChooseTyped DEF IdleActivate
<1>11. AddChain.kind = "AddChain" /\ AddChain.step = 0 BY DEF AddChain, Unit
<1>12. Facts(f)'
  <2> USE <1>1, <1>2, <1>6, <1>9, <1>10, <1>11 DEF Facts, Keeps, Asks, Resting,
        IsAt, IdleActivate, triggers, pending, links, offers, solving, fixed, At,
        Front
  <2>1. ListsEmpty(f)' BY DEF ListsEmpty, Floor
  <2>2. ChainEmpty(f)' /\ ChainThere(f)' BY DEF ChainEmpty, ChainThere
  <2>3. NewChains(f)' BY DEF NewChains, Floor, Trigger
  <2>4. Passes' BY DEF Passes, ResetPriority
  <2>5. IgnitionOpen(f)' BY DEF IgnitionOpen
  <2> QED BY <2>1, <2>2, <2>3, <2>4, <2>5
<1> QED BY <1>4, <1>9, <1>12 DEF Typed, Control

LEMMA IdleSolveStep ==
  ASSUME Typed, Control, IdleSolve \/ (IdleEnd /\ current_chain # <<>>)
  PROVE  Typed' /\ Control'
<1>1. /\ units # <<>> /\ Front.kind = "Idle" /\ Front.step \in {2, 10}
      /\ GoOn(0, <<SolveChain(NoSkip)>>) /\ ReleaseChaining
      /\ UNCHANGED <<triggers, pending, offers, new_chains, current_chain,
                     real_chain_count, priorities, solving, fixed, passed>>
  BY DEF IdleSolve, IdleEnd, At
<1>2. Facts(Front) BY <1>1, FloorFront
<1>3. DataTyped'
  BY <1>1, ReleaseTyped, SameSetting DEF Typed, DataTyped, triggers, pending, offers, solving, fixed
<1>4. PICK f : f = [Front EXCEPT !.step = 0] OBVIOUS
<1>5. f.kind = "Idle" /\ f.step = 0 /\ Floor(f) /\ Resting(f)
  BY <1>1, <1>4, FrontType DEF Typed, UnitType, Floor, Resting, IsAt
<1>6. PICK g \in UnitType : g = SolveChain(NoSkip) BY UnitTypes
<1>7. g.kind = "SolveChain" /\ g.step = 0 /\ Floor(g)
  BY <1>6 DEF SolveChain, Unit, Floor
<1>8. /\ units' \in Seq(UnitType) /\ units' # <<>> /\ Front' = g
      /\ Shape(units', g) /\ ~HasAdjust(units')
  BY <1>1, <1>4, <1>5, <1>6, <1>7, FloorPushes
<1>9. Facts(g)'
  <2> USE <1>1, <1>2, <1>7, <1>8 DEF Facts, Keeps, Asks, Resting, IsAt, triggers,
        pending, links, offers, solving, fixed, At, Front
  <2>1. ListsEmpty(g)' BY DEF ListsEmpty, Floor
  <2>2. ChainEmpty(g)' /\ ChainThere(g)' BY DEF ChainEmpty, ChainThere
  <2>3. NewChains(g)' BY DEF NewChains, Floor, Trigger
  <2>4. Passes' BY DEF Passes
  <2>5. IgnitionOpen(g)' BY DEF IgnitionOpen
  <2> QED BY <2>1, <2>2, <2>3, <2>4, <2>5
<1> QED BY <1>3, <1>8, <1>9 DEF Typed, Control

LEMMA IdleEventStep ==
  ASSUME Typed, Control, IdleEvent
  PROVE  Typed' /\ Control'
<1>1. units # <<>> /\ Front.kind = "Idle" /\ Front.step = 0 BY DEF IdleEvent, At
<1>2. Facts(Front) BY <1>1, FloorFront
<1>3. DataTyped'
  <2>1. /\ new_fchain' \subseteq Forced /\ new_ochain' \subseteq Optional
        /\ quick_f_chain' \subseteq Quick /\ next_id' \in 1 .. MaxLinks + 1
    BY RaiseTyped DEF IdleEvent, Raise, Typed, DataTyped
  <2> QED
    BY <2>1, SameSetting DEF Typed, DataTyped, IdleEvent, pending, links, offers, solving, fixed
<1>4. PICK f : f = [Front EXCEPT !.step = 0] OBVIOUS
<1>5. f.kind = "Idle" /\ f.step = 0 /\ Floor(f) /\ Resting(f)
  BY <1>1, <1>4, FrontType DEF Typed, UnitType, Floor, Resting, IsAt
<1>6. PICK s \in Skips : GoOn(0, <<PointEvent(s)>>)
  BY Settled DEF IdleEvent, Calls, AllSettings
<1>7. PICK g \in UnitType : g = PointEvent(s) BY UnitTypes
<1>8. g.kind = "PointEvent" /\ g.step = 0 /\ Floor(g)
  BY <1>7 DEF PointEvent, Unit, Floor
<1>9. /\ units' \in Seq(UnitType) /\ units' # <<>> /\ Front' = g
      /\ Shape(units', g) /\ ~HasAdjust(units')
  BY <1>1, <1>4, <1>5, <1>6, <1>7, <1>8, FloorPushes
<1>10. Facts(g)'
  <2> USE <1>1, <1>2, <1>8, <1>9 DEF Facts, Keeps, Asks, Resting, IsAt, IdleEvent,
        triggers, pending, links, offers, solving, fixed, At, Front
  <2>1. ListsEmpty(g)' BY DEF ListsEmpty, Floor
  <2>2. ChainEmpty(g)' /\ ChainThere(g)' BY DEF ChainEmpty, Chosen, ChainThere
  <2>3. NewChains(g)' BY DEF NewChains, Floor, Trigger
  <2>4. Passes' BY DEF Passes
  <2>5. IgnitionOpen(g)' BY DEF IgnitionOpen
  <2> QED BY <2>1, <2>2, <2>3, <2>4, <2>5
<1> QED BY <1>3, <1>9, <1>10 DEF Typed, Control

LEMMA IdleAnnounceStep ==
  ASSUME Typed, Control, IdleAnnounce
  PROVE  Typed' /\ Control'
<1>1. units # <<>> /\ Front.kind = "Idle" /\ Front.step = 0 BY DEF IdleAnnounce, At
<1>2. Facts(Front) BY <1>1, FloorFront
<1>3. turn_player \in Players BY ConstantsAssumption
<1>4. DataTyped'
  BY <1>3, SameSetting DEF Typed, DataTyped, IdleAnnounce, triggers, pending, links, offers, solving, fixed
<1>5. PICK f : f = [Front EXCEPT !.step = 10] OBVIOUS
<1>6. f.kind = "Idle" /\ f.step = 10 /\ Floor(f) /\ Keeps(f)
  BY <1>1, <1>5, FrontType DEF Typed, UnitType, Floor, Keeps, IsAt
<1>7. PICK q \in UnitType : q = QuickEffect(0, NoSkip, Opponent(turn_player))
  BY <1>3, UnitTypes
<1>8. IsAt(q, "QuickEffect", 0) BY <1>7 DEF QuickEffect, Unit, IsAt
<1>9. /\ units' \in Seq(UnitType) /\ units' # <<>> /\ Front' = q
      /\ f \in UnitType /\ Shape(units', f) /\ ~HasAdjust(units')
  <2>1. GoOn(10, <<q>>) BY <1>7 DEF IdleAnnounce
  <2> QED BY <1>1, <1>5, <1>6, <1>8, <2>1, FloorPushes DEF IsAt
<1>10. Facts(f)'
  <2> USE DEF IdleAnnounce, triggers, pending, links, offers, solving, fixed, At, Front
  <2>1. ListsEmpty(f)'
    BY <1>1, <1>2, <1>6, <1>8, <1>9 DEF Facts, ListsEmpty, Floor, Keeps, Asks, Resting, IsAt
  <2>2. ChainEmpty(f)' /\ ChainThere(f)'
    BY <1>1, <1>2, <1>6, <1>8, <1>9 DEF Facts, ChainEmpty, ChainThere, Resting, Keeps, Asks, IsAt
  <2>3. NewChains(f)'
    BY <1>1, <1>2, <1>6, <1>8, <1>9 DEF Facts, NewChains, Floor, Trigger, Asks, Keeps, Resting, IsAt
  <2>4. Passes'
    <3>1. \A p \in Players : priorities'[p] => p \in passed' BY Zenon
    <3> QED
      BY <1>1, <1>2, <1>6, <1>8, <1>9, <3>1 DEF Facts, Passes, Keeps, Asks, Resting, IsAt
  <2>5. IgnitionOpen(f)'
    BY <1>1, <1>2, <1>6, <1>8, <1>9 DEF Facts, IgnitionOpen, Keeps, Asks, Resting, IsAt
  <2> QED BY <2>1, <2>2, <2>3, <2>4, <2>5 DEF Facts
<1> QED BY <1>4, <1>9, <1>10 DEF Typed, Control

LEMMA IdleEndStep ==
  ASSUME Typed, Control, IdleEnd, current_chain = <<>>
  PROVE  Typed' /\ Control'
<1>1. /\ units # <<>> /\ Front.kind = "Idle" /\ Front.step = 10
      /\ Finish(<<>>) /\ UNCHANGED chaining
  BY DEF IdleEnd, At
<1>2. Facts(Front) BY <1>1, FloorFront
<1>3. DataTyped'
  BY <1>1, SameSetting DEF Typed, DataTyped, IdleEnd, triggers, pending, offers, solving, fixed
<1>4. PICK w \in UnitType :
        /\ Resting(w) /\ Shape(units', w) /\ (units' # <<>> => Front' = w)
        /\ units' \in Seq(UnitType) /\ ~HasAdjust(units')
  BY <1>1, FloorEnds
<1>5. Chosen' = <<>> BY <1>1, <1>2 DEF IdleEnd, Chosen, Facts, NewChains, Floor
<1>6. Facts(w)'
  <2> USE <1>1, <1>2, <1>4, <1>5 DEF Facts, Keeps, Asks, Resting, IsAt, IdleEnd,
        triggers, pending, links, offers, solving, fixed, At, Front
  <2>1. ListsEmpty(w)' BY DEF ListsEmpty, Floor
  <2>2. ChainEmpty(w)' /\ ChainThere(w)' BY DEF ChainEmpty, ChainThere
  <2>3. NewChains(w)' BY DEF NewChains, Floor, Trigger
  <2>4. Passes' BY DEF Passes
  <2>5. IgnitionOpen(w)' BY DEF IgnitionOpen
  <2> QED BY <2>1, <2>2, <2>3, <2>4, <2>5
<1> QED BY <1>3, <1>4, <1>6 DEF Typed, Control


-----------------------------------------------------------------------------
(* The steps of QuickEffect. *)

LEMMA QuickFront ==
  ASSUME Typed, units # <<>>, Front.kind = "QuickEffect", NEW w, Shape(units, w)
  PROVE  /\ Front.step \in {0, 1, 2} /\ Held(Tail(units), w) /\ Keeps(w)
         /\ Tail(units) \in Seq(UnitType) /\ ~HasAdjust(Tail(units))
         /\ Tail(units) # <<>> /\ Head(Tail(units)) = w
<1>1. units \in Seq(UnitType) BY DEF Typed
<1>2. Front.step \in {0, 1, 2} /\ Held(Tail(units), w) /\ Keeps(w)
  BY <1>1, ShapeKinds DEF Held
<1>3. Tail(units) \in Seq(UnitType) BY <1>1, FrontType
<1>4. On(Tail(units), w) /\ w.kind # "Adjust" BY <1>2 DEF Held, Keeps, IsAt
<1> QED BY <1>2, <1>3, <1>4, OnNoAdjust

LEMMA QuickBecomes ==
  ASSUME Typed, units # <<>>, Front.kind = "QuickEffect", NEW w, Shape(units, w),
         NEW a \in UnitType, a.kind = "QuickEffect", a.step \in {0, 1, 2},
         units' = Push(a, Tail(units))
  PROVE  /\ units' \in Seq(UnitType) /\ units' # <<>> /\ Front' = a
         /\ Shape(units', w) /\ ~HasAdjust(units')
<1>1. Held(Tail(units), w) /\ Tail(units) \in Seq(UnitType) /\ ~HasAdjust(Tail(units))
  BY QuickFront
<1>2. units' \in Seq(UnitType) /\ units' # <<>> /\ Head(units') = a
  BY <1>1, PushUnit, Zenon
<1>3. Shape(units', w) /\ ~HasAdjust(units') BY <1>1, ShapePush, HasAdjustPush
<1> QED BY <1>2, <1>3 DEF Front

LEMMA QuickChains ==
  ASSUME Typed, units # <<>>, Front.kind = "QuickEffect", NEW w, Shape(units, w),
         NEW b \in UnitType, IsAt(b, "QuickEffect", 0), Finish(<<AddChain, b>>)
  PROVE  /\ units' \in Seq(UnitType) /\ units' # <<>> /\ Front' = AddChain
         /\ Shape(units', w) /\ ~HasAdjust(units')
         /\ AddChain.kind = "AddChain" /\ AddChain.step = 0
<1>1. Held(Tail(units), w) /\ Tail(units) \in Seq(UnitType) /\ ~HasAdjust(Tail(units))
  BY QuickFront
<1>2. AddChain \in UnitType /\ AddChain.kind = "AddChain" /\ AddChain.step = 0
  BY UnitTypes DEF AddChain, Unit
<1>3. units' = Push(AddChain, Push(b, Tail(units))) BY <1>2, Finishes DEF Typed
<1>4. Push(b, Tail(units)) \in Seq(UnitType) BY <1>1, PushUnit, Zenon
<1>5. Layer(Push(b, Tail(units)), w) /\ ~HasAdjust(Push(b, Tail(units)))
  BY <1>1, LayerQuick, HasAdjustPush DEF IsAt
<1>6. units' \in Seq(UnitType) /\ units' # <<>> /\ Head(units') = AddChain
  BY <1>2, <1>3, <1>4, PushUnit, Zenon
<1>7. Shape(units', w) /\ ~HasAdjust(units')
  BY <1>2, <1>3, <1>4, <1>5, ShapePush, HasAdjustPush
<1> QED BY <1>2, <1>6, <1>7 DEF Front

LEMMA QuickEnds ==
  ASSUME Typed, units # <<>>, Front.kind = "QuickEffect", NEW w, Shape(units, w), Finish(<<>>)
  PROVE  /\ units' \in Seq(UnitType) /\ units' # <<>> /\ Front' = w
         /\ Shape(units', w) /\ ~HasAdjust(units')
<1>1. /\ Held(Tail(units), w) /\ Tail(units) \in Seq(UnitType) /\ ~HasAdjust(Tail(units))
      /\ Tail(units) # <<>> /\ Head(Tail(units)) = w
  BY QuickFront
<1>2. units' = Tail(units) BY UnitTypes, Finishes DEF Typed
<1>3. Shape(Tail(units), w) BY <1>1, ShapeLeft
<1> QED BY <1>1, <1>2, <1>3 DEF Front

LEMMA QuickForcedChosenStep ==
  ASSUME Typed, Control, QuickForcedChosen
  PROVE  Typed' /\ Control'
<1>1. units # <<>> /\ Front.kind = "QuickEffect" /\ Front.step = 0 /\ units' = units
  BY DEF QuickForcedChosen, At
<1>2. PICK w \in UnitType : Shape(units, w) /\ Facts(w) BY DEF Control
<1>3. Keeps(w) /\ Held(Tail(units), w) BY <1>1, <1>2, QuickFront
<1>4. PICK left \in SUBSET quick_f_chain, c \in quick_f_chain :
        Choose(c) /\ quick_f_chain' = Without(left, c)
  BY DEF QuickForcedChosen
<1>5. DataTyped'
  <2>1. c \in AnyLink /\ quick_f_chain' \subseteq Quick
    BY <1>4, KindTypes DEF Typed, DataTyped, Without
  <2>2. new_chains' \in Seq(AnyLink) /\ chaining' \subseteq Nat
    BY <1>4, <2>1, ChooseTyped
  <2> QED
    BY <2>1, <2>2, SameSetting DEF Typed, DataTyped, QuickForcedChosen, pending, offers, solving, fixed
<1>6. w.kind # "QuickEffect" /\ Front' = Front /\ Shape(units', w)
  BY <1>1, <1>2, <1>3 DEF Keeps, IsAt, Front
<1>7. Facts(w)'
  <2> USE <1>1, <1>2, <1>3, <1>6 DEF Facts, Keeps, Asks, Resting, IsAt,
        QuickForcedChosen, triggers, pending, links, offers, solving, fixed, At,
        Front
  <2>1. ListsEmpty(w)' BY DEF ListsEmpty, Floor
  <2>2. ChainEmpty(w)' /\ ChainThere(w)' BY DEF ChainEmpty, ChainThere
  <2>3. NewChains(w)' BY DEF NewChains, Floor, Trigger
  <2>4. Passes' BY DEF Passes
  <2>5. IgnitionOpen(w)' BY DEF IgnitionOpen
  <2> QED BY <2>1, <2>2, <2>3, <2>4, <2>5
<1> QED BY <1>1, <1>5, <1>6, <1>7 DEF Typed, Control

(* The mandatory quick effects are dealt with: those of the opponent are
   asked for, or the chosen ones are put on the chain, or the players are
   asked. *)
LEMMA QuickForcedStep ==
  ASSUME Typed, Control, QuickForced
  PROVE  Typed' /\ Control'
<1>1. units # <<>> /\ Front.kind = "QuickEffect" /\ Front.step \in {0, 1}
  BY DEF QuickForced, At
<1>2. PICK w \in UnitType : Shape(units, w) /\ Facts(w) BY DEF Control
<1>3. Keeps(w) /\ Held(Tail(units), w) /\ Tail(units) \in Seq(UnitType)
  BY <1>1, <1>2, QuickFront
<1>4. PICK left \in SUBSET quick_f_chain : QuickForcedNone(left) /\ quick_f_chain' = left
  BY DEF QuickForced
<1>5. DataTyped'
  <2>1. priorities' \in [Players -> BOOLEAN] /\ passed' \subseteq Players
    BY <1>4 DEF QuickForcedNone, ResetPriority, Typed, DataTyped
  <2> QED
    BY <1>4, <2>1, SameSetting DEF Typed, DataTyped, QuickForced, pending, offers, links, solving, fixed
<1>6. UNCHANGED <<new_fchain_s, new_ochain_s, new_ochain_h, ignition_priority_chains, new_chains,
                  current_chain>>
  BY DEF QuickForced, pending, offers, links
<1>7. CASE left # {}
  <2>1. PICK f : f = [Front EXCEPT !.step = 0, !.is_opponent = TRUE] OBVIOUS
  <2>2. f \in UnitType /\ f.kind = "QuickEffect" /\ f.step = 0
    <3>1. PICK g \in UnitType : g = [Front EXCEPT !.step = 0]
      BY <1>1, FrontType DEF Typed
    <3>2. g.kind = "QuickEffect" /\ g.step = 0
      <4>1. Front \in UnitType BY <1>1, FrontType DEF Typed
      <4> QED BY <1>1, <3>1, <4>1 DEF UnitType
    <3>3. f = [g EXCEPT !.is_opponent = TRUE] BY <2>1, <3>1, Zenon
    <3> QED BY <3>2, <3>3 DEF UnitType
  <2>3. units' = <<f>> \o Tail(units) BY <1>4, <1>7, <2>1 DEF QuickForcedNone
  <2>4. units' = Push(f, Tail(units)) BY <2>3 DEF Push
  <2>5. UNCHANGED <<priorities, passed>> BY <1>4, <1>7 DEF QuickForcedNone
  <2>6. /\ units' \in Seq(UnitType) /\ units' # <<>> /\ Front' = f
        /\ Shape(units', w) /\ ~HasAdjust(units')
    BY <1>1, <1>2, <2>2, <2>4, QuickBecomes
  <2>7. Facts(w)'
    <3> USE <1>1, <1>2, <1>3, <1>6, <2>2, <2>5, <2>6 DEF Facts, Keeps, Asks,
          Resting, IsAt, triggers, pending, links, offers, solving, fixed, At, Front
    <3>1. ListsEmpty(w)' BY DEF ListsEmpty, Floor
    <3>2. ChainEmpty(w)' /\ ChainThere(w)' BY DEF ChainEmpty, ChainThere
    <3>3. NewChains(w)' BY DEF NewChains, Floor, Trigger
    <3>4. Passes' BY DEF Passes
    <3>5. IgnitionOpen(w)' BY DEF IgnitionOpen
    <3> QED BY <3>1, <3>2, <3>3, <3>4, <3>5
  <2> QED BY <1>5, <2>6, <2>7 DEF Typed, Control
<1>8. CASE left = {} /\ new_chains # <<>>
  <2>1. new_chains[Len(new_chains)].player \in Players
    <3>1. new_chains \in Seq(AnyLink) /\ Len(new_chains) \in Nat \ {0}
      BY <1>8, EmptySeq DEF Typed, DataTyped
    <3>2. new_chains[Len(new_chains)] \in AnyLink BY <3>1
    <3> QED BY <3>2 DEF AnyLink
  <2>2. PICK q \in UnitType : q = QuickEffect(0, NoSkip, Opponent(new_chains[Len(new_chains)].player))
    BY <2>1, UnitTypes
  <2>3. IsAt(q, "QuickEffect", 0) BY <2>2 DEF QuickEffect, Unit, IsAt
  <2>4. Finish(<<AddChain, q>>) /\ ResetPriority /\ passed' = {}
    BY <1>4, <1>8, <2>2 DEF QuickForcedNone
  <2>5. /\ units' \in Seq(UnitType) /\ units' # <<>> /\ Front' = AddChain
        /\ Shape(units', w) /\ ~HasAdjust(units')
        /\ AddChain.kind = "AddChain" /\ AddChain.step = 0
    BY <1>1, <1>2, <2>3, <2>4, QuickChains
  <2>6. Facts(w)'
    <3> USE <1>1, <1>2, <1>3, <1>6, <1>8, <2>4, <2>5 DEF Facts, Keeps, Asks,
          Resting, IsAt, triggers, pending, links, offers, solving, fixed, At, Front
    <3>1. ListsEmpty(w)' BY DEF ListsEmpty, Floor
    <3>2. ChainEmpty(w)' /\ ChainThere(w)' BY DEF ChainEmpty, ChainThere
    <3>3. NewChains(w)' BY DEF NewChains, Floor, Trigger
    <3>4. Passes' BY DEF Passes, ResetPriority
    <3>5. IgnitionOpen(w)' BY DEF IgnitionOpen
    <3> QED BY <3>1, <3>2, <3>3, <3>4, <3>5
  <2> QED BY <1>5, <2>5, <2>6 DEF Typed, Control
<1>9. CASE left = {} /\ new_chains = <<>>
  <2>1. PICK f : f = [Front EXCEPT !.step = 2] OBVIOUS
  <2>2. f \in UnitType /\ f.kind = "QuickEffect" /\ f.step = 2
    BY <1>1, <2>1, FrontType DEF Typed, UnitType
  <2>3. GoOn(2, <<>>) /\ UNCHANGED <<priorities, passed>>
    BY <1>4, <1>9 DEF QuickForcedNone
  <2>4. units' = Push(f, Tail(units))
    <3>1. units \in Seq(UnitType) /\ Adjust \in UnitType /\ 2 \in 0 .. 11
      BY UnitTypes DEF Typed
    <3> QED BY <1>1, <2>1, <2>2, <2>3, <3>1, GoesOn
  <2>5. /\ units' \in Seq(UnitType) /\ units' # <<>> /\ Front' = f
        /\ Shape(units', w) /\ ~HasAdjust(units')
    BY <1>1, <1>2, <2>2, <2>4, QuickBecomes
  <2>6. Facts(w)'
    <3> USE <1>1, <1>2, <1>3, <1>4, <1>6, <1>9, <2>2, <2>3, <2>5 DEF Facts, Keeps,
          Asks, Resting, IsAt, triggers, pending, links, offers, solving, fixed, At,
          Front
    <3>1. ListsEmpty(w)' BY DEF ListsEmpty, Floor
    <3>2. ChainEmpty(w)' /\ ChainThere(w)' BY DEF ChainEmpty, ChainThere
    <3>3. NewChains(w)' BY DEF NewChains, Floor, Trigger
    <3>4. Passes' BY DEF Passes
    <3>5. IgnitionOpen(w)' BY DEF IgnitionOpen
    <3> QED BY <3>1, <3>2, <3>3, <3>4, <3>5
  <2> QED BY <1>5, <2>5, <2>6 DEF Typed, Control
<1> QED BY <1>7, <1>8, <1>9

LEMMA QuickEffectChosenStep ==
  ASSUME Typed, Control, QuickEffectChosen
  PROVE  Typed' /\ Control'
<1>1. units # <<>> /\ Front.kind = "QuickEffect" /\ Front.step = 2
  BY DEF QuickEffectChosen, At
<1>2. PICK w \in UnitType : Shape(units, w) /\ Facts(w) BY DEF Control
<1>3. Keeps(w) /\ Held(Tail(units), w) /\ Tail(units) \in Seq(UnitType)
  BY <1>1, <1>2, QuickFront
<1>4. Front.player \in Players /\ turn_player \in Players
  BY <1>1, FrontType, ConstantsAssumption DEF Typed
<1>5. PICK c \in AnyLink : Choose(c) /\ next_id' \in 1 .. MaxLinks + 1
  <2>1. CASE CanActivate /\ Choose(Activation(Front.player)) /\ next_id' = next_id + 1
    BY <1>4, <2>1, ActivationTyped
  <2>2. CASE CanActivate /\ Choose([Activation(turn_player) EXCEPT !.kind = "ignition"])
             /\ next_id' = next_id + 1
    BY <1>4, <2>2, ActivationTyped
  <2>3. ASSUME NEW c \in Offered(Front.player), Choose([c EXCEPT !.kind = "activated"]),
               UNCHANGED next_id
        PROVE  \E d \in AnyLink : Choose(d) /\ next_id' \in 1 .. MaxLinks + 1
    <3>1. c \in AnyLink /\ "activated" \in Kinds
      BY KindTypes DEF Offered, Typed, DataTyped, Kinds
    <3>2. [c EXCEPT !.kind = "activated"] \in AnyLink BY <3>1 DEF AnyLink
    <3>3. next_id' \in 1 .. MaxLinks + 1 BY <2>3 DEF Typed, DataTyped
    <3> QED BY <2>3, <3>2, <3>3
  <2> QED BY <2>1, <2>2, <2>3 DEF QuickEffectChosen
<1>6. /\ new_chains' \in Seq(AnyLink) /\ chaining' \subseteq Nat /\ new_chains' # <<>>
  BY <1>5, ChooseTyped
<1>7. DataTyped'
  BY <1>5, <1>6, SameSetting DEF Typed, DataTyped, QuickEffectChosen, pending, solving, fixed, ResetPriority
<1>8. PICK q \in UnitType : q = QuickEffect(0, NoSkip, Opponent(Front.player))
  BY <1>4, UnitTypes
<1>9. IsAt(q, "QuickEffect", 0) /\ Finish(<<AddChain, q>>)
  BY <1>8 DEF QuickEffect, Unit, IsAt, QuickEffectChosen
<1>10. /\ units' \in Seq(UnitType) /\ units' # <<>> /\ Front' = AddChain
       /\ Shape(units', w) /\ ~HasAdjust(units')
       /\ AddChain.kind = "AddChain" /\ AddChain.step = 0
  BY <1>1, <1>2, <1>9, QuickChains
<1>11. /\ UNCHANGED <<new_fchain_s, new_ochain_s, new_ochain_h, current_chain>>
       /\ ignition_priority_chains' = FALSE
       /\ ResetPriority /\ passed' = {}
  BY DEF QuickEffectChosen, pending
<1>12. Facts(w)'
  <2> USE <1>1, <1>2, <1>3, <1>6, <1>10, <1>11 DEF Facts, Keeps, Asks, Resting,
        IsAt, triggers, pending, links, offers, solving, fixed, At, Front
  <2>1. ListsEmpty(w)' BY DEF ListsEmpty, Floor
  <2>2. ChainEmpty(w)' /\ ChainThere(w)' BY DEF ChainEmpty, ChainThere
  <2>3. NewChains(w)' BY DEF NewChains, Floor, Trigger
  <2>4. Passes' BY DEF Passes, ResetPriority
  <2>5. IgnitionOpen(w)' BY DEF IgnitionOpen
  <2> QED BY <2>1, <2>2, <2>3, <2>4, <2>5
<1> QED BY <1>7, <1>10, <1>12 DEF Typed, Control

LEMMA QuickEffectPassStep ==
  ASSUME Typed, Control, QuickEffectPass
  PROVE  Typed' /\ Control'
<1>1. units # <<>> /\ Front.kind = "QuickEffect" /\ Front.step = 2
  BY DEF QuickEffectPass, At
<1>2. PICK w \in UnitType : Shape(units, w) /\ Facts(w) BY DEF Control
<1>3. Keeps(w) /\ Held(Tail(units), w) /\ Tail(units) \in Seq(UnitType)
  BY <1>1, <1>2, QuickFront
<1>4. PICK p \in Players : p = Front.player BY <1>1, FrontType DEF Typed
<1>5. /\ priorities \in [Players -> BOOLEAN] /\ passed \subseteq Players
      /\ priorities' = [priorities EXCEPT ![p] = TRUE] /\ passed' = passed \cup {p}
      /\ ignition_priority_chains' = FALSE
      /\ UNCHANGED <<new_fchain_s, new_ochain_s, new_ochain_h, current_chain, new_chains,
                     quick_f_chain>>
  BY <1>4 DEF QuickEffectPass, NotePass, Typed, DataTyped, pending, links, triggers
<1>6. DataTyped'
  BY <1>5, SameSetting DEF Typed, DataTyped, QuickEffectPass, triggers, pending, links, solving, fixed
<1>7. \A r \in Players : priorities[r] => r \in passed BY <1>2 DEF Facts, Passes
<1>8. \A r \in Players : priorities'[r] => r \in passed' BY <1>5, <1>7
<1>9. CASE \A r \in Players : priorities'[r]
  <2>1. Finish(<<>>) BY <1>9 DEF QuickEffectPass
  <2>2. /\ units' \in Seq(UnitType) /\ units' # <<>> /\ Front' = w
        /\ Shape(units', w) /\ ~HasAdjust(units')
    BY <1>1, <1>2, <2>1, QuickEnds
  <2>3. passed' = Players BY <1>5, <1>8, <1>9
  <2>4. Facts(w)'
    <3> USE <1>1, <1>2, <1>3, <1>5, <1>8, <2>2, <2>3 DEF Facts, Keeps, Asks,
          Resting, IsAt, triggers, pending, links, offers, solving, fixed, At, Front
    <3>1. ListsEmpty(w)' BY DEF ListsEmpty, Floor
    <3>2. ChainEmpty(w)' /\ ChainThere(w)' BY DEF ChainEmpty, ChainThere
    <3>3. NewChains(w)' BY DEF NewChains, Floor, Trigger
    <3>4. Passes' BY DEF Passes
    <3>5. IgnitionOpen(w)' BY DEF IgnitionOpen
    <3> QED BY <3>1, <3>2, <3>3, <3>4, <3>5
  <2> QED BY <1>6, <2>2, <2>4 DEF Typed, Control
<1>10. CASE ~\A r \in Players : priorities'[r]
  <2>1. PICK q \in UnitType : q = QuickEffect(1, Front.skips, Opponent(p))
    BY <1>1, FrontType, UnitTypes DEF Typed
  <2>2. q.kind = "QuickEffect" /\ q.step = 1 /\ Finish(<<q>>)
    BY <1>4, <1>10, <2>1 DEF QuickEffect, Unit, QuickEffectPass
  <2>3. units' = Push(q, Tail(units)) BY <1>1, <2>2, Finishes DEF Typed
  <2>4. /\ units' \in Seq(UnitType) /\ units' # <<>> /\ Front' = q
        /\ Shape(units', w) /\ ~HasAdjust(units')
    BY <1>1, <1>2, <2>2, <2>3, QuickBecomes
  <2>5. Facts(w)'
    <3> USE <1>1, <1>2, <1>3, <1>5, <1>8, <2>2, <2>4 DEF Facts, Keeps, Asks,
          Resting, IsAt, triggers, pending, links, offers, solving, fixed, At, Front
    <3>1. ListsEmpty(w)' BY DEF ListsEmpty, Floor
    <3>2. ChainEmpty(w)' /\ ChainThere(w)' BY DEF ChainEmpty, ChainThere
    <3>3. NewChains(w)' BY DEF NewChains, Floor, Trigger
    <3>4. Passes' BY DEF Passes
    <3>5. IgnitionOpen(w)' BY DEF IgnitionOpen
    <3> QED BY <3>1, <3>2, <3>3, <3>4, <3>5
  <2> QED BY <1>6, <2>4, <2>5 DEF Typed, Control
<1> QED BY <1>9, <1>10

-----------------------------------------------------------------------------
(* AddChain and Adjust, which run over a unit that asks for a trigger to be
   chained, or over a QuickEffect that will run again. *)
LEMMA AddFront ==
  ASSUME Typed, units # <<>>, NEW w \in UnitType, Shape(units, w)
  PROVE  /\ Tail(units) \in Seq(UnitType) /\ units = Push(Front, Tail(units))
         /\ Front.kind = "AddChain" =>
              /\ (Layer(Tail(units), w) /\ Keeps(w)) \/ (Asking(Tail(units), w) /\ Asks(w))
              /\ HasAdjust(units) <=> HasAdjust(Tail(units))
<1>1. /\ Tail(units) \in Seq(UnitType) /\ Front \in UnitType /\ units = Push(Front, Tail(units))
  BY FrontType DEF Typed
<1>2. Front.kind # "Adjust" => (HasAdjust(units) <=> HasAdjust(Tail(units)))
  <2>1. HasAdjust(Push(Front, Tail(units))) <=> Front.kind = "Adjust" \/ HasAdjust(Tail(units))
    BY <1>1, HasAdjustPush
  <2> QED BY <1>1, <2>1
<1>3. Front.kind = "AddChain" => Layer(Tail(units), w) \/ Asking(Tail(units), w)
  BY ShapeKinds DEF Typed
<1>4. /\ Layer(Tail(units), w) => Keeps(w)
      /\ Asking(Tail(units), w) => Asks(w)
  BY <1>1, LayerPop DEF Asking
<1> QED BY <1>1, <1>2, <1>3, <1>4

LEMMA AddBecomes ==
  ASSUME Typed, units # <<>>, Front.kind = "AddChain", NEW w \in UnitType, Shape(units, w),
         NEW f \in UnitType, NEW s \in {2, 8}, f = [Front EXCEPT !.step = s], GoOn(s, <<>>)
  PROVE  /\ units' \in Seq(UnitType) /\ units' # <<>> /\ Front' = f
         /\ f.kind = "AddChain" /\ f.step = s
         /\ Shape(units', w) /\ (HasAdjust(units') <=> HasAdjust(units))
<1>1. /\ Tail(units) \in Seq(UnitType)
      /\ Layer(Tail(units), w) \/ Asking(Tail(units), w)
      /\ HasAdjust(units) <=> HasAdjust(Tail(units))
  BY AddFront
<1>2. f.kind = "AddChain" /\ f.step = s
  <2>1. Front \in UnitType BY FrontType DEF Typed
  <2> QED BY <2>1 DEF UnitType
<1>3. units' = Push(f, Tail(units))
  <2>1. units \in Seq(UnitType) /\ Adjust \in UnitType /\ s \in 0 .. 11
    BY UnitTypes DEF Typed
  <2> QED BY <2>1, GoesOn
<1>4. units' \in Seq(UnitType) /\ units' # <<>> /\ Head(units') = f
  BY <1>1, <1>3, PushUnit, Zenon
<1>5. Shape(units', w) /\ (HasAdjust(units') <=> HasAdjust(Tail(units)))
  BY <1>1, <1>2, <1>3, ShapePush, HasAdjustPush
<1> QED BY <1>1, <1>2, <1>4, <1>5 DEF Front

LEMMA AddChainStartStep ==
  ASSUME Typed, Control, AddChainStart
  PROVE  Typed' /\ Control'
<1>1. /\ units # <<>> /\ Front.kind = "AddChain" /\ Front.step = 0 /\ GoOn(2, <<>>)
      /\ Raise(new_fchain, new_ochain, 0) /\ ControlMoves
  BY DEF AddChainStart, At
<1>2. PICK w \in UnitType : Shape(units, w) /\ Facts(w) BY DEF Control
<1>3. Keeps(w) \/ Asks(w) BY <1>1, <1>2, AddFront
<1>4. /\ new_fchain_s' \subseteq Forced /\ new_ochain_s' \subseteq Optional
      /\ new_ochain_h' \subseteq Hidden
      /\ new_fchain_s = {} => new_fchain_s' = {}
      /\ new_ochain_s = {} => new_ochain_s' = {}
      /\ new_ochain_h = {} => new_ochain_h' = {}
      /\ current_player' = current_player
      /\ ignition_priority_chains' = ignition_priority_chains
  BY <1>1, ControlTyped
<1>5. /\ new_fchain' \subseteq Forced /\ new_ochain' \subseteq Optional
      /\ quick_f_chain' \subseteq Quick /\ next_id' \in 1 .. MaxLinks + 1
  <2>1. /\ new_fchain \subseteq Forced /\ new_ochain \subseteq Optional
        /\ 0 \in Nat /\ started \in Nat
    BY DEF Typed, DataTyped
  <2>2. RaiseAt(new_fchain, new_ochain, 0, started) BY <1>1 DEF Raise
  <2> QED BY <2>1, <2>2, RaiseTyped
<1>6. DataTyped'
  BY <1>4, <1>5, SameSetting DEF Typed, DataTyped, AddChainStart, links, solving, fixed
<1>7. PICK f \in UnitType : f = [Front EXCEPT !.step = 2] BY <1>1, FrontType DEF Typed
<1>8. /\ units' \in Seq(UnitType) /\ units' # <<>> /\ Front' = f
      /\ f.kind = "AddChain" /\ f.step = 2
      /\ Shape(units', w) /\ (HasAdjust(units') <=> HasAdjust(units))
  BY <1>1, <1>2, <1>7, AddBecomes
<1>9. UNCHANGED <<new_chains, current_chain, priorities, passed>>
  BY DEF AddChainStart, links
<1>10. Facts(w)'
  <2> USE <1>1, <1>2, <1>3, <1>4, <1>8, <1>9 DEF Facts, Keeps, Asks, Resting, IsAt,
        At, Front
  <2>1. ListsEmpty(w)' BY DEF ListsEmpty, Floor
  <2>2. ChainEmpty(w)' /\ ChainThere(w)' BY DEF ChainEmpty, ChainThere
  <2>3. NewChains(w)' BY DEF NewChains, Floor, Trigger
  <2>4. Passes' BY DEF Passes
  <2>5. IgnitionOpen(w)' BY DEF IgnitionOpen
  <2> QED BY <2>1, <2>2, <2>3, <2>4, <2>5
<1> QED BY <1>6, <1>8, <1>10 DEF Typed, Control

(* What is left when AddChain or Adjust is done. *)
LEMMA LayerLeft ==
  ASSUME Typed, units # <<>>, NEW w \in UnitType, Layer(Tail(units), w),
         units' = Tail(units)
  PROVE  /\ units' \in Seq(UnitType) /\ units' # <<>>
         /\ IsAt(Front', "Adjust", 0) \/ IsAt(Front', "QuickEffect", 0)
         /\ Shape(units', w) /\ (HasAdjust(units') => HasAdjust(units))
<1>1. Tail(units) \in Seq(UnitType) /\ Front \in UnitType /\ units = Push(Front, Tail(units))
  BY FrontType DEF Typed
<1>2. /\ Tail(units) # <<>>
      /\ IsAt(Head(Tail(units)), "Adjust", 0) \/ IsAt(Head(Tail(units)), "QuickEffect", 0)
  BY <1>1, LayerPop
<1>3. Shape(Tail(units), w) BY <1>1, ShapeLeft
<1>4. HasAdjust(Tail(units)) => HasAdjust(Push(Front, Tail(units)))
  BY <1>1, HasAdjustPush
<1>5. HasAdjust(Tail(units)) => HasAdjust(units) BY <1>1, <1>4
<1> QED BY <1>1, <1>2, <1>3, <1>5 DEF Front

LEMMA AddChainAbandonStep ==
  ASSUME Typed, Control, AddChainAbandon
  PROVE  Typed' /\ Control'
<1>1. /\ units # <<>> /\ Front.kind = "AddChain" /\ Front.step = 0 /\ Finish(<<>>)
      /\ Head(new_chains).kind = "activated" /\ At("AddChain", 0)
  BY DEF AddChainAbandon, At
<1>2. PICK w \in UnitType : Shape(units, w) /\ Facts(w) BY DEF Control
<1>3. ~Asks(w)
  <2>1. Asks(w) => Len(new_chains) = 1 /\ Trigger(new_chains[1])
    BY <1>1, <1>2 DEF Facts, NewChains
  <2> QED BY <1>1, <2>1 DEF Trigger
<1>4. Layer(Tail(units), w) /\ Keeps(w) BY <1>1, <1>2, <1>3, AddFront
<1>5. units' = Tail(units) BY <1>1, UnitTypes, Finishes DEF Typed
<1>6. /\ units' \in Seq(UnitType) /\ units' # <<>>
      /\ IsAt(Front', "Adjust", 0) \/ IsAt(Front', "QuickEffect", 0)
      /\ Shape(units', w) /\ (HasAdjust(units') => HasAdjust(units))
  BY <1>1, <1>4, <1>5, LayerLeft
<1>7. DataTyped'
  BY SameSetting DEF Typed, DataTyped, AddChainAbandon, triggers, pending, offers, links, solving, fixed
<1>8. Facts(w)'
  <2> USE <1>1, <1>2, <1>3, <1>4, <1>6 DEF Facts, Keeps, Asks, Resting, IsAt,
        AddChainAbandon, triggers, pending, links, offers, solving, fixed, At, Front
  <2>1. ListsEmpty(w)' BY DEF ListsEmpty, Floor
  <2>2. ChainEmpty(w)' /\ ChainThere(w)' BY DEF ChainEmpty, ChainThere
  <2>3. NewChains(w)' BY DEF NewChains, Floor, Trigger
  <2>4. Passes' BY DEF Passes
  <2>5. IgnitionOpen(w)' BY DEF IgnitionOpen
  <2> QED BY <2>1, <2>2, <2>3, <2>4, <2>5
<1> QED BY <1>6, <1>7, <1>8 DEF Typed, Control

LEMMA AddChainLinkStep ==
  ASSUME Typed, Control, AddChainLink
  PROVE  Typed' /\ Control'
<1>1. /\ units # <<>> /\ Front.kind = "AddChain" /\ Front.step = 2 /\ GoOn(8, <<>>)
      /\ Raise(new_fchain, new_ochain, 0) /\ ControlMoves
  BY DEF AddChainLink, At
<1>2. PICK w \in UnitType : Shape(units, w) /\ Facts(w) BY DEF Control
<1>3. (Keeps(w) \/ Asks(w)) /\ new_chains # <<>>
  BY <1>1, <1>2, AddFront DEF Facts, NewChains, At
<1>4. /\ new_fchain_s' \subseteq Forced /\ new_ochain_s' \subseteq Optional
      /\ new_ochain_h' \subseteq Hidden
      /\ new_fchain_s = {} => new_fchain_s' = {}
      /\ new_ochain_s = {} => new_ochain_s' = {}
      /\ new_ochain_h = {} => new_ochain_h' = {}
      /\ current_player' = current_player
      /\ ignition_priority_chains' = ignition_priority_chains
  BY <1>1, ControlTyped
<1>5. /\ new_fchain' \subseteq Forced /\ new_ochain' \subseteq Optional
      /\ quick_f_chain' \subseteq Quick /\ next_id' \in 1 .. MaxLinks + 1
  <2>1. /\ new_fchain \subseteq Forced /\ new_ochain \subseteq Optional
        /\ 0 \in Nat /\ started \in Nat
    BY DEF Typed, DataTyped
  <2>2. RaiseAt(new_fchain, new_ochain, 0, started) BY <1>1 DEF Raise
  <2> QED BY <2>1, <2>2, RaiseTyped
<1>6. PICK d : d = [Head(new_chains) EXCEPT !.chain_count = Len(current_chain) + 1]
  OBVIOUS
<1>7. /\ current_chain' = Append(current_chain, d) /\ new_chains' = Tail(new_chains)
      /\ UNCHANGED <<priorities, passed>>
  BY <1>6 DEF AddChainLink
<1>8. /\ current_chain' \in Seq(AnyLink) /\ current_chain' # <<>>
      /\ new_chains' \in Seq(AnyLink)
      /\ Len(new_chains) = 1 => new_chains' = <<>>
  <2>1. /\ Head(new_chains) \in AnyLink /\ new_chains' \in Seq(AnyLink)
        /\ Len(new_chains') = Len(new_chains) - 1
    BY <1>3, <1>7, EmptySeq, HeadTailProperties DEF Typed, DataTyped
  <2>2. Len(current_chain) + 1 \in Nat /\ current_chain \in Seq(AnyLink)
    BY DEF Typed, DataTyped
  <2>3. d \in AnyLink BY <1>6, <2>1, <2>2 DEF AnyLink
  <2>4. /\ Append(current_chain, d) \in Seq(AnyLink)
        /\ Len(Append(current_chain, d)) = Len(current_chain) + 1
    BY <2>2, <2>3, AppendProperties
  <2>5. Len(new_chains) = 1 => new_chains' = <<>> BY <2>1, EmptySeq
  <2> QED BY <1>7, <2>1, <2>2, <2>4, <2>5, EmptySeq
<1>9. DataTyped'
  BY <1>4, <1>5, <1>8, SameSetting DEF Typed, DataTyped, AddChainLink, solving, fixed
<1>10. PICK f \in UnitType : f = [Front EXCEPT !.step = 8] BY <1>1, FrontType DEF Typed
<1>11. /\ units' \in Seq(UnitType) /\ units' # <<>> /\ Front' = f
       /\ f.kind = "AddChain" /\ f.step = 8
       /\ Shape(units', w) /\ (HasAdjust(units') <=> HasAdjust(units))
  BY <1>1, <1>2, <1>10, AddBecomes
<1>12. Asks(w) => new_chains' = <<>> BY <1>1, <1>2, <1>8 DEF Facts, NewChains, At
<1>13. Facts(w)'
  <2> USE <1>2, <1>3, <1>4, <1>7, <1>8, <1>11, <1>12 DEF Facts, Keeps, Asks,
        Resting, IsAt, At, Front
  <2>1. ListsEmpty(w)' BY DEF ListsEmpty, Floor
  <2>2. ChainEmpty(w)' /\ ChainThere(w)' BY DEF ChainEmpty, ChainThere
  <2>3. NewChains(w)' BY DEF NewChains, Floor, Trigger
  <2>4. Passes' BY DEF Passes
  <2>5. IgnitionOpen(w)' BY DEF IgnitionOpen
  <2> QED BY <2>1, <2>2, <2>3, <2>4, <2>5
<1> QED BY <1>9, <1>11, <1>13 DEF Typed, Control

LEMMA AddChainEndStep ==
  ASSUME Typed, Control, AddChainEnd
  PROVE  Typed' /\ Control'
<1>1. /\ units # <<>> /\ Front.kind = "AddChain" /\ Front.step = 8
      /\ Raise(new_fchain, BreakEffect, Last.chain_count)
      /\ current_chain # <<>>
  BY NotEmpty DEF AddChainEnd, At
<1>2. PICK w \in UnitType : Shape(units, w) /\ Facts(w) BY DEF Control
<1>3. /\ Tail(units) \in Seq(UnitType)
      /\ (Layer(Tail(units), w) /\ Keeps(w)) \/ (Asking(Tail(units), w) /\ Asks(w))
  BY <1>1, <1>2, AddFront
<1>4. /\ new_fchain' \subseteq Forced /\ new_ochain' \subseteq Optional
      /\ quick_f_chain' \subseteq Quick /\ next_id' \in 1 .. MaxLinks + 1
  <2>1. /\ new_fchain \subseteq Forced /\ BreakEffect \subseteq Optional
        /\ Last.chain_count \in Nat /\ started \in Nat
    BY <1>1, LastTyped DEF Typed, DataTyped, BreakEffect
  <2>2. RaiseAt(new_fchain, BreakEffect, Last.chain_count, started) BY <1>1 DEF Raise
  <2> QED BY <2>1, <2>2, RaiseTyped
<1>5. /\ UNCHANGED <<new_fchain_s, new_ochain_s, new_ochain_h, ignition_priority_chains, new_chains,
                     current_chain, priorities, passed>>
      /\ real_chain_count' \in Nat
  BY DEF AddChainEnd, pending, offers, CountActivated, Typed, DataTyped
<1>6. DataTyped'
  BY <1>4, <1>5, SameSetting DEF Typed, DataTyped, AddChainEnd, pending, solving, fixed
<1>7. /\ Adjust \in UnitType /\ IsAt(Adjust, "Adjust", 0)
      /\ AddChain \in UnitType /\ AddChain.kind = "AddChain" /\ AddChain.step = 0
  BY UnitTypes DEF Adjust, AddChain, Unit, IsAt
<1>8. /\ Push(Adjust, Tail(units)) \in Seq(UnitType) /\ Push(Adjust, Tail(units)) # <<>>
      /\ Head(Push(Adjust, Tail(units))) = Adjust
      /\ Shape(Push(Adjust, Tail(units)), w)
  <2>1. /\ Push(Adjust, Tail(units)) \in Seq(UnitType) /\ Push(Adjust, Tail(units)) # <<>>
        /\ Head(Push(Adjust, Tail(units))) = Adjust
    BY <1>3, <1>7, PushUnit, Zenon
  <2>2. Shape(Push(Adjust, Tail(units)), w) BY <1>3, <1>7, ShapePush
  <2> QED BY <2>1, <2>2
<1>9. CASE new_chains # <<>>
  <2>1. ~Asks(w) /\ Layer(Tail(units), w) /\ Keeps(w)
    BY <1>1, <1>2, <1>3, <1>9 DEF Facts, NewChains, At
  <2>2. Finish(<<AddChain, Adjust>>) BY <1>9 DEF AddChainEnd
  <2>3. units' = Push(AddChain, Push(Adjust, Tail(units)))
    BY <1>1, <1>7, <2>2, Finishes DEF Typed
  <2>4. Layer(Push(Adjust, Tail(units)), w) BY <1>3, <1>7, <2>1, LayerAdjust
  <2>5. units' \in Seq(UnitType) /\ units' # <<>> /\ Head(units') = AddChain
    BY <1>7, <1>8, <2>3, PushUnit, Zenon
  <2>6. Shape(units', w) BY <1>7, <1>8, <2>3, <2>4, ShapePush
  <2>7. Front' = AddChain BY <2>5 DEF Front
  <2>8. Facts(w)'
    <3> USE <1>1, <1>2, <1>5, <1>7, <1>9, <2>1, <2>5, <2>7 DEF Facts, Keeps, Asks,
          Resting, IsAt, At
    <3>1. ListsEmpty(w)' BY DEF ListsEmpty, Floor
    <3>2. ChainEmpty(w)' /\ ChainThere(w)' BY DEF ChainEmpty, ChainThere
    <3>3. NewChains(w)' BY DEF NewChains, Floor, Trigger
    <3>4. Passes' BY DEF Passes
    <3>5. IgnitionOpen(w)' BY DEF IgnitionOpen
    <3> QED BY <3>1, <3>2, <3>3, <3>4, <3>5
  <2> QED BY <1>6, <2>5, <2>6, <2>8 DEF Typed, Control
<1>10. CASE new_chains = <<>>
  <2>1. Finish(<<Adjust>>) BY <1>10 DEF AddChainEnd
  <2>2. units' = Push(Adjust, Tail(units)) BY <1>1, <1>7, <2>1, Finishes DEF Typed
  <2>3. Front' = Adjust BY <1>8, <2>2 DEF Front
  <2>4. /\ units' \in Seq(UnitType) /\ units' # <<>> /\ Shape(units', w)
        /\ Adjust.kind = "Adjust" /\ Adjust.step = 0
    BY <1>7, <1>8, <2>2 DEF IsAt
  <2>5. Facts(w)'
    <3> USE <1>1, <1>2, <1>3, <1>5, <1>10, <2>3, <2>4 DEF Facts, Keeps, Asks,
          Resting, IsAt, At
    <3>1. ListsEmpty(w)' BY DEF ListsEmpty, Floor
    <3>2. ChainEmpty(w)' /\ ChainThere(w)' BY DEF ChainEmpty, ChainThere
    <3>3. NewChains(w)' BY DEF NewChains, Floor, Trigger
    <3>4. Passes' BY DEF Passes
    <3>5. IgnitionOpen(w)' BY DEF IgnitionOpen
    <3> QED BY <3>1, <3>2, <3>3, <3>4, <3>5
  <2> QED BY <1>6, <2>4, <2>5 DEF Typed, Control
<1> QED BY <1>9, <1>10

LEMMA ChosenEmpty ==
  ASSUME Typed
  PROVE  Chosen = <<>> <=> current_chain = <<>> /\ new_chains = <<>>
<1>1. current_chain \in Seq(AnyLink) /\ new_chains \in Seq(AnyLink)
  BY DEF Typed, DataTyped
<1> QED BY <1>1, ConcatProperties, EmptySeq DEF Chosen

(* The continuous effects run, and one of them may use Duel.Activate where
   there is no chain. *)
LEMMA AdjustAllStep ==
  ASSUME Typed, Control, AdjustAll
  PROVE  Typed' /\ Control'
<1>1. /\ units # <<>> /\ Front.kind = "Adjust" /\ Front.step = 0
      /\ Raise(new_fchain, new_ochain, 0) /\ ControlMoves
  BY DEF AdjustAll, At
<1>2. PICK w \in UnitType : Shape(units, w) /\ Facts(w) BY DEF Control
<1>3. /\ Tail(units) \in Seq(UnitType) /\ Front \in UnitType
      /\ units = Push(Front, Tail(units))
  BY <1>1, FrontType DEF Typed
<1>4. Layer(Tail(units), w) \/ Asking(Tail(units), w) \/ Paused(Tail(units), w)
  BY <1>1, <1>2, ShapeKinds DEF Typed
<1>5. HasAdjust(units)
  <2>1. HasAdjust(Push(Front, Tail(units))) BY <1>1, <1>3, HasAdjustPush
  <2> QED BY <1>3, <2>1
<1>6. /\ new_fchain_s' \subseteq Forced /\ new_ochain_s' \subseteq Optional
      /\ new_ochain_h' \subseteq Hidden
      /\ new_fchain_s = {} => new_fchain_s' = {}
      /\ new_ochain_s = {} => new_ochain_s' = {}
      /\ new_ochain_h = {} => new_ochain_h' = {}
      /\ current_player' = current_player
      /\ ignition_priority_chains' = ignition_priority_chains
  BY <1>1, ControlTyped
<1>7. /\ new_fchain' \subseteq Forced /\ new_ochain' \subseteq Optional
      /\ quick_f_chain' \subseteq Quick /\ next_id' \in 1 .. MaxLinks + 1
  <2>1. /\ new_fchain \subseteq Forced /\ new_ochain \subseteq Optional
        /\ 0 \in Nat /\ started \in Nat
    BY DEF Typed, DataTyped
  <2>2. RaiseAt(new_fchain, new_ochain, 0, started) BY <1>1 DEF Raise
  <2> QED BY <2>1, <2>2, RaiseTyped
<1>8. /\ UNCHANGED <<new_chains, current_chain, priorities, passed, Chosen>>
      /\ Chosen = <<>> => new_chains = <<>>
  BY ChosenEmpty DEF AdjustAll, links, Chosen
<1>9. DataTyped'
  BY <1>6, <1>7, SameSetting DEF Typed, DataTyped, AdjustAll, links, solving, fixed
<1>10. CASE Finish(<<>>)
  <2>1. units' = Tail(units) BY <1>1, <1>10, UnitTypes, Finishes DEF Typed
  <2>2. CASE Layer(Tail(units), w)
    <3>1. Keeps(w) BY <1>3, <2>2, LayerPop
    <3>2. /\ units' \in Seq(UnitType) /\ units' # <<>>
          /\ IsAt(Front', "Adjust", 0) \/ IsAt(Front', "QuickEffect", 0)
          /\ Shape(units', w) /\ (HasAdjust(units') => HasAdjust(units))
      BY <1>1, <2>1, <2>2, LayerLeft
    <3>3. Facts(w)'
      <4> USE <1>1, <1>2, <1>5, <1>6, <1>8, <3>1, <3>2 DEF Facts, Keeps, Asks,
            Resting, IsAt, At
      <4>1. ListsEmpty(w)' BY DEF ListsEmpty, Floor
      <4>2. ChainEmpty(w)' /\ ChainThere(w)' BY DEF ChainEmpty, ChainThere
      <4>3. NewChains(w)' BY DEF NewChains, Floor, Trigger
      <4>4. Passes' BY DEF Passes
      <4>5. IgnitionOpen(w)' BY DEF IgnitionOpen
      <4> QED BY <4>1, <4>2, <4>3, <4>4, <4>5
    <3> QED BY <1>9, <3>2, <3>3 DEF Typed, Control
  <2>3. CASE Asking(Tail(units), w)
    <3>1. Asks(w) /\ Shape(Tail(units), w) /\ Tail(units) # <<>> /\ Head(Tail(units)) = w
      BY <1>3, <2>3, ShapeLeft DEF Asking
    <3>2. ~HasAdjust(units') BY <1>3, <2>1, <2>3, <3>1, OnNoAdjust DEF Asking, Asks
    <3>3. units' \in Seq(UnitType) /\ units' # <<>> /\ Front' = w /\ Shape(units', w)
      BY <1>3, <2>1, <3>1 DEF Front
    <3>4. Facts(w)'
      <4> USE <1>1, <1>2, <1>6, <1>8, <3>1, <3>2, <3>3 DEF Facts, Keeps, Asks,
            Resting, IsAt, At
      <4>1. ListsEmpty(w)' BY DEF ListsEmpty, Floor
      <4>2. ChainEmpty(w)' /\ ChainThere(w)' BY DEF ChainEmpty, ChainThere
      <4>3. NewChains(w)' BY DEF NewChains, Floor, Trigger
      <4>4. Passes' BY DEF Passes
      <4>5. IgnitionOpen(w)' BY DEF IgnitionOpen
      <4> QED BY <4>1, <4>2, <4>3, <4>4, <4>5
    <3> QED BY <1>9, <3>3, <3>4 DEF Typed, Control
  <2>4. CASE Paused(Tail(units), w)
    <3>1. /\ Shape(Tail(units), w) /\ (Tail(units) # <<>> => Head(Tail(units)) = w)
          /\ Resting(w) \/ IsAt(w, "SolveChain", 0)
          /\ new_chains = <<>>
      <4>1. Resting(Idle) BY DEF Resting, IsAt, Idle, Unit
      <4>2. Resting(w) \/ IsAt(w, "SolveChain", 0) BY <2>4, <4>1 DEF Paused
      <4>3. new_chains = <<>> BY <1>2, <1>8, <4>2 DEF Facts, ChainEmpty, NewChains, IsAt
      <4> QED BY <1>3, <2>4, <4>2, <4>3, ShapeLeft DEF Paused
    <3>2. ~HasAdjust(units')
      <4>1. CASE Tail(units) = <<>> BY <2>1, <4>1 DEF HasAdjust
      <4>2. CASE Tail(units) # <<>>
        BY <1>3, <2>1, <2>4, <3>1, <4>2, OnNoAdjust DEF Paused, Resting, IsAt
      <4> QED BY <4>1, <4>2
    <3>3. units' \in Seq(UnitType) /\ Shape(units', w) /\ (units' # <<>> => Front' = w)
      BY <1>3, <2>1, <3>1 DEF Front
    <3>4. Facts(w)'
      <4> USE <1>1, <1>2, <1>6, <1>8, <3>1, <3>2, <3>3 DEF Facts, Keeps, Asks,
            Resting, IsAt, At
      <4>1. ListsEmpty(w)' BY DEF ListsEmpty, Floor
      <4>2. ChainEmpty(w)' /\ ChainThere(w)' BY DEF ChainEmpty, ChainThere
      <4>3. NewChains(w)' BY DEF NewChains, Floor, Trigger
      <4>4. Passes' BY DEF Passes
      <4>5. IgnitionOpen(w)' BY DEF IgnitionOpen
      <4> QED BY <4>1, <4>2, <4>3, <4>4, <4>5
    <3> QED BY <1>9, <3>3, <3>4 DEF Typed, Control
  <2> QED BY <1>4, <2>2, <2>3, <2>4
<1>11. CASE current_chain = <<>> /\ Finish(<<ActivateEffect>>)
  <2>1. Resting(w) /\ Chosen = <<>> /\ new_chains = <<>>
    BY <1>2, <1>5, <1>8, <1>11 DEF Facts, ChainThere, ChainEmpty
  <2>2. Rest(Tail(units))
    <3>1. ~Keeps(w) /\ ~Asks(w) /\ ~IsAt(w, "SolveChain", 0)
      BY <2>1 DEF Resting, IsAt, Keeps, Asks
    <3>2. Paused(Tail(units), w) BY <1>3, <1>4, <3>1, LayerPop DEF Asking
    <3>3. CASE Tail(units) = <<>> BY <3>3 DEF Rest
    <3>4. CASE On(Tail(units), w)
      <4>1. /\ Tail(Tail(units)) \in Seq(UnitType) /\ Rest(Tail(Tail(units)))
            /\ Tail(units) = Push(w, Tail(Tail(units))) /\ w \in UnitType
        BY <1>3, <3>4, HeadTailPush DEF On
      <4>2. Rest(Push(w, Tail(Tail(units)))) BY <2>1, <4>1, RestPush
      <4> QED BY <4>1, <4>2
    <3> QED BY <3>2, <3>3, <3>4 DEF Paused
  <2>3. PICK v \in UnitType : v = ActivateEffect BY UnitTypes
  <2>4. v.kind = "ActivateEffect" /\ v.step = 0 /\ Finish(<<v>>)
    BY <1>11, <2>3 DEF ActivateEffect, Unit
  <2>5. units' = Push(v, Tail(units)) BY <1>1, <2>4, Finishes DEF Typed
  <2>6. units' \in Seq(UnitType) /\ units' # <<>> /\ Head(units') = v
    BY <1>3, <2>5, PushUnit, Zenon
  <2>7. Shape(units', v) BY <1>3, <2>2, <2>4, <2>5, ShapePush DEF Floor
  <2>8. ~HasAdjust(units') BY <1>3, <2>2, <2>4, <2>5, HasAdjustPush, RestHasNoAdjust
  <2>9. Front' = v BY <2>6 DEF Front
  <2>10. Facts(v)'
    <3> USE <1>1, <1>2, <1>6, <1>8, <2>1, <2>4, <2>6, <2>8, <2>9 DEF Facts, Keeps,
          Asks, Resting, IsAt, At
    <3>1. ListsEmpty(v)' BY DEF ListsEmpty, Floor
    <3>2. ChainEmpty(v)' /\ ChainThere(v)' BY DEF ChainEmpty, ChainThere
    <3>3. NewChains(v)' BY DEF NewChains, Floor, Trigger
    <3>4. Passes' BY DEF Passes
    <3>5. IgnitionOpen(v)' BY DEF IgnitionOpen
    <3> QED BY <3>1, <3>2, <3>3, <3>4, <3>5
  <2> QED BY <1>9, <2>6, <2>7, <2>10 DEF Typed, Control
<1> QED BY <1>10, <1>11 DEF AdjustAll

-----------------------------------------------------------------------------
LEMMA InitControl ==
  ASSUME Init
  PROVE  Typed /\ Control
<1>1. units \in Seq(UnitType) /\ Idle \in UnitType /\ units # <<>> /\ Front = Idle /\ Tail(units) = <<>>
  BY UnitTypes DEF Init, Front
<1>2. setting \in AllSettings /\ MaxLinks \in Nat
  BY ConstantsAssumption DEF Init, AllSettings, MaxLinks
<1>3. DataTyped
  <2>1. <<>> \in Seq(AnyLink) /\ 1 \in 1 .. MaxLinks + 1 /\ next_id = 1 BY <1>2 DEF Init
  <2>2. /\ priorities \in [Players -> BOOLEAN] /\ current_player \in Players
        /\ setting \in Settings /\ duel_options \in setting.options
    BY ConstantsAssumption DEF Init
  <2> QED BY <2>1, <2>2 DEF Init, DataTyped
<1>4. Shape(units, Idle) /\ ~HasAdjust(units)
  <2>1. Idle.kind = "Idle" /\ Idle.step = 0 BY DEF Idle, Unit
  <2>2. ~HasAdjust(units) BY <2>1 DEF Init, HasAdjust
  <2> QED BY <1>1, <2>1, <2>2 DEF Shape, Front, Floor, Rest
<1>5. Facts(Idle)
  <2>1. Idle.kind = "Idle" /\ Idle.step = 0 BY DEF Idle, Unit
  <2>2. Chosen = <<>> BY DEF Init, Chosen
  <2>3. \A p \in Players : ~priorities[p] BY DEF Init
  <2>4. ListsEmpty(Idle) /\ ChainEmpty(Idle) /\ ChainThere(Idle)
    BY <1>1, <1>4, <2>1, <2>2 DEF Init, ListsEmpty, ChainEmpty, ChainThere, At, Resting, IsAt
  <2>5. NewChains(Idle) /\ IgnitionOpen(Idle)
    BY <1>1, <2>1 DEF Init, NewChains, IgnitionOpen, At, Asks
  <2>6. Passes BY <1>1, <2>1, <2>3 DEF Init, Passes, At, Keeps, IsAt
  <2> QED BY <2>4, <2>5, <2>6 DEF Facts
<1> QED BY <1>1, <1>3, <1>4, <1>5 DEF Typed, Control

LEMMA SameControl ==
  ASSUME Typed, Control, UNCHANGED vars
  PROVE  Typed' /\ Control'
<1>1. UNCHANGED <<units, triggers, pending, offers, links, priorities, solving, fixed, passed>>
  BY DEF vars
<1>2. Typed'
  BY <1>1 DEF Typed, DataTyped, MaxLinks, triggers, pending, offers, links, solving, fixed
<1>3. PICK w \in UnitType : Shape(units, w) /\ Facts(w) BY DEF Control
<1>4. Facts(w)'
  BY <1>1, <1>3 DEF Facts, ListsEmpty, ChainEmpty, Chosen, ChainThere, HasAdjust, NewChains, Passes,
     IgnitionOpen, At, Front, triggers, pending, offers, links
<1> QED BY <1>1, <1>2, <1>3, <1>4 DEF Control

LEMMA NextControl ==
  ASSUME Typed, Control, [Next]_vars
  PROVE  Typed' /\ Control'
<1>1. CASE PointEventStart \/ PointEventForced \/ PointEventOptional \/ PointEventNextPlayer
           \/ PointEventQuick \/ PointEventEnd
  BY <1>1, PointEventStartStep, PointEventForcedStep, PointEventOptionalStep,
     PointEventNextPlayerStep, PointEventQuickStep, PointEventEndStep, Zenon
<1>2. CASE QuickForcedChosen \/ QuickForced \/ QuickEffectChosen \/ QuickEffectPass
  BY <1>2, QuickForcedChosenStep, QuickForcedStep, QuickEffectChosenStep, QuickEffectPassStep, Zenon
<1>3. CASE AddChainStart \/ AddChainAbandon \/ AddChainLink \/ AddChainEnd \/ AdjustAll
  BY <1>3, AddChainStartStep, AddChainAbandonStep, AddChainLinkStep, AddChainEndStep,
     AdjustAllStep, Zenon
<1>4. CASE Activate \/ ActivateSolve BY <1>4, ActivateStep, ActivateSolveStep, Zenon
<1>5. CASE SolveActivating \/ SolveNegated \/ SolveStart \/ SolveOperation \/ SolveEnd
           \/ SolvePop \/ SolveLast
  BY <1>5, SolveChainSteps, SolvePopStep, SolveLastStep, Zenon
<1>6. CASE IdleActivate \/ IdleSolve \/ IdleEvent \/ IdleAnnounce \/ IdleEnd
  BY <1>6, IdleActivateStep, IdleSolveStep, IdleEventStep, IdleAnnounceStep, IdleEndStep, Zenon
<1>7. CASE UNCHANGED vars BY <1>7, SameControl, Zenon
<1>8. Next \/ UNCHANGED vars BY Zenon
<1> QED BY <1>1, <1>2, <1>3, <1>4, <1>5, <1>6, <1>7, <1>8, Zenon DEF Next, Ended

-----------------------------------------------------------------------------
(* The identities.  What a list becomes: links from it, perhaps of another
   player, and new ones. *)
Alike(d, c) ==
  /\ d.id = c.id /\ d.event = c.event /\ d.causes = c.causes /\ d.at = c.at
  /\ d.delay = c.delay
From(T, S) == \A d \in T : \E c \in S : Alike(d, c) /\ d.chain_count = c.chain_count
Similar(t, s) ==
  /\ Len(t) = Len(s)
  /\ \A i \in 1 .. Len(s) : Alike(t[i], s[i]) /\ t[i].kind = s[i].kind /\ t[i].player = s[i].player

ListsStep(f, o, q, causes) ==
  /\ From(new_fchain', new_fchain \cup f) /\ From(new_fchain_s', new_fchain_s)
  /\ From(new_ochain', new_ochain \cup o) /\ From(new_ochain_s', new_ochain_s)
  /\ From(quick_f_chain', quick_f_chain \cup q)
  /\ From(new_ochain_h', new_ochain_h \cup new_ochain_s)
  /\ f \subseteq NewLinks(next_id, next_id', {"forced"}, causes, started')
  /\ o \subseteq NewLinks(next_id, next_id', {"optional", "hidden"}, causes, started')
  /\ q \subseteq NewLinks(next_id, next_id', {"quick"}, causes, started')
  /\ Single(f \cup o \cup q)
  /\ causes \in 0 .. MaxLinks
  /\ next_id <= next_id' /\ started <= started' /\ MaxLinks' = MaxLinks

LEMMA FromSubset ==
  ASSUME NEW T, NEW S, T \subseteq S
  PROVE  From(T, S)
BY DEF From, Alike

LEMMA FromMoved ==
  ASSUME NEW S \in SUBSET AnyLink, NEW T \in Rearranged(S)
  PROVE  From(T, S)
<1>1. \A d \in T : \E c \in S : \E p \in Players : d = [c EXCEPT !.player = p]
  BY RearrangedKeeps
<1>2. ASSUME NEW c \in AnyLink, NEW p, NEW d, d = [c EXCEPT !.player = p]
      PROVE  Alike(d, c) /\ d.chain_count = c.chain_count
  BY <1>2 DEF Alike, AnyLink
<1> QED BY <1>1, <1>2 DEF From

LEMMA FromIds ==
  ASSUME NEW T, NEW S, From(T, S)
  PROVE  Ids(T) \subseteq Ids(S)
BY DEF From, Ids, Alike

LEMMA IdsUnion ==
  ASSUME NEW S, NEW T
  PROVE  Ids(S \cup T) = Ids(S) \cup Ids(T)
BY DEF Ids

(* The identities of new triggers are new, and different. *)
LEMMA NewIds ==
  ASSUME Typed, NEW f, NEW o, NEW q, NEW causes, ListsStep(f, o, q, causes)
  PROVE  /\ Ids(f) \cup Ids(o) \cup Ids(q) \subseteq next_id .. next_id' - 1
         /\ Ids(f) \cap Ids(o) = {} /\ Ids(f) \cap Ids(q) = {} /\ Ids(o) \cap Ids(q) = {}
<1>1. /\ \A c \in f : c.id \in next_id .. next_id' - 1 /\ c.kind = "forced"
      /\ \A c \in o : c.id \in next_id .. next_id' - 1 /\ c.kind \in {"optional", "hidden"}
      /\ \A c \in q : c.id \in next_id .. next_id' - 1 /\ c.kind = "quick"
  BY DEF ListsStep, NewLinks
<1>2. \A c, d \in f \cup o \cup q : c.id = d.id => c = d BY DEF ListsStep, Single
<1>3. Ids(f) \cup Ids(o) \cup Ids(q) \subseteq next_id .. next_id' - 1 BY <1>1 DEF Ids
<1>4. ASSUME NEW A \in SUBSET (f \cup o \cup q), NEW B \in SUBSET (f \cup o \cup q),
             \A c \in A, d \in B : c.kind # d.kind
      PROVE  Ids(A) \cap Ids(B) = {}
  BY <1>2, <1>4 DEF Ids
<1>5. \A c \in f, d \in o : c.kind # d.kind BY <1>1
<1>6. \A c \in f, d \in q : c.kind # d.kind BY <1>1
<1>7. \A c \in o, d \in q : c.kind # d.kind BY <1>1
<1> QED BY <1>3, <1>4, <1>5, <1>6, <1>7

(* What an action does to the lists keeps what is said of them. *)
LEMMA ListsKept ==
  ASSUME Typed, Typed', Identities, NEW f, NEW o, NEW q, NEW causes, ListsStep(f, o, q, causes)
  PROVE  /\ \A c \in Lists' : (WellMade(c) /\ c.chain_count = 0)'
         /\ \A c : WellMade(c) => MadeIn(c, MaxLinks', started')
         /\ started' = started => MissedTiming'
         /\ Ids(new_fchain') \subseteq Ids(new_fchain) \cup Ids(f)
         /\ Ids(new_fchain_s') \subseteq Ids(new_fchain_s)
         /\ Ids(new_ochain') \subseteq Ids(new_ochain) \cup Ids(o)
         /\ Ids(new_ochain_s') \subseteq Ids(new_ochain_s)
         /\ Ids(quick_f_chain') \subseteq Ids(quick_f_chain) \cup Ids(q)
         /\ Ids(new_ochain_h') \subseteq Ids(new_ochain_h) \cup Ids(new_ochain_s)
<1>1. started \in Nat /\ started' \in Nat /\ started <= started' /\ MaxLinks' = MaxLinks
  BY DEF Typed, DataTyped, ListsStep
<1>2. next_id \in Nat /\ next_id >= 1 /\ next_id' \in Nat /\ next_id' <= MaxLinks + 1 /\ MaxLinks \in Nat
  <2>1. next_id' \in 1 .. MaxLinks' + 1 BY DEF Typed, DataTyped
  <2> QED BY <1>1, <2>1, Settled
<1>3. ASSUME NEW c, WellMade(c)
      PROVE  WellMade(c)'
  BY <1>1, <1>3 DEF WellMade, MadeIn
<1>4. ASSUME NEW c, NEW kinds, c \in NewLinks(next_id, next_id', kinds, causes, started')
      PROVE  WellMade(c)' /\ c.chain_count = 0 /\ c.at = started'
  <2>1. /\ c.id \in next_id .. next_id' - 1 /\ c.event = next_id /\ c.causes = causes
        /\ c.at = started' /\ c.chain_count = 0 /\ causes \in 0 .. MaxLinks
    BY <1>4 DEF NewLinks, ListsStep
  <2> QED BY <1>1, <1>2, <2>1 DEF WellMade, MadeIn
<1>5. ASSUME NEW T, NEW S, From(T, S),
             \A c \in S : WellMade(c)' /\ c.chain_count = 0
      PROVE  \A d \in T : WellMade(d)' /\ d.chain_count = 0
  BY <1>5 DEF From, Alike, WellMade, MadeIn
<1>6. \A c \in Lists \cup f \cup o \cup q : WellMade(c)' /\ c.chain_count = 0
  BY <1>3, <1>4 DEF Identities, Made, ListsStep
<1>7. \A c \in Lists' : WellMade(c)' /\ c.chain_count = 0
  <2>1. /\ \A c \in new_fchain' : WellMade(c)' /\ c.chain_count = 0
        /\ \A c \in new_fchain_s' : WellMade(c)' /\ c.chain_count = 0
        /\ \A c \in new_ochain' : WellMade(c)' /\ c.chain_count = 0
        /\ \A c \in new_ochain_s' : WellMade(c)' /\ c.chain_count = 0
        /\ \A c \in quick_f_chain' : WellMade(c)' /\ c.chain_count = 0
        /\ \A c \in new_ochain_h' : WellMade(c)' /\ c.chain_count = 0
    <3>1. /\ new_fchain \cup f \subseteq Lists \cup f \cup o \cup q
          /\ new_fchain_s \subseteq Lists \cup f \cup o \cup q
          /\ new_ochain \cup o \subseteq Lists \cup f \cup o \cup q
          /\ new_ochain_s \subseteq Lists \cup f \cup o \cup q
          /\ quick_f_chain \cup q \subseteq Lists \cup f \cup o \cup q
          /\ new_ochain_h \cup new_ochain_s \subseteq Lists \cup f \cup o \cup q
      BY DEF Lists, Waiting
    <3>2. \A S \in SUBSET (Lists \cup f \cup o \cup q) : \A c \in S : WellMade(c)' /\ c.chain_count = 0
      BY <1>6
    <3> HIDE DEF Lists
    <3> QED BY <1>5, <3>1, <3>2 DEF ListsStep
  <2> QED BY <2>1 DEF Lists, Waiting
<1>8. started' = started => MissedTiming'
  <2> SUFFICES ASSUME started' = started
               PROVE  MissedTiming'
    OBVIOUS
  <2>1. \A c \in new_ochain \cup o \cup new_ochain_s \cup new_ochain_h : c.delay \/ c.at = started'
    BY <1>4 DEF Identities, MissedTiming, ListsStep
  <2>2. ASSUME NEW T, NEW S, From(T, S), \A c \in S : c.delay \/ c.at = started'
        PROVE  \A d \in T : d.delay \/ d.at = started'
    BY <2>2 DEF From, Alike
  <2>3. /\ \A c \in new_ochain' : c.delay \/ c.at = started'
        /\ \A c \in new_ochain_s' : c.delay \/ c.at = started'
        /\ \A c \in new_ochain_h' : c.delay \/ c.at = started'
    <3>1. /\ \A c \in new_ochain \cup o : c.delay \/ c.at = started'
          /\ \A c \in new_ochain_s : c.delay \/ c.at = started'
          /\ \A c \in new_ochain_h \cup new_ochain_s : c.delay \/ c.at = started'
      BY <2>1
    <3> QED BY <2>2, <3>1 DEF ListsStep
  <2> QED BY <2>3 DEF MissedTiming
<1>9. /\ Ids(new_fchain') \subseteq Ids(new_fchain) \cup Ids(f)
      /\ Ids(new_fchain_s') \subseteq Ids(new_fchain_s)
      /\ Ids(new_ochain') \subseteq Ids(new_ochain) \cup Ids(o)
      /\ Ids(new_ochain_s') \subseteq Ids(new_ochain_s)
      /\ Ids(quick_f_chain') \subseteq Ids(quick_f_chain) \cup Ids(q)
      /\ Ids(new_ochain_h') \subseteq Ids(new_ochain_h) \cup Ids(new_ochain_s)
  BY FromIds, IdsUnion, Zenon DEF ListsStep
<1> QED BY <1>3, <1>7, <1>8, <1>9 DEF WellMade

LEMMA SimilarIds ==
  ASSUME NEW s \in Seq(AnyLink), NEW t \in Seq(AnyLink), Similar(t, s)
  PROVE  /\ LinkIds(t) = LinkIds(s) /\ (Distinct(s) => Distinct(t))
<1>1. DOMAIN s = 1 .. Len(s) /\ DOMAIN t = 1 .. Len(s) BY LenProperties DEF Similar
<1>2. \A i \in 1 .. Len(s) : t[i].id = s[i].id BY DEF Similar, Alike
<1>3. LinkIds(t) = LinkIds(s) BY <1>1, <1>2 DEF LinkIds
<1>4. Distinct(s) => Distinct(t) BY <1>1, <1>2 DEF Distinct
<1> QED BY <1>3, <1>4

LEMMA ChosenTyped ==
  ASSUME Typed
  PROVE  /\ Chosen \in Seq(AnyLink) /\ new_chains \in Seq(AnyLink) /\ current_chain \in Seq(AnyLink)
         /\ DOMAIN Chosen = 1 .. Len(Chosen) /\ Len(Chosen) \in Nat
         /\ DOMAIN new_chains = 1 .. Len(new_chains) /\ Len(new_chains) \in Nat
         /\ DOMAIN current_chain = 1 .. Len(current_chain) /\ Len(current_chain) \in Nat
         /\ Len(Chosen) = Len(current_chain) + Len(new_chains)
         /\ \A i \in 1 .. Len(Chosen) :
              Chosen[i] = IF i <= Len(current_chain) THEN current_chain[i]
                          ELSE new_chains[i - Len(current_chain)]
<1>1. new_chains \in Seq(AnyLink) /\ current_chain \in Seq(AnyLink)
  BY DEF Typed, DataTyped
<1>2. /\ Chosen \in Seq(AnyLink) /\ Len(Chosen) = Len(current_chain) + Len(new_chains)
      /\ \A i \in 1 .. Len(current_chain) + Len(new_chains) :
           Chosen[i] = IF i <= Len(current_chain) THEN current_chain[i]
                       ELSE new_chains[i - Len(current_chain)]
  BY <1>1, ConcatProperties DEF Chosen
<1>3. /\ DOMAIN Chosen = 1 .. Len(Chosen) /\ Len(Chosen) \in Nat
      /\ DOMAIN new_chains = 1 .. Len(new_chains) /\ Len(new_chains) \in Nat
      /\ DOMAIN current_chain = 1 .. Len(current_chain) /\ Len(current_chain) \in Nat
  BY <1>1, <1>2, LenProperties
<1> QED BY <1>1, <1>2, <1>3

(* A list is part of the lists. *)
LEMMA ListsOf ==
  /\ Ids(Waiting) = Ids(new_fchain) \cup Ids(new_fchain_s) \cup Ids(new_ochain)
                      \cup Ids(new_ochain_s) \cup Ids(quick_f_chain)
  /\ Ids(Lists) = Ids(Waiting) \cup Ids(new_ochain_h)
BY DEF Ids, Lists, Waiting

LEMMA Ranges ==
  ASSUME NEW a \in Nat, NEW b \in Nat, a >= 1, a <= b
  PROVE  /\ \A i \in 1 .. a - 1 : i \in 1 .. b - 1 /\ i \notin a .. b - 1
         /\ \A i \in a .. b - 1 : i \in 1 .. b - 1
OBVIOUS

(* An identity that is gone does not come back. *)
NoReturn == next_id <= next_id' /\ \A i \in 1 .. next_id - 1 : i \in Live' => i \in Live

LEMMA KnownKept ==
  ASSUME Typed, Typed', Identities, NEW f, NEW o, NEW q, NEW causes, ListsStep(f, o, q, causes),
         NEW j, j \subseteq 1 .. next_id' - 1, \A i \in j : i \in Live \/ i \notin 1 .. next_id - 1,
         LinkIds(Chosen') \subseteq LinkIds(Chosen) \cup j, chaining' \subseteq chaining \cup j
  PROVE  Known' /\ NoReturn
<1>1. next_id \in Nat /\ next_id >= 1 /\ next_id' \in Nat /\ next_id <= next_id'
  <2>1. next_id' \in 1 .. MaxLinks' + 1 BY DEF Typed, DataTyped
  <2> QED BY <2>1, Settled DEF ListsStep
<1>2. Ids(f) \cup Ids(o) \cup Ids(q) \subseteq next_id .. next_id' - 1 BY NewIds
<1>3. Ids(Lists') \subseteq Ids(Lists) \cup Ids(f) \cup Ids(o) \cup Ids(q)
  <2>1. Ids(Lists') = Ids(new_fchain') \cup Ids(new_fchain_s') \cup Ids(new_ochain')
                        \cup Ids(new_ochain_s') \cup Ids(quick_f_chain') \cup Ids(new_ochain_h')
    BY DEF Ids, Lists, Waiting
  <2>2. Ids(Lists) = Ids(new_fchain) \cup Ids(new_fchain_s) \cup Ids(new_ochain)
                       \cup Ids(new_ochain_s) \cup Ids(quick_f_chain) \cup Ids(new_ochain_h)
    BY ListsOf
  <2> QED BY <2>1, <2>2, ListsKept
<1>4. \A i \in 1 .. next_id - 1 : i \in 1 .. next_id' - 1 BY <1>1, Ranges
<1>5. \A i \in next_id .. next_id' - 1 : i \in 1 .. next_id' - 1 BY <1>1, Ranges
<1>6. Ids(Lists) \cup LinkIds(Chosen) \cup chaining \subseteq 1 .. next_id - 1
  BY DEF Identities, Known, Live
<1>7. Ids(Lists') \cup LinkIds(Chosen') \cup chaining' \subseteq 1 .. next_id' - 1
  BY <1>2, <1>3, <1>4, <1>5, <1>6
<1>8. \A i \in next_id .. next_id' - 1 : i \notin 1 .. next_id - 1 BY <1>1, Ranges
<1>9. \A i \in 1 .. next_id - 1 :
        i \in Ids(Lists') \cup LinkIds(Chosen') => i \in Ids(Lists) \cup LinkIds(Chosen)
  BY <1>2, <1>3, <1>8 DEF Live
<1> QED BY <1>1, <1>7, <1>9 DEF Known, NoReturn, Live, LinkIds, Ids

(* Nothing is chosen; what is on its way to the chain, or on it, may be
   negated and get its place. *)
LEMMA IdentitiesKept ==
  ASSUME Typed, Typed', Identities, NEW f, NEW o, NEW q, NEW causes, ListsStep(f, o, q, causes),
         Similar(Chosen', Chosen), Counted', MissedTiming',
         chaining' \subseteq chaining, chaining' = chaining \/ new_ochain_h' = {}
  PROVE  Identities' /\ NoReturn
<1>1. /\ Chosen \in Seq(AnyLink) /\ Chosen' \in Seq(AnyLink)
      /\ DOMAIN Chosen' = 1 .. Len(Chosen') /\ DOMAIN Chosen = 1 .. Len(Chosen)
  <2>1. Chosen' \in Seq(AnyLink) BY ConcatProperties DEF Typed, DataTyped, Chosen
  <2> QED BY <2>1, ChosenTyped, LenProperties
<1>2. LinkIds(Chosen') = LinkIds(Chosen) /\ Distinct(Chosen')
  BY <1>1, SimilarIds DEF Identities
<1>3. Known' /\ NoReturn
  <2> DEFINE j == {}
  <2>1. /\ j \subseteq 1 .. next_id' - 1 /\ \A i \in j : i \in Live \/ i \notin 1 .. next_id - 1
        /\ LinkIds(Chosen') \subseteq LinkIds(Chosen) \cup j /\ chaining' \subseteq chaining \cup j
    BY <1>2
  <2> HIDE DEF j
  <2> QED BY <2>1, KnownKept
<1>4. Apart'
  <2>1. /\ Ids(f) \cup Ids(o) \cup Ids(q) \subseteq next_id .. next_id' - 1
        /\ Ids(f) \cap Ids(o) = {} /\ Ids(f) \cap Ids(q) = {} /\ Ids(o) \cap Ids(q) = {}
    BY NewIds
  <2>2. (Ids(f) \cup Ids(o) \cup Ids(q)) \cap (Ids(Lists) \cup LinkIds(Chosen)) = {}
    <3>1. Ids(Lists) \cup LinkIds(Chosen) \subseteq 1 .. next_id - 1
      BY DEF Identities, Known, Live
    <3>2. \A i \in next_id .. next_id' - 1 : i \notin 1 .. next_id - 1
      <4>1. next_id \in Nat BY Settled
      <4> QED BY <4>1
    <3> QED BY <2>1, <3>1, <3>2
  <2>3. Ids(Lists) = Ids(new_fchain) \cup Ids(new_fchain_s) \cup Ids(new_ochain)
                       \cup Ids(new_ochain_s) \cup Ids(quick_f_chain) \cup Ids(new_ochain_h)
    BY ListsOf
  <2>4. ApartIn(Ids(new_fchain), Ids(new_fchain_s), Ids(new_ochain), Ids(new_ochain_s),
                Ids(quick_f_chain), Ids(new_ochain_h), LinkIds(Chosen), chaining)
    BY DEF Identities, Apart
  <2>5. (Ids(f) \cup Ids(o) \cup Ids(q)) \cap
          (Ids(new_fchain) \cup Ids(new_fchain_s) \cup Ids(new_ochain) \cup Ids(new_ochain_s)
             \cup Ids(quick_f_chain) \cup Ids(new_ochain_h) \cup LinkIds(Chosen)) = {}
    BY <2>2, <2>3
  <2>6. chaining \cup {} \subseteq chaining' \/ Ids(new_ochain_h') = {} BY DEF Ids
  <2>7. ApartIn(Ids(new_fchain'), Ids(new_fchain_s'), Ids(new_ochain'), Ids(new_ochain_s'),
                Ids(quick_f_chain'), Ids(new_ochain_h'), LinkIds(Chosen'), chaining')
    <3> DEFINE k == LinkIds(Chosen)
               k1 == LinkIds(Chosen')
    <3>1. k1 \subseteq k \cup {} BY <1>2
    <3>2. /\ Ids(new_fchain') \subseteq Ids(new_fchain) \cup Ids(f)
          /\ Ids(new_fchain_s') \subseteq Ids(new_fchain_s)
          /\ Ids(new_ochain') \subseteq Ids(new_ochain) \cup Ids(o)
          /\ Ids(new_ochain_s') \subseteq Ids(new_ochain_s)
          /\ Ids(quick_f_chain') \subseteq Ids(quick_f_chain) \cup Ids(q)
          /\ Ids(new_ochain_h') \subseteq Ids(new_ochain_h) \cup Ids(new_ochain_s)
      BY ListsKept
    <3>3. {} \cap (Ids(new_fchain') \cup Ids(new_fchain_s') \cup Ids(new_ochain') \cup Ids(new_ochain_s')
             \cup Ids(quick_f_chain')) = {}
      OBVIOUS
    <3> HIDE DEF k, k1
    <3> QED BY <2>1, <2>4, <2>5, <2>6, <3>1, <3>2 DEF k, k1, ApartIn
  <2> QED BY <2>7 DEF Apart, Ids, LinkIds
<1>5. Made'
  <2>1. \A c \in Lists' : (WellMade(c) /\ c.chain_count = 0)' BY ListsKept
  <2>2. ASSUME NEW i \in DOMAIN Chosen'
        PROVE  MadeIn(Chosen'[i], MaxLinks', started')
    <3>1. i \in 1 .. Len(Chosen) /\ i \in DOMAIN Chosen BY <1>1 DEF Similar
    <3>2. Alike(Chosen'[i], Chosen[i]) BY <3>1 DEF Similar
    <3>3. WellMade(Chosen[i]) BY <3>1 DEF Identities, Made
    <3>4. MadeIn(Chosen[i], MaxLinks', started') BY <3>3, ListsKept, Zenon
    <3> QED BY <3>2, <3>4 DEF Alike, MadeIn
  <2> QED BY <2>1, <2>2 DEF Made, WellMade
<1> QED BY <1>2, <1>3, <1>4, <1>5 DEF Identities, Distinct

(* A link is chosen, that waits no longer and was not chosen before. *)
LEMMA IdentitiesChosen ==
  ASSUME Typed, Typed', Identities, ListsStep({}, {}, {}, 0), started' = started,
         NEW c \in AnyLink, Chosen' = Append(Chosen, c), Counted',
         chaining' = chaining \cup {c.id}, WellMade(c), c.id \in 1 .. next_id' - 1,
         c.id \in Live \/ c.id \notin 1 .. next_id - 1,
         c.id \notin LinkIds(Chosen), c.id \notin Ids(Waiting')
  PROVE  Identities' /\ NoReturn
<1>1. /\ Chosen \in Seq(AnyLink) /\ Chosen' \in Seq(AnyLink) /\ Len(Chosen) \in Nat
      /\ Len(Chosen') = Len(Chosen) + 1
      /\ \A i \in 1 .. Len(Chosen) : Chosen'[i] = Chosen[i]
      /\ Chosen'[Len(Chosen) + 1] = c
      /\ DOMAIN Chosen = 1 .. Len(Chosen) /\ DOMAIN Chosen' = 1 .. Len(Chosen) + 1
  <2>1. Chosen \in Seq(AnyLink) /\ Len(Chosen) \in Nat /\ DOMAIN Chosen = 1 .. Len(Chosen)
    BY ChosenTyped
  <2>2. /\ Append(Chosen, c) \in Seq(AnyLink) /\ Len(Append(Chosen, c)) = Len(Chosen) + 1
        /\ \A i \in 1 .. Len(Chosen) : Append(Chosen, c)[i] = Chosen[i]
        /\ Append(Chosen, c)[Len(Chosen) + 1] = c
    BY <2>1, AppendProperties
  <2> QED BY <2>1, <2>2, LenProperties
<1>2. \A i \in 1 .. Len(Chosen) + 1 : i \in 1 .. Len(Chosen) \/ i = Len(Chosen) + 1
  BY <1>1
<1>3. LinkIds(Chosen') \subseteq LinkIds(Chosen) \cup {c.id} BY <1>1, <1>2 DEF LinkIds
<1>4. Distinct(Chosen')
  <2>1. \A i \in 1 .. Len(Chosen) : Chosen[i].id # c.id BY <1>1 DEF LinkIds
  <2>2. \A i, j \in 1 .. Len(Chosen) : Chosen[i].id = Chosen[j].id => i = j
    BY <1>1 DEF Identities, Distinct
  <2>3. \A i, j \in DOMAIN Chosen' : Chosen'[i].id = Chosen'[j].id => i = j
    BY <1>1, <1>2, <2>1, <2>2
  <2> QED BY <2>3 DEF Distinct
<1>5. Known' /\ NoReturn
  <2> DEFINE j == {c.id}
  <2>1. /\ j \subseteq 1 .. next_id' - 1 /\ \A i \in j : i \in Live \/ i \notin 1 .. next_id - 1
        /\ LinkIds(Chosen') \subseteq LinkIds(Chosen) \cup j /\ chaining' \subseteq chaining \cup j
    BY <1>3
  <2> HIDE DEF j
  <2> QED BY <2>1, KnownKept
<1>6. /\ Ids(new_fchain') \subseteq Ids(new_fchain)
      /\ Ids(new_fchain_s') \subseteq Ids(new_fchain_s)
      /\ Ids(new_ochain') \subseteq Ids(new_ochain)
      /\ Ids(new_ochain_s') \subseteq Ids(new_ochain_s)
      /\ Ids(quick_f_chain') \subseteq Ids(quick_f_chain)
      /\ Ids(new_ochain_h') \subseteq Ids(new_ochain_h) \cup Ids(new_ochain_s)
  <2>1. Ids({}) = {} BY DEF Ids
  <2> QED BY <2>1, ListsKept
<1>7. Apart'
  <2>1. ApartIn(Ids(new_fchain), Ids(new_fchain_s), Ids(new_ochain), Ids(new_ochain_s),
                Ids(quick_f_chain), Ids(new_ochain_h), LinkIds(Chosen), chaining)
    BY DEF Identities, Apart
  <2>2. c.id \notin Ids(new_fchain') \cup Ids(new_fchain_s') \cup Ids(new_ochain')
                      \cup Ids(new_ochain_s') \cup Ids(quick_f_chain')
    BY DEF Ids, Waiting
  <2>3. ApartIn(Ids(new_fchain'), Ids(new_fchain_s'), Ids(new_ochain'), Ids(new_ochain_s'),
                Ids(quick_f_chain'), Ids(new_ochain_h'), LinkIds(Chosen'), chaining')
    <3> DEFINE k == LinkIds(Chosen)
               k1 == LinkIds(Chosen')
    <3>1. k1 \subseteq k \cup {c.id} BY <1>3
    <3> HIDE DEF k, k1
    <3> QED BY <1>6, <2>1, <2>2, <3>1 DEF k, k1, ApartIn
  <2> QED BY <2>3 DEF Apart, Ids, LinkIds
<1>8. Made'
  <2>1. \A d \in Lists' : (WellMade(d) /\ d.chain_count = 0)' BY ListsKept
  <2>2. \A d : WellMade(d) => MadeIn(d, MaxLinks', started') BY ListsKept
  <2>3. ASSUME NEW i \in DOMAIN Chosen'
        PROVE  MadeIn(Chosen'[i], MaxLinks', started')
    <3>1. CASE i \in 1 .. Len(Chosen) BY <1>1, <2>2, <3>1, Zenon DEF Identities, Made
    <3>2. CASE i = Len(Chosen) + 1 BY <1>1, <2>2, <3>2, Zenon
    <3> QED BY <1>1, <1>2, <3>1, <3>2
  <2> QED BY <2>1, <2>3 DEF Made, WellMade
<1>9. MissedTiming' BY ListsKept
<1> QED BY <1>4, <1>5, <1>7, <1>8, <1>9 DEF Identities, Distinct

(* The sequence of what was chosen, as its two parts change. *)
LEMMA ChosenLast ==
  ASSUME Typed, Counted, NEW c \in AnyLink, c.chain_count = 0, UNCHANGED current_chain,
         new_chains' = Append(new_chains, c)
  PROVE  Chosen' = Append(Chosen, c) /\ Counted'
<1>1. /\ new_chains \in Seq(AnyLink) /\ current_chain \in Seq(AnyLink)
      /\ Len(new_chains) \in Nat /\ DOMAIN new_chains = 1 .. Len(new_chains)
  BY ChosenTyped
<1>2. /\ new_chains' \in Seq(AnyLink) /\ Len(new_chains') = Len(new_chains) + 1
      /\ \A i \in 1 .. Len(new_chains) : new_chains'[i] = new_chains[i]
      /\ new_chains'[Len(new_chains) + 1] = c
  BY <1>1, AppendProperties
<1>3. /\ new_chains' = new_chains \o <<c>>
      /\ Append(Chosen, c) = (current_chain \o new_chains) \o <<c>>
      /\ <<c>> \in Seq(AnyLink)
  <2>1. current_chain \o new_chains \in Seq(AnyLink) BY <1>1, ConcatProperties
  <2>2. <<c>> \in Seq(AnyLink) OBVIOUS
  <2> QED BY <1>1, <2>1, <2>2, AppendIsConcat DEF Chosen
<1>4. (current_chain \o new_chains) \o <<c>> = current_chain \o (new_chains \o <<c>>)
  BY <1>1, <1>3, ConcatAssociative
<1>5. Chosen' = Append(Chosen, c) BY <1>3, <1>4 DEF Chosen
<1>6. DOMAIN new_chains' = 1 .. Len(new_chains) + 1 BY <1>2, LenProperties
<1>7. \A i \in DOMAIN new_chains' : new_chains'[i].chain_count = 0
  BY <1>1, <1>2, <1>6 DEF Counted
<1> QED BY <1>5, <1>7 DEF Counted

LEMMA ChosenSame ==
  ASSUME Typed, Counted, UNCHANGED <<new_chains, current_chain>>
  PROVE  Chosen' = Chosen /\ Similar(Chosen', Chosen) /\ Counted'
BY DEF Chosen, Similar, Alike, Counted

LEMMA ChosenNegated ==
  ASSUME Typed, Counted, UNCHANGED new_chains, Negate
  PROVE  /\ Similar(Chosen', Chosen) /\ Counted' /\ current_chain' \in Seq(AnyLink)
         /\ Len(current_chain') = Len(current_chain)
<1>1. CASE UNCHANGED current_chain BY <1>1, ChosenSame, ChosenTyped
<1>2. CASE \E i \in DOMAIN current_chain :
             current_chain' = [current_chain EXCEPT ![i].negated = TRUE]
  <2>1. PICK i \in DOMAIN current_chain :
          current_chain' = [current_chain EXCEPT ![i].negated = TRUE]
    BY <1>2
  <2>2. /\ new_chains \in Seq(AnyLink) /\ current_chain \in Seq(AnyLink)
        /\ i \in 1 .. Len(current_chain) /\ Len(current_chain) \in Nat /\ Len(new_chains) \in Nat
    BY ChosenTyped
  <2>3. PICK e : e = [current_chain[i] EXCEPT !.negated = TRUE] OBVIOUS
  <2>4. /\ e \in AnyLink /\ Alike(e, current_chain[i]) /\ e.kind = current_chain[i].kind
        /\ e.player = current_chain[i].player /\ e.chain_count = current_chain[i].chain_count
    <3>1. current_chain[i] \in AnyLink BY <2>2
    <3> QED BY <2>3, <3>1 DEF AnyLink, Alike
  <2>5. current_chain' = [current_chain EXCEPT ![i] = e] BY <2>1, <2>3
  <2>6. /\ current_chain' \in Seq(AnyLink) /\ Len(current_chain') = Len(current_chain)
        /\ \A j \in 1 .. Len(current_chain) :
             current_chain'[j] = IF j = i THEN e ELSE current_chain[j]
    BY <2>2, <2>4, <2>5, ExceptSeq
  <2>7. /\ Len(Chosen') = Len(current_chain) + Len(new_chains)
        /\ \A j \in 1 .. Len(current_chain) + Len(new_chains) :
             Chosen'[j] = IF j <= Len(current_chain) THEN current_chain'[j]
                          ELSE new_chains[j - Len(current_chain)]
    <3>1. \A s \in Seq(AnyLink) :
            /\ Len(s \o new_chains) = Len(s) + Len(new_chains)
            /\ \A j \in 1 .. Len(s) + Len(new_chains) :
                 (s \o new_chains)[j] = IF j <= Len(s) THEN s[j] ELSE new_chains[j - Len(s)]
      BY <2>2, ConcatProperties
    <3>2. Chosen' = current_chain' \o new_chains BY DEF Chosen
    <3> QED BY <2>6, <3>1, <3>2
  <2>8. ASSUME NEW j \in 1 .. Len(Chosen)
        PROVE  /\ Alike(Chosen'[j], Chosen[j]) /\ Chosen'[j].kind = Chosen[j].kind
               /\ Chosen'[j].player = Chosen[j].player
    <3>1. /\ j \in 1 .. Len(current_chain) + Len(new_chains)
          /\ Chosen[j] = IF j <= Len(current_chain) THEN current_chain[j]
                         ELSE new_chains[j - Len(current_chain)]
      BY ChosenTyped
    <3>2. CASE j = i BY <2>2, <2>4, <2>6, <2>7, <3>1, <3>2
    <3>3. CASE j # i
      <4>1. Chosen'[j] = Chosen[j] BY <2>2, <2>6, <2>7, <3>1, <3>3
      <4> QED BY <4>1 DEF Alike
    <3> QED BY <3>2, <3>3
  <2>9. Similar(Chosen', Chosen) BY <2>7, <2>8, ChosenTyped DEF Similar
  <2>10. DOMAIN current_chain' = DOMAIN current_chain /\ DOMAIN current_chain = 1 .. Len(current_chain)
    BY <2>2, <2>6, LenProperties
  <2>11. \A j \in DOMAIN current_chain' : current_chain'[j].chain_count = j
    BY <2>4, <2>6, <2>10 DEF Counted
  <2> QED BY <2>6, <2>9, <2>11 DEF Counted
<1> QED BY <1>1, <1>2 DEF Negate

LEMMA ChosenLinked ==
  ASSUME Typed, Counted, new_chains # <<>>, NEW d,
         d = [Head(new_chains) EXCEPT !.chain_count = Len(current_chain) + 1],
         current_chain' = Append(current_chain, d), new_chains' = Tail(new_chains)
  PROVE  /\ Similar(Chosen', Chosen) /\ Counted'
         /\ Len(current_chain') = Len(current_chain) + 1
<1> DEFINE n == Len(current_chain)
<1>1. /\ new_chains \in Seq(AnyLink) /\ current_chain \in Seq(AnyLink)
      /\ n \in Nat /\ Len(new_chains) \in Nat /\ Len(new_chains) >= 1
      /\ DOMAIN new_chains = 1 .. Len(new_chains) /\ DOMAIN current_chain = 1 .. n
  BY ChosenTyped, EmptySeq
<1>2. /\ Head(new_chains) = new_chains[1] /\ new_chains[1] \in AnyLink
      /\ new_chains' \in Seq(AnyLink) /\ Len(new_chains') = Len(new_chains) - 1
      /\ \A i \in 1 .. Len(new_chains) - 1 : new_chains'[i] = new_chains[i + 1]
  BY <1>1, HeadTailProperties
<1>3. /\ d \in AnyLink /\ Alike(d, new_chains[1]) /\ d.kind = new_chains[1].kind
      /\ d.player = new_chains[1].player /\ d.chain_count = n + 1
  <2>1. PICK e \in AnyLink : e = new_chains[1] BY <1>2
  <2>2. PICK m \in Nat : m = n + 1 BY <1>1
  <2>3. d = [e EXCEPT !.chain_count = m] BY <1>2, <2>1, <2>2
  <2> HIDE DEF n
  <2> QED BY <2>1, <2>2, <2>3 DEF AnyLink, Alike
<1>4. /\ current_chain' \in Seq(AnyLink) /\ Len(current_chain') = n + 1
      /\ \A i \in 1 .. n : current_chain'[i] = current_chain[i]
      /\ current_chain'[n + 1] = d
  BY <1>1, <1>3, AppendProperties
<1>5. /\ Len(Chosen') = n + Len(new_chains)
      /\ \A j \in 1 .. n + Len(new_chains) :
           Chosen'[j] = IF j <= n + 1 THEN current_chain'[j] ELSE new_chains'[j - (n + 1)]
  <2>1. \A s, t \in Seq(AnyLink) :
          /\ Len(s \o t) = Len(s) + Len(t)
          /\ \A j \in 1 .. Len(s) + Len(t) :
               (s \o t)[j] = IF j <= Len(s) THEN s[j] ELSE t[j - Len(s)]
    BY ConcatProperties
  <2>2. Chosen' = current_chain' \o new_chains' BY DEF Chosen
  <2>3. (n + 1) + (Len(new_chains) - 1) = n + Len(new_chains) BY <1>1
  <2>4. /\ Len(Chosen') = Len(current_chain') + Len(new_chains')
        /\ \A j \in 1 .. Len(current_chain') + Len(new_chains') :
             Chosen'[j] = IF j <= Len(current_chain') THEN current_chain'[j]
                          ELSE new_chains'[j - Len(current_chain')]
    BY <1>2, <1>4, <2>1, <2>2
  <2> HIDE DEF n
  <2> QED BY <1>2, <1>4, <2>3, <2>4
<1>6. ASSUME NEW j \in 1 .. Len(Chosen)
      PROVE  /\ Alike(Chosen'[j], Chosen[j]) /\ Chosen'[j].kind = Chosen[j].kind
             /\ Chosen'[j].player = Chosen[j].player
  <2>1. /\ j \in 1 .. n + Len(new_chains)
        /\ Chosen[j] = IF j <= n THEN current_chain[j] ELSE new_chains[j - n]
    BY ChosenTyped
  <2> HIDE DEF n
  <2>2. CASE j <= n
    <3>1. Chosen'[j] = Chosen[j] BY <1>1, <1>4, <1>5, <2>1, <2>2
    <3> QED BY <3>1 DEF Alike
  <2>3. CASE j = n + 1
    <3>1. Chosen'[j] = d /\ Chosen[j] = new_chains[1]
      <4>1. j <= n + 1 /\ ~(j <= n) /\ j - n = 1 BY <1>1, <2>3
      <4> QED BY <1>4, <1>5, <2>1, <2>3, <4>1
    <3> QED BY <1>3, <3>1
  <2>4. CASE j > n + 1
    <3>1. j - (n + 1) \in 1 .. Len(new_chains) - 1 /\ (j - (n + 1)) + 1 = j - n /\ ~(j <= n + 1) /\ ~(j <= n)
      BY <1>1, <2>1, <2>4
    <3>2. Chosen'[j] = Chosen[j] BY <1>2, <1>5, <2>1, <3>1
    <3> QED BY <3>2 DEF Alike
  <2> QED BY <1>1, <2>1, <2>2, <2>3, <2>4
<1>7. Similar(Chosen', Chosen) BY <1>5, <1>6, ChosenTyped DEF Similar
<1>8. DOMAIN current_chain' = 1 .. n + 1 /\ DOMAIN new_chains' = 1 .. Len(new_chains) - 1
  BY <1>2, <1>4, LenProperties
<1>9. \A i \in DOMAIN current_chain' : current_chain'[i].chain_count = i
  BY <1>1, <1>3, <1>4, <1>8 DEF Counted
<1>10. \A i \in DOMAIN new_chains' : new_chains'[i].chain_count = 0
  <2>1. \A i \in 1 .. Len(new_chains) - 1 : i + 1 \in 1 .. Len(new_chains) BY <1>1
  <2> QED BY <1>1, <1>2, <1>8, <2>1 DEF Counted
<1> QED BY <1>4, <1>7, <1>9, <1>10 DEF Counted

(* What the worker that runs itself says, and the one under QuickEffect. *)
LEMMA FloorFacts ==
  ASSUME Typed, Control, units # <<>>, Front.kind \notin {"AddChain", "Adjust", "QuickEffect"}
  PROVE  Facts(Front) /\ Floor(Front) /\ Rest(Tail(units)) /\ Shape(units, Front)
BY ShapeKinds DEF Control, Typed

LEMMA QuickFacts ==
  ASSUME Typed, Control, units # <<>>, Front.kind = "QuickEffect"
  PROVE  /\ new_fchain_s = {} /\ new_ochain_s = {}
         /\ ignition_priority_chains => new_ochain_s = {}
<1>1. PICK w \in UnitType : Shape(units, w) /\ Facts(w) BY DEF Control
<1>2. Keeps(w) BY <1>1, QuickFront
<1> QED BY <1>1, <1>2 DEF Facts, ListsEmpty, Keeps, IsAt

LEMMA SomeId ==
  ASSUME NEW S, NEW c \in S
  PROVE  c.id \in Ids(S)
BY DEF Ids

(* The lists shrink, or move. *)
LEMMA LessStep ==
  ASSUME Typed, Typed', new_fchain' \subseteq new_fchain, new_fchain_s' \subseteq new_fchain_s,
         new_ochain' \subseteq new_ochain, new_ochain_s' \subseteq new_ochain_s,
         quick_f_chain' \subseteq quick_f_chain,
         new_ochain_h' \subseteq new_ochain_h \cup new_ochain_s,
         next_id <= next_id', UNCHANGED <<started, setting>>
  PROVE  ListsStep({}, {}, {}, 0)
<1>1. MaxLinks' = MaxLinks /\ 0 \in 0 .. MaxLinks /\ started <= started'
  BY Settled DEF MaxLinks, Typed, DataTyped
<1>2. Single({}) BY DEF Single
<1>3. /\ From(new_fchain', new_fchain \cup {}) /\ From(new_fchain_s', new_fchain_s)
      /\ From(new_ochain', new_ochain \cup {}) /\ From(new_ochain_s', new_ochain_s)
      /\ From(quick_f_chain', quick_f_chain \cup {})
      /\ From(new_ochain_h', new_ochain_h \cup new_ochain_s)
  BY FromSubset
<1> QED BY <1>1, <1>2, <1>3 DEF ListsStep

LEMMA ListsMoved ==
  ASSUME Typed, ControlMoves \/ UNCHANGED <<new_fchain_s, new_ochain_s, new_ochain_h>>
  PROVE  /\ From(new_fchain_s', new_fchain_s) /\ From(new_ochain_s', new_ochain_s)
         /\ From(new_ochain_h', new_ochain_h \cup new_ochain_s)
<1>1. CASE ControlMoves
  <2>1. /\ new_fchain_s \in SUBSET AnyLink /\ new_ochain_s \in SUBSET AnyLink
        /\ new_ochain_h \in SUBSET AnyLink
    BY KindTypes DEF Typed, DataTyped
  <2>2. /\ From(new_fchain_s', new_fchain_s) /\ From(new_ochain_s', new_ochain_s)
        /\ From(new_ochain_h', new_ochain_h)
    BY <1>1, <2>1, FromMoved DEF ControlMoves
  <2>3. From(new_ochain_h', new_ochain_h \cup new_ochain_s) BY <2>2 DEF From
  <2> QED BY <2>2, <2>3
<1>2. CASE UNCHANGED <<new_fchain_s, new_ochain_s, new_ochain_h>> BY <1>2, FromSubset
<1> QED BY <1>1, <1>2

LEMMA RaiseStep ==
  ASSUME Typed, NEW fc \in SUBSET new_fchain, NEW oc \in SUBSET new_ochain,
         NEW causes \in 0 .. MaxLinks, NEW now, RaiseAt(fc, oc, causes, now), now = started',
         started <= started', UNCHANGED setting,
         ControlMoves \/ UNCHANGED <<new_fchain_s, new_ochain_s, new_ochain_h>>
  PROVE  \E f, o, q : ListsStep(f, o, q, causes)
<1>1. PICK f, o, q : Leaves(fc, oc, causes, now, f, o, q) BY RaiseLeaves
<1>2. next_id <= next_id' BY RaiseLeaves
<1>3. /\ new_fchain' \subseteq new_fchain \cup f /\ new_ochain' \subseteq new_ochain \cup o
      /\ quick_f_chain' \subseteq quick_f_chain \cup q
  BY <1>1 DEF Leaves
<1>4. /\ From(new_fchain', new_fchain \cup f) /\ From(new_ochain', new_ochain \cup o)
      /\ From(quick_f_chain', quick_f_chain \cup q)
  BY <1>3, FromSubset
<1>5. MaxLinks' = MaxLinks BY DEF MaxLinks
<1>6. /\ f \subseteq NewLinks(next_id, next_id', {"forced"}, causes, started')
      /\ o \subseteq NewLinks(next_id, next_id', {"optional", "hidden"}, causes, started')
      /\ q \subseteq NewLinks(next_id, next_id', {"quick"}, causes, started')
      /\ Single(f \cup o \cup q)
  BY <1>1 DEF Leaves
<1>7. ListsStep(f, o, q, causes) BY <1>2, <1>4, <1>5, <1>6, ListsMoved DEF ListsStep
<1> QED BY <1>7

(* The two kinds of actions that choose nothing. *)
LEMMA IdentitiesLess ==
  ASSUME Typed, Typed', Identities, UNCHANGED <<new_chains, current_chain>>,
         new_fchain' \subseteq new_fchain, new_fchain_s' \subseteq new_fchain_s,
         new_ochain' \subseteq new_ochain, new_ochain_s' \subseteq new_ochain_s,
         quick_f_chain' \subseteq quick_f_chain,
         new_ochain_h' \subseteq new_ochain_h \cup new_ochain_s,
         next_id' = next_id, UNCHANGED <<started, setting>>,
         chaining' \subseteq chaining, chaining' = chaining \/ new_ochain_h' = {}
  PROVE  Identities' /\ NoReturn
<1>1. next_id <= next_id' BY Settled
<1>2. ListsStep({}, {}, {}, 0) BY <1>1, LessStep
<1>3. Similar(Chosen', Chosen) /\ Counted' BY ChosenSame DEF Identities
<1>4. MissedTiming' BY <1>2, ListsKept
<1> QED BY <1>2, <1>3, <1>4, IdentitiesKept

LEMMA IdentitiesRaised ==
  ASSUME Typed, Typed', Identities, NEW fc \in SUBSET new_fchain, NEW oc \in SUBSET new_ochain,
         NEW causes \in 0 .. MaxLinks, Raise(fc, oc, causes), UNCHANGED <<started, setting, chaining>>,
         ControlMoves \/ UNCHANGED <<new_fchain_s, new_ochain_s, new_ochain_h>>,
         Similar(Chosen', Chosen), Counted'
  PROVE  Identities' /\ NoReturn
<1>1. RaiseAt(fc, oc, causes, started) /\ started = started' /\ started <= started'
  BY DEF Raise, Typed, DataTyped
<1>2. PICK f, o, q : ListsStep(f, o, q, causes) BY <1>1, RaiseStep
<1>3. MissedTiming' BY <1>2, ListsKept
<1> QED BY <1>2, <1>3, IdentitiesKept

(* A chain is no longer than there are identities. *)
LEMMA DistinctLength ==
  ASSUME NEW n \in Nat, NEW s \in Seq(AnyLink), Distinct(s), LinkIds(s) \subseteq 1 .. n
  PROVE  Len(s) <= n
<1>1. DOMAIN s = 1 .. Len(s) /\ Len(s) \in Nat BY LenProperties
<1> DEFINE f == [i \in 1 .. Len(s) |-> s[i].id]
<1>2. f \in Injection(1 .. Len(s), 1 .. n)
  <2>1. f \in [1 .. Len(s) -> 1 .. n] BY <1>1 DEF LinkIds
  <2>2. \A i, j \in 1 .. Len(s) : f[i] = f[j] => i = j BY <1>1 DEF Distinct
  <2> QED BY <2>1, <2>2 DEF Injection, IsInjective
<1>3. /\ IsFiniteSet(1 .. Len(s)) /\ Cardinality(1 .. Len(s)) = Len(s)
      /\ IsFiniteSet(1 .. n) /\ Cardinality(1 .. n) = n
  <2>1. 0 \in Int /\ 1 \in Int /\ Len(s) \in Int /\ n \in Int BY <1>1
  <2>2. \A b \in Nat : IsFiniteSet(1 .. b) /\ Cardinality(1 .. b) = b BY FS_Interval
  <2> QED BY <1>1, <2>2
<1>4. Cardinality(1 .. Len(s)) <= Cardinality(1 .. n) BY <1>2, <1>3, FS_Injection
<1> QED BY <1>3, <1>4

LEMMA ChainLength ==
  ASSUME Typed, Identities
  PROVE  /\ Len(Chosen) <= next_id - 1 /\ Len(Chosen) <= MaxLinks
         /\ Len(current_chain) <= MaxLinks
         /\ current_chain # <<>> => Last.chain_count \in 0 .. MaxLinks
<1>1. next_id \in Nat /\ next_id >= 1 /\ MaxLinks \in Nat /\ next_id <= MaxLinks + 1
  BY Settled
<1>2. next_id - 1 \in Nat BY <1>1
<1>3. LinkIds(Chosen) \subseteq 1 .. next_id - 1 /\ Distinct(Chosen) /\ Chosen \in Seq(AnyLink)
  BY ChosenTyped DEF Identities, Known, Live
<1>4. Len(Chosen) <= next_id - 1 BY <1>2, <1>3, DistinctLength
<1>5. /\ Len(Chosen) = Len(current_chain) + Len(new_chains) /\ Len(current_chain) \in Nat
      /\ Len(new_chains) \in Nat /\ DOMAIN current_chain = 1 .. Len(current_chain)
      /\ current_chain \in Seq(AnyLink)
  BY ChosenTyped
<1>6. Len(Chosen) <= MaxLinks /\ Len(current_chain) <= MaxLinks BY <1>1, <1>4, <1>5
<1>7. current_chain # <<>> => Len(current_chain) \in DOMAIN current_chain
  BY <1>5, EmptySeq
<1>8. current_chain # <<>> => Last.chain_count = Len(current_chain)
  BY <1>7 DEF Last, Identities, Counted
<1> QED BY <1>1, <1>4, <1>5, <1>6, <1>8

(* The actions that only pass on, or clear, what is there. *)
LEMMA PassingIdentities ==
  ASSUME Typed, Typed', Control, Identities,
         PointEventNextPlayer \/ PointEventQuick \/ PointEventEnd \/ QuickForced \/ QuickEffectPass
           \/ AddChainAbandon \/ ActivateSolve \/ IdleSolve \/ IdleAnnounce \/ IdleEnd
  PROVE  Identities' /\ NoReturn
<1> USE DEF triggers, pending, offers, links, solving, fixed
<1>1. CASE PointEventNextPlayer
  <2>1. UNCHANGED <<triggers, new_fchain_s, new_ochain_s, offers, links, solving, fixed>>
    BY <1>1 DEF PointEventNextPlayer
  <2> QED BY <2>1, IdentitiesLess
<1>2. CASE PointEventQuick
  <2>1. UNCHANGED <<triggers, pending, new_ochain_h, links, solving, fixed>>
    BY <1>2 DEF PointEventQuick
  <2> QED BY <2>1, IdentitiesLess
<1>3. CASE PointEventEnd
  <2>1. /\ UNCHANGED <<triggers, pending, new_chains, current_chain, solving, fixed>>
        /\ new_ochain_h' = {} /\ chaining' \subseteq chaining
    BY <1>3 DEF PointEventEnd, ReleaseChaining
  <2> QED BY <2>1, IdentitiesLess
<1>4. CASE QuickForced
  <2>1. /\ UNCHANGED <<new_fchain, new_ochain, next_id, pending, offers, links, solving, fixed>>
        /\ quick_f_chain' \subseteq quick_f_chain
    BY <1>4 DEF QuickForced
  <2> QED BY <2>1, IdentitiesLess
<1>5. CASE QuickEffectPass
  <2>1. UNCHANGED <<triggers, pending, new_ochain_h, links, solving, fixed>>
    BY <1>5 DEF QuickEffectPass
  <2> QED BY <2>1, IdentitiesLess
<1>6. CASE AddChainAbandon \/ IdleAnnounce
  <2>1. UNCHANGED <<triggers, pending, offers, links, solving, fixed>>
    BY <1>6 DEF AddChainAbandon, IdleAnnounce
  <2> QED BY <2>1, IdentitiesLess
<1>7. CASE ActivateSolve \/ IdleSolve \/ IdleEnd
  <2>1. /\ UNCHANGED <<triggers, pending, offers, new_chains, current_chain, solving, fixed>>
        /\ chaining' \subseteq chaining
    BY <1>7 DEF ActivateSolve, IdleSolve, IdleEnd, ReleaseChaining
  <2>2. units # <<>> /\ Front.kind \in {"ActivateEffect", "Idle"}
    BY <1>7 DEF ActivateSolve, IdleSolve, IdleEnd, At
  <2>3. new_ochain_h = {} BY <2>2, FloorFacts DEF Facts, ListsEmpty
  <2> QED BY <2>1, <2>3, IdentitiesLess
<1> QED BY <1>1, <1>2, <1>3, <1>4, <1>5, <1>6, <1>7

(* The actions in which an event may leave triggers. *)
LEMMA RaisingIdentities ==
  ASSUME Typed, Typed', Control, Identities,
         AddChainStart \/ AddChainLink \/ AddChainEnd \/ AdjustAll \/ SolveActivating
           \/ SolveNegated \/ SolveOperation \/ SolveEnd \/ SolveLast \/ IdleEvent
  PROVE  Identities' /\ NoReturn
<1> USE DEF pending, offers, links, solving, fixed
<1>1. Counted BY DEF Identities
<1>2. 0 \in 0 .. MaxLinks /\ new_fchain \in SUBSET new_fchain /\ new_ochain \in SUBSET new_ochain
  BY Settled
<1>3. CASE AddChainStart \/ AdjustAll
  <2>1. /\ UNCHANGED <<links, solving, fixed>> /\ Raise(new_fchain, new_ochain, 0) /\ ControlMoves
    BY <1>3 DEF AddChainStart, AdjustAll
  <2>2. Similar(Chosen', Chosen) /\ Counted' BY <1>1, <2>1, ChosenSame
  <2> QED BY <1>2, <2>1, <2>2, IdentitiesRaised
<1>4. CASE AddChainLink
  <2>1. /\ UNCHANGED <<chaining, solving, fixed>> /\ Raise(new_fchain, new_ochain, 0) /\ ControlMoves
    BY <1>4 DEF AddChainLink
  <2>2. Similar(Chosen', Chosen) /\ Counted'
    BY <1>1, <1>4, NotEmpty, ChosenLinked DEF AddChainLink
  <2> QED BY <1>2, <2>1, <2>2, IdentitiesRaised
<1>5. CASE AddChainEnd
  <2>1. /\ UNCHANGED <<pending, offers, new_chains, current_chain, chaining, solving, fixed>>
        /\ Raise(new_fchain, BreakEffect, Last.chain_count)
    BY <1>5 DEF AddChainEnd
  <2>2. BreakEffect \in SUBSET new_ochain /\ Last.chain_count \in 0 .. MaxLinks
    BY <1>5, NotEmpty, ChainLength DEF BreakEffect, AddChainEnd
  <2>3. Similar(Chosen', Chosen) /\ Counted' BY <1>1, <2>1, ChosenSame
  <2> QED BY <1>2, <2>1, <2>2, <2>3, IdentitiesRaised
<1>6. CASE SolveActivating \/ SolveOperation
  <2>1. /\ UNCHANGED <<pending, offers, new_chains, chaining, solving, fixed>>
        /\ Raise(new_fchain, new_ochain, 0) /\ Negate
    BY <1>6 DEF SolveActivating, SolveOperation
  <2>2. Similar(Chosen', Chosen) /\ Counted' BY <1>1, <2>1, ChosenNegated
  <2> QED BY <1>2, <2>1, <2>2, IdentitiesRaised
<1>7. CASE SolveNegated
  <2>1. /\ UNCHANGED <<pending, offers, links, solving, fixed>>
        /\ Raise(NotCausedBy(new_fchain, Last), NotCausedBy(new_ochain, Last), 0)
    BY <1>7 DEF SolveNegated
  <2>2. /\ NotCausedBy(new_fchain, Last) \in SUBSET new_fchain
        /\ NotCausedBy(new_ochain, Last) \in SUBSET new_ochain
    BY DEF NotCausedBy
  <2>3. Similar(Chosen', Chosen) /\ Counted' BY <1>1, <2>1, ChosenSame
  <2> QED BY <1>2, <2>1, <2>2, <2>3, IdentitiesRaised
<1>8. CASE SolveEnd \/ SolveLast \/ IdleEvent
  <2>1. /\ UNCHANGED <<pending, offers, links, started, fixed>> /\ Raise(new_fchain, new_ochain, 0)
    BY <1>8 DEF SolveEnd, SolveLast, IdleEvent
  <2>2. Similar(Chosen', Chosen) /\ Counted' BY <1>1, <2>1, ChosenSame
  <2> QED BY <1>2, <2>1, <2>2, IdentitiesRaised
<1> QED BY <1>3, <1>4, <1>5, <1>6, <1>7, <1>8

(* A link begins to resolve: the optional triggers that are not delayed
   have missed their timing. *)
LEMMA SolveStartIdentities ==
  ASSUME Typed, Typed', Control, Identities, SolveStart
  PROVE  Identities' /\ NoReturn
<1>1. /\ units # <<>> /\ Front.kind = "SolveChain" /\ started' = started + 1
      /\ RaiseAt(new_fchain, BreakEffect, 0, started + 1)
      /\ UNCHANGED <<pending, offers, links, fixed>>
  BY DEF SolveStart, At
<1>2. new_ochain_s = {} /\ new_ochain_h = {} BY <1>1, FloorFacts DEF Facts, ListsEmpty
<1>3. UNCHANGED <<new_fchain_s, new_ochain_s, new_ochain_h, new_chains, current_chain, chaining, setting>>
  BY <1>1 DEF pending, offers, links, fixed
<1>4. started <= started' /\ started \in Nat /\ 0 \in 0 .. MaxLinks
  BY <1>1, Settled DEF Typed, DataTyped
<1>5. BreakEffect \in SUBSET new_ochain /\ new_fchain \in SUBSET new_fchain
  BY DEF BreakEffect
<1>6. PICK f, o, q : ListsStep(f, o, q, 0) BY <1>1, <1>3, <1>4, <1>5, RaiseStep
<1>7. MissedTiming'
  <2>1. PICK f1, o1, q1 : Leaves(new_fchain, BreakEffect, 0, started + 1, f1, o1, q1)
    BY <1>1, RaiseLeaves
  <2>2. /\ new_ochain' = BreakEffect \cup o1
        /\ \A c \in o1 : c.at = started + 1
    BY <2>1 DEF Leaves, NewLinks
  <2>3. \A c \in new_ochain' : c.delay \/ c.at = started' BY <1>1, <2>2 DEF BreakEffect
  <2> QED BY <1>2, <1>3, <2>3 DEF MissedTiming
<1>8. Similar(Chosen', Chosen) /\ Counted' BY <1>3, ChosenSame DEF Identities
<1> QED BY <1>3, <1>6, <1>7, <1>8, IdentitiesKept

(* The last link leaves the chain. *)
LEMMA SolvePopChosen ==
  ASSUME Typed, Control, SolvePop
  PROVE  /\ current_chain # <<>> /\ new_chains = <<>>
         /\ Chosen = current_chain /\ Chosen' = current_chain'
         /\ current_chain \in Seq(AnyLink) /\ Len(current_chain) \in Nat \ {0}
         /\ current_chain' \in Seq(AnyLink) /\ Len(current_chain') = Len(current_chain) - 1
         /\ \A i \in 1 .. Len(current_chain) - 1 : current_chain'[i] = current_chain[i]
         /\ DOMAIN current_chain = 1 .. Len(current_chain)
         /\ DOMAIN current_chain' = 1 .. Len(current_chain) - 1
<1>1. /\ At("SolveChain", 10) /\ UNCHANGED new_chains
      /\ current_chain' = SubSeq(current_chain, 1, Len(current_chain) - 1)
  BY DEF SolvePop
<1>2. units # <<>> /\ Front.kind = "SolveChain" BY <1>1 DEF At
<1>3. current_chain # <<>> /\ new_chains = <<>>
  BY <1>1, <1>2, NotEmpty, FloorFacts DEF Facts, NewChains
<1>4. current_chain \in Seq(AnyLink) BY DEF Typed, DataTyped
<1>5. /\ current_chain' \in Seq(AnyLink) /\ Len(current_chain) \in Nat \ {0}
      /\ Len(current_chain') = Len(current_chain) - 1
      /\ \A i \in 1 .. Len(current_chain) - 1 : current_chain'[i] = current_chain[i]
  BY <1>1, <1>3, <1>4, WithoutLast
<1>6. Chosen = current_chain /\ Chosen' = current_chain'
  BY <1>1, <1>3, <1>4, <1>5, ConcatEmptySeq DEF Chosen
<1> QED BY <1>3, <1>4, <1>5, <1>6, LenProperties

LEMMA SolvePopIdentities ==
  ASSUME Typed, Typed', Control, Identities, SolvePop
  PROVE  /\ Identities' /\ NoReturn /\ Last.id \in 1 .. next_id - 1 /\ Last.id \in Live
         /\ Last.id \notin Live' /\ Live' \subseteq Live
<1>1. UNCHANGED <<new_fchain, new_fchain_s, new_ochain, new_ochain_s, quick_f_chain, new_ochain_h,
                  new_chains, chaining, next_id, started, setting, MaxLinks>>
  BY DEF SolvePop, triggers, pending, offers, solving, fixed, MaxLinks
<1>2. Lists' = Lists /\ MaxLinks' = MaxLinks BY <1>1 DEF Lists, Waiting
<1>3. new_ochain_h = {}
  <2>1. units # <<>> /\ Front.kind = "SolveChain" BY DEF SolvePop, At
  <2> QED BY <2>1, FloorFacts DEF Facts, ListsEmpty
<1> DEFINE n == Len(current_chain)
<1>4. n \in Nat /\ n >= 1 /\ n \in 1 .. n /\ \A i \in 1 .. n - 1 : i \in 1 .. n /\ i # n
  BY SolvePopChosen
<1>5. /\ Chosen = current_chain /\ Chosen' = current_chain'
      /\ DOMAIN Chosen = 1 .. n /\ DOMAIN Chosen' = 1 .. n - 1
      /\ \A i \in 1 .. n - 1 : Chosen'[i] = Chosen[i]
      /\ Last = Chosen[n]
  BY SolvePopChosen DEF Last
<1> HIDE DEF n
<1>6. LinkIds(Chosen') \subseteq LinkIds(Chosen) /\ Last.id \in LinkIds(Chosen)
  BY <1>4, <1>5 DEF LinkIds
<1>7. Last.id \notin LinkIds(Chosen')
  <2>1. \A i \in 1 .. n - 1 : Chosen[i].id # Chosen[n].id
    BY <1>4, <1>5 DEF Identities, Distinct
  <2> QED BY <1>5, <2>1 DEF LinkIds
<1>8. Distinct(Chosen') BY <1>4, <1>5 DEF Identities, Distinct
<1>9. Known' /\ Last.id \in 1 .. next_id - 1 /\ Last.id \in Live
  BY <1>1, <1>2, <1>6 DEF Identities, Known, Live
<1>10. Apart'
  <2>1. ApartIn(Ids(new_fchain), Ids(new_fchain_s), Ids(new_ochain), Ids(new_ochain_s),
                Ids(quick_f_chain), Ids(new_ochain_h), LinkIds(Chosen), chaining)
    BY DEF Identities, Apart
  <2>2. ApartIn(Ids(new_fchain), Ids(new_fchain_s), Ids(new_ochain), Ids(new_ochain_s),
                Ids(quick_f_chain), Ids(new_ochain_h), LinkIds(Chosen'), chaining)
    <3> DEFINE k == LinkIds(Chosen)
               k1 == LinkIds(Chosen')
    <3>1. k1 \subseteq k BY <1>6
    <3> HIDE DEF k, k1
    <3> QED BY <2>1, <3>1 DEF k, k1, ApartIn
  <2> QED BY <1>1, <2>2 DEF Apart, LinkIds
<1>11. Made'
  <2>1. \A c \in Lists : WellMade(c) /\ c.chain_count = 0 BY DEF Identities, Made
  <2>2. \A c : WellMade(c) => WellMade(c)' BY <1>1 DEF WellMade
  <2>3. \A i \in DOMAIN Chosen' : MadeIn(Chosen'[i], MaxLinks', started')
    BY <1>1, <1>4, <1>5 DEF Identities, Made, WellMade
  <2> QED BY <1>2, <2>1, <2>2, <2>3 DEF Made, WellMade
<1>12. Counted' /\ MissedTiming'
  <2>1. \A i \in DOMAIN current_chain' : current_chain'[i].chain_count = i
    BY <1>4, <1>5 DEF Identities, Counted
  <2> QED BY <1>1, <2>1 DEF Identities, Counted, MissedTiming
<1>13. Last.id \notin Ids(Lists)
  <2>1. ApartIn(Ids(new_fchain), Ids(new_fchain_s), Ids(new_ochain), Ids(new_ochain_s),
                Ids(quick_f_chain), Ids(new_ochain_h), LinkIds(Chosen), chaining)
    BY DEF Identities, Apart
  <2>2. Last.id \notin Ids(Waiting)
    <3> DEFINE k == LinkIds(Chosen)
    <3>1. Last.id \in k BY <1>6
    <3> HIDE DEF k
    <3> QED BY <2>1, <3>1, ListsOf DEF k, ApartIn
  <2>3. Ids(new_ochain_h) = {} BY <1>3 DEF Ids
  <2> QED BY <2>2, <2>3, ListsOf
<1>14. Last.id \notin Live' /\ Live' \subseteq Live
  <2>1. Live' = Ids(Lists) \cup LinkIds(Chosen') BY <1>2 DEF Live, Ids, LinkIds
  <2> QED BY <1>6, <1>7, <1>13, <2>1 DEF Live
<1> QED
  BY <1>1, <1>8, <1>9, <1>10, <1>11, <1>12, <1>14, Settled DEF Identities, Distinct, NoReturn

(* The actions that choose. *)
LEMMA WaitingLink ==
  ASSUME Typed, Identities, NEW c \in Lists
  PROVE  /\ c \in AnyLink /\ WellMade(c) /\ c.chain_count = 0
         /\ c.id \in 1 .. next_id - 1 /\ c.id \in Live
         /\ c \in Waiting => c.id \notin LinkIds(Chosen)
         /\ c.id \notin chaining => c.id \notin LinkIds(Chosen)
<1>1. c \in AnyLink BY KindTypes DEF Typed, DataTyped, Lists, Waiting
<1>2. WellMade(c) /\ c.chain_count = 0 BY DEF Identities, Made
<1>3. c.id \in 1 .. next_id - 1 /\ c.id \in Live BY SomeId DEF Identities, Known, Live
<1>4. ApartIn(Ids(new_fchain), Ids(new_fchain_s), Ids(new_ochain), Ids(new_ochain_s),
              Ids(quick_f_chain), Ids(new_ochain_h), LinkIds(Chosen), chaining)
  BY DEF Identities, Apart
<1> DEFINE k == LinkIds(Chosen)
<1>5. c \in Waiting => c.id \notin k
  <2>1. c \in Waiting => c.id \in Ids(Waiting) BY SomeId
  <2> HIDE DEF k
  <2> QED BY <1>4, <2>1, ListsOf DEF ApartIn, k
<1>6. c.id \notin chaining => c.id \notin k
  <2>1. c \in new_ochain_h => c.id \in Ids(new_ochain_h) BY SomeId
  <2>2. c \in Waiting \/ c \in new_ochain_h BY DEF Lists
  <2> HIDE DEF k
  <2> QED BY <1>4, <1>5, <2>1, <2>2 DEF ApartIn, k
<1> QED BY <1>1, <1>2, <1>3, <1>5, <1>6

LEMMA IdentitiesChoose ==
  ASSUME Typed, Typed', Identities, NEW c \in AnyLink, Choose(c),
         UNCHANGED <<current_chain, started, setting>>,
         new_fchain' \subseteq new_fchain, new_fchain_s' \subseteq new_fchain_s,
         new_ochain' \subseteq new_ochain, new_ochain_s' \subseteq new_ochain_s,
         quick_f_chain' \subseteq quick_f_chain,
         new_ochain_h' \subseteq new_ochain_h \cup new_ochain_s, next_id <= next_id',
         WellMade(c), c.chain_count = 0, c.id \in 1 .. next_id' - 1,
         c.id \in Live \/ c.id \notin 1 .. next_id - 1,
         c.id \notin LinkIds(Chosen), c.id \notin Ids(Waiting')
  PROVE  Identities' /\ NoReturn /\ Chosen' = Append(Chosen, c)
<1>1. ListsStep({}, {}, {}, 0) BY LessStep
<1>2. new_chains' = Append(new_chains, c) /\ chaining' = chaining \cup {c.id}
  BY DEF Choose
<1>3. Chosen' = Append(Chosen, c) /\ Counted' BY <1>2, ChosenLast DEF Identities
<1> QED BY <1>1, <1>2, <1>3, IdentitiesChosen

LEMMA PointEventForcedIdentities ==
  ASSUME Typed, Typed', Control, Identities, PointEventForced
  PROVE  /\ Identities' /\ NoReturn
         /\ \/ Chosen' = Chosen /\ GoOn(3, <<>>)
            \/ /\ GoOn(2, <<AddChain>>)
               /\ \E c \in AnyLink : Chosen' = Append(Chosen, c) /\ c.kind = "forced"
                                       /\ c.player = current_player
<1>1. /\ UNCHANGED <<triggers, current_player, new_ochain_s, offers, current_chain, solving, fixed>>
      /\ \E left \in SUBSET new_fchain_s :
           \/ /\ new_fchain_s' = left /\ GoOn(3, <<>>) /\ UNCHANGED <<new_chains, chaining>>
           \/ \E c \in Selectable(left) :
                Choose(c) /\ new_fchain_s' = Without(left, c) /\ GoOn(2, <<AddChain>>)
  BY DEF PointEventForced
<1>2. PICK left \in SUBSET new_fchain_s :
        \/ /\ new_fchain_s' = left /\ GoOn(3, <<>>) /\ UNCHANGED <<new_chains, chaining>>
        \/ \E c \in Selectable(left) :
             Choose(c) /\ new_fchain_s' = Without(left, c) /\ GoOn(2, <<AddChain>>)
  BY <1>1
<1>3. CASE new_fchain_s' = left /\ GoOn(3, <<>>) /\ UNCHANGED <<new_chains, chaining>>
  <2>1. Identities' /\ NoReturn
    BY <1>1, <1>3, IdentitiesLess DEF triggers, offers, solving, fixed
  <2> QED BY <1>1, <1>3, <2>1 DEF Chosen
<1>4. CASE \E c \in Selectable(left) :
             Choose(c) /\ new_fchain_s' = Without(left, c) /\ GoOn(2, <<AddChain>>)
  <2>1. PICK c \in Selectable(left) :
          Choose(c) /\ new_fchain_s' = Without(left, c) /\ GoOn(2, <<AddChain>>)
    BY <1>4
  <2>2. c \in left /\ c \in new_fchain_s /\ c.player = current_player
    BY <2>1 DEF Selectable
  <2>3. c \in Lists /\ c \in Waiting /\ c.kind = "forced"
    BY <2>2, KindTypes DEF Lists, Waiting, Typed, DataTyped
  <2>4. /\ c \in AnyLink /\ WellMade(c) /\ c.chain_count = 0 /\ c.id \in 1 .. next_id - 1
        /\ c.id \in Live /\ c.id \notin LinkIds(Chosen)
    BY <2>3, WaitingLink
  <2>5. /\ UNCHANGED <<new_fchain, new_ochain, new_ochain_s, quick_f_chain, new_ochain_h, next_id,
                       current_chain, started, setting>>
        /\ new_fchain_s' \subseteq new_fchain_s
    BY <1>1, <2>1 DEF triggers, offers, solving, fixed, Without
  <2>6. c.id \notin Ids(Waiting')
    <3>1. ApartIn(Ids(new_fchain), Ids(new_fchain_s), Ids(new_ochain), Ids(new_ochain_s),
                  Ids(quick_f_chain), Ids(new_ochain_h), LinkIds(Chosen), chaining)
      BY DEF Identities, Apart
    <3>2. c.id \in Ids(new_fchain_s) /\ c.id \notin Ids(new_fchain_s')
      BY <2>1, <2>2 DEF Ids, Without
    <3>3. /\ c.id \notin Ids(new_fchain) /\ c.id \notin Ids(new_ochain) /\ c.id \notin Ids(new_ochain_s)
          /\ c.id \notin Ids(quick_f_chain)
      BY <3>1, <3>2 DEF ApartIn
    <3> QED BY <2>5, <3>2, <3>3 DEF Ids, Waiting
  <2>7. next_id <= next_id' BY <2>5, Settled
  <2>8. Identities' /\ NoReturn /\ Chosen' = Append(Chosen, c)
    BY <2>1, <2>4, <2>5, <2>6, <2>7, IdentitiesChoose
  <2> QED BY <2>1, <2>2, <2>3, <2>4, <2>8
<1> QED BY <1>2, <1>3, <1>4

LEMMA PointEventOptionalIdentities ==
  ASSUME Typed, Typed', Control, Identities, PointEventOptional
  PROVE  /\ Identities' /\ NoReturn
         /\ \/ Chosen' = Chosen /\ (GoOn(4, <<>>) \/ GoOn(6, <<>>))
            \/ /\ GoOn(4, <<AddChain>>)
               /\ \E c \in AnyLink : Chosen' = Append(Chosen, c) /\ c.kind \in {"optional", "hidden"}
                                       /\ c.player = current_player
<1>1. UNCHANGED <<triggers, current_player, new_fchain_s, ignition_priority_chains, current_chain,
                  solving, fixed>>
  BY DEF PointEventOptional
<1>2. PICK list \in SUBSET new_ochain_s, kept \in SUBSET (new_ochain_h \cup new_ochain_s) :
        \/ /\ new_ochain_s' \subseteq list /\ new_ochain_h' = kept
           /\ GoOn(4, <<>>) \/ GoOn(6, <<>>)
           /\ UNCHANGED <<new_chains, chaining>>
        \/ \E c \in Selectable(list) :
             /\ Choose(c) /\ new_ochain_s' = Without(list, c) /\ new_ochain_h' = Without(kept, c)
             /\ GoOn(4, <<AddChain>>)
  <2>1. PICK left \in SUBSET new_ochain_s :
          \E gone \in SUBSET {c \in left : c.kind = "hidden"} :
            LET list == left \ gone
                mine == Selectable(list)
                kept == IF duel_options.non_public /\ mine # {} THEN {}
                        ELSE new_ochain_h \cup {c \in left : c.kind = "hidden"}
            IN \/ /\ new_ochain_s' = list \ mine /\ new_ochain_h' = kept
                  /\ GoOn(4, <<>>) \/ GoOn(6, <<>>)
                  /\ UNCHANGED <<new_chains, chaining>>
               \/ \E c \in mine :
                    /\ Choose(c) /\ new_ochain_s' = Without(list, c) /\ new_ochain_h' = Without(kept, c)
                    /\ GoOn(4, <<AddChain>>)
    BY Zenon DEF PointEventOptional
  <2>2. PICK gone \in SUBSET {c \in left : c.kind = "hidden"} :
            LET list == left \ gone
                mine == Selectable(list)
                kept == IF duel_options.non_public /\ mine # {} THEN {}
                        ELSE new_ochain_h \cup {c \in left : c.kind = "hidden"}
            IN \/ /\ new_ochain_s' = list \ mine /\ new_ochain_h' = kept
                  /\ GoOn(4, <<>>) \/ GoOn(6, <<>>)
                  /\ UNCHANGED <<new_chains, chaining>>
               \/ \E c \in mine :
                    /\ Choose(c) /\ new_ochain_s' = Without(list, c) /\ new_ochain_h' = Without(kept, c)
                    /\ GoOn(4, <<AddChain>>)
    BY <2>1, Zenon
  <2> DEFINE l == left \ gone
             k == IF duel_options.non_public /\ Selectable(l) # {} THEN {}
                  ELSE new_ochain_h \cup {c \in left : c.kind = "hidden"}
  <2>3. l \in SUBSET new_ochain_s /\ k \in SUBSET (new_ochain_h \cup new_ochain_s)
    OBVIOUS
  <2>4. l \ Selectable(l) \subseteq l OBVIOUS
  <2>5. \/ /\ new_ochain_s' = l \ Selectable(l) /\ new_ochain_h' = k
           /\ GoOn(4, <<>>) \/ GoOn(6, <<>>)
           /\ UNCHANGED <<new_chains, chaining>>
        \/ \E c \in Selectable(l) :
             /\ Choose(c) /\ new_ochain_s' = Without(l, c) /\ new_ochain_h' = Without(k, c)
             /\ GoOn(4, <<AddChain>>)
    BY <2>2, Zenon
  <2> HIDE DEF l, k
  <2> QED BY <2>3, <2>4, <2>5, Zenon
<1>3. CASE /\ new_ochain_s' \subseteq list /\ new_ochain_h' = kept
           /\ GoOn(4, <<>>) \/ GoOn(6, <<>>)
           /\ UNCHANGED <<new_chains, chaining>>
  <2>1. Identities' /\ NoReturn
    BY <1>1, <1>3, IdentitiesLess DEF triggers, solving, fixed
  <2> QED BY <1>1, <1>3, <2>1 DEF Chosen
<1>4. CASE \E c \in Selectable(list) :
             /\ Choose(c) /\ new_ochain_s' = Without(list, c) /\ new_ochain_h' = Without(kept, c)
             /\ GoOn(4, <<AddChain>>)
  <2>1. PICK c \in Selectable(list) :
             /\ Choose(c) /\ new_ochain_s' = Without(list, c) /\ new_ochain_h' = Without(kept, c)
             /\ GoOn(4, <<AddChain>>)
    BY <1>4
  <2>2. c \in list /\ c \in new_ochain_s /\ c.player = current_player
    BY <2>1 DEF Selectable
  <2>3. c \in Lists /\ c \in Waiting /\ c.kind \in {"optional", "hidden"}
    BY <2>2, KindTypes DEF Lists, Waiting, Typed, DataTyped
  <2>4. /\ c \in AnyLink /\ WellMade(c) /\ c.chain_count = 0 /\ c.id \in 1 .. next_id - 1
        /\ c.id \in Live /\ c.id \notin LinkIds(Chosen)
    BY <2>3, WaitingLink
  <2>5. /\ UNCHANGED <<new_fchain, new_ochain, new_fchain_s, quick_f_chain, next_id,
                       current_chain, started, setting>>
        /\ new_ochain_s' \subseteq new_ochain_s
        /\ new_ochain_h' \subseteq new_ochain_h \cup new_ochain_s
    BY <1>1, <2>1 DEF triggers, solving, fixed, Without
  <2>6. c.id \notin Ids(Waiting')
    <3>1. ApartIn(Ids(new_fchain), Ids(new_fchain_s), Ids(new_ochain), Ids(new_ochain_s),
                  Ids(quick_f_chain), Ids(new_ochain_h), LinkIds(Chosen), chaining)
      BY DEF Identities, Apart
    <3>2. c.id \in Ids(new_ochain_s) /\ c.id \notin Ids(new_ochain_s')
      BY <2>1, <2>2 DEF Ids, Without
    <3>3. /\ c.id \notin Ids(new_fchain) /\ c.id \notin Ids(new_ochain) /\ c.id \notin Ids(new_fchain_s)
          /\ c.id \notin Ids(quick_f_chain)
      BY <3>1, <3>2 DEF ApartIn
    <3> QED BY <2>5, <3>2, <3>3 DEF Ids, Waiting
  <2>7. next_id <= next_id' BY <2>5, Settled
  <2>8. Identities' /\ NoReturn /\ Chosen' = Append(Chosen, c)
    BY <2>1, <2>4, <2>5, <2>6, <2>7, IdentitiesChoose
  <2> QED BY <2>1, <2>2, <2>3, <2>4, <2>8
<1> QED BY <1>2, <1>3, <1>4


LEMMA FreshLink ==
  ASSUME Typed, Typed', Identities, CanActivate, NEW c \in AnyLink, Choose(c),
         UNCHANGED <<new_fchain, new_ochain, quick_f_chain, new_fchain_s, new_ochain_s, new_ochain_h,
                     current_chain, started, setting>>,
         next_id' = next_id + 1,
         c.id = next_id, c.event = next_id, c.causes = 0, c.at = started, c.chain_count = 0
  PROVE  Identities' /\ NoReturn /\ Chosen' = Append(Chosen, c)
<1>1. next_id \in Nat /\ next_id >= 1 /\ MaxLinks \in Nat /\ next_id <= MaxLinks /\ started \in Nat
  BY Settled DEF CanActivate, Typed, DataTyped
<1>2. /\ next_id <= next_id' /\ c.id \in 1 .. next_id' - 1 /\ c.id \notin 1 .. next_id - 1
      /\ next_id \in 1 .. MaxLinks /\ 0 \in 0 .. MaxLinks /\ started \in 0 .. started
  BY <1>1
<1>3. WellMade(c) BY <1>2 DEF WellMade, MadeIn
<1>4. c.id \notin Live BY <1>2 DEF Identities, Known
<1>5. Waiting' = Waiting BY DEF Waiting
<1>6. c.id \notin LinkIds(Chosen) /\ c.id \notin Ids(Waiting')
  BY <1>4, <1>5, ListsOf DEF Live
<1> QED BY <1>2, <1>3, <1>6, IdentitiesChoose

LEMMA QuickForcedChosenIdentities ==
  ASSUME Typed, Typed', Control, Identities, QuickForcedChosen
  PROVE  /\ Identities' /\ NoReturn
         /\ \E c \in AnyLink : Chosen' = Append(Chosen, c) /\ c.kind = "quick"
<1>1. PICK left \in SUBSET quick_f_chain : \E c \in left :
        Choose(c) /\ quick_f_chain' = Without(left, c)
  BY DEF QuickForcedChosen
<1>2. PICK c \in left : Choose(c) /\ quick_f_chain' = Without(left, c) BY <1>1
<1>3. /\ UNCHANGED <<new_fchain, new_ochain, next_id, new_fchain_s, new_ochain_s, new_ochain_h,
                     current_chain, started, setting>>
      /\ quick_f_chain' \subseteq quick_f_chain
  BY <1>2 DEF QuickForcedChosen, pending, offers, solving, fixed, Without
<1>4. c \in Lists /\ c \in Waiting /\ c.kind = "quick"
  BY KindTypes DEF Lists, Waiting, Typed, DataTyped
<1>5. /\ c \in AnyLink /\ WellMade(c) /\ c.chain_count = 0 /\ c.id \in 1 .. next_id - 1
      /\ c.id \in Live /\ c.id \notin LinkIds(Chosen)
  BY <1>4, WaitingLink
<1>6. c.id \notin Ids(Waiting')
  <2>1. ApartIn(Ids(new_fchain), Ids(new_fchain_s), Ids(new_ochain), Ids(new_ochain_s),
                Ids(quick_f_chain), Ids(new_ochain_h), LinkIds(Chosen), chaining)
    BY DEF Identities, Apart
  <2>2. c.id \in Ids(quick_f_chain) /\ c.id \notin Ids(quick_f_chain')
    BY <1>2 DEF Ids, Without
  <2>3. /\ c.id \notin Ids(new_fchain) /\ c.id \notin Ids(new_ochain) /\ c.id \notin Ids(new_fchain_s)
        /\ c.id \notin Ids(new_ochain_s)
    BY <2>1, <2>2 DEF ApartIn
  <2> QED BY <1>3, <2>2, <2>3 DEF Ids, Waiting
<1>7. next_id <= next_id' BY <1>3, Settled
<1>8. Identities' /\ NoReturn /\ Chosen' = Append(Chosen, c)
  BY <1>2, <1>3, <1>5, <1>6, <1>7, IdentitiesChoose
<1> QED BY <1>4, <1>5, <1>8

LEMMA QuickEffectChosenIdentities ==
  ASSUME Typed, Typed', Control, Identities, QuickEffectChosen
  PROVE  /\ Identities' /\ NoReturn
         /\ \E c \in AnyLink :
              /\ Chosen' = Append(Chosen, c)
              /\ \/ c.kind = "activated"
                 \/ c.kind = "ignition" /\ ignition_priority_chains
<1> DEFINE p == Front.player
<1>1. UNCHANGED <<new_fchain, new_ochain, quick_f_chain, new_fchain_s, new_ochain_s, new_ochain_h,
                  current_chain, started, setting>>
  BY DEF QuickEffectChosen, pending, solving, fixed
<1>2. \/ CanActivate /\ Choose(Activation(p)) /\ next_id' = next_id + 1
      \/ /\ ignition_priority_chains /\ CanActivate
         /\ Choose([Activation(turn_player) EXCEPT !.kind = "ignition"])
         /\ next_id' = next_id + 1
      \/ /\ \E c \in Offered(p) : Choose([c EXCEPT !.kind = "activated"])
         /\ UNCHANGED next_id
  BY DEF QuickEffectChosen
<1>3. units # <<>> /\ Front.kind = "QuickEffect" /\ p \in Players /\ turn_player \in Players
  BY FrontType, Others DEF QuickEffectChosen, At, Typed, UnitType
<1>4. CASE CanActivate /\ Choose(Activation(p)) /\ next_id' = next_id + 1
  <2> DEFINE c == Activation(p)
  <2>1. c \in AnyLink BY <1>3, <1>4, ActivationTyped
  <2>2. /\ c.id = next_id /\ c.event = next_id /\ c.causes = 0 /\ c.at = started /\ c.chain_count = 0
        /\ c.kind = "activated"
    BY DEF Activation, NewLink
  <2> HIDE DEF c
  <2>3. Choose(c) BY <1>4 DEF c
  <2>4. Identities' /\ NoReturn /\ Chosen' = Append(Chosen, c)
    BY <1>1, <1>4, <2>1, <2>2, <2>3, FreshLink
  <2> QED BY <2>1, <2>2, <2>4
<1>5. CASE /\ ignition_priority_chains /\ CanActivate
           /\ Choose([Activation(turn_player) EXCEPT !.kind = "ignition"])
           /\ next_id' = next_id + 1
  <2> DEFINE c == [Activation(turn_player) EXCEPT !.kind = "ignition"]
  <2>1. c \in AnyLink BY <1>3, <1>5, ActivationTyped
  <2>2. /\ c.id = next_id /\ c.event = next_id /\ c.causes = 0 /\ c.at = started /\ c.chain_count = 0
        /\ c.kind = "ignition"
    BY DEF Activation, NewLink
  <2> HIDE DEF c
  <2>3. Choose(c) BY <1>5 DEF c
  <2>4. Identities' /\ NoReturn /\ Chosen' = Append(Chosen, c)
    BY <1>1, <1>5, <2>1, <2>2, <2>3, FreshLink
  <2> QED BY <1>5, <2>1, <2>2, <2>4
<1>6. CASE /\ \E c \in Offered(p) : Choose([c EXCEPT !.kind = "activated"])
           /\ UNCHANGED next_id
  <2>1. PICK c \in Offered(p) : Choose([c EXCEPT !.kind = "activated"]) BY <1>6
  <2>2. c \in new_ochain_h /\ c.id \notin chaining /\ c \in Lists BY DEF Offered, Lists
  <2>3. /\ c \in AnyLink /\ WellMade(c) /\ c.chain_count = 0 /\ c.id \in 1 .. next_id - 1
        /\ c.id \in Live /\ c.id \notin LinkIds(Chosen)
    BY <2>2, WaitingLink
  <2>4. PICK d : d = [c EXCEPT !.kind = "activated"] OBVIOUS
  <2>5. /\ d \in AnyLink /\ d.id = c.id /\ d.chain_count = 0 /\ d.kind = "activated"
        /\ d.event = c.event /\ d.causes = c.causes /\ d.at = c.at
    BY <2>3, <2>4 DEF AnyLink, Kinds
  <2>6. WellMade(d) BY <2>3, <2>5 DEF WellMade, MadeIn
  <2>7. c.id \notin Ids(Waiting')
    <3>1. ApartIn(Ids(new_fchain), Ids(new_fchain_s), Ids(new_ochain), Ids(new_ochain_s),
                  Ids(quick_f_chain), Ids(new_ochain_h), LinkIds(Chosen), chaining)
      BY DEF Identities, Apart
    <3>2. c.id \in Ids(new_ochain_h) BY <2>2, SomeId
    <3>3. new_ochain_s = {} BY <1>3, QuickFacts
    <3>4. /\ c.id \notin Ids(new_fchain) /\ c.id \notin Ids(new_ochain) /\ c.id \notin Ids(new_fchain_s)
          /\ c.id \notin Ids(quick_f_chain)
      BY <3>1, <3>2 DEF ApartIn
    <3> QED BY <1>1, <3>3, <3>4 DEF Ids, Waiting
  <2>8. next_id <= next_id' /\ next_id' = next_id BY <1>6, Settled
  <2>9. Choose(d) BY <2>1, <2>4
  <2>10. Identities' /\ NoReturn /\ Chosen' = Append(Chosen, d)
    BY <1>1, <2>3, <2>5, <2>6, <2>7, <2>8, <2>9, IdentitiesChoose
  <2> QED BY <2>5, <2>10
<1> QED BY <1>2, <1>4, <1>5, <1>6

LEMMA ActivateIdentities ==
  ASSUME Typed, Typed', Control, Identities, Activate \/ IdleActivate
  PROVE  /\ Identities' /\ NoReturn
         /\ \/ Chosen' = Chosen
            \/ \E c \in AnyLink : Chosen' = Append(Chosen, c) /\ c.kind = "activated"
<1>1. UNCHANGED <<new_fchain, new_ochain, quick_f_chain, new_fchain_s, new_ochain_s, new_ochain_h,
                  current_chain, started, setting>>
  BY DEF Activate, IdleActivate, pending, offers, solving, fixed, links
<1>2. \/ UNCHANGED <<links, next_id>>
      \/ CanActivate /\ next_id' = next_id + 1 /\ \E p \in Players : Choose(Activation(p))
  BY Others DEF Activate, IdleActivate
<1>3. CASE UNCHANGED <<links, next_id>>
  <2>1. Identities' /\ NoReturn BY <1>1, <1>3, IdentitiesLess DEF links
  <2> QED BY <1>1, <1>3, <2>1 DEF links, Chosen
<1>4. CASE CanActivate /\ next_id' = next_id + 1 /\ \E p \in Players : Choose(Activation(p))
  <2>0. PICK p \in Players : Choose(Activation(p)) BY <1>4
  <2> DEFINE c == Activation(p)
  <2>1. c \in AnyLink BY <1>4, ActivationTyped
  <2>2. /\ c.id = next_id /\ c.event = next_id /\ c.causes = 0 /\ c.at = started /\ c.chain_count = 0
        /\ c.kind = "activated"
    BY DEF Activation, NewLink
  <2> HIDE DEF c
  <2>3. Choose(c) BY <2>0 DEF c
  <2>4. Identities' /\ NoReturn /\ Chosen' = Append(Chosen, c)
    BY <1>1, <1>4, <2>1, <2>2, <2>3, FreshLink
  <2> QED BY <2>1, <2>2, <2>4
<1> QED BY <1>2, <1>3, <1>4


(* PointEvent takes over the triggers raised since the last one. *)
LEMMA PointEventStartIdentities ==
  ASSUME Typed, Typed', Control, Identities, PointEventStart
  PROVE  Identities' /\ NoReturn /\ Chosen' = Chosen
<1>1. UNCHANGED <<quick_f_chain, next_id, new_ochain_h, new_chains, current_chain, chaining, started,
                  setting, MaxLinks>>
  BY DEF PointEventStart, pending, triggers, offers, links, solving, fixed, MaxLinks
<1>2. Chosen' = Chosen BY <1>1 DEF Chosen
<1>3. CASE UNCHANGED <<pending, triggers>>
  <2>1. Identities' /\ NoReturn BY <1>1, <1>3, IdentitiesLess DEF pending, triggers
  <2> QED BY <1>2, <2>1
<1>4. CASE /\ new_fchain_s' = new_fchain_s \cup new_fchain
           /\ new_ochain_s' = new_ochain_s \cup new_ochain
           /\ new_fchain' = {} /\ new_ochain' = {}
  <2>1. new_fchain_s = {} /\ new_ochain_s = {} /\ new_ochain_h = {}
    <3>1. units # <<>> /\ Front.kind = "PointEvent" /\ Front.step = 0
      BY DEF PointEventStart, At
    <3> QED BY <3>1, FloorFacts DEF Facts, ListsEmpty
  <2>2. Lists' = Lists /\ Ids(Lists)' = Ids(Lists) BY <1>1, <1>4 DEF Lists, Waiting, Ids
  <2>3. Live' = Live BY <1>2, <2>2 DEF Live, LinkIds
  <2>4. Known' /\ NoReturn BY <1>1, <2>3, Settled DEF Identities, Known, NoReturn
  <2>5. Apart'
    <3>1. ApartIn(Ids(new_fchain), Ids(new_fchain_s), Ids(new_ochain), Ids(new_ochain_s),
                  Ids(quick_f_chain), Ids(new_ochain_h), LinkIds(Chosen), chaining)
      BY DEF Identities, Apart
    <3>2. \A f, o, q, k, u : ApartIn(f, {}, o, {}, q, {}, k, u) => ApartIn({}, f, {}, o, q, {}, k, u)
      BY DEF ApartIn
    <3>3. /\ Ids(new_fchain_s) = {} /\ Ids(new_ochain_s) = {} /\ Ids(new_ochain_h) = {}
      BY <2>1 DEF Ids
    <3>4. /\ Ids(new_fchain') = {} /\ Ids(new_ochain') = {} /\ Ids(new_ochain_h') = {}
          /\ Ids(new_fchain_s') = Ids(new_fchain) /\ Ids(new_ochain_s') = Ids(new_ochain)
          /\ Ids(quick_f_chain') = Ids(quick_f_chain) /\ LinkIds(Chosen') = LinkIds(Chosen)
          /\ chaining' = chaining
      BY <1>1, <1>2, <1>4, <2>1 DEF Ids, LinkIds
    <3>5. ApartIn(Ids(new_fchain'), Ids(new_fchain_s'), Ids(new_ochain'), Ids(new_ochain_s'),
                  Ids(quick_f_chain'), Ids(new_ochain_h'), LinkIds(Chosen'), chaining')
      BY <3>1, <3>2, <3>3, <3>4, Zenon
    <3> QED BY <3>5 DEF Apart, Ids, LinkIds
  <2>6. Made' BY <1>1, <1>2, <2>2 DEF Identities, Made, WellMade
  <2>7. Distinct(Chosen') /\ Counted' BY <1>1, <1>2 DEF Identities, Counted, Distinct
  <2>8. MissedTiming' BY <1>1, <1>4, <2>1 DEF Identities, MissedTiming
  <2> QED BY <1>2, <2>4, <2>5, <2>6, <2>7, <2>8 DEF Identities, Distinct
<1> QED BY <1>3, <1>4 DEF PointEventStart

(* The identities, together with the control. *)
LEMMA InitIdentities ==
  ASSUME Init
  PROVE  Identities
<1>1. /\ Lists = {} /\ Chosen = <<>> /\ chaining = {} /\ new_chains = <<>> /\ current_chain = <<>>
      /\ new_fchain = {} /\ new_fchain_s = {} /\ new_ochain = {} /\ new_ochain_s = {}
      /\ quick_f_chain = {} /\ new_ochain_h = {}
  BY ConcatEmptySeq DEF Init, Lists, Waiting, Chosen
<1>2. Ids({}) = {} /\ LinkIds(<<>>) = {} BY DEF Ids, LinkIds
<1>3. Known BY <1>1, <1>2 DEF Known, Live
<1>4. Apart BY <1>1, <1>2 DEF Apart, ApartIn
<1>5. Distinct(Chosen) /\ Made /\ Counted BY <1>1 DEF Distinct, Made, Counted
<1> QED BY <1>1, <1>3, <1>4, <1>5 DEF Identities, MissedTiming

LEMMA NextIdentities ==
  ASSUME Typed, Typed', Control, Identities, [Next]_vars
  PROVE  Identities' /\ NoReturn
<1>1. CASE UNCHANGED vars
  BY <1>1, IdentitiesLess DEF vars, triggers, pending, offers, links, solving, fixed
<1>2. CASE Next
  <2>1. CASE PointEventStart \/ PointEventForced \/ PointEventOptional \/ QuickForcedChosen
               \/ QuickEffectChosen \/ Activate \/ IdleActivate
    BY <2>1, PointEventStartIdentities, PointEventForcedIdentities, PointEventOptionalIdentities,
       QuickForcedChosenIdentities, QuickEffectChosenIdentities, ActivateIdentities
  <2>2. CASE PointEventNextPlayer \/ PointEventQuick \/ PointEventEnd \/ QuickForced \/ QuickEffectPass
               \/ AddChainAbandon \/ ActivateSolve \/ IdleSolve \/ IdleAnnounce \/ IdleEnd
    BY <2>2, PassingIdentities
  <2>3. CASE AddChainStart \/ AddChainLink \/ AddChainEnd \/ AdjustAll \/ SolveActivating
               \/ SolveNegated \/ SolveOperation \/ SolveEnd \/ SolveLast \/ IdleEvent
    BY <2>3, RaisingIdentities
  <2>4. CASE SolveStart \/ SolvePop BY <2>4, SolveStartIdentities, SolvePopIdentities
  <2>5. CASE Ended BY <1>1, <2>5 DEF Ended
  <2> QED BY <1>2, <2>1, <2>2, <2>3, <2>4, <2>5 DEF Next
<1> QED BY <1>1, <1>2


-----------------------------------------------------------------------------
(* The unit in front, and the PointEvent that is going through triggers,
   after each action. *)
LEMMA HasPush ==
  ASSUME NEW t \in Seq(UnitType), NEW u \in UnitType, NEW k, NEW s
  PROVE  Has(Push(u, t), k, s) <=> IsAt(u, k, s) \/ Has(t, k, s)
<1> DEFINE p == Push(u, t)
<1>1. /\ p \in Seq(UnitType) /\ Len(t) \in Nat /\ Len(p) = Len(t) + 1 /\ p[1] = u
      /\ \A i \in 1 .. Len(t) : p[i + 1] = t[i]
  BY PushProperties
<1>2. DOMAIN p = 1 .. Len(t) + 1 /\ DOMAIN t = 1 .. Len(t) BY <1>1, LenProperties
<1> HIDE DEF p
<1>3. ASSUME Has(p, k, s)
      PROVE  IsAt(u, k, s) \/ Has(t, k, s)
  <2>1. PICK i \in 1 .. Len(t) + 1 : IsAt(p[i], k, s) BY <1>2, <1>3 DEF Has
  <2>2. CASE i = 1 BY <1>1, <2>1, <2>2
  <2>3. CASE i # 1
    <3>1. PICK j \in 1 .. Len(t) : i = j + 1
      <4>1. i - 1 \in 1 .. Len(t) /\ i = (i - 1) + 1 BY <1>1, <2>3
      <4> QED BY <4>1
    <3> QED BY <1>1, <1>2, <2>1, <3>1 DEF Has
  <2> QED BY <2>2, <2>3
<1>4. ASSUME IsAt(u, k, s) \/ Has(t, k, s)
      PROVE  Has(p, k, s)
  <2>1. CASE IsAt(u, k, s) BY <1>1, <1>2, <2>1 DEF Has
  <2>2. CASE Has(t, k, s)
    <3>1. PICK j \in 1 .. Len(t) : IsAt(t[j], k, s) BY <1>2, <2>2 DEF Has
    <3>2. j + 1 \in 1 .. Len(t) + 1 BY <1>1
    <3> QED BY <1>1, <1>2, <3>1, <3>2 DEF Has
  <2> QED BY <1>4, <2>1, <2>2
<1> QED BY <1>3, <1>4 DEF p

LEMMA RestHas ==
  ASSUME NEW t \in Seq(UnitType), Rest(t)
  PROVE  /\ \A i \in DOMAIN t : t[i].kind # "AddChain"
         /\ \A k \in {2, 3, 4, 6} : ~Has(t, "PointEvent", k)
BY DEF Rest, Resting, IsAt, Has

(* There is one AddChain at most, and it is the first unit. *)
LEMMA TailNoAdd ==
  ASSUME Typed, Control, units # <<>>
  PROVE  \A i \in DOMAIN Tail(units) : Tail(units)[i].kind # "AddChain"
<1> DEFINE t == Tail(units)
<1>1. PICK w \in UnitType : Shape(units, w) /\ Facts(w) BY DEF Control
<1>2. t \in Seq(UnitType) BY FrontType DEF Typed
<1>3. Layer(t, w) \/ (On(t, w) /\ w.kind # "AddChain") \/ Rest(t)
  <2>1. \/ Layer(t, w) \/ Asking(t, w) \/ Paused(t, w) \/ Held(t, w) \/ Rest(t)
    BY <1>1 DEF Shape
  <2>2. Keeps(w) \/ Asks(w) \/ Resting(w) \/ IsAt(w, "SolveChain", 0) => w.kind # "AddChain"
    BY DEF Keeps, Asks, Resting, IsAt
  <2>3. t = <<>> => Rest(t) BY DEF Rest
  <2> HIDE DEF t
  <2> QED BY <2>1, <2>2, <2>3 DEF Asking, Paused, Held
<1> HIDE DEF t
<1>4. CASE Layer(t, w)
  <2>1. PICK n \in DOMAIN t :
        /\ \A i \in 1 .. n - 1 : IsAt(t[i], "Adjust", 0)
        /\ IsAt(t[n], "QuickEffect", 0)
        /\ n < Len(t) /\ w = t[n + 1] /\ Keeps(w)
        /\ \A i \in n + 2 .. Len(t) : Resting(t[i])
    BY <1>4 DEF Layer
  <2>2. Len(t) \in Nat /\ DOMAIN t = 1 .. Len(t) /\ n \in 1 .. Len(t)
    BY <1>2, LenProperties
  <2>3. \A i \in 1 .. Len(t) : i \in 1 .. n - 1 \/ i = n \/ i = n + 1 \/ i \in n + 2 .. Len(t)
    BY <2>2
  <2>4. ASSUME NEW i \in DOMAIN t
        PROVE  t[i].kind # "AddChain"
    BY <2>1, <2>2, <2>3 DEF IsAt, Keeps, Resting
  <2> QED BY <2>4 DEF t
<1>5. CASE On(t, w) /\ w.kind # "AddChain"
  <2>1. t # <<>> /\ w = Head(t) /\ Rest(Tail(t)) BY <1>5 DEF On
  <2>2. t = Push(w, Tail(t)) /\ Tail(t) \in Seq(UnitType) BY <1>2, <2>1, HeadTailPush
  <2>3. \A s : ~Has(Tail(t), "AddChain", s) BY <2>1, <2>2, RestHas DEF Has, IsAt
  <2>4. \A s : ~Has(t, "AddChain", s)
    <3>1. \A s : Has(Push(w, Tail(t)), "AddChain", s) <=> IsAt(w, "AddChain", s) \/ Has(Tail(t), "AddChain", s)
      BY <2>2, HasPush
    <3> QED BY <1>5, <2>2, <2>3, <3>1, Zenon DEF IsAt
  <2> QED BY <2>4 DEF Has, IsAt, t
<1>6. CASE Rest(t) BY <1>2, <1>6, RestHas DEF t
<1> QED BY <1>3, <1>4, <1>5, <1>6

(* What the stack is when a handler has put its unit at step s: s is 0 when
   the unit is gone. *)
NewStack(s) ==
  /\ \A k \in {2, 3, 4, 6} :
       Has(units', "PointEvent", k) <=>
         (Front.kind = "PointEvent" /\ s = k) \/ Has(Tail(units), "PointEvent", k)
  /\ At("AddChain", 8)' => Front.kind = "AddChain" /\ s = 8

Early(u) == u.step \in {0, 1}

LEMMA FrontOver ==
  ASSUME NEW t \in Seq(UnitType), NEW u \in UnitType, units' = Push(u, t)
  PROVE  At("AddChain", 8)' <=> IsAt(u, "AddChain", 8)
<1>1. units' # <<>> /\ Head(units') = u BY PushProperties
<1> QED BY <1>1 DEF At, Front, IsAt

LEMMA FinishStack ==
  ASSUME Typed, Control, units # <<>>, NEW a \in UnitType, NEW b \in UnitType, Early(a), Early(b),
         Finish(<<>>) \/ Finish(<<a>>) \/ Finish(<<a, b>>)
  PROVE  NewStack(0)
<1> DEFINE t == Tail(units)
<1>1. t \in Seq(UnitType) /\ units \in Seq(UnitType) BY FrontType DEF Typed
<1>2. \A i \in DOMAIN t : t[i].kind # "AddChain" BY TailNoAdd
<1>3. units' = t \/ units' = Push(a, t) \/ units' = Push(a, Push(b, t))
  BY <1>1, Finishes
<1> HIDE DEF t
<1>4. /\ Push(b, t) \in Seq(UnitType)
      /\ \A k, s : Has(Push(b, t), k, s) <=> IsAt(b, k, s) \/ Has(t, k, s)
      /\ \A k, s : Has(Push(a, t), k, s) <=> IsAt(a, k, s) \/ Has(t, k, s)
  BY <1>1, PushProperties, HasPush
<1>5. \A k, s : Has(Push(a, Push(b, t)), k, s) <=> IsAt(a, k, s) \/ Has(Push(b, t), k, s)
  BY <1>4, HasPush
<1>6. \A k \in {2, 3, 4, 6} : Has(units', "PointEvent", k) <=> Has(t, "PointEvent", k)
  BY <1>3, <1>4, <1>5 DEF IsAt, Early
<1>7. ~At("AddChain", 8)'
  <2>1. CASE units' = t
    <3>1. t # <<>> => Head(t) = t[1] /\ 1 \in DOMAIN t BY <1>1, EmptySeq, LenProperties
    <3> QED BY <1>2, <2>1, <3>1 DEF At, Front
  <2>2. CASE units' = Push(a, t) \/ units' = Push(a, Push(b, t))
    BY <1>1, <1>4, <2>2, FrontOver DEF IsAt, Early
  <2> QED BY <1>3, <2>1, <2>2
<1> QED BY <1>6, <1>7 DEF NewStack, t

LEMMA GoOnStack ==
  ASSUME Typed, Control, units # <<>>, NEW a \in UnitType, NEW b \in UnitType, Early(a), Early(b),
         NEW s \in 0 .. 11,
         GoOn(s, <<>>) \/ GoOn(s, <<a>>) \/ GoOn(s, <<a, b>>)
  PROVE  NewStack(s)
<1> DEFINE t == Tail(units)
<1>1. t \in Seq(UnitType) /\ units \in Seq(UnitType) /\ Front \in UnitType
  BY FrontType DEF Typed
<1>2. PICK f \in UnitType : f = [Front EXCEPT !.step = s] BY <1>1, FrontType
<1>3. f.kind = Front.kind /\ f.step = s BY <1>1, <1>2 DEF UnitType
<1>4. units' = Push(f, t) \/ units' = Push(a, Push(f, t)) \/ units' = Push(a, Push(b, Push(f, t)))
  BY <1>1, <1>2, GoesOn
<1> HIDE DEF t
<1>5. /\ Push(f, t) \in Seq(UnitType)
      /\ \A k, n : Has(Push(f, t), k, n) <=> IsAt(f, k, n) \/ Has(t, k, n)
  BY <1>1, PushProperties, HasPush
<1>6. /\ Push(b, Push(f, t)) \in Seq(UnitType)
      /\ \A k, n : Has(Push(b, Push(f, t)), k, n) <=> IsAt(b, k, n) \/ Has(Push(f, t), k, n)
      /\ \A k, n : Has(Push(a, Push(f, t)), k, n) <=> IsAt(a, k, n) \/ Has(Push(f, t), k, n)
  BY <1>5, PushProperties, HasPush
<1>7. \A k, n : Has(Push(a, Push(b, Push(f, t))), k, n) <=> IsAt(a, k, n) \/ Has(Push(b, Push(f, t)), k, n)
  BY <1>6, HasPush
<1>8. \A k \in {2, 3, 4, 6} : Has(units', "PointEvent", k) <=> IsAt(f, "PointEvent", k) \/ Has(t, "PointEvent", k)
  BY <1>4, <1>5, <1>6, <1>7 DEF IsAt, Early
<1>9. At("AddChain", 8)' => IsAt(f, "AddChain", 8)
  BY <1>1, <1>4, <1>5, <1>6, FrontOver DEF IsAt, Early
<1> QED BY <1>3, <1>8, <1>9 DEF NewStack, IsAt, t


LEMMA EarlyUnits ==
  /\ Adjust \in UnitType /\ AddChain \in UnitType /\ ActivateEffect \in UnitType
  /\ Early(Adjust) /\ Early(AddChain) /\ Early(ActivateEffect)
  /\ \A s \in Skips : /\ PointEvent(s) \in UnitType /\ SolveChain(s) \in UnitType
                      /\ Early(PointEvent(s)) /\ Early(SolveChain(s))
  /\ \A s \in Skips, k \in {0, 1}, p \in Players :
       QuickEffect(k, s, Opponent(p)) \in UnitType /\ Early(QuickEffect(k, s, Opponent(p)))
  /\ NoSkip \in Skips
<1>1. /\ Adjust \in UnitType /\ AddChain \in UnitType /\ ActivateEffect \in UnitType
      /\ \A s \in Skips : PointEvent(s) \in UnitType /\ SolveChain(s) \in UnitType
      /\ \A s \in Skips, k \in {0, 1}, p \in Players : QuickEffect(k, s, Opponent(p)) \in UnitType
      /\ NoSkip \in Skips
  BY UnitTypes
<1>2. /\ Early(Adjust) /\ Early(AddChain) /\ Early(ActivateEffect)
      /\ \A s \in Skips : Early(PointEvent(s)) /\ Early(SolveChain(s))
      /\ \A s \in Skips, k \in {0, 1}, p \in Players : Early(QuickEffect(k, s, Opponent(p)))
  BY DEF Early, Adjust, AddChain, ActivateEffect, PointEvent, SolveChain, QuickEffect, Unit
<1> QED BY <1>1, <1>2

LEMMA QuickForcedStack ==
  ASSUME Typed, Control, QuickForced
  PROVE  NewStack(0)
<1>1. /\ units # <<>> /\ Front.kind = "QuickEffect" /\ Front \in UnitType
      /\ Tail(units) \in Seq(UnitType) /\ units \in Seq(UnitType)
  BY FrontType DEF QuickForced, At, Typed
<1>2. PICK left : QuickForcedNone(left) BY DEF QuickForced
<1>3. CASE units' = <<[Front EXCEPT !.step = 0, !.is_opponent = TRUE]>> \o Tail(units)
  <2>1. PICK g : g = [Front EXCEPT !.step = 0] OBVIOUS
  <2>2. PICK f : f = [Front EXCEPT !.step = 0, !.is_opponent = TRUE] OBVIOUS
  <2>3. f \in UnitType /\ f.kind = "QuickEffect" /\ f.step = 0 /\ units' = Push(f, Tail(units))
    <3>1. f = [g EXCEPT !.is_opponent = TRUE] BY <2>1, <2>2
    <3>2. g \in UnitType /\ g.kind = "QuickEffect" /\ g.step = 0
      BY <1>1, <2>1 DEF UnitType
    <3>3. f \in UnitType /\ f.kind = "QuickEffect" /\ f.step = 0
      BY <3>1, <3>2 DEF UnitType
    <3> QED BY <1>3, <2>2, <3>3 DEF Push
  <2> DEFINE t == Tail(units)
  <2>4. /\ \A k : Has(Push(f, t), "PointEvent", k) <=> IsAt(f, "PointEvent", k) \/ Has(t, "PointEvent", k)
        /\ At("AddChain", 8)' <=> IsAt(f, "AddChain", 8)
    BY <1>1, <2>3, HasPush, FrontOver
  <2> QED BY <1>1, <2>3, <2>4 DEF NewStack, IsAt
<1>4. CASE GoOn(2, <<>>)
  <2>1. NewStack(2)
    <3>1. 2 \in 0 .. 11 OBVIOUS
    <3> QED BY <1>1, <1>4, <3>1, EarlyUnits, GoOnStack
  <2> QED BY <1>1, <2>1 DEF NewStack
<1>5. CASE /\ new_chains # <<>>
           /\ Finish(<<AddChain, QuickEffect(0, NoSkip, Opponent(new_chains[Len(new_chains)].player))>>)
  <2>1. new_chains[Len(new_chains)].player \in Players
    <3>1. new_chains \in Seq(AnyLink) BY DEF Typed, DataTyped
    <3>2. new_chains[Len(new_chains)] \in AnyLink BY <1>5, <3>1, EmptySeq, ElementOfSeq
    <3> QED BY <3>2 DEF AnyLink
  <2> QED BY <1>1, <1>5, <2>1, EarlyUnits, FinishStack
<1> QED BY <1>2, <1>3, <1>4, <1>5 DEF QuickForcedNone

LEMMA OtherStacks ==
  ASSUME Typed, Control,
         \/ QuickForcedChosen \/ QuickForced \/ QuickEffectChosen \/ QuickEffectPass
         \/ AddChainStart \/ AddChainAbandon \/ AddChainEnd \/ AdjustAll
         \/ Activate \/ ActivateSolve \/ SolveActivating \/ SolveNegated \/ SolveStart
         \/ SolveOperation \/ SolveEnd \/ SolvePop \/ SolveLast
         \/ IdleActivate \/ IdleSolve \/ IdleEvent \/ IdleAnnounce \/ IdleEnd
  PROVE  /\ units # <<>> /\ Front.kind # "PointEvent" /\ NewStack(0)
         /\ ~At("AddChain", 8) \/ AddChainEnd
<1>1. /\ units # <<>> /\ Front.kind # "PointEvent"
      /\ ~At("AddChain", 8) \/ AddChainEnd
  BY DEF At, QuickForcedChosen, QuickForced, QuickEffectChosen, QuickEffectPass, AddChainStart,
     AddChainAbandon, AddChainEnd, AdjustAll, Activate, ActivateSolve, SolveActivating, SolveNegated,
     SolveStart, SolveOperation, SolveEnd, SolvePop, SolveLast, IdleActivate, IdleSolve, IdleEvent,
     IdleAnnounce, IdleEnd
<1>2. /\ Front.skips \in Skips /\ Front.player \in Players
      /\ units = Push(Front, Tail(units)) /\ Front \in UnitType /\ Tail(units) \in Seq(UnitType)
  BY <1>1, FrontType DEF Typed
<1>3. turn_player \in Players /\ Calls \subseteq Skips
  BY Others, Settled DEF AllSettings, Calls
<1>4. ASSUME NEW s \in 0 .. 11, NewStack(s), s # 8
      PROVE  NewStack(0)
  BY <1>1, <1>4 DEF NewStack
<1>5. 0 \in 0 .. 11 /\ 1 \in 0 .. 11 /\ 2 \in 0 .. 11 /\ 5 \in 0 .. 11 /\ 10 \in 0 .. 11 /\ 11 \in 0 .. 11
  OBVIOUS
<1>6. CASE QuickForcedChosen
  <2>1. units' = units /\ Front.kind = "QuickEffect" BY <1>6 DEF QuickForcedChosen, At
  <2>2. \A k : Has(units, "PointEvent", k) <=> Has(Tail(units), "PointEvent", k)
    <3> DEFINE t == Tail(units)
               u == Front
    <3>1. t \in Seq(UnitType) /\ u \in UnitType /\ units = Push(u, t) /\ u.kind # "PointEvent"
      BY <1>2, <2>1
    <3> HIDE DEF t, u
    <3>2. \A k : Has(Push(u, t), "PointEvent", k) <=> IsAt(u, "PointEvent", k) \/ Has(t, "PointEvent", k)
      BY <3>1, HasPush
    <3> QED BY <3>1, <3>2, Zenon DEF t, IsAt
  <2> QED BY <1>1, <1>6, <2>1, <2>2 DEF NewStack, At, Front
<1>7. CASE QuickForced BY <1>1, <1>7, QuickForcedStack
<1>8. CASE AddChainStart \/ SolveStart
  <2>1. GoOn(2, <<>>) BY <1>8 DEF AddChainStart, SolveStart
  <2>2. GoOn(2, <<>>) => NewStack(2) BY <1>1, <1>5, EarlyUnits, GoOnStack
  <2> QED BY <1>1, <1>4, <1>5, <2>1, <2>2
<1>9. CASE SolveNegated \/ SolveEnd
  <2>1. GoOn(10, <<>>) BY <1>9 DEF SolveNegated, SolveEnd
  <2>2. GoOn(10, <<>>) => NewStack(10) BY <1>1, <1>5, EarlyUnits, GoOnStack
  <2> QED BY <1>1, <1>4, <1>5, <2>1, <2>2
<1>10. CASE SolveActivating \/ SolveOperation
  <2>1. GoOn(1, <<>>) \/ GoOn(5, <<>>) BY <1>10 DEF SolveActivating, SolveOperation
  <2>2. GoOn(1, <<>>) => NewStack(1) BY <1>1, <1>5, EarlyUnits, GoOnStack
  <2>3. GoOn(5, <<>>) => NewStack(5) BY <1>1, <1>5, EarlyUnits, GoOnStack
  <2> QED BY <1>1, <1>4, <1>5, <2>1, <2>2, <2>3
<1>11. CASE SolvePop
  <2>1. GoOn(0, <<Adjust>>) \/ GoOn(11, <<Adjust>>)
    <3>1. CASE Len(current_chain) > 1 BY <1>11, <3>1 DEF SolvePop
    <3>2. CASE ~(Len(current_chain) > 1) BY <1>11, <3>2 DEF SolvePop
    <3> QED BY <3>1, <3>2
  <2>2. GoOn(0, <<Adjust>>) => NewStack(0) BY <1>1, <1>5, EarlyUnits, GoOnStack
  <2>3. GoOn(11, <<Adjust>>) => NewStack(11) BY <1>1, <1>5, EarlyUnits, GoOnStack
  <2> QED BY <1>1, <1>4, <1>5, <2>1, <2>2, <2>3
<1>12. CASE AddChainAbandon
  <2>1. Finish(<<>>) BY <1>12 DEF AddChainAbandon
  <2> QED BY <1>1, <2>1, EarlyUnits, FinishStack
<1>13. CASE AddChainEnd
  <2>1. Finish(<<AddChain, Adjust>>) \/ Finish(<<Adjust>>)
    <3>1. CASE new_chains # <<>> BY <1>13, <3>1 DEF AddChainEnd
    <3>2. CASE new_chains = <<>> BY <1>13, <3>2 DEF AddChainEnd
    <3> QED BY <3>1, <3>2
  <2> QED BY <1>1, <2>1, EarlyUnits, FinishStack
<1>14. CASE AdjustAll
  <2>1. Finish(<<>>) \/ Finish(<<ActivateEffect>>) BY <1>14 DEF AdjustAll
  <2> QED BY <1>1, <2>1, EarlyUnits, FinishStack
<1>15. CASE Activate \/ IdleActivate
  <2>1. PICK p \in Players : \/ Finish(<<>>)
                             \/ GoOn(1, <<AddChain, QuickEffect(0, NoSkip, Opponent(p))>>)
                             \/ GoOn(2, <<AddChain, QuickEffect(0, NoSkip, Opponent(p))>>)
    BY <1>3, <1>15 DEF Activate, IdleActivate
  <2>2. GoOn(1, <<AddChain, QuickEffect(0, NoSkip, Opponent(p))>>) => NewStack(1)
    BY <1>1, <1>5, EarlyUnits, GoOnStack
  <2>3. GoOn(2, <<AddChain, QuickEffect(0, NoSkip, Opponent(p))>>) => NewStack(2)
    BY <1>1, <1>5, EarlyUnits, GoOnStack
  <2>4. Finish(<<>>) => NewStack(0) BY <1>1, EarlyUnits, FinishStack
  <2> QED BY <1>1, <1>4, <1>5, <2>1, <2>2, <2>3, <2>4
<1>16. CASE QuickEffectChosen
  <2>1. Finish(<<AddChain, QuickEffect(0, NoSkip, Opponent(Front.player))>>)
    BY <1>16 DEF QuickEffectChosen
  <2> QED BY <1>1, <1>2, <2>1, EarlyUnits, FinishStack
<1>17. CASE QuickEffectPass
  <2>1. Finish(<<>>) \/ Finish(<<QuickEffect(1, Front.skips, Opponent(Front.player))>>)
    <3>1. CASE \A q \in Players : priorities'[q] BY <1>17, <3>1 DEF QuickEffectPass
    <3>2. CASE ~(\A q \in Players : priorities'[q]) BY <1>17, <3>2 DEF QuickEffectPass
    <3> QED BY <3>1, <3>2
  <2> QED BY <1>1, <1>2, <2>1, EarlyUnits, FinishStack
<1>18. CASE ActivateSolve \/ IdleSolve
  <2>1. Finish(<<SolveChain(NoSkip)>>) \/ GoOn(0, <<SolveChain(NoSkip)>>)
    BY <1>18 DEF ActivateSolve, IdleSolve
  <2> QED BY <1>1, <1>4, <1>5, <2>1, EarlyUnits, GoOnStack, FinishStack
<1>19. CASE IdleEvent
  <2>1. PICK s \in Skips : GoOn(0, <<PointEvent(s)>>) BY <1>3, <1>19 DEF IdleEvent
  <2> QED BY <1>1, <1>4, <1>5, <2>1, EarlyUnits, GoOnStack
<1>20. CASE IdleAnnounce
  <2>1. GoOn(10, <<QuickEffect(0, NoSkip, Opponent(turn_player))>>)
    BY <1>20 DEF IdleAnnounce
  <2>2. GoOn(10, <<QuickEffect(0, NoSkip, Opponent(turn_player))>>) => NewStack(10)
    BY <1>1, <1>3, <1>5, EarlyUnits, GoOnStack
  <2> QED BY <1>1, <1>4, <1>5, <2>1, <2>2
<1>21. CASE IdleEnd
  <2>1. Finish(<<>>) \/ GoOn(0, <<SolveChain(NoSkip)>>) BY <1>21 DEF IdleEnd
  <2> QED BY <1>1, <1>4, <1>5, <2>1, EarlyUnits, GoOnStack, FinishStack
<1>22. CASE SolveLast
  <2> DEFINE s == [Front.skips EXCEPT !.skip_freechain = @ \/ Front.skips.skip_new]
  <2>1. s \in Skips BY <1>2 DEF Skips
  <2> HIDE DEF s
  <2>2. Finish(<<Adjust>>) \/ Finish(<<Adjust, PointEvent(s)>>)
    <3>1. CASE Front.skips.skip_trigger /\ Front.skips.skip_new
      <4>1. Finish(<<Adjust>> \o <<>>) BY <1>22, <3>1 DEF SolveLast
      <4>2. <<Adjust>> \o <<>> = <<Adjust>> OBVIOUS
      <4> QED BY <4>1, <4>2
    <3>2. CASE ~(Front.skips.skip_trigger /\ Front.skips.skip_new)
      <4>1. Finish(<<Adjust>> \o <<PointEvent(s)>>) BY <1>22, <3>2 DEF SolveLast, s
      <4>2. <<Adjust>> \o <<PointEvent(s)>> = <<Adjust, PointEvent(s)>>
        BY <2>1, EarlyUnits, Pair
      <4> QED BY <4>1, <4>2
    <3> QED BY <3>1, <3>2
  <2> QED BY <1>1, <2>1, <2>2, EarlyUnits, FinishStack
<1> QED
  BY <1>1, <1>6, <1>7, <1>8, <1>9, <1>10, <1>11, <1>12, <1>13, <1>14, <1>15, <1>16, <1>17, <1>18,
     <1>19, <1>20, <1>21, <1>22


-----------------------------------------------------------------------------
(* How many links began to resolve. *)
LEMMA SpentSize ==
  ASSUME Typed, NEW D \in SUBSET (1 .. next_id - 1)
  PROVE  /\ IsFiniteSet(D) /\ Cardinality(D) \in Nat
         /\ Cardinality(D) <= next_id - 1
         /\ \A i \in 1 .. next_id - 1 : i \notin D => Cardinality(D) + 1 <= next_id - 1
<1>1. next_id \in Nat /\ next_id >= 1 BY Settled
<1>2. 1 \in Int /\ next_id - 1 \in Int BY <1>1
<1>3. IsFiniteSet(1 .. next_id - 1) /\ Cardinality(1 .. next_id - 1) = next_id - 1
  <2>1. Cardinality(1 .. next_id - 1) = IF 1 > next_id - 1 THEN 0 ELSE next_id - 1 - 1 + 1
    BY <1>2, FS_Interval
  <2> QED BY <1>1, <1>2, <2>1, FS_Interval
<1>4. IsFiniteSet(D) /\ Cardinality(D) <= next_id - 1 BY <1>3, FS_Subset
<1>5. Cardinality(D) \in Nat BY <1>4, FS_CardinalityType
<1>6. ASSUME NEW i \in 1 .. next_id - 1, i \notin D
      PROVE  Cardinality(D) + 1 <= next_id - 1
  <2>1. D \cup {i} \in SUBSET (1 .. next_id - 1) OBVIOUS
  <2>2. Cardinality(D \cup {i}) = Cardinality(D) + 1 BY <1>4, <1>6, FS_AddElement
  <2>3. Cardinality(D \cup {i}) <= Cardinality(1 .. next_id - 1)
    BY <1>3, <2>1, FS_Subset
  <2> QED BY <1>3, <2>2, <2>3
<1> QED BY <1>4, <1>5, <1>6

LEMMA SpentKept ==
  ASSUME Typed, Typed', Spent, NoReturn, UNCHANGED started, Resolving => Resolving'
  PROVE  Spent'
<1>1. PICK D \in SUBSET (1 .. next_id - 1) :
        /\ D \cap Live = {}
        /\ started <= Cardinality(D) + (IF Resolving THEN 1 ELSE 0)
  BY DEF Spent
<1>2. next_id \in Nat /\ next_id >= 1 /\ next_id' \in Nat /\ next_id <= next_id'
  BY Settled DEF NoReturn, Typed, DataTyped
<1>3. D \in SUBSET (1 .. next_id' - 1) BY <1>2, Ranges
<1>4. D \cap Live' = {} BY <1>1 DEF NoReturn
<1>5. Cardinality(D) \in Nat /\ started \in Nat BY SpentSize DEF Typed, DataTyped
<1>6. started' <= Cardinality(D) + (IF Resolving' THEN 1 ELSE 0) BY <1>1, <1>5
<1> QED BY <1>3, <1>4, <1>6 DEF Spent

LEMMA SpentStart ==
  ASSUME Typed, Typed', Spent, NoReturn, started' = started + 1, ~Resolving, Resolving'
  PROVE  Spent'
<1>1. PICK D \in SUBSET (1 .. next_id - 1) :
        /\ D \cap Live = {}
        /\ started <= Cardinality(D) + (IF Resolving THEN 1 ELSE 0)
  BY DEF Spent
<1>2. next_id \in Nat /\ next_id >= 1 /\ next_id' \in Nat /\ next_id <= next_id'
  BY Settled DEF NoReturn, Typed, DataTyped
<1>3. D \in SUBSET (1 .. next_id' - 1) BY <1>2, Ranges
<1>4. D \cap Live' = {} BY <1>1 DEF NoReturn
<1>5. Cardinality(D) \in Nat /\ started \in Nat BY SpentSize DEF Typed, DataTyped
<1>6. started' <= Cardinality(D) + (IF Resolving' THEN 1 ELSE 0) BY <1>1, <1>5
<1> QED BY <1>3, <1>4, <1>6 DEF Spent

LEMMA SpentPop ==
  ASSUME Typed, Typed', Control, Identities, Spent, SolvePop
  PROVE  Spent'
<1>1. PICK D \in SUBSET (1 .. next_id - 1) :
        /\ D \cap Live = {}
        /\ started <= Cardinality(D) + (IF Resolving THEN 1 ELSE 0)
  BY DEF Spent
<1>2. UNCHANGED <<next_id, started>> BY DEF SolvePop, triggers, solving
<1>3. /\ Last.id \in 1 .. next_id - 1 /\ Last.id \in Live
      /\ Last.id \notin Live' /\ Live' \subseteq Live
  BY SolvePopIdentities
<1> DEFINE E == D \cup {Last.id}
<1>4. E \in SUBSET (1 .. next_id' - 1) /\ E \cap Live' = {} BY <1>1, <1>2, <1>3
<1>5. IsFiniteSet(D) /\ Cardinality(D) \in Nat /\ started \in Nat
  BY SpentSize DEF Typed, DataTyped
<1>6. Cardinality(E) = Cardinality(D) + 1 BY <1>1, <1>3, <1>5, FS_AddElement
<1> HIDE DEF E
<1>7. started' <= Cardinality(E) + (IF Resolving' THEN 1 ELSE 0)
  BY <1>1, <1>2, <1>5, <1>6
<1> QED BY <1>4, <1>7 DEF Spent

(* While a link resolves only its own steps are made. *)
LEMMA ResolvingSteps ==
  ASSUME Typed, Control, Resolving, Next
  PROVE  SolveOperation \/ SolveEnd \/ SolvePop
<1>1. units # <<>> /\ Front.kind = "SolveChain" /\ Front.step \in {2, 5, 10}
  BY DEF Resolving
<1>2. ~(PointEventStart \/ PointEventForced \/ PointEventOptional \/ PointEventNextPlayer
          \/ PointEventQuick \/ PointEventEnd)
  BY <1>1 DEF At, PointEventStart, PointEventForced, PointEventOptional, PointEventNextPlayer,
     PointEventQuick, PointEventEnd
<1>3. ~(QuickForcedChosen \/ QuickForced \/ QuickEffectChosen \/ QuickEffectPass)
  BY <1>1 DEF At, QuickForcedChosen, QuickForced, QuickEffectChosen, QuickEffectPass
<1>4. ~(AddChainStart \/ AddChainAbandon \/ AddChainLink \/ AddChainEnd \/ AdjustAll
          \/ Activate \/ ActivateSolve)
  BY <1>1 DEF At, AddChainStart, AddChainAbandon, AddChainLink, AddChainEnd, AdjustAll,
     Activate, ActivateSolve
<1>5. ~(SolveActivating \/ SolveNegated \/ SolveStart \/ SolveLast)
  BY <1>1 DEF At, SolveActivating, SolveNegated, SolveStart, SolveLast
<1>6. ~(IdleActivate \/ IdleSolve \/ IdleEvent \/ IdleAnnounce \/ IdleEnd \/ Ended)
  BY <1>1 DEF At, IdleActivate, IdleSolve, IdleEvent, IdleAnnounce, IdleEnd, Ended
<1> QED BY <1>2, <1>3, <1>4, <1>5, <1>6 DEF Next

LEMMA SolveBecomes ==
  ASSUME Typed, units # <<>>, Front.kind = "SolveChain", NEW s \in 0 .. 11, GoOn(s, <<>>)
  PROVE  units' # <<>> /\ Front'.kind = "SolveChain" /\ Front'.step = s
<1>1. units \in Seq(UnitType) /\ Adjust \in UnitType /\ Tail(units) \in Seq(UnitType) /\ Front \in UnitType
  BY FrontType, UnitTypes DEF Typed
<1>2. PICK f \in UnitType : f = [Front EXCEPT !.step = s] BY <1>1, FrontType
<1>3. f.kind = "SolveChain" /\ f.step = s BY <1>1, <1>2 DEF UnitType
<1>4. units' = Push(f, Tail(units)) BY <1>1, <1>2, GoesOn
<1>5. units' # <<>> /\ Head(units') = f BY <1>1, <1>4, PushUnit
<1> QED BY <1>3, <1>5 DEF Front

LEMMA StartedSame ==
  ASSUME Next, ~SolveStart
  PROVE  UNCHANGED started
<1> USE DEF solving
<1>1. CASE PointEventStart \/ PointEventForced \/ PointEventOptional \/ PointEventNextPlayer
             \/ PointEventQuick \/ PointEventEnd
  BY <1>1 DEF PointEventStart, PointEventForced, PointEventOptional, PointEventNextPlayer,
     PointEventQuick, PointEventEnd
<1>2. CASE QuickForcedChosen \/ QuickForced \/ QuickEffectChosen \/ QuickEffectPass
  BY <1>2 DEF QuickForcedChosen, QuickForced, QuickEffectChosen, QuickEffectPass
<1>3. CASE AddChainStart \/ AddChainAbandon \/ AddChainLink \/ AddChainEnd \/ AdjustAll
             \/ Activate \/ ActivateSolve
  BY <1>3 DEF AddChainStart, AddChainAbandon, AddChainLink, AddChainEnd, AdjustAll,
     Activate, ActivateSolve
<1>4. CASE SolveActivating \/ SolveNegated \/ SolveOperation \/ SolveEnd \/ SolvePop \/ SolveLast
  BY <1>4 DEF SolveActivating, SolveNegated, SolveOperation, SolveEnd, SolvePop, SolveLast
<1>5. CASE IdleActivate \/ IdleSolve \/ IdleEvent \/ IdleAnnounce \/ IdleEnd \/ Ended
  BY <1>5 DEF IdleActivate, IdleSolve, IdleEvent, IdleAnnounce, IdleEnd, Ended, vars
<1> QED BY <1>1, <1>2, <1>3, <1>4, <1>5 DEF Next

LEMMA NextSpent ==
  ASSUME Typed, Typed', Control, Identities, Spent, [Next]_vars
  PROVE  Spent'
<1>1. NoReturn BY NextIdentities
<1>2. CASE SolvePop BY <1>2, SpentPop
<1>3. CASE SolveStart
  <2>1. /\ units # <<>> /\ Front.kind = "SolveChain" /\ Front.step = 1 /\ GoOn(2, <<>>)
        /\ started' = started + 1
    BY <1>3 DEF SolveStart, At
  <2>2. units' # <<>> /\ Front'.kind = "SolveChain" /\ Front'.step = 2
    <3>1. 2 \in 0 .. 11 OBVIOUS
    <3> QED BY <2>1, <3>1, SolveBecomes
  <2>3. ~Resolving /\ Resolving' BY <2>1, <2>2 DEF Resolving
  <2> QED BY <1>1, <2>1, <2>3, SpentStart
<1>4. CASE Next /\ ~SolvePop /\ ~SolveStart
  <2>1. UNCHANGED started BY <1>4, StartedSame
  <2>2. ASSUME Resolving
        PROVE  Resolving'
    <3>1. SolveOperation \/ SolveEnd BY <1>4, <2>2, ResolvingSteps
    <3>2. units # <<>> /\ Front.kind = "SolveChain" /\ (GoOn(5, <<>>) \/ GoOn(10, <<>>))
      BY <3>1 DEF SolveOperation, SolveEnd, At
    <3>3. 5 \in 0 .. 11 /\ 10 \in 0 .. 11 OBVIOUS
    <3>4. units' # <<>> /\ Front'.kind = "SolveChain" /\ (Front'.step = 5 \/ Front'.step = 10)
      BY <3>2, <3>3, SolveBecomes
    <3> QED BY <3>4 DEF Resolving
  <2> QED BY <1>1, <2>1, <2>2, SpentKept
<1>5. CASE UNCHANGED vars
  <2>1. UNCHANGED <<units, started>> BY <1>5 DEF vars, solving
  <2>2. Resolving => Resolving' BY <2>1 DEF Resolving, Front
  <2> QED BY <1>1, <2>1, <2>2, SpentKept
<1> QED BY <1>2, <1>3, <1>4, <1>5


-----------------------------------------------------------------------------
(* The count of the links whose activation is complete. *)
LEMMA ChainSame ==
  ASSUME Next, ~AddChainLink, ~AddChainEnd, ~SolvePop, ~SolveActivating, ~SolveOperation
  PROVE  UNCHANGED <<current_chain, real_chain_count>>
<1> USE DEF links
<1>1. CASE PointEventStart \/ PointEventForced \/ PointEventOptional \/ PointEventNextPlayer
             \/ PointEventQuick \/ PointEventEnd
  BY <1>1 DEF PointEventStart, PointEventForced, PointEventOptional, PointEventNextPlayer,
     PointEventQuick, PointEventEnd
<1>2. CASE QuickForcedChosen \/ QuickForced \/ QuickEffectChosen \/ QuickEffectPass
  BY <1>2 DEF QuickForcedChosen, QuickForced, QuickEffectChosen, QuickEffectPass
<1>3. CASE AddChainStart \/ AddChainAbandon \/ AdjustAll \/ Activate \/ ActivateSolve
  BY <1>3 DEF AddChainStart, AddChainAbandon, AdjustAll, Activate, ActivateSolve
<1>4. CASE SolveNegated \/ SolveStart \/ SolveEnd \/ SolveLast
  BY <1>4 DEF SolveNegated, SolveStart, SolveEnd, SolveLast
<1>5. CASE IdleActivate \/ IdleSolve \/ IdleEvent \/ IdleAnnounce \/ IdleEnd \/ Ended
  BY <1>5 DEF IdleActivate, IdleSolve, IdleEvent, IdleAnnounce, IdleEnd, Ended, vars
<1> QED BY <1>1, <1>2, <1>3, <1>4, <1>5 DEF Next

(* The steps of PointEvent put AddChain or QuickEffect in front of it, or
   SolveChain in its place. *)
LEMMA PointEventStacks ==
  ASSUME Typed, Control, units # <<>>, Front.kind = "PointEvent"
  PROVE  /\ \A s \in 0 .. 11 : GoOn(s, <<>>) => NewStack(s)
         /\ \A s \in 0 .. 11 : GoOn(s, <<AddChain>>) => NewStack(s)
         /\ \A s \in 0 .. 11, p \in Players :
              GoOn(s, <<QuickEffect(0, Front.skips, Opponent(p))>>) => NewStack(s)
         /\ Finish(<<>>) \/ Finish(<<SolveChain(Front.skips)>>) => NewStack(0)
<1>1. Front.skips \in Skips BY FrontType DEF Typed
<1>2. ASSUME NEW s \in 0 .. 11, GoOn(s, <<>>) \/ GoOn(s, <<AddChain>>)
      PROVE  NewStack(s)
  BY <1>2, EarlyUnits, GoOnStack
<1>3. ASSUME NEW s \in 0 .. 11, NEW p \in Players, GoOn(s, <<QuickEffect(0, Front.skips, Opponent(p))>>)
      PROVE  NewStack(s)
  BY <1>1, <1>3, EarlyUnits, GoOnStack
<1>4. ASSUME Finish(<<>>) \/ Finish(<<SolveChain(Front.skips)>>)
      PROVE  NewStack(0)
  BY <1>1, <1>4, EarlyUnits, FinishStack
<1> QED BY <1>2, <1>3, <1>4

LEMMA PointEventQuickStack ==
  ASSUME Typed, Control, PointEventQuick
  PROVE  NewStack(10)
<1>1. units # <<>> /\ Front.kind = "PointEvent" BY DEF PointEventQuick, At
<1>2. 10 \in 0 .. 11 /\ turn_player \in Players /\ Opponent(turn_player) \in Players
  BY Others, UnitTypes
<1>3. CASE current_chain # <<>>
  <2>1. Last.player \in Players
    <3>1. current_chain \in Seq(AnyLink) BY DEF Typed, DataTyped
    <3>2. Last \in AnyLink BY <1>3, <3>1, EmptySeq, ElementOfSeq DEF Last
    <3> QED BY <3>2 DEF AnyLink
  <2>2. GoOn(10, <<QuickEffect(0, Front.skips, Opponent(Last.player))>>)
    BY <1>3 DEF PointEventQuick
  <2> QED BY <1>1, <1>2, <2>1, <2>2, PointEventStacks
<1>4. CASE current_chain = <<>> /\ hand_adjusted
  <2>1. GoOn(10, <<>>) BY <1>4 DEF PointEventQuick
  <2> QED BY <1>1, <1>2, <2>1, PointEventStacks
<1>5. CASE current_chain = <<>> /\ ~hand_adjusted
  <2> DEFINE p == IF duel_options.inverted_quick THEN Opponent(turn_player) ELSE turn_player
  <2>1. GoOn(10, <<QuickEffect(0, Front.skips, p)>>) BY <1>5 DEF PointEventQuick
  <2>2. p \in Players /\ Opponent(Opponent(p)) = p /\ Opponent(p) \in Players
    BY <1>2 DEF Opponent, Players
  <2> HIDE DEF p
  <2> QED BY <1>1, <1>2, <2>1, <2>2, PointEventStacks
<1> QED BY <1>3, <1>4, <1>5

LEMMA PointEventFront ==
  ASSUME Typed, Control,
         PointEventStart \/ PointEventForced \/ PointEventOptional \/ PointEventNextPlayer
           \/ PointEventQuick \/ PointEventEnd
  PROVE  ~At("AddChain", 8) /\ ~At("AddChain", 8)'
<1>1. units # <<>> /\ Front.kind = "PointEvent"
  BY DEF PointEventStart, PointEventForced, PointEventOptional, PointEventNextPlayer,
     PointEventQuick, PointEventEnd, At
<1>2. \E s : NewStack(s)
  <2>1. CASE PointEventStart \/ PointEventForced \/ PointEventOptional
    <3>1. \E s \in {2, 3, 4, 6, 9} : GoOn(s, <<>>) \/ GoOn(s, <<AddChain>>)
      BY <2>1 DEF PointEventStart, PointEventForced, PointEventOptional
    <3>2. \A s \in {2, 3, 4, 6, 9} : s \in 0 .. 11 OBVIOUS
    <3> QED BY <1>1, <3>1, <3>2, PointEventStacks
  <2>2. CASE PointEventNextPlayer
    <3>1. \E s \in {2, 4, 9} : GoOn(s, <<>>)
      BY <2>2 DEF PointEventNextPlayer, NextPlayer
    <3>2. \A s \in {2, 4, 9} : s \in 0 .. 11 OBVIOUS
    <3> QED BY <1>1, <3>1, <3>2, PointEventStacks
  <2>3. CASE PointEventEnd
    <3>1. Finish(<<>>) \/ Finish(<<SolveChain(Front.skips)>>)
      <4>1. CASE current_chain = <<>> BY <2>3, <4>1 DEF PointEventEnd
      <4>2. CASE current_chain # <<>> BY <2>3, <4>2 DEF PointEventEnd
      <4> QED BY <4>1, <4>2
    <3> QED BY <1>1, <3>1, PointEventStacks
  <2> QED BY <2>1, <2>2, <2>3, PointEventQuickStack
<1> QED BY <1>1, <1>2 DEF NewStack, At

LEMMA NextRealFront ==
  ASSUME Typed, Control, Identities, RealFront, [Next]_vars
  PROVE  RealFront'
<1>1. /\ current_chain \in Seq(AnyLink) /\ Len(current_chain) \in Nat /\ real_chain_count \in Nat
  BY ChosenTyped DEF Typed, DataTyped
<1>2. CASE AddChainLink
  <2>1. /\ units # <<>> /\ Front.kind = "AddChain" /\ Front.step = 2 /\ GoOn(8, <<>>)
        /\ real_chain_count' = real_chain_count
    BY <1>2 DEF AddChainLink, At
  <2>2. Len(current_chain') = Len(current_chain) + 1
    BY <1>2, NotEmpty, ChosenLinked DEF AddChainLink, Identities
  <2>3. At("AddChain", 8)'
    <3>1. units \in Seq(UnitType) /\ Adjust \in UnitType /\ Tail(units) \in Seq(UnitType) /\ Front \in UnitType
      BY <2>1, FrontType, UnitTypes DEF Typed
    <3>2. 8 \in 0 .. 11 OBVIOUS
    <3>3. PICK f \in UnitType : f = [Front EXCEPT !.step = 8]
      BY <2>1, <3>1, <3>2, FrontType
    <3>4. f.kind = "AddChain" /\ f.step = 8 BY <2>1, <3>1, <3>3 DEF UnitType
    <3>5. units' = Push(f, Tail(units)) BY <2>1, <3>1, <3>2, <3>3, GoesOn
    <3> QED BY <3>1, <3>4, <3>5, FrontOver DEF IsAt
  <2>4. ~At("AddChain", 8) BY <2>1 DEF At
  <2> QED BY <1>1, <2>1, <2>2, <2>3, <2>4 DEF RealFront
<1>3. CASE AddChainEnd
  <2>1. At("AddChain", 8) /\ real_chain_count' = real_chain_count + 1 /\ UNCHANGED current_chain
    BY <1>3 DEF AddChainEnd, CountActivated
  <2>2. ~At("AddChain", 8)' BY <1>3, OtherStacks DEF NewStack
  <2> QED BY <1>1, <2>1, <2>2 DEF RealFront
<1>4. CASE SolvePop
  <2>1. /\ At("SolveChain", 10)
        /\ real_chain_count' = IF real_chain_count = 0 THEN 0 ELSE real_chain_count - 1
    BY <1>4 DEF SolvePop
  <2>2. ~At("AddChain", 8) /\ ~At("AddChain", 8)'
    BY <1>4, <2>1, OtherStacks DEF NewStack, At
  <2>3. Len(current_chain) # 0 /\ Len(current_chain') = Len(current_chain) - 1
    BY <1>4, SolvePopChosen
  <2> QED BY <1>1, <2>1, <2>2, <2>3 DEF RealFront
<1>5. CASE SolveActivating \/ SolveOperation
  <2>1. Negate /\ UNCHANGED <<new_chains, real_chain_count>>
    BY <1>5 DEF SolveActivating, SolveOperation
  <2>2. Len(current_chain') = Len(current_chain) BY <2>1, ChosenNegated DEF Identities
  <2>3. ~At("AddChain", 8) /\ ~At("AddChain", 8)'
    BY <1>5, OtherStacks DEF NewStack, At, SolveActivating, SolveOperation
  <2> QED BY <2>1, <2>2, <2>3 DEF RealFront
<1>6. CASE Next /\ ~AddChainLink /\ ~AddChainEnd /\ ~SolvePop /\ ~SolveActivating /\ ~SolveOperation
  <2>1. UNCHANGED <<current_chain, real_chain_count>> BY <1>6, ChainSame
  <2>2. CASE PointEventStart \/ PointEventForced \/ PointEventOptional \/ PointEventNextPlayer
               \/ PointEventQuick \/ PointEventEnd
    BY <2>1, <2>2, PointEventFront DEF RealFront
  <2>3. CASE Ended BY <2>1, <2>3 DEF Ended, vars, RealFront, At, Front
  <2>4. CASE ~Ended /\ ~(PointEventStart \/ PointEventForced \/ PointEventOptional \/ PointEventNextPlayer
               \/ PointEventQuick \/ PointEventEnd)
    <3>1. ~At("AddChain", 8) /\ NewStack(0) BY <1>6, <2>4, OtherStacks DEF Next
    <3> QED BY <2>1, <3>1 DEF NewStack, RealFront
  <2> QED BY <2>2, <2>3, <2>4
<1>7. CASE UNCHANGED vars BY <1>7 DEF vars, links, RealFront, At, Front
<1> QED BY <1>2, <1>3, <1>4, <1>5, <1>6, <1>7


-----------------------------------------------------------------------------
(* The bounds of the type invariant. *)
LEMMA RealCounted ==
  ASSUME Typed, Control, RealFront
  PROVE  RealCount
<1> DEFINE A == {i \in DOMAIN units : units[i].kind = "AddChain" /\ units[i].step = 8}
<1>1. Cardinality(A) = IF At("AddChain", 8) THEN 1 ELSE 0
  <2>1. CASE units = <<>>
    <3>1. A = {} BY <2>1
    <3> QED BY <2>1, <3>1, FS_EmptySet DEF At
  <2>2. CASE units # <<>>
    <3> DEFINE t == Tail(units)
    <3>1. units \in Seq(UnitType) /\ Front \in UnitType /\ t \in Seq(UnitType) /\ units = Push(Front, t)
      BY <2>2, FrontType DEF Typed
    <3>2. \A i \in DOMAIN t : t[i].kind # "AddChain" BY <2>2, TailNoAdd
    <3>3. /\ Len(t) \in Nat /\ Len(units) = Len(t) + 1 /\ units[1] = Front
          /\ \A i \in 1 .. Len(t) : units[i + 1] = t[i]
      <4> DEFINE u == Front
      <4>1. t \in Seq(UnitType) /\ u \in UnitType /\ units = Push(u, t) BY <3>1
      <4> HIDE DEF t, u
      <4>2. /\ Len(t) \in Nat /\ Len(Push(u, t)) = Len(t) + 1 /\ Push(u, t)[1] = u
            /\ \A i \in 1 .. Len(t) : Push(u, t)[i + 1] = t[i]
        BY <4>1, PushProperties
      <4> QED BY <4>1, <4>2 DEF u
    <3>4. DOMAIN units = 1 .. Len(t) + 1 /\ DOMAIN t = 1 .. Len(t)
      BY <3>1, <3>3, LenProperties
    <3> HIDE DEF t
    <3>5. ASSUME NEW i \in DOMAIN units, i # 1
          PROVE  units[i].kind # "AddChain"
      <4>1. i - 1 \in DOMAIN t /\ (i - 1) + 1 = i BY <3>3, <3>4, <3>5
      <4>2. units[(i - 1) + 1] = t[i - 1] BY <3>3, <3>4, <4>1
      <4> QED BY <3>2, <4>1, <4>2
    <3>6. 1 \in DOMAIN units BY <3>3, <3>4
    <3>7. CASE At("AddChain", 8)
      <4>1. A = {1} BY <3>3, <3>5, <3>6, <3>7 DEF At
      <4>2. {1} = {} \cup {1} /\ 1 \notin {} OBVIOUS
      <4>3. Cardinality({} \cup {1}) = Cardinality({}) + 1
        BY <4>2, FS_EmptySet, FS_AddElement
      <4> QED BY <3>7, <4>1, <4>2, <4>3, FS_EmptySet
    <3>8. CASE ~At("AddChain", 8)
      <4>1. A = {} BY <2>2, <3>3, <3>5, <3>6, <3>8 DEF At
      <4> QED BY <3>8, <4>1, FS_EmptySet
    <3> QED BY <3>7, <3>8
  <2> QED BY <2>1, <2>2
<1> QED BY <1>1 DEF RealCount, RealFront

LEMMA StartedBound ==
  ASSUME Typed, Control, Identities, Spent
  PROVE  started \in 0 .. MaxLinks
<1>1. PICK D \in SUBSET (1 .. next_id - 1) :
        /\ D \cap Live = {}
        /\ started <= Cardinality(D) + (IF Resolving THEN 1 ELSE 0)
  BY DEF Spent
<1>2. /\ next_id \in Nat /\ next_id <= MaxLinks + 1 /\ MaxLinks \in Nat /\ started \in Nat
  BY Settled DEF Typed, DataTyped
<1>3. /\ Cardinality(D) \in Nat /\ Cardinality(D) <= next_id - 1
      /\ \A i \in 1 .. next_id - 1 : i \notin D => Cardinality(D) + 1 <= next_id - 1
  BY SpentSize
<1>4. CASE Resolving
  <2>1. current_chain # <<>> BY <1>4, NotEmpty DEF Resolving, At
  <2>2. /\ current_chain \in Seq(AnyLink) /\ DOMAIN current_chain = 1 .. Len(current_chain)
        /\ Len(current_chain) \in Nat /\ DOMAIN Chosen = 1 .. Len(Chosen)
        /\ Len(Chosen) = Len(current_chain) + Len(new_chains) /\ Len(new_chains) \in Nat
        /\ \A i \in 1 .. Len(Chosen) :
              Chosen[i] = IF i <= Len(current_chain) THEN current_chain[i]
                          ELSE new_chains[i - Len(current_chain)]
    BY ChosenTyped
  <2> DEFINE n == Len(current_chain)
  <2>3. n \in 1 .. Len(Chosen) /\ n <= n BY <2>1, <2>2, EmptySeq
  <2>4. Chosen[n] = current_chain[n] BY <2>2, <2>3
  <2>5. Last.id \in LinkIds(Chosen) BY <2>2, <2>3, <2>4 DEF LinkIds, Last
  <2>6. Last.id \in Live /\ Last.id \in 1 .. next_id - 1
    BY <2>5 DEF Live, Identities, Known
  <2> QED BY <1>1, <1>2, <1>3, <1>4, <2>6
<1>5. CASE ~Resolving BY <1>1, <1>2, <1>3, <1>5
<1> QED BY <1>4, <1>5

LEMMA LinkBound ==
  ASSUME Typed, started \in 0 .. MaxLinks, NEW c \in AnyLink, WellMade(c), c.id \in 1 .. next_id - 1
  PROVE  /\ c.chain_count \in 0 .. MaxLinks => c \in Link
         /\ c.id \in 1 .. MaxLinks /\ c.kind \in Kinds /\ c.player \in Players
         /\ c.delay \in BOOLEAN /\ c.event \in 1 .. MaxLinks /\ c.causes \in 0 .. MaxLinks
         /\ c.at \in 0 .. MaxLinks /\ c.negated \in BOOLEAN
<1>1. next_id \in Nat /\ next_id >= 1 /\ next_id <= MaxLinks + 1 /\ MaxLinks \in Nat /\ started \in Nat
  BY Settled DEF Typed, DataTyped
<1>2. c.id \in 1 .. MaxLinks BY <1>1
<1>3. c.event \in 1 .. MaxLinks /\ c.causes \in 0 .. MaxLinks /\ c.at \in 0 .. started
  BY DEF WellMade, MadeIn
<1>4. c.at \in 0 .. MaxLinks BY <1>1, <1>3
<1>5. c.kind \in Kinds /\ c.player \in Players /\ c.delay \in BOOLEAN /\ c.negated \in BOOLEAN
  BY DEF AnyLink
<1>6. ASSUME c.chain_count \in 0 .. MaxLinks
      PROVE  c \in Link
  <2>1. c = [id |-> c.id, kind |-> c.kind, player |-> c.player, delay |-> c.delay,
             event |-> c.event, causes |-> c.causes, at |-> c.at, chain_count |-> c.chain_count,
             negated |-> c.negated]
    BY DEF AnyLink
  <2> QED BY <1>2, <1>3, <1>4, <1>5, <1>6, <2>1 DEF Link
<1> QED BY <1>2, <1>3, <1>4, <1>5, <1>6

CountedLink ==
  [id : 1 .. MaxLinks, kind : Kinds, player : Players, delay : BOOLEAN, event : 1 .. MaxLinks,
   causes : 0 .. MaxLinks, at : 0 .. MaxLinks, chain_count : 1 .. MaxLinks, negated : BOOLEAN]

LEMMA SeqOf ==
  ASSUME NEW S, NEW T, NEW s \in Seq(S), \A i \in DOMAIN s : s[i] \in T
  PROVE  s \in Seq(T)
<1>1. Len(s) \in Nat /\ DOMAIN s = 1 .. Len(s) /\ s = [i \in 1 .. Len(s) |-> s[i]]
  BY LenProperties
<1>2. s \in [1 .. Len(s) -> T] BY <1>1
<1> QED BY <1>1, <1>2, SeqDef

LEMMA TypesBound ==
  ASSUME Typed, Control, Identities, Spent, RealFront
  PROVE  TypeOK
<1>1. started \in 0 .. MaxLinks BY StartedBound
<1>2. RealCount BY RealCounted
<1>3. /\ next_id \in Nat /\ next_id >= 1 /\ next_id <= MaxLinks + 1 /\ MaxLinks \in Nat
  BY Settled
<1>4. UNION {new_fchain, new_fchain_s, new_ochain, new_ochain_s, new_ochain_h, quick_f_chain}
        \subseteq Link
  <2>1. ASSUME NEW c \in Lists
        PROVE  c \in Link
    <3>1. 0 \in 0 .. MaxLinks BY <1>3
    <3>2. c \in AnyLink /\ WellMade(c) /\ c.chain_count = 0 /\ c.id \in 1 .. next_id - 1
      BY WaitingLink
    <3> QED BY <1>1, <3>1, <3>2, LinkBound
  <2>2. UNION {new_fchain, new_fchain_s, new_ochain, new_ochain_s, new_ochain_h, quick_f_chain} = Lists
    BY DEF Lists, Waiting
  <2> QED BY <2>1, <2>2
<1>5. /\ DOMAIN Chosen = 1 .. Len(Chosen) /\ Len(Chosen) \in Nat
      /\ DOMAIN new_chains = 1 .. Len(new_chains) /\ Len(new_chains) \in Nat
      /\ DOMAIN current_chain = 1 .. Len(current_chain) /\ Len(current_chain) \in Nat
      /\ Len(Chosen) = Len(current_chain) + Len(new_chains)
      /\ \A i \in 1 .. Len(Chosen) :
              Chosen[i] = IF i <= Len(current_chain) THEN current_chain[i]
                          ELSE new_chains[i - Len(current_chain)]
      /\ new_chains \in Seq(AnyLink) /\ current_chain \in Seq(AnyLink) /\ Chosen \in Seq(AnyLink)
  BY ChosenTyped
<1>6. ASSUME NEW i \in 1 .. Len(Chosen)
      PROVE  Chosen[i] \in AnyLink /\ WellMade(Chosen[i]) /\ Chosen[i].id \in 1 .. next_id - 1
  <2>1. Chosen[i] \in AnyLink BY <1>5, ElementOfSeq
  <2>2. WellMade(Chosen[i]) BY <1>5 DEF Identities, Made
  <2>3. Chosen[i].id \in 1 .. next_id - 1 BY <1>5 DEF Identities, Known, Live, LinkIds
  <2> QED BY <2>1, <2>2, <2>3
<1>7. new_chains \in Seq(Link)
  <2>1. ASSUME NEW i \in 1 .. Len(new_chains)
        PROVE  new_chains[i] \in Link
    <3> DEFINE j == Len(current_chain) + i
    <3>1. j \in 1 .. Len(Chosen) /\ ~(j <= Len(current_chain)) /\ j - Len(current_chain) = i
      BY <1>5
    <3>2. Chosen[j] = new_chains[i]
      <4>1. Chosen[j] = new_chains[j - Len(current_chain)] BY <1>5, <3>1
      <4> QED BY <3>1, <4>1
    <3>3. new_chains[i].chain_count = 0 /\ 0 \in 0 .. MaxLinks
      BY <1>3, <1>5 DEF Identities, Counted
    <3> HIDE DEF j
    <3>4. /\ new_chains[i] \in AnyLink /\ WellMade(new_chains[i])
          /\ new_chains[i].id \in 1 .. next_id - 1
      BY <1>6, <3>1, <3>2
    <3> QED BY <1>1, <3>3, <3>4, LinkBound
  <2> QED BY <1>5, <2>1, SeqOf
<1>8. current_chain \in Seq(CountedLink)
  <2>1. Len(current_chain) <= MaxLinks BY ChainLength
  <2>2. ASSUME NEW i \in 1 .. Len(current_chain)
        PROVE  current_chain[i] \in CountedLink
    <3> DEFINE c == current_chain[i]
    <3>1. i \in 1 .. Len(Chosen) /\ i <= Len(current_chain) /\ i \in 1 .. MaxLinks
      BY <1>3, <1>5, <2>1
    <3>2. Chosen[i] = c BY <1>5, <3>1
    <3>3. c.chain_count \in 1 .. MaxLinks BY <1>5, <3>1 DEF Identities, Counted
    <3>4. c \in AnyLink /\ WellMade(c) /\ c.id \in 1 .. next_id - 1 BY <1>6, <3>1, <3>2
    <3> HIDE DEF c
    <3>5. /\ c.id \in 1 .. MaxLinks /\ c.kind \in Kinds /\ c.player \in Players
          /\ c.delay \in BOOLEAN /\ c.event \in 1 .. MaxLinks /\ c.causes \in 0 .. MaxLinks
          /\ c.at \in 0 .. MaxLinks /\ c.negated \in BOOLEAN
      BY <1>1, <3>4, LinkBound
    <3>6. c = [id |-> c.id, kind |-> c.kind, player |-> c.player, delay |-> c.delay,
             event |-> c.event, causes |-> c.causes, at |-> c.at, chain_count |-> c.chain_count,
             negated |-> c.negated]
      BY <3>4 DEF AnyLink
    <3>7. c \in CountedLink BY <3>3, <3>5, <3>6 DEF CountedLink
    <3> QED BY <3>7 DEF c
  <2> QED BY <1>5, <2>2, SeqOf
<1>9. real_chain_count \in 0 .. MaxLinks
  <2>1. Len(current_chain) <= MaxLinks /\ real_chain_count \in Nat
    BY ChainLength DEF Typed, DataTyped
  <2> QED BY <1>3, <1>5, <2>1 DEF RealFront
<1>10. chaining \subseteq 1 .. MaxLinks
  <2>1. chaining \subseteq 1 .. next_id - 1 BY DEF Identities, Known
  <2> QED BY <1>3, <2>1
<1> QED
  BY <1>1, <1>2, <1>4, <1>7, <1>8, <1>9, <1>10 DEF TypeOK, Typed, DataTyped, CountedLink


-----------------------------------------------------------------------------
(* The order of the links.  What holds of a sequence holds of the first
   part of it, and of one with the same kinds and players. *)
Weaker(t, s) ==
  \A i \in DOMAIN t : i \in DOMAIN s /\ t[i].kind = s[i].kind /\ t[i].player = s[i].player

LEMMA WeakerOrder ==
  ASSUME NEW t, NEW s, Weaker(t, s)
  PROVE  /\ Ordered(s) => Ordered(t)
         /\ \A p : OnlyForced(s, p) => OnlyForced(t, p)
         /\ \A p : TurnPlayerFirst(s, p) => TurnPlayerFirst(t, p)
         /\ OnlyQuick(s) => OnlyQuick(t)
<1>1. Ordered(s) => Ordered(t) BY DEF Weaker, Ordered, Trigger
<1>2. \A p : OnlyForced(s, p) => OnlyForced(t, p) BY DEF Weaker, OnlyForced, Trigger
<1>3. \A p : TurnPlayerFirst(s, p) => TurnPlayerFirst(t, p)
  BY DEF Weaker, TurnPlayerFirst
<1>4. OnlyQuick(s) => OnlyQuick(t) BY DEF Weaker, OnlyQuick
<1> QED BY <1>1, <1>2, <1>3, <1>4

LEMMA AppendOrder ==
  ASSUME NEW s \in Seq(AnyLink), NEW c \in AnyLink, NEW p \in Players
  PROVE  /\ Ordered(s) /\ ~Trigger(c) /\ (c.kind = "ignition" => OnlyQuick(s)) =>
              Ordered(Append(s, c))
         /\ Ordered(s) /\ c.kind = "forced" /\ c.player = p /\ OnlyForced(s, p) =>
              Ordered(Append(s, c))
         /\ Ordered(s) /\ c.kind \in {"optional", "hidden"} /\ c.player = p /\ TurnPlayerFirst(s, p) =>
              Ordered(Append(s, c))
         /\ OnlyForced(s, p) /\ (Trigger(c) => c.kind = "forced" /\ c.player = p) =>
              OnlyForced(Append(s, c), p)
         /\ TurnPlayerFirst(s, p) /\ (Trigger(c) => c.player = p) =>
              TurnPlayerFirst(Append(s, c), p)
         /\ OnlyQuick(s) /\ c.kind = "quick" => OnlyQuick(Append(s, c))
<1> DEFINE t == Append(s, c)
           n == Len(s)
<1>1. /\ n \in Nat /\ DOMAIN s = 1 .. n /\ DOMAIN t = 1 .. n + 1 /\ t[n + 1] = c
      /\ \A i \in 1 .. n : t[i] = s[i]
  <2>1. t \in Seq(AnyLink) /\ Len(t) = n + 1 BY AppendProperties
  <2> QED BY <2>1, AppendProperties, LenProperties
<1>2. /\ \A i \in 1 .. n + 1 : i \in 1 .. n \/ i = n + 1
      /\ \A i, j \in 1 .. n + 1 : i < j => i \in 1 .. n
  BY <1>1
<1> HIDE DEF t, n
<1>3. ASSUME Ordered(s),
             \A i \in 1 .. n :
               /\ Trigger(s[i]) /\ Trigger(c) =>
                    /\ c.kind = "forced" => s[i].kind = "forced"
                    /\ \/ (s[i].kind = "forced") # (c.kind = "forced")
                       \/ c.player # turn_player \/ s[i].player = turn_player
               /\ c.kind = "ignition" => s[i].kind = "quick"
      PROVE  Ordered(t)
  <2>1. ASSUME NEW i \in 1 .. n + 1, NEW j \in 1 .. n + 1, i < j
        PROVE  /\ Trigger(t[i]) /\ Trigger(t[j]) =>
                    /\ t[j].kind = "forced" => t[i].kind = "forced"
                    /\ \/ (t[i].kind = "forced") # (t[j].kind = "forced")
                       \/ t[j].player # turn_player \/ t[i].player = turn_player
               /\ t[j].kind = "ignition" => t[i].kind = "quick"
    <3>1. i \in 1 .. n /\ t[i] = s[i] BY <1>1, <1>2, <2>1
    <3>2. CASE j = n + 1 BY <1>1, <1>3, <3>1, <3>2
    <3>3. CASE j \in 1 .. n BY <1>1, <1>3, <2>1, <3>1, <3>3 DEF Ordered
    <3> QED BY <1>2, <3>2, <3>3
  <2> QED BY <1>1, <2>1 DEF Ordered
<1>4. Ordered(s) /\ ~Trigger(c) /\ (c.kind = "ignition" => OnlyQuick(s)) => Ordered(t)
  BY <1>1, <1>3 DEF OnlyQuick
<1>5. Ordered(s) /\ c.kind = "forced" /\ c.player = p /\ OnlyForced(s, p) => Ordered(t)
  BY <1>1, <1>3 DEF OnlyForced
<1>6. Ordered(s) /\ c.kind \in {"optional", "hidden"} /\ c.player = p /\ TurnPlayerFirst(s, p) => Ordered(t)
  BY <1>1, <1>3 DEF TurnPlayerFirst, Trigger
<1>7. OnlyForced(s, p) /\ (Trigger(c) => c.kind = "forced" /\ c.player = p) => OnlyForced(t, p)
  BY <1>1, <1>2 DEF OnlyForced
<1>8. TurnPlayerFirst(s, p) /\ (Trigger(c) => c.player = p) => TurnPlayerFirst(t, p)
  BY <1>1, <1>2 DEF TurnPlayerFirst, Trigger
<1>9. OnlyQuick(s) /\ c.kind = "quick" => OnlyQuick(t) BY <1>1, <1>2 DEF OnlyQuick
<1> QED BY <1>4, <1>5, <1>6, <1>7, <1>8, <1>9 DEF t

LEMMA SimilarWeaker ==
  ASSUME NEW s \in Seq(AnyLink), NEW t \in Seq(AnyLink), Similar(t, s)
  PROVE  Weaker(t, s)
<1>1. DOMAIN s = 1 .. Len(s) /\ DOMAIN t = 1 .. Len(t) BY LenProperties
<1> QED BY <1>1 DEF Similar, Weaker

(* The actions that choose nothing. *)
LEMMA ChosenWeaker ==
  ASSUME Typed, Typed', Control, Identities, Next,
         ~(PointEventForced \/ PointEventOptional \/ QuickForcedChosen \/ QuickEffectChosen
             \/ Activate \/ IdleActivate)
  PROVE  Weaker(Chosen', Chosen)
<1>1. Chosen \in Seq(AnyLink) /\ Chosen' \in Seq(AnyLink)
  <2>1. Chosen' \in Seq(AnyLink) BY ConcatProperties DEF Typed, DataTyped, Chosen
  <2> QED BY <2>1, ChosenTyped
<1>2. Counted BY DEF Identities
<1>3. CASE SolvePop
  <2>1. /\ Chosen = current_chain /\ Chosen' = current_chain'
        /\ Len(current_chain) \in Nat \ {0}
        /\ \A i \in 1 .. Len(current_chain) - 1 : current_chain'[i] = current_chain[i]
        /\ DOMAIN current_chain = 1 .. Len(current_chain)
        /\ DOMAIN current_chain' = 1 .. Len(current_chain) - 1
    BY <1>3, SolvePopChosen
  <2>2. \A i \in 1 .. Len(current_chain) - 1 : i \in 1 .. Len(current_chain) BY <2>1
  <2> QED BY <2>1, <2>2 DEF Weaker
<1>4. CASE AddChainLink
  <2>1. Similar(Chosen', Chosen) BY <1>2, <1>4, NotEmpty, ChosenLinked DEF AddChainLink
  <2> QED BY <1>1, <2>1, SimilarWeaker
<1>5. CASE SolveActivating \/ SolveOperation
  <2>1. UNCHANGED new_chains /\ Negate BY <1>5 DEF SolveActivating, SolveOperation
  <2>2. Similar(Chosen', Chosen) BY <1>2, <2>1, ChosenNegated
  <2> QED BY <1>1, <2>2, SimilarWeaker
<1>6. CASE UNCHANGED <<new_chains, current_chain>>
  <2>1. Similar(Chosen', Chosen) BY <1>2, <1>6, ChosenSame
  <2> QED BY <1>1, <2>1, SimilarWeaker
<1>7. CASE PointEventStart \/ PointEventNextPlayer \/ PointEventQuick \/ PointEventEnd
             \/ QuickForced \/ QuickEffectPass
  BY <1>6, <1>7 DEF PointEventStart, PointEventNextPlayer, PointEventQuick, PointEventEnd,
     QuickForced, QuickEffectPass, links
<1>8. CASE AddChainStart \/ AddChainAbandon \/ AddChainEnd \/ AdjustAll \/ ActivateSolve
  BY <1>6, <1>8 DEF AddChainStart, AddChainAbandon, AddChainEnd, AdjustAll, ActivateSolve, links
<1>9. CASE SolveNegated \/ SolveStart \/ SolveEnd \/ SolveLast
             \/ IdleSolve \/ IdleEvent \/ IdleAnnounce \/ IdleEnd \/ Ended
  BY <1>6, <1>9 DEF SolveNegated, SolveStart, SolveEnd, SolveLast, IdleSolve, IdleEvent,
     IdleAnnounce, IdleEnd, Ended, links, vars
<1> QED BY <1>3, <1>4, <1>5, <1>7, <1>8, <1>9 DEF Next

LEMMA PlayerSame ==
  ASSUME \/ QuickForcedChosen \/ QuickForced \/ QuickEffectChosen \/ QuickEffectPass
         \/ AddChainStart \/ AddChainAbandon \/ AddChainLink \/ AddChainEnd \/ AdjustAll
         \/ Activate \/ ActivateSolve \/ SolveActivating \/ SolveNegated \/ SolveStart
         \/ SolveOperation \/ SolveEnd \/ SolvePop \/ SolveLast
         \/ IdleActivate \/ IdleSolve \/ IdleEvent \/ IdleAnnounce \/ IdleEnd
  PROVE  /\ current_player' = current_player
         /\ ignition_priority_chains' = TRUE => ignition_priority_chains = TRUE
<1> USE DEF pending, offers, ControlMoves
<1>1. CASE QuickForcedChosen \/ QuickForced \/ QuickEffectChosen \/ QuickEffectPass
  BY <1>1 DEF QuickForcedChosen, QuickForced, QuickEffectChosen, QuickEffectPass
<1>2. CASE AddChainStart \/ AddChainAbandon \/ AddChainLink \/ AddChainEnd \/ AdjustAll
             \/ Activate \/ ActivateSolve
  BY <1>2 DEF AddChainStart, AddChainAbandon, AddChainLink, AddChainEnd, AdjustAll, Activate,
     ActivateSolve
<1>3. CASE SolveActivating \/ SolveNegated \/ SolveStart \/ SolveOperation \/ SolveEnd \/ SolvePop
             \/ SolveLast
  BY <1>3 DEF SolveActivating, SolveNegated, SolveStart, SolveOperation, SolveEnd, SolvePop, SolveLast
<1>4. CASE IdleActivate \/ IdleSolve \/ IdleEvent \/ IdleAnnounce \/ IdleEnd
  BY <1>4 DEF IdleActivate, IdleSolve, IdleEvent, IdleAnnounce, IdleEnd
<1> QED BY <1>1, <1>2, <1>3, <1>4

LEMMA HasFront ==
  ASSUME Typed, units # <<>>, NEW k
  PROVE  Has(units, "PointEvent", k) <=> IsAt(Front, "PointEvent", k) \/ Has(Tail(units), "PointEvent", k)
<1> DEFINE t == Tail(units)
           u == Front
<1>1. t \in Seq(UnitType) /\ u \in UnitType /\ units = Push(u, t) BY FrontType DEF Typed
<1> HIDE DEF t, u
<1>2. Has(Push(u, t), "PointEvent", k) <=> IsAt(u, "PointEvent", k) \/ Has(t, "PointEvent", k)
  BY <1>1, HasPush
<1> QED BY <1>1, <1>2, Zenon DEF t, u

(* The PointEvent that waits for the other units still does. *)
LEMMA HasSame ==
  ASSUME Typed, units # <<>>, Front.kind # "PointEvent", NEW s \in {0, 8}, NewStack(s)
  PROVE  \A k \in {2, 3, 4, 6} : Has(units', "PointEvent", k) <=> Has(units, "PointEvent", k)
<1>1. \A k : Has(units, "PointEvent", k) <=> Has(Tail(units), "PointEvent", k)
  BY HasFront DEF IsAt
<1> QED BY <1>1 DEF NewStack


LEMMA WaitingOrder ==
  ASSUME Typed, Typed', Control, Identities, Ordered(Chosen), Asked,
         units # <<>>, Front.kind # "PointEvent", NEW s \in {0, 8}, NewStack(s),
         current_player' = current_player,
         ignition_priority_chains' = TRUE => ignition_priority_chains = TRUE,
         \/ Weaker(Chosen', Chosen)
         \/ \E c \in AnyLink :
              /\ Chosen' = Append(Chosen, c) /\ ~Trigger(c)
              /\ c.kind = "ignition" => ignition_priority_chains = TRUE
              /\ c.kind # "quick" => ignition_priority_chains' = FALSE
  PROVE  Ordered(Chosen') /\ Asked'
<1>1. \A k \in {2, 3, 4, 6} : Has(units', "PointEvent", k) <=> Has(units, "PointEvent", k)
  BY HasSame
<1>2. /\ ignition_priority_chains \in BOOLEAN /\ ignition_priority_chains' \in BOOLEAN
      /\ current_player \in Players
  BY DEF Typed, DataTyped
<1>3. /\ Has(units, "PointEvent", 2) \/ Has(units, "PointEvent", 3) => OnlyForced(Chosen, current_player)
      /\ Has(units, "PointEvent", 4) \/ Has(units, "PointEvent", 6) => TurnPlayerFirst(Chosen, current_player)
      /\ ignition_priority_chains = TRUE => OnlyQuick(Chosen)
  BY DEF Asked
<1>4. ASSUME Ordered(Chosen'),
             OnlyForced(Chosen, current_player) => OnlyForced(Chosen', current_player),
             TurnPlayerFirst(Chosen, current_player) => TurnPlayerFirst(Chosen', current_player),
             ignition_priority_chains' = TRUE => OnlyQuick(Chosen')
      PROVE  Ordered(Chosen') /\ Asked'
  <2>1. /\ Has(units', "PointEvent", 2) \/ Has(units', "PointEvent", 3) =>
             OnlyForced(Chosen', current_player')
        /\ Has(units', "PointEvent", 4) \/ Has(units', "PointEvent", 6) =>
             TurnPlayerFirst(Chosen', current_player')
    BY <1>1, <1>3, <1>4
  <2> QED BY <1>2, <1>4, <2>1 DEF Asked, Has, OnlyForced, TurnPlayerFirst, OnlyQuick
<1>5. CASE Weaker(Chosen', Chosen) BY <1>3, <1>4, <1>5, WeakerOrder
<1>6. CASE \E c \in AnyLink :
              /\ Chosen' = Append(Chosen, c) /\ ~Trigger(c)
              /\ c.kind = "ignition" => ignition_priority_chains = TRUE
              /\ c.kind # "quick" => ignition_priority_chains' = FALSE
  <2>1. PICK c \in AnyLink :
              /\ Chosen' = Append(Chosen, c) /\ ~Trigger(c)
              /\ c.kind = "ignition" => ignition_priority_chains = TRUE
              /\ c.kind # "quick" => ignition_priority_chains' = FALSE
    BY <1>6
  <2>2. Chosen \in Seq(AnyLink) BY ChosenTyped
  <2>3. /\ Ordered(Append(Chosen, c))
        /\ OnlyForced(Chosen, current_player) => OnlyForced(Append(Chosen, c), current_player)
        /\ TurnPlayerFirst(Chosen, current_player) => TurnPlayerFirst(Append(Chosen, c), current_player)
        /\ OnlyQuick(Chosen) /\ c.kind = "quick" => OnlyQuick(Append(Chosen, c))
    BY <1>2, <1>3, <2>1, <2>2, AppendOrder
  <2> QED BY <1>3, <1>4, <2>1, <2>3
<1> QED BY <1>5, <1>6

(* The steps of PointEvent itself: nothing else goes through triggers. *)
LEMMA AskingOrder ==
  ASSUME Typed, Typed', Control, units # <<>>, Front.kind = "PointEvent", NEW s \in 0 .. 11, NewStack(s),
         Ordered(Chosen'),
         s \in {2, 3} => OnlyForced(Chosen', current_player'),
         s \in {4, 6} => TurnPlayerFirst(Chosen', current_player'),
         ignition_priority_chains' = TRUE => OnlyQuick(Chosen')
  PROVE  Ordered(Chosen') /\ Asked'
<1>1. Tail(units) \in Seq(UnitType) /\ Rest(Tail(units))
  BY FrontType, FloorFacts DEF Typed
<1>2. \A k \in {2, 3, 4, 6} : Has(units', "PointEvent", k) <=> s = k
  BY <1>1, RestHas DEF NewStack
<1>3. ignition_priority_chains' \in BOOLEAN BY DEF Typed, DataTyped
<1>4. /\ Has(units', "PointEvent", 2) \/ Has(units', "PointEvent", 3) => OnlyForced(Chosen', current_player')
      /\ Has(units', "PointEvent", 4) \/ Has(units', "PointEvent", 6) => TurnPlayerFirst(Chosen', current_player')
  BY <1>2
<1> QED BY <1>3, <1>4 DEF Asked, Has, OnlyForced, TurnPlayerFirst, OnlyQuick

LEMMA AskingForced ==
  ASSUME Typed, Typed', Control, units # <<>>, Front.kind = "PointEvent",
         NewStack(2) \/ NewStack(3),
         Ordered(Chosen'), OnlyForced(Chosen', current_player'),
         ignition_priority_chains' = TRUE => OnlyQuick(Chosen')
  PROVE  Ordered(Chosen') /\ Asked'
<1>1. PICK s \in {2, 3} : NewStack(s) OBVIOUS
<1>2. s \in 0 .. 11 /\ s \notin {4, 6} BY <1>1
<1> QED BY <1>1, <1>2, AskingOrder

LEMMA AskingOptional ==
  ASSUME Typed, Typed', Control, units # <<>>, Front.kind = "PointEvent",
         NewStack(4) \/ NewStack(6),
         Ordered(Chosen'), TurnPlayerFirst(Chosen', current_player'),
         ignition_priority_chains' = TRUE => OnlyQuick(Chosen')
  PROVE  Ordered(Chosen') /\ Asked'
<1>1. PICK s \in {4, 6} : NewStack(s) OBVIOUS
<1>2. s \in 0 .. 11 /\ s \notin {2, 3} BY <1>1
<1> QED BY <1>1, <1>2, AskingOrder

LEMMA AskingDone ==
  ASSUME Typed, Typed', Control, units # <<>>, Front.kind = "PointEvent",
         NewStack(0) \/ NewStack(9) \/ NewStack(10),
         Ordered(Chosen'), ignition_priority_chains' = TRUE => OnlyQuick(Chosen')
  PROVE  Ordered(Chosen') /\ Asked'
<1>1. PICK s \in {0, 9, 10} : NewStack(s) OBVIOUS
<1>2. s \in 0 .. 11 /\ s \notin {2, 3, 4, 6} BY <1>1
<1> QED BY <1>1, <1>2, AskingOrder

LEMMA PointEventOrder ==
  ASSUME Typed, Typed', Control, Identities, Ordered(Chosen), Asked,
         PointEventStart \/ PointEventForced \/ PointEventOptional \/ PointEventNextPlayer
           \/ PointEventQuick \/ PointEventEnd
  PROVE  Ordered(Chosen') /\ Asked'
<1>1. units # <<>> /\ Front.kind = "PointEvent"
  BY DEF PointEventStart, PointEventForced, PointEventOptional, PointEventNextPlayer,
     PointEventQuick, PointEventEnd, At
<1>2. Facts(Front) /\ ~ignition_priority_chains /\ new_chains = <<>>
  BY <1>1, FloorFacts DEF Facts, IgnitionOpen, NewChains
<1>3. /\ IsAt(Front, "PointEvent", 2) \/ IsAt(Front, "PointEvent", 3) => OnlyForced(Chosen, current_player)
      /\ IsAt(Front, "PointEvent", 4) \/ IsAt(Front, "PointEvent", 6) => TurnPlayerFirst(Chosen, current_player)
  BY <1>1, HasFront DEF Asked
<1>4. Chosen \in Seq(AnyLink) /\ current_player \in Players
  BY ChosenTyped DEF Typed, DataTyped
<1>5. turn_player \in Players /\ Opponent(turn_player) # turn_player
  BY Others DEF Opponent, Players
<1>6. CASE PointEventStart
  <2>1. Chosen' = Chosen /\ ignition_priority_chains' = ignition_priority_chains
    BY <1>6, PointEventStartIdentities DEF PointEventStart, offers
  <2>2. Chosen = <<>>
    BY <1>2, <1>6 DEF Facts, ChainEmpty, Resting, IsAt, PointEventStart, At
  <2>3. \A p : OnlyForced(Chosen', p) BY <2>1, <2>2 DEF OnlyForced
  <2>4. GoOn(9, <<>>) \/ GoOn(2, <<>>) BY <1>6 DEF PointEventStart
  <2>5. NewStack(9) \/ NewStack(2) BY <1>1, <1>5, <2>4, PointEventStacks
  <2>6. Ordered(Chosen') BY <2>1
  <2>7. ignition_priority_chains' = FALSE BY <1>2, <2>1 DEF Typed, DataTyped
  <2>8. CASE NewStack(9) BY <1>1, <2>6, <2>7, <2>8, AskingDone
  <2>9. CASE NewStack(2) BY <1>1, <2>3, <2>6, <2>7, <2>9, AskingForced
  <2> QED BY <2>5, <2>8, <2>9
<1>7. CASE PointEventForced
  <2>1. /\ current_player' = current_player /\ ignition_priority_chains' = ignition_priority_chains
        /\ OnlyForced(Chosen, current_player)
    BY <1>3, <1>7 DEF PointEventForced, offers, At, IsAt
  <2>2. ignition_priority_chains' = FALSE BY <1>2, <2>1 DEF Typed, DataTyped
  <2>3. CASE Chosen' = Chosen /\ GoOn(3, <<>>)
    <3>1. NewStack(3) BY <1>1, <1>5, <2>3, PointEventStacks
    <3>2. Ordered(Chosen') /\ OnlyForced(Chosen', current_player') BY <2>1, <2>3
    <3> QED BY <1>1, <2>2, <3>1, <3>2, AskingForced
  <2>4. CASE /\ GoOn(2, <<AddChain>>)
             /\ \E c \in AnyLink : Chosen' = Append(Chosen, c) /\ c.kind = "forced"
                                     /\ c.player = current_player
    <3>1. NewStack(2) BY <1>1, <1>5, <2>4, PointEventStacks
    <3>2. PICK c \in AnyLink : Chosen' = Append(Chosen, c) /\ c.kind = "forced"
                                     /\ c.player = current_player
      BY <2>4
    <3>3. /\ Ordered(Append(Chosen, c)) /\ OnlyForced(Append(Chosen, c), current_player)
      BY <1>4, <1>5, <2>1, <3>2, AppendOrder
    <3>4. Ordered(Chosen') /\ OnlyForced(Chosen', current_player') BY <2>1, <3>2, <3>3
    <3> QED BY <1>1, <2>2, <3>1, <3>4, AskingForced
  <2> QED BY <1>7, <2>3, <2>4, PointEventForcedIdentities
<1>8. CASE PointEventOptional
  <2>1. /\ current_player' = current_player /\ ignition_priority_chains' = ignition_priority_chains
        /\ TurnPlayerFirst(Chosen, current_player)
    BY <1>3, <1>8 DEF PointEventOptional, At, IsAt
  <2>2. ignition_priority_chains' = FALSE BY <1>2, <2>1 DEF Typed, DataTyped
  <2>3. CASE Chosen' = Chosen /\ (GoOn(4, <<>>) \/ GoOn(6, <<>>))
    <3>1. NewStack(4) \/ NewStack(6) BY <1>1, <1>5, <2>3, PointEventStacks
    <3>2. Ordered(Chosen') /\ TurnPlayerFirst(Chosen', current_player') BY <2>1, <2>3
    <3>3. CASE NewStack(4) BY <1>1, <2>2, <3>2, <3>3, AskingOptional
    <3>4. CASE NewStack(6) BY <1>1, <2>2, <3>2, <3>4, AskingOptional
    <3> QED BY <3>1, <3>3, <3>4
  <2>4. CASE /\ GoOn(4, <<AddChain>>)
             /\ \E c \in AnyLink : Chosen' = Append(Chosen, c) /\ c.kind \in {"optional", "hidden"}
                                     /\ c.player = current_player
    <3>1. NewStack(4) BY <1>1, <1>5, <2>4, PointEventStacks
    <3>2. PICK c \in AnyLink : Chosen' = Append(Chosen, c) /\ c.kind \in {"optional", "hidden"}
                                     /\ c.player = current_player
      BY <2>4
    <3>3. /\ Ordered(Append(Chosen, c)) /\ TurnPlayerFirst(Append(Chosen, c), current_player)
      BY <1>4, <1>5, <2>1, <3>2, AppendOrder
    <3>4. Ordered(Chosen') /\ TurnPlayerFirst(Chosen', current_player')
      BY <2>1, <3>2, <3>3
    <3> QED BY <1>1, <2>2, <3>1, <3>4, AskingOptional
  <2> QED BY <1>8, <2>3, <2>4, PointEventOptionalIdentities
<1>9. CASE PointEventNextPlayer
  <2>1. Chosen' = Chosen /\ ignition_priority_chains' = ignition_priority_chains
    BY <1>9 DEF PointEventNextPlayer, links, offers, Chosen
  <2>2. ignition_priority_chains' = FALSE /\ Ordered(Chosen')
    BY <1>2, <2>1 DEF Typed, DataTyped
  <2>3. CASE At("PointEvent", 3)
    <3>1. OnlyForced(Chosen, current_player) BY <1>3, <2>3 DEF At, IsAt
    <3>2. /\ OnlyForced(Chosen', Opponent(turn_player)) /\ TurnPlayerFirst(Chosen', turn_player)
      BY <1>4, <1>5, <2>1, <3>1 DEF OnlyForced, TurnPlayerFirst, Trigger
    <3>3. \/ current_player' = Opponent(turn_player) /\ GoOn(2, <<>>)
          \/ current_player' = turn_player /\ GoOn(4, <<>>)
      BY <1>9, <2>3 DEF PointEventNextPlayer, NextPlayer, FirstPlayer, At
    <3>4. CASE current_player' = Opponent(turn_player) /\ GoOn(2, <<>>)
      <4>1. NewStack(2) BY <1>1, <1>5, <3>4, PointEventStacks
      <4> QED BY <1>1, <2>2, <3>2, <3>4, <4>1, AskingForced
    <3>5. CASE current_player' = turn_player /\ GoOn(4, <<>>)
      <4>1. NewStack(4) BY <1>1, <1>5, <3>5, PointEventStacks
      <4> QED BY <1>1, <2>2, <3>2, <3>5, <4>1, AskingOptional
    <3> QED BY <3>3, <3>4, <3>5
  <2>4. CASE At("PointEvent", 6)
    <3>1. TurnPlayerFirst(Chosen', Opponent(turn_player))
      BY <1>4, <1>5 DEF TurnPlayerFirst
    <3>2. \/ current_player' = Opponent(turn_player) /\ GoOn(4, <<>>)
          \/ GoOn(9, <<>>)
      BY <1>9, <2>4 DEF PointEventNextPlayer, NextPlayer, FirstPlayer, At
    <3>3. CASE current_player' = Opponent(turn_player) /\ GoOn(4, <<>>)
      <4>1. NewStack(4) BY <1>1, <1>5, <3>3, PointEventStacks
      <4> QED BY <1>1, <2>2, <3>1, <3>3, <4>1, AskingOptional
    <3>4. CASE GoOn(9, <<>>)
      <4>1. NewStack(9) BY <1>1, <1>5, <3>4, PointEventStacks
      <4> QED BY <1>1, <2>2, <4>1, AskingDone
    <3> QED BY <3>2, <3>3, <3>4
  <2> QED BY <1>9, <2>3, <2>4 DEF PointEventNextPlayer
<1>10. CASE PointEventQuick
  <2>1. Chosen' = Chosen BY <1>10 DEF PointEventQuick, links, Chosen
  <2>2. ignition_priority_chains' = TRUE => current_chain = <<>>
    BY <1>2, <1>10 DEF PointEventQuick, IgnitionPriority, Typed, DataTyped
  <2>3. ignition_priority_chains' = TRUE => OnlyQuick(Chosen')
    <3>1. current_chain = <<>> => Chosen = <<>> BY <1>2, ChosenEmpty
    <3> QED BY <2>1, <2>2, <3>1 DEF OnlyQuick
  <2>4. NewStack(10) BY <1>10, PointEventQuickStack
  <2>5. Ordered(Chosen') BY <2>1
  <2> QED BY <1>1, <2>3, <2>4, <2>5, AskingDone
<1>11. CASE PointEventEnd
  <2>1. Chosen' = Chosen /\ ignition_priority_chains' = ignition_priority_chains
    BY <1>11 DEF PointEventEnd, Chosen
  <2>2. ignition_priority_chains' = FALSE /\ Ordered(Chosen')
    BY <1>2, <2>1 DEF Typed, DataTyped
  <2>3. Finish(<<>>) \/ Finish(<<SolveChain(Front.skips)>>)
    <3>1. CASE current_chain = <<>> BY <1>11, <3>1 DEF PointEventEnd
    <3>2. CASE current_chain # <<>> BY <1>11, <3>2 DEF PointEventEnd
    <3> QED BY <3>1, <3>2
  <2>4. NewStack(0) BY <1>1, <2>3, PointEventStacks
  <2> QED BY <1>1, <2>2, <2>4, AskingDone
<1> QED BY <1>6, <1>7, <1>8, <1>9, <1>10, <1>11

(* An effect that is activated outside PointEvent is no trigger, and an
   ignition effect takes its chance only once. *)
Activated ==
  \E c \in AnyLink :
    /\ Chosen' = Append(Chosen, c) /\ ~Trigger(c)
    /\ c.kind = "ignition" => ignition_priority_chains = TRUE
    /\ c.kind # "quick" => ignition_priority_chains' = FALSE

LEMMA QuickForcedChosenOrder ==
  ASSUME Typed, Typed', Control, Identities, QuickForcedChosen
  PROVE  Activated
<1>1. PICK c \in AnyLink : Chosen' = Append(Chosen, c) /\ c.kind = "quick"
  BY QuickForcedChosenIdentities
<1>2. ~Trigger(c) BY <1>1 DEF Trigger
<1> QED BY <1>1, <1>2 DEF Activated

LEMMA QuickEffectChosenOrder ==
  ASSUME Typed, Typed', Control, Identities, QuickEffectChosen
  PROVE  Activated
<1>1. PICK c \in AnyLink :
        /\ Chosen' = Append(Chosen, c)
        /\ \/ c.kind = "activated"
           \/ c.kind = "ignition" /\ ignition_priority_chains
  BY QuickEffectChosenIdentities
<1>2. ~Trigger(c) BY <1>1 DEF Trigger
<1>3. ignition_priority_chains' = FALSE BY DEF QuickEffectChosen
<1>4. ignition_priority_chains \in BOOLEAN BY DEF Typed, DataTyped
<1>5. c.kind = "ignition" => ignition_priority_chains = TRUE BY <1>1, <1>4
<1> QED BY <1>1, <1>2, <1>3, <1>5 DEF Activated

LEMMA ActivateOrder ==
  ASSUME Typed, Typed', Control, Identities, Activate \/ IdleActivate
  PROVE  Chosen' = Chosen \/ Activated
<1>1. ignition_priority_chains' = FALSE
  <2>1. /\ units # <<>> /\ Front.kind \notin {"AddChain", "Adjust", "QuickEffect", "PointEvent"}
        /\ ignition_priority_chains' = ignition_priority_chains
    BY DEF Activate, IdleActivate, At, offers
  <2>2. ~ignition_priority_chains BY <2>1, FloorFacts DEF Facts, IgnitionOpen, IsAt
  <2> QED BY <2>1, <2>2 DEF Typed, DataTyped
<1>2. CASE Chosen' = Chosen BY <1>2
<1>3. CASE \E c \in AnyLink : Chosen' = Append(Chosen, c) /\ c.kind = "activated"
  <2>1. PICK c \in AnyLink : Chosen' = Append(Chosen, c) /\ c.kind = "activated" BY <1>3
  <2>2. ~Trigger(c) /\ c.kind # "ignition" BY <2>1 DEF Trigger
  <2> QED BY <1>1, <2>1, <2>2 DEF Activated
<1> QED BY <1>2, <1>3, ActivateIdentities

LEMMA OtherChosen ==
  ASSUME Typed, Typed', Control, Identities,
         QuickForcedChosen \/ QuickForced \/ QuickEffectChosen \/ QuickEffectPass
           \/ AddChainStart \/ AddChainAbandon \/ AddChainEnd \/ AdjustAll
           \/ Activate \/ ActivateSolve \/ SolveActivating \/ SolveNegated \/ SolveStart
           \/ SolveOperation \/ SolveEnd \/ SolvePop \/ SolveLast
           \/ IdleActivate \/ IdleSolve \/ IdleEvent \/ IdleAnnounce \/ IdleEnd
           \/ AddChainLink
  PROVE  Weaker(Chosen', Chosen) \/ Activated
<1>1. CASE QuickForcedChosen BY <1>1, QuickForcedChosenOrder
<1>2. CASE QuickEffectChosen BY <1>2, QuickEffectChosenOrder
<1>3. CASE Activate \/ IdleActivate
  <2>1. Chosen' = Chosen => Weaker(Chosen', Chosen) BY DEF Weaker
  <2> QED BY <1>3, <2>1, ActivateOrder
<1>4. CASE ~(QuickForcedChosen \/ QuickEffectChosen \/ Activate \/ IdleActivate)
  <2>1. ~PointEventForced /\ ~PointEventOptional
    <3>1. units # <<>> /\ Front.kind # "PointEvent" BY OtherStacks DEF AddChainLink, At
    <3> QED BY <3>1 DEF PointEventForced, PointEventOptional, At
  <2>2. Next BY DEF Next
  <2> QED BY <1>4, <2>1, <2>2, ChosenWeaker
<1> QED BY <1>1, <1>2, <1>3, <1>4

LEMMA OtherOrder ==
  ASSUME Typed, Typed', Control, Identities, Ordered(Chosen), Asked,
         QuickForcedChosen \/ QuickForced \/ QuickEffectChosen \/ QuickEffectPass
           \/ AddChainStart \/ AddChainAbandon \/ AddChainEnd \/ AdjustAll
           \/ Activate \/ ActivateSolve \/ SolveActivating \/ SolveNegated \/ SolveStart
           \/ SolveOperation \/ SolveEnd \/ SolvePop \/ SolveLast
           \/ IdleActivate \/ IdleSolve \/ IdleEvent \/ IdleAnnounce \/ IdleEnd
           \/ AddChainLink
  PROVE  Ordered(Chosen') /\ Asked'
<1>1. /\ current_player' = current_player
      /\ ignition_priority_chains' = TRUE => ignition_priority_chains = TRUE
  BY PlayerSame
<1>2. Weaker(Chosen', Chosen) \/ Activated BY OtherChosen
<1>3. units # <<>> /\ Front.kind # "PointEvent" /\ \E s \in {0, 8} : NewStack(s)
  <2>1. CASE AddChainLink
    <3>1. units # <<>> /\ Front.kind = "AddChain" /\ GoOn(8, <<>>)
      BY <2>1 DEF AddChainLink, At
    <3>2. Adjust \in UnitType /\ Early(Adjust) BY UnitTypes DEF Early, Adjust, Unit
    <3>3. PICK s \in {8} : s \in 0 .. 11 /\ GoOn(s, <<>>) BY <3>1
    <3>4. NewStack(s) BY <3>1, <3>2, <3>3, GoOnStack
    <3> QED BY <3>1, <3>3, <3>4
  <2>2. CASE ~AddChainLink BY <2>2, OtherStacks
  <2> QED BY <2>1, <2>2
<1>4. PICK s \in {0, 8} : NewStack(s) BY <1>3
<1> QED BY <1>1, <1>2, <1>3, <1>4, WaitingOrder DEF Activated

LEMMA NextOrder ==
  ASSUME Typed, Typed', Control, Identities, Ordered(Chosen), Asked, [Next]_vars
  PROVE  Ordered(Chosen') /\ Asked'
<1>1. CASE PointEventStart \/ PointEventForced \/ PointEventOptional \/ PointEventNextPlayer
             \/ PointEventQuick \/ PointEventEnd
  BY <1>1, PointEventOrder, Zenon
<1>2. CASE QuickForcedChosen \/ QuickForced \/ QuickEffectChosen \/ QuickEffectPass
           \/ AddChainStart \/ AddChainAbandon \/ AddChainEnd \/ AdjustAll
           \/ Activate \/ ActivateSolve \/ SolveActivating \/ SolveNegated \/ SolveStart
           \/ SolveOperation \/ SolveEnd \/ SolvePop \/ SolveLast
           \/ IdleActivate \/ IdleSolve \/ IdleEvent \/ IdleAnnounce \/ IdleEnd
           \/ AddChainLink
  BY <1>2, OtherOrder, Zenon
<1>3. CASE UNCHANGED vars
  <2>1. /\ Chosen' = Chosen /\ units' = units /\ current_player' = current_player
        /\ ignition_priority_chains' = ignition_priority_chains
    BY <1>3 DEF vars, links, offers, pending, Chosen
  <2> QED BY <2>1 DEF Asked, OnlyForced, TurnPlayerFirst, OnlyQuick, Has
<1> QED BY <1>1, <1>2, <1>3 DEF Next, Ended

(* No link has begun to resolve, and nothing has been chosen. *)
LEMMA InitOrder ==
  ASSUME Init
  PROVE  Spent /\ RealFront /\ Ordered(Chosen) /\ Asked
<1>1. /\ current_chain = <<>> /\ new_chains = <<>> /\ started = 0 /\ real_chain_count = 0
      /\ units = <<Idle>> /\ ignition_priority_chains = FALSE
  BY DEF Init
<1>2. Chosen = <<>> BY <1>1, ConcatEmptySeq DEF Chosen
<1>3. Idle.kind = "Idle" BY DEF Idle, Unit
<1>4. Spent
  <2>1. {} \in SUBSET (1 .. next_id - 1) /\ {} \cap Live = {} OBVIOUS
  <2>2. Cardinality({}) = 0 BY FS_EmptySet
  <2>3. 0 <= 0 + (IF Resolving THEN 1 ELSE 0) OBVIOUS
  <2> QED BY <1>1, <2>1, <2>2, <2>3 DEF Spent
<1>5. RealFront BY <1>1, <1>3 DEF RealFront, At, Front
<1>6. Ordered(Chosen) BY <1>2 DEF Ordered
<1>7. Asked
  <2>1. \A k : ~Has(units, "PointEvent", k) BY <1>1, <1>3 DEF Has, IsAt
  <2> QED BY <1>1, <2>1 DEF Asked
<1> QED BY <1>4, <1>5, <1>6, <1>7

-----------------------------------------------------------------------------
(* The order on the chain is the order in which links were chosen. *)
LEMMA ChainOrder ==
  ASSUME Typed, Control, Identities, Ordered(Chosen)
  PROVE  TriggerOrder
<1>1. current_chain \in Seq(AnyLink) /\ new_chains \in Seq(AnyLink)
  BY ChosenTyped DEF Typed, DataTyped
<1>2. \A i \in DOMAIN current_chain : i \in DOMAIN Chosen /\ Chosen[i] = current_chain[i]
  <2>1. /\ Len(Chosen) = Len(current_chain) + Len(new_chains)
        /\ \A i \in 1 .. Len(current_chain) : Chosen[i] = current_chain[i]
    BY <1>1, ConcatProperties DEF Chosen
  <2>2. /\ Len(current_chain) \in Nat /\ Len(new_chains) \in Nat
        /\ DOMAIN current_chain = 1 .. Len(current_chain) /\ DOMAIN Chosen = 1 .. Len(Chosen)
    BY <1>1, ChosenTyped, LenProperties
  <2> QED BY <2>1, <2>2
<1>3. Weaker(current_chain, Chosen) BY <1>2 DEF Weaker
<1>4. Ordered(current_chain) BY <1>3, WeakerOrder
<1>5. FromTriggers = {i \in DOMAIN current_chain : Trigger(current_chain[i])}
  BY DEF FromTriggers, Trigger
<1> QED BY <1>4, <1>5 DEF Ordered, TriggerOrder, Mandatory

(* The inductive invariant: the shape of the stack and what it says of the
   lists, the identities, the links spent, and the order of the chosen. *)
ChainInvariant ==
  Typed /\ Control /\ Identities /\ Spent /\ RealFront /\ Ordered(Chosen) /\ Asked

LEMMA InitChain == Init => ChainInvariant
BY InitControl, InitIdentities, InitOrder DEF ChainInvariant

LEMMA NextChain == ChainInvariant /\ [Next]_vars => ChainInvariant'
<1> SUFFICES ASSUME ChainInvariant, [Next]_vars
             PROVE  ChainInvariant'
  OBVIOUS
<1>1. Typed /\ Control /\ Identities /\ Spent /\ RealFront /\ Ordered(Chosen) /\ Asked
  BY DEF ChainInvariant
<1>2. Typed' /\ Control' BY <1>1, NextControl
<1>3. Identities' BY <1>1, <1>2, NextIdentities
<1>4. Spent' BY <1>1, <1>2, NextSpent
<1>5. RealFront' BY <1>1, NextRealFront
<1>6. Ordered(Chosen') /\ Asked' BY <1>1, <1>2, NextOrder
<1>7. Ordered(Chosen)' BY <1>6 DEF Ordered
<1> QED BY <1>2, <1>3, <1>4, <1>5, <1>6, <1>7 DEF ChainInvariant

THEOREM ChainInductive == Spec => []ChainInvariant
BY InitChain, NextChain, PTL DEF Spec

(* The variables keep their types, new_chains and current_chain never hold
   more links than there were effects to activate, and real_chain_count
   (field::add_chain, solve_chain) is the length of the chain without the
   link whose cost and targets are still being settled. *)
THEOREM ChainTypeCorrect == Spec => []TypeOK
<1>1. ChainInvariant => TypeOK BY TypesBound DEF ChainInvariant
<1> QED BY <1>1, ChainInductive, PTL

(* However PointEvent, QuickEffect and SolveChain move, swap and clear the
   lists of triggers, one that was chosen is in no list it could be chosen
   from again, and a "when" trigger that is still offered has not missed
   its timing (break_effect, processor.cpp). *)
THEOREM TriggersOfferedCorrect == Spec => []TriggersOffered
<1>1. ChainInvariant => TriggersOffered
  <2> SUFFICES ASSUME ChainInvariant PROVE ActivatedOnce /\ MissedTiming
    BY DEF TriggersOffered
  <2>1. Typed /\ Control /\ Identities /\ Apart /\ Distinct(Chosen) /\ MissedTiming
    BY DEF ChainInvariant, Identities
  <2>2. ASSUME NEW i \in DOMAIN Chosen, NEW c \in Waiting
        PROVE  Chosen[i].id # c.id
    <3>1. Chosen[i].id \in LinkIds(Chosen) BY DEF LinkIds
    <3>2. \/ c.id \in Ids(new_fchain) \/ c.id \in Ids(new_fchain_s) \/ c.id \in Ids(new_ochain)
          \/ c.id \in Ids(new_ochain_s) \/ c.id \in Ids(quick_f_chain)
      BY DEF Waiting, Ids
    <3> HIDE DEF Chosen
    <3> QED BY <2>1, <3>1, <3>2 DEF Apart, ApartIn
  <2> QED BY <2>1, <2>2 DEF ActivatedOnce, Distinct
<1> QED BY <1>1, ChainInductive, PTL

(* Simultaneous triggers go on the chain the mandatory ones first and the
   turn player's first, whatever is chained in between and whoever controls
   the handlers; and only mandatory quick effects come before an ignition
   effect (PointEvent, processor.cpp). *)
THEOREM TriggerOrderCorrect == Spec => []TriggerOrder
<1>1. ChainInvariant => TriggerOrder BY ChainOrder DEF ChainInvariant
<1> QED BY <1>1, ChainInductive, PTL

(* No chain begins to resolve before both players have passed in a row and
   every trigger and mandatory quick effect raised so far was offered
   (PointEvent, QuickEffect and IdleCommand, processor.cpp). *)
THEOREM PriorityPassedCorrect == Spec => PriorityPassed
<1>1. ChainInvariant /\ [Next]_vars => [ResolvesNow => passed = Players /\ NothingWaiting]_vars
  <2> SUFFICES ASSUME ChainInvariant, ResolvesNow
               PROVE  passed = Players /\ NothingWaiting
    OBVIOUS
  <2>1. Typed /\ Control /\ current_chain # <<>> BY DEF ChainInvariant, ResolvesNow
  <2>2. /\ units # <<>> /\ Keeps(Front)
        /\ Front.kind \notin {"AddChain", "Adjust", "QuickEffect"}
        /\ ~(Front.kind = "PointEvent" /\ Front.step \in {2, 3, 4, 6})
    BY DEF ResolvesNow, PointEventEnd, IdleSolve, IdleEnd, ActivateSolve, At, Keeps, IsAt
  <2>3. Facts(Front) BY <2>1, <2>2, FloorFacts
  <2>4. passed = Players /\ quick_f_chain = {} BY <2>1, <2>2, <2>3 DEF Facts, Passes
  <2>5. new_fchain_s = {} /\ new_ochain_s = {} BY <2>2, <2>3 DEF Facts, ListsEmpty
  <2> QED BY <2>4, <2>5 DEF NothingWaiting
<1> QED BY <1>1, ChainInductive, PTL DEF Spec, PriorityPassed
=============================================================================
