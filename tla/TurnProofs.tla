----------------------------- MODULE TurnProofs -----------------------------
(* Proofs about Turn, for any teams, any duels and any number of acts.
   What is at stake is the stack of units: a forced battle can interrupt
   any phase, even another battle, so the invariant says of a stack, and a
   phase to resume it in, that every unit of it will find the phase and the
   answers it counts on. *)
EXTENDS Turn, SequenceTheorems, FiniteSetTheorems, FunctionTheorems, TLAPS

-----------------------------------------------------------------------------
(* The invariant of a stack. *)

(* A forced battle that is on puts the phase back when it is over. *)
Saves(u) == u.kind = "Forced" /\ u.step = 1
Left(u, ph) == IF Saves(u) THEN u.backup_phase ELSE ph

(* The phases a unit can be resumed in. *)
Suits(u, ph) ==
  /\ u.kind = "Turn" =>
       /\ u.step \in 2 .. 3 => ph = "DRAW"
       /\ u.step = 6 => ph = "STANDBY"
       /\ u.step \in 8 .. 9 => ph = "MAIN1"
       /\ u.step = 11 => ph = "BATTLE_START"
       /\ u.step \in 14 .. 15 => ph = "MAIN2"
       /\ u.step \in 17 .. 18 => ph = "END"
  /\ u.kind = "Phase" => ph = u.phase
  /\ u.kind = "Idle" => ph \in {"MAIN1", "MAIN2"}
  /\ u.kind = "Battle" /\ u.step <= 40 =>
       ph = IF u.step = 39 THEN "DAMAGE" ELSE "BATTLE_STEP"

(* What a unit keeps to itself: who has passed, when tp has the turn, and
   the answer it will give. *)
Asked(u, tp) == IF u.is_opponent THEN Opponent(tp) ELSE tp
Sane(u, tp) ==
  /\ u.kind = "Phase" =>
       /\ u.step <= 4 /\ u.priority_passed => Opponent(Asked(u, tp)) \in u.passers
       /\ u.step = 20 => u.passers = Players
  /\ u.kind = "Idle" /\ u.step \in 10 .. 11 => u.phase_to_change_to # Junk
  /\ u.kind = "Battle" =>
       /\ u.done => u.forced
       /\ u.step >= 40 /\ ~u.forced => u.phase_to_change_to # Junk

(* The units that look at core.returns, or count on the duelists being in
   place, have the one that sees to it right above them. *)
Expects(u) ==
  \/ u.kind = "Turn" /\ u.step \in {1, 10, 13}
  \/ u.kind = "Phase" /\ u.step \in {1, 2}
  \/ u.kind = "Idle" /\ u.step \in {1, 12}
  \/ u.kind = "Battle" /\ (u.step = 43 \/ (u.step = 1 /\ ~u.done))
Serves(u, b) ==
  IF b.kind = "Turn"
  THEN u.kind = IF b.step = 1 THEN "Relay" ELSE IF b.step = 10 THEN "Idle" ELSE "Battle"
  ELSE u.kind = "Ask" /\ (b.kind = "Phase" /\ b.step = 1 => u.choices = {0, 1})

(* u can be right above b. *)
Fits(u, b) ==
  /\ u.kind # "Turn" /\ b.kind # "Relay"
  /\ Expects(b) => Serves(u, b)
  /\ u.kind = "Idle" => b.kind = "Turn" /\ b.step \in {10, 16}
  /\ u.kind = "Battle" => Saves(b) \/ (b.kind = "Turn" /\ b.step = 13 /\ ~u.forced)

(* The phase that us[i] is resumed in is the one the nearest forced battle
   above it saved, or ph. *)
Between(us, j, i) == \A k \in 1 .. Len(us) : j < k /\ k < i => ~Saves(us[k])
Resumable(us, ph) ==
  \A i \in 1 .. Len(us) :
    /\ Between(us, 0, i) => Suits(us[i], ph)
    /\ \A j \in 1 .. Len(us) :
         j < i /\ Saves(us[j]) /\ Between(us, j, i) => Suits(us[i], us[j].backup_phase)

Sound(us, ph, tp) ==
  /\ us \in Seq(Units) /\ us # <<>>
  /\ us[Len(us)].kind = "Turn"
  /\ \A i \in 1 .. Len(us) : Sane(us[i], tp)
  /\ \A i \in 1 .. Len(us) - 1 : Fits(us[i], us[i + 1])
  /\ Resumable(us, ph)

(* What the unit in front finds. *)
Fresh(u, answer) ==
  /\ u.kind = "Turn" /\ u.step \in {10, 13} => answer[1] # Junk
  /\ u.kind = "Turn" /\ u.step = 13 => answer[2] # Junk
  /\ u.kind = "Phase" /\ u.step = 1 => answer[1] \in {0, 1}
  /\ u.kind \in {"Phase", "Idle", "Battle"} /\ Expects(u) => answer[1] # Junk
InPlace(u, waiting) ==
  \A p \in Players :
    (u.kind = "Turn" /\ u.step = 1) \/ (u.kind = "Relay" /\ p < u.step) => ~waiting[p]

Stack ==
  /\ Sound(units, phase, turn_player)
  /\ Fresh(Front, returns)
  /\ InPlace(Front, recharge)

-----------------------------------------------------------------------------
(* The invariant of the duelists. *)

(* The lists change places together, and none is lost. *)
Team(p) == lists[p]["main"]
Permutes(f, n) ==
  /\ f \in [1 .. n -> 0 .. n - 1]
  /\ \A i, j \in 1 .. n : f[i] = f[j] => i = j
  /\ \A d \in 0 .. n - 1 : \E i \in 1 .. n : f[i] = d
Together ==
  /\ lists = [p \in Players |-> [l \in Lists |-> Team(p)]]
  /\ \A p \in Players : Permutes(Team(p), TeamSize[p])

(* The duelists that have not come in are where they were at the start. *)
Exchanged(p) == exchanges[p] - (IF recharge[p] THEN 1 ELSE 0)
InLine(p) ==
  /\ exchanges[p] <= Waiting(p)
  /\ recharge[p] => exchanges[p] >= 1 /\ force_turn_end
  /\ Team(p)[1] = Exchanged(p)
  /\ \A j \in 2 .. TeamSize[p] : j > Exchanged(p) + 1 => Team(p)[j] = j - 1

(* The duelist of d turns ago waits where the tag_index was then. *)
Seat(k, w, d) == IF d <= k THEN k - d + 2 ELSE k - d + 2 + w
Place(p, d) == Seat(tag_index[p], Waiting(p), d)
InRotation(p) ==
  /\ tag_index[p] = 0 \/ tag_index[p] < Waiting(p)
  /\ Len(recent[p]) <= TeamSize[p]
  /\ recent[p] # <<>> => recent[p][Len(recent[p])] = Team(p)[1]
  /\ \A d \in 1 .. Len(recent[p]) - 1 :
       recent[p][Len(recent[p]) - d] = Team(p)[Place(p, d)]

(* Nobody had a turn before the first. *)
Remembered ==
  /\ recent = [p \in Players |-> recent[p]]
  /\ \A p \in Players : recent[p] \in Seq(0 .. TeamSize[p] - 1)
  /\ turn_id = 0 => \A p \in Players : recent[p] = <<>>

Order ==
  /\ Together /\ Remembered
  /\ IF duel.relay THEN \A p \in Players : InLine(p)
     ELSE \A p \in Players : InRotation(p) /\ ~recharge[p]

-----------------------------------------------------------------------------
(* The invariant of the resets. *)

(* The resets that a unit has still to make, at step s of the turn. *)
MainOf(s) == IF s = 10 THEN "MAIN1" ELSE "MAIN2"
Owes(u, s, ph) ==
  \/ u.kind = "Phase" /\ u.phase = ph /\ u.step <= 25
  \/ u.kind = "Idle" /\ ph = MainOf(s) /\ u.step # 11
  \/ u.kind = "Battle" /\ ph = "BATTLE_STEP" /\ u.step <= 40
  \/ u.kind = "Battle" /\ ph = "BATTLE" /\ u.step <= 41
OwedBy(us, s, ph) == \E i \in 1 .. Len(us) : Owes(us[i], s, ph)
Owed(us, s) == [ph \in Counted |-> IF OwedBy(us, s, ph) THEN 1 ELSE 0]

(* Unless there was a forced battle, none is owed twice, and IdleCommand
   resets the main phase that it is about. *)
Calm(us, s, ph) ==
  /\ \A i \in 1 .. Len(us) :
       /\ ~Saves(us[i])
       /\ us[i].kind = "Idle" => ph = MainOf(s)
  /\ \A x \in Counted : \A i, j \in 1 .. Len(us) :
       Owes(us[i], s, x) /\ Owes(us[j], s, x) => i = j

(* What has been reset in the turn t, of b battle phases, when o is owed. *)
Falls(ph) ==
  CASE ph = "DRAW" -> 4 [] ph = "STANDBY" -> 7 [] ph = "MAIN1" -> 10
    [] ph = "BATTLE_START" -> 12 [] ph \in {"BATTLE_STEP", "BATTLE"} -> 13
    [] ph = "MAIN2" -> 16 [] ph = "END" -> 19
Tally(t, o, r, b) ==
  LET s == t.step
      battle == IF s \in 11 .. 12 THEN 1 ELSE 0
  IN /\ \A ph \in Counted : o[ph] = 1 => s = Falls(ph)
     /\ \A ph \in {"DRAW", "STANDBY", "END"} :
          r[ph] = IF s < Falls(ph) THEN 0 ELSE 1 - o[ph]
     /\ s < 10 => r["MAIN1"] = 0
     /\ s \in 10 .. 18 => r["MAIN1"] = 1 - o["MAIN1"]
     /\ r["MAIN1"] <= 1
     /\ r["MAIN2"] <= IF s < 16 THEN 0 ELSE r["MAIN1"] - o["MAIN2"]
     /\ s = 10 => b = 0 \/ (b = 1 /\ t.has_performed_second_battle_phase)
     /\ s \in 11 .. 13 => b = 1 \/ (b = 2 /\ t.has_performed_second_battle_phase)
     /\ b <= 2 * r["MAIN1"]
     /\ r["BATTLE_START"] = b - (IF s = 11 THEN 1 ELSE o["BATTLE_START"])
     /\ r["BATTLE"] = b - battle - o["BATTLE"]
     /\ r["BATTLE_STEP"] <= b - battle - o["BATTLE_STEP"]

Resets ==
  LET t == units[Len(units)]
  IN ~interrupted /\ ~At("Turn", 0) =>
       /\ Calm(units, t.step, phase)
       /\ Tally(t, Owed(units, t.step), resets, battle_phase_count)

-----------------------------------------------------------------------------
(* Stacks. *)

(* Putting u on top of t; what is then first, and below it. *)
LEMMA Topped ==
  ASSUME NEW S, NEW u \in S, NEW t \in Seq(S)
  PROVE  /\ <<u>> \o t \in Seq(S) /\ <<u>> \o t # <<>>
         /\ Len(<<u>> \o t) = Len(t) + 1 /\ Len(t) \in Nat
         /\ (<<u>> \o t)[1] = u
         /\ \A i \in 1 .. Len(t) : (<<u>> \o t)[i + 1] = t[i]
         /\ Head(<<u>> \o t) = u /\ Tail(<<u>> \o t) = t
<1>1. <<u>> \in Seq(S) /\ Len(<<u>>) = 1 /\ <<u>>[1] = u OBVIOUS
<1>2. /\ <<u>> \o t \in Seq(S) /\ Len(<<u>> \o t) = 1 + Len(t) /\ Len(t) \in Nat
      /\ \A i \in 1 .. 1 + Len(t) :
           (<<u>> \o t)[i] = IF i <= 1 THEN <<u>>[i] ELSE t[i - 1]
  BY <1>1, ConcatProperties, LenProperties
<1>3. <<u>> \o t # <<>> BY <1>2, EmptySeq
<1>4. /\ (<<u>> \o t)[1] = u
      /\ \A i \in 1 .. Len(t) : (<<u>> \o t)[i + 1] = t[i]
  BY <1>1, <1>2
<1>5. Head(<<u>> \o t) = u BY <1>2, <1>3, <1>4
<1>6. Tail(<<u>> \o t) = t
  <2>1. /\ Tail(<<u>> \o t) \in Seq(S) /\ Len(Tail(<<u>> \o t)) = Len(t)
        /\ \A i \in 1 .. Len(t) : Tail(<<u>> \o t)[i] = (<<u>> \o t)[i + 1]
    BY <1>2, <1>3, HeadTailProperties
  <2> QED BY <2>1, <1>4, SeqEqual
<1> QED BY <1>2, <1>3, <1>4, <1>5, <1>6

LEMMA Popped ==
  ASSUME NEW S, NEW us \in Seq(S), us # <<>>
  PROVE  /\ Head(us) \in S /\ Head(us) = us[1]
         /\ Tail(us) \in Seq(S) /\ us = <<Head(us)>> \o Tail(us)
         /\ Len(us) = Len(Tail(us)) + 1 /\ Len(Tail(us)) \in Nat
         /\ \A i \in 1 .. Len(Tail(us)) : us[i + 1] = Tail(us)[i]
<1>1. /\ Head(us) \in S /\ Tail(us) \in Seq(S) /\ Len(Tail(us)) = Len(us) - 1
      /\ \A i \in 1 .. Len(Tail(us)) : Tail(us)[i] = us[i + 1]
      /\ Len(us) \in Nat \ {0} /\ Head(us) = us[1]
  BY HeadTailProperties, EmptySeq
<1>2. /\ <<Head(us)>> \o Tail(us) \in Seq(S) /\ Len(<<Head(us)>> \o Tail(us)) = Len(us)
      /\ \A i \in 1 .. Len(us) :
           (<<Head(us)>> \o Tail(us))[i] = IF i = 1 THEN us[1] ELSE us[i]
  <2>1. \A i \in 1 .. Len(us) : i = 1 \/ (i - 1 \in 1 .. Len(Tail(us)) /\ (i - 1) + 1 = i)
    BY <1>1
  <2> QED BY <1>1, <2>1, Topped
<1>3. us = <<Head(us)>> \o Tail(us) BY <1>1, <1>2, SeqEqual
<1> QED BY <1>1, <1>3

LEMMA TwoTopped ==
  ASSUME NEW S, NEW u \in S, NEW v \in S, NEW t \in Seq(S)
  PROVE  <<u, v>> \o t = <<u>> \o (<<v>> \o t)
<1>1. /\ <<u>> \in Seq(S) /\ Len(<<u>>) = 1 /\ <<u>>[1] = u
      /\ <<v>> \in Seq(S) /\ Len(<<v>>) = 1 /\ <<v>>[1] = v
      /\ <<u, v>> \in Seq(S) /\ Len(<<u, v>>) = 2 /\ <<u, v>>[1] = u /\ <<u, v>>[2] = v
  OBVIOUS
<1>2. /\ <<u>> \o <<v>> \in Seq(S) /\ Len(<<u>> \o <<v>>) = 2
      /\ (<<u>> \o <<v>>)[1] = u
  BY <1>1, Topped
<1>3. (<<u>> \o <<v>>)[2] = v
  <2>1. 1 \in 1 .. Len(<<v>>) /\ 1 + 1 = 2 BY <1>1
  <2>2. (<<u>> \o <<v>>)[1 + 1] = <<v>>[1] BY <2>1, <1>1, Topped
  <2> QED BY <2>1, <2>2, <1>1
<1>4. <<u, v>> = <<u>> \o <<v>>
  <2> DEFINE a == <<u, v>>
             b == <<u>> \o <<v>>
  <2>1. /\ a \in Seq(S) /\ b \in Seq(S) /\ Len(a) = Len(b) /\ Len(a) = 2
        /\ a[1] = b[1] /\ a[2] = b[2]
    BY <1>1, <1>2, <1>3
  <2> HIDE DEF a, b
  <2>2. \A i \in 1 .. Len(a) : a[i] = b[i] BY <2>1
  <2>3. a = b BY <2>1, <2>2, SeqEqual
  <2> QED BY <2>3 DEF a, b
<1> QED BY <1>1, <1>4, ConcatAssociative

(* A sound stack stays sound when a unit that fits is put on it, *)
LEMMA Push ==
  ASSUME NEW u \in Units, NEW t, NEW ph, NEW tp, Sound(t, Left(u, ph), tp),
         Sane(u, tp), Suits(u, ph), Fits(u, Head(t))
  PROVE  /\ Sound(<<u>> \o t, ph, tp)
         /\ Head(<<u>> \o t) = u /\ Tail(<<u>> \o t) = t
<1> DEFINE us == <<u>> \o t
<1>1. /\ t \in Seq(Units) /\ t # <<>> /\ Len(t) \in Nat \ {0} /\ Head(t) = t[1]
  BY Popped, EmptySeq DEF Sound
<1>2. /\ us \in Seq(Units) /\ us # <<>> /\ Len(us) = Len(t) + 1
      /\ us[1] = u /\ Head(us) = u /\ Tail(us) = t
      /\ \A i \in 1 .. Len(t) : us[i + 1] = t[i]
  BY <1>1, Topped
<1> HIDE DEF us
<1>3. \A i \in 1 .. Len(us) : i = 1 \/ (i - 1 \in 1 .. Len(t) /\ us[i] = t[i - 1])
  <2> TAKE i \in 1 .. Len(us)
  <2> SUFFICES ASSUME i # 1
               PROVE  i - 1 \in 1 .. Len(t) /\ us[i] = t[i - 1]
    OBVIOUS
  <2>1. i - 1 \in 1 .. Len(t) /\ (i - 1) + 1 = i BY <1>1, <1>2
  <2> QED BY <2>1, <1>2
<1>4. us[Len(us)].kind = "Turn" BY <1>1, <1>2 DEF Sound
<1>5. \A i \in 1 .. Len(us) : Sane(us[i], tp) BY <1>2, <1>3 DEF Sound
<1>6. \A i \in 1 .. Len(us) - 1 : Fits(us[i], us[i + 1])
  <2> SUFFICES ASSUME NEW i \in 1 .. Len(us) - 1
               PROVE  Fits(us[i], us[i + 1])
    OBVIOUS
  <2>1. CASE i = 1 BY <2>1, <1>1, <1>2
  <2>2. CASE i # 1
    <3>1. i - 1 \in 1 .. Len(t) - 1 /\ (i - 1) + 1 = i BY <2>2, <1>1, <1>2
    <3>2. us[i] = t[i - 1] /\ us[i + 1] = t[i] BY <3>1, <1>1, <1>2
    <3> QED BY <3>1, <3>2 DEF Sound
  <2> QED BY <2>1, <2>2
<1>7. \A i \in 1 .. Len(t) :
        /\ Between(us, 1, i + 1) => Between(t, 0, i)
        /\ \A j \in 1 .. Len(t) : Between(us, j + 1, i + 1) => Between(t, j, i)
  BY <1>1, <1>2 DEF Between
<1>8. \A i \in 1 .. Len(us) : Between(us, 0, i) => Suits(us[i], ph)
  <2> SUFFICES ASSUME NEW i \in 1 .. Len(us), Between(us, 0, i), i # 1
               PROVE  Suits(us[i], ph)
    BY <1>2
  <2>1. i - 1 \in 1 .. Len(t) /\ us[i] = t[i - 1] /\ (i - 1) + 1 = i BY <1>1, <1>2, <1>3
  <2>2. ~Saves(u) /\ Between(us, 1, i) BY <1>1, <1>2 DEF Between
  <2>3. Between(t, 0, i - 1) /\ Left(u, ph) = ph BY <2>1, <2>2, <1>7 DEF Left
  <2> QED BY <2>1, <2>3 DEF Sound, Resumable
<1>9. ASSUME NEW i \in 1 .. Len(us), NEW j \in 1 .. Len(us), j < i, Saves(us[j]),
             Between(us, j, i)
      PROVE  Suits(us[i], us[j].backup_phase)
  <2>1. i - 1 \in 1 .. Len(t) /\ us[i] = t[i - 1] /\ (i - 1) + 1 = i
    BY <1>1, <1>2, <1>3, <1>9
  <2>2. CASE j = 1
    <3>1. Between(t, 0, i - 1) /\ Left(u, ph) = us[j].backup_phase
      BY <2>1, <2>2, <1>2, <1>7, <1>9 DEF Left
    <3> QED BY <2>1, <3>1 DEF Sound, Resumable
  <2>3. CASE j # 1
    <3>1. j - 1 \in 1 .. Len(t) /\ us[j] = t[j - 1] /\ (j - 1) + 1 = j /\ j - 1 < i - 1
      BY <2>3, <1>1, <1>2, <1>3, <1>9
    <3>2. Between(t, j - 1, i - 1) BY <2>1, <3>1, <1>7, <1>9
    <3> QED BY <2>1, <3>1, <3>2, <1>9 DEF Sound, Resumable
  <2> QED BY <2>2, <2>3
<1>10. Sound(us, ph, tp) BY <1>2, <1>4, <1>5, <1>6, <1>8, <1>9 DEF Sound, Resumable
<1> QED BY <1>2, <1>10 DEF us

(* and when its first unit is gone, unless that is the turn. *)
LEMMA Pop ==
  ASSUME NEW us, NEW ph, NEW tp, Sound(us, ph, tp)
  PROVE  /\ us \in Seq(Units) /\ us = <<Head(us)>> \o Tail(us)
         /\ Head(us) \in Units /\ Sane(Head(us), tp) /\ Suits(Head(us), ph)
         /\ Head(us) = us[1]
         /\ IF Head(us).kind = "Turn" THEN Tail(us) = <<>>
            ELSE /\ Sound(Tail(us), Left(Head(us), ph), tp)
                 /\ Fits(Head(us), Head(Tail(us)))
<1> DEFINE u == Head(us)
           t == Tail(us)
<1>1. /\ us \in Seq(Units) /\ us # <<>> /\ Len(us) = Len(t) + 1 /\ Len(t) \in Nat
      /\ u = us[1] /\ u \in Units /\ t \in Seq(Units) /\ us = <<u>> \o t
      /\ \A i \in 1 .. Len(t) : us[i + 1] = t[i]
  BY Popped DEF Sound
<1>2. /\ us[Len(us)].kind = "Turn"
      /\ \A i \in 1 .. Len(us) : Sane(us[i], tp)
      /\ \A i \in 1 .. Len(us) - 1 : Fits(us[i], us[i + 1])
      /\ Resumable(us, ph)
  BY DEF Sound
<1> HIDE DEF u, t
<1>3. Sane(u, tp) /\ Suits(u, ph)
  <2>1. 1 \in 1 .. Len(us) BY <1>1
  <2>2. Between(us, 0, 1) BY DEF Between
  <2> QED BY <2>1, <2>2, <1>1, <1>2 DEF Resumable
<1>4. CASE u.kind = "Turn"
  <2>1. t = <<>>
    <3> SUFFICES ASSUME t # <<>> PROVE FALSE OBVIOUS
    <3>1. Len(t) >= 1 BY <1>1, EmptySeq
    <3>2. Fits(us[1], us[2]) BY <3>1, <1>1, <1>2
    <3> QED BY <3>2, <1>1, <1>4 DEF Fits
  <2> QED BY <2>1, <1>1, <1>3, <1>4 DEF u, t
<1>5. CASE u.kind # "Turn"
  <2>1. t # <<>> /\ Len(t) \in Nat \ {0} /\ Head(t) = t[1]
    <3>1. Len(t) # 0 BY <1>1, <1>2, <1>5
    <3> QED BY <3>1, <1>1, EmptySeq, Popped
  <2>2. Fits(u, Head(t))
    <3>1. 1 \in 1 .. Len(us) - 1 /\ us[1 + 1] = t[1] BY <1>1, <2>1
    <3> QED BY <3>1, <1>1, <1>2, <2>1
  <2>3. t[Len(t)].kind = "Turn" BY <1>1, <1>2, <2>1
  <2>4. \A i \in 1 .. Len(t) : i + 1 \in 1 .. Len(us) /\ us[i + 1] = t[i] /\ Sane(t[i], tp)
    <3>1. \A i \in 1 .. Len(t) : i + 1 \in 1 .. Len(us) /\ us[i + 1] = t[i] BY <1>1
    <3>2. \A i \in 1 .. Len(us) : Sane(us[i], tp) BY <1>2
    <3> QED BY <3>1, <3>2
  <2>5. ASSUME NEW i \in 1 .. Len(t) - 1
        PROVE  Fits(t[i], t[i + 1])
    <3>1. i + 1 \in 1 .. Len(us) - 1 /\ us[i + 1] = t[i] /\ us[(i + 1) + 1] = t[i + 1]
      BY <1>1, <2>1
    <3> QED BY <3>1, <1>2
  <2>6. \A i \in 1 .. Len(t) :
          /\ Between(t, 0, i) => Between(us, 1, i + 1)
          /\ \A j \in 1 .. Len(t) : Between(t, j, i) => Between(us, j + 1, i + 1)
    <3> SUFFICES ASSUME NEW i \in 1 .. Len(t), NEW j \in 0 .. Len(t), Between(t, j, i)
                 PROVE  Between(us, j + 1, i + 1)
      BY <1>1
    <3> SUFFICES ASSUME NEW k \in 1 .. Len(us), j + 1 < k, k < i + 1
                 PROVE  ~Saves(us[k])
      BY DEF Between
    <3>1. k - 1 \in 1 .. Len(t) /\ j < k - 1 /\ k - 1 < i /\ (k - 1) + 1 = k BY <1>1
    <3> QED BY <3>1, <2>4 DEF Between
  <2>7. ASSUME NEW i \in 1 .. Len(t), Between(t, 0, i)
        PROVE  Suits(t[i], Left(u, ph))
    <3>1. Between(us, 1, i + 1) /\ i + 1 \in 1 .. Len(us) /\ 1 \in 1 .. Len(us)
      BY <1>1, <2>6, <2>7
    <3>2. CASE Saves(u)
      <4>1. Suits(us[i + 1], us[1].backup_phase)
        BY SMTT(20), <3>1, <3>2, <1>1, <1>2 DEF Resumable
      <4> QED BY <4>1, <3>2, <2>4, <1>1 DEF Left
    <3>3. CASE ~Saves(u)
      <4>1. Between(us, 0, i + 1) BY <3>1, <3>3, <1>1 DEF Between
      <4>2. Suits(us[i + 1], ph) BY <3>1, <4>1, <1>2 DEF Resumable
      <4> QED BY <4>2, <3>3, <2>4 DEF Left
    <3> QED BY <3>2, <3>3
  <2>8. ASSUME NEW i \in 1 .. Len(t), NEW j \in 1 .. Len(t), j < i, Saves(t[j]),
               Between(t, j, i)
        PROVE  Suits(t[i], t[j].backup_phase)
    <3>1. Between(us, j + 1, i + 1) /\ j + 1 < i + 1 BY <2>6, <2>8
    <3> QED BY <3>1, <2>4, <2>8, <1>2 DEF Resumable
  <2>9. Sound(t, Left(u, ph), tp)
    BY <1>1, <2>1, <2>3, <2>4, <2>5, <2>7, <2>8 DEF Sound, Resumable
  <2> QED BY <1>1, <1>3, <1>5, <2>2, <2>9 DEF u, t
<1> QED BY <1>4, <1>5

(* The turn is alone at the bottom. *)
LEMMA Alone ==
  ASSUME NEW u \in TurnUnits, NEW ph, NEW tp, Suits(u, ph)
  PROVE  /\ Sound(<<u>>, ph, tp)
         /\ Head(<<u>>) = u /\ Tail(<<u>>) = <<>>
<1>1. u \in Units /\ u.kind = "Turn" BY DEF Units, TurnUnits
<1>2. /\ <<u>> \in Seq(Units) /\ <<u>> # <<>> /\ Len(<<u>>) = 1 /\ <<u>>[1] = u
      /\ Head(<<u>>) = u /\ Tail(<<u>>) = <<>>
  BY <1>1
<1>3. Sane(u, tp) /\ ~Saves(u) BY <1>1 DEF Sane, Saves
<1>4. Resumable(<<u>>, ph) BY <1>2 DEF Resumable
<1> QED BY <1>1, <1>2, <1>3, <1>4 DEF Sound

(* Below the turn and a forced battle that is on any phase will do. *)
LEMMA AnyPhase ==
  ASSUME NEW us, NEW ph, NEW ph2, NEW tp, Sound(us, ph, tp),
         Saves(Head(us)) \/ (Head(us).kind = "Turn" /\ Suits(Head(us), ph2))
  PROVE  Sound(us, ph2, tp)
<1> DEFINE u == Head(us)
           t == Tail(us)
<1>1. /\ us = <<u>> \o t /\ u \in Units /\ Sane(u, tp)
      /\ IF u.kind = "Turn" THEN t = <<>> ELSE Sound(t, Left(u, ph), tp) /\ Fits(u, Head(t))
  BY Pop
<1> HIDE DEF u, t
<1>2. CASE Saves(u)
  <2>1. u.kind # "Turn" /\ Suits(u, ph2) /\ Left(u, ph2) = Left(u, ph)
    BY <1>2 DEF Saves, Suits, Left
  <2>2. Sound(<<u>> \o t, ph2, tp) BY <1>1, <2>1, Push
  <2> QED BY <1>1, <2>2
<1>3. CASE u.kind = "Turn" /\ Suits(u, ph2)
  <2>1. u \in TurnUnits
    BY <1>1, <1>3 DEF Units, TurnUnits, PhaseUnits, IdleUnits, BattleUnits, ForcedUnits,
                      OtherUnits
  <2>2. us = <<u>> BY <1>1, <1>3
  <2> QED BY <2>1, <2>2, <1>3, Alone
<1> QED BY <1>2, <1>3 DEF u

(* Effects and point events, and a forced battle that has not begun, can be
   put on any unit that expects nothing. *)
Batches == {<<>>, <<Effects>>, <<PointEvent>>, SolveChain, <<ForcedBattle>>}
Helper(u) == u \in Units /\ u.kind \in {"Effects", "Point", "Forced"} /\ ~Saves(u)

LEMMA Helpers == Helper(Effects) /\ Helper(PointEvent) /\ Helper(ForcedBattle)
BY DEF Helper, Effects, PointEvent, ForcedBattle, Saves, Units, OtherUnits, ForcedUnits, Phases

LEMMA Helped ==
  ASSUME NEW us, NEW ph, NEW tp, Sound(us, ph, tp), NEW u, Helper(u), ~Expects(Head(us)),
         Head(us).kind # "Relay"
  PROVE  /\ Sound(<<u>> \o us, ph, tp)
         /\ Head(<<u>> \o us) = u /\ ~Expects(u)
<1>1. Sane(u, tp) /\ Suits(u, ph) /\ Left(u, ph) = ph /\ Fits(u, Head(us)) /\ ~Expects(u)
  BY DEF Helper, Sane, Suits, Left, Fits, Expects
<1> QED BY <1>1, Push DEF Helper

LEMMA Batched ==
  ASSUME NEW us, NEW ph, NEW tp, Sound(us, ph, tp), ~Expects(Head(us)),
         Head(us).kind # "Relay", NEW batch \in Batches
  PROVE  /\ Sound(batch \o us, ph, tp)
         /\ Head(batch \o us) = Head(us) \/ Helper(Head(batch \o us))
<1>1. us \in Seq(Units) BY DEF Sound
<1>2. CASE batch = <<>>
  <2>1. batch \o us = us BY <1>1, <1>2, ConcatEmptySeq
  <2> QED BY <2>1
<1>3. ASSUME NEW u, Helper(u), batch = <<u>>
      PROVE  Sound(batch \o us, ph, tp) /\ Helper(Head(batch \o us))
  BY <1>3, Helped
<1>4. CASE batch = SolveChain
  <2>1. /\ Sound(<<PointEvent>> \o us, ph, tp) /\ ~Expects(Head(<<PointEvent>> \o us))
        /\ Head(<<PointEvent>> \o us).kind # "Relay"
    BY Helped, Helpers DEF Helper
  <2>2. /\ Sound(<<Effects>> \o (<<PointEvent>> \o us), ph, tp)
        /\ Head(<<Effects>> \o (<<PointEvent>> \o us)) = Effects
    BY <2>1, Helped, Helpers
  <2>3. batch \o us = <<Effects>> \o (<<PointEvent>> \o us)
    BY <1>1, <1>4, TwoTopped, Helpers DEF Helper, SolveChain
  <2> QED BY <2>2, <2>3, Helpers
<1> QED BY <1>2, <1>3, <1>4, Helpers DEF Batches

LEMMA Kinds ==
  ASSUME NEW u \in Units
  PROVE  /\ u.kind = "Turn" => u \in TurnUnits
         /\ u.kind = "Phase" => u \in PhaseUnits
         /\ u.kind = "Idle" => u \in IdleUnits
         /\ u.kind = "Battle" => u \in BattleUnits
         /\ u.kind = "Forced" => u \in ForcedUnits
         /\ u.kind = "Ask" => u \in [kind : {"Ask"}, step : {0}, choices : SUBSET (-1 .. 8)]
         /\ u.kind = "Relay" => u \in [kind : {"Relay"}, step : 0 .. 2]
         /\ u.kind \in {"Effects", "Point"} =>
              u \in [kind : {"Effects", "Point"}, step : 0 .. 1]
BY DEF Units, TurnUnits, PhaseUnits, IdleUnits, BattleUnits, ForcedUnits, OtherUnits

(* How a stack can go on: with its first unit as it is now, or helpers that
   it put before itself. *)
Settled(us, ph, tp, answer, waiting) ==
  Sound(us, ph, tp) /\ Fresh(Head(us), answer) /\ InPlace(Head(us), waiting)

LEMMA Calmly ==
  ASSUME NEW us, NEW ph, NEW tp, Sound(us, ph, tp), NEW answer, NEW waiting,
         ~Expects(Head(us)), Head(us).kind # "Relay"
  PROVE  Settled(us, ph, tp, answer, waiting)
BY DEF Settled, Fresh, InPlace, Expects

LEMMA Finished ==
  ASSUME NEW us, NEW ph, NEW tp, Sound(us, ph, tp), NEW answer, NEW waiting,
         ~Expects(Head(us)), Head(us).kind # "Relay", NEW batch \in Batches
  PROVE  Settled(batch \o us, ph, tp, answer, waiting)
<1>1. /\ Sound(batch \o us, ph, tp)
      /\ Head(batch \o us) = Head(us) \/ Helper(Head(batch \o us))
  BY Batched
<1>2. ~Expects(Head(batch \o us)) /\ Head(batch \o us).kind # "Relay"
  BY <1>1 DEF Helper, Expects
<1> QED BY <1>1, <1>2, Calmly

LEMMA BatchesAreSeqs == \A batch \in Batches : batch \in Seq(Units)
<1> DEFINE e == Effects
           p == PointEvent
           f == ForcedBattle
<1>1. e \in Units /\ p \in Units /\ f \in Units BY Helpers DEF Helper
<1> HIDE DEF e, p, f
<1>2. /\ <<>> \in Seq(Units) /\ <<e>> \in Seq(Units) /\ <<p>> \in Seq(Units)
      /\ <<f>> \in Seq(Units) /\ <<e, p>> \in Seq(Units)
  BY <1>1
<1>3. Batches = {<<>>, <<e>>, <<p>>, <<e, p>>, <<f>>}
  BY DEF Batches, SolveChain, e, p, f
<1> QED BY <1>2, <1>3

LEMMA Continued ==
  ASSUME NEW v \in Units, NEW t \in Seq(Units), NEW ph, NEW tp, Sound(<<v>> \o t, ph, tp),
         NEW answer, NEW waiting, ~Expects(v), v.kind # "Relay", NEW batch \in Batches
  PROVE  Settled(batch \o <<v>> \o t, ph, tp, answer, waiting)
<1>1. Head(<<v>> \o t) = v BY Topped
<1>2. Settled(batch \o (<<v>> \o t), ph, tp, answer, waiting) BY <1>1, Finished
<1>3. <<v>> \in Seq(Units) /\ batch \in Seq(Units) BY BatchesAreSeqs
<1>4. batch \o <<v>> \o t = batch \o (<<v>> \o t) BY <1>3, ConcatAssociative
<1> QED BY <1>2, <1>4

LEMMA Questioned ==
  ASSUME NEW v \in Units, NEW t \in Seq(Units), NEW ph, NEW tp, Sound(<<v>> \o t, ph, tp),
         v.kind \in {"Phase", "Idle", "Battle"}, NEW c \in SUBSET (-1 .. 8),
         v.kind = "Phase" /\ v.step = 1 => c = {0, 1}, NEW answer, NEW waiting
  PROVE  Settled(<<Ask(c)>> \o <<v>> \o t, ph, tp, answer, waiting)
<1> DEFINE q == Ask(c)
<1>1. q \in Units /\ q.kind = "Ask" /\ q.choices = c BY DEF Ask, Units, OtherUnits
<1> HIDE DEF q
<1>2. Fits(q, v) /\ Sane(q, tp) /\ Suits(q, ph) /\ Left(q, ph) = ph
  BY <1>1 DEF Fits, Serves, Sane, Suits, Left, Saves, Expects
<1>3. Head(<<v>> \o t) = v BY Topped
<1>4. Sound(<<q>> \o (<<v>> \o t), ph, tp) /\ Head(<<q>> \o (<<v>> \o t)) = q
  BY <1>1, <1>2, <1>3, Push
<1>5. ~Expects(q) /\ q.kind # "Relay" BY <1>1 DEF Expects
<1>6. Settled(<<q>> \o (<<v>> \o t), ph, tp, answer, waiting) BY <1>4, <1>5, Calmly
<1>7. <<q>> \in Seq(Units) /\ <<v>> \in Seq(Units) BY <1>1
<1>8. <<q>> \o <<v>> \o t = <<q>> \o (<<v>> \o t) BY <1>7, ConcatAssociative
<1> QED BY <1>6, <1>8 DEF q

(* The unit in front as it is now: the turn, *)
LEMMA TurnGoesOn ==
  ASSUME NEW us, NEW ph, NEW tp, Sound(us, ph, tp), Head(us).kind = "Turn",
         NEW v \in TurnUnits, NEW ph2, NEW tp2, Suits(v, ph2)
  PROVE  /\ Sound(<<v>> \o Tail(us), ph2, tp2)
         /\ v \in Units /\ Tail(us) \in Seq(Units) /\ Head(us) \in TurnUnits
<1>1. Tail(us) = <<>> /\ Head(us) \in Units BY Pop
<1>2. v \in Units /\ <<v>> \in Seq(Units) /\ Tail(us) \in Seq(Units)
  <2>1. v \in Units BY DEF Units
  <2>2. <<v>> \in Seq(Units) BY <2>1
  <2> QED BY <1>1, <2>1, <2>2, EmptySeq
<1>3. <<v>> \o Tail(us) = <<v>> BY <1>1, <1>2, ConcatEmptySeq
<1>4. Sound(<<v>>, ph2, tp2) BY Alone
<1>5. Head(us) \in TurnUnits BY <1>1, Kinds
<1> QED BY <1>2, <1>3, <1>4, <1>5

(* a battle, which may change the phase, and the others. *)
LEMMA GoesOn ==
  ASSUME NEW us, NEW ph, NEW tp, Sound(us, ph, tp),
         NEW v \in Units, v.kind = Head(us).kind, v.kind # "Turn",
         v.kind \in {"Ask", "Relay"} => v = Head(us),
         v.kind = "Battle" => v.forced = Head(us).forced,
         Sane(v, tp), NEW ph2, Suits(v, ph2), Left(v, ph2) = Left(Head(us), ph)
         \/ v.kind = "Battle"
  PROVE  /\ Sound(<<v>> \o Tail(us), ph2, tp)
         /\ Tail(us) \in Seq(Units) /\ Head(us) \in Units
<1> DEFINE u == Head(us)
           t == Tail(us)
<1>1. /\ u \in Units /\ Sound(t, Left(u, ph), tp) /\ Fits(u, Head(t)) BY Pop
<1>2. t \in Seq(Units) BY <1>1 DEF Sound
<1>3. Fits(v, Head(t)) BY <1>1 DEF Fits, Serves
<1>4. Sound(t, Left(v, ph2), tp)
  <2>1. CASE v.kind = "Battle"
    <3>1. Saves(Head(t)) \/ (Head(t).kind = "Turn" /\ Head(t).step = 13)
      BY <1>1, <2>1 DEF Fits
    <3> HIDE DEF t, u
    <3>2. Saves(Head(t)) \/ (Head(t).kind = "Turn" /\ Suits(Head(t), Left(v, ph2)))
      <4>1. \A b, x : b.kind = "Turn" /\ b.step = 13 => Suits(b, x) BY DEF Suits
      <4> QED BY <3>1, <4>1
    <3> QED BY <3>2, <1>1, AnyPhase
  <2> QED BY <1>1, <2>1
<1> HIDE DEF t, u
<1>5. Sound(<<v>> \o t, ph2, tp) BY <1>3, <1>4, Push
<1> QED BY <1>1, <1>2, <1>5 DEF t, u

(* A unit is over. *)
LEMMA Over ==
  ASSUME NEW us, NEW ph, NEW tp, Sound(us, ph, tp), Head(us).kind # "Turn"
  PROVE  /\ Sound(Tail(us), Left(Head(us), ph), tp)
         /\ Head(us) \in Units /\ Tail(us) \in Seq(Units)
         /\ Fits(Head(us), Head(Tail(us))) /\ Head(Tail(us)).kind # "Relay"
BY Pop DEF Sound, Fits

-----------------------------------------------------------------------------
(* Types. *)

Types ==
  /\ phase \in Phases /\ turn_id \in 0 .. 2 /\ turn_player \in Players
  /\ battle_phase_count \in Nat
  /\ returns \in Seq(Answers) /\ Len(returns) = 2
  /\ force_turn_end \in BOOLEAN /\ hand_adjusted \in BOOLEAN /\ skip_m2 \in BOOLEAN
  /\ set_forced_attack \in BOOLEAN /\ interrupted \in BOOLEAN
  /\ tag_index \in [Players -> Nat] /\ exchanges \in [Players -> Nat]
  /\ recharge \in [Players -> BOOLEAN]
  /\ duel \in Duels /\ acts \in 0 .. duel.max_acts
  /\ resets \in [Counted -> 0 .. 3]

LEMMA TwoAnswers ==
  ASSUME Types
  PROVE  /\ returns[1] \in Answers /\ returns[2] \in Answers
         /\ \A a \in Answers :
              /\ [returns EXCEPT ![1] = a] \in Seq(Answers)
              /\ Len([returns EXCEPT ![1] = a]) = 2
              /\ [returns EXCEPT ![1] = a][1] = a
              /\ [returns EXCEPT ![1] = a][2] = returns[2]
<1>1. 1 \in 1 .. Len(returns) /\ 2 \in 1 .. Len(returns) /\ returns \in Seq(Answers)
  BY DEF Types
<1>2. returns[1] \in Answers /\ returns[2] \in Answers BY <1>1, ElementOfSeq
<1> SUFFICES ASSUME NEW a \in Answers
             PROVE  /\ [returns EXCEPT ![1] = a] \in Seq(Answers)
                    /\ Len([returns EXCEPT ![1] = a]) = 2
                    /\ [returns EXCEPT ![1] = a][1] = a
                    /\ [returns EXCEPT ![1] = a][2] = returns[2]
  BY <1>2
<1> DEFINE r == [returns EXCEPT ![1] = a]
<1>3. /\ r \in Seq(Answers) /\ Len(r) = Len(returns)
      /\ \A j \in 1 .. Len(returns) : r[j] = IF j = 1 THEN a ELSE returns[j]
  BY <1>1, ExceptSeq
<1> HIDE DEF r
<1>4. r \in Seq(Answers) /\ Len(r) = 2 /\ r[1] = a /\ r[2] = returns[2]
  BY <1>1, <1>3 DEF Types
<1> QED BY <1>4 DEF r

-----------------------------------------------------------------------------
(* The stack through the steps of each unit. *)

(* What a handler leaves in place of its unit. *)
Now(u, s) == [u EXCEPT !.step = s]
Stacked(us, batch, v, t) == us = batch \o <<v>> \o t

LEMMA NowPhase ==
  ASSUME NEW u \in PhaseUnits, NEW s \in 0 .. 26
  PROVE  /\ Now(u, s) \in PhaseUnits /\ Now(u, s).phase = u.phase /\ Now(u, s).step = s
         /\ \A tp : Sane(u, tp) /\ (s > 4 \/ u.step <= 4) /\ s # 20 => Sane(Now(u, s), tp)
<1>1. PICK v : v = [u EXCEPT !.step = s] OBVIOUS
<1>2. v \in PhaseUnits /\ v.phase = u.phase /\ v.step = s
      /\ v.is_opponent = u.is_opponent /\ v.passers = u.passers
      /\ v.priority_passed = u.priority_passed
  BY <1>1 DEF PhaseUnits
<1>3. \A tp : Sane(u, tp) /\ (s > 4 \/ u.step <= 4) /\ s # 20 => Sane(v, tp)
  BY <1>2 DEF PhaseUnits, Sane, Asked
<1> QED BY <1>1, <1>2, <1>3 DEF Now

LEMMA Singles ==
  /\ <<>> \in Batches /\ <<Effects>> \in Batches /\ <<PointEvent>> \in Batches
  /\ SolveChain \in Batches /\ <<ForcedBattle>> \in Batches
BY DEF Batches

LEMMA PhaseStack ==
  ASSUME Types, Stack, PhaseStep
  PROVE  Stack'
<1>1. PICK u : u = Front OBVIOUS
<1>2. PICK t : t = Tail(units) OBVIOUS
<1>3. /\ u \in PhaseUnits /\ Sane(u, turn_player) /\ phase = u.phase
      /\ u.kind = "Phase" /\ Sound(units, phase, turn_player) /\ u = Head(units)
      /\ Fresh(u, returns)
  <2>1. u.kind = "Phase"
    BY <1>1 DEF PhaseStep, PhaseChoices, EffectYesNo, PhaseChosen, PhaseResolved, HandLimit,
           Discard, HandAdjusted, PhaseReset, PhaseOver, At
  <2> QED BY <1>1, <2>1, Pop, Kinds DEF Stack, Suits, Front
<1>4. returns[1] \in Answers /\ turn_player \in Players BY TwoAnswers DEF Types
<1>5. /\ t \in Seq(Units) /\ Sound(t, phase, turn_player) /\ Fits(u, Head(t))
      /\ Head(t).kind # "Relay"
  <2>1. Left(u, phase) = phase BY <1>3 DEF Left, Saves
  <2> QED BY <1>2, <1>3, <2>1, Over
<1>6. ASSUME NEW v \in PhaseUnits, v.phase = u.phase, Sane(v, turn_player)
      PROVE  Sound(<<v>> \o t, phase, turn_player) /\ v \in Units /\ v.kind = "Phase"
  <2>1. v \in Units /\ v.kind = "Phase" BY DEF Units, PhaseUnits
  <2>2. Suits(v, phase) /\ Left(v, phase) = Left(u, phase)
    BY <1>3, <1>6, <2>1 DEF Suits, Left, Saves
  <2> QED BY <1>2, <1>3, <1>6, <2>1, <2>2, GoesOn
<1>7. ASSUME NEW v \in PhaseUnits, v.phase = u.phase, Sane(v, turn_player),
             v.step \notin {1, 2}, NEW batch \in Batches, Stacked(units', batch, v, t),
             phase' = phase, turn_player' = turn_player
      PROVE  Stack'
  <2>1. Sound(<<v>> \o t, phase, turn_player) /\ v \in Units /\ v.kind = "Phase"
    BY <1>6, <1>7
  <2>2. ~Expects(v) /\ v.kind # "Relay" BY <2>1, <1>7 DEF Expects
  <2>3. Settled(batch \o <<v>> \o t, phase, turn_player, returns', recharge')
    BY <1>5, <1>7, <2>1, <2>2, Continued
  <2> QED BY <1>7, <2>3 DEF Stack, Settled, Front, Stacked
<1>8. ASSUME NEW v \in PhaseUnits, v.phase = u.phase, Sane(v, turn_player),
             NEW c \in SUBSET (-1 .. 8), v.step = 1 => c = {0, 1},
             Stacked(units', <<Ask(c)>>, v, t), phase' = phase, turn_player' = turn_player
      PROVE  Stack'
  <2>1. Sound(<<v>> \o t, phase, turn_player) /\ v \in Units /\ v.kind = "Phase"
    BY <1>6, <1>8
  <2>2. Settled(<<Ask(c)>> \o <<v>> \o t, phase, turn_player, returns', recharge')
    BY <1>5, <1>8, <2>1, Questioned
  <2> QED BY <1>8, <2>2 DEF Stack, Settled, Front, Stacked
<1>9. ASSUME NEW v \in PhaseUnits, v.phase = u.phase, Sane(v, turn_player),
             v.step = 2, returns'[1] # Junk, Stacked(units', <<>>, v, t),
             phase' = phase, turn_player' = turn_player
      PROVE  Stack'
  <2>1. Sound(<<v>> \o t, phase, turn_player) /\ v \in Units /\ v.kind = "Phase"
    BY <1>6, <1>9
  <2>2. <<v>> \in Seq(Units) BY <2>1
  <2>3. units' = <<v>> \o t /\ Front' = v
    BY <1>5, <1>9, <2>1, <2>2, ConcatEmptySeq, Topped DEF Front, Stacked
  <2>4. Fresh(v, returns') /\ InPlace(v, recharge') BY <1>9, <2>1 DEF Fresh, InPlace
  <2> QED BY <1>9, <2>1, <2>3, <2>4 DEF Stack
<1>10. \A s : (At("Phase", s) <=> u.step = s) BY <1>1, <1>3 DEF At
<1>11. CASE PhaseChoices
  <2>1. u.step = 0 /\ phase' = phase /\ turn_player' = turn_player
    BY <1>1, <1>11 DEF PhaseChoices, clock, At
  <2>2. \/ Stacked(units', <<>>, Now(u, 25), t)
        \/ /\ Stacked(units', <<>>, Now(u, 2), t)
           /\ \E a \in {Pass, 0} : returns' = [returns EXCEPT ![1] = a]
        \/ Stacked(units', <<Ask({0, 1})>>, Now(u, 1), t)
        \/ \E forced \in BOOLEAN :
             Stacked(units', <<Ask(IF forced THEN {0} ELSE {Pass, 0})>>, Now(u, 2), t)
    BY <1>1, <1>2, <1>11 DEF PhaseChoices, GoOn, GoOnAs, Now, Stacked
  <2>3. \A s \in {25, 2, 1} : /\ Now(u, s) \in PhaseUnits /\ Now(u, s).phase = u.phase
                              /\ Now(u, s).step = s /\ Sane(Now(u, s), turn_player)
    BY <1>3, <2>1, NowPhase
  <2>4. CASE Stacked(units', <<>>, Now(u, 25), t) BY <2>1, <2>3, <2>4, <1>7, Singles
  <2>5. CASE /\ Stacked(units', <<>>, Now(u, 2), t)
             /\ \E a \in {Pass, 0} : returns' = [returns EXCEPT ![1] = a]
    <3>1. returns'[1] # Junk BY <2>5, TwoAnswers DEF Pass, Junk, Answers
    <3> QED BY <3>1, <2>1, <2>3, <2>5, <1>9
  <2>6. CASE Stacked(units', <<Ask({0, 1})>>, Now(u, 1), t)
    <3>1. PICK c : c = {0, 1} OBVIOUS
    <3>2. c \in SUBSET (-1 .. 8) BY <3>1
    <3> QED BY <3>1, <3>2, <2>1, <2>3, <2>6, <1>8
  <2>7. CASE \E forced \in BOOLEAN :
               Stacked(units', <<Ask(IF forced THEN {0} ELSE {Pass, 0})>>, Now(u, 2), t)
    <3>1. PICK c \in SUBSET (-1 .. 8) : Stacked(units', <<Ask(c)>>, Now(u, 2), t)
      BY <2>7 DEF Pass
    <3>2. Now(u, 2).step # 1 BY <2>3
    <3> QED BY <3>1, <3>2, <2>1, <2>3, <1>8
  <2> QED BY <2>2, <2>4, <2>5, <2>6, <2>7
<1>12. CASE EffectYesNo
  <2>1. u.step = 1 /\ phase' = phase /\ turn_player' = turn_player
        /\ Stacked(units', <<>>, Now(u, 2), t)
        /\ returns' = [returns EXCEPT ![1] = returns[1] - 1]
    BY <1>1, <1>2, <1>12 DEF EffectYesNo, clock, At, GoOn, GoOnAs, Now, Stacked
  <2>2. returns[1] \in {0, 1} BY <2>1, <1>3 DEF Fresh
  <2>3. returns[1] - 1 \in Answers /\ returns[1] - 1 # Junk BY <2>2 DEF Answers, Junk
  <2>4. returns'[1] # Junk BY <2>1, <2>3, TwoAnswers
  <2> QED BY SMTT(20), <2>1, <2>4, <1>3, <1>9, NowPhase
<1>13. CASE PhaseChosen
  <2>1. u.step = 2 /\ phase' = phase /\ turn_player' = turn_player
    BY <1>1, <1>13 DEF PhaseChosen, clock, At
  <2>2. CASE Passed
    <3>1. PICK p : p = u.passers \cup {Asked(u, turn_player)} OBVIOUS
    <3>2. p \in SUBSET Players /\ u.is_opponent \in BOOLEAN /\ u.phase \in Events
      BY <1>3, <1>4, <3>1 DEF PhaseUnits, Asked, Opponent, Players
    <3>3. CASE u.priority_passed
      <4>1. PICK v : v = [[u EXCEPT !.passers = @ \cup {Asked(u, turn_player)}] EXCEPT !.step = 20]
        OBVIOUS
      <4>2. Stacked(units', <<>>, v, t)
        BY <1>1, <1>2, <2>2, <3>3, <4>1 DEF Passed, CheckPlayer, Asked, GoOnAs, Stacked
      <4>3. v = [kind |-> "Phase", step |-> 20, phase |-> u.phase,
                 is_opponent |-> u.is_opponent, priority_passed |-> u.priority_passed,
                 passers |-> p]
        BY <1>3, <3>1, <4>1 DEF PhaseUnits
      <4>4. v \in PhaseUnits /\ v.phase = u.phase /\ v.step = 20 /\ v.passers = p
        BY <1>3, <3>2, <4>3 DEF PhaseUnits
      <4>5. p = Players
        <5>1. Opponent(Asked(u, turn_player)) \in u.passers /\ u.passers \subseteq Players
              /\ Asked(u, turn_player) \in Players
          BY <1>3, <1>4, <2>1, <3>3 DEF Sane, PhaseUnits, Asked, Opponent, Players
        <5> QED BY <5>1, <3>1 DEF Players, Opponent
      <4>6. Sane(v, turn_player) BY <4>4, <4>5 DEF Sane, PhaseUnits
      <4> QED BY <4>2, <4>4, <4>6, <2>1, <1>7, Singles
    <3>4. CASE ~u.priority_passed
      <4>1. PICK v : v = [[[u EXCEPT !.passers = @ \cup {Asked(u, turn_player)}]
                             EXCEPT !.priority_passed = TRUE, !.is_opponent = ~@]
                            EXCEPT !.step = 0]
        OBVIOUS
      <4>2. Stacked(units', <<>>, v, t)
        BY <1>1, <1>2, <2>2, <3>4, <4>1 DEF Passed, CheckPlayer, Asked, GoOnAs, Stacked
      <4>3. v = [kind |-> "Phase", step |-> 0, phase |-> u.phase,
                 is_opponent |-> ~u.is_opponent, priority_passed |-> TRUE, passers |-> p]
        BY <1>3, <3>1, <4>1 DEF PhaseUnits
      <4>4. v \in PhaseUnits /\ v.phase = u.phase /\ v.step = 0 /\ v.passers = p
        BY <1>3, <3>2, <4>3 DEF PhaseUnits
      <4>5. v.is_opponent = ~u.is_opponent BY <4>3
      <4>6. Opponent(Asked(v, turn_player)) = Asked(u, turn_player)
        <5>1. CASE u.is_opponent BY <4>5, <5>1, <1>4 DEF Asked, Opponent, Players
        <5>2. CASE ~u.is_opponent
          <6>1. v.is_opponent BY <4>5, <5>2
          <6>2. Asked(v, turn_player) = Opponent(turn_player) /\ Asked(u, turn_player) = turn_player
            BY <5>2, <6>1 DEF Asked
          <6> QED BY <6>2, <1>4 DEF Opponent, Players
        <5> QED BY <5>1, <5>2
      <4>7. Sane(v, turn_player) BY <4>4, <4>6, <3>1 DEF Sane, PhaseUnits
      <4> QED BY <4>2, <4>4, <4>7, <2>1, <1>7, Singles
    <3> QED BY <3>3, <3>4
  <2>3. CASE \E s \in 3 .. 4 : GoOnAs(Acted(Front), s, <<Effects>>)
    <3>1. PICK s \in 3 .. 4 : GoOnAs(Acted(Front), s, <<Effects>>) BY <2>3
    <3>2. PICK v : v = [Acted(u) EXCEPT !.step = s] OBVIOUS
    <3>3. Stacked(units', <<Effects>>, v, t)
      BY <1>1, <1>2, <3>1, <3>2 DEF GoOnAs, Stacked
    <3>4. v = [kind |-> "Phase", step |-> s, phase |-> u.phase,
               is_opponent |-> u.is_opponent, priority_passed |-> FALSE, passers |-> {}]
      BY <1>3, <3>2 DEF PhaseUnits, Acted
    <3>5. v \in PhaseUnits /\ v.phase = u.phase /\ v.step = s
      BY <1>3, <3>4 DEF PhaseUnits
    <3>6. ~v.priority_passed BY <3>4
    <3>7. Sane(v, turn_player) /\ v.step \notin {1, 2}
      BY <3>5, <3>6 DEF Sane, PhaseUnits
    <3> QED BY <3>3, <3>5, <3>7, <2>1, <1>7, Singles
  <2> QED BY <1>13, <2>2, <2>3 DEF PhaseChosen
<1>14. CASE PhaseResolved
  <2>1. u.step \in {3, 4} /\ phase' = phase /\ turn_player' = turn_player
        /\ (\/ Stacked(units', SolveChain, Now(u, 0), t)
            \/ Stacked(units', <<PointEvent>>, Now(u, 0), t))
    BY <1>1, <1>2, <1>14 DEF PhaseResolved, clock, At, GoOn, GoOnAs, Now, Stacked
  <2>2. /\ Now(u, 0) \in PhaseUnits /\ Now(u, 0).phase = u.phase /\ Now(u, 0).step = 0
        /\ Sane(Now(u, 0), turn_player)
    BY <2>1, <1>3, NowPhase
  <2> QED BY <2>1, <2>2, <1>7, Singles
<1>15. CASE HandLimit
  <2>1. u.step = 20 /\ phase' = phase /\ turn_player' = turn_player
        /\ (\/ Stacked(units', <<>>, Now(u, 25), t)
            \/ Stacked(units', <<Ask({0})>>, Now(u, 21), t))
    BY <1>1, <1>2, <1>15 DEF HandLimit, clock, At, GoOn, GoOnAs, Now, Stacked
  <2>2. PICK c : c = {0} OBVIOUS
  <2>3. c \in SUBSET (-1 .. 8) BY <2>2
  <2>4. \A s \in {25, 21} : /\ Now(u, s) \in PhaseUnits /\ Now(u, s).phase = u.phase
                           /\ Now(u, s).step = s /\ Sane(Now(u, s), turn_player)
    BY <1>3, NowPhase
  <2>5. CASE Stacked(units', <<>>, Now(u, 25), t) BY <2>1, <2>4, <2>5, <1>7, Singles
  <2>6. CASE Stacked(units', <<Ask({0})>>, Now(u, 21), t)
    <3>1. Now(u, 21).step # 1 BY <2>4
    <3> QED BY <3>1, <2>1, <2>2, <2>3, <2>4, <2>6, <1>8
  <2> QED BY <2>1, <2>5, <2>6
<1>16. CASE Discard
  <2>1. u.step = 21 /\ phase' = phase /\ turn_player' = turn_player
        /\ Stacked(units', <<Effects>>, Now(u, 22), t)
    BY <1>1, <1>2, <1>16 DEF Discard, clock, At, GoOn, GoOnAs, Now, Stacked
  <2>2. /\ Now(u, 22) \in PhaseUnits /\ Now(u, 22).phase = u.phase /\ Now(u, 22).step = 22
        /\ Sane(Now(u, 22), turn_player)
    BY <1>3, NowPhase
  <2> QED BY <2>1, <2>2, <1>7, Singles
<1>17. CASE HandAdjusted
  <2>1. PICK v : v = [[Acted(u) EXCEPT !.is_opponent = FALSE] EXCEPT !.step = 0] OBVIOUS
  <2>2. phase' = phase /\ turn_player' = turn_player /\ Stacked(units', <<PointEvent>>, v, t)
    BY <1>1, <1>2, <1>17, <2>1 DEF HandAdjusted, clock, GoOnAs, Stacked
  <2>3. v = [kind |-> "Phase", step |-> 0, phase |-> u.phase,
             is_opponent |-> FALSE, priority_passed |-> FALSE, passers |-> {}]
    BY <1>3, <2>1 DEF PhaseUnits, Acted
  <2>4. v \in PhaseUnits /\ v.phase = u.phase /\ v.step = 0 BY <1>3, <2>3 DEF PhaseUnits
  <2>5. ~v.priority_passed BY <2>3
  <2>6. Sane(v, turn_player) BY <2>4, <2>5 DEF Sane, PhaseUnits
  <2> QED BY <2>2, <2>4, <2>6, <1>7, Singles
<1>18. CASE PhaseReset
  <2>1. u.step = 25 /\ phase' = phase /\ turn_player' = turn_player
        /\ Stacked(units', <<Effects>>, Now(u, 26), t)
    BY <1>1, <1>2, <1>18 DEF PhaseReset, clock, At, GoOn, GoOnAs, Now, Stacked
  <2>2. /\ Now(u, 26) \in PhaseUnits /\ Now(u, 26).phase = u.phase /\ Now(u, 26).step = 26
        /\ Sane(Now(u, 26), turn_player)
    BY <1>3, NowPhase
  <2> QED BY <2>1, <2>2, <1>7, Singles
<1>19. CASE PhaseOver
  <2>1. phase' = phase /\ turn_player' = turn_player /\ units' = <<>> \o t
    BY <1>2, <1>19 DEF PhaseOver, Finish, clock
  <2>2. ~Expects(Head(t)) BY <1>3, <1>5 DEF Fits, Serves
  <2>3. Settled(<<>> \o t, phase, turn_player, returns', recharge')
    BY <2>2, <1>5, Finished, Singles
  <2> QED BY <2>1, <2>3 DEF Stack, Settled, Front
<1> QED BY <1>11, <1>12, <1>13, <1>14, <1>15, <1>16, <1>17, <1>18, <1>19 DEF PhaseStep

(* The same for the commands and whatever else is not a turn: a unit goes
   on behind helpers, *)
Keeps(u, v) == v.kind = u.kind /\ (v.kind = "Battle" => v.forced = u.forced)
Goers == {"Phase", "Idle", "Battle", "Forced", "Effects", "Point"}

LEMMA Proceeds ==
  ASSUME Stack, Front.kind \in Goers, NEW v \in Units, Keeps(Front, v),
         Sane(v, turn_player), Suits(v, phase'),
         Left(v, phase') = Left(Front, phase) \/ v.kind = "Battle",
         ~Expects(v), NEW batch \in Batches, Stacked(units', batch, v, Tail(units)),
         turn_player' = turn_player
  PROVE  Stack'
<1>1. PICK u : u = Front OBVIOUS
<1>2. PICK t : t = Tail(units) OBVIOUS
<1>3. PICK ph : ph = phase' OBVIOUS
<1>4. Sound(units, phase, turn_player) /\ u = Head(units) BY <1>1 DEF Stack, Front
<1>5. Sound(<<v>> \o t, ph, turn_player) /\ t \in Seq(Units)
  <2>1. v.kind \in Goers BY DEF Keeps
  <2>2. v.kind \notin {"Turn", "Ask", "Relay"} BY <2>1 DEF Goers
  <2>3. v.kind = Head(units).kind /\ (v.kind = "Battle" => v.forced = Head(units).forced)
        /\ (Left(v, ph) = Left(Head(units), phase) \/ v.kind = "Battle")
    BY <1>3 DEF Keeps, Front
  <2> QED BY <1>2, <1>3, <1>4, <2>2, <2>3, GoesOn
<1>6. v.kind # "Relay" BY DEF Keeps, Goers
<1>7. Settled(batch \o <<v>> \o t, ph, turn_player, returns', recharge')
  BY <1>5, <1>6, Continued
<1> QED BY <1>2, <1>3, <1>7 DEF Stack, Settled, Front, Stacked

(* behind a question, *)
LEMMA Asking ==
  ASSUME Stack, Front.kind \in {"Idle", "Battle"}, NEW v \in Units, Keeps(Front, v),
         Sane(v, turn_player), Suits(v, phase), phase' = phase,
         NEW c \in SUBSET (-1 .. 8), Stacked(units', <<Ask(c)>>, v, Tail(units)),
         turn_player' = turn_player
  PROVE  Stack'
<1>1. PICK t : t = Tail(units) OBVIOUS
<1>2. Sound(units, phase, turn_player) BY DEF Stack
<1>3. v.kind \in {"Idle", "Battle"} /\ v.kind \notin {"Turn", "Ask", "Relay", "Phase", "Forced"}
  BY DEF Keeps
<1>4. Sound(<<v>> \o t, phase, turn_player) /\ t \in Seq(Units)
  <2>1. v.kind = Head(units).kind /\ (v.kind = "Battle" => v.forced = Head(units).forced)
        /\ Left(v, phase) = Left(Head(units), phase)
    BY <1>3 DEF Keeps, Front, Left, Saves
  <2> QED BY <1>1, <1>2, <1>3, <2>1, GoesOn
<1>5. Settled(<<Ask(c)>> \o <<v>> \o t, phase, turn_player, returns', recharge')
  BY <1>3, <1>4, Questioned
<1> QED BY <1>1, <1>5 DEF Stack, Settled, Front, Stacked

(* or at once. *)
LEMMA AtOnce ==
  ASSUME Stack, Front.kind \in {"Idle", "Battle"}, NEW v \in Units, Keeps(Front, v),
         Sane(v, turn_player), Suits(v, phase), phase' = phase,
         returns'[1] # Junk, Stacked(units', <<>>, v, Tail(units)),
         turn_player' = turn_player
  PROVE  Stack'
<1>1. PICK t : t = Tail(units) OBVIOUS
<1>2. Sound(units, phase, turn_player) BY DEF Stack
<1>3. v.kind \in {"Idle", "Battle"} /\ v.kind \notin {"Turn", "Ask", "Relay", "Phase", "Forced"}
  BY DEF Keeps
<1>4. Sound(<<v>> \o t, phase, turn_player) /\ t \in Seq(Units)
  <2>1. v.kind = Head(units).kind /\ (v.kind = "Battle" => v.forced = Head(units).forced)
        /\ Left(v, phase) = Left(Head(units), phase)
    BY <1>3 DEF Keeps, Front, Left, Saves
  <2> QED BY <1>1, <1>2, <1>3, <2>1, GoesOn
<1>5. units' = <<v>> \o t /\ Front' = v
  <2>1. <<v>> \in Seq(Units) OBVIOUS
  <2> QED BY <1>1, <1>4, <2>1, ConcatEmptySeq, Topped DEF Front, Stacked
<1>6. Fresh(v, returns') /\ InPlace(v, recharge') BY <1>3 DEF Fresh, InPlace
<1> QED BY <1>4, <1>5, <1>6 DEF Stack

(* A unit that nothing counts on, or that has left its answer, is over. *)
LEMMA Ends ==
  ASSUME Stack, Front.kind # "Turn", NEW batch \in Batches, units' = batch \o Tail(units),
         phase' = Left(Front, phase), turn_player' = turn_player,
         ~Expects(Head(Tail(units)))
  PROVE  Stack'
<1>1. PICK t : t = Tail(units) OBVIOUS
<1>2. Sound(t, phase', turn_player) /\ Head(t).kind # "Relay"
  BY <1>1, Over DEF Stack, Front
<1>3. PICK ph : ph = phase' OBVIOUS
<1>4. Settled(batch \o t, ph, turn_player, returns', recharge')
  BY <1>1, <1>2, <1>3, Finished
<1> QED BY <1>1, <1>3, <1>4 DEF Stack, Settled, Front

LEMMA Answered ==
  ASSUME Stack, Front.kind # "Turn", units' = <<>> \o Tail(units), ~Saves(Front),
         phase' = phase, turn_player' = turn_player,
         Fresh(Head(Tail(units)), returns'), InPlace(Head(Tail(units)), recharge')
  PROVE  Stack'
<1>1. PICK t : t = Tail(units) OBVIOUS
<1>2. Sound(t, phase, turn_player) /\ t \in Seq(Units)
  BY <1>1, Over DEF Stack, Front, Left
<1>3. units' = t /\ Front' = Head(t) BY <1>1, <1>2, ConcatEmptySeq DEF Front
<1> QED BY <1>1, <1>2, <1>3 DEF Stack

LEMMA NowIdle ==
  ASSUME NEW u \in IdleUnits, NEW s \in 0 .. 12, NEW tp
  PROVE  /\ Now(u, s) \in IdleUnits /\ Now(u, s).step = s
         /\ s \notin {10, 11} \/ (u.step = 10 /\ Sane(u, tp)) => Sane(Now(u, s), tp)
<1>1. PICK v : v = [u EXCEPT !.step = s] OBVIOUS
<1>2. v = [kind |-> "Idle", step |-> s, phase_to_change_to |-> u.phase_to_change_to]
  BY <1>1 DEF IdleUnits
<1>3. u.phase_to_change_to \in Answers /\ u.kind = "Idle" BY DEF IdleUnits
<1>4. v \in IdleUnits /\ v.step = s /\ v.kind = "Idle"
      /\ v.phase_to_change_to = u.phase_to_change_to
  BY <1>2, <1>3 DEF IdleUnits
<1>5. s \notin {10, 11} \/ (u.step = 10 /\ Sane(u, tp)) => Sane(v, tp)
  BY <1>3, <1>4 DEF Sane
<1> QED BY <1>1, <1>4, <1>5 DEF Now

LEMMA IdleStack ==
  ASSUME Types, Stack, IdleStep
  PROVE  Stack'
<1>1. PICK u : u = Front OBVIOUS
<1>2. PICK t : t = Tail(units) OBVIOUS
<1>3. /\ u \in IdleUnits /\ Sane(u, turn_player) /\ phase \in {"MAIN1", "MAIN2"}
      /\ u.kind = "Idle" /\ Sound(units, phase, turn_player) /\ u = Head(units)
      /\ Fresh(u, returns)
  <2>1. u.kind = "Idle"
    BY <1>1 DEF IdleStep, IdleForced, IdleChoices, IdleChosen, IdleResolved, IdleCommanded,
           IdleLeaving, IdleOver, IdleSkipped, At
  <2> QED BY <1>1, <2>1, Pop, Kinds DEF Stack, Suits, Front
<1>4. returns[1] \in Answers BY TwoAnswers
<1>5. ASSUME NEW v \in IdleUnits
      PROVE  /\ v \in Units /\ v.kind = "Idle" /\ Keeps(Front, v) /\ Suits(v, phase)
             /\ Left(v, phase) = Left(Front, phase)
  <2>1. v \in Units /\ v.kind = "Idle" BY DEF Units, IdleUnits
  <2> QED BY <1>1, <1>3, <2>1 DEF Keeps, Suits, Left, Saves
<1>6. ASSUME NEW v \in IdleUnits, Sane(v, turn_player), v.step \notin {1, 12},
             NEW batch \in Batches, Stacked(units', batch, v, t),
             phase' = phase, turn_player' = turn_player
      PROVE  Stack'
  <2>1. ~Expects(v) BY <1>5, <1>6 DEF Expects
  <2>2. Front.kind \in Goers BY <1>1, <1>3 DEF Goers
  <2>3. Suits(v, phase') /\ Left(v, phase') = Left(Front, phase) BY <1>5, <1>6
  <2> QED BY <1>2, <1>5, <1>6, <2>1, <2>2, <2>3, Proceeds
<1>7. ASSUME NEW v \in IdleUnits, Sane(v, turn_player),
             NEW c \in SUBSET (-1 .. 8), Stacked(units', <<Ask(c)>>, v, t),
             phase' = phase, turn_player' = turn_player
      PROVE  Stack'
  BY <1>1, <1>2, <1>3, <1>5, <1>7, Asking
<1>8. \A s : (At("Idle", s) <=> u.step = s) BY <1>1, <1>3 DEF At
<1>9. /\ ToBattle \in Answers /\ ToBattle # Junk /\ ToEnd \in Answers /\ ToEnd # Junk
  BY DEF ToBattle, ToEnd, Junk, Answers
<1>10. ASSUME NEW a \in Answers, a # Junk, NEW s \in 10 .. 11, GoOnAs(Changing(a), s, <<Effects>>),
              phase' = phase, turn_player' = turn_player
       PROVE  Stack'
  <2>1. PICK v : v = [[u EXCEPT !.phase_to_change_to = a] EXCEPT !.step = s] OBVIOUS
  <2>2. Stacked(units', <<Effects>>, v, t)
    BY <1>1, <1>2, <1>10, <2>1 DEF GoOnAs, Changing, Stacked
  <2>3. v = [kind |-> "Idle", step |-> s, phase_to_change_to |-> a]
    BY <1>3, <2>1 DEF IdleUnits
  <2>4. v \in IdleUnits /\ v.step = s /\ v.kind = "Idle" /\ v.phase_to_change_to = a
    BY <2>3 DEF IdleUnits
  <2>5. Sane(v, turn_player) /\ v.step \notin {1, 12} BY <1>10, <2>4 DEF Sane
  <2> QED BY <1>6, <1>10, <2>2, <2>4, <2>5, Singles
<1>11. CASE IdleForced
  <2>1. phase' = phase /\ turn_player' = turn_player
        /\ Stacked(units', <<ForcedBattle>>, Now(u, 0), t)
    BY <1>1, <1>2, <1>11 DEF IdleForced, clock, GoOn, GoOnAs, Now, Stacked
  <2>2. Now(u, 0) \in IdleUnits /\ Now(u, 0).step = 0 /\ Sane(Now(u, 0), turn_player)
    BY <1>3, NowIdle
  <2> QED BY <2>1, <2>2, <1>6, Singles
<1>12. CASE IdleChoices
  <2>1. phase' = phase /\ turn_player' = turn_player BY <1>12 DEF IdleChoices, clock
  <2>2. \/ Stacked(units', <<Ask({0, 1})>>, Now(u, 12), t)
        \/ \E a \in {ToBattle, ToEnd} : GoOnAs(Changing(a), 11, <<Effects>>)
        \/ Stacked(units', <<>>, Now(u, 1), t) /\ returns' = [returns EXCEPT ![1] = ToEnd]
        \/ \E c \in SUBSET (-1 .. 8) : Stacked(units', <<Ask(c)>>, Now(u, 1), t)
    <3>1. PICK to_bp \in BOOLEAN, to_ep \in BOOLEAN :
            \/ /\ CASE to_bp /\ to_ep -> GoOn(12, <<Ask({0, 1})>>) /\ UNCHANGED resets
                    [] to_bp /\ ~to_ep -> Leave(ToBattle)
                    [] OTHER -> Leave(ToEnd)
            \/ /\ returns' = [returns EXCEPT ![1] = ToEnd]
               /\ GoOn(1, <<>>)
            \/ GoOn(1, <<Ask((IF CanAct THEN {0, 5, 8} ELSE {})
                              \cup (IF to_bp THEN {ToBattle} ELSE {})
                              \cup (IF to_ep THEN {ToEnd} ELSE {}))>>)
      BY <1>12 DEF IdleChoices
    <3>2. CASE CASE to_bp /\ to_ep -> GoOn(12, <<Ask({0, 1})>>) /\ UNCHANGED resets
                 [] to_bp /\ ~to_ep -> Leave(ToBattle)
                 [] OTHER -> Leave(ToEnd)
      BY <1>1, <1>2, <3>2 DEF Leave, GoOn, GoOnAs, Now, Stacked
    <3>3. CASE returns' = [returns EXCEPT ![1] = ToEnd] /\ GoOn(1, <<>>)
      BY <1>1, <1>2, <3>3 DEF GoOn, GoOnAs, Now, Stacked
    <3>4. CASE GoOn(1, <<Ask((IF CanAct THEN {0, 5, 8} ELSE {})
                              \cup (IF to_bp THEN {ToBattle} ELSE {})
                              \cup (IF to_ep THEN {ToEnd} ELSE {}))>>)
      <4>1. PICK c : c = (IF CanAct THEN {0, 5, 8} ELSE {})
                              \cup (IF to_bp THEN {ToBattle} ELSE {})
                              \cup (IF to_ep THEN {ToEnd} ELSE {})
        OBVIOUS
      <4>2. c \in SUBSET (-1 .. 8) BY <4>1 DEF ToBattle, ToEnd
      <4>3. Stacked(units', <<Ask(c)>>, Now(u, 1), t)
        BY <1>1, <1>2, <3>4, <4>1 DEF GoOn, GoOnAs, Now, Stacked
      <4> QED BY <4>2, <4>3
    <3> QED BY <3>1, <3>2, <3>3, <3>4
  <2>3. \A s \in {12, 1} : Now(u, s) \in IdleUnits /\ Now(u, s).step = s /\ Sane(Now(u, s), turn_player)
    BY <1>3, NowIdle
  <2>4. CASE Stacked(units', <<Ask({0, 1})>>, Now(u, 12), t)
    <3>1. PICK c : c = {0, 1} OBVIOUS
    <3>2. c \in SUBSET (-1 .. 8) BY <3>1
    <3> QED BY <3>1, <3>2, <2>1, <2>3, <2>4, <1>7
  <2>5. CASE \E a \in {ToBattle, ToEnd} : GoOnAs(Changing(a), 11, <<Effects>>)
    BY <2>1, <2>5, <1>9, <1>10
  <2>6. CASE Stacked(units', <<>>, Now(u, 1), t) /\ returns' = [returns EXCEPT ![1] = ToEnd]
    <3>1. returns'[1] # Junk BY <2>6, <1>9, TwoAnswers
    <3>2. Now(u, 1) \in IdleUnits /\ Sane(Now(u, 1), turn_player) BY <2>3
    <3> QED BY <3>1, <3>2, <2>1, <2>6, <1>1, <1>2, <1>3, <1>5, AtOnce
  <2>7. CASE \E c \in SUBSET (-1 .. 8) : Stacked(units', <<Ask(c)>>, Now(u, 1), t)
    BY <2>1, <2>3, <2>7, <1>7
  <2> QED BY <2>2, <2>4, <2>5, <2>6, <2>7
<1>13. CASE IdleChosen
  <2>1. u.step = 1 /\ phase' = phase /\ turn_player' = turn_player
    BY <1>1, <1>13 DEF IdleChosen, clock, At
  <2>2. \/ \E s \in 2 .. 3 : Stacked(units', <<Effects>>, Now(u, s), t)
        \/ Stacked(units', <<>>, Now(u, 5), t)
        \/ Stacked(units', <<>>, Now(u, 0), t)
        \/ GoOnAs(Changing(returns[1]), 10, <<Effects>>)
    BY <1>1, <1>2, <1>13 DEF IdleChosen, GoOn, GoOnAs, Now, Stacked
  <2>3. \A s \in (2 .. 3) \cup {5, 0} :
          /\ Now(u, s) \in IdleUnits /\ Now(u, s).step = s /\ s \notin {1, 12}
          /\ Sane(Now(u, s), turn_player)
    BY <1>3, NowIdle
  <2>4. returns[1] # Junk BY <2>1, <1>3 DEF Fresh, Expects
  <2>5. CASE GoOnAs(Changing(returns[1]), 10, <<Effects>>)
    BY <2>1, <2>4, <2>5, <1>4, <1>10
  <2> QED BY <2>1, <2>2, <2>3, <2>5, <1>6, Singles
<1>14. CASE IdleResolved
  <2>1. phase' = phase /\ turn_player' = turn_player
        /\ (\/ Stacked(units', SolveChain, Now(u, 0), t)
            \/ Stacked(units', <<PointEvent>>, Now(u, 0), t))
    BY <1>1, <1>2, <1>14 DEF IdleResolved, clock, At, GoOn, GoOnAs, Now, Stacked
  <2>2. Now(u, 0) \in IdleUnits /\ Now(u, 0).step = 0 /\ Sane(Now(u, 0), turn_player)
    BY <1>3, NowIdle
  <2> QED BY <2>1, <2>2, <1>6, Singles
<1>15. CASE IdleCommanded
  <2>1. phase' = phase /\ turn_player' = turn_player
        /\ Stacked(units', SolveChain, Now(u, 0), t)
    BY <1>1, <1>2, <1>15 DEF IdleCommanded, clock, At, GoOn, GoOnAs, Now, Stacked
  <2>2. Now(u, 0) \in IdleUnits /\ Now(u, 0).step = 0 /\ Sane(Now(u, 0), turn_player)
    BY <1>3, NowIdle
  <2> QED BY <2>1, <2>2, <1>6, Singles
<1>16. CASE IdleLeaving
  <2>1. u.step = 10 /\ phase' = phase /\ turn_player' = turn_player
        /\ (\/ Stacked(units', SolveChain, Now(u, 0), t)
            \/ Stacked(units', <<Effects>>, Now(u, 11), t))
    BY <1>1, <1>2, <1>16 DEF IdleLeaving, clock, At, GoOn, GoOnAs, Now, Stacked
  <2>2. \A s \in {0, 11} : Now(u, s) \in IdleUnits /\ Now(u, s).step = s /\ Sane(Now(u, s), turn_player)
    BY <1>3, <2>1, NowIdle
  <2> QED BY <2>1, <2>2, <1>6, Singles
<1>17. CASE IdleOver
  <2>1. /\ u.step = 11 /\ phase' = phase /\ turn_player' = turn_player
        /\ recharge' = recharge /\ units' = <<>> \o t
        /\ returns' = [returns EXCEPT ![1] = u.phase_to_change_to]
    BY <1>1, <1>2, <1>17 DEF IdleOver, clock, team, At, Finish
  <2>2. returns'[1] # Junk
    <3>1. u.phase_to_change_to \in Answers /\ u.phase_to_change_to # Junk
      BY <2>1, <1>3 DEF IdleUnits, Sane
    <3> QED BY <3>1, <2>1, TwoAnswers
  <2>3. Fits(u, Head(t)) BY <1>2, <1>3, Over
  <2>4. Head(t).kind = "Turn" /\ Head(t).step \in {10, 16} BY <2>3, <1>3 DEF Fits
  <2>5. Fresh(Head(t), returns') /\ InPlace(Head(t), recharge')
    BY <2>2, <2>4 DEF Fresh, InPlace
  <2>6. ~Saves(Front) /\ Front.kind # "Turn" BY <1>1, <1>3 DEF Saves
  <2> QED BY <2>1, <2>5, <2>6, <1>2, Answered
<1>18. CASE IdleSkipped
  <2>1. phase' = phase /\ turn_player' = turn_player
        /\ \E a \in {ToBattle, ToEnd} : GoOnAs(Changing(a), 11, <<Effects>>)
    BY <1>18 DEF IdleSkipped, clock, Leave
  <2> QED BY <2>1, <1>9, <1>10
<1> QED BY <1>11, <1>12, <1>13, <1>14, <1>15, <1>16, <1>17, <1>18 DEF IdleStep

(* A PhaseEvent is put on a unit in its own phase. *)
LEMMA Phased ==
  ASSUME NEW v \in Units, NEW t \in Seq(Units), NEW ph \in Events, NEW tp,
         Sound(<<v>> \o t, ph, tp), ~Expects(v), v.kind # "Relay", NEW answer, NEW waiting
  PROVE  /\ \A batch \in Batches :
              Settled((batch \o <<PhaseEvent(ph)>>) \o <<v>> \o t, ph, tp, answer, waiting)
         /\ Settled(<<Effects, PhaseEvent(ph)>> \o <<v>> \o t, ph, tp, answer, waiting)
         /\ Settled(<<PhaseEvent(ph), Effects>> \o <<v>> \o t, ph, tp, answer, waiting)
<1>1. PICK e : e = PhaseEvent(ph) OBVIOUS
<1>2. e = [kind |-> "Phase", step |-> 0, phase |-> ph, is_opponent |-> FALSE,
           priority_passed |-> FALSE, passers |-> {}]
  BY <1>1 DEF PhaseEvent
<1>3. /\ e \in PhaseUnits /\ e.kind = "Phase" /\ e.step = 0 /\ e.phase = ph
      /\ ~e.priority_passed
  BY <1>2 DEF PhaseUnits
<1>4. e \in Units /\ Sane(e, tp) /\ Suits(e, ph) /\ Left(e, ph) = ph /\ ~Expects(e)
      /\ e.kind # "Relay"
  BY <1>3 DEF Units, Sane, Suits, Left, Saves, Expects
<1>5. ASSUME NEW us, Sound(us, ph, tp), ~Expects(Head(us)), Head(us).kind # "Relay"
      PROVE  Sound(<<e>> \o us, ph, tp) /\ Head(<<e>> \o us) = e
  <2>1. Fits(e, Head(us)) BY <1>3, <1>5 DEF Fits
  <2> QED BY <1>4, <1>5, <2>1, Push
<1>6. Head(<<v>> \o t) = v /\ <<v>> \o t \in Seq(Units) /\ <<v>> \in Seq(Units)
  <2>1. <<v>> \in Seq(Units) OBVIOUS
  <2> QED BY <2>1, Topped
<1>7. Sound(<<e>> \o (<<v>> \o t), ph, tp) /\ Head(<<e>> \o (<<v>> \o t)) = e
  BY <1>5, <1>6
<1>8. <<e>> \in Seq(Units) /\ Effects \in Units
  <2>1. e \in Units BY <1>4
  <2> QED BY <2>1, Helpers DEF Helper
<1>9. <<e>> \o (<<v>> \o t) \in Seq(Units) BY <1>6, <1>8, ConcatProperties
<1>10. ASSUME NEW batch \in Batches
       PROVE  Settled((batch \o <<e>>) \o <<v>> \o t, ph, tp, answer, waiting)
  <2>1. Settled(batch \o (<<e>> \o (<<v>> \o t)), ph, tp, answer, waiting)
    BY <1>4, <1>7, Finished
  <2>2. batch \in Seq(Units) BY BatchesAreSeqs
  <2>3. batch \o <<e>> \in Seq(Units) BY <2>2, <1>8, ConcatProperties
  <2>4. (batch \o <<e>>) \o <<v>> \o t = (batch \o <<e>>) \o (<<v>> \o t)
    BY <2>3, <1>6, ConcatAssociative
  <2>5. (batch \o <<e>>) \o (<<v>> \o t) = batch \o (<<e>> \o (<<v>> \o t))
    BY <2>2, <1>6, <1>8, ConcatAssociative
  <2> QED BY <2>1, <2>4, <2>5
<1>11. Settled(<<Effects, e>> \o <<v>> \o t, ph, tp, answer, waiting)
  <2>1. <<Effects, e>> = <<Effects>> \o <<e>>
    <3>1. PICK h : h = Effects OBVIOUS
    <3>2. h \in Units BY <3>1, <1>8
    <3>3. <<h, e>> \o <<>> = <<h>> \o (<<e>> \o <<>>) BY <3>2, <1>4, TwoTopped
    <3>4. <<h, e>> \in Seq(Units) BY <3>2, <1>4
    <3>5. <<h, e>> \o <<>> = <<h, e>> /\ <<e>> \o <<>> = <<e>>
      BY <3>4, <1>8, ConcatEmptySeq
    <3> QED BY <3>1, <3>3, <3>5
  <2> QED BY <2>1, <1>10, Singles
<1>12. Settled(<<e, Effects>> \o <<v>> \o t, ph, tp, answer, waiting)
  <2>1. PICK h : h = Effects OBVIOUS
  <2>2. Helper(h) /\ h \in Units /\ h.kind # "Relay" BY <2>1, Helpers DEF Helper
  <2>3. PICK us : us = <<h>> \o (<<v>> \o t) OBVIOUS
  <2>4. Sound(us, ph, tp) /\ Head(us) = h /\ ~Expects(h) BY <2>2, <2>3, <1>6, Helped
  <2>5. Sound(<<e>> \o us, ph, tp) /\ Head(<<e>> \o us) = e BY <2>2, <2>4, <1>5
  <2>6. Settled(<<e>> \o us, ph, tp, answer, waiting) BY <2>5, <1>4, Calmly
  <2>7. <<e, h>> \in Seq(Units) BY <2>2, <1>4
  <2>8. <<e, h>> \o <<v>> \o t = <<e, h>> \o (<<v>> \o t)
    BY <2>7, <1>6, ConcatAssociative
  <2>9. <<e, h>> \o (<<v>> \o t) = <<e>> \o us
    <3>1. PICK w : w = <<v>> \o t OBVIOUS
    <3>2. w \in Seq(Units) /\ e \in Units /\ h \in Units BY <3>1, <2>2, <1>4, <1>6
    <3>3. <<e, h>> \o w = <<e>> \o (<<h>> \o w) BY <3>2, TwoTopped
    <3> QED BY <3>1, <3>3, <2>3
  <2> QED BY <2>1, <2>6, <2>8, <2>9
<1> QED BY <1>1, <1>10, <1>11, <1>12

LEMMA ProceedsInPhase ==
  ASSUME Stack, Front.kind = "Battle", NEW v \in Units, Keeps(Front, v),
         Sane(v, turn_player), v.step > 40, v.step # 43, NEW ph \in Events, phase' = ph,
         \/ Stacked(units', <<Effects, PhaseEvent(ph)>>, v, Tail(units))
         \/ Stacked(units', <<PhaseEvent(ph), Effects>>, v, Tail(units)),
         v \in BattleUnits, turn_player' = turn_player
  PROVE  Stack'
<1>1. PICK t : t = Tail(units) OBVIOUS
<1>2. v.kind = "Battle" /\ v.kind = Head(units).kind /\ v.forced = Head(units).forced
  BY DEF Keeps, Front
<1>3. Suits(v, ph) /\ ~Expects(v) BY <1>2 DEF Suits, Expects, BattleUnits
<1>4. Sound(<<v>> \o t, ph, turn_player) /\ t \in Seq(Units)
  BY <1>1, <1>2, <1>3, GoesOn DEF Stack
<1>5. /\ Settled(<<Effects, PhaseEvent(ph)>> \o <<v>> \o t, ph, turn_player, returns', recharge')
      /\ Settled(<<PhaseEvent(ph), Effects>> \o <<v>> \o t, ph, turn_player, returns', recharge')
  BY <1>2, <1>3, <1>4, Phased
<1> QED BY <1>1, <1>5 DEF Stack, Settled, Front, Stacked

LEMMA BattleStack ==
  ASSUME Types, Stack, BattleCommandStep
  PROVE  Stack'
<1>1. PICK u : u = Front OBVIOUS
<1>2. PICK t : t = Tail(units) OBVIOUS
<1>3. /\ u \in BattleUnits /\ Sane(u, turn_player) /\ Suits(u, phase)
      /\ u.kind = "Battle" /\ Sound(units, phase, turn_player) /\ u = Head(units)
      /\ Fresh(u, returns)
  <2>1. u.kind = "Battle"
    BY <1>1 DEF BattleCommandStep, BattleSkipped, BattleChoices, BattleChosen, BattleResolved,
           AttackFails, AttackHits, DamageStepEnds, BattleLeaving, BattleEnds, BattleOver, At
  <2> QED BY <1>1, <2>1, Pop, Kinds DEF Stack, Front
<1>4. returns[1] \in Answers BY TwoAnswers
<1>5. /\ u.phase_to_change_to \in Answers /\ u.repeat \in BOOLEAN /\ u.optional \in BOOLEAN
      /\ u.forced \in BOOLEAN /\ u.done \in BOOLEAN /\ u.step \in 0 .. 43
      /\ u.done => u.forced
      /\ u.step >= 40 /\ ~u.forced => u.phase_to_change_to # Junk
      /\ u.step <= 40 => phase = IF u.step = 39 THEN "DAMAGE" ELSE "BATTLE_STEP"
  BY <1>3 DEF BattleUnits, Sane, Suits
<1>6. ASSUME NEW v \in BattleUnits, v.forced = u.forced, v.done => u.forced,
             v.step >= 40 /\ ~u.forced => v.phase_to_change_to # Junk
      PROVE  v \in Units /\ v.kind = "Battle" /\ Keeps(Front, v) /\ Sane(v, turn_player)
  <2>1. v.kind = "Battle" BY DEF BattleUnits
  <2>2. v \in Units BY DEF Units
  <2>3. Keeps(Front, v) BY <1>1, <1>3, <1>6, <2>1 DEF Keeps
  <2>4. Sane(v, turn_player) BY <1>6, <2>1 DEF Sane
  <2> QED BY <2>1, <2>2, <2>3, <2>4
<1>7. ASSUME NEW s \in 0 .. 43, s >= 40 => u.step >= 40
      PROVE  /\ Now(u, s) \in Units /\ Now(u, s).kind = "Battle" /\ Keeps(Front, Now(u, s))
             /\ Sane(Now(u, s), turn_player) /\ Now(u, s).step = s /\ Now(u, s).done = u.done
             /\ Now(u, s) \in BattleUnits
  <2>1. PICK v : v = [u EXCEPT !.step = s] OBVIOUS
  <2>2. v = [kind |-> "Battle", step |-> s, phase_to_change_to |-> u.phase_to_change_to,
             repeat |-> u.repeat, optional |-> u.optional, forced |-> u.forced,
             done |-> u.done]
    BY <1>3, <2>1 DEF BattleUnits
  <2>3. s >= 40 /\ ~u.forced => u.phase_to_change_to # Junk BY <1>5, <1>7
  <2>4. v \in BattleUnits BY <1>5, <2>2 DEF BattleUnits
  <2>5. v.step = s /\ v.done = u.done /\ v.forced = u.forced
        /\ v.phase_to_change_to = u.phase_to_change_to
    BY <2>2
  <2>6. v \in Units /\ v.kind = "Battle" /\ Keeps(Front, v) /\ Sane(v, turn_player)
    BY <1>5, <1>6, <2>3, <2>4, <2>5
  <2> QED BY <2>1, <2>4, <2>5, <2>6 DEF Now
<1>8. ASSUME NEW v \in Units, v.kind = "Battle", Keeps(Front, v), Sane(v, turn_player),
             v.step # 43, v.step = 1 => v.done,
             v.step <= 40 => phase' = IF v.step = 39 THEN "DAMAGE" ELSE "BATTLE_STEP",
             NEW batch \in Batches, Stacked(units', batch, v, t), turn_player' = turn_player
      PROVE  Stack'
  <2>1. ~Expects(v) /\ Suits(v, phase') BY <1>8 DEF Expects, Suits
  <2>2. Front.kind \in Goers BY <1>1, <1>3 DEF Goers
  <2> QED BY <1>2, <1>8, <2>1, <2>2, Proceeds
<1>9. \A s : (At("Battle", s) <=> u.step = s) BY <1>1, <1>3 DEF At
<1>10. CASE BattleSkipped
  <2>1. u.step = 0 /\ turn_player' = turn_player BY <1>9, <1>10 DEF BattleSkipped, clock
  <2>2. PICK b \in BOOLEAN :
          \/ phase' = "BATTLE"
             /\ Stacked(units', <<Effects, PhaseEvent("BATTLE")>>,
                        [[u EXCEPT !.phase_to_change_to = 2, !.repeat = b] EXCEPT !.step = 42], t)
          \/ phase' = phase
             /\ Stacked(units', <<Effects>>,
                        [[u EXCEPT !.phase_to_change_to = 2, !.repeat = b] EXCEPT !.step = 42], t)
    BY <1>1, <1>2, <1>10 DEF BattleSkipped, GoOnAs, Stacked
  <2>3. PICK v : v = [[u EXCEPT !.phase_to_change_to = 2, !.repeat = b] EXCEPT !.step = 42]
    OBVIOUS
  <2>4. v = [kind |-> "Battle", step |-> 42, phase_to_change_to |-> 2, repeat |-> b,
             optional |-> u.optional, forced |-> u.forced, done |-> u.done]
    BY <1>3, <2>3 DEF BattleUnits
  <2>5. 2 \in Answers /\ 2 # Junk BY DEF Answers, Junk
  <2>6. /\ v \in BattleUnits /\ v \in Units /\ v.kind = "Battle" /\ Keeps(Front, v)
        /\ Sane(v, turn_player) /\ v.step = 42
    <3>1. v \in BattleUnits BY <1>5, <2>4, <2>5 DEF BattleUnits
    <3>2. v.step = 42 /\ v.done = u.done /\ v.forced = u.forced /\ v.phase_to_change_to = 2
      BY <2>4
    <3> QED BY <1>5, <1>6, <2>5, <3>1, <3>2
  <2>7. CASE phase' = "BATTLE" /\ Stacked(units', <<Effects, PhaseEvent("BATTLE")>>, v, t)
    <3>1. "BATTLE" \in Events /\ v.step > 40 /\ v.step # 43 BY <2>6 DEF Events
    <3> QED BY <1>1, <1>2, <1>3, <2>1, <2>6, <2>7, <3>1, ProceedsInPhase
  <2>8. CASE phase' = phase /\ Stacked(units', <<Effects>>, v, t)
    <3>1. v.step # 43 /\ v.step # 1 /\ ~(v.step <= 40) BY <2>6
    <3> QED BY <1>8, <2>1, <2>6, <2>8, <3>1, Singles
  <2> QED BY <2>2, <2>3, <2>7, <2>8
<1>11. CASE BattleChoices
  <2>1. u.step = 0 /\ turn_player' = turn_player /\ phase' = phase
    BY <1>9, <1>11 DEF BattleChoices, clock
  <2>2. PICK m \in BOOLEAN, to_m2 \in BOOLEAN :
          GoOn(1, <<Ask((IF CanAct THEN {0, 1} ELSE {})
                           \cup (IF to_m2 THEN {2} ELSE {})
                           \cup (IF m THEN {} ELSE {3}))>>)
    BY <1>11 DEF BattleChoices
  <2>3. PICK c : c = (IF CanAct THEN {0, 1} ELSE {})
                           \cup (IF to_m2 THEN {2} ELSE {})
                           \cup (IF m THEN {} ELSE {3})
    OBVIOUS
  <2>4. c \in SUBSET (-1 .. 8) BY <2>3
  <2>5. Stacked(units', <<Ask(c)>>, Now(u, 1), t)
    BY <1>1, <1>2, <2>2, <2>3 DEF GoOn, GoOnAs, Now, Stacked
  <2>6. /\ Now(u, 1) \in Units /\ Now(u, 1).kind = "Battle" /\ Keeps(Front, Now(u, 1))
        /\ Sane(Now(u, 1), turn_player) /\ Now(u, 1).step = 1
    BY <1>7
  <2>7. Suits(Now(u, 1), phase) BY <1>5, <2>1, <2>6 DEF Suits
  <2> QED BY <1>1, <1>2, <1>3, <2>1, <2>4, <2>5, <2>6, <2>7, Asking
<1>12. CASE BattleChosen
  <2>1. u.step = 1 /\ turn_player' = turn_player /\ phase' = phase
    BY <1>9, <1>12 DEF BattleChosen, clock
  <2>2. \/ /\ u.done \/ returns[1] \notin {0, 1}
           /\ GoOnAs(Changing(returns[1]), 40, <<Effects>>)
        \/ Stacked(units', <<Effects>>, Now(u, 2), t)
        \/ Stacked(units', <<Effects>>, Now(u, 15), t)
        \/ Stacked(units', SolveChain, Now(u, 3), t)
    BY <1>1, <1>2, <1>12 DEF BattleChosen, GoOn, GoOnAs, Now, Stacked
  <2>3. phase = "BATTLE_STEP" BY <1>5, <2>1
  <2>4. CASE GoOnAs(Changing(returns[1]), 40, <<Effects>>)
    <3>1. PICK v : v = [[u EXCEPT !.phase_to_change_to = returns[1]] EXCEPT !.step = 40]
      OBVIOUS
    <3>2. Stacked(units', <<Effects>>, v, t)
      BY <1>1, <1>2, <2>4, <3>1 DEF GoOnAs, Changing, Stacked
    <3>3. PICK a : a = returns[1] OBVIOUS
    <3>4. v = [kind |-> "Battle", step |-> 40, phase_to_change_to |-> a, repeat |-> u.repeat,
               optional |-> u.optional, forced |-> u.forced, done |-> u.done]
      BY <1>3, <3>1, <3>3 DEF BattleUnits
    <3>5. a \in Answers /\ (~u.forced => a # Junk)
      BY <1>3, <1>4, <1>5, <2>1, <3>3 DEF Fresh, Expects
    <3>6. /\ v \in BattleUnits /\ v \in Units /\ v.kind = "Battle" /\ Keeps(Front, v)
          /\ Sane(v, turn_player) /\ v.step = 40
      <4>1. v \in BattleUnits BY <1>5, <3>4, <3>5 DEF BattleUnits
      <4>2. v.step = 40 /\ v.done = u.done /\ v.forced = u.forced /\ v.phase_to_change_to = a
        BY <3>4
      <4> QED BY <1>5, <1>6, <3>5, <4>1, <4>2
    <3>7. v.step # 43 /\ v.step # 1 /\ v.step # 39 BY <3>6
    <3> QED BY <1>8, <2>1, <2>3, <3>2, <3>6, <3>7, Singles
  <2>5. \A s \in {2, 15, 3} :
          /\ Now(u, s) \in Units /\ Now(u, s).kind = "Battle" /\ Keeps(Front, Now(u, s))
          /\ Sane(Now(u, s), turn_player) /\ Now(u, s).step = s /\ s \notin {1, 39, 43}
    BY <1>7
  <2> QED BY <2>1, <2>2, <2>3, <2>4, <2>5, <1>8, Singles
<1>13. CASE BattleResolved
  <2>1. u.step \in {2, 15} /\ turn_player' = turn_player /\ phase' = phase
        /\ \E batch \in Batches : Stacked(units', batch, Now(u, 0), t)
    BY <1>1, <1>2, <1>9, <1>13, Singles
       DEF BattleResolved, clock, GoOn, GoOnAs, Now, Stacked
  <2>2. phase = "BATTLE_STEP" BY <1>5, <2>1
  <2>3. /\ Now(u, 0) \in Units /\ Now(u, 0).kind = "Battle" /\ Keeps(Front, Now(u, 0))
        /\ Sane(Now(u, 0), turn_player) /\ Now(u, 0).step = 0
    BY <1>7
  <2> QED BY <2>1, <2>2, <2>3, <1>8
<1>14. CASE AttackFails
  <2>1. u.step = 3 /\ turn_player' = turn_player /\ phase' = phase
        /\ (\/ /\ returns' = [returns EXCEPT ![1] = 2]
               /\ Stacked(units', <<>>, Now(u, 1), t)
            \/ Stacked(units', <<>>, Now(u, 0), t))
    BY <1>1, <1>2, <1>9, <1>14 DEF AttackFails, clock, GoOn, GoOnAs, Now, Stacked
  <2>2. phase = "BATTLE_STEP" BY <1>5, <2>1
  <2>3. \A s \in {0, 1} :
          /\ Now(u, s) \in Units /\ Now(u, s).kind = "Battle" /\ Keeps(Front, Now(u, s))
          /\ Sane(Now(u, s), turn_player) /\ Now(u, s).step = s
    BY <1>7
  <2>4. CASE /\ returns' = [returns EXCEPT ![1] = 2]
             /\ Stacked(units', <<>>, Now(u, 1), t)
    <3>1. returns'[1] # Junk
      <4>1. 2 \in Answers /\ 2 # Junk BY DEF Answers, Junk
      <4> QED BY <4>1, <2>4, TwoAnswers
    <3>2. Suits(Now(u, 1), phase) BY <2>2, <2>3 DEF Suits
    <3> QED BY <1>1, <1>2, <1>3, <2>1, <2>3, <2>4, <3>1, <3>2, AtOnce
  <2>5. CASE Stacked(units', <<>>, Now(u, 0), t)
    BY <2>1, <2>2, <2>3, <2>5, <1>8, Singles
  <2> QED BY <2>1, <2>4, <2>5
<1>15. CASE AttackHits
  <2>1. turn_player' = turn_player /\ phase' = "DAMAGE"
        /\ Stacked(units', SolveChain, Now(u, 39), t)
    BY <1>1, <1>2, <1>9, <1>15 DEF AttackHits, clock, GoOn, GoOnAs, Now, Stacked
  <2>2. /\ Now(u, 39) \in Units /\ Now(u, 39).kind = "Battle" /\ Keeps(Front, Now(u, 39))
        /\ Sane(Now(u, 39), turn_player) /\ Now(u, 39).step = 39
    BY <1>7
  <2>3. Now(u, 39).step # 43 /\ Now(u, 39).step # 1 BY <2>2
  <2> QED BY <2>1, <2>2, <2>3, <1>8, Singles
<1>16. CASE DamageStepEnds
  <2>1. turn_player' = turn_player /\ phase' = "BATTLE_STEP"
        /\ (\/ u.forced /\ Stacked(units', <<Effects>>, [[u EXCEPT !.done = TRUE] EXCEPT !.step = 1], t)
            \/ Stacked(units', <<Effects>>, Now(u, 0), t))
    BY <1>1, <1>2, <1>16 DEF DamageStepEnds, clock, GoOn, GoOnAs, Now, Stacked
  <2>2. CASE u.forced /\ Stacked(units', <<Effects>>, [[u EXCEPT !.done = TRUE] EXCEPT !.step = 1], t)
    <3>1. PICK v : v = [[u EXCEPT !.done = TRUE] EXCEPT !.step = 1] OBVIOUS
    <3>2. v = [kind |-> "Battle", step |-> 1, phase_to_change_to |-> u.phase_to_change_to,
               repeat |-> u.repeat, optional |-> u.optional, forced |-> u.forced,
               done |-> TRUE]
      BY <1>3, <3>1 DEF BattleUnits
    <3>3. /\ v \in BattleUnits /\ v \in Units /\ v.kind = "Battle" /\ Keeps(Front, v)
          /\ Sane(v, turn_player) /\ v.step = 1 /\ v.done
      <4>1. v \in BattleUnits BY <1>5, <3>2 DEF BattleUnits
      <4>2. v.step = 1 /\ v.done /\ v.forced = u.forced BY <3>2
      <4> QED BY <1>6, <2>2, <4>1, <4>2
    <3>4. v.step # 43 /\ v.step # 39 /\ Stacked(units', <<Effects>>, v, t)
      BY <2>2, <3>1, <3>3
    <3> QED BY <1>8, <2>1, <3>3, <3>4, Singles
  <2>3. CASE Stacked(units', <<Effects>>, Now(u, 0), t)
    <3>1. /\ Now(u, 0) \in Units /\ Now(u, 0).kind = "Battle" /\ Keeps(Front, Now(u, 0))
          /\ Sane(Now(u, 0), turn_player) /\ Now(u, 0).step = 0
      BY <1>7
    <3> QED BY <1>8, <2>1, <2>3, <3>1, Singles
  <2> QED BY <2>1, <2>2, <2>3
<1>17. CASE BattleLeaving
  <2>1. u.step = 40 /\ turn_player' = turn_player /\ phase' = phase
        /\ (\/ Stacked(units', SolveChain, Now(u, 41), t)
            \/ Stacked(units', SolveChain, Now(u, 0), t)
            \/ Stacked(units', <<Effects>>, Now(u, 41), t))
    BY <1>1, <1>2, <1>9, <1>17 DEF BattleLeaving, clock, GoOn, GoOnAs, Now, Stacked
  <2>2. phase = "BATTLE_STEP" BY <1>5, <2>1
  <2>3. \A s \in {41, 0} :
          /\ Now(u, s) \in Units /\ Now(u, s).kind = "Battle" /\ Keeps(Front, Now(u, s))
          /\ Sane(Now(u, s), turn_player) /\ Now(u, s).step = s /\ s \notin {1, 39, 43}
    BY <1>7, <2>1
  <2> QED BY <2>1, <2>2, <2>3, <1>8, Singles
<1>18. CASE BattleEnds
  <2>1. u.step = 41 /\ turn_player' = turn_player /\ phase' = "BATTLE"
    BY <1>9, <1>18 DEF BattleEnds, clock
  <2>2. PICK b \in BOOLEAN, o \in BOOLEAN :
          Stacked(units', <<PhaseEvent("BATTLE"), Effects>>,
                  [[u EXCEPT !.repeat = b, !.optional = o] EXCEPT !.step = 42], t)
    BY <1>1, <1>2, <1>18 DEF BattleEnds, GoOnAs, Stacked
  <2>3. PICK v : v = [[u EXCEPT !.repeat = b, !.optional = o] EXCEPT !.step = 42]
    OBVIOUS
  <2>4. v = [kind |-> "Battle", step |-> 42, phase_to_change_to |-> u.phase_to_change_to,
             repeat |-> b, optional |-> o, forced |-> u.forced, done |-> u.done]
    BY <1>3, <2>3 DEF BattleUnits
  <2>5. ~u.forced => u.phase_to_change_to # Junk BY <1>5, <2>1
  <2>6. /\ v \in BattleUnits /\ v \in Units /\ v.kind = "Battle" /\ Keeps(Front, v)
        /\ Sane(v, turn_player) /\ v.step = 42
    <3>1. v \in BattleUnits BY <1>5, <2>4 DEF BattleUnits
    <3>2. /\ v.step = 42 /\ v.done = u.done /\ v.forced = u.forced
          /\ v.phase_to_change_to = u.phase_to_change_to
      BY <2>4
    <3> QED BY <1>5, <1>6, <2>5, <3>1, <3>2
  <2>7. "BATTLE" \in Events /\ v.step > 40 /\ v.step # 43 BY <2>6 DEF Events
  <2> QED BY <1>1, <1>2, <1>3, <2>1, <2>2, <2>3, <2>6, <2>7, ProceedsInPhase
<1>19. CASE BattleOver
  <2>1. /\ u.step \in {42, 43} /\ turn_player' = turn_player /\ phase' = phase
        /\ recharge' = recharge
    BY <1>9, <1>19 DEF BattleOver, clock, team
  <2>2. \/ u.step = 42 /\ Stacked(units', <<Ask({0, 1})>>, Now(u, 43), t)
        \/ \E b \in {0, 1} \cup (IF u.step = 43 THEN {returns[1]} ELSE {}) :
             returns' = <<u.phase_to_change_to, b>> /\ units' = <<>> \o t
    BY <1>1, <1>2, <1>9, <1>19
       DEF BattleOver, BothAnswers, GoOn, GoOnAs, Finish, Now, Stacked
  <2>3. CASE u.step = 42 /\ Stacked(units', <<Ask({0, 1})>>, Now(u, 43), t)
    <3>1. /\ Now(u, 43) \in Units /\ Now(u, 43).kind = "Battle" /\ Keeps(Front, Now(u, 43))
          /\ Sane(Now(u, 43), turn_player) /\ Now(u, 43).step = 43
      BY <1>7, <2>3
    <3>2. Suits(Now(u, 43), phase) BY <3>1 DEF Suits
    <3>3. PICK c : c = {0, 1} OBVIOUS
    <3>4. c \in SUBSET (-1 .. 8) BY <3>3
    <3> QED BY <1>1, <1>2, <1>3, <2>1, <2>3, <3>1, <3>2, <3>3, <3>4, Asking
  <2>4. CASE \E b \in {0, 1} \cup (IF u.step = 43 THEN {returns[1]} ELSE {}) :
               returns' = <<u.phase_to_change_to, b>> /\ units' = <<>> \o t
    <3>1. PICK b \in {0, 1} \cup (IF u.step = 43 THEN {returns[1]} ELSE {}) :
            returns' = <<u.phase_to_change_to, b>> /\ units' = <<>> \o t
      BY <2>4
    <3>2. b # Junk BY <1>3, <3>1 DEF Fresh, Expects, Junk
    <3>3. returns'[1] = u.phase_to_change_to /\ returns'[2] = b BY <3>1
    <3>4. Fits(u, Head(t)) BY <1>2, <1>3, Over
    <3>5. Saves(Head(t)) \/ (Head(t).kind = "Turn" /\ Head(t).step = 13 /\ ~u.forced)
      BY <1>3, <3>4 DEF Fits
    <3>6. ~u.forced => u.phase_to_change_to # Junk BY <1>5, <2>1
    <3>7. Fresh(Head(t), returns') /\ InPlace(Head(t), recharge')
      <4>1. CASE Saves(Head(t)) BY <4>1 DEF Saves, Fresh, InPlace
      <4>2. CASE Head(t).kind = "Turn" /\ Head(t).step = 13 /\ ~u.forced
        BY <4>2, <3>2, <3>3, <3>6 DEF Fresh, InPlace
      <4> QED BY <3>5, <4>1, <4>2
    <3>8. ~Saves(Front) /\ Front.kind # "Turn" BY <1>1, <1>3 DEF Saves
    <3> QED BY <1>2, <2>1, <3>1, <3>7, <3>8, Answered
  <2> QED BY <2>2, <2>3, <2>4
<1> QED
  BY <1>10, <1>11, <1>12, <1>13, <1>14, <1>15, <1>16, <1>17, <1>18, <1>19 DEF BattleCommandStep

LEMMA ForcedStack ==
  ASSUME Types, Stack, ForcedStep
  PROVE  Stack'
<1>1. PICK u : u = Front OBVIOUS
<1>2. PICK t : t = Tail(units) OBVIOUS
<1>3. /\ u \in ForcedUnits /\ u.kind = "Forced" /\ Sound(units, phase, turn_player)
      /\ u = Head(units)
  <2>1. u.kind = "Forced"
    BY <1>1 DEF ForcedStep, ForcedCannot, ForcedStarts, ForcedEnds, At
  <2> QED BY <1>1, <2>1, Pop, Kinds DEF Stack, Front
<1>4. t \in Seq(Units) /\ Fits(u, Head(t)) /\ ~Expects(Head(t))
  <2>1. t \in Seq(Units) /\ Fits(u, Head(t)) BY <1>2, <1>3, Over
  <2>2. ~Serves(u, Head(t)) BY <1>3 DEF Serves
  <2> QED BY <2>1, <2>2 DEF Fits
<1>5. ASSUME NEW batch \in Batches, units' = batch \o t, phase' = Left(u, phase),
             turn_player' = turn_player
      PROVE  Stack'
  BY <1>1, <1>2, <1>3, <1>4, <1>5, Ends
<1>6. \A s : (At("Forced", s) <=> u.step = s) BY <1>1, <1>3 DEF At
<1>7. CASE ForcedCannot
  <2>1. /\ u.step = 0 /\ phase' = phase /\ turn_player' = turn_player
        /\ units' = <<>> \o t
    BY <1>2, <1>6, <1>7 DEF ForcedCannot, clock, Finish
  <2>2. Left(u, phase) = phase BY <2>1 DEF Left, Saves
  <2> QED BY <2>1, <2>2, <1>5, Singles
<1>8. CASE ForcedStarts
  <2>1. /\ u.step = 0 /\ turn_player' = turn_player
        /\ \/ phase' = phase /\ units' = <<Effects>> \o t
           \/ phase' = phase /\ units' = <<>> \o t
           \/ /\ returns' = [returns EXCEPT ![1] = 1]
              /\ phase' = "BATTLE_STEP"
              /\ Stacked(units', <<BattleCommand(1, TRUE)>>,
                         [[u EXCEPT !.backup_phase = phase] EXCEPT !.step = 1], t)
    BY <1>1, <1>2, <1>6, <1>8 DEF ForcedStarts, clock, Finish, GoOnAs, Stacked
  <2>2. Left(u, phase) = phase BY <2>1 DEF Left, Saves
  <2>3. CASE /\ returns' = [returns EXCEPT ![1] = 1]
             /\ phase' = "BATTLE_STEP"
             /\ Stacked(units', <<BattleCommand(1, TRUE)>>,
                        [[u EXCEPT !.backup_phase = phase] EXCEPT !.step = 1], t)
    <3>1. PICK v : v = [[u EXCEPT !.backup_phase = phase] EXCEPT !.step = 1] OBVIOUS
    <3>2. v = [kind |-> "Forced", step |-> 1, backup_phase |-> phase]
      BY <1>3, <3>1 DEF ForcedUnits
    <3>3. v.kind = "Forced" /\ v.step = 1 /\ v.backup_phase = phase BY <3>2
    <3>4. v \in ForcedUnits BY <3>2 DEF ForcedUnits, Types
    <3>5. v \in Units /\ Saves(v) /\ Sane(v, turn_player) /\ Suits(v, "BATTLE_STEP")
          /\ Left(v, "BATTLE_STEP") = Left(u, phase) /\ ~Expects(v)
      BY <3>3, <3>4, <2>2 DEF Units, Saves, Sane, Suits, Left, Expects
    <3>6. Sound(<<v>> \o t, "BATTLE_STEP", turn_player)
      BY <1>2, <1>3, <3>3, <3>5, GoesOn
    <3>7. PICK b : b = BattleCommand(1, TRUE) OBVIOUS
    <3>8. b = [kind |-> "Battle", step |-> 1, phase_to_change_to |-> 0, repeat |-> FALSE,
               optional |-> FALSE, forced |-> TRUE, done |-> FALSE]
      BY <3>7 DEF BattleCommand
    <3>9. b \in BattleUnits BY <3>8 DEF BattleUnits, Answers
    <3>10. b.kind = "Battle" /\ b.step = 1 /\ b.forced /\ ~b.done BY <3>8
    <3>11. b \in Units /\ Sane(b, turn_player) /\ Suits(b, "BATTLE_STEP")
           /\ Left(b, "BATTLE_STEP") = "BATTLE_STEP" /\ Fits(b, v)
      BY <3>3, <3>5, <3>9, <3>10 DEF Units, Sane, Suits, Left, Saves, Fits
    <3>12. Head(<<v>> \o t) = v /\ <<v>> \in Seq(Units) /\ <<b>> \in Seq(Units)
      <4>1. <<v>> \in Seq(Units) /\ <<b>> \in Seq(Units) BY <3>5, <3>11
      <4> QED BY <4>1, <3>5, <1>4, Topped
    <3>13. Sound(<<b>> \o (<<v>> \o t), "BATTLE_STEP", turn_player)
           /\ Head(<<b>> \o (<<v>> \o t)) = b
      BY <3>6, <3>11, <3>12, Push
    <3>14. units' = <<b>> \o (<<v>> \o t)
      <4>1. units' = <<b>> \o <<v>> \o t BY <2>3, <3>1, <3>7 DEF Stacked
      <4> QED BY <4>1, <3>12, <1>4, ConcatAssociative
    <3>15. Fresh(b, returns') /\ InPlace(b, recharge')
      <4>1. 1 \in Answers /\ 1 # Junk BY DEF Answers, Junk
      <4>2. returns'[1] # Junk BY <4>1, <2>3, TwoAnswers
      <4> QED BY <4>2, <3>10 DEF Fresh, InPlace
    <3> QED BY <2>1, <2>3, <3>13, <3>14, <3>15 DEF Stack, Front
  <2> QED BY <2>1, <2>2, <2>3, <1>5, Singles
<1>9. CASE ForcedEnds
  <2>1. /\ u.step = 1 /\ phase' = u.backup_phase /\ turn_player' = turn_player
        /\ units' = <<>> \o t
    BY <1>1, <1>2, <1>6, <1>9 DEF ForcedEnds, Interrupted, clock, Finish
  <2>2. Left(u, phase) = u.backup_phase BY <2>1, <1>3 DEF Left, Saves
  <2> QED BY <2>1, <2>2, <1>5, Singles
<1> QED BY <1>7, <1>8, <1>9 DEF ForcedStep

LEMMA RelayStack ==
  ASSUME Types, Stack, Refresh \/ Refreshed
  PROVE  Stack'
<1>1. PICK u : u = Front OBVIOUS
<1>2. PICK t : t = Tail(units) OBVIOUS
<1>3. /\ u \in [kind : {"Relay"}, step : 0 .. 2] /\ u.kind = "Relay" /\ u = Head(units)
      /\ Sound(units, phase, turn_player)
  <2>1. u.kind = "Relay" BY <1>1 DEF Refresh, Refreshed, At
  <2> QED BY <1>1, <2>1, Pop, Kinds DEF Stack, Front
<1>4. Left(u, phase) = phase /\ InPlace(u, recharge)
  BY <1>1, <1>3 DEF Left, Saves, Stack
<1>5. Sound(t, phase, turn_player) /\ t \in Seq(Units) /\ Fits(u, Head(t))
      /\ Head(t).kind # "Relay"
  BY <1>2, <1>3, <1>4, Over
<1>6. CASE Refresh
  <2>1. PICK p \in Players :
          /\ u.step = p /\ Stacked(units', <<>>, Now(u, p + 1), t)
          /\ IF recharge[p] THEN recharge' = [recharge EXCEPT ![p] = FALSE]
             ELSE recharge' = recharge
    BY <1>1, <1>2, <1>6 DEF Refresh, At, GoOn, GoOnAs, Now, Stacked
  <2>2. phase' = phase /\ turn_player' = turn_player BY <1>6 DEF Refresh, clock
  <2>3. PICK v : v = Now(u, p + 1) OBVIOUS
  <2>4. v = [kind |-> "Relay", step |-> p + 1] BY <1>3, <2>3 DEF Now
  <2>5. v.kind = "Relay" /\ v.step = p + 1 /\ v \in Units
    <3>1. v.kind = "Relay" /\ v.step = p + 1 BY <2>4
    <3>2. p + 1 \in 0 .. 2 BY DEF Players
    <3>3. v \in [kind : {"Relay"}, step : 0 .. 2] BY <2>4, <3>2
    <3> QED BY <3>1, <3>3 DEF Units, OtherUnits
  <2>6. Fits(v, Head(t)) /\ Sane(v, turn_player) /\ Suits(v, phase) /\ Left(v, phase) = phase
    BY <1>3, <1>5, <2>5 DEF Fits, Serves, Sane, Suits, Left, Saves
  <2>7. Sound(<<v>> \o t, phase, turn_player) /\ Head(<<v>> \o t) = v
    BY <1>5, <2>5, <2>6, Push
  <2>8. units' = <<v>> \o t
    <3>1. <<v>> \in Seq(Units) BY <2>5
    <3> QED BY <3>1, <2>1, <2>3, ConcatEmptySeq DEF Stacked
  <2>9. Fresh(v, returns') BY <2>5 DEF Fresh
  <2>10. InPlace(v, recharge')
    <3> SUFFICES ASSUME NEW q \in Players, q < p + 1
                 PROVE  ~recharge'[q]
      BY <2>5 DEF InPlace
    <3>1. q # p => q < p BY DEF Players
    <3>2. q < p => ~recharge[q] BY <1>3, <1>4, <2>1 DEF InPlace
    <3>3. recharge \in [Players -> BOOLEAN] BY DEF Types
    <3> QED BY <2>1, <3>1, <3>2, <3>3
  <2> QED BY <2>2, <2>7, <2>8, <2>9, <2>10 DEF Stack, Front
<1>7. CASE Refreshed
  <2>1. u.step = 2 /\ units' = <<>> \o t /\ phase' = phase /\ turn_player' = turn_player
        /\ recharge' = recharge
    BY <1>1, <1>2, <1>7 DEF Refreshed, At, Finish, clock, team
  <2>2. \A p \in Players : ~recharge[p] BY <2>1, <1>3, <1>4 DEF InPlace, Players
  <2>3. Fresh(Head(t), returns') /\ InPlace(Head(t), recharge')
    <3>1. Expects(Head(t)) => Head(t).kind = "Turn" /\ Head(t).step = 1
      BY <1>3, <1>5 DEF Fits, Serves, Expects
    <3>2. InPlace(Head(t), recharge') BY <2>1, <2>2 DEF InPlace
    <3>3. Fresh(Head(t), returns') BY <3>1 DEF Fresh, Expects
    <3> QED BY <3>2, <3>3
  <2>4. ~Saves(Front) /\ Front.kind # "Turn" BY <1>1, <1>3 DEF Saves
  <2> QED BY <2>1, <2>3, <2>4, <1>2, Answered
<1> QED BY <1>6, <1>7

LEMMA OutsideStack ==
  ASSUME Types, Stack, EffectsRun \/ PointEventRun \/ PointEventEnd \/ Answer
  PROVE  Stack'
<1>1. PICK u : u = Front OBVIOUS
<1>2. PICK t : t = Tail(units) OBVIOUS
<1>3. u.kind \in {"Effects", "Point", "Ask"} /\ u \in Units /\ u = Head(units)
      /\ Sound(units, phase, turn_player)
  <2>1. u.kind \in {"Effects", "Point", "Ask"}
    BY <1>1 DEF EffectsRun, PointEventRun, PointEventEnd, Answer, At
  <2> QED BY <1>1, <2>1, Pop DEF Stack, Front
<1>4. Left(u, phase) = phase /\ ~Saves(u) BY <1>3 DEF Left, Saves
<1>5. t \in Seq(Units) /\ Fits(u, Head(t)) /\ Head(t).kind # "Relay" BY <1>2, <1>3, Over
<1>6. phase' = phase /\ turn_player' = turn_player
  BY DEF EffectsRun, PointEventRun, PointEventEnd, Answer, clock
<1>7. CASE EffectsRun \/ PointEventEnd
  <2>1. PICK batch \in Batches : units' = batch \o t
    BY <1>2, <1>7, Singles DEF EffectsRun, PointEventEnd, Finish
  <2>2. u.kind \in {"Effects", "Point"} BY <1>1, <1>7 DEF EffectsRun, PointEventEnd, At
  <2>3. ~Expects(Head(t)) BY <2>2, <1>5 DEF Fits, Serves
  <2> QED BY <2>1, <2>3, <1>1, <1>2, <1>3, <1>4, <1>6, Ends
<1>8. CASE PointEventRun
  <2>1. u.kind = "Point" /\ Stacked(units', <<>>, Now(u, 1), t)
    BY <1>1, <1>2, <1>8 DEF PointEventRun, At, GoOn, GoOnAs, Now, Stacked
  <2>2. PICK v : v = Now(u, 1) OBVIOUS
  <2>3. v = [kind |-> "Point", step |-> 1]
    <3>1. u \in [kind : {"Effects", "Point"}, step : 0 .. 1] BY <1>3, <2>1, Kinds
    <3> QED BY <2>1, <2>2, <3>1 DEF Now
  <2>4. v.kind = "Point" /\ v.step = 1 BY <2>3
  <2>5. v \in Units
    <3>1. v \in [kind : {"Effects", "Point"}, step : 0 .. 1] BY <2>3
    <3> QED BY <3>1 DEF Units, OtherUnits
  <2>6. /\ Keeps(Front, v) /\ Sane(v, turn_player) /\ Suits(v, phase') /\ ~Expects(v)
        /\ Left(v, phase') = Left(Front, phase)
    BY <1>1, <1>4, <1>6, <2>1, <2>4 DEF Keeps, Sane, Suits, Expects, Left, Saves
  <2>7. Front.kind \in Goers BY <1>1, <2>1 DEF Goers
  <2> QED BY <1>2, <1>6, <2>1, <2>2, <2>5, <2>6, <2>7, Proceeds, Singles
<1>9. CASE Answer
  <2>1. /\ u.kind = "Ask" /\ units' = <<>> \o t
        /\ \E a \in u.choices : returns' = <<a, Junk>>
    BY <1>1, <1>2, <1>9 DEF Answer, At, Finish
  <2>2. PICK a \in u.choices : returns' = <<a, Junk>> BY <2>1
  <2>3. u.choices \subseteq -1 .. 8
    <3>1. u \in [kind : {"Ask"}, step : {0}, choices : SUBSET (-1 .. 8)]
      BY <1>3, <2>1, Kinds
    <3> QED BY <3>1
  <2>4. returns'[1] = a /\ a \in -1 .. 8 /\ a # Junk BY <2>2, <2>3 DEF Junk
  <2>5. Expects(Head(t)) => /\ Head(t).kind # "Turn"
                            /\ (Head(t).kind = "Phase" /\ Head(t).step = 1 => u.choices = {0, 1})
    BY <1>5, <2>1 DEF Fits, Serves
  <2>6. Fresh(Head(t), returns') BY <2>2, <2>4, <2>5 DEF Fresh, Expects
  <2>7. InPlace(Head(t), recharge') BY <1>5, <2>5 DEF InPlace, Expects
  <2> QED BY <1>1, <1>2, <1>4, <1>6, <2>1, <2>6, <2>7, Answered
<1> QED BY <1>7, <1>8, <1>9

LEMMA NowTurn ==
  ASSUME NEW u \in TurnUnits, NEW s \in 0 .. 20
  PROVE  Now(u, s) \in TurnUnits /\ Now(u, s).step = s
<1>1. PICK v : v = [u EXCEPT !.step = s] OBVIOUS
<1>2. v \in TurnUnits /\ v.step = s BY <1>1 DEF TurnUnits
<1> QED BY <1>1, <1>2 DEF Now

LEMMA TurnStack ==
  ASSUME Types, Stack, TurnStep
  PROVE  Stack'
<1>1. PICK u : u = Front OBVIOUS
<1>2. PICK t : t = Tail(units) OBVIOUS
<1>3. /\ u \in TurnUnits /\ Suits(u, phase) /\ u.kind = "Turn" /\ u = Head(units)
      /\ Sound(units, phase, turn_player) /\ Fresh(u, returns)
  <2>1. u.kind = "Turn"
    BY <1>1 DEF TurnStep, PreDraw, NewTurn, DrawPhase, Draw, NothingLeft, StandbyPhase,
           PhaseEvents, MainPhase1, Commands, BattlePhaseStart, BattleStep, AfterBattle,
           EndPhase, TurnEnd, ChangePlayer, At
  <2> QED BY <1>1, <2>1, Pop, Kinds DEF Stack, Front
<1>4. PICK ph : ph = phase' OBVIOUS
<1>5. PICK tp : tp = turn_player' OBVIOUS
<1>6. ASSUME NEW v \in TurnUnits, Suits(v, ph)
      PROVE  /\ Sound(<<v>> \o t, ph, tp) /\ v \in Units /\ t \in Seq(Units)
             /\ v.kind = "Turn" /\ <<v>> \in Seq(Units) /\ Head(<<v>> \o t) = v
  <2>1. Sound(<<v>> \o t, ph, tp) /\ v \in Units /\ t \in Seq(Units)
    BY <1>2, <1>3, <1>6, TurnGoesOn
  <2>2. v.kind = "Turn" BY DEF TurnUnits
  <2>3. <<v>> \in Seq(Units) BY <2>1
  <2> QED BY <2>1, <2>2, <2>3, Topped
<1>7. ASSUME NEW v \in TurnUnits, Suits(v, ph), v.step \notin {1, 10, 13},
             NEW batch \in Batches, Stacked(units', batch, v, t)
      PROVE  Stack'
  <2>1. Sound(<<v>> \o t, ph, tp) /\ v \in Units /\ t \in Seq(Units) /\ v.kind = "Turn"
    BY <1>6, <1>7
  <2>2. ~Expects(v) /\ v.kind # "Relay" BY <2>1, <1>7 DEF Expects
  <2>3. Settled(batch \o <<v>> \o t, ph, tp, returns', recharge')
    BY <2>1, <2>2, Continued
  <2> QED BY <1>4, <1>5, <1>7, <2>3 DEF Stack, Settled, Front, Stacked
<1>8. ASSUME NEW v \in TurnUnits, Suits(v, ph), NEW w \in Units, Sane(w, tp), Suits(w, ph),
             Left(w, ph) = ph, Fits(w, v), ~Expects(w), w.kind # "Relay" \/ w.step = 0,
             Stacked(units', <<w>>, v, t)
      PROVE  Stack'
  <2>1. /\ Sound(<<v>> \o t, ph, tp) /\ t \in Seq(Units) /\ <<v>> \in Seq(Units)
        /\ Head(<<v>> \o t) = v
    BY <1>6, <1>8
  <2>2. Sound(<<w>> \o (<<v>> \o t), ph, tp) /\ Head(<<w>> \o (<<v>> \o t)) = w
    BY <1>8, <2>1, Push
  <2>3. Fresh(w, returns') /\ InPlace(w, recharge')
    BY <1>8 DEF Fresh, InPlace, Expects, Players
  <2>4. <<w>> \in Seq(Units) BY <1>8
  <2>5. units' = <<w>> \o (<<v>> \o t)
    BY <1>8, <2>1, <2>4, ConcatAssociative DEF Stacked
  <2> QED BY <1>4, <1>5, <2>2, <2>3, <2>5 DEF Stack, Front
<1>9. ASSUME NEW v \in TurnUnits, Suits(v, ph), v.step \notin {1, 10, 13}, ph \in Events,
             NEW batch \in Batches, Stacked(units', batch \o <<PhaseEvent(ph)>>, v, t)
      PROVE  Stack'
  <2>1. Sound(<<v>> \o t, ph, tp) /\ v \in Units /\ t \in Seq(Units) /\ v.kind = "Turn"
    BY <1>6, <1>9
  <2>2. ~Expects(v) /\ v.kind # "Relay" BY <2>1, <1>9 DEF Expects
  <2>3. Settled((batch \o <<PhaseEvent(ph)>>) \o <<v>> \o t, ph, tp, returns', recharge')
    BY <2>1, <2>2, <1>9, Phased
  <2> QED BY <1>4, <1>5, <1>9, <2>3 DEF Stack, Settled, Front, Stacked
<1>10. \A s : (At("Turn", s) <=> u.step = s) BY <1>1, <1>3 DEF At
<1>11. \A s \in 0 .. 20 : Now(u, s) \in TurnUnits /\ Now(u, s).step = s /\ Now(u, s).kind = "Turn"
  BY <1>3, NowTurn DEF TurnUnits
<1>12. MayPoint \subseteq Batches BY DEF MayPoint, Batches
<1>13. CASE PreDraw
  <2>1. Stacked(units', <<RefreshRelay>>, Now(u, 1), t)
    BY <1>1, <1>2, <1>13 DEF PreDraw, GoOn, GoOnAs, Now, Stacked
  <2>2. PICK w : w = RefreshRelay OBVIOUS
  <2>3. w = [kind |-> "Relay", step |-> 0] BY <2>2 DEF RefreshRelay
  <2>4. w.kind = "Relay" /\ w.step = 0 /\ w \in Units
    <3>1. w \in [kind : {"Relay"}, step : 0 .. 2] BY <2>3
    <3> QED BY <2>3, <3>1 DEF Units, OtherUnits
  <2>5. PICK v \in TurnUnits : v = Now(u, 1) /\ v.step = 1 /\ v.kind = "Turn" BY <1>11
  <2>6. Suits(v, ph) /\ Fits(w, v) BY <2>4, <2>5 DEF Suits, Fits, Serves
  <2>7. Sane(w, tp) /\ Suits(w, ph) /\ Left(w, ph) = ph /\ ~Expects(w)
    BY <2>4 DEF Sane, Suits, Left, Saves, Expects
  <2> QED BY <1>8, <2>1, <2>2, <2>4, <2>5, <2>6, <2>7
<1>14. CASE NewTurn
  <2>1. \/ Stacked(units', <<Effects>>, Now(u, 19), t)
        \/ phase' = "DRAW" /\ Stacked(units', <<Effects>>, Now(u, 2), t)
    BY <1>1, <1>2, <1>14 DEF NewTurn, GoOn, GoOnAs, Now, Stacked
  <2>2. CASE Stacked(units', <<Effects>>, Now(u, 19), t)
    <3>1. PICK v \in TurnUnits : v = Now(u, 19) /\ v.step = 19 /\ v.kind = "Turn"
      BY <1>11
    <3>2. Suits(v, ph) /\ v.step \notin {1, 10, 13} BY <3>1 DEF Suits
    <3> QED BY <1>7, <2>2, <3>1, <3>2, Singles
  <2>3. CASE phase' = "DRAW" /\ Stacked(units', <<Effects>>, Now(u, 2), t)
    <3>1. PICK v \in TurnUnits : v = Now(u, 2) /\ v.step = 2 /\ v.kind = "Turn" BY <1>11
    <3>2. Suits(v, ph) /\ v.step \notin {1, 10, 13} BY <1>4, <2>3, <3>1 DEF Suits
    <3> QED BY <1>7, <2>3, <3>1, <3>2, Singles
  <2> QED BY <2>1, <2>2, <2>3
<1>15. CASE DrawPhase
  <2>1. u.step = 2 /\ phase' = phase
        /\ (\/ Stacked(units', <<Effects>>, Now(u, 4), t)
            \/ \E batch \in Batches : Stacked(units', batch, Now(u, 3), t))
    BY <1>1, <1>2, <1>10, <1>12, <1>15 DEF DrawPhase, SkipPhase, GoOn, GoOnAs, Now, Stacked
  <2>2. ph = "DRAW" BY <1>3, <1>4, <2>1 DEF Suits
  <2>3. PICK v \in TurnUnits : v = Now(u, 3) /\ v.step = 3 /\ v.kind = "Turn" BY <1>11
  <2>4. PICK w \in TurnUnits : w = Now(u, 4) /\ w.step = 4 /\ w.kind = "Turn" BY <1>11
  <2>5. Suits(v, ph) /\ v.step \notin {1, 10, 13} /\ Suits(w, ph) /\ w.step \notin {1, 10, 13}
    BY <2>2, <2>3, <2>4 DEF Suits
  <2> QED BY <1>7, <2>1, <2>3, <2>4, <2>5, Singles
<1>16. CASE Draw
  <2>1. PICK batch \in Batches :
          u.step = 3 /\ phase' = phase /\ Stacked(units', batch \o <<PhaseEvent("DRAW")>>, Now(u, 4), t)
    BY <1>1, <1>2, <1>10, <1>12, <1>16 DEF Draw, GoOn, GoOnAs, Now, Stacked
  <2>2. ph = "DRAW" /\ ph \in Events BY <1>3, <1>4, <2>1 DEF Suits, Events
  <2>3. PICK v \in TurnUnits : v = Now(u, 4) /\ v.step = 4 /\ v.kind = "Turn" BY <1>11
  <2>4. Suits(v, ph) /\ v.step \notin {1, 10, 13} BY <2>2, <2>3 DEF Suits
  <2> QED BY <1>9, <2>1, <2>2, <2>3, <2>4
<1>17. CASE NothingLeft
  <2>1. phase' = phase /\ (\/ u.step = 4 /\ Stacked(units', <<>>, Now(u, 5), t)
                           \/ u.step = 8 /\ Stacked(units', <<>>, Now(u, 9), t))
    <3>1. phase' = phase /\ u.step \in {4, 8} /\ Stacked(units', <<>>, Now(u, u.step + 1), t)
      BY <1>1, <1>2, <1>10, <1>17 DEF NothingLeft, GoOn, GoOnAs, Now, Stacked
    <3>2. 4 + 1 = 5 /\ 8 + 1 = 9 OBVIOUS
    <3> QED BY <3>1, <3>2
  <2>2. PICK v \in TurnUnits : v = Now(u, 5) /\ v.step = 5 /\ v.kind = "Turn" BY <1>11
  <2>3. PICK w \in TurnUnits : w = Now(u, 9) /\ w.step = 9 /\ w.kind = "Turn" BY <1>11
  <2>4. Suits(v, ph) /\ v.step \notin {1, 10, 13} /\ w.step \notin {1, 10, 13}
    BY <2>2, <2>3 DEF Suits
  <2>5. u.step = 8 => Suits(w, ph) BY <1>3, <1>4, <2>1, <2>3 DEF Suits
  <2> QED BY <1>7, <2>1, <2>2, <2>3, <2>4, <2>5, Singles
<1>18. CASE StandbyPhase
  <2>1. phase' = "STANDBY" /\ (\/ Stacked(units', <<Effects>>, Now(u, 7), t)
                               \/ Stacked(units', <<>>, Now(u, 6), t))
    BY <1>1, <1>2, <1>18 DEF StandbyPhase, SkipPhase, GoOn, GoOnAs, Now, Stacked
  <2>2. PICK v \in TurnUnits : v = Now(u, 7) /\ v.step = 7 /\ v.kind = "Turn" BY <1>11
  <2>3. PICK w \in TurnUnits : w = Now(u, 6) /\ w.step = 6 /\ w.kind = "Turn" BY <1>11
  <2>4. Suits(v, ph) /\ v.step \notin {1, 10, 13} /\ Suits(w, ph) /\ w.step \notin {1, 10, 13}
    BY <1>4, <2>1, <2>2, <2>3 DEF Suits
  <2> QED BY <1>7, <2>1, <2>2, <2>3, <2>4, Singles
<1>19. CASE PhaseEvents
  <2>1. PICK s \in {6, 11, 14, 17, 18} :
          /\ u.step = s /\ phase' = phase
          /\ \E batch \in Batches :
               Stacked(units', batch \o (CASE s = 6 -> <<PhaseEvent("STANDBY")>>
                                           [] s = 11 -> <<PhaseEvent("BATTLE_START")>>
                                           [] s = 18 -> <<PhaseEvent("END")>>
                                           [] OTHER -> <<>>), Now(u, s + 1), t)
    <3>1. \A s : (IF s = 18 THEN {<<>>} ELSE MayPoint) \subseteq Batches
      BY <1>12, Singles
    <3> QED
      BY <1>1, <1>2, <1>10, <1>19, <3>1 DEF PhaseEvents, GoOn, GoOnAs, Now, Stacked
  <2>2. s + 1 \in 0 .. 20 OBVIOUS
  <2>3. PICK v \in TurnUnits : v = Now(u, s + 1) /\ v.step = s + 1 /\ v.kind = "Turn"
    BY <1>11, <2>2
  <2>5. Suits(v, ph) /\ v.step \notin {1, 10, 13} BY <2>1, <2>3, <1>3, <1>4 DEF Suits
  <2>6. CASE s \in {6, 11, 18}
    <3>1. ph \in Events /\ ph = IF s = 6 THEN "STANDBY" ELSE IF s = 11 THEN "BATTLE_START" ELSE "END"
      BY <1>3, <1>4, <2>1, <2>6 DEF Suits, Events
    <3>2. \E batch \in Batches : Stacked(units', batch \o <<PhaseEvent(ph)>>, Now(u, s + 1), t)
      <4>1. CASE s = 6 BY <2>1, <3>1, <4>1
      <4>2. CASE s = 11 BY <2>1, <3>1, <4>2
      <4>3. CASE s = 18 BY <2>1, <3>1, <4>3
      <4> QED BY <2>6, <4>1, <4>2, <4>3
    <3> QED BY <1>9, <2>3, <2>5, <3>1, <3>2
  <2>7. CASE s \in {14, 17}
    <3>1. PICK batch \in Batches : Stacked(units', batch \o <<>>, Now(u, s + 1), t)
      <4>1. s # 6 /\ s # 11 /\ s # 18 BY <2>7
      <4> QED BY <2>1, <4>1
    <3>2. batch \o <<>> = batch BY BatchesAreSeqs, ConcatEmptySeq
    <3> QED BY <1>7, <2>3, <2>5, <3>1, <3>2
  <2> QED BY <2>6, <2>7
<1>20. CASE MainPhase1
  <2>1. phase' = "MAIN1" /\ Stacked(units', <<Effects>>, Now(u, 8), t)
    BY <1>1, <1>2, <1>20 DEF MainPhase1, GoOn, GoOnAs, Now, Stacked
  <2>2. PICK v \in TurnUnits : v = Now(u, 8) /\ v.step = 8 /\ v.kind = "Turn" BY <1>11
  <2>3. Suits(v, ph) /\ v.step \notin {1, 10, 13} BY <1>4, <2>1, <2>2 DEF Suits
  <2> QED BY <1>7, <2>1, <2>2, <2>3, Singles
<1>21. CASE Commands
  <2>1. phase' = phase /\ (\/ u.step = 9 /\ Stacked(units', <<Idle>>, Now(u, 10), t)
                           \/ u.step = 15 /\ Stacked(units', <<Idle>>, Now(u, 16), t))
    <3>1. phase' = phase /\ u.step \in {9, 15} /\ Stacked(units', <<Idle>>, Now(u, u.step + 1), t)
      BY <1>1, <1>2, <1>10, <1>21 DEF Commands, GoOn, GoOnAs, Now, Stacked
    <3>2. 9 + 1 = 10 /\ 15 + 1 = 16 OBVIOUS
    <3> QED BY <3>1, <3>2
  <2>2. ph \in {"MAIN1", "MAIN2"} BY <1>3, <1>4, <2>1 DEF Suits
  <2>3. PICK w : w = Idle OBVIOUS
  <2>4. w = [kind |-> "Idle", step |-> 0, phase_to_change_to |-> 0] BY <2>3 DEF Idle
  <2>5. w.kind = "Idle" /\ w.step = 0 /\ w \in Units
    <3>1. w \in IdleUnits BY <2>4 DEF IdleUnits, Answers
    <3> QED BY <2>4, <3>1 DEF Units
  <2>6. Sane(w, tp) /\ Suits(w, ph) /\ Left(w, ph) = ph /\ ~Expects(w)
    BY <2>2, <2>5 DEF Sane, Suits, Left, Saves, Expects
  <2>7. PICK s \in {10, 16} : Stacked(units', <<w>>, Now(u, s), t) BY <2>1, <2>3
  <2>8. PICK v \in TurnUnits : v = Now(u, s) /\ v.step = s /\ v.kind = "Turn" BY <1>11
  <2>9. Suits(v, ph) /\ Fits(w, v) BY <2>5, <2>8 DEF Suits, Fits, Serves, Expects
  <2> QED BY <1>8, <2>5, <2>6, <2>7, <2>8, <2>9
<1>22. CASE BattlePhaseStart
  <2>1. \/ \E batch \in Batches : Stacked(units', batch, Now(u, 16), t)
        \/ phase' = "BATTLE_START" /\ Stacked(units', <<Effects>>, Now(u, 11), t)
    BY <1>1, <1>2, <1>22, Singles DEF BattlePhaseStart, SkipPhase, GoOn, GoOnAs, Now, Stacked
  <2>2. PICK v \in TurnUnits : v = Now(u, 16) /\ v.step = 16 /\ v.kind = "Turn" BY <1>11
  <2>3. PICK w \in TurnUnits : w = Now(u, 11) /\ w.step = 11 /\ w.kind = "Turn" BY <1>11
  <2>4. Suits(v, ph) /\ v.step \notin {1, 10, 13} /\ w.step \notin {1, 10, 13}
    BY <2>2, <2>3 DEF Suits
  <2>5. phase' = "BATTLE_START" => Suits(w, ph) BY <1>4, <2>3 DEF Suits
  <2> QED BY <1>7, <2>1, <2>2, <2>3, <2>4, <2>5, Singles
<1>23. CASE BattleStep
  <2>1. phase' = "BATTLE_STEP" /\ Stacked(units', <<BattleCommand(0, FALSE)>>, Now(u, 13), t)
    BY <1>1, <1>2, <1>23 DEF BattleStep, GoOn, GoOnAs, Now, Stacked
  <2>2. PICK w : w = BattleCommand(0, FALSE) OBVIOUS
  <2>3. w = [kind |-> "Battle", step |-> 0, phase_to_change_to |-> 0, repeat |-> FALSE,
             optional |-> FALSE, forced |-> FALSE, done |-> FALSE]
    BY <2>2 DEF BattleCommand
  <2>4. w.kind = "Battle" /\ w.step = 0 /\ ~w.forced /\ ~w.done /\ w \in Units
    <3>1. w \in BattleUnits BY <2>3 DEF BattleUnits, Answers
    <3> QED BY <2>3, <3>1 DEF Units
  <2>5. Sane(w, tp) /\ Suits(w, ph) /\ Left(w, ph) = ph /\ ~Expects(w)
    BY <1>4, <2>1, <2>4 DEF Sane, Suits, Left, Saves, Expects
  <2>6. PICK v \in TurnUnits : v = Now(u, 13) /\ v.step = 13 /\ v.kind = "Turn" BY <1>11
  <2>7. Suits(v, ph) /\ Fits(w, v) BY <2>4, <2>6 DEF Suits, Fits, Serves, Expects
  <2> QED BY <1>8, <2>1, <2>2, <2>4, <2>5, <2>6, <2>7
<1>24. CASE AfterBattle
  <2>1. u.step = 13 /\ recharge' = recharge /\ returns' = returns
    BY <1>10, <1>24 DEF AfterBattle, team, answers
  <2>2. PICK b \in BOOLEAN :
          \/ Stacked(units', <<>>, [Second(b) EXCEPT !.step = 10], t)
          \/ Stacked(units', <<Effects>>, [Second(b) EXCEPT !.step = 16], t)
          \/ phase' = "MAIN2" /\ Stacked(units', <<Effects>>, [Second(b) EXCEPT !.step = 14], t)
    BY <1>1, <1>2, <1>24 DEF AfterBattle, GoOnAs, Stacked
  <2>3. ASSUME NEW s \in {10, 14, 16}
        PROVE  \E v \in TurnUnits : v = [Second(b) EXCEPT !.step = s] /\ v.step = s /\ v.kind = "Turn"
    <3>1. PICK v : v = [Second(b) EXCEPT !.step = s] OBVIOUS
    <3>2. v = [kind |-> "Turn", step |-> s, player |-> u.player,
               has_performed_second_battle_phase |-> b]
      BY <1>1, <1>3, <3>1 DEF Second, TurnUnits
    <3>3. u.player \in Players BY <1>3 DEF TurnUnits
    <3>4. v \in TurnUnits BY <3>2, <3>3 DEF TurnUnits
    <3>5. v.step = s /\ v.kind = "Turn" BY <3>2
    <3> QED BY <3>1, <3>4, <3>5
  <2>4. CASE Stacked(units', <<>>, [Second(b) EXCEPT !.step = 10], t)
    <3>1. PICK v \in TurnUnits : v = [Second(b) EXCEPT !.step = 10] /\ v.step = 10 /\ v.kind = "Turn"
      BY <2>3
    <3>2. Suits(v, ph) BY <3>1 DEF Suits
    <3>3. Sound(<<v>> \o t, ph, tp) /\ <<v>> \in Seq(Units) /\ Head(<<v>> \o t) = v
          /\ t \in Seq(Units)
      BY <1>6, <3>2
    <3>4. units' = <<v>> \o t BY <2>4, <3>1, <3>3, ConcatEmptySeq DEF Stacked
    <3>5. Fresh(v, returns') /\ InPlace(v, recharge')
      BY <1>3, <2>1, <3>1 DEF Fresh, InPlace
    <3> QED BY <1>4, <1>5, <3>3, <3>4, <3>5 DEF Stack, Front
  <2>5. CASE Stacked(units', <<Effects>>, [Second(b) EXCEPT !.step = 16], t)
    <3>1. PICK v \in TurnUnits : v = [Second(b) EXCEPT !.step = 16] /\ v.step = 16 /\ v.kind = "Turn"
      BY <2>3
    <3>2. Suits(v, ph) /\ v.step \notin {1, 10, 13} BY <3>1 DEF Suits
    <3> QED BY <1>7, <2>5, <3>1, <3>2, Singles
  <2>6. CASE phase' = "MAIN2" /\ Stacked(units', <<Effects>>, [Second(b) EXCEPT !.step = 14], t)
    <3>1. PICK v \in TurnUnits : v = [Second(b) EXCEPT !.step = 14] /\ v.step = 14 /\ v.kind = "Turn"
      BY <2>3
    <3>2. Suits(v, ph) /\ v.step \notin {1, 10, 13} BY <1>4, <2>6, <3>1 DEF Suits
    <3> QED BY <1>7, <2>6, <3>1, <3>2, Singles
  <2> QED BY <2>2, <2>4, <2>5, <2>6
<1>25. CASE EndPhase
  <2>1. phase' = "END" /\ (\/ Stacked(units', <<Effects>>, Now(u, 19), t)
                           \/ Stacked(units', <<Effects>>, Now(u, 17), t))
    BY <1>1, <1>2, <1>25 DEF EndPhase, SkipPhase, GoOn, GoOnAs, Now, Stacked
  <2>2. PICK v \in TurnUnits : v = Now(u, 19) /\ v.step = 19 /\ v.kind = "Turn" BY <1>11
  <2>3. PICK w \in TurnUnits : w = Now(u, 17) /\ w.step = 17 /\ w.kind = "Turn" BY <1>11
  <2>4. Suits(v, ph) /\ v.step \notin {1, 10, 13} /\ Suits(w, ph) /\ w.step \notin {1, 10, 13}
    BY <1>4, <2>1, <2>2, <2>3 DEF Suits
  <2> QED BY <1>7, <2>1, <2>2, <2>3, <2>4, Singles
<1>26. CASE TurnEnd
  <2>1. Stacked(units', <<Effects>>, Now(u, 20), t)
    BY <1>1, <1>2, <1>26 DEF TurnEnd, GoOn, GoOnAs, Now, Stacked
  <2>2. PICK v \in TurnUnits : v = Now(u, 20) /\ v.step = 20 /\ v.kind = "Turn" BY <1>11
  <2>3. Suits(v, ph) /\ v.step \notin {1, 10, 13} BY <2>2 DEF Suits
  <2> QED BY <1>7, <2>1, <2>2, <2>3, Singles
<1>27. CASE ChangePlayer
  <2>1. PICK v : v = [[u EXCEPT !.player = Opponent(@)] EXCEPT !.step = 0] OBVIOUS
  <2>2. Stacked(units', <<>>, v, t)
    BY <1>1, <1>2, <1>27, <2>1 DEF ChangePlayer, GoOnAs, Stacked
  <2>3. PICK p : p = Opponent(u.player) OBVIOUS
  <2>4. v = [kind |-> "Turn", step |-> 0, player |-> p,
             has_performed_second_battle_phase |-> u.has_performed_second_battle_phase]
    BY <1>3, <2>1, <2>3 DEF TurnUnits
  <2>5. p \in Players /\ u.has_performed_second_battle_phase \in BOOLEAN
    BY <1>3, <2>3 DEF TurnUnits, Opponent, Players
  <2>6. v \in TurnUnits BY <2>4, <2>5 DEF TurnUnits
  <2>7. v.step = 0 /\ v.kind = "Turn" BY <2>4
  <2>8. Suits(v, ph) /\ v.step \notin {1, 10, 13} BY <2>7 DEF Suits
  <2> QED BY <1>7, <2>2, <2>6, <2>8, Singles
<1> QED
  BY <1>13, <1>14, <1>15, <1>16, <1>17, <1>18, <1>19, <1>20, <1>21, <1>22, <1>23, <1>24,
     <1>25, <1>26, <1>27 DEF TurnStep

(* Every step keeps the stack sound. *)
LEMMA StackKept ==
  ASSUME Types, Stack, [Next]_vars
  PROVE  Stack'
<1>1. CASE UNCHANGED vars BY <1>1 DEF vars, clock, team, answers, Stack, Front
<1>2. CASE Next
  BY <1>2, TurnStack, PhaseStack, IdleStack, BattleStack, ForcedStack, RelayStack,
     OutsideStack DEF Next
<1> QED BY <1>1, <1>2

-----------------------------------------------------------------------------
(* The types through the steps. *)

LEMMA ReturnsTyped ==
  ASSUME Types, Stack, Next
  PROVE  returns' \in Seq(Answers) /\ Len(returns') = 2
<1>1. PICK u : u = Front OBVIOUS
<1>2. u \in Units /\ Fresh(u, returns) BY <1>1, Pop DEF Stack, Front
<1>3. \/ returns' = returns \/ \E a \in {Pass, 0, ToEnd, 2, 1} : returns' = [returns EXCEPT ![1] = a]
      \/ EffectYesNo \/ IdleOver \/ BattleOver \/ EffectsRun \/ PointEventRun \/ Answer
  BY DEF Next, TurnStep, PreDraw, NewTurn, DrawPhase, Draw, NothingLeft, StandbyPhase,
         PhaseEvents, MainPhase1, Commands, BattlePhaseStart, BattleStep, AfterBattle,
         EndPhase, TurnEnd, ChangePlayer, PhaseStep, PhaseChoices, PhaseChosen,
         PhaseResolved, HandLimit, Discard, HandAdjusted, PhaseReset, PhaseOver, IdleStep,
         IdleForced, IdleChoices, IdleChosen, IdleResolved, IdleCommanded, IdleLeaving,
         IdleSkipped, BattleCommandStep, BattleSkipped, BattleChoices, BattleChosen,
         BattleResolved, AttackFails, AttackHits, DamageStepEnds, BattleLeaving, BattleEnds,
         ForcedStep, ForcedCannot, ForcedStarts, ForcedEnds, Refresh, Refreshed,
         PointEventEnd, answers
<1>4. {Pass, 0, ToEnd, 2, 1, Junk} \subseteq Answers BY DEF Pass, ToEnd, Junk, Answers
<1>5. CASE \E a \in {Pass, 0, ToEnd, 2, 1} : returns' = [returns EXCEPT ![1] = a]
  BY <1>4, <1>5, TwoAnswers
<1>6. CASE EffectYesNo
  <2>1. returns[1] \in {0, 1} BY <1>1, <1>2, <1>6 DEF EffectYesNo, At, Fresh
  <2>2. returns[1] - 1 \in Answers /\ returns' = [returns EXCEPT ![1] = returns[1] - 1]
    BY <2>1, <1>6 DEF EffectYesNo, Answers
  <2> QED BY <2>2, TwoAnswers
<1>7. CASE IdleOver
  <2>1. returns' = [returns EXCEPT ![1] = u.phase_to_change_to] /\ u.kind = "Idle"
    BY <1>1, <1>7 DEF IdleOver, At
  <2>2. u.phase_to_change_to \in Answers BY <1>2, <2>1, Kinds DEF IdleUnits
  <2> QED BY <2>1, <2>2, TwoAnswers
<1>8. ASSUME NEW a \in Answers, NEW b \in Answers, returns' = <<a, b>>
      PROVE  returns' \in Seq(Answers) /\ Len(returns') = 2
  BY <1>8
<1>9. CASE BattleOver
  <2>1. u.kind = "Battle" /\ (returns' = returns
          \/ \E b \in {0, 1, returns[1]} : returns' = <<u.phase_to_change_to, b>>)
    BY <1>1, <1>9 DEF BattleOver, At, BothAnswers
  <2>2. u.phase_to_change_to \in Answers BY <1>2, <2>1, Kinds DEF BattleUnits
  <2>3. {0, 1, returns[1]} \subseteq Answers BY <1>4, TwoAnswers
  <2> QED BY <1>8, <2>1, <2>2, <2>3 DEF Types
<1>10. CASE EffectsRun \/ PointEventRun
  BY <1>4, <1>8, <1>10 DEF EffectsRun, PointEventRun
<1>11. CASE Answer
  <2>1. u.kind = "Ask" /\ \E a \in u.choices : returns' = <<a, Junk>>
    BY <1>1, <1>11 DEF Answer, At
  <2>2. u \in [kind : {"Ask"}, step : {0}, choices : SUBSET (-1 .. 8)]
    BY <1>2, <2>1, Kinds
  <2>3. u.choices \subseteq Answers BY <2>2 DEF Answers
  <2> QED BY <1>4, <1>8, <2>1, <2>3
<1> QED BY <1>3, <1>5, <1>6, <1>7, <1>9, <1>10, <1>11 DEF Types

LEMMA ResetTyped ==
  ASSUME Types, NEW S, Reset(S)
  PROVE  resets' \in [Counted -> 0 .. 3]
<1>1. \A ph \in Counted : /\ resets[ph] \in 0 .. 3
                          /\ resets[ph] < 3 => resets[ph] + 1 \in 0 .. 3
  BY DEF Types
<1> QED BY <1>1 DEF Reset, Types

LEMMA CountsTyped ==
  ASSUME Types, Stack, Next
  PROVE  /\ phase' \in Phases /\ resets' \in [Counted -> 0 .. 3]
         /\ duel' = duel /\ acts' \in 0 .. duel.max_acts
<1>1. PICK u : u = Front OBVIOUS
<1>2. u \in Units BY <1>1, Pop DEF Stack, Front
<1>3. phase' \in Phases
  <2>1. phase' \in Phases \cup {phase} \/ ForcedEnds
    BY DEF Next, TurnStep, PreDraw, NewTurn, DrawPhase, Draw, NothingLeft, StandbyPhase,
         PhaseEvents, MainPhase1, Commands, BattlePhaseStart, BattleStep, AfterBattle,
         EndPhase, TurnEnd, ChangePlayer, PhaseStep, PhaseChoices, PhaseChosen, EffectYesNo,
         PhaseResolved, HandLimit, Discard, HandAdjusted, PhaseReset, PhaseOver, IdleStep,
         IdleForced, IdleChoices, IdleChosen, IdleResolved, IdleCommanded, IdleLeaving,
         IdleOver, IdleSkipped, BattleCommandStep, BattleSkipped, BattleChoices,
         BattleChosen, BattleResolved, AttackFails, AttackHits, DamageStepEnds,
         BattleLeaving, BattleEnds, BattleOver, ForcedStep, ForcedCannot, ForcedStarts,
         Refresh, Refreshed, EffectsRun, PointEventRun, PointEventEnd, Answer, Phases
  <2>2. CASE ForcedEnds
    <3>1. u.kind = "Forced" /\ phase' = u.backup_phase
      BY <1>1, <2>2 DEF ForcedEnds, At, Interrupted
    <3> QED BY <1>2, <3>1, Kinds DEF ForcedUnits
  <2> QED BY <2>1, <2>2 DEF Types
<1>4. resets' \in [Counted -> 0 .. 3]
  <2>1. \/ resets' = resets \/ (\E S : Reset(S)) \/ resets' = [ph \in Counted |-> 0]
    BY DEF Next, TurnStep, PreDraw, NewTurn, DrawPhase, Draw, NothingLeft, StandbyPhase,
         PhaseEvents, MainPhase1, Commands, BattlePhaseStart, BattleStep, AfterBattle,
         EndPhase, TurnEnd, ChangePlayer, PhaseStep, PhaseChoices, PhaseChosen, EffectYesNo,
         PhaseResolved, HandLimit, Discard, HandAdjusted, PhaseReset, PhaseOver, IdleStep,
         IdleForced, IdleChoices, IdleChosen, IdleResolved, IdleCommanded, IdleLeaving,
         IdleOver, IdleSkipped, BattleCommandStep, BattleSkipped, BattleChoices,
         BattleChosen, BattleResolved, AttackFails, AttackHits, DamageStepEnds,
         BattleLeaving, BattleEnds, BattleOver, ForcedStep, ForcedCannot, ForcedStarts,
         ForcedEnds, Refresh, Refreshed, EffectsRun, PointEventRun, PointEventEnd, Answer,
         SkipPhase, Leave
  <2> QED BY <2>1, ResetTyped DEF Types
<1>5. duel' = duel /\ (acts' = acts \/ acts' = 0 \/ Act)
    BY DEF Next, TurnStep, PreDraw, NewTurn, DrawPhase, Draw, NothingLeft, StandbyPhase,
         PhaseEvents, MainPhase1, Commands, BattlePhaseStart, BattleStep, AfterBattle,
         EndPhase, TurnEnd, ChangePlayer, PhaseStep, PhaseChoices, PhaseChosen, EffectYesNo,
         PhaseResolved, HandLimit, Discard, HandAdjusted, PhaseReset, PhaseOver, IdleStep,
         IdleForced, IdleChoices, IdleChosen, IdleResolved, IdleCommanded, IdleLeaving,
         IdleOver, IdleSkipped, BattleCommandStep, BattleSkipped, BattleChoices,
         BattleChosen, BattleResolved, AttackFails, AttackHits, DamageStepEnds,
         BattleLeaving, BattleEnds, BattleOver, ForcedStep, ForcedCannot, ForcedStarts,
         ForcedEnds, Refresh, Refreshed, EffectsRun, PointEventRun, PointEventEnd, Answer,
         Happens, clock
<1>6. acts' \in 0 .. duel.max_acts
  <2>1. duel.max_acts \in Nat BY ConstantsAssumption DEF Types, DuelKinds
  <2> QED BY <1>5, <2>1 DEF Types, Act, CanAct
<1> QED BY <1>3, <1>4, <1>5, <1>6

(* The steps in which the duelists, or the end of the turn, change. *)
LEMMA TeamSteps ==
  ASSUME Next
  PROVE  \/ UNCHANGED <<team, force_turn_end, turn_id, turn_player>>
         \/ Refresh
         \/ Happens /\ UNCHANGED <<lists, tag_index, recent, turn_id, turn_player>>
         \/ NewTurn
BY DEF Next, TurnStep, PreDraw, DrawPhase, Draw, NothingLeft, StandbyPhase, PhaseEvents,
       MainPhase1, Commands, BattlePhaseStart, BattleStep, AfterBattle, EndPhase, TurnEnd,
       ChangePlayer, PhaseStep, PhaseChoices, PhaseChosen, EffectYesNo, PhaseResolved,
       HandLimit, Discard, HandAdjusted, PhaseReset, PhaseOver, IdleStep, IdleForced,
       IdleChoices, IdleChosen, IdleResolved, IdleCommanded, IdleLeaving, IdleOver,
       IdleSkipped, BattleCommandStep, BattleSkipped, BattleChoices, BattleChosen,
       BattleResolved, AttackFails, AttackHits, DamageStepEnds, BattleLeaving, BattleEnds,
       BattleOver, ForcedStep, ForcedCannot, ForcedStarts, ForcedEnds, Refreshed,
       EffectsRun, PointEventRun, PointEventEnd, Answer, team, clock

(* Without those who come in or lose. *)
LEMMA FlagsTyped ==
  ASSUME Types, Next
  PROVE  /\ hand_adjusted' \in BOOLEAN /\ skip_m2' \in BOOLEAN
         /\ set_forced_attack' \in BOOLEAN /\ interrupted' \in BOOLEAN
         /\ battle_phase_count' \in Nat
<1>1. /\ hand_adjusted' \in {hand_adjusted, TRUE, FALSE}
      /\ interrupted' \in {interrupted, TRUE, FALSE}
      /\ battle_phase_count' \in {battle_phase_count, 0, battle_phase_count + 1}
      /\ skip_m2' \in {skip_m2, FALSE, returns[1] = 3 \/ force_turn_end}
      /\ set_forced_attack' \in {set_forced_attack, TRUE, FALSE}
  BY DEF Next, TurnStep, PreDraw, NewTurn, DrawPhase, Draw, NothingLeft, StandbyPhase,
       PhaseEvents, MainPhase1, Commands, BattlePhaseStart, BattleStep, AfterBattle,
       EndPhase, TurnEnd, ChangePlayer, PhaseStep, PhaseChoices, PhaseChosen, EffectYesNo,
       PhaseResolved, HandLimit, Discard, HandAdjusted, PhaseReset, PhaseOver, IdleStep,
       IdleForced, IdleChoices, IdleChosen, IdleResolved, IdleCommanded, IdleLeaving,
       IdleOver, IdleSkipped, BattleCommandStep, BattleSkipped, BattleChoices, BattleChosen,
       BattleResolved, AttackFails, AttackHits, DamageStepEnds, BattleLeaving, BattleEnds,
       BattleOver, ForcedStep, ForcedCannot, ForcedStarts, ForcedEnds, Refresh, Refreshed,
       EffectsRun, PointEventRun, PointEventEnd, Answer, Happens, flags, battles
<1>2. battle_phase_count' \in Nat BY <1>1 DEF Types
<1>3. PICK b : b = (returns[1] = 3 \/ force_turn_end) OBVIOUS
<1>4. b \in BOOLEAN BY <1>3
<1>5. /\ hand_adjusted \in BOOLEAN /\ skip_m2 \in BOOLEAN
      /\ set_forced_attack \in BOOLEAN /\ interrupted \in BOOLEAN
  BY DEF Types
<1>6. /\ hand_adjusted' \in {hand_adjusted, TRUE, FALSE}
      /\ interrupted' \in {interrupted, TRUE, FALSE}
      /\ skip_m2' \in {skip_m2, FALSE, b}
      /\ set_forced_attack' \in {set_forced_attack, TRUE, FALSE}
  BY <1>1, <1>3
<1>7. /\ hand_adjusted' \in BOOLEAN /\ skip_m2' \in BOOLEAN
      /\ set_forced_attack' \in BOOLEAN /\ interrupted' \in BOOLEAN
  BY <1>4, <1>5, <1>6, Zenon
<1> QED BY <1>2, <1>7

LEMMA TeamTyped ==
  ASSUME Types, Stack, Next
  PROVE  /\ turn_id' \in 0 .. 2 /\ turn_player' \in Players /\ force_turn_end' \in BOOLEAN
         /\ tag_index' \in [Players -> Nat] /\ exchanges' \in [Players -> Nat]
         /\ recharge' \in [Players -> BOOLEAN]
<1>1. CASE UNCHANGED <<team, force_turn_end, turn_id, turn_player>>
  BY <1>1 DEF Types, team
<1>2. CASE Refresh
  <2>1. recharge' \in [Players -> BOOLEAN] BY <1>2 DEF Refresh, Types
  <2> QED BY <1>2, <2>1 DEF Refresh, Types, clock
<1>3. CASE Happens /\ UNCHANGED <<lists, tag_index, recent, turn_id, turn_player>>
  <2>1. CASE UNCHANGED <<force_turn_end, exchanges, recharge>> BY <1>3, <2>1 DEF Types
  <2>2. CASE \E L : RelayCheck(L)
    <3>1. PICK L : RelayCheck(L) BY <2>2
    <3>2. PICK next : /\ exchanges' = [p \in Players |-> exchanges[p] + (IF p \in next THEN 1 ELSE 0)]
                      /\ recharge' = [p \in Players |-> recharge[p] \/ p \in next]
                      /\ force_turn_end' = (next # {})
      BY <3>1 DEF RelayCheck
    <3>3. exchanges' \in [Players -> Nat] BY <3>2 DEF Types
    <3>4. recharge' \in [Players -> BOOLEAN] /\ force_turn_end' \in BOOLEAN BY <3>2
    <3> QED BY <3>3, <3>4, <1>3 DEF Types
  <2> QED BY <1>3, <2>1, <2>2 DEF Happens
<1>4. CASE NewTurn
  <2>1. Front \in TurnUnits
    <3>1. Front.kind = "Turn" /\ Front \in Units
      BY <1>4, Pop DEF NewTurn, At, Stack, Front
    <3> QED BY <3>1, Kinds
  <2>2. Front.player \in Players BY <2>1 DEF TurnUnits
  <2>3. /\ turn_id' \in 0 .. 2 /\ turn_player' = Front.player /\ force_turn_end' = FALSE
        /\ exchanges' = exchanges /\ recharge' = recharge
        /\ tag_index' = tag_index \/ TagSwap(Front.player)
    BY <1>4 DEF NewTurn
  <2>4. tag_index' \in [Players -> Nat]
    <3>1. PICK p \in Players : p = Front.player BY <2>2
    <3>2. CASE tag_index' = tag_index BY <3>2 DEF Types
    <3>3. CASE Waiting(p) # 0 /\ tag_index' = [tag_index EXCEPT ![p] = NextTagIndex(p)]
      <4>1. Waiting(p) \in Nat /\ Waiting(p) > 0
        BY <3>3, ConstantsAssumption DEF Waiting
      <4>2. NextTagIndex(p) \in Nat BY <4>1 DEF Types, NextTagIndex
      <4> QED BY <3>3, <4>2 DEF Types
    <3> QED BY <2>3, <3>1, <3>2, <3>3 DEF TagSwap
  <2> QED BY <2>2, <2>3, <2>4 DEF Types
<1> QED BY <1>1, <1>2, <1>3, <1>4, TeamSteps

LEMMA TypesKept ==
  ASSUME Types, Stack, [Next]_vars
  PROVE  Types'
<1>1. CASE UNCHANGED vars BY <1>1 DEF vars, clock, team, answers, flags, battles, Types
<1>2. CASE Next
  <2>1. duel' \in Duels /\ acts' \in 0 .. duel'.max_acts BY <1>2, CountsTyped DEF Types
  <2> QED BY <1>2, <2>1, ReturnsTyped, CountsTyped, FlagsTyped, TeamTyped DEF Types
<1> QED BY <1>1, <1>2

-----------------------------------------------------------------------------
(* The duelists. *)

(* Two duelists change places. *)
Switched(f, i) == [f EXCEPT ![1] = f[i], ![i] = f[1]]

LEMMA Exchange ==
  ASSUME NEW n \in Nat, NEW f, Permutes(f, n), NEW i \in 2 .. n
  PROVE  /\ Permutes(Switched(f, i), n)
         /\ Switched(f, i)[1] = f[i] /\ Switched(f, i)[i] = f[1]
         /\ \A j \in 2 .. n : j # i => Switched(f, i)[j] = f[j]
<1>1. 1 \in 1 .. n /\ i \in 1 .. n /\ i # 1 OBVIOUS
<1>2. PICK g : g = Switched(f, i) OBVIOUS
<1>3. /\ f \in [1 .. n -> 0 .. n - 1]
      /\ \A j, k \in 1 .. n : f[j] = f[k] => j = k
      /\ \A d \in 0 .. n - 1 : \E j \in 1 .. n : f[j] = d
  BY DEF Permutes
<1>4. /\ g \in [1 .. n -> 0 .. n - 1]
      /\ \A j \in 1 .. n : g[j] = IF j = i THEN f[1] ELSE IF j = 1 THEN f[i] ELSE f[j]
  BY <1>1, <1>2, <1>3 DEF Switched
<1>5. g[1] = f[i] /\ g[i] = f[1] /\ \A j \in 1 .. n : j # 1 /\ j # i => g[j] = f[j]
  BY <1>1, <1>4
<1>6. ASSUME NEW j \in 1 .. n, NEW k \in 1 .. n, g[j] = g[k]
      PROVE  j = k
  <2>1. PICK a \in 1 .. n : a = (IF j = 1 THEN i ELSE IF j = i THEN 1 ELSE j) /\ g[j] = f[a]
    BY <1>1, <1>5
  <2>2. PICK b \in 1 .. n : b = (IF k = 1 THEN i ELSE IF k = i THEN 1 ELSE k) /\ g[k] = f[b]
    BY <1>1, <1>5
  <2>3. a = b BY ZenonT(30), <2>1, <2>2, <1>3, <1>6
  <2> QED BY <2>1, <2>2, <2>3
<1>7. ASSUME NEW d \in 0 .. n - 1
      PROVE  \E j \in 1 .. n : g[j] = d
  <2>1. PICK j \in 1 .. n : f[j] = d BY <1>3
  <2>2. \E k \in 1 .. n : g[k] = f[j]
    <3>1. CASE j = 1 BY <3>1, <1>1, <1>5
    <3>2. CASE j = i BY <3>2, <1>1, <1>5
    <3>3. CASE j # 1 /\ j # i BY <3>3, <1>5
    <3> QED BY <3>1, <3>2, <3>3
  <2> QED BY <2>1, <2>2
<1>8. \A j \in 2 .. n : j # i => g[j] = f[j]
  <2>1. \A j \in 2 .. n : j \in 1 .. n /\ j # 1 OBVIOUS
  <2> QED BY <2>1, <1>5
<1>9. Permutes(g, n) BY <1>4, <1>6, <1>7 DEF Permutes
<1> QED BY <1>2, <1>5, <1>8, <1>9

(* Of all three lists at once, and only those of the one team. *)
ComesIn(p, i) == lists' = [lists EXCEPT ![p] = Swapped(p, i)]

LEMMA SwappedTogether ==
  ASSUME Together, NEW p \in Players, NEW i \in Nat, i + 2 \in 2 .. TeamSize[p],
         ComesIn(p, i)
  PROVE  /\ Together'
         /\ Team(p)'[1] = Team(p)[i + 2] /\ Team(p)'[i + 2] = Team(p)[1]
         /\ \A j \in 2 .. TeamSize[p] : j # i + 2 => Team(p)'[j] = Team(p)[j]
         /\ \A q \in Players : q # p => Team(q)' = Team(q)
<1>1. \A q \in Players : TeamSize[q] \in Nat BY ConstantsAssumption
<1>2. PICK f : f = [q \in Players |-> Team(q)] OBVIOUS
<1>3. lists = [q \in Players |-> [l \in Lists |-> f[q]]] /\ f[p] = Team(p)
  BY <1>2 DEF Together
<1>4. PICK g : g = Switched(f[p], i + 2) OBVIOUS
<1>5. Swapped(p, i) = [l \in Lists |-> g] BY <1>3, <1>4 DEF Swapped, Switched
<1>6. "main" \in Lists BY DEF Lists
<1>7. \A q \in Players : lists'[q] = IF q = p THEN [l \in Lists |-> g] ELSE [l \in Lists |-> f[q]]
  BY <1>3, <1>5 DEF ComesIn
<1>8. Team(p)' = g /\ \A q \in Players : q # p => Team(q)' = f[q]
  <2>1. Team(p)' = lists'[p]["main"] /\ \A q \in Players : Team(q)' = lists'[q]["main"]
    BY DEF Team
  <2>2. lists'[p]["main"] = g BY <1>6, <1>7
  <2>3. ASSUME NEW q \in Players, q # p
        PROVE  lists'[q]["main"] = f[q]
    <3>1. lists'[q] = [l \in Lists |-> f[q]] BY <2>3, <1>7
    <3> QED BY <3>1, <1>6
  <2> QED BY <2>1, <2>2, <2>3
<1>9. lists' = [q \in Players |-> [l \in Lists |-> Team(q)']]
  <2>1. \A q \in Players : lists'[q] = [l \in Lists |-> Team(q)'] BY <1>7, <1>8
  <2>2. lists' = [q \in Players |-> lists'[q]] BY <1>3 DEF ComesIn
  <2> QED BY <2>1, <2>2
<1>10. /\ Permutes(g, TeamSize[p])
       /\ g[1] = f[p][i + 2] /\ g[i + 2] = f[p][1]
       /\ \A j \in 2 .. TeamSize[p] : j # i + 2 => g[j] = f[p][j]
  <2>1. Permutes(f[p], TeamSize[p]) BY <1>3 DEF Together
  <2> QED BY <2>1, <1>1, <1>4, Exchange
<1>11. ASSUME NEW q \in Players
       PROVE  Permutes(Team(q)', TeamSize[q])
  <2>1. CASE q = p BY <2>1, <1>8, <1>10
  <2>2. CASE q # p
    <3>1. Team(q)' = Team(q) BY <2>2, <1>2, <1>8
    <3> QED BY <3>1 DEF Together
  <2> QED BY <2>1, <2>2
<1>12. Together' BY <1>9, <1>11 DEF Together
<1> QED BY <1>2, <1>3, <1>8, <1>10, <1>12

(* A step that does not touch them. *)
LEMMA TogetherSame ==
  ASSUME Together, lists' = lists
  PROVE  Together' /\ \A p \in Players : Team(p)' = Team(p)
<1>1. \A p \in Players : Team(p)' = Team(p)
  <2>1. \A p \in Players : Team(p)' = lists'[p]["main"] BY DEF Team
  <2> QED BY <2>1 DEF Team
<1>2. \A p \in Players : Permutes(Team(p)', TeamSize[p]) BY <1>1 DEF Together
<1>3. lists' = [p \in Players |-> [l \in Lists |-> Team(p)']] BY <1>1 DEF Together
<1>4. Together' BY <1>2, <1>3 DEF Together
<1> QED BY <1>1, <1>4

LEMMA RotationSame ==
  ASSUME NEW p \in Players, InRotation(p), Team(p)' = Team(p),
         tag_index'[p] = tag_index[p], recent'[p] = recent[p]
  PROVE  InRotation(p)'
<1>1. \A d : Place(p, d)' = Place(p, d) BY DEF Place, Waiting
<1> QED BY <1>1 DEF InRotation, Waiting

LEMMA OrderSame ==
  ASSUME Order, UNCHANGED <<team, force_turn_end, turn_id, duel>>
  PROVE  Order'
<1>1. /\ lists' = lists /\ tag_index' = tag_index /\ exchanges' = exchanges
      /\ recharge' = recharge /\ recent' = recent /\ force_turn_end' = force_turn_end
      /\ turn_id' = turn_id /\ duel' = duel
  BY DEF team
<1>2. Together' /\ \A p \in Players : Team(p)' = Team(p) BY <1>1, TogetherSame DEF Order
<1>3. Remembered' BY <1>1 DEF Order, Remembered
<1>4. ASSUME NEW p \in Players, InLine(p)
      PROVE  InLine(p)'
  <2>1. Team(p)' = Team(p) /\ Exchanged(p)' = Exchanged(p) BY <1>1, <1>2 DEF Exchanged
  <2> QED BY <1>1, <1>4, <2>1 DEF InLine, Waiting
<1>5. \A p \in Players : InRotation(p) => InRotation(p)' BY <1>1, <1>2, RotationSame
<1> QED BY <1>1, <1>2, <1>3, <1>4, <1>5 DEF Order

(* The next duelist comes in. *)
LEMMA RefreshOrder ==
  ASSUME Types, Order, Refresh
  PROVE  Order'
<1>1. PICK p \in Players :
        IF recharge[p]
        THEN /\ lists' = [lists EXCEPT ![p] = Swapped(p, exchanges[p] - 1)]
             /\ recharge' = [recharge EXCEPT ![p] = FALSE]
        ELSE UNCHANGED <<lists, recharge>>
  BY DEF Refresh
<1>2. /\ tag_index' = tag_index /\ exchanges' = exchanges /\ recent' = recent
      /\ force_turn_end' = force_turn_end /\ turn_id' = turn_id /\ duel' = duel
  BY DEF Refresh, clock
<1>3. CASE ~recharge[p] BY <1>1, <1>2, <1>3, OrderSame DEF team
<1>4. CASE recharge[p]
  <2>1. duel.relay /\ \A q \in Players : InLine(q) BY <1>4 DEF Order
  <2>2. /\ exchanges[p] \in Nat /\ TeamSize[p] \in Nat /\ exchanges[p] <= Waiting(p)
        /\ exchanges[p] >= 1 /\ Waiting(p) = TeamSize[p] - 1
        /\ Exchanged(p) = exchanges[p] - 1
        /\ \A j \in 2 .. TeamSize[p] : j > Exchanged(p) + 1 => Team(p)[j] = j - 1
    BY <1>4, <2>1, ConstantsAssumption DEF InLine, Types, Waiting, Exchanged
  <2>3. PICK i \in Nat : i = exchanges[p] - 1 BY <2>2
  <2>4. i + 2 \in 2 .. TeamSize[p] /\ ComesIn(p, i)
    BY <1>1, <1>4, <2>2, <2>3 DEF ComesIn
  <2>5. Together BY DEF Order
  <2>6. /\ Together'
        /\ Team(p)'[1] = Team(p)[i + 2]
        /\ \A j \in 2 .. TeamSize[p] : j # i + 2 => Team(p)'[j] = Team(p)[j]
        /\ \A q \in Players : q # p => Team(q)' = Team(q)
    BY <2>4, <2>5, SwappedTogether
  <2>7. /\ recharge'[p] = FALSE /\ \A q \in Players : q # p => recharge'[q] = recharge[q]
    BY <1>1, <1>4 DEF Types
  <2>8. InLine(p)'
    <3>1. exchanges'[p] = exchanges[p] /\ ~recharge'[p] /\ Exchanged(p)' = exchanges[p]
      BY <1>2, <2>2, <2>7 DEF Exchanged
    <3>2. Team(p)[i + 2] = exchanges[p] BY <2>2, <2>3, <2>4
    <3>3. \A j \in 2 .. TeamSize[p] : j > exchanges[p] + 1 => Team(p)'[j] = j - 1
      BY <2>2, <2>3, <2>6
    <3> QED BY <2>2, <2>6, <3>1, <3>2, <3>3 DEF InLine, Waiting
  <2>9. ASSUME NEW q \in Players, q # p
        PROVE  InLine(q)'
    <3>1. /\ InLine(q) /\ Team(q)' = Team(q) /\ recharge'[q] = recharge[q]
          /\ exchanges'[q] = exchanges[q]
      BY <1>2, <2>1, <2>6, <2>7, <2>9
    <3> QED BY <3>1, <1>2 DEF InLine, Waiting, Exchanged
  <2>10. Remembered' BY <1>2 DEF Order, Remembered
  <2> QED BY <1>2, <2>1, <2>6, <2>8, <2>9, <2>10 DEF Order
<1> QED BY <1>3, <1>4

(* A duelist loses, and another will come in. *)
LEMMA LossOrder ==
  ASSUME Types, Order, Happens, duel' = duel,
         UNCHANGED <<lists, tag_index, recent, turn_id, turn_player>>
  PROVE  Order'
<1>1. CASE UNCHANGED <<force_turn_end, exchanges, recharge>> BY <1>1, OrderSame DEF team
<1>2. CASE \E L : duel.relay /\ ~force_turn_end /\ RelayCheck(L)
  <2>1. PICK L : duel.relay /\ ~force_turn_end /\ RelayCheck(L) BY <1>2
  <2>2. PICK next : /\ next = {p \in L : exchanges[p] < Waiting(p)}
                    /\ exchanges' = [p \in Players |-> exchanges[p] + (IF p \in next THEN 1 ELSE 0)]
                    /\ recharge' = [p \in Players |-> recharge[p] \/ p \in next]
                    /\ force_turn_end' = (next # {})
    BY <2>1 DEF RelayCheck
  <2>3. ASSUME NEW p \in Players
        PROVE  InLine(p)'
    <3>1. InLine(p) /\ ~recharge[p] BY <2>1 DEF Order, InLine
    <3>2. exchanges[p] \in Nat /\ Waiting(p) \in Nat /\ Exchanged(p) = exchanges[p]
      BY <3>1, ConstantsAssumption DEF Types, Waiting, Exchanged
    <3>3. /\ exchanges'[p] = exchanges[p] + (IF p \in next THEN 1 ELSE 0)
          /\ recharge'[p] = (p \in next)
      BY <2>2, <3>1
    <3>4. exchanges'[p] <= Waiting(p) /\ Exchanged(p)' = Exchanged(p)
      <4>1. Exchanged(p)' = exchanges'[p] - (IF recharge'[p] THEN 1 ELSE 0)
        BY DEF Exchanged
      <4>2. CASE p \in next
        <5>1. exchanges'[p] = exchanges[p] + 1 /\ recharge'[p] = TRUE BY <4>2, <3>3
        <5>2. exchanges[p] < Waiting(p) BY <4>2, <2>2
        <5> QED BY <4>1, <5>1, <5>2, <3>2
      <4>3. CASE p \notin next
        <5>1. exchanges'[p] = exchanges[p] BY <4>3, <3>2, <3>3
        <5>2. ~recharge'[p] BY <4>3, <3>3
        <5> QED BY <4>1, <5>1, <5>2, <3>1, <3>2 DEF InLine
      <4> QED BY <4>2, <4>3
    <3>5. recharge'[p] => exchanges'[p] >= 1 /\ force_turn_end'
      <4>1. CASE p \in next
        <5>1. exchanges'[p] = exchanges[p] + 1 /\ force_turn_end' BY <4>1, <2>2, <3>3
        <5> QED BY <5>1, <3>2
      <4>2. CASE p \notin next BY <4>2, <3>3
      <4> QED BY <4>1, <4>2
    <3>6. Team(p)' = Team(p) BY TogetherSame DEF Order
    <3> QED BY <3>1, <3>2, <3>4, <3>5, <3>6 DEF InLine, Waiting
  <2>4. Together' /\ Remembered' BY TogetherSame DEF Order, Remembered
  <2> QED BY <2>1, <2>3, <2>4 DEF Order
<1> QED BY <1>1, <1>2 DEF Happens

(* The next duelist has the turn. *)
LEMMA Wraps ==
  ASSUME NEW k \in Nat, NEW w \in Nat \ {0}, k < w
  PROVE  (k + 1) % w = IF k + 1 < w THEN k + 1 ELSE 0
OBVIOUS

(* The last n turns, with one more. *)
Longer(r, d, n) == IF Len(Append(r, d)) > n THEN Tail(Append(r, d)) ELSE Append(r, d)

LEMMA OneMore ==
  ASSUME NEW S, NEW r \in Seq(S), NEW d \in S, NEW n \in Nat \ {0}, Len(r) <= n
  PROVE  LET new == Longer(r, d, n)
         IN /\ new \in Seq(S) /\ new # <<>> /\ Len(new) <= n
            /\ new[Len(new)] = d /\ Len(new) <= Len(r) + 1
            /\ \A e \in 1 .. Len(new) - 1 : new[Len(new) - e] = r[Len(r) - (e - 1)]
<1> DEFINE all == Append(r, d)
<1>1. all \in Seq(S) /\ Len(all) = Len(r) + 1 /\ all[Len(r) + 1] = d
      /\ \A i \in 1 .. Len(r) : all[i] = r[i]
  BY AppendProperties
<1> HIDE DEF all
<1>2. CASE Len(all) > n
  <2>1. PICK m : m = Tail(all) OBVIOUS
  <2>2. m \in Seq(S) /\ Len(m) = Len(all) - 1 /\ \A i \in 1 .. Len(m) : m[i] = all[i + 1]
    <3>1. all # <<>> BY <1>1
    <3> QED BY <1>1, <2>1, <3>1, HeadTailProperties
  <2>3. Len(m) = n /\ Len(r) = n /\ m # <<>> /\ m[n] = d BY <1>1, <1>2, <2>2
  <2>4. ASSUME NEW e \in 1 .. Len(m) - 1
        PROVE  m[Len(m) - e] = r[Len(r) - (e - 1)]
    BY <1>1, <2>2, <2>3
  <2> QED BY SMTT(20), <1>2, <2>1, <2>2, <2>3, <2>4 DEF all, Longer
<1>3. CASE ~(Len(all) > n)
  <2>1. all # <<>> /\ Len(all) <= n BY <1>1, <1>3
  <2>2. ASSUME NEW e \in 1 .. Len(all) - 1
        PROVE  all[Len(all) - e] = r[Len(r) - (e - 1)]
    BY <1>1
  <2> QED BY <1>1, <1>3, <2>1, <2>2 DEF all, Longer
<1> QED BY <1>2, <1>3

(* The seats of those who had the last turns move on with the tag_index. *)
LEMMA Seats ==
  ASSUME NEW k \in Nat, NEW w \in Nat \ {0}, k < w,
         NEW n \in Nat, n = IF k + 1 < w THEN k + 1 ELSE 0
  PROVE  /\ Seat(n, w, 1) = k + 2
         /\ \A e \in 2 .. w :
              /\ Seat(n, w, e) = Seat(k, w, e - 1)
              /\ Seat(n, w, e) \in 2 .. w + 1 /\ Seat(n, w, e) # k + 2
<1>1. CASE k + 1 < w BY <1>1 DEF Seat
<1>2. CASE ~(k + 1 < w) BY <1>2 DEF Seat
<1> QED BY <1>1, <1>2

(* A tag team in which the next duelist has come in, and has the turn. *)
LEMMA RotationGoesOn ==
  ASSUME Types, Together, Remembered, Together', NEW p \in Players, InRotation(p),
         recent'[p] = LastTurns(p, Team(p)'[1]),
         turn_id = 0 \/ Waiting(p) = 0 \/ ComesIn(p, tag_index[p]),
         tag_index'[p] = IF turn_id = 0 \/ Waiting(p) = 0 THEN tag_index[p] ELSE NextTagIndex(p)
  PROVE  InRotation(p)' /\ recent'[p] \in Seq(0 .. TeamSize[p] - 1)
<1> DEFINE r == recent[p]
           n == TeamSize[p]
           f == Team(p)'
           d == Team(p)'[1]
           new == recent'[p]
<1>1. /\ n \in Nat \ {0} /\ r \in Seq(0 .. n - 1) /\ Len(r) <= n
      /\ tag_index[p] = 0 \/ tag_index[p] < Waiting(p)
      /\ Waiting(p) = n - 1 /\ Waiting(p)' = Waiting(p) /\ Waiting(p) \in Nat
      /\ r # <<>> => r[Len(r)] = Team(p)[1]
      /\ \A e \in 1 .. Len(r) - 1 : r[Len(r) - e] = Team(p)[Place(p, e)]
      /\ tag_index[p] \in Nat
  BY ConstantsAssumption DEF InRotation, Remembered, Waiting, Types
<1>2. f \in [1 .. n -> 0 .. n - 1] /\ d \in 0 .. n - 1
  <2>1. Permutes(f, n) BY DEF Together
  <2> QED BY <2>1, <1>1 DEF Permutes
<1> HIDE DEF r, n, f, d
<1>3. /\ new \in Seq(0 .. n - 1) /\ new # <<>> /\ Len(new) <= n /\ Len(new) <= Len(r) + 1
      /\ new[Len(new)] = d
      /\ \A e \in 1 .. Len(new) - 1 : new[Len(new) - e] = r[Len(r) - (e - 1)]
  <2>1. new = Longer(r, d, n) BY DEF LastTurns, Longer, r, n, d
  <2>2. PICK S : S = 0 .. n - 1 OBVIOUS
  <2>3. r \in Seq(S) /\ d \in S /\ n \in Nat \ {0} /\ Len(r) <= n BY <2>2, <1>1, <1>2
  <2>4. PICK m : m = Longer(r, d, n) OBVIOUS
  <2>5. /\ m \in Seq(S) /\ m # <<>> /\ Len(m) <= n
        /\ m[Len(m)] = d /\ Len(m) <= Len(r) + 1
        /\ \A e \in 1 .. Len(m) - 1 : m[Len(m) - e] = r[Len(r) - (e - 1)]
    BY <2>3, <2>4, OneMore
  <2>6. new = m BY <2>1, <2>4
  <2> HIDE DEF new
  <2> QED BY <2>2, <2>5, <2>6
<1>4. CASE turn_id = 0 \/ Waiting(p) = 0
  <2>1. Len(new) <= 1
    <3>1. CASE turn_id = 0
      <4>1. r = <<>> BY <3>1 DEF Remembered, r
      <4> QED BY <4>1, <1>3
    <3>2. CASE Waiting(p) = 0 BY <3>2, <1>1, <1>3
    <3> QED BY <1>4, <3>1, <3>2
  <2>2. tag_index'[p] = tag_index[p] /\ Len(new) \in Nat BY <1>3, <1>4
  <2>3. 1 .. Len(new) - 1 = {} BY <2>1, <2>2
  <2> QED BY <2>2, <2>3, <1>1, <1>3 DEF InRotation, n, d
<1>5. CASE ~(turn_id = 0 \/ Waiting(p) = 0)
  <2>1. PICK k \in Nat : k = tag_index[p] BY <1>1
  <2>2. PICK w \in Nat \ {0} : w = Waiting(p) BY <1>1, <1>5
  <2>3. PICK m \in Nat : m = IF k + 1 < w THEN k + 1 ELSE 0 OBVIOUS
  <2>4. k < w /\ k + 2 \in 2 .. n /\ w = n - 1 BY <1>1, <2>1, <2>2
  <2>5. tag_index'[p] = m
    <3>1. tag_index'[p] = (k + 1) % w BY <1>5, <2>1, <2>2 DEF NextTagIndex
    <3> QED BY <2>3, <2>4, <3>1, Wraps
  <2>6. /\ f[1] = Team(p)[k + 2] /\ f[k + 2] = Team(p)[1]
        /\ \A j \in 2 .. n : j # k + 2 => f[j] = Team(p)[j]
    <3>1. ComesIn(p, k) BY <1>5, <2>1
    <3>2. k + 2 \in 2 .. TeamSize[p] BY <2>4 DEF n
    <3>3. /\ Team(p)'[1] = Team(p)[k + 2] /\ Team(p)'[k + 2] = Team(p)[1]
          /\ \A j \in 2 .. TeamSize[p] : j # k + 2 => Team(p)'[j] = Team(p)[j]
      BY <3>1, <3>2, SwappedTogether
    <3> QED BY <3>3 DEF f, n
  <2>7. m = 0 \/ m < w BY <2>3
  <2>8. \A e : Place(p, e)' = Seat(m, w, e) /\ Place(p, e) = Seat(k, w, e)
    BY <1>1, <2>1, <2>2, <2>5 DEF Place
  <2>9. /\ Seat(m, w, 1) = k + 2
        /\ \A e \in 2 .. w :
             /\ Seat(m, w, e) = Seat(k, w, e - 1)
             /\ Seat(m, w, e) \in 2 .. w + 1 /\ Seat(m, w, e) # k + 2
    BY ZenonT(30), <2>3, <2>4, Seats
  <2>10. ASSUME NEW e \in 1 .. Len(new) - 1
         PROVE  new[Len(new) - e] = f[Seat(m, w, e)]
    <3>1. new[Len(new) - e] = r[Len(r) - (e - 1)] BY <1>3
    <3>2. CASE e = 1
      <4>1. Len(r) >= 1 /\ r # <<>> BY <1>1, <1>3, <3>2
      <4>2. r[Len(r)] = Team(p)[1] /\ Len(r) - (e - 1) = Len(r) BY <4>1, <3>2, <1>1
      <4> QED BY <4>2, <3>1, <3>2, <2>6, <2>9
    <3>3. CASE e # 1
      <4>1. e - 1 \in 1 .. Len(r) - 1 /\ e \in 2 .. w BY <1>1, <1>3, <2>4, <3>3
      <4>2. r[Len(r) - (e - 1)] = Team(p)[Seat(k, w, e - 1)] BY <4>1, <1>1, <2>8
      <4>3. /\ Seat(m, w, e) = Seat(k, w, e - 1) /\ Seat(m, w, e) \in 2 .. n
            /\ Seat(m, w, e) # k + 2
        BY <4>1, <1>1, <2>4, <2>9
      <4> QED BY <4>2, <4>3, <3>1, <2>6
    <3> QED BY <3>2, <3>3
  <2>11. \A e \in 1 .. Len(new) - 1 : new[Len(new) - e] = f[Place(p, e)'] BY <2>8, <2>10
  <2> QED BY <1>1, <1>3, <2>2, <2>5, <2>7, <2>11 DEF InRotation, n, d, f
<1> QED BY <1>4, <1>5

LEMMA NewTurnOrder ==
  ASSUME Types, Stack, Order, NewTurn
  PROVE  Order'
<1>1. PICK p : p = Front.player OBVIOUS
<1>2. p \in Players /\ \A q \in Players : ~recharge[q]
  <2>1. /\ Front.kind = "Turn" /\ Front.step = 1 /\ Front \in Units
        /\ InPlace(Front, recharge)
    BY Pop DEF NewTurn, At, Stack, Front
  <2>2. Front \in TurnUnits BY <2>1, Kinds
  <2> QED BY <1>1, <2>1, <2>2 DEF InPlace, TurnUnits
<1>3. /\ turn_id' # 0 /\ exchanges' = exchanges /\ recharge' = recharge /\ duel' = duel
      /\ Together /\ Remembered
  BY DEF NewTurn, Order
<1>4. CASE duel.relay
  <2>1. lists' = lists /\ recent' = recent BY <1>4 DEF NewTurn
  <2>2. Together' /\ (\A q \in Players : Team(q)' = Team(q)) /\ Remembered'
    BY <2>1, <1>3, TogetherSame DEF Remembered
  <2>3. ASSUME NEW q \in Players
        PROVE  InLine(q)'
    <3>1. InLine(q) /\ ~recharge'[q] BY <1>2, <1>3, <1>4 DEF Order
    <3>2. Exchanged(q)' = Exchanged(q) BY <1>3 DEF Exchanged
    <3> QED BY <1>3, <2>2, <3>1, <3>2 DEF InLine, Waiting
  <2> QED BY <1>3, <1>4, <2>2, <2>3 DEF Order
<1>5. CASE ~duel.relay
  <2>1. /\ recent' = [recent EXCEPT ![p] = LastTurns(p, lists'[p]["main"][1])]
        /\ IF turn_id = 0 THEN UNCHANGED <<lists, tag_index>> ELSE TagSwap(p)
    BY <1>1, <1>5 DEF NewTurn
  <2>2. \A q \in Players : InRotation(q) BY <1>5 DEF Order
  <2>3. /\ recent' = [q \in Players |-> recent'[q]]
        /\ recent'[p] = LastTurns(p, Team(p)'[1])
        /\ \A q \in Players : q # p => recent'[q] = recent[q]
    <3>1. PICK x : x = LastTurns(p, lists'[p]["main"][1]) OBVIOUS
    <3>2. recent' = [recent EXCEPT ![p] = x] /\ recent = [q \in Players |-> recent[q]]
      BY <2>1, <3>1, <1>3 DEF Remembered
    <3>3. x = LastTurns(p, Team(p)'[1]) BY <3>1 DEF Team
    <3>4. /\ recent' = [q \in Players |-> recent'[q]] /\ recent'[p] = x
          /\ \A q \in Players : q # p => recent'[q] = recent[q]
      BY <3>2, <1>2
    <3> QED BY <3>3, <3>4
  <2>4. /\ Together' /\ \A q \in Players : q # p => Team(q)' = Team(q) /\ tag_index'[q] = tag_index[q]
        /\ turn_id = 0 \/ Waiting(p) = 0 \/ ComesIn(p, tag_index[p])
        /\ tag_index'[p] = IF turn_id = 0 \/ Waiting(p) = 0 THEN tag_index[p] ELSE NextTagIndex(p)
    <3>1. CASE turn_id = 0 \/ Waiting(p) = 0
      <4>1. lists' = lists /\ tag_index' = tag_index BY <2>1, <3>1 DEF TagSwap
      <4> QED BY <4>1, <3>1, <1>3, TogetherSame
    <3>2. CASE ~(turn_id = 0 \/ Waiting(p) = 0)
      <4>1. ComesIn(p, tag_index[p]) /\ tag_index' = [tag_index EXCEPT ![p] = NextTagIndex(p)]
        BY <2>1, <3>2 DEF TagSwap, ComesIn
      <4>2. tag_index[p] \in Nat /\ tag_index[p] + 2 \in 2 .. TeamSize[p]
        <5>1. tag_index[p] \in Nat /\ TeamSize[p] \in Nat \ {0}
          BY <1>2, ConstantsAssumption DEF Types
        <5>2. tag_index[p] < Waiting(p)
          <6>1. Waiting(p) > 0 BY <5>1, <3>2 DEF Waiting
          <6> QED BY <6>1, <2>2, <1>2 DEF InRotation
        <5> QED BY <5>1, <5>2 DEF Waiting
      <4>3. Together' /\ \A q \in Players : q # p => Team(q)' = Team(q)
        BY <4>1, <4>2, <1>2, <1>3, SwappedTogether
      <4>4. /\ \A q \in Players : q # p => tag_index'[q] = tag_index[q]
            /\ tag_index'[p] = NextTagIndex(p)
        BY <4>1, <1>2 DEF Types
      <4> QED BY <4>1, <4>3, <4>4, <3>2
    <3> QED BY <3>1, <3>2
  <2>5. InRotation(p)' /\ recent'[p] \in Seq(0 .. TeamSize[p] - 1)
    BY <1>2, <1>3, <2>2, <2>3, <2>4, RotationGoesOn
  <2>6. \A q \in Players : q # p => InRotation(q)' BY <2>2, <2>3, <2>4, RotationSame
  <2>7. Remembered' BY <1>3, <2>3, <2>5 DEF Remembered
  <2> QED BY <1>2, <1>3, <1>5, <2>4, <2>5, <2>6, <2>7 DEF Order
<1> QED BY <1>4, <1>5

(* Every step keeps the order. *)
LEMMA OrderKept ==
  ASSUME Types, Stack, Order, [Next]_vars
  PROVE  Order'
<1>1. CASE UNCHANGED vars BY <1>1, OrderSame DEF vars, clock
<1>2. CASE Next
  <2>1. duel' = duel BY <1>2, CountsTyped
  <2> QED BY <1>2, <2>1, TeamSteps, OrderSame, RefreshOrder, LossOrder, NewTurnOrder
<1> QED BY <1>1, <1>2

-----------------------------------------------------------------------------
(* The resets. *)

(* What is owed by a stack with u on top. *)
LEMMA OwedOnTop ==
  ASSUME NEW S, NEW u \in S, NEW t \in Seq(S), NEW s
  PROVE  /\ \A x : OwedBy(<<u>> \o t, s, x) <=> Owes(u, s, x) \/ OwedBy(t, s, x)
         /\ \A ph : Calm(<<u>> \o t, s, ph) <=>
              /\ ~Saves(u) /\ (u.kind = "Idle" => ph = MainOf(s))
              /\ Calm(t, s, ph)
              /\ \A x \in Counted : ~(Owes(u, s, x) /\ OwedBy(t, s, x))
<1> DEFINE us == <<u>> \o t
<1>1. /\ Len(us) = Len(t) + 1 /\ Len(t) \in Nat /\ us[1] = u
      /\ \A i \in 1 .. Len(t) : us[i + 1] = t[i]
  BY Topped
<1> HIDE DEF us
<1>2. \A i \in 1 .. Len(us) : i = 1 \/ (i - 1 \in 1 .. Len(t) /\ us[i] = t[i - 1])
  <2> TAKE i \in 1 .. Len(us)
  <2>1. i = 1 \/ (i - 1 \in 1 .. Len(t) /\ (i - 1) + 1 = i) BY <1>1
  <2> QED BY <1>1, <2>1
<1>3. 1 \in 1 .. Len(us) /\ \A i \in 1 .. Len(t) : i + 1 \in 1 .. Len(us) /\ i + 1 # 1
  BY <1>1
<1>4. \A x : OwedBy(us, s, x) <=> Owes(u, s, x) \/ OwedBy(t, s, x)
  BY <1>1, <1>2, <1>3 DEF OwedBy
<1>5. ASSUME NEW ph, Calm(us, s, ph)
      PROVE  /\ ~Saves(u) /\ (u.kind = "Idle" => ph = MainOf(s))
             /\ Calm(t, s, ph)
             /\ \A x \in Counted : ~(Owes(u, s, x) /\ OwedBy(t, s, x))
  <2>1. ~Saves(u) /\ (u.kind = "Idle" => ph = MainOf(s)) BY <1>1, <1>3, <1>5 DEF Calm
  <2>2. \A i \in 1 .. Len(t) : ~Saves(t[i]) /\ (t[i].kind = "Idle" => ph = MainOf(s))
    BY <1>1, <1>3, <1>5 DEF Calm
  <2>3. ASSUME NEW x \in Counted, NEW i \in 1 .. Len(t), NEW j \in 1 .. Len(t),
               Owes(t[i], s, x), Owes(t[j], s, x)
        PROVE  i = j
    <3>1. i + 1 = j + 1 BY <1>1, <1>3, <1>5, <2>3 DEF Calm
    <3> QED BY <3>1
  <2>4. ASSUME NEW x \in Counted, Owes(u, s, x), OwedBy(t, s, x)
        PROVE  FALSE
    <3>1. PICK i \in 1 .. Len(t) : Owes(t[i], s, x) BY <2>4 DEF OwedBy
    <3>2. i + 1 = 1 BY <1>1, <1>3, <1>5, <2>4, <3>1 DEF Calm
    <3> QED BY <3>2, <1>3
  <2> QED BY <2>1, <2>2, <2>3, <2>4 DEF Calm
<1>6. ASSUME NEW ph, ~Saves(u), u.kind = "Idle" => ph = MainOf(s), Calm(t, s, ph),
             \A x \in Counted : ~(Owes(u, s, x) /\ OwedBy(t, s, x))
      PROVE  Calm(us, s, ph)
  <2>1. \A i \in 1 .. Len(us) : ~Saves(us[i]) /\ (us[i].kind = "Idle" => ph = MainOf(s))
    BY <1>1, <1>2, <1>6 DEF Calm
  <2>2. ASSUME NEW x \in Counted, NEW i \in 1 .. Len(us), NEW j \in 1 .. Len(us),
               Owes(us[i], s, x), Owes(us[j], s, x)
        PROVE  i = j
    <3>1. CASE i = 1 \/ j = 1 BY <3>1, <1>1, <1>2, <1>6, <2>2 DEF OwedBy
    <3>2. CASE i # 1 /\ j # 1
      <4>1. /\ i - 1 \in 1 .. Len(t) /\ us[i] = t[i - 1]
            /\ j - 1 \in 1 .. Len(t) /\ us[j] = t[j - 1]
        BY <3>2, <1>2
      <4>2. i - 1 = j - 1 BY <4>1, <1>6, <2>2 DEF Calm
      <4> QED BY <4>2
    <3> QED BY <3>1, <3>2
  <2> QED BY <2>1, <2>2 DEF Calm
<1>7. \A ph : Calm(us, s, ph) <=>
              /\ ~Saves(u) /\ (u.kind = "Idle" => ph = MainOf(s))
              /\ Calm(t, s, ph)
              /\ \A x \in Counted : ~(Owes(u, s, x) /\ OwedBy(t, s, x))
  BY <1>5, <1>6
<1> QED BY <1>4, <1>7 DEF us

(* The turn itself owes nothing, nor do helpers and questions. *)
Free(u) == u \in Units /\ u.kind \in {"Effects", "Point", "Forced", "Ask", "Relay"} /\ ~Saves(u)

LEMMA OwedBelow ==
  ASSUME NEW S, NEW u \in S, Free(u), NEW t \in Seq(S), NEW s
  PROVE  /\ \A x : OwedBy(<<u>> \o t, s, x) <=> OwedBy(t, s, x)
         /\ \A ph : Calm(<<u>> \o t, s, ph) <=> Calm(t, s, ph)
<1>1. ~Saves(u) /\ u.kind # "Idle" /\ \A x : ~Owes(u, s, x) BY DEF Free, Owes
<1> QED BY <1>1, OwedOnTop

LEMMA OwedByTurn ==
  ASSUME NEW u \in TurnUnits, NEW s
  PROVE  \A x : ~OwedBy(<<u>>, s, x) /\ Calm(<<u>>, s, x)
<1>1. u.kind = "Turn" /\ Len(<<u>>) = 1 /\ <<u>>[1] = u BY DEF TurnUnits
<1>2. ~Saves(u) /\ \A x : ~Owes(u, s, x) BY <1>1 DEF Saves, Owes
<1> QED BY <1>1, <1>2 DEF OwedBy, Calm

(* What is at the bottom stays there. *)
Bottom(us) == us[Len(us)]

LEMMA BottomOnTop ==
  ASSUME NEW S, NEW u \in S, NEW t \in Seq(S), t # <<>>
  PROVE  Bottom(<<u>> \o t) = Bottom(t) /\ <<u>> \o t \in Seq(S) /\ <<u>> \o t # <<>>
<1>1. /\ Len(<<u>> \o t) = Len(t) + 1 /\ Len(t) \in Nat
      /\ \A i \in 1 .. Len(t) : (<<u>> \o t)[i + 1] = t[i]
  BY Topped
<1>2. Len(t) \in 1 .. Len(t)
  <2>1. Len(t) # 0 BY EmptySeq
  <2> QED BY <1>1, <2>1
<1> QED BY <1>1, <1>2, Topped DEF Bottom

(* Only Idle, Battle and Phase are of account. *)
LEMMA Freely ==
  ASSUME NEW S, Units \subseteq S, NEW t \in Seq(S), t # <<>>, NEW s, NEW batch,
         batch \in Batches \cup {<<RefreshRelay>>} \/ \E c \in SUBSET (-1 .. 8) : batch = <<Ask(c)>>
  PROVE  /\ \A x : OwedBy(batch \o t, s, x) <=> OwedBy(t, s, x)
         /\ \A ph : Calm(batch \o t, s, ph) <=> Calm(t, s, ph)
         /\ Bottom(batch \o t) = Bottom(t)
<1>1. CASE batch = <<>>
  <2>1. batch \o t = t BY <1>1, ConcatEmptySeq
  <2> QED BY <2>1
<1>2. ASSUME NEW u \in Units, Free(u), batch = <<u>>
      PROVE  /\ \A x : OwedBy(batch \o t, s, x) <=> OwedBy(t, s, x)
             /\ \A ph : Calm(batch \o t, s, ph) <=> Calm(t, s, ph)
             /\ Bottom(batch \o t) = Bottom(t)
  BY <1>2, OwedBelow, BottomOnTop
<1>3. Free(Effects) /\ Free(PointEvent) /\ Free(ForcedBattle)
  BY Helpers DEF Helper, Free
<1>4. CASE batch = SolveChain
  <2>1. PICK us : us = <<PointEvent>> \o t OBVIOUS
  <2>2. /\ us \in Seq(S) /\ us # <<>> /\ Bottom(us) = Bottom(t)
        /\ \A x : OwedBy(us, s, x) <=> OwedBy(t, s, x)
        /\ \A ph : Calm(us, s, ph) <=> Calm(t, s, ph)
    BY <1>3, <2>1, OwedBelow, BottomOnTop DEF Free
  <2>3. batch \o t = <<Effects>> \o us
    BY SMTT(20), <1>3, <1>4, <2>1, TwoTopped DEF Free, SolveChain
  <2>4. /\ Bottom(<<Effects>> \o us) = Bottom(us)
        /\ \A x : OwedBy(<<Effects>> \o us, s, x) <=> OwedBy(us, s, x)
        /\ \A ph : Calm(<<Effects>> \o us, s, ph) <=> Calm(us, s, ph)
    BY <1>3, <2>2, OwedBelow, BottomOnTop DEF Free
  <2> QED BY <2>2, <2>3, <2>4
<1>5. ASSUME NEW c \in SUBSET (-1 .. 8), batch = <<Ask(c)>>
      PROVE  \E u : Free(u) /\ batch = <<u>>
  <2>1. PICK q : q = Ask(c) OBVIOUS
  <2>2. q \in Units /\ q.kind = "Ask" BY <2>1 DEF Ask, Units, OtherUnits
  <2>3. Free(q) BY <2>2 DEF Free, Saves
  <2> QED BY <1>5, <2>1, <2>3
<1>6. Free(RefreshRelay)
  <2>1. PICK q : q = RefreshRelay OBVIOUS
  <2>2. q \in Units /\ q.kind = "Relay" BY <2>1 DEF RefreshRelay, Units, OtherUnits
  <2> QED BY <2>1, <2>2 DEF Free, Saves
<1>7. batch = <<>> \/ batch = SolveChain \/ \E u : Free(u) /\ batch = <<u>>
  BY <1>3, <1>5, <1>6 DEF Batches
<1> QED BY <1>1, <1>2, <1>4, <1>7 DEF Free

(* Making a reset that was owed, or forgoing it. *)
LEMMA Room ==
  ASSUME NEW t \in TurnUnits, NEW o \in [Counted -> 0 .. 1], NEW r \in [Counted -> 0 .. 3],
         NEW b \in Nat, Tally(t, o, r, b)
  PROVE  \A x \in Counted : o[x] = 1 => r[x] < 3
<1>1. PICK s \in 0 .. 20 : s = t.step BY DEF TurnUnits
<1>2. Counted = {"DRAW", "STANDBY", "MAIN1", "BATTLE_START", "BATTLE_STEP", "BATTLE", "MAIN2", "END"}
  BY DEF Counted, Phases
<1>3. \A x \in Counted : o[x] \in 0 .. 1 /\ r[x] \in 0 .. 3 OBVIOUS
<1> SUFFICES ASSUME NEW x \in Counted, o[x] = 1
             PROVE  r[x] < 3
  OBVIOUS
<1>4. s = Falls(x) BY <1>1 DEF Tally
<1>5. CASE x \in {"DRAW", "STANDBY", "END"} BY <1>1, <1>2, <1>3, <1>4, <1>5 DEF Tally
<1>6. CASE x \in {"MAIN1", "MAIN2"} BY <1>1, <1>2, <1>3, <1>6 DEF Tally
<1>7. CASE x \in {"BATTLE_START", "BATTLE_STEP", "BATTLE"}
  <2>1. r["MAIN1"] <= 1 /\ b <= 2 * r["MAIN1"] /\ r["MAIN1"] \in 0 .. 3 /\ s \in {12, 13}
    BY <1>1, <1>2, <1>3, <1>4, <1>7 DEF Tally, Falls
  <2>2. r[x] <= b BY <1>1, <1>2, <1>3, <1>7, <2>1 DEF Tally
  <2> QED BY <2>1, <2>2, <1>3
<1> QED BY <1>2, <1>5, <1>6, <1>7

LEMMA Settling ==
  ASSUME NEW t \in TurnUnits, NEW o \in [Counted -> 0 .. 1], NEW r \in [Counted -> 0 .. 3],
         NEW b \in Nat, Tally(t, o, r, b),
         NEW p \in [Counted -> 0 .. 1], NEW q \in [Counted -> 0 .. 3],
         \A x \in Counted : /\ p[x] <= o[x]
                            /\ q[x] + p[x] <= r[x] + o[x]
                            /\ x # "BATTLE_STEP" => q[x] + p[x] = r[x] + o[x]
  PROVE  Tally(t, p, q, b)
<1>1. PICK s \in 0 .. 20 : s = t.step BY DEF TurnUnits
<1>2. Counted = {"DRAW", "STANDBY", "MAIN1", "BATTLE_START", "BATTLE_STEP", "BATTLE", "MAIN2", "END"}
  BY DEF Counted, Phases
<1>3. \A x \in Counted : /\ o[x] \in 0 .. 1 /\ r[x] \in 0 .. 3
                         /\ p[x] \in 0 .. 1 /\ q[x] \in 0 .. 3
  OBVIOUS
<1>4. \A x \in Counted : (p[x] = 1 => s = Falls(x)) /\ (o[x] = 1 => s = Falls(x))
  BY <1>1, <1>3 DEF Tally
<1>5. ASSUME NEW x \in {"DRAW", "STANDBY", "END"}
      PROVE  q[x] = IF s < Falls(x) THEN 0 ELSE 1 - p[x]
  <2>1. r[x] = IF s < Falls(x) THEN 0 ELSE 1 - o[x] BY <1>1 DEF Tally
  <2>2. Falls(x) \in 0 .. 20 /\ x \in Counted /\ x # "BATTLE_STEP" BY <1>2 DEF Falls
  <2> QED BY <1>3, <1>4, <2>1, <2>2
<1>6. /\ s < 10 => q["MAIN1"] = 0
      /\ s \in 10 .. 18 => q["MAIN1"] = 1 - p["MAIN1"]
      /\ q["MAIN1"] <= 1 /\ q["MAIN1"] >= r["MAIN1"]
  <2>1. /\ s < 10 => r["MAIN1"] = 0
        /\ s \in 10 .. 18 => r["MAIN1"] = 1 - o["MAIN1"]
        /\ r["MAIN1"] <= 1
    BY <1>1 DEF Tally
  <2>2. "MAIN1" \in Counted /\ Falls("MAIN1") = 10 BY <1>2 DEF Falls
  <2> QED BY <1>3, <1>4, <2>1, <2>2
<1>7. q["MAIN2"] <= IF s < 16 THEN 0 ELSE q["MAIN1"] - p["MAIN2"]
  <2>1. r["MAIN2"] <= IF s < 16 THEN 0 ELSE r["MAIN1"] - o["MAIN2"] BY <1>1 DEF Tally
  <2>2. "MAIN1" \in Counted /\ "MAIN2" \in Counted /\ Falls("MAIN2") = 16
    BY <1>2 DEF Falls
  <2> QED BY <1>3, <1>4, <1>6, <2>1, <2>2
<1>8. b <= 2 * q["MAIN1"]
  <2>1. b <= 2 * r["MAIN1"] BY <1>1 DEF Tally
  <2>2. "MAIN1" \in Counted BY <1>2
  <2> QED BY <1>3, <1>6, <2>1, <2>2
<1>9. /\ q["BATTLE_START"] = b - (IF s = 11 THEN 1 ELSE p["BATTLE_START"])
      /\ q["BATTLE"] = b - (IF s \in 11 .. 12 THEN 1 ELSE 0) - p["BATTLE"]
      /\ q["BATTLE_STEP"] <= b - (IF s \in 11 .. 12 THEN 1 ELSE 0) - p["BATTLE_STEP"]
  <2>1. /\ r["BATTLE_START"] = b - (IF s = 11 THEN 1 ELSE o["BATTLE_START"])
        /\ r["BATTLE"] = b - (IF s \in 11 .. 12 THEN 1 ELSE 0) - o["BATTLE"]
        /\ r["BATTLE_STEP"] <= b - (IF s \in 11 .. 12 THEN 1 ELSE 0) - o["BATTLE_STEP"]
    BY <1>1 DEF Tally
  <2>2. /\ "BATTLE_START" \in Counted /\ "BATTLE" \in Counted /\ "BATTLE_STEP" \in Counted
        /\ Falls("BATTLE_START") = 12 /\ "BATTLE_START" # "BATTLE_STEP" /\ "BATTLE" # "BATTLE_STEP"
    BY <1>2 DEF Falls
  <2>3. q["BATTLE_START"] = b - (IF s = 11 THEN 1 ELSE p["BATTLE_START"])
    BY <1>3, <1>4, <2>1, <2>2
  <2>4. q["BATTLE"] = b - (IF s \in 11 .. 12 THEN 1 ELSE 0) - p["BATTLE"]
    BY <1>3, <2>1, <2>2
  <2>5. q["BATTLE_STEP"] <= b - (IF s \in 11 .. 12 THEN 1 ELSE 0) - p["BATTLE_STEP"]
    BY <1>3, <2>1, <2>2
  <2> QED BY <2>3, <2>4, <2>5
<1>10. /\ s = 10 => b = 0 \/ (b = 1 /\ t.has_performed_second_battle_phase)
       /\ s \in 11 .. 13 => b = 1 \/ (b = 2 /\ t.has_performed_second_battle_phase)
  BY <1>1 DEF Tally
<1> QED BY <1>1, <1>4, <1>5, <1>6, <1>7, <1>8, <1>9, <1>10 DEF Tally

(* The turn below a unit that runs, and what is owed there. *)
Below == Tail(units)
Step == Bottom(units).step
Account ==
  /\ Below \in Seq(Units) /\ Below # <<>> /\ Bottom(Below) = Bottom(units)
  /\ Bottom(units) \in TurnUnits
  /\ Front \in Units /\ ~Saves(Front) /\ Fits(Front, Head(Below))
  /\ Front.kind = "Idle" => phase = MainOf(Step)
  /\ Calm(Below, Step, phase)
  /\ \A x \in Counted : ~(Owes(Front, Step, x) /\ OwedBy(Below, Step, x))
  /\ \A x \in Counted : OwedBy(units, Step, x) <=> Owes(Front, Step, x) \/ OwedBy(Below, Step, x)
  /\ Tally(Bottom(units), Owed(units, Step), resets, battle_phase_count)

LEMMA Accounts ==
  ASSUME Types, Stack, Resets, ~interrupted, Front.kind # "Turn"
  PROVE  Account
<1>1. PICK u : u = Front OBVIOUS
<1>2. PICK t : t = Below OBVIOUS
<1>3. /\ units = <<u>> \o t /\ u \in Units /\ t \in Seq(Units) /\ t # <<>>
      /\ Fits(u, Head(t)) /\ units \in Seq(Units) /\ units # <<>>
      /\ Bottom(units).kind = "Turn"
  BY <1>1, <1>2, Pop DEF Stack, Front, Below, Sound, Bottom
<1>4. Bottom(t) = Bottom(units) BY <1>3, BottomOnTop
<1>5. Bottom(units) \in TurnUnits
  <2>1. Len(units) \in 1 .. Len(units) BY <1>3, EmptySeq, LenProperties
  <2>2. Bottom(units) \in Units BY <1>3, <2>1, ElementOfSeq DEF Bottom
  <2> QED BY <1>3, <2>2, Kinds
<1>6. /\ Calm(units, Step, phase)
      /\ Tally(Bottom(units), Owed(units, Step), resets, battle_phase_count)
  BY DEF Resets, Bottom, Step, At
<1>7. /\ \A x : OwedBy(units, Step, x) <=> Owes(u, Step, x) \/ OwedBy(t, Step, x)
      /\ ~Saves(u) /\ (u.kind = "Idle" => phase = MainOf(Step))
      /\ Calm(t, Step, phase)
      /\ \A x \in Counted : ~(Owes(u, Step, x) /\ OwedBy(t, Step, x))
  BY <1>3, <1>6, OwedOnTop
<1> QED BY <1>1, <1>2, <1>3, <1>4, <1>5, <1>6, <1>7 DEF Account

(* A unit that runs makes the resets of S, and those of Q remain. *)
LEMMA Recorded ==
  ASSUME Types, Account, ~interrupted, battle_phase_count' = battle_phase_count,
         NEW S \in SUBSET Counted, (S = {} /\ resets' = resets) \/ Reset(S),
         NEW Q \in SUBSET Counted,
         \A x \in Counted : OwedBy(units', Step, x) <=> x \in Q \/ OwedBy(Below, Step, x),
         \A x \in S \cup Q : Owes(Front, Step, x),
         \A x \in S : x \notin Q,
         \A x \in Counted : Owes(Front, Step, x) => x \in S \cup Q \cup {"BATTLE_STEP"},
         Calm(units', Step, phase'), Bottom(units') = Bottom(units)
  PROVE  Resets'
<1>1. PICK t : t = Bottom(units) OBVIOUS
<1>2. PICK o : o = Owed(units, Step) OBVIOUS
<1>3. PICK p : p = [x \in Counted |-> IF OwedBy(units', Step, x) THEN 1 ELSE 0] OBVIOUS
<1>4. PICK r : r = resets OBVIOUS
<1>5. PICK q : q = [x \in Counted |-> IF x \in S THEN r[x] + 1 ELSE r[x]] OBVIOUS
<1>6. /\ t \in TurnUnits /\ r \in [Counted -> 0 .. 3]
      /\ Tally(t, o, r, battle_phase_count) /\ battle_phase_count \in Nat
  BY <1>1, <1>2, <1>4 DEF Account, Types
<1>7. /\ o \in [Counted -> 0 .. 1] /\ p \in [Counted -> 0 .. 1]
      /\ \A x \in Counted : /\ o[x] = 1 <=> OwedBy(units, Step, x)
                            /\ p[x] = 1 <=> OwedBy(units', Step, x)
  BY <1>2, <1>3 DEF Owed
<1>8. ASSUME NEW x \in Counted
      PROVE  /\ p[x] <= o[x] /\ (x \in S => r[x] < 3 /\ o[x] = 1 /\ p[x] = 0)
             /\ x \notin S /\ x # "BATTLE_STEP" => p[x] = o[x]
  <2>1. OwedBy(units, Step, x) <=> Owes(Front, Step, x) \/ OwedBy(Below, Step, x)
    BY DEF Account
  <2>2. OwedBy(units', Step, x) <=> x \in Q \/ OwedBy(Below, Step, x) OBVIOUS
  <2>3. OwedBy(units', Step, x) => OwedBy(units, Step, x) BY <2>1, <2>2
  <2>4. x \in S => OwedBy(units, Step, x) /\ ~OwedBy(units', Step, x)
    BY <2>1, <2>2 DEF Account
  <2>5. x \notin S /\ x # "BATTLE_STEP" => (OwedBy(units', Step, x) <=> OwedBy(units, Step, x))
    BY <2>1, <2>2
  <2>6. o[x] \in 0 .. 1 /\ p[x] \in 0 .. 1 /\ (o[x] = 1 => r[x] < 3) BY <1>6, <1>7, Room
  <2>7. (p[x] = 1 => o[x] = 1) /\ (x \in S => o[x] = 1 /\ p[x] # 1)
        /\ (x \notin S /\ x # "BATTLE_STEP" => (p[x] = 1 <=> o[x] = 1))
    BY <1>7, <2>3, <2>4, <2>5
  <2> QED BY <2>6, <2>7
<1>9. resets' = q /\ q \in [Counted -> 0 .. 3]
  <2>1. CASE S = {} /\ resets' = resets BY <2>1, <1>4, <1>5, <1>6
  <2>2. CASE Reset(S)
    <3>1. resets' = [x \in Counted |-> IF x \in S /\ r[x] < 3 THEN r[x] + 1 ELSE r[x]]
      BY <2>2, <1>4 DEF Reset
    <3>2. \A x \in Counted : (x \in S /\ r[x] < 3) <=> x \in S BY <1>8
    <3>3. resets' = q BY <1>5, <3>1, <3>2
    <3>4. \A x \in Counted : q[x] \in 0 .. 3 BY <1>5, <1>6, <1>8
    <3> QED BY <1>5, <3>3, <3>4
  <2> QED BY <2>1, <2>2
<1>10. \A x \in Counted : /\ p[x] <= o[x]
                          /\ q[x] + p[x] <= r[x] + o[x]
                          /\ x # "BATTLE_STEP" => q[x] + p[x] = r[x] + o[x]
  <2> TAKE x \in Counted
  <2>1. q[x] = IF x \in S THEN r[x] + 1 ELSE r[x] BY <1>5
  <2>2. r[x] \in 0 .. 3 /\ p[x] \in 0 .. 1 /\ o[x] \in 0 .. 1 BY <1>6, <1>7
  <2> QED BY <2>1, <2>2, <1>8
<1>11. Tally(t, p, q, battle_phase_count) BY <1>6, <1>7, <1>9, <1>10, Settling
<1>12. Bottom(units') = t /\ Owed(units', t.step) = p BY <1>1, <1>3 DEF Owed, Step
<1>13. Calm(units', t.step, phase') BY <1>1 DEF Step
<1> QED BY <1>9, <1>11, <1>12, <1>13 DEF Resets, Bottom

(* The unit goes on, or is over. *)
Aside(batch) ==
  batch \in Batches \cup {<<RefreshRelay>>} \/ \E c \in SUBSET (-1 .. 8) : batch = <<Ask(c)>>

LEMMA Stays ==
  ASSUME Types, Account, ~interrupted, battle_phase_count' = battle_phase_count,
         NEW S \in SUBSET Counted, (S = {} /\ resets' = resets) \/ Reset(S),
         NEW v, NEW batch, Aside(batch), Stacked(units', batch, v, Below),
         ~Saves(v), v.kind = "Idle" => phase' = MainOf(Step), Calm(Below, Step, phase'),
         \A x \in S : Owes(Front, Step, x),
         \A x \in Counted : Owes(v, Step, x) => Owes(Front, Step, x) /\ x \notin S,
         \A x \in Counted : Owes(Front, Step, x) => Owes(v, Step, x) \/ x \in S \cup {"BATTLE_STEP"}
  PROVE  Resets'
<1>1. PICK T : T = Units \cup {v} OBVIOUS
<1>2. PICK t : t = Below OBVIOUS
<1>3. v \in T /\ Units \subseteq T /\ t \in Seq(T) /\ t # <<>> /\ Bottom(t) = Bottom(units)
  <2>1. t \in Seq(Units) /\ t # <<>> /\ Bottom(t) = Bottom(units) BY <1>2 DEF Account
  <2> QED BY <1>1, <2>1
<1>4. PICK us : us = <<v>> \o t OBVIOUS
<1>5. us \in Seq(T) /\ us # <<>> /\ Bottom(us) = Bottom(units)
  BY <1>3, <1>4, BottomOnTop
<1>6. \A x : OwedBy(us, Step, x) <=> Owes(v, Step, x) \/ OwedBy(t, Step, x)
  BY <1>3, <1>4, OwedOnTop
<1>7. Calm(us, Step, phase')
  <2>1. \A x \in Counted : ~(Owes(v, Step, x) /\ OwedBy(t, Step, x)) BY <1>2 DEF Account
  <2>2. PICK s, ph : s = Step /\ ph = phase' OBVIOUS
  <2>3. /\ ~Saves(v) /\ (v.kind = "Idle" => ph = MainOf(s))
        /\ Calm(t, s, ph)
        /\ \A x \in Counted : ~(Owes(v, s, x) /\ OwedBy(t, s, x))
    BY <1>2, <2>1, <2>2
  <2>4. Calm(us, s, ph) BY <1>3, <1>4, <2>3, OwedOnTop
  <2> QED BY <2>2, <2>4
<1>8. units' = batch \o us
  <2>1. units' = batch \o <<v>> \o t BY <1>2 DEF Stacked
  <2>2. batch \in Seq(T) /\ <<v>> \in Seq(T)
    <3>1. \A c \in SUBSET (-1 .. 8) : Ask(c) \in Units BY DEF Ask, Units, OtherUnits
    <3>2. RefreshRelay \in Units BY DEF RefreshRelay, Units, OtherUnits
    <3>3. batch \in Seq(Units)
      <4>1. CASE batch \in Batches BY <4>1, BatchesAreSeqs
      <4>2. ASSUME NEW q \in Units, batch = <<q>>
            PROVE  batch \in Seq(Units)
        BY <4>2
      <4> QED BY <4>1, <4>2, <3>1, <3>2 DEF Aside
    <3> QED BY <3>3, <1>1
  <2>3. batch \o <<v>> \o t = batch \o (<<v>> \o t) BY <2>2, <1>3, ConcatAssociative
  <2> QED BY <2>1, <2>3, <1>4
<1>9. /\ \A x : OwedBy(units', Step, x) <=> OwedBy(us, Step, x)
      /\ Calm(units', Step, phase') /\ Bottom(units') = Bottom(units)
  BY <1>3, <1>5, <1>7, <1>8, Freely DEF Aside
<1>10. PICK Q : Q = {x \in Counted : Owes(v, Step, x)} OBVIOUS
<1>11. Q \in SUBSET Counted /\ \A x \in Counted : x \in Q <=> Owes(v, Step, x) BY <1>10
<1>12. \A x \in Counted : OwedBy(units', Step, x) <=> x \in Q \/ OwedBy(Below, Step, x)
  BY <1>2, <1>6, <1>9, <1>11
<1>13. \A x \in S \cup Q : Owes(Front, Step, x) BY <1>11
<1>14. \A x \in S : x \notin Q BY <1>11
<1>15. \A x \in Counted : Owes(Front, Step, x) => x \in S \cup Q \cup {"BATTLE_STEP"}
  BY <1>11
<1> QED BY <1>9, <1>11, <1>12, <1>13, <1>14, <1>15, Recorded

LEMMA Goes ==
  ASSUME Types, Account, ~interrupted, battle_phase_count' = battle_phase_count,
         resets' = resets, phase' = phase,
         NEW batch, Aside(batch), units' = batch \o Below,
         \A x \in Counted : ~Owes(Front, Step, x)
  PROVE  Resets'
<1>1. /\ Below \in Seq(Units) /\ Below # <<>> /\ Bottom(Below) = Bottom(units)
      /\ Calm(Below, Step, phase)
  BY DEF Account
<1>2. /\ \A x : OwedBy(units', Step, x) <=> OwedBy(Below, Step, x)
      /\ Calm(units', Step, phase') /\ Bottom(units') = Bottom(units)
  BY <1>1, Freely DEF Aside
<1>3. PICK S : S = {} OBVIOUS
<1>4. /\ S \in SUBSET Counted /\ S = {} /\ resets' = resets
      /\ \A x \in Counted : OwedBy(units', Step, x) <=> x \in S \/ OwedBy(Below, Step, x)
      /\ \A x \in S \cup S : Owes(Front, Step, x)
      /\ \A x \in S : x \notin S
      /\ \A x \in Counted : Owes(Front, Step, x) => x \in S \cup S \cup {"BATTLE_STEP"}
  BY <1>2, <1>3
<1> QED BY <1>2, <1>4, Recorded

LEMMA PhaseResets ==
  ASSUME Types, Stack, Resets, PhaseStep
  PROVE  Resets'
<1>1. PICK u : u = Front OBVIOUS
<1>2. /\ u \in PhaseUnits /\ u.kind = "Phase" /\ u.phase \in Counted
      /\ phase' = phase /\ battle_phase_count' = battle_phase_count
      /\ interrupted' = interrupted
  <2>1. u.kind = "Phase" /\ u \in Units
    BY <1>1, Pop DEF PhaseStep, PhaseChoices, EffectYesNo, PhaseChosen, PhaseResolved, HandLimit,
           Discard, HandAdjusted, PhaseReset, PhaseOver, At, Stack, Front
  <2>2. u \in PhaseUnits BY <2>1, Kinds
  <2>3. u.phase \in Counted BY <2>2 DEF PhaseUnits, Events, Counted, Phases
  <2> QED
    BY <2>1, <2>2, <2>3 DEF PhaseStep, PhaseChoices, EffectYesNo, PhaseChosen, PhaseResolved,
           HandLimit, Discard, HandAdjusted, PhaseReset, PhaseOver, battles
<1> SUFFICES ASSUME ~interrupted
             PROVE  Resets'
  BY <1>2 DEF Resets
<1>3. Account BY <1>1, <1>2, Accounts
<1>4. Calm(Below, Step, phase') BY <1>2, <1>3 DEF Account
<1>5. \A x : Owes(u, Step, x) <=> x = u.phase /\ u.step <= 25 BY <1>2 DEF Owes
<1>6. ASSUME NEW v, v.kind = "Phase", v.phase = u.phase, v.step <= 25, u.step <= 25,
             NEW batch, Aside(batch), Stacked(units', batch, v, Below), resets' = resets
      PROVE  Resets'
  <2>1. ~Saves(v) /\ v.kind # "Idle" /\ \A x : Owes(v, Step, x) <=> Owes(u, Step, x)
    BY <1>5, <1>6 DEF Saves, Owes
  <2>2. PICK S : S = {} OBVIOUS
  <2>3. /\ S \in SUBSET Counted /\ S = {} /\ resets' = resets
        /\ \A x \in S : Owes(Front, Step, x)
        /\ \A x \in Counted : Owes(v, Step, x) => Owes(Front, Step, x) /\ x \notin S
        /\ \A x \in Counted : Owes(Front, Step, x) => Owes(v, Step, x) \/ x \in S \cup {"BATTLE_STEP"}
    BY <1>1, <1>6, <2>1, <2>2
  <2> QED BY <1>2, <1>3, <1>4, <1>6, <2>1, <2>3, Stays
<1>7. \A s \in 0 .. 26 : Now(u, s).kind = "Phase" /\ Now(u, s).phase = u.phase /\ Now(u, s).step = s
  BY <1>2, NowPhase DEF PhaseUnits
<1>8. /\ \A batch \in Batches : Aside(batch)
      /\ \A c \in SUBSET (-1 .. 8) : Aside(<<Ask(c)>>)
  BY DEF Aside
<1>9. ASSUME NEW s \in 0 .. 25, NEW batch, Aside(batch), GoOn(s, batch), u.step <= 25,
             resets' = resets
      PROVE  Resets'
  <2>1. Stacked(units', batch, Now(u, s), Below)
    BY <1>1, <1>9 DEF GoOn, GoOnAs, Stacked, Now, Below
  <2> QED BY <1>6, <1>7, <1>9, <2>1
<1>10. CASE PhaseChoices
  <2>1. \/ GoOn(25, <<>>) \/ GoOn(2, <<>>) \/ \E s \in 1 .. 2, c \in SUBSET (-1 .. 8) : GoOn(s, <<Ask(c)>>)
    <3>1. {0, 1} \in SUBSET (-1 .. 8) /\ {0} \in SUBSET (-1 .. 8) /\ {Pass, 0} \in SUBSET (-1 .. 8)
      BY DEF Pass
    <3> QED BY <1>10, <3>1 DEF PhaseChoices
  <2>2. resets' = resets /\ u.step = 0 BY <1>1, <1>10 DEF PhaseChoices, At
  <2>3. CASE GoOn(25, <<>>) \/ GoOn(2, <<>>) BY <1>8, <1>9, <2>2, <2>3, Singles
  <2>4. CASE \E s \in 1 .. 2, c \in SUBSET (-1 .. 8) : GoOn(s, <<Ask(c)>>)
    <3>1. PICK s \in 1 .. 2, c \in SUBSET (-1 .. 8) : GoOn(s, <<Ask(c)>>) BY <2>4
    <3> QED BY <1>8, <1>9, <2>2, <3>1
  <2> QED BY <2>1, <2>3, <2>4
<1>11. CASE EffectYesNo \/ PhaseResolved \/ Discard
  <2>1. /\ resets' = resets /\ u.step \in {1, 3, 4, 21}
        /\ GoOn(2, <<>>) \/ GoOn(0, SolveChain) \/ GoOn(0, <<PointEvent>>) \/ GoOn(22, <<Effects>>)
    BY <1>1, <1>11 DEF EffectYesNo, PhaseResolved, Discard, At
  <2> QED BY <1>8, <1>9, <2>1, Singles
<1>12. CASE PhaseChosen
  <2>1. resets' = resets /\ u.step = 2 BY <1>1, <1>12 DEF PhaseChosen, At
  <2>2. CASE Passed
    <3>1. PICK w : w = [u EXCEPT !.passers = @ \cup {CheckPlayer}] OBVIOUS
    <3>2. /\ w.kind = "Phase" /\ w.phase = u.phase
          /\ w \in [{"kind", "step", "phase", "is_opponent", "priority_passed", "passers"}
                    -> {w[x] : x \in DOMAIN w}]
      BY <1>2, <3>1 DEF PhaseUnits
    <3>3. CASE u.priority_passed
      <4>1. PICK v : v = [w EXCEPT !.step = 20] OBVIOUS
      <4>2. v.kind = "Phase" /\ v.phase = u.phase /\ v.step <= 25 BY <3>2, <4>1
      <4>3. Stacked(units', <<>>, v, Below)
        BY <1>1, <2>2, <3>1, <3>3, <4>1 DEF Passed, GoOnAs, Stacked, Below
      <4> QED BY <1>6, <1>8, <2>1, <4>2, <4>3, Singles
    <3>4. CASE ~u.priority_passed
      <4>1. PICK v : v = [[w EXCEPT !.priority_passed = TRUE, !.is_opponent = ~@] EXCEPT !.step = 0]
        OBVIOUS
      <4>2. v.kind = "Phase" /\ v.phase = u.phase /\ v.step <= 25 BY <3>2, <4>1
      <4>3. Stacked(units', <<>>, v, Below)
        BY <1>1, <2>2, <3>1, <3>4, <4>1 DEF Passed, GoOnAs, Stacked, Below
      <4> QED BY <1>6, <1>8, <2>1, <4>2, <4>3, Singles
    <3> QED BY <3>3, <3>4
  <2>3. CASE \E s \in 3 .. 4 : GoOnAs(Acted(u), s, <<Effects>>)
    <3>1. PICK s \in 3 .. 4 : GoOnAs(Acted(u), s, <<Effects>>) BY <2>3
    <3>2. PICK v : v = [Acted(u) EXCEPT !.step = s] OBVIOUS
    <3>3. v.kind = "Phase" /\ v.phase = u.phase /\ v.step <= 25
      BY <1>2, <3>2 DEF PhaseUnits, Acted
    <3>4. Stacked(units', <<Effects>>, v, Below)
      BY <3>1, <3>2 DEF GoOnAs, Stacked, Below
    <3> QED BY <1>6, <1>8, <2>1, <3>3, <3>4, Singles
  <2> QED BY <1>1, <1>12, <2>2, <2>3 DEF PhaseChosen
<1>13. CASE HandLimit
  <2>1. resets' = resets /\ u.step = 20 /\ (GoOn(25, <<>>) \/ GoOn(21, <<Ask({0})>>))
    BY <1>1, <1>13 DEF HandLimit, At
  <2>2. Aside(<<Ask({0})>>)
    <3>1. {0} \in SUBSET (-1 .. 8) OBVIOUS
    <3> QED BY <1>8, <3>1
  <2> QED BY <1>8, <1>9, <2>1, <2>2, Singles
<1>14. CASE HandAdjusted
  <2>1. resets' = resets /\ u.step = 22 BY <1>1, <1>14 DEF HandAdjusted, At
  <2>2. PICK v : v = [[Acted(u) EXCEPT !.is_opponent = FALSE] EXCEPT !.step = 0] OBVIOUS
  <2>3. v.kind = "Phase" /\ v.phase = u.phase /\ v.step <= 25
    BY <1>2, <2>2 DEF PhaseUnits, Acted
  <2>4. Stacked(units', <<PointEvent>>, v, Below)
    BY <1>1, <1>14, <2>2 DEF HandAdjusted, GoOnAs, Stacked, Below
  <2> QED BY <1>6, <1>8, <2>1, <2>3, <2>4, Singles
<1>15. CASE PhaseReset
  <2>1. PICK v : v = Now(u, 26) OBVIOUS
  <2>2. /\ u.step = 25 /\ v.kind = "Phase" /\ v.phase = u.phase /\ v.step = 26
        /\ Reset({u.phase}) /\ Stacked(units', <<Effects>>, v, Below)
    BY <1>1, <1>7, <1>15, <2>1 DEF PhaseReset, At, GoOn, GoOnAs, Stacked, Now, Below
  <2>3. PICK S : S = {u.phase} OBVIOUS
  <2>4. /\ ~Saves(v) /\ v.kind # "Idle" /\ \A x : ~Owes(v, Step, x)
        /\ \A x : Owes(u, Step, x) <=> x \in S
    BY <1>5, <2>2, <2>3 DEF Saves, Owes
  <2>5. /\ S \in SUBSET Counted /\ Reset(S)
        /\ \A x \in S : Owes(Front, Step, x)
        /\ \A x \in Counted : Owes(v, Step, x) => Owes(Front, Step, x) /\ x \notin S
        /\ \A x \in Counted : Owes(Front, Step, x) => Owes(v, Step, x) \/ x \in S \cup {"BATTLE_STEP"}
    BY <1>1, <1>2, <2>2, <2>3, <2>4
  <2> QED BY <1>2, <1>3, <1>4, <1>8, <2>2, <2>4, <2>5, Singles, Stays
<1>16. CASE PhaseOver
  <2>1. u.step = 26 /\ resets' = resets /\ units' = <<>> \o Below
    BY <1>1, <1>16 DEF PhaseOver, At, Finish, Below
  <2>2. \A x : ~Owes(Front, Step, x) BY <1>1, <1>5, <2>1
  <2> QED BY <1>2, <1>3, <1>8, <2>1, <2>2, Singles, Goes
<1> QED BY <1>10, <1>11, <1>12, <1>13, <1>14, <1>15, <1>16 DEF PhaseStep

LEMMA IdleResets ==
  ASSUME Types, Stack, Resets, IdleStep
  PROVE  Resets'
<1>1. PICK u : u = Front OBVIOUS
<1>2. /\ u \in IdleUnits /\ u.kind = "Idle"
      /\ phase' = phase /\ battle_phase_count' = battle_phase_count
      /\ interrupted' = interrupted
  <2>1. u.kind = "Idle" /\ u \in Units
    BY <1>1, Pop DEF IdleStep, IdleForced, IdleChoices, IdleChosen, IdleResolved, IdleCommanded,
           IdleLeaving, IdleOver, IdleSkipped, At, Stack, Front
  <2> QED
    BY <2>1, Kinds DEF IdleStep, IdleForced, IdleChoices, IdleChosen, IdleResolved,
           IdleCommanded, IdleLeaving, IdleOver, IdleSkipped, battles
<1> SUFFICES ASSUME ~interrupted
             PROVE  Resets'
  BY <1>2 DEF Resets
<1>3. Account BY <1>1, <1>2, Accounts
<1>4. /\ Calm(Below, Step, phase') /\ phase' = MainOf(Step)
      /\ phase = MainOf(Step) /\ phase \in Counted
  <2>1. Calm(Below, Step, phase') /\ phase' = MainOf(Step) /\ phase = MainOf(Step)
    BY <1>1, <1>2, <1>3 DEF Account
  <2> QED BY <2>1 DEF MainOf, Counted, Phases
<1>5. \A x : Owes(u, Step, x) <=> x = phase /\ u.step # 11 BY <1>2, <1>4 DEF Owes
<1>6. /\ \A batch \in Batches : Aside(batch)
      /\ \A c \in SUBSET (-1 .. 8) : Aside(<<Ask(c)>>)
  BY DEF Aside
<1>7. ASSUME NEW v, v.kind = "Idle", v.step # 11, u.step # 11,
             NEW batch, Aside(batch), Stacked(units', batch, v, Below), resets' = resets
      PROVE  Resets'
  <2>1. ~Saves(v) /\ \A x : Owes(v, Step, x) <=> Owes(u, Step, x)
    BY <1>4, <1>5, <1>7 DEF Saves, Owes
  <2>2. PICK S : S = {} OBVIOUS
  <2>3. /\ S \in SUBSET Counted /\ S = {} /\ resets' = resets
        /\ \A x \in S : Owes(Front, Step, x)
        /\ \A x \in Counted : Owes(v, Step, x) => Owes(Front, Step, x) /\ x \notin S
        /\ \A x \in Counted : Owes(Front, Step, x) => Owes(v, Step, x) \/ x \in S \cup {"BATTLE_STEP"}
    BY <1>1, <1>7, <2>1, <2>2
  <2> QED BY <1>2, <1>3, <1>4, <1>7, <2>1, <2>3, Stays
<1>8. ASSUME NEW v, v.kind = "Idle", v.step = 11, u.step # 11,
             Stacked(units', <<Effects>>, v, Below), Reset({phase})
      PROVE  Resets'
  <2>1. PICK S : S = {phase} OBVIOUS
  <2>2. /\ ~Saves(v) /\ \A x : ~Owes(v, Step, x)
        /\ \A x : Owes(u, Step, x) <=> x \in S
    BY <1>5, <1>8, <2>1 DEF Saves, Owes
  <2>3. /\ S \in SUBSET Counted /\ Reset(S)
        /\ \A x \in S : Owes(Front, Step, x)
        /\ \A x \in Counted : Owes(v, Step, x) => Owes(Front, Step, x) /\ x \notin S
        /\ \A x \in Counted : Owes(Front, Step, x) => Owes(v, Step, x) \/ x \in S \cup {"BATTLE_STEP"}
    BY <1>1, <1>4, <1>8, <2>1, <2>2
  <2> QED BY <1>2, <1>3, <1>4, <1>6, <1>8, <2>2, <2>3, Singles, Stays
<1>9. \A s, to : /\ [[u EXCEPT !.phase_to_change_to = to] EXCEPT !.step = s].kind = "Idle"
                 /\ [[u EXCEPT !.phase_to_change_to = to] EXCEPT !.step = s].step = s
                 /\ [u EXCEPT !.step = s].kind = "Idle"
                 /\ [u EXCEPT !.step = s].step = s
  BY <1>2 DEF IdleUnits
<1>10. ASSUME NEW s, s # 11, NEW batch, Aside(batch), GoOn(s, batch), u.step # 11,
              resets' = resets
       PROVE  Resets'
  <2>1. PICK v : v = [u EXCEPT !.step = s] OBVIOUS
  <2>2. v.kind = "Idle" /\ v.step = s BY <1>9, <2>1
  <2>3. Stacked(units', batch, v, Below)
    BY <1>1, <1>10, <2>1 DEF GoOn, GoOnAs, Stacked, Below
  <2> QED BY <1>7, <1>10, <2>2, <2>3
<1>11. ASSUME NEW to, Leave(to), u.step # 11
       PROVE  Resets'
  <2>1. PICK v : v = [[u EXCEPT !.phase_to_change_to = to] EXCEPT !.step = 11] OBVIOUS
  <2>2. v.kind = "Idle" /\ v.step = 11 BY <1>9, <2>1
  <2>3. Stacked(units', <<Effects>>, v, Below) /\ Reset({phase})
    BY <1>1, <1>11, <2>1 DEF Leave, Changing, GoOnAs, Stacked, Below
  <2> QED BY <1>8, <1>11, <2>2, <2>3
<1>12. CASE IdleForced \/ IdleResolved \/ IdleCommanded
  <2>1. /\ resets' = resets /\ u.step \in {0, 2, 3, 5}
        /\ GoOn(0, <<ForcedBattle>>) \/ GoOn(0, SolveChain) \/ GoOn(0, <<PointEvent>>)
    BY <1>1, <1>12 DEF IdleForced, IdleResolved, IdleCommanded, At
  <2> QED BY <1>6, <1>10, <2>1, Singles
<1>13. CASE IdleChoices
  <2>1. u.step = 0 BY <1>1, <1>13 DEF IdleChoices, At
  <2>2. \/ \E to : Leave(to)
        \/ resets' = resets /\ (GoOn(1, <<>>) \/ \E s \in {1, 12}, c \in SUBSET (-1 .. 8) : GoOn(s, <<Ask(c)>>))
    <3>1. PICK to_bp, to_ep \in BOOLEAN :
            \/ CASE to_bp /\ to_ep -> GoOn(12, <<Ask({0, 1})>>) /\ UNCHANGED resets
                 [] to_bp /\ ~to_ep -> Leave(ToBattle)
                 [] OTHER -> Leave(ToEnd)
            \/ GoOn(1, <<>>) /\ UNCHANGED resets
            \/ GoOn(1, <<Ask((IF CanAct THEN {0, 5, 8} ELSE {})
                             \cup (IF to_bp THEN {ToBattle} ELSE {})
                             \cup (IF to_ep THEN {ToEnd} ELSE {}))>>) /\ UNCHANGED resets
      BY <1>13 DEF IdleChoices
    <3>2. {0, 1} \in SUBSET (-1 .. 8) OBVIOUS
    <3>3. (IF CanAct THEN {0, 5, 8} ELSE {}) \cup (IF to_bp THEN {ToBattle} ELSE {})
            \cup (IF to_ep THEN {ToEnd} ELSE {}) \in SUBSET (-1 .. 8)
      BY DEF ToBattle, ToEnd
    <3> QED BY <3>1, <3>2, <3>3
  <2>3. CASE \E to : Leave(to) BY <1>11, <2>1, <2>3
  <2>4. CASE resets' = resets /\ GoOn(1, <<>>) BY <1>6, <1>10, <2>1, <2>4, Singles
  <2>5. CASE resets' = resets /\ \E s \in {1, 12}, c \in SUBSET (-1 .. 8) : GoOn(s, <<Ask(c)>>)
    <3>1. PICK s \in {1, 12}, c \in SUBSET (-1 .. 8) : GoOn(s, <<Ask(c)>>) BY <2>5
    <3> QED BY <1>6, <1>10, <2>1, <2>5, <3>1
  <2> QED BY <2>2, <2>3, <2>4, <2>5
<1>14. CASE IdleChosen
  <2>1. u.step = 1 /\ resets' = resets BY <1>1, <1>14 DEF IdleChosen, At
  <2>2. CASE GoOn(2, <<Effects>>) \/ GoOn(3, <<Effects>>) \/ GoOn(5, <<>>) \/ GoOn(0, <<>>)
    BY <1>6, <1>10, <2>1, <2>2, Singles
  <2>3. CASE GoOnAs(Changing(returns[1]), 10, <<Effects>>)
    <3>1. PICK to : to = returns[1] OBVIOUS
    <3>2. PICK v : v = [[u EXCEPT !.phase_to_change_to = to] EXCEPT !.step = 10] OBVIOUS
    <3>3. v.kind = "Idle" /\ v.step = 10 BY <1>9, <3>2
    <3>4. Stacked(units', <<Effects>>, v, Below)
      BY <1>1, <2>3, <3>1, <3>2 DEF Changing, GoOnAs, Stacked, Below
    <3> QED BY <1>6, <1>7, <2>1, <3>3, <3>4, Singles
  <2>4. \/ GoOn(2, <<Effects>>) \/ GoOn(3, <<Effects>>) \/ GoOn(5, <<>>) \/ GoOn(0, <<>>)
        \/ GoOnAs(Changing(returns[1]), 10, <<Effects>>)
    <3>1. \A s \in 2 .. 3 : s = 2 \/ s = 3 OBVIOUS
    <3> QED BY <1>14, <3>1 DEF IdleChosen
  <2> QED BY <2>2, <2>3, <2>4
<1>15. CASE IdleLeaving
  <2>1. u.step = 10 BY <1>1, <1>15 DEF IdleLeaving, At
  <2>2. CASE GoOn(0, SolveChain) /\ resets' = resets BY <1>6, <1>10, <2>1, <2>2, Singles
  <2>3. CASE Reset({phase}) /\ GoOn(11, <<Effects>>)
    <3>1. PICK v : v = [u EXCEPT !.step = 11] OBVIOUS
    <3>2. v.kind = "Idle" /\ v.step = 11 BY <1>9, <3>1
    <3>3. Stacked(units', <<Effects>>, v, Below)
      BY <1>1, <2>3, <3>1 DEF GoOn, GoOnAs, Stacked, Below
    <3> QED BY <1>8, <2>1, <2>3, <3>2, <3>3
  <2> QED BY <1>15, <2>2, <2>3 DEF IdleLeaving
<1>16. CASE IdleOver
  <2>1. u.step = 11 /\ resets' = resets /\ units' = <<>> \o Below
    BY <1>1, <1>16 DEF IdleOver, At, Finish, Below
  <2>2. \A x : ~Owes(Front, Step, x) BY <1>1, <1>5, <2>1
  <2> QED BY <1>2, <1>3, <1>6, <2>1, <2>2, Singles, Goes
<1>17. CASE IdleSkipped
  <2>1. u.step = 12 /\ \E to : Leave(to) BY <1>1, <1>17 DEF IdleSkipped, At
  <2> QED BY <1>11, <2>1
<1> QED BY <1>12, <1>13, <1>14, <1>15, <1>16, <1>17 DEF IdleStep

(* The end of a battle phase, with its events. *)
LEMMA WithEvents ==
  ASSUME Types, Account, ~interrupted, battle_phase_count' = battle_phase_count,
         NEW S \in SUBSET {"BATTLE_STEP"}, (S = {} /\ resets' = resets) \/ Reset(S),
         Front.kind = "Battle", Front.step <= 41, S # {} => Front.step <= 40,
         NEW v, v.kind = "Battle", v.step = 42,
         NEW batch, batch \in {<<Effects, PhaseEvent("BATTLE")>>, <<PhaseEvent("BATTLE"), Effects>>},
         Stacked(units', batch, v, Below), Calm(Below, Step, phase')
  PROVE  Resets'
<1>1. PICK e : e = PhaseEvent("BATTLE") OBVIOUS
<1>2. e \in Units /\ e.kind = "Phase" /\ e.phase = "BATTLE" /\ e.step = 0
  BY <1>1 DEF PhaseEvent, Units, PhaseUnits, Events, Players
<1>3. PICK h : h = Effects OBVIOUS
<1>4. h \in Units /\ Free(h) BY <1>3, Helpers DEF Helper, Free
<1>5. PICK T : T = Units \cup {v} OBVIOUS
<1>6. PICK t : t = Below OBVIOUS
<1>7. /\ v \in T /\ e \in T /\ h \in T
      /\ t \in Seq(T) /\ t # <<>> /\ Bottom(t) = Bottom(units)
  <2>1. t \in Seq(Units) /\ t # <<>> /\ Bottom(t) = Bottom(units) BY <1>6 DEF Account
  <2> QED BY <1>2, <1>4, <1>5, <2>1
<1>8. PICK us : us = <<v>> \o t OBVIOUS
<1>9. PICK s, ph : s = Step /\ ph = phase' OBVIOUS
<1>10. ~OwedBy(t, s, "BATTLE") /\ Calm(t, s, ph)
  <2>1. Owes(Front, Step, "BATTLE") /\ "BATTLE" \in Counted BY DEF Owes, Counted, Phases
  <2> QED BY <2>1, <1>6, <1>9 DEF Account
<1>11. ~Saves(v) /\ \A x : ~Owes(v, s, x) BY DEF Saves, Owes
<1>12. ~Saves(e) /\ \A x : Owes(e, s, x) <=> x = "BATTLE" BY <1>2 DEF Saves, Owes
<1>13. /\ us \in Seq(T) /\ us # <<>> /\ Bottom(us) = Bottom(units)
       /\ \A x : OwedBy(us, s, x) <=> OwedBy(t, s, x)
       /\ Calm(us, s, ph)
  <2>1. us \in Seq(T) /\ us # <<>> /\ Bottom(us) = Bottom(units)
    BY <1>7, <1>8, BottomOnTop
  <2>2. \A x : OwedBy(us, s, x) <=> OwedBy(t, s, x) BY <1>7, <1>8, <1>11, OwedOnTop
  <2>3. Calm(us, s, ph) BY <1>7, <1>8, <1>10, <1>11, OwedOnTop
  <2> QED BY <2>1, <2>2, <2>3
<1>14. /\ \A x : OwedBy(units', s, x) <=> x = "BATTLE" \/ OwedBy(t, s, x)
       /\ Calm(units', s, ph) /\ Bottom(units') = Bottom(units)
  <2>1. ASSUME NEW w \in Seq(T), w # <<>>, Bottom(w) = Bottom(units), Calm(w, s, ph),
               \A x : OwedBy(w, s, x) <=> OwedBy(t, s, x)
        PROVE  /\ <<e>> \o w \in Seq(T) /\ <<e>> \o w # <<>>
               /\ Bottom(<<e>> \o w) = Bottom(units) /\ Calm(<<e>> \o w, s, ph)
               /\ \A x : OwedBy(<<e>> \o w, s, x) <=> x = "BATTLE" \/ OwedBy(t, s, x)
    <3>1. <<e>> \o w \in Seq(T) /\ <<e>> \o w # <<>> /\ Bottom(<<e>> \o w) = Bottom(units)
      BY <1>7, <2>1, BottomOnTop
    <3>2. \A x : OwedBy(<<e>> \o w, s, x) <=> x = "BATTLE" \/ OwedBy(t, s, x)
      BY <1>7, <1>12, <2>1, OwedOnTop
    <3>3. e.kind # "Idle" /\ \A x \in Counted : ~(Owes(e, s, x) /\ OwedBy(w, s, x))
      BY <1>2, <1>10, <1>12, <2>1
    <3>4. Calm(<<e>> \o w, s, ph) BY <1>7, <1>12, <2>1, <3>3, OwedOnTop
    <3> QED BY <3>1, <3>2, <3>4
  <2>2. ASSUME NEW w \in Seq(T), w # <<>>, Bottom(w) = Bottom(units), Calm(w, s, ph)
        PROVE  /\ <<h>> \o w \in Seq(T) /\ <<h>> \o w # <<>>
               /\ Bottom(<<h>> \o w) = Bottom(units) /\ Calm(<<h>> \o w, s, ph)
               /\ \A x : OwedBy(<<h>> \o w, s, x) <=> OwedBy(w, s, x)
    BY <1>4, <1>7, <2>2, OwedBelow, BottomOnTop
  <2>3. units' = <<h>> \o (<<e>> \o us) \/ units' = <<e>> \o (<<h>> \o us)
    <3>1. batch = <<h, e>> \/ batch = <<e, h>> BY <1>1, <1>3
    <3>2. units' = batch \o <<v>> \o t BY <1>6 DEF Stacked
    <3>3. \A x, y \in T : <<x, y>> \in Seq(T) /\ <<x>> \in Seq(T) OBVIOUS
    <3>4. batch \in Seq(T) /\ <<v>> \in Seq(T) BY <3>1, <3>3, <1>7, Zenon
    <3>5. units' = batch \o us BY <3>2, <3>4, <1>7, <1>8, ConcatAssociative
    <3>6. h \in T /\ e \in T /\ us \in Seq(T) BY <1>7, <1>13
    <3>7. <<h, e>> \o us = <<h>> \o (<<e>> \o us) BY <3>6, TwoTopped
    <3>8. <<e, h>> \o us = <<e>> \o (<<h>> \o us) BY <3>6, TwoTopped
    <3> QED BY <3>1, <3>5, <3>7, <3>8, Zenon
  <2>4. CASE units' = <<h>> \o (<<e>> \o us)
    <3>1. PICK w : w = <<e>> \o us OBVIOUS
    <3>2. /\ w \in Seq(T) /\ w # <<>> /\ Bottom(w) = Bottom(units) /\ Calm(w, s, ph)
          /\ \A x : OwedBy(w, s, x) <=> x = "BATTLE" \/ OwedBy(t, s, x)
      BY <3>1, <1>13, <2>1
    <3> QED BY <2>4, <3>1, <3>2, <2>2
  <2>5. CASE units' = <<e>> \o (<<h>> \o us)
    <3>1. PICK w : w = <<h>> \o us OBVIOUS
    <3>2. /\ w \in Seq(T) /\ w # <<>> /\ Bottom(w) = Bottom(units) /\ Calm(w, s, ph)
          /\ \A x : OwedBy(w, s, x) <=> OwedBy(t, s, x)
      BY <3>1, <1>13, <2>2
    <3> QED BY <2>5, <3>1, <3>2, <2>1
  <2> QED BY <2>3, <2>4, <2>5
<1>15. PICK Q : Q = {"BATTLE"} OBVIOUS
<1>16. /\ S \in SUBSET Counted /\ Q \in SUBSET Counted
       /\ \A x \in S \cup Q : Owes(Front, Step, x)
       /\ \A x \in S : x \notin Q
       /\ \A x \in Counted : Owes(Front, Step, x) => x \in S \cup Q \cup {"BATTLE_STEP"}
  BY <1>15 DEF Owes, Counted, Phases
<1>17. \A x \in Counted : OwedBy(units', Step, x) <=> x \in Q \/ OwedBy(Below, Step, x)
  BY <1>6, <1>9, <1>14, <1>15
<1>18. Calm(units', Step, phase') /\ Bottom(units') = Bottom(units) BY <1>9, <1>14
<1> QED BY <1>16, <1>17, <1>18, Recorded

LEMMA BattleResets ==
  ASSUME Types, Stack, Resets, BattleCommandStep
  PROVE  Resets'
<1>1. PICK u : u = Front OBVIOUS
<1>2. /\ u \in BattleUnits /\ u.kind = "Battle" /\ Sane(u, turn_player)
      /\ Sound(Below, phase, turn_player)
      /\ battle_phase_count' = battle_phase_count /\ interrupted' = interrupted
  <2>1. u.kind = "Battle"
    BY <1>1 DEF BattleCommandStep, BattleSkipped, BattleChoices, BattleChosen, BattleResolved,
       AttackFails, AttackHits, DamageStepEnds, BattleLeaving, BattleEnds, BattleOver, At
  <2>2. u \in Units /\ Sane(u, turn_player) /\ Sound(Below, Left(u, phase), turn_player)
    BY <1>1, <2>1, Pop DEF Stack, Front, Below
  <2>3. Left(u, phase) = phase BY <2>1 DEF Left, Saves
  <2> QED
    BY <2>1, <2>2, <2>3, Kinds DEF BattleCommandStep, BattleSkipped, BattleChoices, BattleChosen,
       BattleResolved, AttackFails, AttackHits, DamageStepEnds, BattleLeaving, BattleEnds,
       BattleOver, battles
<1> SUFFICES ASSUME ~interrupted
             PROVE  Resets'
  BY <1>2 DEF Resets
<1>3. Account BY <1>1, <1>2, Accounts
<1>4. ~u.forced /\ ~u.done /\ \A ph : Calm(Below, Step, ph)
  <2>1. PICK t : t = Below OBVIOUS
  <2>2. t \in Seq(Units) /\ t # <<>> /\ Head(t) = t[1] /\ 1 \in 1 .. Len(t)
    BY <1>3, <2>1, Popped DEF Account
  <2>3. ~Saves(Head(t)) BY <1>3, <2>1, <2>2 DEF Account, Calm
  <2>4. Head(t).kind = "Turn" /\ ~u.forced
    BY <1>1, <1>2, <1>3, <2>1, <2>3 DEF Account, Fits
  <2>5. Tail(t) = <<>> /\ t = <<Head(t)>> \o Tail(t) /\ Head(t) \in Units
    BY <1>2, <2>1, <2>4, Pop
  <2>6. PICK x : x = Head(t) OBVIOUS
  <2>7. x \in TurnUnits BY <2>4, <2>5, <2>6, Kinds
  <2>8. <<x>> \in Seq(Units) /\ t = <<x>> \o <<>>
    <3>1. x \in Units BY <2>5, <2>6
    <3>2. <<x>> \in Seq(Units) BY <3>1
    <3>3. t = <<x>> \o <<>> BY <2>5, <2>6, Zenon
    <3> QED BY <3>2, <3>3
  <2>9. t = <<x>> BY <2>8, ConcatEmptySeq
  <2>10. \A ph : Calm(t, Step, ph) BY <2>7, <2>9, OwedByTurn
  <2> QED BY <1>2, <2>1, <2>4, <2>10 DEF Sane
<1>5. /\ \A batch \in Batches : Aside(batch)
      /\ \A c \in SUBSET (-1 .. 8) : Aside(<<Ask(c)>>)
  BY DEF Aside
<1>6. /\ {} \in SUBSET Counted /\ {"BATTLE_STEP"} \in SUBSET Counted /\ {"BATTLE"} \in SUBSET Counted
  BY DEF Counted, Phases
<1>7. ASSUME NEW v, v.kind = "Battle", u.step <= 40 <=> v.step <= 40, u.step <= 41 <=> v.step <= 41,
             NEW batch, Aside(batch), Stacked(units', batch, v, Below), resets' = resets
      PROVE  Resets'
  <2>1. ~Saves(v) /\ v.kind # "Idle" /\ \A x : Owes(v, Step, x) <=> Owes(u, Step, x)
    BY <1>2, <1>7 DEF Saves, Owes
  <2>2. PICK S : S = {} OBVIOUS
  <2>3. /\ S \in SUBSET Counted /\ S = {} /\ resets' = resets
        /\ \A x \in S : Owes(Front, Step, x)
        /\ \A x \in Counted : Owes(v, Step, x) => Owes(Front, Step, x) /\ x \notin S
        /\ \A x \in Counted : Owes(Front, Step, x) => Owes(v, Step, x) \/ x \in S \cup {"BATTLE_STEP"}
    BY <1>1, <1>7, <2>1, <2>2
  <2> QED BY <1>2, <1>3, <1>4, <1>7, <2>1, <2>3, Stays
<1>8. \A s, to : /\ [[u EXCEPT !.phase_to_change_to = to] EXCEPT !.step = s].kind = "Battle"
                 /\ [[u EXCEPT !.phase_to_change_to = to] EXCEPT !.step = s].step = s
                 /\ [u EXCEPT !.step = s].kind = "Battle"
                 /\ [u EXCEPT !.step = s].step = s
  BY <1>2 DEF BattleUnits
<1>9. ASSUME NEW s \in 0 .. 43, NEW batch, Aside(batch), GoOn(s, batch),
             u.step <= 40 <=> s <= 40, u.step <= 41 <=> s <= 41, resets' = resets
      PROVE  Resets'
  <2>1. PICK v : v = [u EXCEPT !.step = s] OBVIOUS
  <2>2. v.kind = "Battle" /\ v.step = s BY <1>8, <2>1
  <2>3. Stacked(units', batch, v, Below)
    BY <1>1, <1>9, <2>1 DEF GoOn, GoOnAs, Stacked, Below
  <2> QED BY <1>7, <1>9, <2>2, <2>3
<1>10. CASE BattleSkipped
  <2>1. PICK twice \in BOOLEAN :
          LET unit == [Front EXCEPT !.phase_to_change_to = 2, !.repeat = twice]
          IN \/ Reset({"BATTLE_STEP"}) /\ GoOnAs(unit, 42, <<Effects, PhaseEvent("BATTLE")>>)
             \/ Reset({"BATTLE"}) /\ GoOnAs(unit, 42, <<Effects>>)
    BY <1>10 DEF BattleSkipped
  <2>2. PICK v : v = [[u EXCEPT !.phase_to_change_to = 2, !.repeat = twice] EXCEPT !.step = 42]
    OBVIOUS
  <2>3. v.kind = "Battle" /\ v.step = 42 /\ u.step = 0
    BY <1>1, <1>2, <1>10, <2>2 DEF BattleUnits, BattleSkipped, At
  <2>4. \/ /\ Reset({"BATTLE_STEP"})
           /\ Stacked(units', <<Effects, PhaseEvent("BATTLE")>>, v, Below)
        \/ Reset({"BATTLE"}) /\ Stacked(units', <<Effects>>, v, Below)
    BY <1>1, <2>1, <2>2 DEF GoOnAs, Stacked, Below
  <2>5. CASE /\ Reset({"BATTLE_STEP"})
             /\ Stacked(units', <<Effects, PhaseEvent("BATTLE")>>, v, Below)
    BY <1>1, <1>2, <1>3, <1>4, <2>3, <2>5, WithEvents
  <2>6. CASE Reset({"BATTLE"}) /\ Stacked(units', <<Effects>>, v, Below)
    <3>1. PICK S : S = {"BATTLE"} OBVIOUS
    <3>2. ~Saves(v) /\ v.kind # "Idle" /\ \A x : ~Owes(v, Step, x)
      BY <2>3 DEF Saves, Owes
    <3>3. \A x : Owes(u, Step, x) <=> x \in {"BATTLE_STEP", "BATTLE"}
      BY <1>2, <2>3 DEF Owes
    <3>4. /\ S \in SUBSET Counted /\ Reset(S)
          /\ \A x \in S : Owes(Front, Step, x)
          /\ \A x \in Counted : Owes(v, Step, x) => Owes(Front, Step, x) /\ x \notin S
          /\ \A x \in Counted : Owes(Front, Step, x) => Owes(v, Step, x) \/ x \in S \cup {"BATTLE_STEP"}
      BY <1>1, <1>6, <2>6, <3>1, <3>2, <3>3
    <3> QED BY <1>2, <1>3, <1>4, <1>5, <2>6, <3>2, <3>4, Singles, Stays
  <2> QED BY <2>4, <2>5, <2>6
<1>11. CASE BattleChoices
  <2>1. u.step = 0 /\ resets' = resets /\ \E c \in SUBSET (-1 .. 8) : GoOn(1, <<Ask(c)>>)
    BY <1>1, <1>11 DEF BattleChoices, At
  <2>2. PICK c \in SUBSET (-1 .. 8) : GoOn(1, <<Ask(c)>>) BY <2>1
  <2> QED BY <1>5, <1>9, <2>1, <2>2
<1>12. CASE BattleChosen
  <2>1. u.step = 1 /\ resets' = resets BY <1>1, <1>12 DEF BattleChosen, At
  <2>2. CASE GoOn(2, <<Effects>>) \/ GoOn(15, <<Effects>>) \/ GoOn(3, SolveChain)
    BY <1>5, <1>9, <2>1, <2>2, Singles
  <2>3. CASE GoOnAs(Changing(returns[1]), 40, <<Effects>>)
    <3>1. PICK to : to = returns[1] OBVIOUS
    <3>2. PICK v : v = [[u EXCEPT !.phase_to_change_to = to] EXCEPT !.step = 40] OBVIOUS
    <3>3. v.kind = "Battle" /\ v.step = 40 BY <1>8, <3>2
    <3>4. Stacked(units', <<Effects>>, v, Below)
      BY <1>1, <2>3, <3>1, <3>2 DEF Changing, GoOnAs, Stacked, Below
    <3> QED BY <1>5, <1>7, <2>1, <3>3, <3>4, Singles
  <2> QED BY <1>12, <2>2, <2>3 DEF BattleChosen
<1>13. CASE BattleResolved
  <2>1. u.step \in {2, 15} /\ resets' = resets /\ (GoOn(0, SolveChain) \/ GoOn(0, <<PointEvent>>))
    BY <1>1, <1>13 DEF BattleResolved, At
  <2> QED BY <1>5, <1>9, <2>1, Singles
<1>14. CASE AttackFails \/ AttackHits \/ DamageStepEnds
  <2>1. /\ u.step \in {3, 39} /\ resets' = resets
        /\ GoOn(0, <<>>) \/ GoOn(39, SolveChain) \/ GoOn(0, <<Effects>>)
    BY <1>1, <1>4, <1>14 DEF AttackFails, AttackHits, DamageStepEnds, At
  <2> QED BY <1>5, <1>9, <2>1, Singles
<1>15. CASE BattleLeaving
  <2>1. u.step = 40 BY <1>1, <1>15 DEF BattleLeaving, At
  <2>2. CASE GoOn(0, SolveChain) /\ resets' = resets BY <1>5, <1>9, <2>1, <2>2, Singles
  <2>3. CASE Reset({"BATTLE_STEP"}) /\ GoOn(41, <<Effects>>)
    <3>1. PICK v : v = [u EXCEPT !.step = 41] OBVIOUS
    <3>2. v.kind = "Battle" /\ v.step = 41 BY <1>8, <3>1
    <3>3. Stacked(units', <<Effects>>, v, Below)
      BY <1>1, <2>3, <3>1 DEF GoOn, GoOnAs, Stacked, Below
    <3>4. PICK S : S = {"BATTLE_STEP"} OBVIOUS
    <3>5. /\ ~Saves(v) /\ v.kind # "Idle" /\ \A x : Owes(v, Step, x) <=> x = "BATTLE"
          /\ \A x : Owes(u, Step, x) <=> x \in {"BATTLE_STEP", "BATTLE"}
      BY <1>2, <2>1, <3>2 DEF Saves, Owes
    <3>6. /\ S \in SUBSET Counted /\ Reset(S)
          /\ \A x \in S : Owes(Front, Step, x)
          /\ \A x \in Counted : Owes(v, Step, x) => Owes(Front, Step, x) /\ x \notin S
          /\ \A x \in Counted : Owes(Front, Step, x) => Owes(v, Step, x) \/ x \in S \cup {"BATTLE_STEP"}
      BY <1>1, <1>6, <2>3, <3>4, <3>5
    <3> QED BY <1>2, <1>3, <1>4, <1>5, <3>3, <3>5, <3>6, Singles, Stays
  <2> QED BY <1>1, <1>4, <1>15, <2>2, <2>3 DEF BattleLeaving
<1>16. CASE BattleEnds
  <2>1. PICK twice, optional \in BOOLEAN :
          GoOnAs([Front EXCEPT !.repeat = twice, !.optional = optional], 42,
                 <<PhaseEvent("BATTLE"), Effects>>)
    BY <1>16 DEF BattleEnds
  <2>2. PICK v : v = [[u EXCEPT !.repeat = twice, !.optional = optional] EXCEPT !.step = 42]
    OBVIOUS
  <2>3. v.kind = "Battle" /\ v.step = 42 /\ u.step = 41 /\ resets' = resets
    BY <1>1, <1>2, <1>16, <2>2 DEF BattleUnits, BattleEnds, At
  <2>4. PICK batch : batch = <<PhaseEvent("BATTLE"), Effects>> OBVIOUS
  <2>5. /\ batch \in {<<Effects, PhaseEvent("BATTLE")>>, <<PhaseEvent("BATTLE"), Effects>>}
        /\ Stacked(units', batch, v, Below)
    BY <1>1, <2>1, <2>2, <2>4 DEF GoOnAs, Stacked, Below
  <2>6. PICK S : S = {} OBVIOUS
  <2>7. S \in SUBSET {"BATTLE_STEP"} /\ S = {} /\ resets' = resets BY <2>3, <2>6
  <2>8. Front.kind = "Battle" /\ Front.step <= 41 /\ Calm(Below, Step, phase')
    BY <1>1, <1>2, <1>4, <2>3
  <2> QED BY <1>2, <1>3, <2>3, <2>5, <2>7, <2>8, WithEvents
<1>17. CASE BattleOver
  <2>1. /\ u.step \in {42, 43} /\ resets' = resets /\ phase' = phase
        /\ GoOn(43, <<Ask({0, 1})>>) \/ units' = <<>> \o Below
    BY <1>1, <1>17 DEF BattleOver, At, Finish, Below
  <2>2. CASE GoOn(43, <<Ask({0, 1})>>)
    <3>1. {0, 1} \in SUBSET (-1 .. 8) OBVIOUS
    <3> QED BY <1>5, <1>9, <2>1, <2>2, <3>1
  <2>3. CASE units' = <<>> \o Below
    <3>1. \A x : ~Owes(Front, Step, x) BY <1>1, <1>2, <2>1 DEF Owes
    <3> QED BY <1>2, <1>3, <1>5, <2>1, <2>3, <3>1, Singles, Goes
  <2> QED BY <2>1, <2>2, <2>3
<1> QED BY <1>10, <1>11, <1>12, <1>13, <1>14, <1>15, <1>16, <1>17 DEF BattleCommandStep

(* Nothing else owes a reset. *)
LEMMA OtherResets ==
  ASSUME Types, Stack, Resets,
         \/ ForcedStep \/ Refresh \/ Refreshed
         \/ EffectsRun \/ PointEventRun \/ PointEventEnd \/ Answer
  PROVE  Resets'
<1>1. PICK u : u = Front OBVIOUS
<1>2. /\ u.kind \in {"Forced", "Relay", "Effects", "Point", "Ask"} /\ u \in Units
      /\ resets' = resets
      /\ ForcedStarts \/ (battle_phase_count' = battle_phase_count /\ interrupted' = interrupted)
  <2>1. u.kind \in {"Forced", "Relay", "Effects", "Point", "Ask"}
    BY <1>1 DEF ForcedStep, ForcedCannot, ForcedStarts, ForcedEnds, Refresh, Refreshed, EffectsRun,
       PointEventRun, PointEventEnd, Answer, At
  <2> QED
    BY <1>1, <2>1, Pop DEF ForcedStep, ForcedCannot, ForcedEnds, ForcedStarts, Refresh, Refreshed,
       EffectsRun, PointEventRun, PointEventEnd, Answer, battles, Stack, Front
<1>3. CASE ForcedStarts BY <1>3 DEF ForcedStarts, Resets
<1> SUFFICES ASSUME ~interrupted, battle_phase_count' = battle_phase_count,
                    interrupted' = interrupted
             PROVE  Resets'
  BY <1>2, <1>3 DEF Resets
<1>4. Account BY <1>1, <1>2, Accounts
<1>5. ~Saves(u) /\ \A x : ~Owes(u, Step, x) BY <1>1, <1>2, <1>4 DEF Account, Owes
<1>6. /\ \A batch \in Batches : Aside(batch) BY DEF Aside
<1>7. ASSUME NEW batch \in Batches, units' = batch \o Below, phase' = phase
      PROVE  Resets'
  BY <1>1, <1>2, <1>4, <1>5, <1>6, <1>7, Goes
<1>8. ASSUME NEW v, v.kind \in {"Relay", "Point"}, Stacked(units', <<>>, v, Below),
             phase' = phase
      PROVE  Resets'
  <2>1. ~Saves(v) /\ v.kind # "Idle" /\ \A x : ~Owes(v, Step, x) BY <1>8 DEF Saves, Owes
  <2>2. PICK S : S = {} OBVIOUS
  <2>3. /\ S \in SUBSET Counted /\ S = {} /\ resets' = resets
        /\ \A x \in S : Owes(Front, Step, x)
        /\ \A x \in Counted : Owes(v, Step, x) => Owes(Front, Step, x) /\ x \notin S
        /\ \A x \in Counted : Owes(Front, Step, x) => Owes(v, Step, x) \/ x \in S \cup {"BATTLE_STEP"}
    BY <1>1, <1>2, <1>5, <2>1, <2>2
  <2>4. Calm(Below, Step, phase') BY <1>4, <1>8 DEF Account
  <2> QED BY <1>4, <1>6, <1>8, <2>1, <2>3, <2>4, Singles, Stays
<1>9. CASE ForcedCannot \/ Refreshed \/ EffectsRun \/ PointEventEnd \/ Answer
  <2>1. phase' = phase
    BY <1>9 DEF ForcedCannot, Refreshed, EffectsRun, PointEventEnd, Answer
  <2>2. PICK batch \in Batches : units' = batch \o Below
    BY <1>9, Singles DEF ForcedCannot, Refreshed, EffectsRun, PointEventEnd, Answer, Finish, Below
  <2> QED BY <1>7, <2>1, <2>2
<1>10. CASE Refresh \/ PointEventRun
  <2>1. phase' = phase BY <1>10 DEF Refresh, PointEventRun
  <2>2. PICK s \in 0 .. 2 : GoOn(s, <<>>) /\ u.kind \in {"Relay", "Point"}
    BY <1>1, <1>10 DEF Refresh, PointEventRun, Players, At
  <2>3. PICK v : v = [u EXCEPT !.step = s] OBVIOUS
  <2>4. v.kind = u.kind BY <1>2, <2>2, <2>3, Kinds
  <2>5. Stacked(units', <<>>, v, Below)
    BY <1>1, <2>2, <2>3 DEF GoOn, GoOnAs, Stacked, Below
  <2> QED BY <1>8, <2>1, <2>2, <2>4, <2>5
<1>11. ~ForcedEnds BY <1>1, <1>2, <1>5 DEF ForcedEnds, At, Saves
<1> QED BY <1>3, <1>9, <1>10, <1>11 DEF ForcedStep

(* The turn goes on when nothing is owed any more. *)
Nothing == [x \in Counted |-> 0]
Made(r, q, S) == \A x \in Counted : q[x] = IF x \in S /\ r[x] < 3 THEN r[x] + 1 ELSE r[x]

LEMMA Tallied ==
  ASSUME NEW t \in TurnUnits, NEW s, s = t.step, NEW o, NEW r, NEW b
  PROVE  Tally(t, o, r, b) <=>
           /\ (o["DRAW"] = 1 => s = 4) /\ (o["STANDBY"] = 1 => s = 7)
           /\ (o["MAIN1"] = 1 => s = 10) /\ (o["BATTLE_START"] = 1 => s = 12)
           /\ (o["BATTLE_STEP"] = 1 => s = 13) /\ (o["BATTLE"] = 1 => s = 13)
           /\ (o["MAIN2"] = 1 => s = 16) /\ (o["END"] = 1 => s = 19)
           /\ r["DRAW"] = IF s < 4 THEN 0 ELSE 1 - o["DRAW"]
           /\ r["STANDBY"] = IF s < 7 THEN 0 ELSE 1 - o["STANDBY"]
           /\ r["END"] = IF s < 19 THEN 0 ELSE 1 - o["END"]
           /\ s < 10 => r["MAIN1"] = 0
           /\ s \in 10 .. 18 => r["MAIN1"] = 1 - o["MAIN1"]
           /\ r["MAIN1"] <= 1
           /\ r["MAIN2"] <= IF s < 16 THEN 0 ELSE r["MAIN1"] - o["MAIN2"]
           /\ s = 10 => b = 0 \/ (b = 1 /\ t.has_performed_second_battle_phase)
           /\ s \in 11 .. 13 => b = 1 \/ (b = 2 /\ t.has_performed_second_battle_phase)
           /\ b <= 2 * r["MAIN1"]
           /\ r["BATTLE_START"] = b - (IF s = 11 THEN 1 ELSE o["BATTLE_START"])
           /\ r["BATTLE"] = b - (IF s \in 11 .. 12 THEN 1 ELSE 0) - o["BATTLE"]
           /\ r["BATTLE_STEP"] <= b - (IF s \in 11 .. 12 THEN 1 ELSE 0) - o["BATTLE_STEP"]
<1>1. Counted = {"DRAW", "STANDBY", "MAIN1", "BATTLE_START", "BATTLE_STEP", "BATTLE", "MAIN2", "END"}
  BY DEF Counted, Phases
<1>2. /\ Falls("DRAW") = 4 /\ Falls("STANDBY") = 7 /\ Falls("MAIN1") = 10
      /\ Falls("BATTLE_START") = 12 /\ Falls("BATTLE_STEP") = 13 /\ Falls("BATTLE") = 13
      /\ Falls("MAIN2") = 16 /\ Falls("END") = 19
  BY DEF Falls
<1>3. (\A ph \in Counted : o[ph] = 1 => s = Falls(ph)) <=>
        /\ (o["DRAW"] = 1 => s = 4) /\ (o["STANDBY"] = 1 => s = 7)
        /\ (o["MAIN1"] = 1 => s = 10) /\ (o["BATTLE_START"] = 1 => s = 12)
        /\ (o["BATTLE_STEP"] = 1 => s = 13) /\ (o["BATTLE"] = 1 => s = 13)
        /\ (o["MAIN2"] = 1 => s = 16) /\ (o["END"] = 1 => s = 19)
  BY <1>1, <1>2
<1>4. (\A ph \in {"DRAW", "STANDBY", "END"} :
         r[ph] = IF s < Falls(ph) THEN 0 ELSE 1 - o[ph]) <=>
        /\ r["DRAW"] = IF s < 4 THEN 0 ELSE 1 - o["DRAW"]
        /\ r["STANDBY"] = IF s < 7 THEN 0 ELSE 1 - o["STANDBY"]
        /\ r["END"] = IF s < 19 THEN 0 ELSE 1 - o["END"]
  BY <1>2
<1> QED BY <1>3, <1>4 DEF Tally

LEMMA Quietly ==
  ASSUME NEW t \in TurnUnits, NEW s, s = t.step, NEW r \in [Counted -> 0 .. 3], NEW b \in Nat
  PROVE  Tally(t, Nothing, r, b) <=>
           /\ r["DRAW"] = IF s < 4 THEN 0 ELSE 1
           /\ r["STANDBY"] = IF s < 7 THEN 0 ELSE 1
           /\ r["END"] = IF s < 19 THEN 0 ELSE 1
           /\ s < 10 => r["MAIN1"] = 0
           /\ s \in 10 .. 18 => r["MAIN1"] = 1
           /\ r["MAIN1"] <= 1
           /\ r["MAIN2"] <= IF s < 16 THEN 0 ELSE r["MAIN1"]
           /\ s = 10 => b = 0 \/ (b = 1 /\ t.has_performed_second_battle_phase)
           /\ s \in 11 .. 13 => b = 1 \/ (b = 2 /\ t.has_performed_second_battle_phase)
           /\ b <= 2 * r["MAIN1"]
           /\ r["BATTLE_START"] = b - (IF s = 11 THEN 1 ELSE 0)
           /\ r["BATTLE"] = b - (IF s \in 11 .. 12 THEN 1 ELSE 0)
           /\ r["BATTLE_STEP"] <= b - (IF s \in 11 .. 12 THEN 1 ELSE 0)
<1>1. /\ r["DRAW"] \in 0 .. 3 /\ r["STANDBY"] \in 0 .. 3 /\ r["MAIN1"] \in 0 .. 3
      /\ r["BATTLE_START"] \in 0 .. 3 /\ r["BATTLE_STEP"] \in 0 .. 3
      /\ r["BATTLE"] \in 0 .. 3 /\ r["MAIN2"] \in 0 .. 3 /\ r["END"] \in 0 .. 3
  BY DEF Counted, Phases
<1>2. PICK o : o = Nothing OBVIOUS
<1>3. /\ o["DRAW"] = 0 /\ o["STANDBY"] = 0 /\ o["MAIN1"] = 0
      /\ o["BATTLE_START"] = 0 /\ o["BATTLE_STEP"] = 0
      /\ o["BATTLE"] = 0 /\ o["MAIN2"] = 0 /\ o["END"] = 0
  BY <1>2 DEF Nothing, Counted, Phases
<1>4. 1 - 0 = 1 /\ r["MAIN1"] - 0 = r["MAIN1"] /\ 0 # 1 BY <1>1
<1>5. PICK n : n = b - (IF s \in 11 .. 12 THEN 1 ELSE 0) OBVIOUS
<1>6. n - 0 = n BY <1>5
<1> QED BY <1>2, <1>3, <1>4, <1>5, <1>6, Tallied

(* The steps that leave nothing to be done to another unit; *)
LEMMA Passing ==
  ASSUME NEW t \in TurnUnits, NEW v \in TurnUnits, NEW r \in [Counted -> 0 .. 3],
         NEW q \in [Counted -> 0 .. 3], NEW b \in Nat, NEW S, Tally(t, Nothing, r, b),
         Made(r, q, S),
         v.has_performed_second_battle_phase = t.has_performed_second_battle_phase,
         \/ S = {"DRAW", "STANDBY", "END"} /\ t.step = 1 /\ v.step = 19
         \/ S = {"DRAW"} /\ t.step = 2 /\ v.step = 4
         \/ S = {"STANDBY"} /\ t.step = 5 /\ v.step = 7
         \/ S = {"END"} /\ t.step = 16 /\ v.step = 19
         \/ S = {} /\ t.step \in {1, 2, 4, 5, 7, 8, 14, 16, 17, 19} /\ v.step = t.step + 1
         \/ S = {} /\ t.step = 10 /\ v.step = 16
  PROVE  Tally(v, Nothing, q, b)
<1>1. PICK s, m : s = t.step /\ m = v.step OBVIOUS
<1>2. /\ r["DRAW"] \in 0 .. 3 /\ r["STANDBY"] \in 0 .. 3 /\ r["MAIN1"] \in 0 .. 3
      /\ r["BATTLE_START"] \in 0 .. 3 /\ r["BATTLE_STEP"] \in 0 .. 3
      /\ r["BATTLE"] \in 0 .. 3 /\ r["MAIN2"] \in 0 .. 3 /\ r["END"] \in 0 .. 3
  BY DEF Counted, Phases
<1>4. /\ q["MAIN1"] = r["MAIN1"] /\ q["BATTLE_START"] = r["BATTLE_START"]
      /\ q["BATTLE_STEP"] = r["BATTLE_STEP"] /\ q["BATTLE"] = r["BATTLE"] /\ q["MAIN2"] = r["MAIN2"]
      /\ q["DRAW"] = IF "DRAW" \in S /\ r["DRAW"] < 3 THEN r["DRAW"] + 1 ELSE r["DRAW"]
      /\ q["STANDBY"] = IF "STANDBY" \in S /\ r["STANDBY"] < 3 THEN r["STANDBY"] + 1 ELSE r["STANDBY"]
      /\ q["END"] = IF "END" \in S /\ r["END"] < 3 THEN r["END"] + 1 ELSE r["END"]
  <2>1. /\ "DRAW" \in Counted /\ "STANDBY" \in Counted /\ "MAIN1" \in Counted
        /\ "BATTLE_START" \in Counted /\ "BATTLE_STEP" \in Counted
        /\ "BATTLE" \in Counted /\ "MAIN2" \in Counted /\ "END" \in Counted
    BY DEF Counted, Phases
  <2>2. /\ "MAIN1" \notin S /\ "BATTLE_START" \notin S /\ "BATTLE_STEP" \notin S
        /\ "BATTLE" \notin S /\ "MAIN2" \notin S
    OBVIOUS
  <2> QED BY <2>1, <2>2 DEF Made
<1>5. /\ "DRAW" \in S <=> (s = 1 /\ m = 19) \/ (s = 2 /\ m = 4)
      /\ "STANDBY" \in S <=> (s = 1 /\ m = 19) \/ (s = 5 /\ m = 7)
      /\ "END" \in S <=> (s = 1 /\ m = 19) \/ (s = 16 /\ m = 19)
      /\ s \in 0 .. 20 /\ m \in 0 .. 20
      /\ \/ <<s, m>> \in {<<1, 19>>, <<2, 4>>, <<5, 7>>, <<16, 19>>, <<10, 16>>}
         \/ s \in {1, 2, 4, 5, 7, 8, 14, 16, 17, 19} /\ m = s + 1
  BY <1>1 DEF TurnUnits
<1>6. /\ r["DRAW"] = IF s < 4 THEN 0 ELSE 1
      /\ r["STANDBY"] = IF s < 7 THEN 0 ELSE 1
      /\ r["END"] = IF s < 19 THEN 0 ELSE 1
      /\ s < 10 => r["MAIN1"] = 0
      /\ s \in 10 .. 18 => r["MAIN1"] = 1
      /\ r["MAIN1"] <= 1
      /\ r["MAIN2"] <= IF s < 16 THEN 0 ELSE r["MAIN1"]
      /\ b <= 2 * r["MAIN1"]
      /\ r["BATTLE_START"] = b - (IF s = 11 THEN 1 ELSE 0)
      /\ r["BATTLE"] = b - (IF s \in 11 .. 12 THEN 1 ELSE 0)
      /\ r["BATTLE_STEP"] <= b - (IF s \in 11 .. 12 THEN 1 ELSE 0)
  BY <1>1, Quietly
<1>7. /\ q["DRAW"] = IF m < 4 THEN 0 ELSE 1
      /\ q["STANDBY"] = IF m < 7 THEN 0 ELSE 1
      /\ q["END"] = IF m < 19 THEN 0 ELSE 1
  BY <1>2, <1>4, <1>5, <1>6
<1>8. /\ m < 10 => q["MAIN1"] = 0
      /\ m \in 10 .. 18 => q["MAIN1"] = 1
      /\ q["MAIN1"] <= 1
      /\ q["MAIN2"] <= IF m < 16 THEN 0 ELSE q["MAIN1"]
      /\ b <= 2 * q["MAIN1"]
  BY <1>2, <1>4, <1>5, <1>6
<1>9. m \notin 10 .. 13 /\ s \notin 11 .. 13 BY <1>5
<1>10. q["BATTLE_START"] = b /\ q["BATTLE"] = b /\ q["BATTLE_STEP"] <= b
  BY <1>2, <1>4, <1>6, <1>9
<1> QED BY <1>1, <1>2, <1>4, <1>5, <1>7, <1>8, <1>9, <1>10, Quietly

(* those that begin and end a battle phase; *)
LEMMA Battling ==
  ASSUME NEW t \in TurnUnits, NEW v \in TurnUnits, NEW r \in [Counted -> 0 .. 3],
         NEW q \in [Counted -> 0 .. 3], NEW b \in Nat, NEW c \in Nat, NEW S,
         Tally(t, Nothing, r, b), Made(r, q, S),
         \/ /\ t.step = 10 /\ c = b + 1
            /\ v.has_performed_second_battle_phase = t.has_performed_second_battle_phase
            /\ \/ S = {} /\ v.step = 11
               \/ S = {"BATTLE_START", "BATTLE_STEP", "BATTLE"} /\ v.step = 16
         \/ /\ t.step = 13 /\ c = b /\ S = {}
            /\ \/ v.step \in {14, 16}
               \/ /\ v.step = 10 /\ ~t.has_performed_second_battle_phase
                  /\ v.has_performed_second_battle_phase
  PROVE  Tally(v, Nothing, q, c)
<1>1. PICK s, m : s = t.step /\ m = v.step OBVIOUS
<1>2. /\ r["DRAW"] \in 0 .. 3 /\ r["STANDBY"] \in 0 .. 3 /\ r["MAIN1"] \in 0 .. 3
      /\ r["BATTLE_START"] \in 0 .. 3 /\ r["BATTLE_STEP"] \in 0 .. 3
      /\ r["BATTLE"] \in 0 .. 3 /\ r["MAIN2"] \in 0 .. 3 /\ r["END"] \in 0 .. 3
  BY DEF Counted, Phases
<1>3. \/ s = 10 /\ m \in {11, 16}
      \/ s = 13 /\ m \in {10, 14, 16}
  BY <1>1
<1>4. \/ S = {} \/ (S = {"BATTLE_START", "BATTLE_STEP", "BATTLE"} /\ s = 10 /\ m = 16)
  BY <1>1
<1>5. /\ q["MAIN1"] = r["MAIN1"] /\ q["MAIN2"] = r["MAIN2"]
      /\ q["DRAW"] = r["DRAW"] /\ q["STANDBY"] = r["STANDBY"] /\ q["END"] = r["END"]
      /\ q["BATTLE_START"] = IF S # {} /\ r["BATTLE_START"] < 3 THEN r["BATTLE_START"] + 1
                                                                ELSE r["BATTLE_START"]
      /\ q["BATTLE_STEP"] = IF S # {} /\ r["BATTLE_STEP"] < 3 THEN r["BATTLE_STEP"] + 1
                                                              ELSE r["BATTLE_STEP"]
      /\ q["BATTLE"] = IF S # {} /\ r["BATTLE"] < 3 THEN r["BATTLE"] + 1 ELSE r["BATTLE"]
  <2>1. /\ "DRAW" \in Counted /\ "STANDBY" \in Counted /\ "MAIN1" \in Counted
        /\ "BATTLE_START" \in Counted /\ "BATTLE_STEP" \in Counted
        /\ "BATTLE" \in Counted /\ "MAIN2" \in Counted /\ "END" \in Counted
    BY DEF Counted, Phases
  <2>2. /\ "MAIN1" \notin S /\ "MAIN2" \notin S /\ "DRAW" \notin S /\ "STANDBY" \notin S
        /\ "END" \notin S /\ ("BATTLE_START" \in S <=> S # {})
        /\ ("BATTLE_STEP" \in S <=> S # {}) /\ ("BATTLE" \in S <=> S # {})
    BY <1>4
  <2> QED BY <2>1, <2>2 DEF Made
<1>6. /\ r["DRAW"] = 1 /\ r["STANDBY"] = 1 /\ r["END"] = 0 /\ r["MAIN1"] = 1 /\ r["MAIN2"] <= 0
      /\ r["BATTLE_START"] = b /\ r["BATTLE"] = b /\ r["BATTLE_STEP"] <= b /\ b <= 2
      /\ s = 10 => b = 0 \/ (b = 1 /\ t.has_performed_second_battle_phase)
      /\ s = 13 => b = 1 \/ (b = 2 /\ t.has_performed_second_battle_phase)
  <2>1. /\ r["DRAW"] = IF s < 4 THEN 0 ELSE 1
        /\ r["STANDBY"] = IF s < 7 THEN 0 ELSE 1
        /\ r["END"] = IF s < 19 THEN 0 ELSE 1
        /\ s \in 10 .. 18 => r["MAIN1"] = 1
        /\ r["MAIN2"] <= IF s < 16 THEN 0 ELSE r["MAIN1"]
        /\ s = 10 => b = 0 \/ (b = 1 /\ t.has_performed_second_battle_phase)
        /\ s \in 11 .. 13 => b = 1 \/ (b = 2 /\ t.has_performed_second_battle_phase)
        /\ b <= 2 * r["MAIN1"]
        /\ r["BATTLE_START"] = b - (IF s = 11 THEN 1 ELSE 0)
        /\ r["BATTLE"] = b - (IF s \in 11 .. 12 THEN 1 ELSE 0)
        /\ r["BATTLE_STEP"] <= b - (IF s \in 11 .. 12 THEN 1 ELSE 0)
    BY <1>1, Quietly
  <2>2. s \in 10 .. 18 /\ ~(s < 4) /\ ~(s < 7) /\ s < 19 /\ s < 16 /\ s \notin 11 .. 12 /\ s # 11
        /\ (s = 13 => s \in 11 .. 13)
    BY <1>3
  <2> QED BY <2>1, <2>2, <1>2
<1>7. CASE s = 10
  <2>1. c = b + 1
        /\ v.has_performed_second_battle_phase = t.has_performed_second_battle_phase
        /\ (m = 11 => S = {}) /\ (m = 16 => S # {}) /\ m \in {11, 16}
    BY <1>1, <1>7
  <2>2. /\ q["BATTLE_START"] = c - (IF m = 11 THEN 1 ELSE 0)
        /\ q["BATTLE"] = c - (IF m \in 11 .. 12 THEN 1 ELSE 0)
        /\ q["BATTLE_STEP"] <= c - (IF m \in 11 .. 12 THEN 1 ELSE 0)
        /\ c <= 2 /\ (c = 1 \/ c = 2)
    <3>1. CASE m = 11 BY <1>2, <1>5, <1>6, <1>7, <2>1, <3>1
    <3>2. CASE m = 16 BY <1>2, <1>5, <1>6, <1>7, <2>1, <3>2
    <3> QED BY <2>1, <3>1, <3>2
  <2>3. c = 1 \/ (c = 2 /\ v.has_performed_second_battle_phase)
    <3>1. CASE b = 0 BY <2>1, <3>1
    <3>2. CASE b = 1 /\ t.has_performed_second_battle_phase
      <4>1. c = 2 BY <2>1, <3>2
      <4> QED BY <2>1, <3>2, <4>1, Zenon
    <3> QED BY <1>6, <1>7, <3>1, <3>2
  <2> QED BY <1>1, <1>2, <1>5, <1>6, <2>1, <2>2, <2>3, Quietly
<1>8. CASE s = 13
  <2>1. /\ c = b /\ S = {} /\ m \in {10, 14, 16}
        /\ m = 10 => /\ ~t.has_performed_second_battle_phase
                     /\ v.has_performed_second_battle_phase
    BY <1>1, <1>8
  <2>2. /\ q["BATTLE_START"] = c /\ q["BATTLE"] = c /\ q["BATTLE_STEP"] <= c /\ c <= 2
    BY <1>2, <1>5, <1>6, <2>1
  <2>3. m = 10 => c = 1 /\ v.has_performed_second_battle_phase BY <1>6, <1>8, <2>1
  <2> QED BY <1>1, <1>2, <1>5, <1>6, <2>1, <2>2, <2>3, Quietly
<1> QED BY <1>3, <1>7, <1>8

(* and those that leave the reset to one. *)
LEMMA Owing ==
  ASSUME NEW t \in TurnUnits, NEW v \in TurnUnits, NEW r \in [Counted -> 0 .. 3],
         NEW b \in Nat, NEW p \in [Counted -> 0 .. 1], NEW P, Tally(t, Nothing, r, b),
         v.has_performed_second_battle_phase = t.has_performed_second_battle_phase,
         \A x \in Counted : p[x] = 1 <=> x \in P,
         \/ P = {"DRAW"} /\ t.step = 3 /\ v.step = 4
         \/ P = {"STANDBY"} /\ t.step = 6 /\ v.step = 7
         \/ P = {"MAIN1"} /\ t.step = 9 /\ v.step = 10
         \/ P = {"BATTLE_START"} /\ t.step = 11 /\ v.step = 12
         \/ P = {"BATTLE_STEP", "BATTLE"} /\ t.step = 12 /\ v.step = 13
         \/ P = {"MAIN2"} /\ t.step = 15 /\ v.step = 16
         \/ P = {"END"} /\ t.step = 18 /\ v.step = 19
  PROVE  Tally(v, p, r, b)
<1>1. PICK s, m : s = t.step /\ m = v.step OBVIOUS
<1>2. /\ r["DRAW"] \in 0 .. 3 /\ r["STANDBY"] \in 0 .. 3 /\ r["MAIN1"] \in 0 .. 3
      /\ r["BATTLE_START"] \in 0 .. 3 /\ r["BATTLE_STEP"] \in 0 .. 3
      /\ r["BATTLE"] \in 0 .. 3 /\ r["MAIN2"] \in 0 .. 3 /\ r["END"] \in 0 .. 3
  BY DEF Counted, Phases
<1>3. s \in {3, 6, 9, 11, 12, 15, 18} /\ m = s + 1 BY <1>1
<1>4. /\ p["DRAW"] = IF s = 3 THEN 1 ELSE 0
      /\ p["STANDBY"] = IF s = 6 THEN 1 ELSE 0
      /\ p["MAIN1"] = IF s = 9 THEN 1 ELSE 0
      /\ p["BATTLE_START"] = IF s = 11 THEN 1 ELSE 0
      /\ p["BATTLE_STEP"] = IF s = 12 THEN 1 ELSE 0
      /\ p["BATTLE"] = IF s = 12 THEN 1 ELSE 0
      /\ p["MAIN2"] = IF s = 15 THEN 1 ELSE 0
      /\ p["END"] = IF s = 18 THEN 1 ELSE 0
  <2>1. /\ "DRAW" \in Counted /\ "STANDBY" \in Counted /\ "MAIN1" \in Counted
        /\ "BATTLE_START" \in Counted /\ "BATTLE_STEP" \in Counted
        /\ "BATTLE" \in Counted /\ "MAIN2" \in Counted /\ "END" \in Counted
    BY DEF Counted, Phases
  <2>2. \A x \in Counted : p[x] = IF x \in P THEN 1 ELSE 0 OBVIOUS
  <2>3. /\ ("DRAW" \in P <=> s = 3) /\ ("STANDBY" \in P <=> s = 6)
        /\ ("MAIN1" \in P <=> s = 9) /\ ("BATTLE_START" \in P <=> s = 11)
        /\ ("BATTLE_STEP" \in P <=> s = 12) /\ ("BATTLE" \in P <=> s = 12)
        /\ ("MAIN2" \in P <=> s = 15) /\ ("END" \in P <=> s = 18)
    BY <1>1
  <2> QED BY <2>1, <2>2, <2>3
<1>5. /\ r["DRAW"] = IF s < 4 THEN 0 ELSE 1
      /\ r["STANDBY"] = IF s < 7 THEN 0 ELSE 1
      /\ r["END"] = IF s < 19 THEN 0 ELSE 1
      /\ s < 10 => r["MAIN1"] = 0
      /\ s \in 10 .. 18 => r["MAIN1"] = 1
      /\ r["MAIN1"] <= 1
      /\ r["MAIN2"] <= IF s < 16 THEN 0 ELSE r["MAIN1"]
      /\ s \in 11 .. 13 => b = 1 \/ (b = 2 /\ t.has_performed_second_battle_phase)
      /\ b <= 2 * r["MAIN1"]
      /\ r["BATTLE_START"] = b - (IF s = 11 THEN 1 ELSE 0)
      /\ r["BATTLE"] = b - (IF s \in 11 .. 12 THEN 1 ELSE 0)
      /\ r["BATTLE_STEP"] <= b - (IF s \in 11 .. 12 THEN 1 ELSE 0)
  BY <1>1, Quietly
<1>6. /\ (p["DRAW"] = 1 => m = 4) /\ (p["STANDBY"] = 1 => m = 7)
      /\ (p["MAIN1"] = 1 => m = 10) /\ (p["BATTLE_START"] = 1 => m = 12)
      /\ (p["BATTLE_STEP"] = 1 => m = 13) /\ (p["BATTLE"] = 1 => m = 13)
      /\ (p["MAIN2"] = 1 => m = 16) /\ (p["END"] = 1 => m = 19)
  BY <1>3, <1>4
<1>7. /\ r["DRAW"] = IF m < 4 THEN 0 ELSE 1 - p["DRAW"]
      /\ r["STANDBY"] = IF m < 7 THEN 0 ELSE 1 - p["STANDBY"]
      /\ r["END"] = IF m < 19 THEN 0 ELSE 1 - p["END"]
  BY <1>2, <1>3, <1>4, <1>5
<1>8. /\ m < 10 => r["MAIN1"] = 0
      /\ m \in 10 .. 18 => r["MAIN1"] = 1 - p["MAIN1"]
      /\ r["MAIN2"] <= IF m < 16 THEN 0 ELSE r["MAIN1"] - p["MAIN2"]
  BY <1>2, <1>3, <1>4, <1>5
<1>9. m = 10 => b = 0 BY <1>2, <1>3, <1>5
<1>10. m \in 11 .. 13 => b = 1 \/ (b = 2 /\ v.has_performed_second_battle_phase)
  <2>1. m \in 11 .. 13 => s \in 11 .. 13 BY <1>3
  <2> QED BY <1>5, <2>1
<1>11. /\ r["BATTLE_START"] = b - (IF m = 11 THEN 1 ELSE p["BATTLE_START"])
       /\ r["BATTLE"] = b - (IF m \in 11 .. 12 THEN 1 ELSE 0) - p["BATTLE"]
       /\ r["BATTLE_STEP"] <= b - (IF m \in 11 .. 12 THEN 1 ELSE 0) - p["BATTLE_STEP"]
  BY <1>2, <1>3, <1>4, <1>5
<1>12. m = 10 => b = 0 \/ (b = 1 /\ v.has_performed_second_battle_phase) BY <1>9
<1>13. r["MAIN1"] <= 1 /\ b <= 2 * r["MAIN1"] BY <1>5
<1>14. \A x \in Counted : p[x] = 1 => m = Falls(x) BY <1>6 DEF Counted, Phases, Falls
<1>15. \A x \in {"DRAW", "STANDBY", "END"} : r[x] = IF m < Falls(x) THEN 0 ELSE 1 - p[x]
  BY <1>7 DEF Falls
<1> QED BY <1>1, <1>8, <1>10, <1>11, <1>12, <1>13, <1>14, <1>15 DEF Tally

(* What is owed when the turn has put something on itself. *)
Carries(us, v, w, s, ph) ==
  (\A x : OwedBy(us, s, x) <=> Owes(w, s, x)) /\ Calm(us, s, ph) /\ Bottom(us) = v
LEMMA OnTurn ==
  ASSUME NEW v \in TurnUnits, NEW batch, Aside(batch), NEW s, NEW ph
  PROVE  /\ \A x : ~OwedBy(batch \o <<v>>, s, x)
         /\ Calm(batch \o <<v>>, s, ph) /\ Bottom(batch \o <<v>>) = v
         /\ batch \o <<v>> \o <<>> = batch \o <<v>>
         /\ \A w \in Units : ~Saves(w) /\ (w.kind = "Idle" => ph = MainOf(s)) =>
              Carries((batch \o <<w>>) \o <<v>> \o <<>>, v, w, s, ph)
<1>1. v \in Units BY DEF Units
<1>2. PICK t : t = <<v>> OBVIOUS
<1>3. t \in Seq(Units) /\ t # <<>> /\ Len(t) = 1 /\ t[1] = v BY <1>1, <1>2
<1>4. Bottom(t) = v /\ (\A x : ~OwedBy(t, s, x)) /\ \A x : Calm(t, s, x)
  BY <1>2, <1>3, OwedByTurn DEF Bottom
<1>5. batch \in Seq(Units)
  <2>1. \A c \in SUBSET (-1 .. 8) : Ask(c) \in Units BY DEF Ask, Units, OtherUnits
  <2>2. RefreshRelay \in Units BY DEF RefreshRelay, Units, OtherUnits
  <2>3. CASE batch \in Batches BY <2>3, BatchesAreSeqs
  <2>4. ASSUME NEW q \in Units, batch = <<q>>
        PROVE  batch \in Seq(Units)
    BY <2>4
  <2> QED BY <2>1, <2>2, <2>3, <2>4 DEF Aside
<1>6. ASSUME NEW us \in Seq(Units), us # <<>>
      PROVE  /\ \A x : OwedBy(batch \o us, s, x) <=> OwedBy(us, s, x)
             /\ \A x : Calm(batch \o us, s, x) <=> Calm(us, s, x)
             /\ Bottom(batch \o us) = Bottom(us)
  BY <1>6, Freely DEF Aside
<1>7. \A us \in Seq(Units) : batch \o us \in Seq(Units) /\ batch \o us \o <<>> = batch \o us
  <2> TAKE us \in Seq(Units)
  <2>1. batch \o us \in Seq(Units) BY <1>5, ConcatProperties
  <2> QED BY <2>1, ConcatEmptySeq
<1>8. ASSUME NEW w \in Units, ~Saves(w), w.kind = "Idle" => ph = MainOf(s)
      PROVE  Carries((batch \o <<w>>) \o <<v>> \o <<>>, v, w, s, ph)
  <2>1. PICK us : us = <<w>> \o t OBVIOUS
  <2>2. us \in Seq(Units) /\ us # <<>> /\ Bottom(us) = v
    BY <1>3, <1>4, <2>1, BottomOnTop
  <2>3. /\ \A x : OwedBy(us, s, x) <=> Owes(w, s, x)
        /\ Calm(us, s, ph)
    BY <1>3, <1>4, <1>8, <2>1, OwedOnTop
  <2>4. (batch \o <<w>>) \o <<v>> \o <<>> = batch \o us
    <3>1. <<w>> \in Seq(Units) OBVIOUS
    <3>2. (batch \o <<w>>) \o t = batch \o us
      BY <1>3, <1>5, <2>1, <3>1, ConcatAssociative
    <3>3. (batch \o us) \o <<>> = batch \o us BY <1>7, <2>2
    <3> QED BY <1>2, <3>2, <3>3
  <2> QED BY <1>2, <1>6, <2>1, <2>2, <2>3, <2>4 DEF Carries
<1>9. /\ \A x : ~OwedBy(batch \o t, s, x)
      /\ Calm(batch \o t, s, ph) /\ Bottom(batch \o t) = v
      /\ batch \o t \o <<>> = batch \o t
  BY <1>3, <1>4, <1>6, <1>7
<1> QED BY <1>2, <1>8, <1>9

LEMMA TurnResets ==
  ASSUME Types, Types', Stack, Resets, TurnStep
  PROVE  Resets'
<1>1. PICK u : u = Front OBVIOUS
<1>2. u.kind = "Turn"
  BY <1>1 DEF TurnStep, PreDraw, NewTurn, DrawPhase, Draw, NothingLeft, StandbyPhase,
         PhaseEvents, MainPhase1, Commands, BattlePhaseStart, BattleStep, AfterBattle,
         EndPhase, TurnEnd, ChangePlayer, At
<1>3. u \in TurnUnits /\ Tail(units) = <<>> /\ units = <<u>> /\ Suits(u, phase)
  <2>1. u \in Units /\ units = <<u>> \o Tail(units) /\ Tail(units) = <<>> /\ Suits(u, phase)
    BY <1>1, <1>2, Pop DEF Stack, Front
  <2>2. <<u>> \in Seq(Units) BY <2>1
  <2>3. units = <<u>> BY <2>1, <2>2, ConcatEmptySeq
  <2> QED BY <1>2, <2>1, <2>3, Kinds
<1>4. \A s : (At("Turn", s) <=> u.step = s) BY <1>1, <1>2 DEF At
<1>5. PICK r, q : r = resets /\ q = resets' OBVIOUS
<1>6. PICK b, c : b = battle_phase_count /\ c = battle_phase_count' OBVIOUS
<1>7. /\ r \in [Counted -> 0 .. 3] /\ q \in [Counted -> 0 .. 3] /\ b \in Nat /\ c \in Nat
  BY <1>5, <1>6 DEF Types
<1>8. ~interrupted /\ u.step # 0 => Tally(u, Nothing, r, b)
  <2>1. Owed(units, u.step) = Nothing
    <3>1. \A x : ~OwedBy(units, u.step, x) BY <1>3, OwedByTurn
    <3> QED BY <3>1 DEF Owed, Nothing
  <2>2. units[Len(units)] = u BY <1>3
  <2> QED BY <1>4, <1>5, <1>6, <2>1, <2>2 DEF Resets
<1>9. \A s \in 0 .. 20 :
        /\ Now(u, s) \in TurnUnits /\ Now(u, s).step = s
        /\ Now(u, s).has_performed_second_battle_phase = u.has_performed_second_battle_phase
  <2> TAKE s \in 0 .. 20
  <2>1. PICK v : v = [u EXCEPT !.step = s] OBVIOUS
  <2>2. v.has_performed_second_battle_phase = u.has_performed_second_battle_phase
    BY <1>3, <2>1 DEF TurnUnits
  <2> QED BY <1>3, <2>1, <2>2, NowTurn DEF Now
<1>10. ASSUME NEW v \in TurnUnits, NEW batch, Aside(batch),
              Stacked(units', batch, v, Tail(units)), Tally(v, Nothing, q, c)
       PROVE  Resets'
  <2>1. PICK s, ph : s = v.step /\ ph = phase' OBVIOUS
  <2>2. /\ \A x : ~OwedBy(units', s, x)
        /\ Calm(units', s, ph) /\ Bottom(units') = v
    BY <1>3, <1>10, OnTurn DEF Stacked
  <2>3. Owed(units', s) = Nothing BY <2>2 DEF Owed, Nothing
  <2> QED BY <1>5, <1>6, <1>10, <2>1, <2>2, <2>3 DEF Resets, Bottom
<1>11. ASSUME NEW v \in TurnUnits, NEW w \in Units, ~Saves(w),
              w.kind = "Idle" => phase' = MainOf(v.step), NEW batch, Aside(batch),
              Stacked(units', batch \o <<w>>, v, Tail(units)),
              NEW P, \A x \in Counted : Owes(w, v.step, x) <=> x \in P,
              ~interrupted, interrupted' = interrupted, resets' = resets, u.step # 0,
              battle_phase_count' = battle_phase_count,
              v.has_performed_second_battle_phase = u.has_performed_second_battle_phase,
              \/ P = {"DRAW"} /\ u.step = 3 /\ v.step = 4
              \/ P = {"STANDBY"} /\ u.step = 6 /\ v.step = 7
              \/ P = {"MAIN1"} /\ u.step = 9 /\ v.step = 10
              \/ P = {"BATTLE_START"} /\ u.step = 11 /\ v.step = 12
              \/ P = {"BATTLE_STEP", "BATTLE"} /\ u.step = 12 /\ v.step = 13
              \/ P = {"MAIN2"} /\ u.step = 15 /\ v.step = 16
              \/ P = {"END"} /\ u.step = 18 /\ v.step = 19
       PROVE  Resets'
  <2>1. PICK s, ph : s = v.step /\ ph = phase' OBVIOUS
  <2>2. /\ \A x : OwedBy(units', s, x) <=> Owes(w, s, x)
        /\ Calm(units', s, ph) /\ Bottom(units') = v
    <3>1. ~Saves(w) /\ (w.kind = "Idle" => ph = MainOf(s)) /\ Aside(batch)
      BY <1>11, <2>1
    <3>2. Carries((batch \o <<w>>) \o <<v>> \o <<>>, v, w, s, ph) BY <3>1, OnTurn
    <3>3. units' = (batch \o <<w>>) \o <<v>> \o <<>> BY <1>3, <1>11 DEF Stacked
    <3> QED BY <3>2, <3>3 DEF Carries
  <2>3. PICK p : p = [x \in Counted |-> IF OwedBy(units', s, x) THEN 1 ELSE 0] OBVIOUS
  <2>4. p \in [Counted -> 0 .. 1] /\ \A x \in Counted : p[x] = 1 <=> x \in P
    BY <1>11, <2>1, <2>2, <2>3
  <2>5. Tally(v, p, r, b) BY <1>3, <1>7, <1>8, <1>11, <2>4, Owing
  <2>6. Owed(units', s) = p BY <2>3 DEF Owed
  <2> QED BY <1>5, <1>6, <1>11, <2>1, <2>2, <2>5, <2>6 DEF Resets, Bottom
<1>12. /\ \A S : ~interrupted /\ Reset(S) => Made(r, q, S)
       /\ resets' = resets => Made(r, q, {})
  <2>1. ASSUME NEW S, ~interrupted, Reset(S)
        PROVE  Made(r, q, S)
    BY <1>5, <2>1 DEF Reset, Made
  <2>2. resets' = resets => Made(r, q, {}) BY <1>5 DEF Made
  <2> QED BY <2>1, <2>2
<1>13. /\ Aside(<<>>) /\ Aside(<<Effects>>) /\ Aside(<<RefreshRelay>>)
       /\ \A batch \in MayPoint : Aside(batch)
  BY Singles DEF Aside, MayPoint, Batches
<1>14. ASSUME ~interrupted, interrupted' = interrupted, c = b, NEW m \in 0 .. 20,
              NEW batch, Aside(batch), Stacked(units', batch, Now(u, m), Tail(units)),
              NEW S, Made(r, q, S),
              \/ S = {"DRAW", "STANDBY", "END"} /\ u.step = 1 /\ m = 19
              \/ S = {"DRAW"} /\ u.step = 2 /\ m = 4
              \/ S = {"STANDBY"} /\ u.step = 5 /\ m = 7
              \/ S = {"END"} /\ u.step = 16 /\ m = 19
              \/ S = {} /\ u.step \in {1, 2, 4, 5, 7, 8, 14, 16, 17, 19} /\ m = u.step + 1
              \/ S = {} /\ u.step = 10 /\ m = 16
       PROVE  Resets'
  <2>1. PICK v \in TurnUnits :
          /\ v = Now(u, m) /\ v.step = m
          /\ v.has_performed_second_battle_phase = u.has_performed_second_battle_phase
    BY <1>9
  <2>2. u.step # 0 BY <1>14
  <2>3. Tally(v, Nothing, q, c) BY <1>3, <1>7, <1>8, <1>14, <2>1, <2>2, Passing
  <2> QED BY <1>10, <1>14, <2>1, <2>3
<1>15. interrupted' = interrupted \/ PreDraw
  BY DEF TurnStep, NewTurn, DrawPhase, Draw, NothingLeft, StandbyPhase,
         PhaseEvents, MainPhase1, Commands, BattlePhaseStart, BattleStep, AfterBattle,
         EndPhase, TurnEnd, ChangePlayer, battles
<1>16. CASE PreDraw
  <2>1. PICK v \in TurnUnits : v = Now(u, 1) /\ v.step = 1 BY <1>9
  <2>2. Stacked(units', <<RefreshRelay>>, v, Tail(units))
    BY <1>1, <1>16, <2>1 DEF PreDraw, GoOn, GoOnAs, Now, Stacked
  <2>3. c = 0 /\ q = Nothing BY <1>5, <1>6, <1>16 DEF PreDraw, Nothing
  <2>4. /\ q["DRAW"] = 0 /\ q["STANDBY"] = 0 /\ q["END"] = 0
        /\ q["MAIN1"] = 0 /\ q["MAIN2"] = 0
        /\ q["BATTLE_START"] = 0 /\ q["BATTLE"] = 0 /\ q["BATTLE_STEP"] = 0
    BY <2>3 DEF Nothing, Counted, Phases
  <2>5. Tally(v, Nothing, q, c) BY <1>7, <2>1, <2>3, <2>4, Quietly
  <2> QED BY <1>10, <1>13, <2>1, <2>2, <2>5
<1> SUFFICES ASSUME ~interrupted, interrupted' = interrupted
             PROVE  Resets'
  BY <1>15, <1>16 DEF Resets
<1>17. CASE NewTurn
  <2>1. u.step = 1 /\ c = b BY <1>4, <1>6, <1>17 DEF NewTurn, battles
  <2>2. \/ Reset({"DRAW", "STANDBY", "END"}) /\ Stacked(units', <<Effects>>, Now(u, 19), Tail(units))
        \/ resets' = resets /\ Stacked(units', <<Effects>>, Now(u, 2), Tail(units))
    BY <1>1, <1>17 DEF NewTurn, GoOn, GoOnAs, Now, Stacked
  <2>3. 2 = u.step + 1 BY <2>1
  <2> QED BY <1>12, <1>13, <1>14, <2>1, <2>2, <2>3
<1>18. CASE DrawPhase
  <2>1. u.step = 2 /\ c = b BY <1>4, <1>6, <1>18 DEF DrawPhase, battles
  <2>2. \/ Reset({"DRAW"}) /\ Stacked(units', <<Effects>>, Now(u, 4), Tail(units))
        \/ resets' = resets /\ \E batch \in MayPoint : Stacked(units', batch, Now(u, 3), Tail(units))
    BY <1>1, <1>18 DEF DrawPhase, SkipPhase, GoOn, GoOnAs, Now, Stacked
  <2>3. 3 = u.step + 1 BY <2>1
  <2> QED BY <1>12, <1>13, <1>14, <2>1, <2>2, <2>3
<1>19. CASE StandbyPhase
  <2>1. u.step = 5 /\ c = b BY <1>4, <1>6, <1>19 DEF StandbyPhase, battles
  <2>2. \/ Reset({"STANDBY"}) /\ Stacked(units', <<Effects>>, Now(u, 7), Tail(units))
        \/ resets' = resets /\ Stacked(units', <<>>, Now(u, 6), Tail(units))
    BY <1>1, <1>19 DEF StandbyPhase, SkipPhase, GoOn, GoOnAs, Now, Stacked
  <2>3. 6 = u.step + 1 BY <2>1
  <2> QED BY <1>12, <1>13, <1>14, <2>1, <2>2, <2>3
<1>20. CASE EndPhase
  <2>1. u.step = 16 /\ c = b BY <1>4, <1>6, <1>20 DEF EndPhase, battles
  <2>2. \/ Reset({"END"}) /\ Stacked(units', <<Effects>>, Now(u, 19), Tail(units))
        \/ resets' = resets /\ Stacked(units', <<Effects>>, Now(u, 17), Tail(units))
    BY <1>1, <1>20 DEF EndPhase, SkipPhase, GoOn, GoOnAs, Now, Stacked
  <2>3. 17 = u.step + 1 BY <2>1
  <2> QED BY <1>12, <1>13, <1>14, <2>1, <2>2, <2>3
<1>21. CASE NothingLeft \/ MainPhase1 \/ TurnEnd
  <2>1. c = b /\ resets' = resets
    BY <1>6, <1>21 DEF NothingLeft, MainPhase1, TurnEnd, battles
  <2>2. /\ u.step \in {4, 8, 7, 19}
        /\ \E batch \in {<<>>, <<Effects>>} : Stacked(units', batch, Now(u, u.step + 1), Tail(units))
    BY SMTT(20), <1>1, <1>4, <1>21 DEF NothingLeft, MainPhase1, TurnEnd, GoOn, GoOnAs, Now, Stacked
  <2>3. PICK m \in 0 .. 20 : m = u.step + 1 BY <2>2
  <2> QED BY <1>12, <1>13, <1>14, <2>1, <2>2, <2>3
<1>22. \A P \in {{"DRAW"}, {"STANDBY"}, {"BATTLE_START"}, {"END"}, {"MAIN1"}, {"MAIN2"},
                 {"BATTLE_STEP", "BATTLE"}} : P \subseteq Counted
  BY DEF Counted, Phases
<1>23. ASSUME NEW ph \in Events, NEW batch, Aside(batch), NEW m \in 0 .. 20, NEW k,
              u.step = k, resets' = resets, c = b,
              Stacked(units', batch \o <<PhaseEvent(ph)>>, Now(u, m), Tail(units)),
              \/ ph = "DRAW" /\ k = 3 /\ m = 4
              \/ ph = "STANDBY" /\ k = 6 /\ m = 7
              \/ ph = "BATTLE_START" /\ k = 11 /\ m = 12
              \/ ph = "END" /\ k = 18 /\ m = 19
       PROVE  Resets'
  <2>1. PICK v \in TurnUnits :
          /\ v = Now(u, m) /\ v.step = m
          /\ v.has_performed_second_battle_phase = u.has_performed_second_battle_phase
    BY <1>9
  <2>2. PICK w : w = PhaseEvent(ph) OBVIOUS
  <2>3. w \in Units /\ w.kind = "Phase" /\ w.phase = ph /\ w.step = 0
    BY <2>2 DEF PhaseEvent, Units, PhaseUnits, Players
  <2>4. ~Saves(w) /\ w.kind # "Idle" /\ \A x : Owes(w, v.step, x) <=> x = ph
    BY <2>3 DEF Saves, Owes
  <2>5. PICK P : P = {ph} OBVIOUS
  <2>6. (\A x \in Counted : Owes(w, v.step, x) <=> x \in P) /\ u.step # 0
    BY <1>23, <2>4, <2>5
  <2>7. \/ P = {"DRAW"} /\ u.step = 3 /\ v.step = 4
        \/ P = {"STANDBY"} /\ u.step = 6 /\ v.step = 7
        \/ P = {"BATTLE_START"} /\ u.step = 11 /\ v.step = 12
        \/ P = {"END"} /\ u.step = 18 /\ v.step = 19
    BY <1>23, <2>1, <2>5
  <2>8. Stacked(units', batch \o <<w>>, v, Tail(units)) BY <1>23, <2>1, <2>2
  <2> QED BY <1>6, <1>11, <1>23, <2>1, <2>3, <2>4, <2>6, <2>7, <2>8
<1>24. CASE Draw
  <2>1. u.step = 3 /\ c = b /\ resets' = resets BY <1>4, <1>6, <1>24 DEF Draw, battles
  <2>2. PICK batch \in MayPoint :
          Stacked(units', batch \o <<PhaseEvent("DRAW")>>, Now(u, 4), Tail(units))
    BY <1>1, <1>24 DEF Draw, GoOn, GoOnAs, Now, Stacked
  <2>3. "DRAW" \in Events BY DEF Events
  <2> QED BY <1>13, <1>23, <2>1, <2>2, <2>3
<1>25. CASE PhaseEvents
  <2>1. c = b /\ resets' = resets BY <1>6, <1>25 DEF PhaseEvents, battles
  <2>2. PICK s \in {6, 11, 14, 17, 18} :
          /\ u.step = s
          /\ \E batch \in IF s = 18 THEN {<<>>} ELSE MayPoint :
               Stacked(units', batch \o (CASE s = 6 -> <<PhaseEvent("STANDBY")>>
                                           [] s = 11 -> <<PhaseEvent("BATTLE_START")>>
                                           [] s = 18 -> <<PhaseEvent("END")>>
                                           [] OTHER -> <<>>), Now(u, s + 1), Tail(units))
    BY <1>1, <1>4, <1>25 DEF PhaseEvents, GoOn, GoOnAs, Now, Stacked
  <2>3. {"STANDBY", "BATTLE_START", "END"} \subseteq Events BY DEF Events
  <2>4. CASE s = 6
    <3>1. PICK batch \in MayPoint :
            Stacked(units', batch \o <<PhaseEvent("STANDBY")>>, Now(u, 7), Tail(units))
      BY <2>2, <2>4
    <3> QED BY <1>13, <1>23, <2>1, <2>2, <2>3, <2>4, <3>1
  <2>5. CASE s = 11
    <3>1. PICK batch \in MayPoint :
            Stacked(units', batch \o <<PhaseEvent("BATTLE_START")>>, Now(u, 12), Tail(units))
      BY <2>2, <2>5
    <3> QED BY <1>13, <1>23, <2>1, <2>2, <2>3, <2>5, <3>1
  <2>6. CASE s = 18
    <3>1. PICK batch \in {<<>>} :
            Stacked(units', batch \o <<PhaseEvent("END")>>, Now(u, 19), Tail(units))
      BY <2>2, <2>6
    <3>2. PICK none : none = batch OBVIOUS
    <3>3. Aside(none) /\ Stacked(units', none \o <<PhaseEvent("END")>>, Now(u, 19), Tail(units))
      BY <1>13, <3>1, <3>2
    <3> QED BY <1>23, <2>1, <2>2, <2>3, <2>6, <3>3
  <2>7. CASE s \in {14, 17}
    <3>1. PICK batch \in MayPoint : Stacked(units', batch \o <<>>, Now(u, s + 1), Tail(units))
      <4>1. s # 6 /\ s # 11 /\ s # 18 BY <2>7
      <4> QED BY <2>2, <4>1
    <3>2. batch \o <<>> = batch
      <4>1. MayPoint \subseteq Batches BY DEF MayPoint, Batches
      <4> QED BY <4>1, BatchesAreSeqs, ConcatEmptySeq
    <3>3. PICK m \in 0 .. 20 : m = s + 1 BY <2>7
    <3>4. Stacked(units', batch, Now(u, m), Tail(units)) BY <3>1, <3>2, <3>3
    <3>5. Made(r, q, {}) /\ u.step \in {14, 17} /\ m = u.step + 1
      BY <1>12, <2>1, <2>2, <2>7, <3>3
    <3> QED BY <1>13, <1>14, <2>1, <3>4, <3>5
  <2> QED BY <2>2, <2>4, <2>5, <2>6, <2>7
<1>26. CASE Commands
  <2>1. c = b /\ resets' = resets /\ phase' = phase BY <1>6, <1>26 DEF Commands, battles
  <2>2. u.step \in {9, 15} /\ Stacked(units', <<Idle>>, Now(u, u.step + 1), Tail(units))
    BY <1>1, <1>4, <1>26 DEF Commands, GoOn, GoOnAs, Now, Stacked
  <2>3. PICK m \in 0 .. 20 : m = u.step + 1 BY <2>2
  <2>4. PICK v \in TurnUnits :
          /\ v = Now(u, m) /\ v.step = m
          /\ v.has_performed_second_battle_phase = u.has_performed_second_battle_phase
    BY <1>9
  <2>5. PICK w : w = Idle OBVIOUS
  <2>6. w \in Units /\ w.kind = "Idle" /\ w.step = 0
    <3>1. w \in IdleUnits BY <2>5 DEF Idle, IdleUnits, Answers
    <3> QED BY <2>5, <3>1 DEF Units, Idle
  <2>7. phase' = MainOf(v.step) BY <1>2, <1>3, <2>1, <2>2, <2>3, <2>4 DEF Suits, MainOf
  <2>8. PICK P : P = {MainOf(v.step)} OBVIOUS
  <2>9. ~Saves(w) /\ \A x \in Counted : Owes(w, v.step, x) <=> x \in P
    BY <2>6, <2>8 DEF Saves, Owes
  <2>10. \/ P = {"MAIN1"} /\ u.step = 9 /\ v.step = 10
         \/ P = {"MAIN2"} /\ u.step = 15 /\ v.step = 16
    BY <2>2, <2>3, <2>4, <2>8 DEF MainOf
  <2>11. PICK batch : batch = <<>> OBVIOUS
  <2>12. Aside(batch) /\ Stacked(units', batch \o <<w>>, v, Tail(units))
    <3>1. <<w>> \in Seq(Units) BY <2>6
    <3>2. batch \o <<w>> = <<w>> BY <2>11, <3>1, ConcatEmptySeq
    <3> QED BY <1>13, <2>2, <2>3, <2>4, <2>5, <2>11, <3>2
  <2> QED BY <1>6, <1>11, <2>1, <2>2, <2>4, <2>6, <2>7, <2>9, <2>10, <2>12
<1>27. CASE BattleStep
  <2>1. c = b /\ resets' = resets /\ u.step = 12
    BY <1>4, <1>6, <1>27 DEF BattleStep, battles
  <2>2. Stacked(units', <<BattleCommand(0, FALSE)>>, Now(u, 13), Tail(units))
    BY <1>1, <1>27 DEF BattleStep, GoOn, GoOnAs, Now, Stacked
  <2>3. PICK v \in TurnUnits :
          /\ v = Now(u, 13) /\ v.step = 13
          /\ v.has_performed_second_battle_phase = u.has_performed_second_battle_phase
    BY <1>9
  <2>4. PICK w : w = BattleCommand(0, FALSE) OBVIOUS
  <2>5. w \in Units /\ w.kind = "Battle" /\ w.step = 0
    <3>1. w \in BattleUnits BY <2>4 DEF BattleCommand, BattleUnits, Answers
    <3> QED BY <2>4, <3>1 DEF Units, BattleCommand
  <2>6. PICK P : P = {"BATTLE_STEP", "BATTLE"} OBVIOUS
  <2>7. ~Saves(w) /\ w.kind # "Idle" /\ \A x \in Counted : Owes(w, v.step, x) <=> x \in P
    BY <2>5, <2>6 DEF Saves, Owes
  <2>8. PICK batch : batch = <<>> OBVIOUS
  <2>9. Aside(batch) /\ Stacked(units', batch \o <<w>>, v, Tail(units))
    <3>1. <<w>> \in Seq(Units) BY <2>5
    <3>2. batch \o <<w>> = <<w>> BY <2>8, <3>1, ConcatEmptySeq
    <3> QED BY <1>13, <2>2, <2>3, <2>4, <2>8, <3>2
  <2> QED BY <1>6, <1>11, <2>1, <2>3, <2>5, <2>6, <2>7, <2>9
<1>28. CASE BattlePhaseStart
  <2>1. u.step = 10 BY <1>4, <1>28 DEF BattlePhaseStart
  <2>2. \/ c = b /\ resets' = resets /\ Stacked(units', <<>>, Now(u, 16), Tail(units))
        \/ /\ c = b + 1
           /\ \/ /\ Reset({"BATTLE_START", "BATTLE_STEP", "BATTLE"})
                 /\ Stacked(units', <<Effects>>, Now(u, 16), Tail(units))
              \/ resets' = resets /\ Stacked(units', <<Effects>>, Now(u, 11), Tail(units))
    BY <1>1, <1>6, <1>28 DEF BattlePhaseStart, SkipPhase, GoOn, GoOnAs, Now, Stacked
  <2>3. CASE c = b /\ resets' = resets /\ Stacked(units', <<>>, Now(u, 16), Tail(units))
    BY <1>12, <1>13, <1>14, <2>1, <2>3
  <2>4. ASSUME c = b + 1, NEW m \in 0 .. 20, Stacked(units', <<Effects>>, Now(u, m), Tail(units)),
               NEW S, Made(r, q, S),
               \/ S = {} /\ m = 11
               \/ S = {"BATTLE_START", "BATTLE_STEP", "BATTLE"} /\ m = 16
        PROVE  Resets'
    <3>1. PICK v \in TurnUnits :
            /\ v = Now(u, m) /\ v.step = m
            /\ v.has_performed_second_battle_phase = u.has_performed_second_battle_phase
      BY <1>9
    <3>2. Tally(v, Nothing, q, c) BY <1>3, <1>7, <1>8, <2>1, <2>4, <3>1, Battling
    <3> QED BY <1>10, <1>13, <2>4, <3>1, <3>2
  <2> QED BY <1>12, <2>2, <2>3, <2>4
<1>29. CASE AfterBattle
  <2>1. u.step = 13 /\ c = b /\ resets' = resets
    BY <1>4, <1>6, <1>29 DEF AfterBattle, battles
  <2>2. \/ /\ ~u.has_performed_second_battle_phase
           /\ Stacked(units', <<>>, [Second(TRUE) EXCEPT !.step = 10], Tail(units))
        \/ Stacked(units', <<Effects>>, [Second(FALSE) EXCEPT !.step = 16], Tail(units))
        \/ Stacked(units', <<Effects>>, [Second(FALSE) EXCEPT !.step = 14], Tail(units))
    BY <1>1, <1>29 DEF AfterBattle, Repeats, GoOnAs, Stacked
  <2>3. ASSUME NEW twice \in BOOLEAN, NEW m \in {10, 14, 16}, NEW batch, Aside(batch),
               Stacked(units', batch, [Second(twice) EXCEPT !.step = m], Tail(units)),
               m = 10 => ~u.has_performed_second_battle_phase /\ twice
        PROVE  Resets'
    <3>1. PICK v : v = [Second(twice) EXCEPT !.step = m] OBVIOUS
    <3>2. v = [kind |-> "Turn", step |-> m, player |-> u.player,
               has_performed_second_battle_phase |-> twice]
      BY <1>1, <1>3, <3>1 DEF Second, TurnUnits
    <3>3. v \in TurnUnits /\ v.step = m /\ v.has_performed_second_battle_phase = twice
      <4>1. u.player \in Players BY <1>3 DEF TurnUnits
      <4> QED BY <3>2, <4>1 DEF TurnUnits
    <3>4. PICK S : S = {} OBVIOUS
    <3>5. S = {} /\ Made(r, q, S) /\ (m = 10 => v.has_performed_second_battle_phase)
      BY <1>12, <2>1, <2>3, <3>3, <3>4
    <3>6. Tally(v, Nothing, q, c) BY <1>3, <1>7, <1>8, <2>1, <2>3, <3>3, <3>5, Battling
    <3>7. Stacked(units', batch, v, Tail(units)) BY <2>3, <3>1
    <3> QED BY <1>10, <2>3, <3>3, <3>6, <3>7
  <2>4. PICK none, effects : none = <<>> /\ effects = <<Effects>> OBVIOUS
  <2>5. PICK yes, no : yes = TRUE /\ no = FALSE OBVIOUS
  <2>6. yes \in BOOLEAN /\ no \in BOOLEAN /\ Aside(none) /\ Aside(effects) /\ yes
    BY <1>13, <2>4, <2>5
  <2>7. \/ /\ ~u.has_performed_second_battle_phase
           /\ Stacked(units', none, [Second(yes) EXCEPT !.step = 10], Tail(units))
        \/ Stacked(units', effects, [Second(no) EXCEPT !.step = 16], Tail(units))
        \/ Stacked(units', effects, [Second(no) EXCEPT !.step = 14], Tail(units))
    BY <2>2, <2>4, <2>5
  <2>8. CASE /\ ~u.has_performed_second_battle_phase
             /\ Stacked(units', none, [Second(yes) EXCEPT !.step = 10], Tail(units))
    BY <2>3, <2>6, <2>8
  <2>9. ASSUME NEW m \in {14, 16}, Stacked(units', effects, [Second(no) EXCEPT !.step = m], Tail(units))
        PROVE  Resets'
    <3>1. m \in {10, 14, 16} /\ m # 10 OBVIOUS
    <3> QED BY <2>3, <2>6, <2>9, <3>1
  <2> QED BY <2>7, <2>8, <2>9
<1>30. CASE ChangePlayer
  <2>1. PICK v : v = [[u EXCEPT !.player = Opponent(@)] EXCEPT !.step = 0] OBVIOUS
  <2>2. v.kind = "Turn" /\ v.step = 0 BY <1>3, <2>1 DEF TurnUnits
  <2>3. units' = <<>> \o <<v>> \o <<>>
    BY <1>1, <1>3, <1>30, <2>1 DEF ChangePlayer, GoOnAs
  <2>4. PICK T : T = {v} OBVIOUS
  <2>5. <<v>> \in Seq(T) BY <2>4
  <2>6. units' = <<v>> BY <2>3, <2>5, ConcatEmptySeq
  <2>7. At("Turn", 0)' BY <2>2, <2>6 DEF At, Front
  <2> QED BY <2>7 DEF Resets
<1> QED
  BY <1>16, <1>17, <1>18, <1>19, <1>20, <1>21, <1>24, <1>25, <1>26, <1>27, <1>28, <1>29, <1>30
  DEF TurnStep

LEMMA ResetsKept ==
  ASSUME Types, Types', Stack, Resets, [Next]_vars
  PROVE  Resets'
<1>1. CASE TurnStep BY <1>1, TurnResets
<1>2. CASE PhaseStep BY <1>2, PhaseResets
<1>3. CASE IdleStep BY <1>3, IdleResets
<1>4. CASE BattleCommandStep BY <1>4, BattleResets
<1>5. CASE \/ ForcedStep \/ Refresh \/ Refreshed
           \/ EffectsRun \/ PointEventRun \/ PointEventEnd \/ Answer
  BY <1>5, OtherResets
<1>6. CASE UNCHANGED vars BY <1>6 DEF vars, battles, Resets, At, Front
<1> QED BY <1>1, <1>2, <1>3, <1>4, <1>5, <1>6 DEF Next

-----------------------------------------------------------------------------
(* The start. *)

LEMMA InitTypes ==
  ASSUME Init
  PROVE  Types
<1>1. duel \in Duels /\ duel.max_acts \in Nat /\ acts = 0
  BY ConstantsAssumption DEF Init, DuelKinds
<1>2. returns \in Seq(Answers) /\ Len(returns) = 2
  <2>1. PICK j : j = Junk OBVIOUS
  <2>2. returns = <<j, j>> /\ j \in Answers BY <2>1 DEF Init, Answers
  <2> QED BY <2>2
<1>3. resets \in [Counted -> 0 .. 3] BY DEF Init
<1>4. /\ tag_index \in [Players -> Nat] /\ exchanges \in [Players -> Nat]
      /\ recharge \in [Players -> BOOLEAN]
  BY DEF Init
<1> QED BY <1>1, <1>2, <1>3, <1>4 DEF Init, Types, Phases, Players

LEMMA InitStack ==
  ASSUME Init
  PROVE  Stack
<1>1. PICK u : u = TurnUnit(0, 0, FALSE) OBVIOUS
<1>2. u \in TurnUnits /\ u.kind = "Turn" /\ u.step = 0
  BY <1>1 DEF TurnUnit, TurnUnits, Players
<1>3. Suits(u, phase) BY <1>2 DEF Suits
<1>4. units = <<u>> BY <1>1 DEF Init
<1>5. Sound(units, phase, turn_player) /\ Front = u BY <1>2, <1>3, <1>4, Alone DEF Front
<1> QED BY <1>2, <1>5 DEF Stack, Fresh, InPlace, Expects

LEMMA InitOrder ==
  ASSUME Init
  PROVE  Order
<1>1. \A p \in Players : TeamSize[p] \in Nat \ {0} /\ Waiting(p) = TeamSize[p] - 1
  BY ConstantsAssumption DEF Waiting
<1>2. lists = [p \in Players |-> [l \in Lists |-> Duelists(p)]] BY DEF Init
<1>3. \A p \in Players : Team(p) = Duelists(p) BY <1>2 DEF Team, Lists
<1>4. ASSUME NEW p \in Players
      PROVE  Permutes(Duelists(p), TeamSize[p])
  <2>1. PICK n \in Nat \ {0} : n = TeamSize[p] BY <1>1
  <2>2. PICK f : f = [i \in 1 .. n |-> i - 1] OBVIOUS
  <2>3. f \in [1 .. n -> 0 .. n - 1] /\ \A i \in 1 .. n : f[i] = i - 1 BY <2>2
  <2>4. \A d \in 0 .. n - 1 : d + 1 \in 1 .. n /\ f[d + 1] = d BY <2>3
  <2>5. Permutes(f, n) BY <2>3, <2>4 DEF Permutes
  <2>6. Duelists(p) = f BY <2>1, <2>2 DEF Duelists
  <2> QED BY <2>1, <2>5, <2>6
<1>5. Together
  <2>1. lists = [p \in Players |-> [l \in Lists |-> Team(p)]] BY <1>2, <1>3
  <2> QED BY <2>1, <1>3, <1>4 DEF Together
<1>6. Remembered
  <2>1. recent = [p \in Players |-> <<>>] BY DEF Init
  <2> QED BY <2>1 DEF Remembered
<1>7. ASSUME NEW p \in Players
      PROVE  InLine(p) /\ InRotation(p) /\ ~recharge[p]
  <2>1. exchanges[p] = 0 /\ ~recharge[p] /\ tag_index[p] = 0 /\ recent[p] = <<>>
    BY DEF Init
  <2>2. \A i \in 1 .. TeamSize[p] : Team(p)[i] = i - 1 BY <1>1, <1>3 DEF Duelists
  <2>3. Exchanged(p) = 0
    <3>1. PICK x : x = IF recharge[p] THEN 1 ELSE 0 OBVIOUS
    <3>2. x = 0 BY <2>1, <3>1, Zenon
    <3>3. Exchanged(p) = exchanges[p] - x BY <3>1 DEF Exchanged
    <3> QED BY <2>1, <3>2, <3>3
  <2>4. InLine(p) BY <1>1, <2>1, <2>2, <2>3 DEF InLine
  <2>5. InRotation(p) BY <1>1, <2>1 DEF InRotation
  <2> QED BY <2>1, <2>4, <2>5
<1> QED BY <1>5, <1>6, <1>7 DEF Order

LEMMA InitResets ==
  ASSUME Init
  PROVE  Resets
<1>1. PICK u : u = TurnUnit(0, 0, FALSE) OBVIOUS
<1>2. u.kind = "Turn" /\ u.step = 0 BY <1>1 DEF TurnUnit
<1>3. Front = u BY <1>1 DEF Init, Front
<1> QED BY <1>2, <1>3 DEF Resets, At

-----------------------------------------------------------------------------
(* What follows. *)

LEMMA StackFollows ==
  ASSUME Stack
  PROVE  /\ units # <<>> /\ \A i \in DOMAIN units : units[i] \in Units
         /\ ReturnsFresh /\ PhasesKept
<1>1. PICK u : u = Front OBVIOUS
<1>2. /\ units \in Seq(Units) /\ units # <<>> /\ u \in Units
      /\ Sane(u, turn_player) /\ Suits(u, phase) /\ Fresh(u, returns)
  BY <1>1, Pop DEF Stack, Sound, Front
<1>3. \A i \in DOMAIN units : units[i] \in Units BY <1>2, LenProperties, ElementOfSeq
<1>4. ReturnsFresh BY <1>1, <1>2 DEF ReturnsFresh, At, Fresh, Expects
<1>5. PhaseAgrees BY <1>1, <1>2 DEF PhaseAgrees, Suits
<1>6. PhasePassed BY <1>1, <1>2 DEF PhasePassed, At, Sane
<1> QED BY <1>2, <1>3, <1>4, <1>5, <1>6 DEF PhasesKept

LEMMA SeatsApart ==
  ASSUME NEW k \in Nat, NEW w \in Nat, k = 0 \/ k < w,
         NEW d \in 1 .. w, NEW e \in 1 .. w
  PROVE  /\ Seat(k, w, d) \in 2 .. w + 1
         /\ Seat(k, w, d) = Seat(k, w, e) => d = e
<1>1. CASE d <= k BY <1>1 DEF Seat
<1>2. CASE ~(d <= k) BY <1>2 DEF Seat
<1> QED BY <1>1, <1>2

(* Those who had the last turns are different duelists. *)
LEMMA AllDifferent ==
  ASSUME Types, Together, Remembered, NEW p \in Players, InRotation(p)
  PROVE  Cardinality({recent[p][i] : i \in DOMAIN recent[p]}) = Len(recent[p])
<1> DEFINE r == recent[p]
           n == TeamSize[p]
           f == Team(p)
<1>1. PICK k \in Nat : k = tag_index[p] BY DEF Types
<1>2. PICK w \in Nat : w = Waiting(p) /\ n = w + 1 BY ConstantsAssumption DEF Waiting
<1>3. PICK m \in Nat : m = Len(r) BY DEF Remembered
<1>4. /\ r \in Seq(0 .. n - 1) /\ m <= n
      /\ k = 0 \/ k < w
      /\ r # <<>> => r[m] = f[1]
      /\ \A d \in 1 .. m - 1 : r[m - d] = f[Seat(k, w, d)]
  BY <1>1, <1>2, <1>3 DEF InRotation, Remembered, Place
<1>5. \A i, j \in 1 .. n : f[i] = f[j] => i = j BY DEF Together, Permutes
<1> HIDE DEF r, n, f
<1>6. ASSUME NEW i \in 1 .. m - 1
      PROVE  m - i \in 1 .. w /\ r[i] = f[Seat(k, w, m - i)] /\ Seat(k, w, m - i) \in 2 .. n
  <2>1. m - i \in 1 .. w /\ m - i \in 1 .. m - 1 /\ m - (m - i) = i BY <1>2, <1>4
  <2>2. Seat(k, w, m - i) \in 2 .. w + 1 BY <2>1, <1>4, SeatsApart
  <2>3. r[m - (m - i)] = f[Seat(k, w, m - i)] BY <2>1, <1>4
  <2> QED BY <2>1, <2>2, <2>3, <1>2
<1>7. m >= 1 => r[m] = f[1] BY <1>3, <1>4
<1>8. 1 \in 1 .. n BY <1>2
<1>9. ASSUME NEW i \in 1 .. m - 1, NEW j \in 1 .. m - 1, r[i] = r[j]
      PROVE  i = j
  <2>1. Seat(k, w, m - i) = Seat(k, w, m - j)
    <3>1. Seat(k, w, m - i) \in 1 .. n /\ Seat(k, w, m - j) \in 1 .. n BY <1>6
    <3> QED BY <3>1, <1>5, <1>6, <1>9
  <2>2. m - i = m - j BY <2>1, <1>4, <1>6, SeatsApart
  <2> QED BY <2>2
<1>10. ASSUME NEW i \in 1 .. m - 1
       PROVE  r[i] # r[m]
  <2>1. Seat(k, w, m - i) \in 1 .. n /\ Seat(k, w, m - i) # 1 BY <1>6
  <2>2. m >= 1 OBVIOUS
  <2> QED BY <2>1, <2>2, <1>5, <1>6, <1>7, <1>8
<1>11. ASSUME NEW i \in 1 .. m, NEW j \in 1 .. m, r[i] = r[j]
       PROVE  i = j
  <2>1. (i = m \/ i \in 1 .. m - 1) /\ (j = m \/ j \in 1 .. m - 1) OBVIOUS
  <2> QED BY <2>1, <1>9, <1>10, <1>11
<1>12. PICK S : S = {r[i] : i \in DOMAIN r} OBVIOUS
<1>13. DOMAIN r = 1 .. m BY <1>3, <1>4
<1>14. r \in [1 .. m -> S] /\ \A x \in S : \E i \in 1 .. m : r[i] = x
  <2>1. PICK T : T = 0 .. n - 1 OBVIOUS
  <2>2. r \in Seq(T) BY <1>4, <2>1
  <2>3. r \in [1 .. m -> T] BY <1>3, <2>2, LenProperties
  <2> QED BY <2>3, <1>12, <1>13
<1>15. r \in Bijection(1 .. m, S) BY <1>11, <1>14, Fun_IsBij
<1>16. ExistsBijection(1 .. m, S) BY <1>15, Fun_ExistsBij
<1>17. Cardinality(S) = m BY <1>16, FS_CountingElements
<1> QED BY <1>3, <1>12, <1>17 DEF r

LEMMA OrderFollows ==
  ASSUME Types, Order
  PROVE  DuelistOrder
<1>1. \A p \in Players : \A l \in Lists : lists[p][l] = lists[p]["main"]
  BY DEF Order, Together, Team
<1>2. ASSUME ~duel.relay, NEW p \in Players
      PROVE  Cardinality({recent[p][i] : i \in DOMAIN recent[p]}) = Len(recent[p])
  BY <1>2, AllDifferent DEF Order
<1>3. ASSUME duel.relay, NEW p \in Players
      PROVE  lists[p]["main"][1] = exchanges[p] - (IF recharge[p] THEN 1 ELSE 0)
  BY <1>3 DEF Order, InLine, Team, Exchanged
<1> QED BY <1>1, <1>2, <1>3 DEF DuelistOrder

LEMMA ResetsFollow ==
  ASSUME Types, Stack, Resets
  PROVE  ResetsOnce
<1> SUFFICES ASSUME At("Turn", 20), ~interrupted
             PROVE  /\ \A ph \in {"DRAW", "STANDBY", "END"} : resets[ph] = 1
                    /\ resets["MAIN1"] <= 1 /\ resets["MAIN2"] <= resets["MAIN1"]
                    /\ \A ph \in {"BATTLE_START", "BATTLE"} : resets[ph] = battle_phase_count
                    /\ resets["BATTLE_STEP"] <= battle_phase_count
                    /\ battle_phase_count <= 2 * resets["MAIN1"]
  BY DEF ResetsOnce
<1>1. PICK u : u = Front OBVIOUS
<1>2. u \in TurnUnits /\ units = <<u>> /\ u.step = 20
  <2>1. u.kind = "Turn" /\ u.step = 20 BY <1>1 DEF At
  <2>2. u \in Units /\ units = <<u>> \o Tail(units) /\ Tail(units) = <<>>
    BY <1>1, <2>1, Pop DEF Stack, Front
  <2>3. <<u>> \in Seq(Units) BY <2>2
  <2>4. units = <<u>> BY <2>2, <2>3, ConcatEmptySeq
  <2> QED BY <2>1, <2>2, <2>4, Kinds
<1>3. PICK r : r = resets OBVIOUS
<1>4. PICK b : b = battle_phase_count OBVIOUS
<1>5. r \in [Counted -> 0 .. 3] /\ b \in Nat BY <1>3, <1>4 DEF Types
<1>6. Tally(u, Nothing, r, b)
  <2>1. Owed(units, u.step) = Nothing
    <3>1. \A x : ~OwedBy(units, u.step, x) BY <1>2, OwedByTurn
    <3> QED BY <3>1 DEF Owed, Nothing
  <2>2. units[Len(units)] = u BY <1>2
  <2>3. ~At("Turn", 0) BY <1>1, <1>2 DEF At
  <2> QED BY <1>3, <1>4, <2>1, <2>2, <2>3 DEF Resets
<1>7. /\ r["DRAW"] = 1 /\ r["STANDBY"] = 1 /\ r["END"] = 1 /\ r["MAIN1"] <= 1
      /\ r["MAIN2"] <= r["MAIN1"] /\ b <= 2 * r["MAIN1"]
      /\ r["BATTLE_START"] = b /\ r["BATTLE"] = b /\ r["BATTLE_STEP"] <= b
  <2>1. PICK s : s = u.step OBVIOUS
  <2>2. /\ r["DRAW"] = IF s < 4 THEN 0 ELSE 1
        /\ r["STANDBY"] = IF s < 7 THEN 0 ELSE 1
        /\ r["END"] = IF s < 19 THEN 0 ELSE 1
        /\ r["MAIN1"] <= 1
        /\ r["MAIN2"] <= IF s < 16 THEN 0 ELSE r["MAIN1"]
        /\ b <= 2 * r["MAIN1"]
        /\ r["BATTLE_START"] = b - (IF s = 11 THEN 1 ELSE 0)
        /\ r["BATTLE"] = b - (IF s \in 11 .. 12 THEN 1 ELSE 0)
        /\ r["BATTLE_STEP"] <= b - (IF s \in 11 .. 12 THEN 1 ELSE 0)
    BY <1>2, <1>5, <1>6, <2>1, Quietly
  <2>3. s = 20 BY <1>2, <2>1
  <2> QED BY <2>2, <2>3, <1>5
<1> QED BY <1>3, <1>4, <1>7

LEMMA Typed ==
  ASSUME Types, Stack, Order
  PROVE  TypeOK
<1>1. ASSUME NEW p \in Players, NEW l \in Lists
      PROVE  {lists[p][l][i] : i \in 1 .. TeamSize[p]} = 0 .. TeamSize[p] - 1
  <2>1. lists[p][l] = Team(p) /\ Permutes(Team(p), TeamSize[p]) BY DEF Order, Together
  <2> QED BY <2>1 DEF Permutes
<1>2. \A p \in Players : recent[p] \in Seq(0 .. TeamSize[p] - 1)
  BY DEF Order, Remembered
<1>3. {force_turn_end, hand_adjusted, skip_m2, set_forced_attack, interrupted}
        \subseteq BOOLEAN
  BY DEF Types
<1> QED BY <1>1, <1>2, <1>3, StackFollows DEF TypeOK, Types

-----------------------------------------------------------------------------
(* The theorems. *)

LEMMA Invariant == Spec => [](Types /\ Stack /\ Order /\ Resets)
<1>1. Init => Types /\ Stack /\ Order /\ Resets
  BY InitTypes, InitStack, InitOrder, InitResets
<1>2. Types /\ Stack /\ Order /\ Resets /\ [Next]_vars => (Types /\ Stack /\ Order /\ Resets)'
  BY TypesKept, StackKept, OrderKept, ResetsKept
<1> QED BY <1>1, <1>2, PTL DEF Spec

(* There is always a unit to process, core.returns holds only answers, no
   duelist's deck is lost in an exchange, and tag_index and the relay count
   never go below zero. *)
THEOREM TurnTypeCorrect == Spec => []TypeOK
BY Invariant, Typed, PTL

(* For any effects, and any forced battles that interrupt a turn: what a
   handler reads from core.returns is the answer it asked for, never what
   another unit left there. *)
THEOREM ReturnsFreshCorrect == Spec => []ReturnsFresh
BY Invariant, StackFollows, PTL

(* However deep forced battles are nested, infos.phase is the phase that
   the running handler is about, and a phase that is not skipped ends only
   when both players have passed in succession. *)
THEOREM PhasesKeptCorrect == Spec => []PhasesKept
BY Invariant, StackFollows, PTL

(* For teams of any size, tag_swap and next_player exchange whole decks,
   hands and extra decks; every duelist of a tag team has a turn before one
   of them has another, and those of a relay team come in in their order. *)
THEOREM DuelistOrderCorrect == Spec => []DuelistOrder
BY Invariant, OrderFollows, PTL

(* However the phases of a turn are skipped, cut short or left early, in a
   turn without a forced battle reset_phase is called once for the draw,
   standby and end phases, at most once for each main phase, and once for
   each battle phase, of which there are at most two. *)
THEOREM ResetsOnceCorrect == Spec => []ResetsOnce
BY Invariant, ResetsFollow, PTL
=============================================================================
