------------------------------- MODULE Field -------------------------------
(* Where the cards are: the piles and zones of the two players, the place
   each card believes it is in (card::current), and the bookkeeping kept
   beside them (used_location, extra_p_count).  One action per way the
   engine moves cards: draw, discard from the deck, SendTo, MoveToField,
   MoveSequence, the exchange of two monsters, removal from the duel,
   shuffling, and the operations on a whole deck.

   A position is kept as face-up or not, the only part of it that the
   placement depends on.  disabled_location is left out: it only makes
   is_location_useable refuse more, and a refused move changes nothing. *)
EXTENDS Integers, Sequences, FiniteSets, SequencesExt, Functions

CONSTANTS
  Cards,          \* the cards of the duel
  NoCard,         \* an empty zone
  Owner,          \* card::owner
  ExtraMonsters,  \* card::is_extra_deck_monster()
  Fusions,        \* TYPE_FUSION, which some spells have too
  Pendulums,      \* TYPE_PENDULUM
  MZones, SZones, \* the sequences of the zones in play (0-6 and 0-7)
  PZones,         \* those of SZones that get_pzone_index() names
  PseudoShuffle,  \* DUEL_PSEUDO_SHUFFLE
  AnySwap         \* whether swap_deck_and_grave may leave the deck as it is

Players == {0, 1}

ASSUME ConstantsAssumption ==
  /\ IsFiniteSet(Cards) /\ NoCard \notin Cards
  /\ Owner \in [Cards -> Players]
  /\ ExtraMonsters \subseteq Cards /\ Fusions \subseteq Cards /\ Pendulums \subseteq Cards
  /\ Fusions \cap Pendulums \subseteq ExtraMonsters  \* Pendulum cards are monsters
  /\ MZones \subseteq 0 .. 6 /\ SZones \subseteq 0 .. 7 /\ PZones \subseteq SZones
  /\ PseudoShuffle \in BOOLEAN /\ AnySwap \in BOOLEAN

VARIABLES
  player,  \* field::player: the lists, used_location and extra_p_count
  current  \* card::current of every card

vars == <<player, current>>

Piles == {"DECK", "HAND", "GRAVE", "REMOVED", "EXTRA"}
OnField == {"MZONE", "SZONE"}
Zones == ({"MZONE"} \X MZones) \cup ({"SZONE"} \X SZones)
NoPlayer == 2

Player == [list : [Piles -> Seq(Cards)],
           zone : [Zones -> Cards \cup {NoCard}],
           used_location : SUBSET Zones,
           extra_p_count : Nat,
           reordered : BOOLEAN]  \* history: see Requeue

CardState == [controler : Players \cup {NoPlayer},
              location  : Piles \cup OnField \cup {"NONE"},
              sequence  : Nat,
              faceup    : BOOLEAN,
              pzone     : BOOLEAN]

(* The handlers below are composed of operations on a field, the pair of
   the two variables. *)
Now == [player |-> player, current |-> current]
Becomes(s) == player' = s.player /\ current' = s.current

SetList(s, p, pile, l) == [s EXCEPT !.player[p].list[pile] = l]
List(s, p, pile) == s.player[p].list[pile]

(* reset_sequence: every card of the pile learns its index. *)
reset_sequence(s, p, pile) ==
  LET l == List(s, p, pile)
      Places(c) == {i \in DOMAIN l : l[i] = c}
  IN [s EXCEPT !.current =
       [c \in Cards |-> IF Places(c) = {} THEN @[c]
                        ELSE [@[c] EXCEPT !.sequence = Max(Places(c)) - 1]]]

(* Mutant: pop_back() in place of the erase. *)
ErasePop(l, sequence) == IF l = <<>> THEN l ELSE Front(l)

(* vector::erase(begin() + sequence); out of range it is undefined and
   stands for losing the last card. *)
Erase(l, sequence) ==
  IF sequence < Len(l) THEN RemoveAt(l, sequence + 1)
  ELSE IF l = <<>> THEN l ELSE Front(l)

(* The last extra_p_count cards of the extra deck are the face-up ones. *)
BeforeFaceup(s, p, cs) ==
  LET l == List(s, p, "EXTRA")
      n == Len(l) - s.player[p].extra_p_count
  IN SubSeq(l, 1, n) \o cs \o SubSeq(l, n + 1, Len(l))

(* Mutant: the other side of an extra monster zone is not looked at. *)
UseableHere(s, p, location, sequence) ==
  location \in OnField => <<location, sequence>> \notin s.player[p].used_location

is_location_useable(s, p, location, sequence) ==
  location \in OnField =>
    /\ <<location, sequence>> \notin s.player[p].used_location
    /\ location = "MZONE" /\ sequence >= 5 =>
         <<"MZONE", 11 - sequence>> \notin s.player[1 - p].used_location

-----------------------------------------------------------------------------
(* add_card: a card that is nowhere enters a pile or a zone.  A main deck
   card cannot enter the extra deck face-down, nor an extra deck monster or
   a Fusion spell the hand or the deck.  sequence 1 is the bottom of the
   deck. *)
Extras == ExtraMonsters \cup Fusions

Redirected(c, location, faceup) ==
  IF c \in Extras /\ location \in {"HAND", "DECK"} THEN "EXTRA"
  ELSE IF c \notin Extras /\ location = "EXTRA"
          /\ ~(c \in Pendulums /\ faceup) THEN "DECK"
  ELSE location

Enters(s, c, p, location, sequence, faceup, pzone) ==
  [s EXCEPT !.current[c] = [controler |-> p, location |-> location,
                            sequence |-> sequence, faceup |-> faceup,
                            pzone |-> pzone]]

(* Pushed at the back of a pile. *)
Pushed(s, c, p, pile, faceup, pzone) ==
  LET l == Append(List(s, p, pile), c)
  IN Enters(SetList(s, p, pile, l), c, p, pile, Len(l) - 1, faceup, pzone)

(* Mutant: the card is not counted. *)
AddToExtraUncounted(s, c, p, faceup, pzone) ==
  LET l == Append(List(s, p, "EXTRA"), c)
  IN reset_sequence(Enters(SetList(s, p, "EXTRA", l), c, p, "EXTRA", 0, faceup,
                           pzone), p, "EXTRA")

AddToExtra(s, c, p, faceup, pzone) ==
  LET counted == c \in Pendulums /\ faceup
      l == IF counted THEN Append(List(s, p, "EXTRA"), c)
           ELSE BeforeFaceup(s, p, <<c>>)
      t == Enters(SetList(s, p, "EXTRA", l), c, p, "EXTRA", 0, faceup, pzone)
  IN reset_sequence([t EXCEPT !.player[p].extra_p_count =
                       @ + (IF counted THEN 1 ELSE 0)], p, "EXTRA")

AddToZone(s, c, p, location, sequence, faceup, pzone) ==
  LET z == <<location, sequence>>
      t == [s EXCEPT !.player[p].zone[z] = c,
                     !.player[p].used_location = @ \cup {z}]
  IN Enters(t, c, p, location, sequence, faceup, pzone)

add_card(s, c, p, location, sequence, faceup, pzone) ==
  LET loc == Redirected(c, location, faceup)
      up == faceup /\ loc = location /\ loc \notin {"DECK", "HAND"}
  IN IF \/ s.current[c].location # "NONE"
        \/ ~is_location_useable(s, p, location, sequence) THEN s
     ELSE IF loc \in OnField THEN AddToZone(s, c, p, loc, sequence, up, pzone)
     ELSE IF loc = "EXTRA" THEN AddToExtra(s, c, p, up, pzone)
     ELSE IF loc = "DECK" /\ sequence = 1 THEN
       LET l == <<c>> \o List(s, p, "DECK")
       IN reset_sequence(Enters(SetList(s, p, "DECK", l), c, p, "DECK", 0, up,
                                pzone), p, "DECK")
     ELSE Pushed(s, c, p, loc, up, pzone)

(* What remove_card and the draws leave of card::current. *)
Leaves(s, c) ==
  [s EXCEPT !.current[c].controler = NoPlayer, !.current[c].location = "NONE",
            !.current[c].sequence = 0]

(* remove_card: a card leaves the place it believes it is in. *)
remove_card(s, c) ==
  LET cur == s.current[c]
      p == cur.controler
      z == <<cur.location, cur.sequence>>
      l == Erase(List(s, p, cur.location), cur.sequence)
      t == reset_sequence(SetList(s, p, cur.location, l), p, cur.location)
  IN CASE cur.location = "NONE" -> s
       [] cur.location \in OnField ->
            Leaves([s EXCEPT !.player[p].zone[z] = NoCard,
                             !.player[p].used_location = @ \ {z}], c)
       [] cur.location = "EXTRA" /\ c \in Pendulums /\ cur.faceup ->
            Leaves([t EXCEPT !.player[p].extra_p_count = @ - 1], c)
       [] OTHER -> Leaves(t, c)

(* move_card within one pile: the deck puts the card on top or at the
   bottom, the others on top; the hand refuses.  A face-down card of the
   extra deck is put on top of the face-up ones too: the history reordered
   remembers it, for FaceupLast. *)
Counts(s, c) == c \in Pendulums /\ s.current[c].faceup

Requeue(s, c, sequence) ==
  LET cur == s.current[c]
      p == cur.controler
      rest == Erase(List(s, p, cur.location), cur.sequence)
      l == IF cur.location = "DECK" /\ sequence = 1 THEN <<c>> \o rest
           ELSE Append(rest, c)
      buries == cur.location = "EXTRA" /\ ~Counts(s, c) /\ s.player[p].extra_p_count > 0
      t == [s EXCEPT !.player[p].reordered = @ \/ buries]
  IN reset_sequence(SetList(t, p, cur.location, l), p, cur.location)

(* move_card within the zones of one kind. *)
Rezone(s, c, p, sequence) ==
  LET cur == s.current[c]
      z == <<cur.location, cur.sequence>>
      w == <<cur.location, sequence>>
      Holder(q, y) == IF q = p /\ y = w THEN c
                    ELSE IF q = cur.controler /\ y = z THEN NoCard
                    ELSE s.player[q].zone[y]
  IN [player |-> [q \in Players |->
        [s.player[q] EXCEPT
           !.zone = [y \in Zones |-> Holder(q, y)],
           !.used_location =
              (IF q = cur.controler THEN @ \ {z} ELSE @)
              \cup (IF q = p THEN {w} ELSE {})]],
      current |-> [s.current EXCEPT ![c].controler = p, ![c].sequence = sequence]]

(* move_card.  redirect: a Pendulum card that would go from the field to
   the grave goes to the extra deck face-up instead (is_capable_send_to_
   extra and the summon not negated). *)
move_card(s, c, p, location, sequence, faceup, pzone, redirect) ==
  LET cur == s.current[c]
      loc == IF c \in ExtraMonsters /\ location \in {"HAND", "DECK"} THEN "EXTRA"
             ELSE location
      up == faceup /\ loc = location
      last == cur.sequence = Len(List(s, cur.controler, loc)) - 1
      toExtra == redirect /\ c \in Pendulums /\ loc = "GRAVE"
                 /\ cur.location \in OnField
      again == add_card(remove_card(s, c), c, p, loc, sequence, up, pzone)
  IN IF ~is_location_useable(s, p, location, sequence) THEN s
     ELSE IF cur.location # loc \/ cur.pzone # pzone THEN
       IF toExtra
       THEN add_card(remove_card(s, c), c, p, "EXTRA", sequence, TRUE, pzone)
       ELSE again
     ELSE IF loc \in OnField THEN
       IF s.player[p].zone[<<loc, sequence>>] = NoCard
       THEN Rezone(s, c, p, sequence) ELSE s
     ELSE IF loc \in {"DECK", "HAND"} /\ p # cur.controler THEN again
     ELSE IF loc = "HAND" \/ (loc \in {"GRAVE", "REMOVED"} /\ last) THEN s
     ELSE Requeue(s, c, sequence)

(* swap_card: c moves to sequence n2 on the side of d, and d to n1 on the
   side of c. *)
swap_card(s, c, d, n1, n2) ==
  LET x == s.current[c]
      y == s.current[d]
      Freed(q, z) == (q = x.controler /\ z = <<x.location, x.sequence>>)
                     \/ (q = y.controler /\ z = <<y.location, y.sequence>>)
      Taken(q, z) == (q = x.controler /\ z = <<x.location, n1>>)
                     \/ (q = y.controler /\ z = <<y.location, n2>>)
      Holder(q, z) == IF q = x.controler /\ z = <<x.location, n1>> THEN d
                      ELSE IF q = y.controler /\ z = <<y.location, n2>> THEN c
                      ELSE IF Freed(q, z) THEN NoCard ELSE s.player[q].zone[z]
      refused ==
        \/ x.location \notin OnField \/ y.location \notin OnField
        \/ n1 # x.sequence /\ ~is_location_useable(s, x.controler, x.location, n1)
        \/ n2 # y.sequence /\ ~is_location_useable(s, y.controler, y.location, n2)
        \/ /\ x.controler = y.controler /\ x.location = y.location
           /\ n1 = y.sequence \/ n2 = x.sequence
      out == remove_card(remove_card(s, c), d)
  IN IF refused THEN s
     ELSE IF x.location # y.location THEN
       add_card(add_card(out, c, y.controler, y.location, n2, x.faceup, FALSE),
                d, x.controler, x.location, n1, y.faceup, FALSE)
     ELSE
       [player |-> [q \in Players |->
          [s.player[q] EXCEPT
             !.zone = [z \in Zones |-> Holder(q, z)],
             !.used_location = {z \in Zones : Taken(q, z) \/ (z \in @ /\ ~Freed(q, z))}]],
        current |-> [s.current EXCEPT
          ![c].controler = y.controler, ![c].sequence = n2,
          ![d].controler = x.controler, ![d].sequence = n1]]

-----------------------------------------------------------------------------
(* The start of the duel: OCG_DuelNewCard has put every card in the deck or
   the extra deck of its owner, in the order in which they were given. *)
StartPile(c) == IF c \in Extras THEN "EXTRA" ELSE "DECK"
StartOrders(p, pile) == SetToSeqs({c \in Cards : Owner[c] = p /\ StartPile(c) = pile})
StartPiles(pile) ==
  {f \in [Players -> UNION {StartOrders(p, pile) : p \in Players}] :
     \A p \in Players : f[p] \in StartOrders(p, pile)}

Init ==
  \E deck \in StartPiles("DECK"), extra \in StartPiles("EXTRA") :
    LET Start(p, pile) == CASE pile = "DECK" -> deck[p]
                            [] pile = "EXTRA" -> extra[p]
                            [] OTHER -> <<>>
        Index(l, c) == CHOOSE i \in DOMAIN l : l[i] = c
    IN /\ player = [p \in Players |->
                      [list |-> [pile \in Piles |-> Start(p, pile)],
                       zone |-> [z \in Zones |-> NoCard],
                       used_location |-> {}, extra_p_count |-> 0,
                       reordered |-> FALSE]]
       /\ current = [c \in Cards |->
                       [controler |-> Owner[c], location |-> StartPile(c),
                        sequence |-> Index(Start(Owner[c], StartPile(c)), c) - 1,
                        faceup |-> FALSE, pzone |-> FALSE]]

(* Draw and DiscardDeck take the top of the deck without remove_card. *)
DrawTop(p) == Last(player[p].list["DECK"])
WithoutTop(p) ==
  Leaves(SetList(Now, p, "DECK", Front(player[p].list["DECK"])), DrawTop(p))
TurnedUp(s, c, up) == [s EXCEPT !.current[c].faceup = up]

Draw(p) ==
  /\ player[p].list["DECK"] # <<>>
  /\ LET c == DrawTop(p)
     IN Becomes(TurnedUp(add_card(WithoutTop(p), c, p, "HAND", 0, FALSE, FALSE),
                         c, FALSE))

(* The card goes to the pile of its owner, the grave unless it is
   redirected, and is turned face-up there. *)
DiscardDeck(p, dest) ==
  /\ player[p].list["DECK"] # <<>>
  /\ LET c == DrawTop(p)
     IN Becomes(TurnedUp(add_card(WithoutTop(p), c, Owner[c], dest, 0, TRUE, FALSE),
                         c, TRUE))

(* SendTo case 6, with the tests of case 0: a card goes to a pile of its
   owner, a main deck card possibly to the hand or the deck of the other
   player. *)
SendTo(c, p, dest, sequence, faceup, redirect) ==
  LET cur == current[c]
  IN /\ cur.controler # p \/ cur.location # dest
     /\ p = Owner[c] \/ (dest \in {"HAND", "DECK"} /\ c \notin ExtraMonsters)
     /\ dest = "EXTRA" => c \in ExtraMonsters \cup Pendulums
     /\ dest \in {"HAND", "DECK"} => ~(cur.location = "EXTRA" /\ c \in ExtraMonsters)
     /\ Becomes(move_card(Now, c, p, dest, sequence, faceup, FALSE, redirect))

(* MoveToField case 2: from anywhere to a zone offered by SelectPlace. *)
MoveToField(c, p, z, faceup, pzone) ==
  LET cur == current[c]
  IN /\ pzone => c \in Pendulums /\ z[1] = "SZONE" /\ z[2] \in PZones
     /\ cur.controler # p \/ cur.location # z[1] \/ (pzone /\ ~cur.pzone)
     /\ is_location_useable(Now, p, z[1], z[2])
     /\ Becomes(TurnedUp(move_card(Now, c, p, z[1], z[2], faceup, pzone, FALSE),
                         c, faceup))

(* Duel.MoveSequence: within the zones of one kind, or to the top of a
   pile, the extra deck included. *)
MoveSequence(c, sequence, pzone) ==
  LET cur == current[c]
  IN /\ cur.location # "NONE"
     /\ cur.location \in OnField => <<cur.location, sequence>> \in Zones
     /\ cur.location \notin OnField => sequence \in {0, 1}
     /\ pzone => c \in Pendulums /\ cur.location = "SZONE" /\ sequence \in PZones
     /\ Becomes(move_card(Now, c, cur.controler, cur.location, sequence,
                          cur.faceup, pzone, FALSE))

(* SwapControl case 3 and ControlAdjust case 2 exchange monsters of the two
   players, which SwapControl may first let choose a main zone;
   Duel.SwapSequence exchanges two cards of one player. *)
Exchange(c, d, n1, n2) ==
  LET x == current[c]
      y == current[d]
  IN /\ c # d /\ x.location = y.location /\ x.location \in OnField
     /\ x.controler # y.controler => x.location = "MZONE"
     /\ x.controler = y.controler => n1 = x.sequence /\ n2 = y.sequence
     /\ n1 = x.sequence \/ (n1 \in MZones /\ n1 < 5)
     /\ n2 = y.sequence \/ (n2 \in MZones /\ n2 < 5)
     /\ Becomes(swap_card(Now, c, d, n1, n2))

(* A token that leaves, a card made overlay material, Duel.RemoveCards. *)
RemoveFromField(c) ==
  /\ current[c].location # "NONE"
  /\ Becomes(remove_card(Now, c))

(* shuffle: the face-up part of the extra deck keeps its place, and a
   pseudo-shuffled deck its order. *)
Shuffled(s, p, pile, order) ==
  LET l == List(s, p, pile)
      n == IF pile = "EXTRA" THEN Len(l) - s.player[p].extra_p_count ELSE Len(l)
      mixed == [i \in DOMAIN l |-> IF i <= n THEN l[order[i]] ELSE l[i]]
  IN IF n <= 1 \/ (pile # "HAND" /\ PseudoShuffle) THEN s
     ELSE reset_sequence(SetList(s, p, pile, mixed), p, pile)

Orders(s, p, pile) ==
  LET l == List(s, p, pile)
      n == IF pile = "EXTRA" THEN Len(l) - s.player[p].extra_p_count ELSE Len(l)
  IN {f \in [1 .. n -> 1 .. n] : IsInjective(f)}

shuffle(p, pile) ==
  \E order \in Orders(Now, p, pile) : Becomes(Shuffled(Now, p, pile, order))

reverse_deck(p) ==
  Becomes(reset_sequence(SetList(Now, p, "DECK", Reverse(player[p].list["DECK"])),
                         p, "DECK"))

(* The cards of a list that are in S, in their order. *)
Picked(l, S) ==
  LET at == {i \in DOMAIN l : l[i] \in S}
  IN {[k \in DOMAIN f |-> l[f[k]]] :
        f \in {g \in SetToSeqs(at) : \A j, k \in DOMAIN g : j < k => g[j] < g[k]}}

(* swap_deck_and_grave: the extra deck monsters of the grave go to the
   extra deck; the new deck is left to shuffle() to be re-indexed. *)
Turnover(s, p, deck, extra) ==
  LET grave == List(s, p, "DECK")
      Turned(c) ==
        CASE c \in Range(grave) -> [s.current[c] EXCEPT !.location = "GRAVE", !.faceup = TRUE]
          [] c \in Range(deck) -> [s.current[c] EXCEPT !.location = "DECK", !.faceup = FALSE]
          [] c \in Range(extra) -> [s.current[c] EXCEPT !.location = "EXTRA", !.faceup = FALSE]
          [] OTHER -> s.current[c]
      t == SetList(SetList(SetList(s, p, "DECK", deck), p, "GRAVE", grave),
                   p, "EXTRA", BeforeFaceup(s, p, extra))
  IN reset_sequence(reset_sequence([t EXCEPT !.current = [c \in Cards |-> Turned(c)]],
                                   p, "GRAVE"), p, "EXTRA")

swap_deck_and_grave(p) ==
  LET grave == player[p].list["GRAVE"]
  IN \E deck \in Picked(grave, Cards \ ExtraMonsters), extra \in Picked(grave, ExtraMonsters) :
       LET t == Turnover(Now, p, deck, extra)
       IN /\ AnySwap \/ extra = <<>> \/ (~PseudoShuffle /\ Len(deck) # 1)
          /\ \E order \in Orders(t, p, "DECK") : Becomes(Shuffled(t, p, "DECK", order))

(* What tells moves apart: the side a card lies on matters in the extra
   deck, the end of a pile it is put at in the deck, and the redirection
   for Pendulum cards on their way to the grave. *)
Faceups(dest) == IF dest = "EXTRA" THEN BOOLEAN ELSE {TRUE}
Ends(dest) == IF dest = "DECK" THEN {0, 1} ELSE {0}
Redirects(c, dest) == IF dest = "GRAVE" /\ c \in Pendulums THEN BOOLEAN ELSE {FALSE}

Next ==
  \/ \E p \in Players :
       \/ Draw(p)
       \/ \E dest \in {"GRAVE", "REMOVED", "HAND", "DECK"} : DiscardDeck(p, dest)
       \/ \E pile \in {"DECK", "HAND", "EXTRA"} : shuffle(p, pile)
       \/ reverse_deck(p)
       \/ swap_deck_and_grave(p)
  \/ \E c \in Cards :
       \/ \E p \in Players, dest \in Piles : \E sequence \in Ends(dest),
            faceup \in Faceups(dest), redirect \in Redirects(c, dest) :
              SendTo(c, p, dest, sequence, faceup, redirect)
       \/ \E p \in Players, z \in Zones, pzone \in BOOLEAN :
              MoveToField(c, p, z, TRUE, pzone)
       \/ \E sequence \in {0, 1} \cup MZones \cup SZones, pzone \in BOOLEAN :
              MoveSequence(c, sequence, pzone)
       \/ \E d \in Cards, n1, n2 \in MZones \cup SZones : Exchange(c, d, n1, n2)
       \/ RemoveFromField(c)

Spec == Init /\ [][Next]_vars

-----------------------------------------------------------------------------
(* The type invariant; the counter of face-up Pendulum cards never wraps
   below zero. *)
TypeOK == player \in [Players -> Player] /\ current \in [Cards -> CardState]

(* Where the lists and the zones hold a card: player, location, sequence. *)
Held(c) ==
  (UNION {{<<p, pile, i - 1>> : i \in {j \in DOMAIN player[p].list[pile] :
                                         player[p].list[pile][j] = c}} :
            p \in Players, pile \in Piles})
  \cup {<<q[1], q[2][1], q[2][2]>> :
          q \in {r \in Players \X Zones : player[r[1]].zone[r[2]] = c}}

(* What every function that erases or moves by card::current relies on: a
   card is in exactly the one list or zone that current names, at that very
   sequence, and a card that is nowhere is in none of them. *)
AtItsPlace(c) ==
  LET cur == current[c] IN
    Held(c) = IF cur.location = "NONE" THEN {}
              ELSE {<<cur.controler, cur.location, cur.sequence>>}

(* used_location, which every choice of a zone consults instead of the
   zones, is exactly the set of the occupied ones; and no extra monster
   zone is taken from both sides. *)
ZonesInUse ==
  /\ \A p \in Players :
       player[p].used_location = {z \in Zones : player[p].zone[z] # NoCard}
  /\ \A n \in {5, 6} \cap MZones : 11 - n \in MZones =>
       \/ <<"MZONE", n>> \notin player[0].used_location
       \/ <<"MZONE", 11 - n>> \notin player[1].used_location

(* The split of the extra deck that shuffle(), add_card and the messages to
   the clients rely on: extra_p_count is the number of face-up Pendulum
   cards, and unless a script put a face-down card on top of them with
   Duel.MoveSequence they are the last cards of the list. *)
FaceupLast ==
  \A p \in Players :
    LET l == player[p].list["EXTRA"]
        n == player[p].extra_p_count
    IN /\ n = Cardinality({c \in ToSet(l) : Counts(Now, c)})
       /\ player[p].reordered \/
            \A i \in DOMAIN l : i > Len(l) - n <=> Counts(Now, l[i])

(* The three records that are kept of where the cards are agree, after any
   series of moves, exchanges and rearrangements of the piles:
   card::current, used_location and extra_p_count. *)
Located == (\A c \in Cards : AtItsPlace(c)) /\ ZonesInUse /\ FaceupLast

(* Field implements Placement, with the place of a card read off current
   (which Located ties to the lists): a move displaces no other card, never
   ends in a zone that is taken on either side, and is redirected to a pile
   that admits the card. *)
PlaceOf(c) ==
  LET cur == current[c] IN
    IF cur.location = "NONE" THEN <<>>
    ELSE <<cur.controler, <<cur.location, IF cur.location \in Piles THEN 0
                                          ELSE cur.sequence>>>>

Abstract == INSTANCE Placement WITH place <- [c \in Cards |-> PlaceOf(c)]
Placed == Abstract!Spec

(* "move a card from anywhere to field": a card on the field is no longer
   in the pile it came from. *)
MovedToField ==
  \A c \in Cards : current[c].location \in OnField =>
    \A p \in Players, pile \in Piles : c \notin ToSet(player[p].list[pile])
=============================================================================
