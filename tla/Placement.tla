----------------------------- MODULE Placement -----------------------------
(* What the field promises about the places of the cards, whatever the
   lists, sequences and flags it keeps: a card is in one place or, as
   overlay material or a token that left, in none; one move displaces one
   card, an exchange two monsters or two backrow cards, and turning the
   deck over with the grave those two piles only. *)
EXTENDS Integers

CONSTANTS Cards, ExtraMonsters, Fusions, Pendulums, Piles, Zones

VARIABLE place  \* the place of every card

Players == {0, 1}
Nowhere == <<>>
Pile(name) == <<name, 0>>

(* A zone is <<"MZONE" or "SZONE", sequence>>.  The extra monster zones of
   the two players, 5 and 6, are the same two zones seen from both sides. *)
Facing(p, z) ==
  IF z[1] = "MZONE" /\ z[2] >= 5 THEN {<<1 - p, <<"MZONE", 11 - z[2]>>>>} ELSE {}

Vacant(p, z) == \A c \in Cards : place[c] \notin {<<p, z>>} \cup Facing(p, z)

(* Extra deck monsters and Fusion spells never enter the hand or the deck,
   and of the others only Pendulum cards enter the extra deck.  Turning the
   grave into the deck lets Fusion spells through. *)
Extras == ExtraMonsters \cup Fusions

Admits(pile, c) ==
  /\ pile \in {"HAND", "DECK"} => c \notin Extras
  /\ pile = "EXTRA" => c \in Extras \cup Pendulums

Init ==
  place \in {f \in [Cards -> Players \X {Pile("DECK"), Pile("EXTRA")}] :
               \A c \in Cards : f[c][2] = Pile("EXTRA") <=> c \in Extras}

MoveToPile(c, p, pile) ==
  /\ Admits(pile, c)
  /\ place' = [place EXCEPT ![c] = <<p, Pile(pile)>>]

MoveToZone(c, p, z) ==
  /\ Vacant(p, z)
  /\ place' = [place EXCEPT ![c] = <<p, z>>]

Leave(c) == place' = [place EXCEPT ![c] = Nowhere]

(* c goes to the side of d and d to the side of c, each to the zone the
   other one left or to a vacant one. *)
Exchange(c, d, v, w) ==
  /\ place[c] \in Players \X Zones /\ place[d] \in Players \X Zones
  /\ <<place[d][1], v>> = place[d] \/ Vacant(place[d][1], v)
  /\ <<place[c][1], w>> = place[c] \/ Vacant(place[c][1], w)
  /\ v[1] = place[d][2][1] /\ w[1] = place[c][2][1]
  /\ place' = [place EXCEPT ![c] = <<place[d][1], v>>, ![d] = <<place[c][1], w>>]

Turnover(p) ==
  place' = [c \in Cards |->
    CASE place[c] = <<p, Pile("DECK")>> -> <<p, Pile("GRAVE")>>
      [] place[c] = <<p, Pile("GRAVE")>> ->
           <<p, Pile(IF c \in ExtraMonsters THEN "EXTRA" ELSE "DECK")>>
      [] OTHER -> place[c]]

Next ==
  \/ \E p \in Players : Turnover(p)
  \/ \E c \in Cards, p \in Players :
       \/ \E pile \in Piles : MoveToPile(c, p, pile)
       \/ \E z \in Zones : MoveToZone(c, p, z)
  \/ \E c \in Cards : Leave(c)
  \/ \E c, d \in Cards, v, w \in Zones : c # d /\ Exchange(c, d, v, w)

Spec == Init /\ [][Next]_place
=============================================================================
