---------------------------- MODULE FieldProofs ----------------------------
(* Proofs about Field, for any cards, zones and owners: the records of
   where the cards are agree after every move, and every move is one of
   Placement.  The operations of Field work on a field s, the pair of the
   two variables, so the invariant is stated of a field and each operation
   has a lemma of its own. *)
EXTENDS Field, SequenceTheorems, FiniteSetTheorems, TLAPS

FieldState == [player : [Players -> Player], current : [Cards -> CardState]]
Zone(s, p, z) == s.player[p].zone[z]
Used(s, p) == s.player[p].used_location
Count(s, p) == s.player[p].extra_p_count
Buried(s, p) == s.player[p].reordered

-----------------------------------------------------------------------------
(* The invariant, of a field. *)

Once(l) == \A i, j \in DOMAIN l : l[i] = l[j] => i = j
Listed(l, c) == \E i \in DOMAIN l : l[i] = c

In(s, c, p, pile) == s.current[c].controler = p /\ s.current[c].location = pile
At(s, c, p, z) ==
  In(s, c, p, z[1]) /\ s.current[c].sequence = z[2]

(* The cards of a pile are those that believe to be in it, once each, in
   the order of their sequences; those of the zones the ones that believe
   to be there; and a card that is not nowhere is in one of them. *)
Members(s) ==
  \A p \in Players, pile \in Piles :
    /\ Once(List(s, p, pile))
    /\ \A c \in Cards : Listed(List(s, p, pile), c) <=> In(s, c, p, pile)
Indexed(s, p, pile) ==
  \A i \in DOMAIN List(s, p, pile) : s.current[List(s, p, pile)[i]].sequence = i - 1
Occupied(s) ==
  \A p \in Players, z \in Zones, c \in Cards : Zone(s, p, z) = c <=> At(s, c, p, z)
Somewhere(s) ==
  \A c \in Cards : LET cur == s.current[c] IN
    /\ cur.location # "NONE" => cur.controler \in Players
    /\ cur.location \in OnField => <<cur.location, cur.sequence>> \in Zones

InUse(s) ==
  \A p \in Players, z \in Zones : z \in Used(s, p) <=> Zone(s, p, z) # NoCard
Shared(s) ==
  \A n \in {5, 6} \cap MZones : 11 - n \in MZones =>
    <<"MZONE", n>> \notin Used(s, 0) \/ <<"MZONE", 11 - n>> \notin Used(s, 1)

(* n cards of a list are in F, the last n of it unless b. *)
Marked(l, F) == {c \in F : Listed(l, c)}
EndsIn(b, l, n, F) ==
  /\ n <= Len(l) /\ n = Cardinality(Marked(l, F))
  /\ b \/ \A i \in DOMAIN l : i > Len(l) - n <=> l[i] \in F
Faceup(s) == {c \in Cards : Counts(s, c)}
FaceupEnd(s) ==
  \A p \in Players : EndsIn(Buried(s, p), List(s, p, "EXTRA"), Count(s, p), Faceup(s))

(* What the redirection of moves keeps: an extra deck monster is never in a
   hand or a deck, and only Fusion spells and Pendulum cards join those
   monsters in the extra deck. *)
Admitted(s) ==
  \A c \in Cards : LET cur == s.current[c] IN
    /\ cur.location \in {"DECK", "HAND"} => c \notin ExtraMonsters
    /\ cur.location = "EXTRA" => c \in Extras \cup Pendulums

Sound(s) ==
  /\ s \in FieldState
  /\ Members(s) /\ Occupied(s) /\ Somewhere(s) /\ InUse(s) /\ Shared(s)
  /\ FaceupEnd(s) /\ Admitted(s)
Good(s) == Sound(s) /\ \A p \in Players, pile \in Piles : Indexed(s, p, pile)

-----------------------------------------------------------------------------
(* Lists. *)

(* r is l with c put in as the i-th; l is r with the i-th taken out. *)
Inserted(r, l, i, c) ==
  /\ Len(r) = Len(l) + 1 /\ i \in 1 .. Len(l) + 1
  /\ \A k \in 1 .. Len(l) + 1 :
       r[k] = IF k < i THEN l[k] ELSE IF k = i THEN c ELSE l[k - 1]

LEMMA InsertedMembers ==
  ASSUME NEW l \in Seq(Cards), NEW r \in Seq(Cards), NEW i, NEW c, Inserted(r, l, i, c)
  PROVE  /\ \A d : Listed(r, d) <=> d = c \/ Listed(l, d)
         /\ Once(r) <=> Once(l) /\ ~Listed(l, c)
<1>1. /\ DOMAIN l = 1 .. Len(l) /\ DOMAIN r = 1 .. Len(l) + 1 /\ Len(l) \in Nat
      /\ i \in 1 .. Len(l) + 1
  BY LenProperties DEF Inserted
<1>2. /\ r[i] = c
      /\ \A k \in 1 .. Len(l) : k < i => r[k] = l[k] /\ k \in 1 .. Len(l) + 1
      /\ \A k \in 1 .. Len(l) : k >= i => r[k + 1] = l[k] /\ k + 1 \in 1 .. Len(l) + 1
  BY <1>1 DEF Inserted
<1>3. \A k \in 1 .. Len(l) + 1 :
        \/ k = i
        \/ k < i /\ k \in 1 .. Len(l) /\ r[k] = l[k]
        \/ k > i /\ k - 1 \in 1 .. Len(l) /\ r[k] = l[k - 1]
  BY <1>1 DEF Inserted
<1>4. ASSUME NEW d
      PROVE  Listed(r, d) <=> d = c \/ Listed(l, d)
  <2>1. ASSUME Listed(r, d)
        PROVE  d = c \/ Listed(l, d)
    <3>1. PICK k \in 1 .. Len(l) + 1 : r[k] = d BY <1>1, <2>1 DEF Listed
    <3>2. \/ r[k] = c
          \/ \E m \in 1 .. Len(l) : r[k] = l[m]
      BY <1>2, <1>3
    <3> QED BY <1>1, <3>1, <3>2 DEF Listed
  <2>2. Listed(l, d) => Listed(r, d) BY <1>1, <1>2 DEF Listed
  <2> QED BY <1>1, <1>2, <2>1, <2>2 DEF Listed
<1>5. ASSUME Once(r)
      PROVE  Once(l) /\ ~Listed(l, c)
  <2>1. ~Listed(l, c) BY <1>1, <1>2, <1>5 DEF Once, Listed
  <2>2. ASSUME NEW j \in 1 .. Len(l), NEW k \in 1 .. Len(l), l[j] = l[k]
        PROVE  j = k
    <3> DEFINE J == IF j < i THEN j ELSE j + 1
               K == IF k < i THEN k ELSE k + 1
    <3>1. /\ J \in 1 .. Len(l) + 1 /\ r[J] = l[j]
          /\ K \in 1 .. Len(l) + 1 /\ r[K] = l[k]
      BY <1>1, <1>2
    <3>2. J = K BY <1>1, <1>5, <2>2, <3>1 DEF Once
    <3> QED BY <1>1, <3>2
  <2> QED BY <1>1, <2>1, <2>2 DEF Once
<1>6. ASSUME Once(l), ~Listed(l, c)
      PROVE  Once(r)
  <2> SUFFICES ASSUME NEW j \in 1 .. Len(l) + 1, NEW k \in 1 .. Len(l) + 1, r[j] = r[k]
               PROVE  j = k
    BY <1>1 DEF Once
  <2>1. \A m \in 1 .. Len(l) : l[m] # c BY <1>1, <1>6 DEF Listed
  <2>2. \A m, n \in 1 .. Len(l) : l[m] = l[n] => m = n BY <1>1, <1>6 DEF Once
  <2> QED BY <1>1, <1>2, <1>3, <2>1, <2>2
<1> QED BY <1>4, <1>5, <1>6

LEMMA AppendInserted ==
  ASSUME NEW l \in Seq(Cards), NEW c \in Cards
  PROVE  Append(l, c) \in Seq(Cards) /\ Inserted(Append(l, c), l, Len(l) + 1, c)
BY AppendProperties, LenProperties DEF Inserted

LEMMA FirstInserted ==
  ASSUME NEW l \in Seq(Cards), NEW c \in Cards
  PROVE  <<c>> \o l \in Seq(Cards) /\ Inserted(<<c>> \o l, l, 1, c)
<1>1. Len(<<c>>) = 1 /\ <<c>>[1] = c /\ <<c>> \in Seq(Cards) OBVIOUS
<1> QED BY <1>1, ConcatProperties, LenProperties DEF Inserted

LEMMA Split ==
  ASSUME NEW l \in Seq(Cards), NEW n \in 0 .. Len(l)
  PROVE  /\ SubSeq(l, 1, n) \in Seq(Cards) /\ Len(SubSeq(l, 1, n)) = n
         /\ \A k \in 1 .. n : SubSeq(l, 1, n)[k] = l[k]
         /\ SubSeq(l, n + 1, Len(l)) \in Seq(Cards)
         /\ Len(SubSeq(l, n + 1, Len(l))) = Len(l) - n
         /\ \A k \in 1 .. Len(l) - n : SubSeq(l, n + 1, Len(l))[k] = l[n + k]
<1>1. Len(l) \in Nat /\ \A k \in 1 .. Len(l) : l[k] \in Cards BY LenProperties
<1>2. \A k \in 1 .. n : l[k] \in Cards BY <1>1
<1>3. \A k \in n + 1 .. Len(l) : l[k] \in Cards BY <1>1
<1>4. /\ SubSeq(l, 1, n) \in Seq(Cards)
      /\ Len(SubSeq(l, 1, n)) = IF 1 <= n THEN n - 1 + 1 ELSE 0
      /\ \A k \in 1 .. n - 1 + 1 : SubSeq(l, 1, n)[k] = l[1 + k - 1]
  BY <1>1, <1>2, SubSeqProperties
<1>5. /\ SubSeq(l, n + 1, Len(l)) \in Seq(Cards)
      /\ Len(SubSeq(l, n + 1, Len(l))) =
           IF n + 1 <= Len(l) THEN Len(l) - (n + 1) + 1 ELSE 0
      /\ \A k \in 1 .. Len(l) - (n + 1) + 1 :
           SubSeq(l, n + 1, Len(l))[k] = l[n + 1 + k - 1]
  BY <1>1, <1>3, SubSeqProperties
<1> HIDE DEF Seq
<1>6. \A k : k \in 1 .. n => 1 + k - 1 = k BY <1>1
<1>7. \A k : k \in 1 .. Len(l) - n => n + 1 + k - 1 = n + k /\ k \in 1 .. Len(l) - (n + 1) + 1
  BY <1>1
<1> QED BY <1>1, <1>4, <1>5, <1>6, <1>7

(* Taking a card out by its sequence. *)
LEMMA EraseInserted ==
  ASSUME NEW l \in Seq(Cards), NEW i \in 1 .. Len(l)
  PROVE  /\ Erase(l, i - 1) \in Seq(Cards)
         /\ Inserted(l, Erase(l, i - 1), i, l[i])
<1> DEFINE a == SubSeq(l, 1, i - 1)
           b == SubSeq(l, i + 1, Len(l))
<1>1. Len(l) \in Nat /\ i \in Nat /\ i - 1 \in 0 .. Len(l) /\ i \in 0 .. Len(l)
  BY LenProperties
<1>2. /\ a \in Seq(Cards) /\ Len(a) = i - 1
      /\ \A k \in 1 .. i - 1 : a[k] = l[k]
  BY <1>1, Split
<1>3. /\ b \in Seq(Cards) /\ Len(b) = Len(l) - i
      /\ \A k \in 1 .. Len(l) - i : b[k] = l[i + k]
  BY <1>1, Split
<1>4. Erase(l, i - 1) = a \o b
  <2>1. i - 1 < Len(l) /\ (i - 1) + 1 = i /\ i - 1 = (i - 1) + 1 - 1 BY <1>1
  <2> QED BY <2>1 DEF Erase, RemoveAt
<1> HIDE DEF a, b
<1>5. /\ a \o b \in Seq(Cards) /\ Len(a \o b) = Len(l) - 1
      /\ \A k \in 1 .. Len(l) - 1 : (a \o b)[k] = IF k <= i - 1 THEN a[k] ELSE b[k - (i - 1)]
  <2>1. /\ a \o b \in Seq(Cards) /\ Len(a \o b) = Len(a) + Len(b)
        /\ \A k \in 1 .. Len(a) + Len(b) :
             (a \o b)[k] = IF k <= Len(a) THEN a[k] ELSE b[k - Len(a)]
    BY <1>2, <1>3, ConcatProperties
  <2>2. Len(a) + Len(b) = Len(l) - 1 BY <1>1, <1>2, <1>3
  <2> QED BY <1>2, <2>1, <2>2
<1>6. \A k \in 1 .. Len(l) - 1 : (a \o b)[k] = IF k < i THEN l[k] ELSE l[k + 1]
  <2> TAKE k \in 1 .. Len(l) - 1
  <2>1. CASE k < i BY <1>1, <1>2, <1>5, <2>1
  <2>2. CASE ~(k < i)
    <3>1. k - (i - 1) \in 1 .. Len(l) - i /\ i + (k - (i - 1)) = k + 1 /\ ~(k <= i - 1)
      BY <1>1, <2>2
    <3>2. b[k - (i - 1)] = l[k + 1] BY <1>3, <3>1
    <3> QED BY <1>5, <2>2, <3>1, <3>2
  <2> QED BY <2>1, <2>2
<1>7. ASSUME NEW k \in 1 .. Len(a \o b) + 1
      PROVE  l[k] = IF k < i THEN (a \o b)[k] ELSE IF k = i THEN l[i] ELSE (a \o b)[k - 1]
  <2>1. CASE k < i
    <3>1. k \in 1 .. Len(l) - 1 BY <1>1, <1>5, <2>1
    <3> QED BY <1>6, <2>1, <3>1
  <2>2. CASE k = i BY <2>2
  <2>3. CASE k > i
    <3>1. k - 1 \in 1 .. Len(l) - 1 /\ ~(k - 1 < i) /\ k - 1 + 1 = k BY <1>1, <1>5, <2>3
    <3>2. (a \o b)[k - 1] = l[k] BY <1>6, <3>1
    <3> QED BY <1>1, <2>3, <3>2
  <2> QED BY <1>1, <1>5, <2>1, <2>2, <2>3
<1>8. Len(l) = Len(a \o b) + 1 /\ i \in 1 .. Len(a \o b) + 1 BY <1>1, <1>5
<1> QED BY <1>4, <1>5, <1>7, <1>8 DEF Inserted

LEMMA FrontInserted ==
  ASSUME NEW l \in Seq(Cards), l # <<>>
  PROVE  /\ Front(l) \in Seq(Cards) /\ Len(l) \in Nat \ {0}
         /\ Inserted(l, Front(l), Len(l), Last(l)) /\ Last(l) \in Cards
<1>1. Len(l) \in Nat \ {0} /\ Len(l) - 1 \in 0 .. Len(l) BY EmptySeq
<1>2. l[Len(l)] \in Cards BY <1>1
<1> QED
  <2>1. /\ Front(l) \in Seq(Cards) /\ Len(Front(l)) = Len(l) - 1
        /\ \A k \in 1 .. Len(l) - 1 : Front(l)[k] = l[k]
    BY <1>1, Split DEF Front
  <2>2. \A k \in 1 .. Len(Front(l)) + 1 : k < Len(l) => k \in 1 .. Len(l) - 1
    BY <1>1, <2>1
  <2>3. \A k \in 1 .. Len(Front(l)) + 1 : k < Len(l) \/ k = Len(l) BY <1>1, <2>1
  <2>4. Len(l) = Len(Front(l)) + 1 /\ Len(l) \in 1 .. Len(Front(l)) + 1 BY <1>1, <2>1
  <2> QED BY <1>1, <1>2, <2>1, <2>2, <2>3, <2>4 DEF Last, Inserted

(* A card put before the last n. *)
LEMMA BetweenInserted ==
  ASSUME NEW l \in Seq(Cards), NEW n \in 0 .. Len(l), NEW c \in Cards
  PROVE  LET r == SubSeq(l, 1, n) \o <<c>> \o SubSeq(l, n + 1, Len(l)) IN
         r \in Seq(Cards) /\ Inserted(r, l, n + 1, c)
<1> DEFINE a == SubSeq(l, 1, n)
           b == SubSeq(l, n + 1, Len(l))
           ac == a \o <<c>>
           r == ac \o b
<1>1. Len(l) \in Nat /\ n \in Nat /\ <<c>> \in Seq(Cards) /\ Len(<<c>>) = 1 /\ <<c>>[1] = c
  BY LenProperties
<1>2. /\ a \in Seq(Cards) /\ Len(a) = n
      /\ \A k \in 1 .. n : a[k] = l[k]
      /\ b \in Seq(Cards) /\ Len(b) = Len(l) - n
      /\ \A k \in 1 .. Len(l) - n : b[k] = l[n + k]
  BY Split
<1> HIDE DEF a, b
<1>3. /\ ac \in Seq(Cards) /\ Len(ac) = n + 1
      /\ \A k \in 1 .. n + 1 : ac[k] = IF k <= n THEN l[k] ELSE c
  BY <1>1, <1>2, ConcatProperties
<1> HIDE DEF ac
<1>4. /\ r \in Seq(Cards) /\ Len(r) = Len(l) + 1
      /\ \A k \in 1 .. Len(l) + 1 : r[k] = IF k <= n + 1 THEN ac[k] ELSE b[k - (n + 1)]
  BY <1>1, <1>2, <1>3, ConcatProperties
<1> HIDE DEF r
<1>5. ASSUME NEW k \in 1 .. Len(l) + 1
      PROVE  r[k] = IF k < n + 1 THEN l[k] ELSE IF k = n + 1 THEN c ELSE l[k - 1]
  <2>1. CASE k <= n + 1 BY <1>1, <1>3, <1>4, <2>1
  <2>2. CASE k > n + 1
    <3>1. k - (n + 1) \in 1 .. Len(l) - n /\ n + (k - (n + 1)) = k - 1 BY <1>1, <2>2
    <3> QED BY SMTT(20), <1>1, <1>2, <1>4, <2>2, <3>1
  <2> QED BY <1>1, <2>1, <2>2
<1>6. n + 1 \in 1 .. Len(l) + 1 BY <1>1
<1> QED
  BY <1>4, <1>5, <1>6 DEF Inserted, r, ac, a, b

LEMMA MarkedFinite ==
  ASSUME NEW l \in Seq(Cards), NEW F
  PROVE  /\ IsFiniteSet(Marked(l, F)) /\ Cardinality(Marked(l, F)) \in Nat
         /\ Cardinality(Marked(l, F)) <= Len(l)
<1> DEFINE D == 1 .. Len(l)
           R == {l[i] : i \in D}
<1>1. Len(l) \in Nat /\ DOMAIN l = D BY LenProperties
<1>2. IsFiniteSet(D) /\ Cardinality(D) = Len(l) BY <1>1, FS_Interval
<1>3. IsFiniteSet(R) /\ Cardinality(R) <= Cardinality(D)
  <2> DEFINE f == [i \in D |-> l[i]]
  <2>1. f \in Surjection(D, R) BY DEF Surjection
  <2> HIDE DEF D, R, f
  <2> QED BY <1>2, <2>1, FS_Surjection
<1>4. Marked(l, F) \subseteq R BY <1>1 DEF Marked, Listed
<1>5. IsFiniteSet(Marked(l, F)) /\ Cardinality(Marked(l, F)) <= Cardinality(R)
  BY <1>3, <1>4, FS_Subset
<1>6. Cardinality(R) \in Nat /\ Cardinality(Marked(l, F)) \in Nat
  BY <1>3, <1>5, FS_CardinalityType
<1> QED BY <1>1, <1>2, <1>3, <1>5, <1>6

(* The split of a list under insertion: at the end or before it. *)
LEMMA InsertedEnds ==
  ASSUME NEW l \in Seq(Cards), NEW r \in Seq(Cards), NEW i, NEW c, Inserted(r, l, i, c),
         ~Listed(l, c), NEW F, NEW n \in Nat, NEW b
  PROVE  /\ c \in F /\ EndsIn(b, l, n, F) /\ (b \/ i = Len(l) + 1) => EndsIn(b, r, n + 1, F)
         /\ c \notin F /\ EndsIn(b, l, n, F) /\ (b \/ i = Len(l) - n + 1) => EndsIn(b, r, n, F)
         /\ c \in F /\ EndsIn(b, r, n, F) => n > 0 /\ EndsIn(b, l, n - 1, F)
         /\ c \notin F /\ EndsIn(b, r, n, F) => EndsIn(b, l, n, F)
<1> DEFINE AtEnd(k, m) == \A j \in DOMAIN k : j > Len(k) - m <=> k[j] \in F
           x == Cardinality(Marked(l, F))
           y == Cardinality(Marked(r, F))
<1>1. /\ DOMAIN l = 1 .. Len(l) /\ DOMAIN r = 1 .. Len(l) + 1 /\ Len(l) \in Nat
      /\ i \in 1 .. Len(l) + 1 /\ Len(r) = Len(l) + 1
  BY LenProperties DEF Inserted
<1>2. r[i] = c BY <1>1 DEF Inserted
<1>3. \A k \in 1 .. Len(l) : k < i => r[k] = l[k] /\ k \in 1 .. Len(l) + 1
  BY <1>1 DEF Inserted
<1>4. \A k \in 1 .. Len(l) : k >= i => r[k + 1] = l[k] /\ k + 1 \in 1 .. Len(l) + 1
  BY <1>1 DEF Inserted
<1>5. \A k \in 1 .. Len(l) + 1 :
        \/ k = i
        \/ k < i /\ k \in 1 .. Len(l) /\ r[k] = l[k]
        \/ k > i /\ k - 1 \in 1 .. Len(l) /\ r[k] = l[k - 1]
  BY <1>1 DEF Inserted
<1>11. /\ x \in Nat /\ x <= Len(l) /\ y \in Nat /\ y <= Len(r)
       /\ y = IF c \in F THEN x + 1 ELSE x
  <2>1. /\ IsFiniteSet(Marked(l, F)) /\ x \in Nat /\ x <= Len(l)
        /\ y \in Nat /\ y <= Len(r)
    BY MarkedFinite
  <2>2. \A d : Listed(r, d) <=> d = c \/ Listed(l, d) BY InsertedMembers
  <2>3. c \notin Marked(l, F) BY DEF Marked
  <2>4. CASE c \in F
    <3>1. Marked(r, F) = Marked(l, F) \cup {c} BY <2>2, <2>4 DEF Marked
    <3> QED BY <2>1, <2>3, <2>4, <3>1, FS_AddElement
  <2>5. CASE c \notin F
    <3>1. Marked(r, F) = Marked(l, F) BY <2>2, <2>5 DEF Marked
    <3> QED BY <2>1, <2>5, <3>1
  <2> QED BY <2>4, <2>5
<1>12. \A k, m : EndsIn(b, k, m, F) <=>
         m <= Len(k) /\ m = Cardinality(Marked(k, F)) /\ (b \/ AtEnd(k, m))
  BY DEF EndsIn
<1> HIDE DEF x, y
<1>6. ASSUME c \in F, n <= Len(l), AtEnd(l, n), i = Len(l) + 1
      PROVE  AtEnd(r, n + 1)
  BY <1>1, <1>2, <1>5, <1>6
<1>7. ASSUME c \notin F, n <= Len(l), AtEnd(l, n), i = Len(l) - n + 1
      PROVE  AtEnd(r, n)
  <2> SUFFICES ASSUME NEW k \in 1 .. Len(l) + 1
               PROVE  k > Len(r) - n <=> r[k] \in F
    BY <1>1
  <2>1. CASE k = i BY <1>1, <1>2, <1>7, <2>1
  <2>2. CASE k < i /\ k \in 1 .. Len(l) /\ r[k] = l[k]
    <3>1. k \in DOMAIN l /\ ~(k > Len(l) - n) /\ ~(k > Len(r) - n) BY <1>1, <1>7, <2>2
    <3> QED BY <1>7, <2>2, <3>1
  <2>3. CASE k > i /\ k - 1 \in 1 .. Len(l) /\ r[k] = l[k - 1] BY <1>1, <1>7, <2>3
  <2> QED BY <1>5, <2>1, <2>2, <2>3
<1>9. ASSUME c \in F, n <= Len(r), AtEnd(r, n)
      PROVE  AtEnd(l, n - 1)
  <2>1. i > Len(l) + 1 - n BY <1>1, <1>2, <1>9
  <2> SUFFICES ASSUME NEW k \in 1 .. Len(l)
               PROVE  k > Len(l) - (n - 1) <=> l[k] \in F
    BY <1>1
  <2>2. CASE k < i BY <1>1, <1>3, <1>9, <2>2
  <2>3. CASE k >= i BY <1>1, <1>4, <1>9, <2>1, <2>3
  <2> QED BY <1>1, <2>2, <2>3
<1>10. ASSUME c \notin F, n <= Len(r), AtEnd(r, n)
       PROVE  AtEnd(l, n)
  <2>1. i <= Len(l) + 1 - n BY <1>1, <1>2, <1>10
  <2> SUFFICES ASSUME NEW k \in 1 .. Len(l)
               PROVE  k > Len(l) - n <=> l[k] \in F
    BY <1>1
  <2>2. CASE k < i BY <1>1, <1>3, <1>10, <2>1, <2>2
  <2>3. CASE k >= i BY <1>1, <1>4, <1>10, <2>3
  <2> QED BY <1>1, <2>2, <2>3
<1> HIDE DEF AtEnd
<1>13. x = Cardinality(Marked(l, F)) /\ y = Cardinality(Marked(r, F)) BY DEF x, y
<1>14. /\ n + 1 <= Len(r) <=> n <= Len(l)
       /\ n <= Len(l) => n <= Len(r)
  BY <1>1
<1> QED
  <2>1. ASSUME c \in F
        PROVE  /\ n = x <=> n + 1 = y
               /\ n = y => n > 0 /\ n - 1 = x /\ n - 1 <= Len(l)
    BY <1>1, <1>11, <2>1
  <2>2. ASSUME c \notin F
        PROVE  /\ n = x <=> n = y
               /\ n = y => n <= Len(l)
    BY <1>1, <1>11, <2>2
  <2> QED BY <1>6, <1>7, <1>9, <1>10, <1>12, <1>13, <1>14, <2>1, <2>2, Zenon

LEMMA SameEnds ==
  ASSUME NEW b, NEW l, NEW n, NEW F, NEW G, \A i \in DOMAIN l : l[i] \in F <=> l[i] \in G
  PROVE  EndsIn(b, l, n, F) <=> EndsIn(b, l, n, G)
<1>1. Marked(l, F) = Marked(l, G) BY DEF Marked, Listed
<1> QED BY <1>1 DEF EndsIn

-----------------------------------------------------------------------------
(* The parts that the operations are made of. *)

LEMMA FieldType ==
  ASSUME NEW s \in FieldState, NEW p \in Players
  PROVE  /\ \A k \in Piles : List(s, p, k) \in Seq(Cards)
         /\ \A z \in Zones : Zone(s, p, z) \in Cards \cup {NoCard}
         /\ Used(s, p) \subseteq Zones
         /\ Count(s, p) \in Nat
         /\ \A c \in Cards : s.current[c] \in CardState
BY DEF FieldState, Player, List, Zone, Used, Count, Buried

SameLists(s, t) ==
  \A p \in Players :
    /\ \A k \in Piles : List(t, p, k) = List(s, p, k)
    /\ Count(t, p) = Count(s, p) /\ Buried(t, p) = Buried(s, p)
SameZones(s, t) ==
  \A p \in Players :
    /\ \A z \in Zones : Zone(t, p, z) = Zone(s, p, z)
    /\ Used(t, p) = Used(s, p)

LEMMA SetListState ==
  ASSUME NEW s \in FieldState, NEW p \in Players, NEW pile \in Piles, NEW l \in Seq(Cards)
  PROVE  LET t == SetList(s, p, pile, l) IN
         /\ t \in FieldState /\ t.current = s.current /\ SameZones(s, t)
         /\ \A q \in Players :
              /\ \A k \in Piles : List(t, q, k) = IF q = p /\ k = pile THEN l ELSE List(s, q, k)
              /\ Count(t, q) = Count(s, q) /\ Buried(t, q) = Buried(s, q)
BY DEF SetList, FieldState, Player, List, Zone, Used, Count, Buried, SameZones

LEMMA MaxSingleton == ASSUME NEW n \in Int PROVE Max({n}) = n
BY DEF Max

(* reset_sequence gives the cards of a list their indices. *)
LEMMA ResetState ==
  ASSUME NEW s \in FieldState, NEW p \in Players, NEW pile \in Piles, Once(List(s, p, pile))
  PROVE  LET t == reset_sequence(s, p, pile)
             l == List(s, p, pile)
         IN
         /\ t \in FieldState /\ SameLists(s, t) /\ SameZones(s, t)
         /\ \A c \in Cards :
              /\ t.current[c].controler = s.current[c].controler
              /\ t.current[c].location = s.current[c].location
              /\ t.current[c].faceup = s.current[c].faceup
              /\ t.current[c].pzone = s.current[c].pzone
              /\ ~Listed(l, c) => t.current[c] = s.current[c]
         /\ \A i \in DOMAIN l : t.current[l[i]].sequence = i - 1
<1> DEFINE t == reset_sequence(s, p, pile)
           l == List(s, p, pile)
           P(c) == {i \in DOMAIN l : l[i] = c}
<1>1. l \in Seq(Cards) /\ DOMAIN l = 1 .. Len(l) /\ Len(l) \in Nat
  BY FieldType, LenProperties
<1>2. \A c \in Cards : P(c) = {} <=> ~Listed(l, c) BY DEF Listed
<1>3. ASSUME NEW i \in DOMAIN l
      PROVE  /\ l[i] \in Cards /\ P(l[i]) # {} /\ Max(P(l[i])) - 1 = i - 1 /\ i - 1 \in Nat
  <2>1. l[i] \in Cards BY <1>1
  <2>2. P(l[i]) = {i} BY DEF Once
  <2> QED BY <1>1, <2>1, <2>2, MaxSingleton
<1> DEFINE new == [c \in Cards |-> IF P(c) = {} THEN s.current[c]
                                  ELSE [s.current[c] EXCEPT !.sequence = Max(P(c)) - 1]]
<1>4. \A c \in Cards : new[c] = IF P(c) = {} THEN s.current[c]
                                ELSE [s.current[c] EXCEPT !.sequence = Max(P(c)) - 1]
  OBVIOUS
<1>5. t = [s EXCEPT !.current = new] BY DEF reset_sequence
<1>6. DOMAIN new = Cards /\ new = [c \in Cards |-> new[c]] OBVIOUS
<1> HIDE DEF new
<1>7. \A c \in Cards : s.current[c] \in CardState BY FieldType
<1> HIDE DEF t, l
<1>14. t.player = s.player /\ t.current = new /\ t = [player |-> s.player, current |-> new]
  BY <1>5 DEF FieldState
<1>8. \A c \in Cards : P(c) # {} => Max(P(c)) - 1 \in Nat BY <1>3
<1> HIDE DEF P
<1>9. ASSUME NEW c \in Cards
      PROVE  /\ t.current[c] \in CardState
             /\ t.current[c].controler = s.current[c].controler
             /\ t.current[c].location = s.current[c].location
             /\ t.current[c].faceup = s.current[c].faceup
             /\ t.current[c].pzone = s.current[c].pzone
  <2>1. CASE P(c) = {} BY <1>4, <1>7, <1>14, <2>1
  <2>2. CASE P(c) # {}
    <3> DEFINE n == Max(P(c)) - 1
    <3>1. n \in Nat /\ s.current[c] \in CardState BY <1>7, <1>8, <2>2
    <3>2. t.current[c] = [s.current[c] EXCEPT !.sequence = n] BY <1>4, <1>14, <2>2
    <3> HIDE DEF n
    <3> QED BY <3>1, <3>2 DEF CardState
  <2> QED BY <2>1, <2>2
<1>10. t \in FieldState
  <2>1. t.current \in [Cards -> CardState] /\ s.player \in [Players -> Player]
    BY <1>6, <1>9, <1>14 DEF FieldState
  <2> QED BY <1>14, <2>1 DEF FieldState
<1>11. SameLists(s, t) /\ SameZones(s, t)
  BY <1>14 DEF SameLists, SameZones, List, Count, Buried, Zone, Used
<1>12. \A i \in DOMAIN l : t.current[l[i]].sequence = i - 1
  <2> SUFFICES ASSUME NEW i \in DOMAIN l
               PROVE  t.current[l[i]].sequence = i - 1
    OBVIOUS
  <2> DEFINE n == Max(P(l[i])) - 1
  <2>1. l[i] \in Cards /\ n = i - 1 /\ s.current[l[i]] \in CardState
        /\ t.current[l[i]] = [s.current[l[i]] EXCEPT !.sequence = n]
    BY <1>3, <1>4, <1>7, <1>14
  <2> HIDE DEF n
  <2> QED BY <2>1 DEF CardState
<1>13. \A c \in Cards : ~Listed(l, c) => t.current[c] = s.current[c]
  BY <1>2, <1>4, <1>14 DEF l, P
<1> QED BY <1>9, <1>10, <1>11, <1>12, <1>13 DEF t, l

Elsewhere(s, t, c) == \A d \in Cards \ {c} : t.current[d] = s.current[d]

LEMMA EntersState ==
  ASSUME NEW s \in FieldState, NEW c \in Cards, NEW p \in Players,
         NEW location \in Piles \cup OnField, NEW sequence \in Nat,
         NEW faceup \in BOOLEAN, NEW pzone \in BOOLEAN
  PROVE  LET t == Enters(s, c, p, location, sequence, faceup, pzone) IN
         /\ t \in FieldState /\ SameLists(s, t) /\ SameZones(s, t) /\ Elsewhere(s, t, c)
         /\ t.current[c].controler = p /\ t.current[c].location = location
         /\ t.current[c].sequence = sequence /\ t.current[c].faceup = faceup
BY DEF Enters, FieldState, CardState, SameLists, SameZones, Elsewhere, List, Zone, Used, Count, Buried

LEMMA LeavesState ==
  ASSUME NEW s \in FieldState, NEW c \in Cards
  PROVE  LET t == Leaves(s, c) IN
         /\ t \in FieldState /\ SameLists(s, t) /\ SameZones(s, t) /\ Elsewhere(s, t, c)
         /\ t.current[c].controler = NoPlayer /\ t.current[c].location = "NONE"
<1> DEFINE gone == [s.current[c] EXCEPT !.controler = NoPlayer, !.location = "NONE",
                                         !.sequence = 0]
<1> DEFINE cur == s.current[c]
<1>3. cur \in CardState BY DEF FieldState
<1> HIDE DEF cur
<1>4. /\ [cur EXCEPT !.controler = NoPlayer, !.location = "NONE", !.sequence = 0] \in CardState
      /\ [cur EXCEPT !.controler = NoPlayer, !.location = "NONE", !.sequence = 0].controler
           = NoPlayer
      /\ [cur EXCEPT !.controler = NoPlayer, !.location = "NONE", !.sequence = 0].location
           = "NONE"
  BY <1>3 DEF CardState, NoPlayer
<1>1. gone \in CardState /\ gone.controler = NoPlayer /\ gone.location = "NONE"
  BY <1>4 DEF cur
<1>2. Leaves(s, c) = [s EXCEPT !.current = [s.current EXCEPT ![c] = gone]]
  BY DEF Leaves, FieldState, CardState
<1> HIDE DEF gone
<1> QED
  BY <1>1, <1>2 DEF FieldState, SameLists, SameZones, Elsewhere, List, Zone, Used, Count, Buried

LEMMA TurnedUpState ==
  ASSUME NEW s \in FieldState, NEW c \in Cards, NEW up \in BOOLEAN
  PROVE  LET t == TurnedUp(s, c, up) IN
         /\ t \in FieldState /\ SameLists(s, t) /\ SameZones(s, t) /\ Elsewhere(s, t, c)
         /\ t.current[c].controler = s.current[c].controler
         /\ t.current[c].location = s.current[c].location
         /\ t.current[c].sequence = s.current[c].sequence
BY DEF TurnedUp, FieldState, CardState, SameLists, SameZones, Elsewhere, List, Zone, Used,
       Count, Buried
(* The counter of face-up Pendulum cards. *)
SetCount(s, p, n) == [s EXCEPT !.player[p].extra_p_count = n]

LEMMA CountState ==
  ASSUME NEW s \in FieldState, NEW p \in Players, NEW n \in Nat
  PROVE  LET t == SetCount(s, p, n) IN
         /\ t \in FieldState /\ t.current = s.current /\ SameZones(s, t)
         /\ Count(t, p) = n
         /\ \A q \in Players :
              /\ \A k \in Piles : List(t, q, k) = List(s, q, k)
              /\ Buried(t, q) = Buried(s, q)
              /\ q # p => Count(t, q) = Count(s, q)
BY DEF SetCount, FieldState, Player, List, Zone, Used, Count, Buried, SameZones

(* A zone is filled or emptied, and used_location with it. *)
SetZone(s, p, z, h, U) ==
  [s EXCEPT !.player[p].zone[z] = h, !.player[p].used_location = U]

LEMMA ZoneState ==
  ASSUME NEW s \in FieldState, NEW p \in Players, NEW z \in Zones,
         NEW h \in Cards \cup {NoCard}, NEW U \in SUBSET Zones
  PROVE  LET t == SetZone(s, p, z, h, U) IN
         /\ t \in FieldState /\ t.current = s.current /\ SameLists(s, t)
         /\ \A q \in Players :
              /\ \A y \in Zones : Zone(t, q, y) = IF q = p /\ y = z THEN h ELSE Zone(s, q, y)
              /\ Used(t, q) = IF q = p THEN U ELSE Used(s, q)
<1> DEFINE x == [s.player[p] EXCEPT !.zone = [s.player[p].zone EXCEPT ![z] = h],
                                     !.used_location = U]
           t == SetZone(s, p, z, h, U)
<1>1. s.player[p] \in Player /\ s.player \in [Players -> Player] BY DEF FieldState
<1>2. /\ x \in Player /\ x.list = s.player[p].list
      /\ x.extra_p_count = s.player[p].extra_p_count /\ x.used_location = U
      /\ x.reordered = s.player[p].reordered
      /\ \A y \in Zones : x.zone[y] = IF y = z THEN h ELSE s.player[p].zone[y]
  BY <1>1 DEF Player
<1>3. t = [s EXCEPT !.player = [s.player EXCEPT ![p] = x]]
  BY <1>1 DEF FieldState, SetZone
<1> HIDE DEF x, t
<1>4. t \in FieldState /\ t.current = s.current BY <1>1, <1>2, <1>3 DEF FieldState
<1>5. \A q \in Players : t.player[q] = IF q = p THEN x ELSE s.player[q]
  BY <1>1, <1>3 DEF FieldState
<1>6. /\ SameLists(s, t)
      /\ \A q \in Players :
           /\ \A y \in Zones : Zone(t, q, y) = IF q = p /\ y = z THEN h ELSE Zone(s, q, y)
           /\ Used(t, q) = IF q = p THEN U ELSE Used(s, q)
  BY <1>2, <1>5 DEF SameLists, List, Zone, Used, Count, Buried
<1> QED BY <1>4, <1>6 DEF t

-----------------------------------------------------------------------------
(* The invariant carried over a step. *)

(* Where the other cards are is left alone; their indices in the piles are
   looked at apart. *)
SameSpot(s, t, d) ==
  /\ t.current[d].controler = s.current[d].controler
  /\ t.current[d].location = s.current[d].location
  /\ t.current[d].location \in OnField => t.current[d].sequence = s.current[d].sequence
Undisturbed(s, t, C) == \A d \in C : SameSpot(s, t, d)
SameFaces(s, t, C) == \A d \in C : t.current[d].faceup = s.current[d].faceup

Nowhere(s, c) == s.current[c].location = "NONE"

(* In s the card is nowhere, in t it is in the pile, all else alike. *)
Joined(s, t, c, p, pile) ==
  /\ Nowhere(s, c) /\ In(t, c, p, pile)
  /\ \E i : Inserted(List(t, p, pile), List(s, p, pile), i, c)
  /\ \A q \in Players, k \in Piles : q # p \/ k # pile => List(t, q, k) = List(s, q, k)
  /\ SameZones(s, t) /\ Undisturbed(s, t, Cards \ {c}) /\ SameFaces(s, t, Cards \ {c})

(* In s the card is nowhere, in t it is in the zone, all else alike. *)
Seated(s, t, c, p, z) ==
  /\ Nowhere(s, c) /\ At(t, c, p, z)
  /\ Zone(s, p, z) = NoCard /\ Zone(t, p, z) = c
  /\ z \notin Used(s, p) /\ Used(t, p) = Used(s, p) \cup {z}
  /\ \A q \in Players, y \in Zones : q # p \/ y # z => Zone(t, q, y) = Zone(s, q, y)
  /\ \A q \in Players : q # p => Used(t, q) = Used(s, q)
  /\ SameLists(s, t) /\ Undisturbed(s, t, Cards \ {c}) /\ SameFaces(s, t, Cards \ {c})

LEMMA JoinedMembers ==
  ASSUME NEW s \in FieldState, NEW t \in FieldState, NEW c \in Cards, NEW p \in Players,
         NEW pile \in Piles, Joined(s, t, c, p, pile)
  PROVE  /\ Members(s) <=> Members(t)
         /\ Occupied(s) <=> Occupied(t)
         /\ Somewhere(s) <=> Somewhere(t)
         /\ InUse(s) <=> InUse(t)
         /\ Shared(s) <=> Shared(t)
<1> DEFINE l == List(s, p, pile)
           r == List(t, p, pile)
<1>1. l \in Seq(Cards) /\ r \in Seq(Cards) BY FieldType
<1>2. PICK i : Inserted(r, l, i, c) BY DEF Joined
<1>3. /\ \A d : Listed(r, d) <=> d = c \/ Listed(l, d)
      /\ Once(r) <=> Once(l) /\ ~Listed(l, c)
  BY <1>1, <1>2, InsertedMembers
<1>4. \A d \in Cards \ {c}, q \in Players, k \in Piles : In(t, d, q, k) <=> In(s, d, q, k)
  BY DEF Joined, In, Undisturbed, SameSpot
<1>5. \A q \in Players, k \in Piles : ~In(s, c, q, k) /\ (In(t, c, q, k) <=> q = p /\ k = pile)
  BY DEF Joined, In, Nowhere, Piles
<1>6. \A q \in Players, k \in Piles : q # p \/ k # pile => List(t, q, k) = List(s, q, k)
  BY DEF Joined
<1> HIDE DEF l, r
<1>7. Members(s) <=> Members(t)
  <2>1. ASSUME Members(s)
        PROVE  Members(t)
    <3>1. ASSUME NEW q \in Players, NEW k \in Piles
          PROVE  /\ Once(List(t, q, k))
                 /\ \A d \in Cards : Listed(List(t, q, k), d) <=> In(t, d, q, k)
      <4>0. /\ Once(List(s, q, k))
            /\ \A d \in Cards : Listed(List(s, q, k), d) <=> In(s, d, q, k)
        BY <2>1 DEF Members
      <4>1. CASE q = p /\ k = pile
        <5>1. List(s, q, k) = l /\ List(t, q, k) = r BY <4>1 DEF l, r
        <5> QED BY <1>3, <1>4, <1>5, <4>0, <4>1, <5>1
      <4>2. CASE q # p \/ k # pile BY <1>4, <1>5, <1>6, <4>0, <4>2
      <4> QED BY <4>1, <4>2
    <3> QED BY <3>1 DEF Members
  <2>2. ASSUME Members(t)
        PROVE  Members(s)
    <3>1. ASSUME NEW q \in Players, NEW k \in Piles
          PROVE  /\ Once(List(s, q, k))
                 /\ \A d \in Cards : Listed(List(s, q, k), d) <=> In(s, d, q, k)
      <4>0. /\ Once(List(t, q, k))
            /\ \A d \in Cards : Listed(List(t, q, k), d) <=> In(t, d, q, k)
        BY <2>2 DEF Members
      <4>1. CASE q = p /\ k = pile
        <5>1. List(s, q, k) = l /\ List(t, q, k) = r BY <4>1 DEF l, r
        <5> QED BY <1>3, <1>4, <1>5, <4>0, <4>1, <5>1
      <4>2. CASE q # p \/ k # pile BY <1>4, <1>5, <1>6, <4>0, <4>2
      <4> QED BY <4>1, <4>2
    <3> QED BY <3>1 DEF Members
  <2> QED BY <2>1, <2>2
<1>8. Occupied(s) <=> Occupied(t)
  <2>1. \A q \in Players, z \in Zones, d \in Cards : At(s, d, q, z) <=> At(t, d, q, z)
    BY DEF Joined, At, In, Nowhere, Zones, OnField, Undisturbed, SameSpot, Piles
  <2>2. \A q \in Players, z \in Zones : Zone(s, q, z) = Zone(t, q, z)
    BY DEF Joined, SameZones
  <2> QED BY <2>1, <2>2 DEF Occupied
<1>9. Somewhere(s) <=> Somewhere(t)
  BY DEF Joined, Somewhere, In, Nowhere, Undisturbed, SameSpot, Piles, OnField
<1>10. (InUse(s) <=> InUse(t)) /\ (Shared(s) <=> Shared(t))
  BY DEF Joined, InUse, Shared, SameZones, Players
<1> QED BY <1>7, <1>8, <1>9, <1>10

LEMMA SeatedMembers ==
  ASSUME NEW s \in FieldState, NEW t \in FieldState, NEW c \in Cards, NEW p \in Players,
         NEW z \in Zones, Seated(s, t, c, p, z)
  PROVE  /\ Members(s) <=> Members(t)
         /\ Occupied(s) <=> Occupied(t)
         /\ Somewhere(s) <=> Somewhere(t)
         /\ InUse(s) <=> InUse(t)
         /\ FaceupEnd(s) /\ Members(s) => FaceupEnd(t)
         /\ FaceupEnd(t) /\ Members(t) => FaceupEnd(s)
<1>1. z[1] \in OnField /\ z[1] \notin Piles /\ z[1] # "NONE"
      /\ \A y \in Zones : y = <<y[1], y[2]>> /\ y[1] \in OnField /\ y[1] \notin Piles
                          /\ y[1] # "NONE"
  BY DEF Zones, OnField, Piles
<1>2. \A d \in Cards, q \in Players, k \in Piles : In(t, d, q, k) <=> In(s, d, q, k)
  BY <1>1 DEF Seated, At, In, Nowhere, Undisturbed, SameSpot, Piles
<1>3. \A q \in Players, k \in Piles : List(t, q, k) = List(s, q, k)
  BY DEF Seated, SameLists
<1>4. Members(s) <=> Members(t) BY <1>2, <1>3 DEF Members
<1>5. \A d \in Cards \ {c}, q \in Players, y \in Zones : At(t, d, q, y) <=> At(s, d, q, y)
  BY <1>1 DEF Seated, At, In, Undisturbed, SameSpot
<1>6. \A q \in Players, y \in Zones : ~At(s, c, q, y) /\ (At(t, c, q, y) <=> q = p /\ y = z)
  BY <1>1 DEF Seated, At, In, Nowhere
<1>7. \A q \in Players, y \in Zones :
        IF q = p /\ y = z THEN Zone(s, q, y) = NoCard /\ Zone(t, q, y) = c
        ELSE Zone(t, q, y) = Zone(s, q, y)
  BY DEF Seated
<1>8. NoCard \notin Cards BY ConstantsAssumption
<1>9. Occupied(s) <=> Occupied(t)
  <2>1. \A d \in Cards, q \in Players, y \in Zones :
           (Zone(s, q, y) = d <=> At(s, d, q, y)) <=> (Zone(t, q, y) = d <=> At(t, d, q, y))
    BY <1>5, <1>6, <1>7, <1>8
  <2> QED BY <2>1 DEF Occupied
<1>10. Somewhere(s) <=> Somewhere(t)
  BY <1>1 DEF Seated, Somewhere, At, In, Nowhere, Undisturbed, SameSpot, OnField
<1>11. InUse(s) <=> InUse(t)
  <2>1. \A q \in Players, y \in Zones :
           (y \in Used(s, q) <=> Zone(s, q, y) # NoCard)
             <=> (y \in Used(t, q) <=> Zone(t, q, y) # NoCard)
    <3>1. c # NoCard BY <1>8
    <3> QED BY <1>7, <3>1 DEF Seated
  <2> QED BY <2>1 DEF InUse
<1>12. ASSUME Members(s)
       PROVE  FaceupEnd(s) <=> FaceupEnd(t)
  <2>1. \A q \in Players : \A i \in DOMAIN List(s, q, "EXTRA") :
          List(s, q, "EXTRA")[i] \in Cards /\ In(s, List(s, q, "EXTRA")[i], q, "EXTRA")
    <3>1. \A q \in Players : List(s, q, "EXTRA") \in Seq(Cards) BY FieldType DEF Piles
    <3> QED BY <1>12, <3>1 DEF Members, Listed, Piles
  <2>2. \A q \in Players : \A i \in DOMAIN List(s, q, "EXTRA") :
          List(s, q, "EXTRA")[i] \in Faceup(s) <=> List(s, q, "EXTRA")[i] \in Faceup(t)
    BY <2>1 DEF Seated, SameFaces, Nowhere, In, Faceup, Counts
  <2>3. \A q \in Players :
          /\ List(t, q, "EXTRA") = List(s, q, "EXTRA")
          /\ Count(t, q) = Count(s, q) /\ Buried(t, q) = Buried(s, q)
    BY <1>3 DEF Seated, SameLists, Piles
  <2>4. \A q \in Players : \A b, n : EndsIn(b, List(s, q, "EXTRA"), n, Faceup(s)) <=>
                                 EndsIn(b, List(s, q, "EXTRA"), n, Faceup(t))
    BY <2>2, SameEnds
  <2> QED BY <2>3, <2>4 DEF FaceupEnd
<1> QED BY <1>4, <1>9, <1>10, <1>11, <1>12

(* A card of the extra deck is counted when it is a face-up Pendulum card. *)
Counted(t, c, pile) == IF pile = "EXTRA" /\ c \in Faceup(t) THEN 1 ELSE 0
Recounted(s, t, c, p, pile) ==
  /\ Count(t, p) = Count(s, p) + Counted(t, c, pile)
  /\ \A q \in Players :
       Buried(t, q) = Buried(s, q) /\ (q # p => Count(t, q) = Count(s, q))

LEMMA JoinedFaceup ==
  ASSUME NEW s \in FieldState, NEW t \in FieldState, NEW c \in Cards, NEW p \in Players,
         NEW pile \in Piles, Joined(s, t, c, p, pile), Recounted(s, t, c, p, pile),
         Members(s)
  PROVE  /\ FaceupEnd(t) => FaceupEnd(s)
         /\ /\ FaceupEnd(s)
            /\ pile = "EXTRA" =>
                 Inserted(List(t, p, pile), List(s, p, pile),
                          IF c \in Faceup(t) THEN Len(List(s, p, pile)) + 1
                          ELSE Len(List(s, p, pile)) - Count(s, p) + 1, c)
            => FaceupEnd(t)
<1>1. \A q \in Players :
        /\ List(s, q, "EXTRA") \in Seq(Cards) /\ List(t, q, "EXTRA") \in Seq(Cards)
        /\ Count(s, q) \in Nat /\ Count(t, q) \in Nat
        /\ Buried(t, q) = Buried(s, q) /\ ~Listed(List(s, q, "EXTRA"), c)
  BY FieldType DEF Recounted, Members, Joined, Nowhere, In, Piles
<1>2. ASSUME NEW q \in Players, NEW n
      PROVE  \A b : EndsIn(b, List(s, q, "EXTRA"), n, Faceup(s)) <=>
                  EndsIn(b, List(s, q, "EXTRA"), n, Faceup(t))
  <2>1. ASSUME NEW i \in DOMAIN List(s, q, "EXTRA")
        PROVE  List(s, q, "EXTRA")[i] \in Faceup(s) <=> List(s, q, "EXTRA")[i] \in Faceup(t)
    <3>1. List(s, q, "EXTRA")[i] \in Cards BY <1>1
    <3>2. In(s, List(s, q, "EXTRA")[i], q, "EXTRA") BY <3>1 DEF Members, Listed, Piles
    <3>3. List(s, q, "EXTRA")[i] # c BY <3>2 DEF Joined, Nowhere, In
    <3> QED BY <3>1, <3>3 DEF Joined, SameFaces, Faceup, Counts
  <2> QED BY <2>1, SameEnds
<1>3. ASSUME NEW q \in Players, q # p \/ pile # "EXTRA"
      PROVE  List(t, q, "EXTRA") = List(s, q, "EXTRA") /\ Count(t, q) = Count(s, q)
  BY <1>1, <1>3 DEF Joined, Recounted, Counted, Piles
<1>4. ASSUME FaceupEnd(t)
      PROVE  FaceupEnd(s)
  <2> SUFFICES ASSUME NEW q \in Players
               PROVE  EndsIn(Buried(s, q), List(s, q, "EXTRA"), Count(s, q), Faceup(t))
    BY <1>2 DEF FaceupEnd
  <2>1. EndsIn(Buried(t, q), List(t, q, "EXTRA"), Count(t, q), Faceup(t))
    BY <1>4 DEF FaceupEnd
  <2>2. CASE q # p \/ pile # "EXTRA" BY <1>1, <1>3, <2>1, <2>2
  <2>3. CASE q = p /\ pile = "EXTRA"
    <3>1. PICK i : Inserted(List(t, q, "EXTRA"), List(s, q, "EXTRA"), i, c)
      BY <2>3 DEF Joined
    <3>2. CASE c \in Faceup(t)
      <4>1. EndsIn(Buried(t, q), List(s, q, "EXTRA"), Count(t, q) - 1, Faceup(t))
        BY <1>1, <2>1, <3>1, <3>2, InsertedEnds
      <4>2. Count(t, q) - 1 = Count(s, q) BY <1>1, <2>3, <3>2 DEF Recounted, Counted
      <4> QED BY <1>1, <4>1, <4>2
    <3>3. CASE c \notin Faceup(t)
      <4>1. EndsIn(Buried(t, q), List(s, q, "EXTRA"), Count(t, q), Faceup(t))
        BY <1>1, <2>1, <3>1, <3>3, InsertedEnds
      <4>2. Count(t, q) = Count(s, q) BY <1>1, <2>3, <3>3 DEF Recounted, Counted
      <4> QED BY <1>1, <4>1, <4>2
    <3> QED BY <3>2, <3>3
  <2> QED BY <2>2, <2>3
<1>5. ASSUME FaceupEnd(s),
             pile = "EXTRA" =>
               Inserted(List(t, p, pile), List(s, p, pile),
                        IF c \in Faceup(t) THEN Len(List(s, p, pile)) + 1
                        ELSE Len(List(s, p, pile)) - Count(s, p) + 1, c)
      PROVE  FaceupEnd(t)
  <2> SUFFICES ASSUME NEW q \in Players
               PROVE  EndsIn(Buried(t, q), List(t, q, "EXTRA"), Count(t, q), Faceup(t))
    BY DEF FaceupEnd
  <2>1. EndsIn(Buried(s, q), List(s, q, "EXTRA"), Count(s, q), Faceup(t))
    BY <1>2, <1>5 DEF FaceupEnd
  <2>2. CASE q # p \/ pile # "EXTRA" BY <1>1, <1>3, <2>1, <2>2
  <2>3. CASE q = p /\ pile = "EXTRA"
    <3>2. CASE c \in Faceup(t)
      <4>1. Inserted(List(t, q, "EXTRA"), List(s, q, "EXTRA"), Len(List(s, q, "EXTRA")) + 1, c)
        BY <1>5, <2>3, <3>2
      <4>2. EndsIn(Buried(s, q), List(t, q, "EXTRA"), Count(s, q) + 1, Faceup(t))
        BY <1>1, <2>1, <3>2, <4>1, InsertedEnds
      <4>3. Count(t, q) = Count(s, q) + 1 BY <1>1, <2>3, <3>2 DEF Recounted, Counted
      <4> QED BY <1>1, <4>2, <4>3
    <3>3. CASE c \notin Faceup(t)
      <4>1. Inserted(List(t, q, "EXTRA"), List(s, q, "EXTRA"),
                     Len(List(s, q, "EXTRA")) - Count(s, q) + 1, c)
        BY <1>5, <2>3, <3>3
      <4>2. EndsIn(Buried(s, q), List(t, q, "EXTRA"), Count(s, q), Faceup(t))
        BY <1>1, <2>1, <3>3, <4>1, InsertedEnds
      <4>3. Count(t, q) = Count(s, q) BY <1>1, <2>3, <3>3 DEF Recounted, Counted
      <4> QED BY <1>1, <4>2, <4>3
    <3> QED BY <3>2, <3>3
  <2> QED BY <2>2, <2>3
<1> QED BY <1>4, <1>5

(* Other cards move to no other place and remain where the piles admit them. *)
LEMMA UndisturbedAdmitted ==
  ASSUME NEW s, NEW t, NEW C \in SUBSET Cards, Admitted(s), Undisturbed(s, t, C),
         \A c \in Cards \ C : t.current[c].location \in {"NONE"} \cup OnField
  PROVE  Admitted(t)
BY DEF Admitted, Undisturbed, SameSpot, OnField

AllIndexed(s) == \A p \in Players, pile \in Piles : Indexed(s, p, pile)

(* A card that leaves a pile. *)
LEMMA RemovedGood ==
  ASSUME NEW s \in FieldState, NEW t \in FieldState, NEW c \in Cards, NEW p \in Players,
         NEW pile \in Piles, Joined(t, s, c, p, pile), Recounted(t, s, c, p, pile),
         Good(s), AllIndexed(t)
  PROVE  Good(t)
<1>1. Members(t) /\ Occupied(t) /\ Somewhere(t) /\ InUse(t) /\ Shared(t)
  BY JoinedMembers DEF Good, Sound
<1>2. FaceupEnd(t) BY <1>1, JoinedFaceup DEF Good, Sound
<1>3. Admitted(t)
  <2>1. Undisturbed(s, t, Cards \ {c}) /\ \A d \in Cards \ (Cards \ {c}) : d = c
    BY DEF Joined, Undisturbed, SameSpot
  <2> QED BY <2>1, UndisturbedAdmitted DEF Good, Sound, Joined, Nowhere
<1> QED BY <1>1, <1>2, <1>3 DEF Good, Sound, AllIndexed

(* Where a card may be put. *)
MayEnter(c, pile) ==
  /\ pile \in {"DECK", "HAND"} => c \notin Extras
  /\ pile = "EXTRA" => c \in Extras \cup Pendulums

LEMMA RedirectedMayEnter ==
  ASSUME NEW c, NEW location, NEW faceup
  PROVE  MayEnter(c, Redirected(c, location, faceup))
BY DEF MayEnter, Redirected, Extras

(* A card that joins a pile. *)
LEMMA AddedGood ==
  ASSUME NEW s \in FieldState, NEW t \in FieldState, NEW c \in Cards, NEW p \in Players,
         NEW pile \in Piles, Joined(s, t, c, p, pile), Recounted(s, t, c, p, pile),
         pile = "EXTRA" =>
           Inserted(List(t, p, pile), List(s, p, pile),
                    IF c \in Faceup(t) THEN Len(List(s, p, pile)) + 1
                    ELSE Len(List(s, p, pile)) - Count(s, p) + 1, c),
         Good(s), AllIndexed(t), MayEnter(c, pile)
  PROVE  Good(t)
<1>1. Members(t) /\ Occupied(t) /\ Somewhere(t) /\ InUse(t) /\ Shared(t)
  BY JoinedMembers DEF Good, Sound
<1>2. FaceupEnd(t) BY <1>1, JoinedFaceup DEF Good, Sound
<1>3. Admitted(t)
  <2> SUFFICES ASSUME NEW d \in Cards
               PROVE  LET cur == t.current[d] IN
                      /\ cur.location \in {"DECK", "HAND"} => d \notin ExtraMonsters
                      /\ cur.location = "EXTRA" => d \in Extras \cup Pendulums
    BY DEF Admitted
  <2>1. CASE d = c BY <2>1 DEF Joined, In, MayEnter, Extras
  <2>2. CASE d # c BY <2>2 DEF Joined, Undisturbed, SameSpot, Good, Sound, Admitted
  <2> QED BY <2>1, <2>2
<1> QED BY <1>1, <1>2, <1>3 DEF Good, Sound, AllIndexed

(* A card that leaves a zone, and one that takes a zone. *)
LEMMA UnseatedGood ==
  ASSUME NEW s \in FieldState, NEW t \in FieldState, NEW c \in Cards, NEW p \in Players,
         NEW z \in Zones, Seated(t, s, c, p, z), Good(s), AllIndexed(t)
  PROVE  Good(t)
<1>1. Members(t) /\ Occupied(t) /\ Somewhere(t) /\ InUse(t) /\ FaceupEnd(t)
  BY SeatedMembers DEF Good, Sound
<1>2. Shared(t) BY DEF Seated, Good, Sound, Shared, Players
<1>3. Admitted(t)
  <2>1. Undisturbed(s, t, Cards \ {c}) /\ \A d \in Cards \ (Cards \ {c}) : d = c
    BY DEF Seated, Undisturbed, SameSpot
  <2> QED BY <2>1, UndisturbedAdmitted DEF Good, Sound, Seated, Nowhere
<1> QED BY <1>1, <1>2, <1>3 DEF Good, Sound, AllIndexed

LEMMA SeatedGood ==
  ASSUME NEW s \in FieldState, NEW t \in FieldState, NEW c \in Cards, NEW p \in Players,
         NEW z \in Zones, Seated(s, t, c, p, z), Good(s), AllIndexed(t),
         is_location_useable(s, p, z[1], z[2])
  PROVE  Good(t)
<1>0. z = <<z[1], z[2]>> /\ z[1] \in OnField BY DEF Zones, OnField
<1>1. Members(t) /\ Occupied(t) /\ Somewhere(t) /\ InUse(t) /\ FaceupEnd(t)
  BY SeatedMembers DEF Good, Sound
<1>2. Shared(t)
  <2> SUFFICES ASSUME NEW n \in {5, 6} \cap MZones, 11 - n \in MZones,
                      <<"MZONE", n>> \in Used(t, 0), <<"MZONE", 11 - n>> \in Used(t, 1)
               PROVE  FALSE
    BY DEF Shared
  <2>1. <<"MZONE", n>> \notin Used(s, 0) \/ <<"MZONE", 11 - n>> \notin Used(s, 1)
    BY DEF Good, Sound, Shared
  <2>2. Used(t, p) = Used(s, p) \cup {z} /\ Used(t, 1 - p) = Used(s, 1 - p)
    BY DEF Seated, Players
  <2>3. CASE p = 0
    <3>1. z = <<"MZONE", n>> BY <2>1, <2>2, <2>3
    <3> QED BY <1>0, <2>2, <2>3, <3>1 DEF is_location_useable, Used
  <2>4. CASE p = 1
    <3>1. z = <<"MZONE", 11 - n>> BY <2>1, <2>2, <2>4
    <3>2. 11 - (11 - n) = n /\ 11 - n >= 5 OBVIOUS
    <3> QED BY <1>0, <2>2, <2>4, <3>1, <3>2 DEF is_location_useable, Used
  <2> QED BY <2>3, <2>4 DEF Players
<1>3. Admitted(t)
  <2>1. Undisturbed(s, t, Cards \ {c}) /\ \A d \in Cards \ (Cards \ {c}) : d = c
    BY DEF Seated
  <2> QED BY <1>0, <2>1, UndisturbedAdmitted DEF Good, Sound, Seated, At, In
<1> QED BY <1>1, <1>2, <1>3 DEF Good, Sound, AllIndexed

-----------------------------------------------------------------------------
(* remove_card. *)

(* A card is at the index that its sequence names. *)
LEMMA Found ==
  ASSUME NEW s \in FieldState, NEW c \in Cards, NEW p \in Players, NEW pile \in Piles,
         Members(s), Indexed(s, p, pile), In(s, c, p, pile)
  PROVE  \E i \in 1 .. Len(List(s, p, pile)) :
            List(s, p, pile)[i] = c /\ s.current[c].sequence = i - 1
<1>1. Listed(List(s, p, pile), c) BY DEF Members
<1>2. PICK i \in DOMAIN List(s, p, pile) : List(s, p, pile)[i] = c BY <1>1 DEF Listed
<1>3. DOMAIN List(s, p, pile) = 1 .. Len(List(s, p, pile)) BY FieldType
<1> QED BY <1>2, <1>3 DEF Indexed

(* The card is nowhere and no other was touched. *)
Removed(s, t, c) ==
  /\ Nowhere(t, c) /\ Undisturbed(s, t, Cards \ {c})
  /\ \A p \in Players : Used(t, p) \subseteq Used(s, p)

(* The cards of one list have their indices once it is numbered again, when
   those of the others had them before. *)
LEMMA Renumbered ==
  ASSUME NEW s \in FieldState, NEW t \in FieldState, Members(s), SameLists(s, t),
         NEW p \in Players, NEW pile \in Piles,
         \A q \in Players, k \in Piles : q # p \/ k # pile => Indexed(s, q, k),
         \A i \in DOMAIN List(s, p, pile) : t.current[List(s, p, pile)[i]].sequence = i - 1,
         \A d \in Cards : ~Listed(List(s, p, pile), d) =>
           t.current[d].sequence = s.current[d].sequence
  PROVE  AllIndexed(t)
<1> SUFFICES ASSUME NEW q \in Players, NEW k \in Piles
             PROVE  Indexed(t, q, k)
  BY DEF AllIndexed
<1>1. List(t, q, k) = List(s, q, k) /\ List(s, q, k) \in Seq(Cards)
  BY FieldType DEF SameLists
<1>2. CASE q = p /\ k = pile BY <1>1, <1>2 DEF Indexed
<1>3. CASE q # p \/ k # pile
  <2> SUFFICES ASSUME NEW i \in DOMAIN List(s, q, k)
               PROVE  t.current[List(s, q, k)[i]].sequence = i - 1
    BY <1>1 DEF Indexed
  <2>1. List(s, q, k)[i] \in Cards /\ Listed(List(s, q, k), List(s, q, k)[i])
    BY <1>1 DEF Listed
  <2>2. ~Listed(List(s, p, pile), List(s, q, k)[i]) BY <1>3, <2>1 DEF Members, In
  <2>3. s.current[List(s, q, k)[i]].sequence = i - 1 BY <1>3 DEF Indexed
  <2> QED BY <2>1, <2>2, <2>3
<1> QED BY <1>2, <1>3

(* The part of remove_card that takes a card out of a pile. *)
LEMMA RemoveFromPile ==
  ASSUME NEW s \in FieldState, Good(s), NEW c \in Cards, s.current[c].location \in Piles
  PROVE  Good(remove_card(s, c)) /\ Removed(s, remove_card(s, c), c)
<1> DEFINE cur == s.current[c]
           p == cur.controler
           pile == cur.location
           l == List(s, p, pile)
           r == Erase(l, cur.sequence)
           u == SetList(s, p, pile, r)
           t == reset_sequence(u, p, pile)
           less == pile = "EXTRA" /\ c \in Pendulums /\ cur.faceup
           v == IF less THEN [t EXCEPT !.player[p].extra_p_count = @ - 1] ELSE t
           w == Leaves(v, c)
<1>1. p \in Players /\ pile \in Piles /\ In(s, c, p, pile) /\ cur \in CardState
  BY FieldType DEF Good, Sound, Somewhere, In, Piles, Players
<1>2. remove_card(s, c) = w BY <1>1 DEF remove_card, Piles, OnField
<1>3. l \in Seq(Cards) /\ Members(s) BY <1>1, FieldType DEF Good, Sound
<1>4. PICK i \in 1 .. Len(l) : l[i] = c /\ cur.sequence = i - 1
  BY <1>1, Found DEF Good, Sound
<1>5. r \in Seq(Cards) /\ Inserted(l, r, i, c) BY <1>3, <1>4, EraseInserted
<1>6. /\ \A d : Listed(l, d) <=> d = c \/ Listed(r, d)
      /\ Once(r) /\ ~Listed(r, c)
  BY <1>1, <1>3, <1>5, InsertedMembers DEF Members
<1> HIDE DEF r, l, cur, p, pile, less, u
<1>7. /\ u \in FieldState /\ u.current = s.current /\ SameZones(s, u)
      /\ \A q \in Players :
           /\ \A k \in Piles : List(u, q, k) = IF q = p /\ k = pile THEN r ELSE List(s, q, k)
           /\ Count(u, q) = Count(s, q) /\ Buried(u, q) = Buried(s, q)
  BY <1>1, <1>5, SetListState DEF u
<1>8. List(u, p, pile) = r BY <1>1, <1>7
<1>9. /\ t \in FieldState /\ SameLists(u, t) /\ SameZones(u, t)
      /\ \A d \in Cards :
           /\ t.current[d].controler = s.current[d].controler
           /\ t.current[d].location = s.current[d].location
           /\ t.current[d].faceup = s.current[d].faceup
           /\ ~Listed(r, d) => t.current[d] = s.current[d]
      /\ \A j \in DOMAIN r : t.current[r[j]].sequence = j - 1
  BY <1>1, <1>6, <1>7, <1>8, ResetState
<1> HIDE DEF t
<1>10. less => Count(s, p) > 0 /\ Count(t, p) = Count(s, p) /\ Count(s, p) - 1 \in Nat
  <2> SUFFICES ASSUME less
               PROVE  Count(s, p) > 0 /\ Count(t, p) = Count(s, p) /\ Count(s, p) - 1 \in Nat
    OBVIOUS
  <2>1. l = List(s, p, "EXTRA") /\ c \in Faceup(s) BY <1>1 DEF less, l, Faceup, Counts, cur
  <2>2. EndsIn(Buried(s, p), l, Count(s, p), Faceup(s)) /\ Count(s, p) \in Nat
    BY <1>1, <2>1, FieldType DEF Good, Sound, FaceupEnd
  <2>3. Count(s, p) > 0 BY <1>3, <1>5, <1>6, <2>1, <2>2, InsertedEnds
  <2> QED BY <1>1, <1>7, <1>9, <2>2, <2>3 DEF SameLists
<1>11. /\ v \in FieldState /\ v.current = t.current /\ SameZones(s, v)
       /\ \A q \in Players :
           /\ \A k \in Piles : List(v, q, k) = IF q = p /\ k = pile THEN r ELSE List(s, q, k)
           /\ Count(v, q) = IF q = p /\ less THEN Count(s, p) - 1 ELSE Count(s, q)
           /\ Buried(v, q) = Buried(s, q)
  <2>1. SameZones(s, t) BY <1>7, <1>9 DEF SameZones
  <2>2. \A q \in Players :
           /\ \A k \in Piles : List(t, q, k) = IF q = p /\ k = pile THEN r ELSE List(s, q, k)
           /\ Count(t, q) = Count(s, q) /\ Buried(t, q) = Buried(s, q)
    BY <1>7, <1>9 DEF SameLists
  <2>3. CASE less
    <3>2. PICK n \in Nat : n = Count(s, p) - 1 BY <1>10, <2>3
    <3> DEFINE v1 == SetCount(t, p, n)
    <3>1. v = v1 BY <1>10, <2>3, <3>2 DEF Count, Buried, SetCount
    <3>3. /\ v1 \in FieldState /\ v1.current = t.current /\ SameZones(t, v1)
          /\ Count(v1, p) = n
          /\ \A q \in Players :
              /\ \A k \in Piles : List(v1, q, k) = List(t, q, k)
              /\ Buried(v1, q) = Buried(t, q)
              /\ q # p => Count(v1, q) = Count(t, q)
      BY SMTT(20), <1>1, <1>9, CountState
    <3> HIDE DEF v1
    <3>4. SameZones(s, v1) BY <2>1, <3>3 DEF SameZones
    <3>5. \A q \in Players :
           /\ \A k \in Piles : List(v1, q, k) = IF q = p /\ k = pile THEN r ELSE List(s, q, k)
           /\ Count(v1, q) = IF q = p /\ less THEN n ELSE Count(s, q)
           /\ Buried(v1, q) = Buried(s, q)
      BY <2>2, <2>3, <3>3
    <3> QED BY <3>1, <3>2, <3>3, <3>4, <3>5
  <2>4. CASE ~less BY <1>9, <2>1, <2>2, <2>4
  <2> QED BY <2>3, <2>4
<1> HIDE DEF v
<1>12. /\ w \in FieldState /\ SameLists(v, w) /\ SameZones(v, w) /\ Elsewhere(v, w, c)
       /\ w.current[c].location = "NONE"
  BY <1>11, LeavesState
<1> HIDE DEF w
<1>13. Joined(w, s, c, p, pile)
  <2>1. Nowhere(w, c) /\ In(s, c, p, pile) BY <1>1, <1>12 DEF Nowhere
  <2>2. /\ List(w, p, pile) = r /\ List(s, p, pile) = l
        /\ \A q \in Players, k \in Piles : q # p \/ k # pile => List(s, q, k) = List(w, q, k)
    BY <1>1, <1>11, <1>12 DEF SameLists, l
  <2>3. SameZones(w, s) BY <1>11, <1>12 DEF SameZones
  <2>4. Undisturbed(w, s, Cards \ {c}) /\ SameFaces(w, s, Cards \ {c})
    <3> SUFFICES ASSUME NEW d \in Cards \ {c}
                 PROVE  SameSpot(w, s, d) /\ s.current[d].faceup = w.current[d].faceup
      BY DEF Undisturbed, SameFaces
    <3>1. w.current[d] = t.current[d] BY <1>11, <1>12 DEF Elsewhere
    <3>2. s.current[d].location \in OnField => ~Listed(r, d)
      BY <1>1, <1>3, <1>6 DEF Members, In, Piles, OnField, l
    <3> QED BY <1>9, <3>1, <3>2 DEF SameSpot
  <2> QED BY <1>5, <2>1, <2>2, <2>3, <2>4 DEF Joined
<1>14. Recounted(w, s, c, p, pile)
  <2>1. \A q \in Players :
          /\ Count(w, q) = IF q = p /\ less THEN Count(s, p) - 1 ELSE Count(s, q)
          /\ Buried(w, q) = Buried(s, q)
    BY <1>11, <1>12 DEF SameLists
  <2>2. less <=> pile = "EXTRA" /\ c \in Faceup(s) BY DEF less, Faceup, Counts, cur
  <2>3. Count(s, p) \in Nat BY <1>1, FieldType
  <2> QED BY <1>1, <2>1, <2>2, <2>3 DEF Recounted, Counted
<1>15. AllIndexed(w)
  <2> SUFFICES ASSUME NEW q \in Players, NEW k \in Piles
               PROVE  Indexed(w, q, k)
    BY DEF AllIndexed
  <2>1. CASE q = p /\ k = pile
    <3>1. List(w, q, k) = r BY <1>11, <1>12, <2>1 DEF SameLists
    <3>2. \A j \in DOMAIN r : w.current[r[j]].sequence = j - 1
      <4> TAKE j \in DOMAIN r
      <4>1. r[j] \in Cards \ {c} BY <1>5, <1>6 DEF Listed
      <4> QED BY <1>9, <1>11, <1>12, <4>1 DEF Elsewhere
    <3> QED BY <3>1, <3>2 DEF Indexed
  <2>2. CASE q # p \/ k # pile
    <3>1. List(w, q, k) = List(s, q, k) /\ List(s, q, k) \in Seq(Cards)
      BY <1>11, <1>12, <2>2, FieldType DEF SameLists
    <3> SUFFICES ASSUME NEW j \in DOMAIN List(s, q, k)
                 PROVE  w.current[List(s, q, k)[j]].sequence = j - 1
      BY <3>1 DEF Indexed
    <3> DEFINE d == List(s, q, k)[j]
    <3>2. d \in Cards /\ Listed(List(s, q, k), d) BY <3>1 DEF Listed
    <3>3. In(s, d, q, k) BY <1>3, <3>2 DEF Members
    <3>4. ~In(s, d, p, pile) BY <2>2, <3>3 DEF In
    <3>5. d # c /\ ~Listed(r, d) BY <1>1, <1>3, <1>6, <3>2, <3>4 DEF Members, l
    <3>6. w.current[d] = s.current[d] BY <1>9, <1>11, <1>12, <3>2, <3>5 DEF Elsewhere
    <3>7. s.current[d].sequence = j - 1 BY DEF Good, Indexed
    <3> QED BY <3>6, <3>7
  <2> QED BY <2>1, <2>2
<1>16. Good(w) BY <1>1, <1>12, <1>13, <1>14, <1>15, RemovedGood
<1>17. Removed(s, w, c)
  <2>1. Undisturbed(s, w, Cards \ {c}) BY <1>13 DEF Joined, Undisturbed, SameSpot
  <2> QED BY <1>13, <2>1 DEF Removed, Joined, SameZones
<1> QED BY <1>2, <1>16, <1>17

(* The part of remove_card that empties a zone. *)
LEMMA RemoveFromZone ==
  ASSUME NEW s \in FieldState, Good(s), NEW c \in Cards, s.current[c].location \in OnField
  PROVE  LET t == remove_card(s, c)
             cur == s.current[c]
         IN /\ Good(t) /\ Removed(s, t, c)
            /\ cur.controler \in Players /\ <<cur.location, cur.sequence>> \in Zones
            /\ Seated(t, s, c, cur.controler, <<cur.location, cur.sequence>>)
<1> DEFINE cur == s.current[c]
           p == cur.controler
           z == <<cur.location, cur.sequence>>
           U == s.player[p].used_location \ {z}
           v == SetZone(s, p, z, NoCard, U)
           w == Leaves(v, c)
<1>1. p \in Players /\ z \in Zones /\ At(s, c, p, z) /\ cur \in CardState
  BY FieldType DEF Good, Sound, Somewhere, In, At, OnField, Players
<1>2. remove_card(s, c) = w BY <1>1 DEF remove_card, SetZone, Piles, OnField
<1>3. U \in SUBSET Zones /\ U = Used(s, p) \ {z} BY <1>1, FieldType DEF Used
<1> HIDE DEF cur, p, z, U
<1>4. /\ v \in FieldState /\ v.current = s.current /\ SameLists(s, v)
      /\ \A q \in Players :
           /\ \A y \in Zones : Zone(v, q, y) = IF q = p /\ y = z THEN NoCard ELSE Zone(s, q, y)
           /\ Used(v, q) = IF q = p THEN U ELSE Used(s, q)
  <2>1. NoCard \in Cards \cup {NoCard} OBVIOUS
  <2> QED BY <1>1, <1>3, <2>1, ZoneState
<1> HIDE DEF v
<1>5. /\ w \in FieldState /\ SameLists(v, w) /\ SameZones(v, w) /\ Elsewhere(v, w, c)
      /\ w.current[c].location = "NONE"
  BY <1>4, LeavesState
<1> HIDE DEF w
<1>6. Zone(s, p, z) = c /\ z \in Used(s, p)
  BY <1>1, ConstantsAssumption DEF Good, Sound, Occupied, InUse
<1>7. Seated(w, s, c, p, z)
  <2>1. \A q \in Players : /\ \A y \in Zones : Zone(w, q, y) = Zone(v, q, y)
                           /\ Used(w, q) = Used(v, q)
    BY <1>5 DEF SameZones
  <2>2. SameLists(w, s) BY <1>4, <1>5 DEF SameLists
  <2>3. Undisturbed(w, s, Cards \ {c}) /\ SameFaces(w, s, Cards \ {c})
    BY <1>4, <1>5 DEF Elsewhere, Undisturbed, SameSpot, SameFaces
  <2>4. Used(s, p) = Used(w, p) \cup {z} /\ z \notin Used(w, p)
    BY <1>1, <1>3, <1>4, <1>6, <2>1
  <2> QED BY <1>1, <1>4, <1>5, <1>6, <2>1, <2>2, <2>3, <2>4 DEF Seated, Nowhere
<1>8. AllIndexed(w)
  <2> SUFFICES ASSUME NEW q \in Players, NEW k \in Piles, NEW i \in DOMAIN List(s, q, k)
               PROVE  w.current[List(s, q, k)[i]].sequence = i - 1
    BY <1>4, <1>5 DEF AllIndexed, Indexed, SameLists
  <2>1. List(s, q, k)[i] \in Cards BY FieldType
  <2>2. In(s, List(s, q, k)[i], q, k) BY <2>1 DEF Good, Sound, Members, Listed
  <2>3. List(s, q, k)[i] # c BY <2>2 DEF In, Piles, OnField
  <2> QED BY <1>4, <1>5, <2>1, <2>3 DEF Elsewhere, Good, Indexed
<1>9. Good(w) BY <1>1, <1>5, <1>7, <1>8, UnseatedGood
<1>10. Removed(s, w, c)
  <2>1. Undisturbed(s, w, Cards \ {c}) BY <1>7 DEF Seated, Undisturbed, SameSpot
  <2> QED BY <1>7, <2>1 DEF Removed, Seated
<1> QED BY <1>1, <1>2, <1>7, <1>9, <1>10 DEF cur, p, z

LEMMA RemoveGood ==
  ASSUME NEW s \in FieldState, Good(s), NEW c \in Cards
  PROVE  Good(remove_card(s, c)) /\ Removed(s, remove_card(s, c), c)
<1>1. s.current[c].location \in Piles \cup OnField \cup {"NONE"}
  BY FieldType DEF CardState, Players
<1>2. CASE s.current[c].location = "NONE"
  <2>1. remove_card(s, c) = s BY <1>2 DEF remove_card, OnField
  <2>2. Removed(s, s, c) BY <1>2 DEF Removed, Nowhere, Undisturbed, SameSpot
  <2> QED BY <2>1, <2>2
<1> QED BY <1>1, <1>2, RemoveFromPile, RemoveFromZone

(* Draw and DiscardDeck: the last card of the deck leaves. *)
LEMMA TopGood ==
  ASSUME NEW s \in FieldState, Good(s), NEW p \in Players, List(s, p, "DECK") # <<>>
  PROVE  LET l == List(s, p, "DECK")
             c == Last(l)
             t == Leaves(SetList(s, p, "DECK", Front(l)), c)
         IN c \in Cards /\ In(s, c, p, "DECK") /\ Good(t) /\ Removed(s, t, c)
<1> DEFINE l == List(s, p, "DECK")
           r == Front(l)
           c == Last(l)
           u == SetList(s, p, "DECK", r)
           w == Leaves(u, c)
<1>1. l \in Seq(Cards) /\ Members(s) /\ "DECK" \in Piles /\ DOMAIN l = 1 .. Len(l)
  BY FieldType DEF Good, Sound, Piles
<1>2. /\ r \in Seq(Cards) /\ Len(l) \in Nat \ {0} /\ Inserted(l, r, Len(l), c) /\ c \in Cards
  BY <1>1, FrontInserted
<1>3. /\ \A d : Listed(l, d) <=> d = c \/ Listed(r, d)
      /\ Once(r) /\ ~Listed(r, c)
  BY <1>1, <1>2, InsertedMembers DEF Members
<1>4. In(s, c, p, "DECK") BY <1>1, <1>2, <1>3 DEF Members
<1> HIDE DEF r, c
<1>5. /\ u \in FieldState /\ u.current = s.current /\ SameZones(s, u)
      /\ \A q \in Players :
           /\ \A k \in Piles : List(u, q, k) = IF q = p /\ k = "DECK" THEN r ELSE List(s, q, k)
           /\ Count(u, q) = Count(s, q) /\ Buried(u, q) = Buried(s, q)
  BY <1>1, <1>2, SetListState
<1> HIDE DEF u, l
<1>6. /\ w \in FieldState /\ SameLists(u, w) /\ SameZones(u, w) /\ Elsewhere(u, w, c)
      /\ w.current[c].location = "NONE"
  BY <1>2, <1>5, LeavesState
<1> HIDE DEF w
<1>7. /\ \A q \in Players, k \in Piles :
           List(w, q, k) = IF q = p /\ k = "DECK" THEN r ELSE List(s, q, k)
      /\ \A q \in Players : Count(w, q) = Count(s, q) /\ Buried(w, q) = Buried(s, q) /\ Count(s, q) \in Nat
  BY <1>5, <1>6, FieldType DEF SameLists
<1>8. List(s, p, "DECK") = l BY DEF l
<1>9. Joined(w, s, c, p, "DECK")
  <2>1. SameZones(w, s) BY <1>5, <1>6 DEF SameZones
  <2>2. Undisturbed(w, s, Cards \ {c}) /\ SameFaces(w, s, Cards \ {c})
    BY <1>5, <1>6 DEF Elsewhere, Undisturbed, SameSpot, SameFaces
  <2>3. \E i : Inserted(List(s, p, "DECK"), List(w, p, "DECK"), i, c)
    BY <1>1, <1>2, <1>7, <1>8
  <2> QED BY <1>4, <1>6, <1>7, <2>1, <2>2, <2>3 DEF Joined, Nowhere
<1>10. Recounted(w, s, c, p, "DECK") BY <1>7 DEF Recounted, Counted
<1>11. AllIndexed(w)
  <2> SUFFICES ASSUME NEW q \in Players, NEW k \in Piles, NEW i \in DOMAIN List(w, q, k)
               PROVE  w.current[List(w, q, k)[i]].sequence = i - 1
    BY DEF AllIndexed, Indexed
  <2>0. List(w, q, k) \in Seq(Cards) BY <1>6, FieldType
  <2>1. List(w, q, k)[i] \in Cards /\ Listed(List(w, q, k), List(w, q, k)[i])
    BY <2>0 DEF Listed
  <2>2. i \in DOMAIN List(s, q, k) /\ List(s, q, k)[i] = List(w, q, k)[i]
    <3>1. CASE q = p /\ k = "DECK"
      <4>1. Len(l) = Len(r) + 1 /\ DOMAIN r = 1 .. Len(r) /\ Len(r) \in Nat
        BY <1>2, LenProperties DEF Inserted
      <4>2. List(w, q, k) = r /\ i \in 1 .. Len(r) BY <1>7, <3>1, <4>1
      <4>3. i \in 1 .. Len(r) + 1 /\ i < Len(l) BY <4>1, <4>2
      <4>4. l[i] = r[i] BY <1>2, <4>1, <4>3 DEF Inserted
      <4> QED BY <1>1, <1>8, <3>1, <4>1, <4>2, <4>3, <4>4
    <3>2. CASE q # p \/ k # "DECK" BY <1>7, <3>2
    <3> QED BY <3>1, <3>2
  <2>3. List(w, q, k)[i] # c
    <3>0. Members(w) BY <1>1, <1>2, <1>6, <1>9, JoinedMembers
    <3>1. In(w, List(w, q, k)[i], q, k) BY <2>1, <3>0 DEF Members
    <3> QED BY <1>6, <3>1 DEF In, Piles
  <2> QED BY <1>5, <1>6, <2>1, <2>2, <2>3 DEF Elsewhere, Good, Indexed
<1>12. Good(w) BY <1>1, <1>2, <1>6, <1>9, <1>10, <1>11, RemovedGood
<1>13. Removed(s, w, c)
  <2>1. Undisturbed(s, w, Cards \ {c}) BY <1>9 DEF Joined, Undisturbed, SameSpot
  <2> QED BY <1>9, <2>1 DEF Removed, Joined, SameZones
<1> QED BY <1>2, <1>4, <1>12, <1>13 DEF w, u, c, r, l

-----------------------------------------------------------------------------
(* add_card. *)

(* A card was put in a pile and the pile is numbered again. *)
LEMMA JoinedReset ==
  ASSUME NEW s \in FieldState, NEW y \in FieldState, NEW c \in Cards, NEW p \in Players,
         NEW pile \in Piles, Joined(s, y, c, p, pile), Recounted(s, y, c, p, pile),
         Elsewhere(s, y, c), Members(s), AllIndexed(s)
  PROVE  LET t == reset_sequence(y, p, pile) IN
         /\ t \in FieldState /\ Joined(s, t, c, p, pile) /\ Recounted(s, t, c, p, pile)
         /\ AllIndexed(t) /\ List(t, p, pile) = List(y, p, pile)
         /\ (c \in Faceup(t) <=> c \in Faceup(y))
<1> DEFINE l == List(y, p, pile)
           t == reset_sequence(y, p, pile)
<1>1. Members(y) BY JoinedMembers
<1>2. Once(l) BY <1>1 DEF Members
<1>3. /\ t \in FieldState /\ SameLists(y, t) /\ SameZones(y, t)
      /\ \A d \in Cards :
           /\ t.current[d].controler = y.current[d].controler
           /\ t.current[d].location = y.current[d].location
           /\ t.current[d].faceup = y.current[d].faceup
           /\ ~Listed(l, d) => t.current[d] = y.current[d]
      /\ \A i \in DOMAIN l : t.current[l[i]].sequence = i - 1
  BY <1>2, ResetState
<1> HIDE DEF t
<1>4. \A d \in Cards : Listed(l, d) <=> In(y, d, p, pile) BY <1>1 DEF Members
<1>5. List(t, p, pile) = l BY <1>3 DEF SameLists
<1>6. Joined(s, t, c, p, pile)
  <2>1. In(t, c, p, pile) /\ Nowhere(s, c) BY <1>3 DEF Joined, In
  <2>2. /\ \E i : Inserted(List(t, p, pile), List(s, p, pile), i, c)
        /\ \A q \in Players, k \in Piles : q # p \/ k # pile => List(t, q, k) = List(s, q, k)
    BY <1>3, <1>5 DEF Joined, SameLists
  <2>3. SameZones(s, t) BY <1>3 DEF Joined, SameZones
  <2>4. SameFaces(s, t, Cards \ {c}) BY <1>3 DEF Joined, SameFaces
  <2>5. Undisturbed(s, t, Cards \ {c})
    <3> SUFFICES ASSUME NEW d \in Cards \ {c}
                 PROVE  SameSpot(s, t, d)
      BY DEF Undisturbed
    <3>1. t.current[d].location \in OnField => ~Listed(l, d)
      BY <1>3, <1>4 DEF In, OnField, Piles
    <3>2. SameSpot(s, y, d) BY DEF Joined, Undisturbed
    <3> QED BY <1>3, <3>1, <3>2 DEF SameSpot
  <2> QED BY <2>1, <2>2, <2>3, <2>4, <2>5 DEF Joined
<1>7. c \in Faceup(t) <=> c \in Faceup(y) BY <1>3 DEF Faceup, Counts
<1>8. Recounted(s, t, c, p, pile) BY <1>3, <1>7 DEF Recounted, Counted, SameLists
<1>9. AllIndexed(t)
  <2>1. ASSUME NEW q \in Players, NEW k \in Piles, q # p \/ k # pile
        PROVE  Indexed(y, q, k)
    <3>1. List(y, q, k) = List(s, q, k) /\ List(s, q, k) \in Seq(Cards)
      BY <2>1, FieldType DEF Joined
    <3>2. \A i \in DOMAIN List(s, q, k) : List(s, q, k)[i] \in Cards \ {c}
      <4> TAKE i \in DOMAIN List(s, q, k)
      <4>1. List(s, q, k)[i] \in Cards /\ Listed(List(s, q, k), List(s, q, k)[i])
        BY <3>1 DEF Listed
      <4> QED BY <4>1 DEF Members, Joined, Nowhere, In, Piles
    <3> QED BY <3>1, <3>2 DEF Elsewhere, AllIndexed, Indexed
  <2> QED BY <1>1, <1>3, <2>1, Renumbered
<1> QED BY <1>3, <1>5, <1>6, <1>7, <1>8, <1>9 DEF t

(* The card is at its new place and no other was touched. *)
Arrived(s, t, c, p, location, sequence) ==
  /\ In(t, c, p, location) /\ (location \in OnField => t.current[c].sequence = sequence)
  /\ Undisturbed(s, t, Cards \ {c})

LEMMA AddToZoneGood ==
  ASSUME NEW s \in FieldState, Good(s), NEW c \in Cards, Nowhere(s, c), NEW p \in Players,
         NEW location \in OnField, NEW sequence, <<location, sequence>> \in Zones,
         NEW faceup \in BOOLEAN, NEW pzone \in BOOLEAN,
         is_location_useable(s, p, location, sequence)
  PROVE  LET t == AddToZone(s, c, p, location, sequence, faceup, pzone) IN
         /\ Good(t) /\ Arrived(s, t, c, p, location, sequence)
         /\ Seated(s, t, c, p, <<location, sequence>>) /\ t.current[c].faceup = faceup
<1> DEFINE z == <<location, sequence>>
           U == s.player[p].used_location \cup {z}
           v == SetZone(s, p, z, c, U)
           t == Enters(v, c, p, location, sequence, faceup, pzone)
<1>1. AddToZone(s, c, p, location, sequence, faceup, pzone) = t
  BY DEF AddToZone, SetZone
<1>2. U \in SUBSET Zones /\ U = Used(s, p) \cup {z} /\ z \in Zones /\ sequence \in Nat
      /\ c \in Cards \cup {NoCard} /\ z[1] = location /\ z[2] = sequence
  <2>1. sequence \in MZones \cup SZones BY DEF Zones
  <2>2. sequence \in Nat BY <2>1, ConstantsAssumption
  <2>3. Used(s, p) \subseteq Zones BY FieldType
  <2> QED BY <2>2, <2>3 DEF Used
<1> HIDE DEF U, z
<1>3. /\ v \in FieldState /\ v.current = s.current /\ SameLists(s, v)
      /\ \A q \in Players :
           /\ \A y \in Zones : Zone(v, q, y) = IF q = p /\ y = z THEN c ELSE Zone(s, q, y)
           /\ Used(v, q) = IF q = p THEN U ELSE Used(s, q)
  BY <1>2, ZoneState
<1> HIDE DEF v
<1>4. /\ t \in FieldState /\ SameLists(v, t) /\ SameZones(v, t) /\ Elsewhere(v, t, c)
      /\ t.current[c].controler = p /\ t.current[c].location = location
      /\ t.current[c].sequence = sequence /\ t.current[c].faceup = faceup
  BY <1>2, <1>3, EntersState
<1> HIDE DEF t
<1>5. z \notin Used(s, p) /\ Zone(s, p, z) = NoCard
  <2>1. z \notin Used(s, p) BY DEF is_location_useable, Used, z
  <2> QED BY <1>2, <2>1 DEF Good, Sound, InUse
<1>6. Seated(s, t, c, p, z)
  <2>1. \A q \in Players : /\ \A y \in Zones : Zone(t, q, y) = Zone(v, q, y)
                           /\ Used(t, q) = Used(v, q)
    BY <1>4 DEF SameZones
  <2>2. SameLists(s, t) BY <1>3, <1>4 DEF SameLists
  <2>3. Undisturbed(s, t, Cards \ {c}) /\ SameFaces(s, t, Cards \ {c})
    BY <1>3, <1>4 DEF Elsewhere, Undisturbed, SameSpot, SameFaces
  <2>4. At(t, c, p, z) BY <1>2, <1>4 DEF At, In
  <2> QED BY <1>2, <1>3, <1>5, <2>1, <2>2, <2>3, <2>4 DEF Seated
<1>7. AllIndexed(t)
  <2> SUFFICES ASSUME NEW q \in Players, NEW k \in Piles, NEW i \in DOMAIN List(s, q, k)
               PROVE  t.current[List(s, q, k)[i]].sequence = i - 1
    BY <1>3, <1>4 DEF AllIndexed, Indexed, SameLists
  <2>1. List(s, q, k)[i] \in Cards BY FieldType
  <2>2. In(s, List(s, q, k)[i], q, k) BY <2>1 DEF Good, Sound, Members, Listed
  <2>3. List(s, q, k)[i] # c BY <2>2 DEF In, Nowhere, Piles
  <2> QED BY <1>3, <1>4, <2>1, <2>3 DEF Elsewhere, Good, Indexed
<1>8. Good(t) BY <1>2, <1>4, <1>6, <1>7, SeatedGood
<1>9. Arrived(s, t, c, p, location, sequence) BY <1>4, <1>6 DEF Arrived, In, Seated
<1> QED BY <1>1, <1>4, <1>6, <1>8, <1>9 DEF z

(* A list with the card in it, and the card told of its place. *)
LEMMA EnteredJoined ==
  ASSUME NEW s \in FieldState, NEW c \in Cards, Nowhere(s, c), NEW p \in Players,
         NEW pile \in Piles, NEW r \in Seq(Cards), NEW i, Inserted(r, List(s, p, pile), i, c),
         NEW sequence \in Nat, NEW faceup \in BOOLEAN, NEW pzone \in BOOLEAN
  PROVE  LET t == Enters(SetList(s, p, pile, r), c, p, pile, sequence, faceup, pzone) IN
         /\ t \in FieldState /\ Joined(s, t, c, p, pile) /\ Elsewhere(s, t, c)
         /\ List(t, p, pile) = r /\ (c \in Faceup(t) <=> c \in Pendulums /\ faceup)
         /\ \A q \in Players : Count(t, q) = Count(s, q) /\ Buried(t, q) = Buried(s, q)
         /\ t.current[c].sequence = sequence
<1> DEFINE u == SetList(s, p, pile, r)
           t == Enters(u, c, p, pile, sequence, faceup, pzone)
<1>1. /\ u \in FieldState /\ u.current = s.current /\ SameZones(s, u)
      /\ \A q \in Players :
           /\ \A k \in Piles : List(u, q, k) = IF q = p /\ k = pile THEN r ELSE List(s, q, k)
           /\ Count(u, q) = Count(s, q) /\ Buried(u, q) = Buried(s, q)
  BY SetListState
<1> HIDE DEF u
<1>2. /\ t \in FieldState /\ SameLists(u, t) /\ SameZones(u, t) /\ Elsewhere(u, t, c)
      /\ t.current[c].controler = p /\ t.current[c].location = pile
      /\ t.current[c].sequence = sequence /\ t.current[c].faceup = faceup
  BY <1>1, EntersState
<1> HIDE DEF t
<1>3. /\ \A q \in Players, k \in Piles :
           List(t, q, k) = IF q = p /\ k = pile THEN r ELSE List(s, q, k)
      /\ \A q \in Players : Count(t, q) = Count(s, q) /\ Buried(t, q) = Buried(s, q)
  BY <1>1, <1>2 DEF SameLists
<1>4. SameZones(s, t) BY <1>1, <1>2 DEF SameZones
<1>5. Elsewhere(s, t, c) BY <1>1, <1>2 DEF Elsewhere
<1>6. Undisturbed(s, t, Cards \ {c}) /\ SameFaces(s, t, Cards \ {c})
  BY <1>5 DEF Elsewhere, Undisturbed, SameSpot, SameFaces
<1>7. Joined(s, t, c, p, pile) BY <1>2, <1>3, <1>4, <1>6 DEF Joined, In
<1>8. c \in Faceup(t) <=> c \in Pendulums /\ faceup BY <1>2 DEF Faceup, Counts
<1> QED BY <1>2, <1>3, <1>5, <1>7, <1>8 DEF t, u

LEMMA AddToExtraGood ==
  ASSUME NEW s \in FieldState, Good(s), NEW c \in Cards, Nowhere(s, c), NEW p \in Players,
         MayEnter(c, "EXTRA"), NEW faceup \in BOOLEAN, NEW pzone \in BOOLEAN,
         NEW sequence
  PROVE  LET t == AddToExtra(s, c, p, faceup, pzone) IN
         Good(t) /\ Arrived(s, t, c, p, "EXTRA", sequence)
<1> DEFINE counted == c \in Pendulums /\ faceup
           l == List(s, p, "EXTRA")
           r == IF counted THEN Append(l, c) ELSE BeforeFaceup(s, p, <<c>>)
           t == Enters(SetList(s, p, "EXTRA", r), c, p, "EXTRA", 0, faceup, pzone)
           n == Count(s, p) + (IF counted THEN 1 ELSE 0)
           v == SetCount(t, p, n)
           w == reset_sequence(v, p, "EXTRA")
           i == IF counted THEN Len(l) + 1 ELSE Len(l) - Count(s, p) + 1
<1>1. l \in Seq(Cards) /\ "EXTRA" \in Piles /\ Count(s, p) \in Nat /\ n \in Nat
  BY FieldType DEF Piles
<1>2. Count(s, p) <= Len(l) BY DEF Good, Sound, FaceupEnd, EndsIn
<1>3. r \in Seq(Cards) /\ Inserted(r, l, i, c)
  <2>1. CASE counted BY <1>1, <2>1, AppendInserted
  <2>2. CASE ~counted
    <3> DEFINE m == Len(l) - Count(s, p)
    <3>1. r = SubSeq(l, 1, m) \o <<c>> \o SubSeq(l, m + 1, Len(l))
      BY <2>2 DEF BeforeFaceup, Count, Buried
    <3>2. m \in 0 .. Len(l) /\ i = m + 1 BY <1>1, <1>2, <2>2
    <3> HIDE DEF m, l, r, i
    <3> QED BY <1>1, <3>1, <3>2, BetweenInserted
  <2> QED BY <2>1, <2>2
<1> HIDE DEF r, i
<1>4. /\ t \in FieldState /\ Joined(s, t, c, p, "EXTRA") /\ Elsewhere(s, t, c)
      /\ List(t, p, "EXTRA") = r /\ (c \in Faceup(t) <=> counted)
      /\ \A q \in Players : Count(t, q) = Count(s, q) /\ Buried(t, q) = Buried(s, q)
  <2>1. 0 \in Nat OBVIOUS
  <2> QED BY <1>1, <1>3, <2>1, EnteredJoined
<1> HIDE DEF t
<1>5. AddToExtra(s, c, p, faceup, pzone) = w
  BY <1>4 DEF AddToExtra, SetCount, Count, Buried, r, t
<1> HIDE DEF n
<1>6. /\ v \in FieldState /\ v.current = t.current /\ SameZones(t, v)
      /\ Count(v, p) = n
      /\ \A q \in Players :
           /\ \A k \in Piles : List(v, q, k) = List(t, q, k)
           /\ Buried(v, q) = Buried(t, q)
           /\ q # p => Count(v, q) = Count(t, q)
  BY <1>1, <1>4, CountState
<1> HIDE DEF v
<1>7. Joined(s, v, c, p, "EXTRA") /\ Elsewhere(s, v, c) /\ (c \in Faceup(v) <=> counted)
  <2>1. SameZones(s, v) BY <1>4, <1>6 DEF Joined, SameZones
  <2>2. /\ Undisturbed(s, v, Cards \ {c}) /\ SameFaces(s, v, Cards \ {c})
        /\ Elsewhere(s, v, c) /\ In(v, c, p, "EXTRA") /\ (c \in Faceup(v) <=> counted)
    BY <1>4, <1>6 DEF Joined, Undisturbed, SameSpot, SameFaces, Elsewhere, In, Faceup, Counts
  <2> QED BY <1>1, <1>4, <1>6, <2>1, <2>2 DEF Joined
<1>8. Recounted(s, v, c, p, "EXTRA") BY <1>1, <1>4, <1>6, <1>7 DEF Recounted, Counted, n
<1>9. /\ w \in FieldState /\ Joined(s, w, c, p, "EXTRA") /\ Recounted(s, w, c, p, "EXTRA")
      /\ AllIndexed(w) /\ List(w, p, "EXTRA") = List(v, p, "EXTRA")
      /\ (c \in Faceup(w) <=> c \in Faceup(v))
  BY <1>1, <1>6, <1>7, <1>8, JoinedReset DEF Good, Sound, AllIndexed
<1> HIDE DEF w
<1>10. Good(w)
  <2>1. List(w, p, "EXTRA") = r /\ List(s, p, "EXTRA") = l BY <1>1, <1>4, <1>6, <1>9
  <2>2. Inserted(List(w, p, "EXTRA"), List(s, p, "EXTRA"),
                    IF c \in Faceup(w) THEN Len(List(s, p, "EXTRA")) + 1
                    ELSE Len(List(s, p, "EXTRA")) - Count(s, p) + 1, c)
    BY <1>3, <1>7, <1>9, <2>1 DEF i
  <2> QED BY <1>1, <1>9, <2>2, AddedGood
<1>11. Arrived(s, w, c, p, "EXTRA", sequence) BY <1>9 DEF Arrived, Joined, OnField
<1> QED BY <1>5, <1>10, <1>11

(* The bottom of the deck. *)
LEMMA AddToBottomGood ==
  ASSUME NEW s \in FieldState, Good(s), NEW c \in Cards, Nowhere(s, c), NEW p \in Players,
         MayEnter(c, "DECK"), NEW faceup \in BOOLEAN, NEW pzone \in BOOLEAN,
         NEW sequence
  PROVE  LET t == reset_sequence(Enters(SetList(s, p, "DECK", <<c>> \o List(s, p, "DECK")),
                                        c, p, "DECK", 0, faceup, pzone), p, "DECK")
         IN Good(t) /\ Arrived(s, t, c, p, "DECK", sequence)
<1> DEFINE l == List(s, p, "DECK")
           r == <<c>> \o l
           v == Enters(SetList(s, p, "DECK", r), c, p, "DECK", 0, faceup, pzone)
           w == reset_sequence(v, p, "DECK")
<1>1. l \in Seq(Cards) /\ "DECK" \in Piles BY FieldType DEF Piles
<1>2. r \in Seq(Cards) /\ Inserted(r, l, 1, c) /\ 0 \in Nat BY <1>1, FirstInserted
<1> HIDE DEF r
<1>3. /\ v \in FieldState /\ Joined(s, v, c, p, "DECK") /\ Elsewhere(s, v, c)
      /\ \A q \in Players : Count(v, q) = Count(s, q) /\ Buried(v, q) = Buried(s, q) /\ Count(s, q) \in Nat
  BY <1>1, <1>2, EnteredJoined, FieldType
<1> HIDE DEF v
<1>4. Recounted(s, v, c, p, "DECK") BY <1>3 DEF Recounted, Counted
<1>5. /\ w \in FieldState /\ Joined(s, w, c, p, "DECK") /\ Recounted(s, w, c, p, "DECK")
      /\ AllIndexed(w)
  BY <1>1, <1>3, <1>4, JoinedReset DEF Good, Sound, AllIndexed
<1> HIDE DEF w
<1>6. Good(w) BY <1>1, <1>5, AddedGood
<1>7. Arrived(s, w, c, p, "DECK", sequence) BY <1>5 DEF Arrived, Joined, OnField
<1> QED BY <1>6, <1>7 DEF w, v, r

LEMMA PushedGood ==
  ASSUME NEW s \in FieldState, Good(s), NEW c \in Cards, Nowhere(s, c), NEW p \in Players,
         NEW pile \in Piles, pile # "EXTRA", MayEnter(c, pile),
         NEW faceup \in BOOLEAN, NEW pzone \in BOOLEAN, NEW sequence
  PROVE  LET t == Pushed(s, c, p, pile, faceup, pzone) IN
         Good(t) /\ Arrived(s, t, c, p, pile, sequence)
<1> DEFINE l == List(s, p, pile)
           r == Append(l, c)
           n == Len(r) - 1
           w == Enters(SetList(s, p, pile, r), c, p, pile, n, faceup, pzone)
<1>0. Pushed(s, c, p, pile, faceup, pzone) = w BY DEF Pushed
<1>1. l \in Seq(Cards) /\ Len(l) \in Nat /\ DOMAIN l = 1 .. Len(l)
  BY FieldType, LenProperties
<1>2. r \in Seq(Cards) /\ Inserted(r, l, Len(l) + 1, c) /\ n = Len(l) /\ n \in Nat
      /\ DOMAIN r = 1 .. Len(l) + 1
  BY <1>1, AppendInserted DEF Inserted
<1> HIDE DEF r, n
<1>3. /\ w \in FieldState /\ Joined(s, w, c, p, pile) /\ Elsewhere(s, w, c)
      /\ List(w, p, pile) = r /\ w.current[c].sequence = n
      /\ \A q \in Players : Count(w, q) = Count(s, q) /\ Buried(w, q) = Buried(s, q) /\ Count(s, q) \in Nat
  BY <1>1, <1>2, EnteredJoined, FieldType
<1> HIDE DEF w
<1>4. Recounted(s, w, c, p, pile) BY <1>3 DEF Recounted, Counted
<1>5. AllIndexed(w)
  <2> SUFFICES ASSUME NEW q \in Players, NEW k \in Piles
               PROVE  Indexed(w, q, k)
    BY DEF AllIndexed
  <2>0. \A i \in DOMAIN List(s, q, k) :
          w.current[List(s, q, k)[i]].sequence = i - 1
    <3> TAKE i \in DOMAIN List(s, q, k)
    <3>1. List(s, q, k)[i] \in Cards BY FieldType
    <3>2. In(s, List(s, q, k)[i], q, k) BY <3>1 DEF Good, Sound, Members, Listed
    <3>3. List(s, q, k)[i] # c BY <3>2 DEF In, Nowhere, Piles
    <3> QED BY <1>3, <3>1, <3>3 DEF Elsewhere, Good, Indexed
  <2>1. CASE q = p /\ k = pile
    <3>1. List(w, q, k) = r /\ List(s, q, k) = l BY <1>3, <2>1
    <3>2. \A i \in 1 .. Len(l) + 1 :
            \/ i \in DOMAIN l /\ r[i] = l[i]
            \/ i = n + 1 /\ r[i] = c
      BY <1>1, <1>2 DEF Inserted
    <3>3. \A i \in 1 .. Len(l) + 1 : w.current[r[i]].sequence = i - 1
      <4> TAKE i \in 1 .. Len(l) + 1
      <4>1. CASE i \in DOMAIN l /\ r[i] = l[i] BY <2>0, <3>1, <4>1
      <4>2. CASE i = n + 1 /\ r[i] = c BY <1>2, <1>3, <4>2
      <4> QED BY <3>2, <4>1, <4>2
    <3> QED BY <1>2, <3>1, <3>3 DEF Indexed
  <2>2. CASE q # p \/ k # pile
    <3>1. List(w, q, k) = List(s, q, k) BY <1>3, <2>2 DEF Joined
    <3> QED BY <2>0, <3>1 DEF Indexed
  <2> QED BY <2>1, <2>2
<1>6. Good(w) BY <1>1, <1>3, <1>4, <1>5, AddedGood
<1>7. Arrived(s, w, c, p, pile, sequence) BY <1>3 DEF Arrived, Joined, OnField, Piles
<1> QED BY <1>0, <1>6, <1>7

LEMMA AddGood ==
  ASSUME NEW s \in FieldState, Good(s), NEW c \in Cards, Nowhere(s, c), NEW p \in Players,
         NEW location \in Piles \cup OnField, NEW sequence \in Nat,
         location \in OnField => <<location, sequence>> \in Zones,
         NEW faceup \in BOOLEAN, NEW pzone \in BOOLEAN,
         is_location_useable(s, p, location, sequence)
  PROVE  LET t == add_card(s, c, p, location, sequence, faceup, pzone) IN
         Good(t) /\ Arrived(s, t, c, p, Redirected(c, location, faceup), sequence)
<1> DEFINE loc == Redirected(c, location, faceup)
           up == faceup /\ loc = location /\ loc \notin {"DECK", "HAND"}
           t == add_card(s, c, p, location, sequence, faceup, pzone)
<1>1. up \in BOOLEAN /\ loc \in Piles \cup OnField BY DEF Redirected, Piles
<1>2. loc \in OnField => loc = location BY DEF Redirected, Piles, OnField
<1>8. MayEnter(c, loc) BY RedirectedMayEnter
<1>3. s.current[c].location = "NONE" /\ is_location_useable(s, p, location, sequence)
  BY DEF Nowhere
<1>4. CASE loc \in OnField
  <2>1. t = AddToZone(s, c, p, loc, sequence, up, pzone) BY <1>3, <1>4 DEF add_card
  <2> HIDE DEF up, t
  <2> QED BY <1>1, <1>2, <1>4, <1>8, <2>1, AddToZoneGood DEF t
<1>5. CASE loc = "EXTRA"
  <2>1. t = AddToExtra(s, c, p, up, pzone) BY <1>3, <1>5 DEF add_card, OnField
  <2> HIDE DEF up, t
  <2> QED BY <1>1, <1>5, <1>8, <2>1, AddToExtraGood DEF t
<1>6. CASE loc = "DECK" /\ sequence = 1
  <2>1. t = reset_sequence(Enters(SetList(s, p, "DECK", <<c>> \o List(s, p, "DECK")),
                                  c, p, "DECK", 0, up, pzone), p, "DECK")
    BY <1>3, <1>6 DEF add_card, OnField
  <2> HIDE DEF up, t
  <2> QED BY <1>1, <1>6, <1>8, <2>1, AddToBottomGood DEF t
<1>7. CASE loc \in Piles /\ loc # "EXTRA" /\ ~(loc = "DECK" /\ sequence = 1)
  <2>1. t = Pushed(s, c, p, loc, up, pzone) BY <1>3, <1>7 DEF add_card, OnField, Piles
  <2> HIDE DEF up, t
  <2> QED BY <1>1, <1>7, <1>8, <2>1, PushedGood DEF t
<1> QED BY <1>1, <1>4, <1>5, <1>6, <1>7

-----------------------------------------------------------------------------
(* The order of a pile. *)

SameMembers(r, l) == Once(r) /\ \A d \in Cards : Listed(r, d) <=> Listed(l, d)

(* A pile is put in another order and numbered. *)
LEMMA Rearranged ==
  ASSUME NEW s \in FieldState, Sound(s), NEW p \in Players, NEW pile \in Piles,
         \A q \in Players, k \in Piles : q # p \/ k # pile => Indexed(s, q, k),
         NEW r \in Seq(Cards), SameMembers(r, List(s, p, pile)),
         pile = "EXTRA" => EndsIn(Buried(s, p), r, Count(s, p), Faceup(s))
  PROVE  LET t == reset_sequence(SetList(s, p, pile, r), p, pile) IN
         Good(t) /\ Undisturbed(s, t, Cards)
<1> DEFINE u == SetList(s, p, pile, r)
           t == reset_sequence(u, p, pile)
<1>1. /\ u \in FieldState /\ u.current = s.current /\ SameZones(s, u)
      /\ \A q \in Players :
           /\ \A k \in Piles : List(u, q, k) = IF q = p /\ k = pile THEN r ELSE List(s, q, k)
           /\ Count(u, q) = Count(s, q) /\ Buried(u, q) = Buried(s, q)
  BY SetListState
<1> HIDE DEF u
<1>2. List(u, p, pile) = r /\ Once(r) /\ \A d \in Cards : Listed(r, d) <=> In(s, d, p, pile)
  BY <1>1 DEF SameMembers, Sound, Members
<1>3. /\ t \in FieldState /\ SameLists(u, t) /\ SameZones(u, t)
      /\ \A d \in Cards :
           /\ t.current[d].controler = s.current[d].controler
           /\ t.current[d].location = s.current[d].location
           /\ t.current[d].faceup = s.current[d].faceup
           /\ ~Listed(r, d) => t.current[d] = s.current[d]
      /\ \A i \in DOMAIN r : t.current[r[i]].sequence = i - 1
  BY <1>1, <1>2, ResetState
<1> HIDE DEF t
<1>4. /\ SameZones(s, t)
      /\ \A q \in Players, k \in Piles :
           List(t, q, k) = IF q = p /\ k = pile THEN r ELSE List(s, q, k)
      /\ \A q \in Players : Count(t, q) = Count(s, q) /\ Buried(t, q) = Buried(s, q)
  BY <1>1, <1>3 DEF SameZones, SameLists
<1>5. Undisturbed(s, t, Cards)
  <2>1. \A d \in Cards : t.current[d].location \in OnField => ~Listed(r, d)
    BY <1>2, <1>3 DEF In, OnField, Piles
  <2> QED BY <1>3, <2>1 DEF Undisturbed, SameSpot
<1>6. \A d \in Cards, q \in Players, k \in Piles : In(t, d, q, k) <=> In(s, d, q, k)
  BY <1>3 DEF In
<1>7. Members(t) /\ Members(u)
  <2>1. \A q \in Players, k \in Piles :
          /\ Once(List(s, q, k))
          /\ \A d \in Cards : Listed(List(s, q, k), d) <=> In(s, d, q, k)
    BY DEF Sound, Members
  <2>2. Members(t) BY <1>2, <1>4, <1>6, <2>1 DEF Members
  <2> QED BY <1>3, <1>6, <1>1, <2>2 DEF Members, SameLists, In
<1>8. Occupied(t)
  <2>1. \A d \in Cards, q \in Players, z \in Zones : At(t, d, q, z) <=> At(s, d, q, z)
    BY <1>5 DEF At, In, Undisturbed, SameSpot, Zones, OnField
  <2> QED BY <1>4, <2>1 DEF Sound, Occupied, SameZones
<1>9. Somewhere(t) BY <1>5 DEF Sound, Somewhere, Undisturbed, SameSpot
<1>10. InUse(t) /\ Shared(t) BY <1>4 DEF Sound, InUse, Shared, SameZones, Players
<1>11. FaceupEnd(t)
  <2>1. Faceup(t) = Faceup(s) BY <1>3 DEF Faceup, Counts
  <2>2. \A q \in Players : EndsIn(Buried(s, q), List(s, q, "EXTRA"), Count(s, q), Faceup(s))
    BY DEF Sound, FaceupEnd
  <2>3. \A q \in Players : EndsIn(Buried(t, q), List(t, q, "EXTRA"), Count(t, q), Faceup(s))
    BY <1>4, <2>2 DEF Piles
  <2> QED BY <2>1, <2>3 DEF FaceupEnd
<1>12. Admitted(t) BY <1>5, UndisturbedAdmitted DEF Sound
<1>13. AllIndexed(t)
  <2>1. \A q \in Players, k \in Piles : q # p \/ k # pile => Indexed(u, q, k)
    BY <1>1 DEF Indexed
  <2>2. \A d \in Cards : ~Listed(r, d) => t.current[d].sequence = u.current[d].sequence
    BY <1>1, <1>3
  <2> QED BY <1>1, <1>2, <1>3, <1>7, <2>1, <2>2, Renumbered
<1> QED
  BY <1>3, <1>5, <1>7, <1>8, <1>9, <1>10, <1>11, <1>12, <1>13 DEF Good, Sound, AllIndexed, t, u

LEMMA GoodState == ASSUME NEW s, Good(s) PROVE s \in FieldState
BY DEF Good, Sound

(* The history of the extra deck. *)
LEMMA BuryGood ==
  ASSUME NEW s \in FieldState, Good(s), NEW p \in Players, NEW b \in BOOLEAN,
         Buried(s, p) => b
  PROVE  LET t == [s EXCEPT !.player[p].reordered = b] IN
         /\ Good(t) /\ t.current = s.current /\ Buried(t, p) = b
         /\ \A q \in Players, k \in Piles : List(t, q, k) = List(s, q, k)
         /\ \A q \in Players : Count(t, q) = Count(s, q)
<1> DEFINE t == [s EXCEPT !.player[p].reordered = b]
<1>1. /\ t \in FieldState /\ t.current = s.current /\ SameZones(s, t) /\ Buried(t, p) = b
      /\ \A q \in Players : q # p => Buried(t, q) = Buried(s, q)
      /\ \A q \in Players, k \in Piles : List(t, q, k) = List(s, q, k)
      /\ \A q \in Players : Count(t, q) = Count(s, q)
  BY DEF FieldState, Player, List, Zone, Used, Count, Buried, SameZones
<1> HIDE DEF t
<1>2. Members(t) /\ Occupied(t) /\ Somewhere(t) /\ InUse(t) /\ Shared(t) /\ Admitted(t)
  BY <1>1 DEF Good, Sound, Members, Occupied, Somewhere, InUse, Shared, Admitted, In, At,
              SameZones, Players
<1>3. FaceupEnd(t)
  <2>1. Faceup(t) = Faceup(s) BY <1>1 DEF Faceup, Counts
  <2>2. \A q \in Players : Buried(s, q) => Buried(t, q) BY <1>1
  <2> QED BY <1>1, <2>1, <2>2 DEF Good, Sound, FaceupEnd, EndsIn, Piles
<1>4. \A q \in Players, k \in Piles : Indexed(t, q, k) BY <1>1 DEF Good, Indexed
<1> QED BY <1>1, <1>2, <1>3, <1>4 DEF Good, Sound, t

(* A card is taken out of a list and put at one of its ends. *)
LEMMA RequeueGood ==
  ASSUME NEW s \in FieldState, Good(s), NEW c \in Cards, NEW sequence \in Nat,
         s.current[c].location \in Piles
  PROVE  Good(Requeue(s, c, sequence)) /\ Undisturbed(s, Requeue(s, c, sequence), Cards)
<1> DEFINE cur == s.current[c]
           p == cur.controler
           pile == cur.location
           l == List(s, p, pile)
           rest == Erase(l, cur.sequence)
           r == IF pile = "DECK" /\ sequence = 1 THEN <<c>> \o rest ELSE Append(rest, c)
<1>1. p \in Players /\ pile \in Piles /\ In(s, c, p, pile)
  BY DEF Good, Sound, Somewhere, In, Piles
<1> DEFINE buries == pile = "EXTRA" /\ ~Counts(s, c) /\ s.player[p].extra_p_count > 0
           b == s.player[p].reordered \/ buries
           t == [s EXCEPT !.player[p].reordered = b]
           w == Requeue(s, c, sequence)
<1>2. w = reset_sequence(SetList(t, p, pile, r), p, pile)
  BY DEF Requeue
<1>10. /\ Good(t) /\ t.current = s.current /\ Buried(t, p) = b
       /\ \A q \in Players, k \in Piles : List(t, q, k) = List(s, q, k)
       /\ \A q \in Players : Count(t, q) = Count(s, q)
  <2>1. b \in BOOLEAN BY <1>1 DEF FieldState, Player, Counts
  <2>2. Buried(s, p) => b BY DEF Buried
  <2> HIDE DEF b
  <2> QED BY <1>1, <2>1, <2>2, BuryGood
<1>11. pile = "EXTRA" /\ c \notin Faceup(s) /\ Count(s, p) > 0 => b
  BY DEF Faceup, Count
<1> HIDE DEF b, t, w
<1>3. l \in Seq(Cards) /\ Members(s) /\ Len(l) \in Nat
  BY <1>1, FieldType, LenProperties DEF Good, Sound
<1>4. PICK i \in 1 .. Len(l) : l[i] = c /\ cur.sequence = i - 1
  BY <1>1, Found DEF Good, Sound
<1>5. rest \in Seq(Cards) /\ Inserted(l, rest, i, c) BY <1>3, <1>4, EraseInserted
<1> HIDE DEF rest
<1>6. /\ \A d : Listed(l, d) <=> d = c \/ Listed(rest, d)
      /\ Once(rest) /\ ~Listed(rest, c)
  BY <1>1, <1>3, <1>5, InsertedMembers DEF Members
<1>7. PICK j : r \in Seq(Cards) /\ Inserted(r, rest, j, c)
               /\ (pile = "EXTRA" => j = Len(rest) + 1)
  <2>1. CASE pile = "DECK" /\ sequence = 1 BY <1>5, <2>1, FirstInserted
  <2>2. CASE ~(pile = "DECK" /\ sequence = 1) BY <1>5, <2>2, AppendInserted
  <2> QED BY <2>1, <2>2
<1> HIDE DEF r
<1>8. SameMembers(r, l)
  <2>1. /\ \A d : Listed(r, d) <=> d = c \/ Listed(rest, d)
        /\ Once(r)
    BY <1>5, <1>6, <1>7, InsertedMembers
  <2> QED BY <1>6, <2>1 DEF SameMembers
<1>12. Faceup(t) = Faceup(s) BY <1>10 DEF Faceup, Counts
<1>9. ASSUME pile = "EXTRA"
      PROVE  EndsIn(b, r, Count(s, p), Faceup(s))
  <2>1. EndsIn(b, l, Count(s, p), Faceup(s)) /\ Count(s, p) \in Nat
    BY <1>1, <1>9, <1>10, <1>12, FieldType DEF Good, Sound, FaceupEnd
  <2>6. ~(c \in Faceup(s)) /\ Count(s, p) > 0 => b BY <1>9, <1>11
  <2> HIDE DEF l, p, pile
  <2>2. PICK n \in Nat : n = Count(s, p) BY <2>1
  <2>7. Len(rest) \in Nat BY <1>5, LenProperties
  <2>8. CASE c \in Faceup(s)
    <3>3. n > 0 /\ EndsIn(b, rest, n - 1, Faceup(s))
      BY <1>3, <1>5, <1>6, <2>1, <2>2, <2>8, InsertedEnds
    <3>4. PICK m \in Nat : m = n - 1 BY <2>2, <3>3
    <3>5. EndsIn(b, r, m + 1, Faceup(s))
      BY <1>5, <1>6, <1>7, <1>9, <2>8, <3>3, <3>4, InsertedEnds
    <3> QED BY <2>2, <3>4, <3>5
  <2>9. CASE c \notin Faceup(s)
    <3>1. EndsIn(b, rest, n, Faceup(s))
      BY <1>3, <1>5, <1>6, <2>1, <2>2, <2>9, InsertedEnds
    <3>2. b \/ j = Len(rest) - n + 1 BY <1>7, <1>9, <2>2, <2>6, <2>7, <2>9
    <3>3. EndsIn(b, r, n, Faceup(s))
      BY <1>5, <1>6, <1>7, <2>9, <3>1, <3>2, InsertedEnds
    <3> QED BY <2>2, <3>3
  <2> QED BY <2>8, <2>9
<1>13. Good(w) /\ Undisturbed(t, w, Cards)
  <2>1. SameMembers(r, List(t, p, pile)) BY <1>1, <1>8, <1>10
  <2>2. pile = "EXTRA" => EndsIn(Buried(t, p), r, Count(t, p), Faceup(t))
    BY <1>1, <1>9, <1>10, <1>12
  <2> QED BY <1>1, <1>2, <1>7, <1>10, <2>1, <2>2, GoodState, Rearranged DEF Good
<1> QED BY <1>10, <1>13 DEF Undisturbed, SameSpot, w

-----------------------------------------------------------------------------
(* The zones. *)

(* Where the piles are left alone, so are the indices. *)
LEMMA UnmovedIndexed ==
  ASSUME NEW s \in FieldState, NEW t \in FieldState, Members(s), AllIndexed(s),
         SameLists(s, t),
         \A d \in Cards : s.current[d].location \in Piles =>
           t.current[d].sequence = s.current[d].sequence
  PROVE  AllIndexed(t)
<1> SUFFICES ASSUME NEW q \in Players, NEW k \in Piles, NEW i \in DOMAIN List(s, q, k)
             PROVE  t.current[List(s, q, k)[i]].sequence = i - 1
  BY DEF AllIndexed, Indexed, SameLists
<1>1. List(s, q, k)[i] \in Cards BY FieldType
<1>2. In(s, List(s, q, k)[i], q, k) BY <1>1 DEF Members, Listed
<1> QED BY <1>1, <1>2 DEF AllIndexed, Indexed, In

LEMMA RezoneState ==
  ASSUME NEW s \in FieldState, NEW c \in Cards, NEW p \in Players, NEW sequence \in Nat,
         s.current[c].controler \in Players, s.current[c].location \in OnField,
         <<s.current[c].location, sequence>> \in Zones
  PROVE  LET t == Rezone(s, c, p, sequence)
             cur == s.current[c]
             z == <<cur.location, cur.sequence>>
             w == <<cur.location, sequence>>
         IN
         /\ t \in FieldState /\ SameLists(s, t) /\ Elsewhere(s, t, c)
         /\ At(t, c, p, w) /\ t.current[c].faceup = cur.faceup
         /\ \A q \in Players :
              /\ \A y \in Zones : Zone(t, q, y) = IF q = p /\ y = w THEN c
                                                  ELSE IF q = cur.controler /\ y = z THEN NoCard
                                                  ELSE Zone(s, q, y)
              /\ Used(t, q) = (IF q = cur.controler THEN Used(s, q) \ {z} ELSE Used(s, q))
                              \cup (IF q = p THEN {w} ELSE {})
<1> DEFINE t == Rezone(s, c, p, sequence)
           cur == s.current[c]
           z == <<cur.location, cur.sequence>>
           w == <<cur.location, sequence>>
           zones(q) == [y \in Zones |-> IF q = p /\ y = w THEN c
                                        ELSE IF q = cur.controler /\ y = z THEN NoCard
                                        ELSE s.player[q].zone[y]]
           used(q) == (IF q = cur.controler THEN s.player[q].used_location \ {z}
                       ELSE s.player[q].used_location)
                      \cup (IF q = p THEN {w} ELSE {})
           pl == [q \in Players |-> [s.player[q] EXCEPT !.zone = zones(q),
                                                        !.used_location = used(q)]]
           moved == [cur EXCEPT !.controler = p, !.sequence = sequence]
<1>1. cur \in CardState /\ w \in Zones /\ \A q \in Players : s.player[q] \in Player
  BY DEF FieldState
<1>2. t = [player |-> pl, current |-> [s.current EXCEPT ![c] = moved]]
  BY DEF Rezone, FieldState, CardState
<1>3. /\ moved \in CardState /\ moved.controler = p /\ moved.sequence = sequence
      /\ moved.location = cur.location /\ moved.faceup = cur.faceup
  <2> HIDE DEF cur
  <2> QED BY <1>1 DEF CardState
<1>4. \A q \in Players :
        /\ zones(q) \in [Zones -> Cards \cup {NoCard}] /\ used(q) \in SUBSET Zones
        /\ \A y \in Zones : zones(q)[y] = IF q = p /\ y = w THEN c
                                          ELSE IF q = cur.controler /\ y = z THEN NoCard
                                          ELSE s.player[q].zone[y]
  BY <1>1 DEF Player
<1>5. \A q \in Players : pl[q] = [s.player[q] EXCEPT !.zone = zones(q), !.used_location = used(q)]
  OBVIOUS
<1>6. pl = [q \in Players |-> pl[q]] OBVIOUS
<1>10. \A q \in Players :
         used(q) = (IF q = cur.controler THEN Used(s, q) \ {z} ELSE Used(s, q))
                   \cup (IF q = p THEN {w} ELSE {})
  BY DEF Used
<1> HIDE DEF pl, zones, used, moved, t
<1>7. \A q \in Players :
        /\ pl[q] \in Player /\ pl[q].zone = zones(q) /\ pl[q].used_location = used(q)
        /\ pl[q].list = s.player[q].list /\ pl[q].extra_p_count = s.player[q].extra_p_count
        /\ pl[q].reordered = s.player[q].reordered
  <2> TAKE q \in Players
  <2>1. PICK x \in Player : x = s.player[q] BY <1>1
  <2>2. PICK a \in [Zones -> Cards \cup {NoCard}] : a = zones(q) BY <1>4
  <2>3. PICK U \in SUBSET Zones : U = used(q) BY <1>4
  <2>4. pl[q] = [x EXCEPT !.zone = a, !.used_location = U] BY <1>5, <2>1, <2>2, <2>3
  <2>5. /\ pl[q] \in Player /\ pl[q].zone = a /\ pl[q].used_location = U
        /\ pl[q].list = x.list /\ pl[q].extra_p_count = x.extra_p_count
        /\ pl[q].reordered = x.reordered
    BY <2>4 DEF Player
  <2> QED BY <2>1, <2>2, <2>3, <2>5
<1>8. /\ t \in FieldState /\ t.player = pl /\ t.current[c] = moved
      /\ \A d \in Cards \ {c} : t.current[d] = s.current[d]
  <2>1. pl \in [Players -> Player] BY <1>6, <1>7
  <2>2. [s.current EXCEPT ![c] = moved] \in [Cards -> CardState] BY <1>3 DEF FieldState
  <2> QED BY <1>2, <2>1, <2>2 DEF FieldState
<1>9. SameLists(s, t) /\ Elsewhere(s, t, c) /\ At(t, c, p, w) /\ t.current[c].faceup = cur.faceup
  BY <1>3, <1>7, <1>8 DEF SameLists, Elsewhere, At, In, List, Count, Buried
<1>11. \A q \in Players :
         /\ \A y \in Zones : Zone(t, q, y) = zones(q)[y] /\ s.player[q].zone[y] = Zone(s, q, y)
         /\ Used(t, q) = used(q)
  BY <1>7, <1>8 DEF Zone, Used
<1> QED BY <1>4, <1>8, <1>9, <1>10, <1>11 DEF t

LEMMA RezoneGood ==
  ASSUME NEW s \in FieldState, Good(s), NEW c \in Cards, NEW p \in Players,
         NEW sequence \in Nat, s.current[c].location \in OnField,
         <<s.current[c].location, sequence>> \in Zones,
         is_location_useable(s, p, s.current[c].location, sequence)
  PROVE  LET t == Rezone(s, c, p, sequence) IN
         /\ Good(t) /\ Undisturbed(s, t, Cards \ {c})
         /\ At(t, c, p, <<s.current[c].location, sequence>>)
<1> DEFINE t == Rezone(s, c, p, sequence)
           m == remove_card(s, c)
           cur == s.current[c]
           o == cur.controler
           z == <<cur.location, cur.sequence>>
           w == <<cur.location, sequence>>
<1>1. /\ Good(m) /\ Removed(s, m, c) /\ o \in Players /\ z \in Zones /\ Seated(m, s, c, o, z)
  BY RemoveFromZone
<1> HIDE DEF m
<1>2. /\ t \in FieldState /\ SameLists(s, t) /\ Elsewhere(s, t, c)
      /\ At(t, c, p, w) /\ t.current[c].faceup = cur.faceup
      /\ \A q \in Players :
           /\ \A y \in Zones : Zone(t, q, y) = IF q = p /\ y = w THEN c
                                               ELSE IF q = o /\ y = z THEN NoCard
                                               ELSE Zone(s, q, y)
           /\ Used(t, q) = (IF q = o THEN Used(s, q) \ {z} ELSE Used(s, q))
                           \cup (IF q = p THEN {w} ELSE {})
  BY <1>1, RezoneState
<1>3. w \in Zones /\ w[1] = cur.location /\ w[2] = sequence OBVIOUS
<1>4. is_location_useable(s, p, w[1], w[2]) BY <1>3
<1> HIDE DEF t, o, z, w
<1>5. w \notin Used(s, p) /\ Zone(s, p, w) = NoCard
  <2>1. w \notin Used(s, p) BY <1>3 DEF is_location_useable, Used, w
  <2> QED BY <1>3, <2>1 DEF Good, Sound, InUse
<1>6. /\ \A q \in Players :
           /\ \A y \in Zones : Zone(m, q, y) = IF q = o /\ y = z THEN NoCard ELSE Zone(s, q, y)
           /\ Used(m, q) = IF q = o THEN Used(s, q) \ {z} ELSE Used(s, q)
  BY <1>1 DEF Seated
<1>7. Seated(m, t, c, p, w)
  <2>1. SameLists(m, t) BY <1>1, <1>2 DEF Seated, SameLists
  <2>2. Undisturbed(m, t, Cards \ {c}) /\ SameFaces(m, t, Cards \ {c})
    BY <1>1, <1>2 DEF Seated, Elsewhere, Undisturbed, SameSpot, SameFaces
  <2>3. Nowhere(m, c) BY <1>1 DEF Seated
  <2>4. /\ Zone(m, p, w) = NoCard /\ Zone(t, p, w) = c
        /\ w \notin Used(m, p) /\ Used(t, p) = Used(m, p) \cup {w}
    BY <1>2, <1>3, <1>5, <1>6
  <2>5. /\ \A q \in Players, y \in Zones : q # p \/ y # w => Zone(t, q, y) = Zone(m, q, y)
        /\ \A q \in Players : q # p => Used(t, q) = Used(m, q)
    BY <1>2, <1>6
  <2> QED BY <1>2, <2>1, <2>2, <2>3, <2>4, <2>5 DEF Seated
<1>8. AllIndexed(t)
  <2>1. \A d \in Cards : s.current[d].location \in Piles =>
           t.current[d].sequence = s.current[d].sequence
    BY <1>2 DEF Elsewhere, Piles, OnField
  <2> QED BY <1>2, <2>1, UnmovedIndexed DEF Good, Sound, AllIndexed
<1>9. m \in FieldState /\ is_location_useable(m, p, w[1], w[2])
  <2>1. Used(m, p) \subseteq Used(s, p) /\ Used(m, 1 - p) \subseteq Used(s, 1 - p)
    BY <1>1 DEF Removed, Players
  <2> QED BY <1>1, <1>4, <2>1 DEF is_location_useable, Used, Good, Sound
<1>10. Good(t) BY <1>1, <1>2, <1>3, <1>7, <1>8, <1>9, SeatedGood
<1>11. Undisturbed(s, t, Cards \ {c}) BY <1>2 DEF Elsewhere, Undisturbed, SameSpot
<1> QED BY <1>2, <1>10, <1>11 DEF t, w

-----------------------------------------------------------------------------
(* move_card. *)

(* One card has moved, to a place where it may be. *)
Moved(s, t, c) ==
  /\ Undisturbed(s, t, Cards \ {c})
  /\ \/ SameSpot(s, t, c)
     \/ LET cur == t.current[c] IN
          /\ is_location_useable(s, cur.controler, cur.location, cur.sequence)
          /\ MayEnter(c, cur.location)

LEMMA ArrivedMoved ==
  ASSUME NEW s, NEW m, NEW t, NEW c \in Cards, NEW p \in Players,
         NEW location \in Piles \cup OnField, NEW sequence,
         Removed(s, m, c), Arrived(m, t, c, p, location, sequence),
         is_location_useable(s, p, location, sequence), MayEnter(c, location)
  PROVE  Moved(s, t, c)
<1>1. Undisturbed(s, t, Cards \ {c}) BY DEF Removed, Arrived, Undisturbed, SameSpot
<1>2. t.current[c].controler = p /\ t.current[c].location = location
      /\ (location \in OnField => t.current[c].sequence = sequence)
  BY DEF Arrived, In
<1>3. is_location_useable(s, t.current[c].controler, t.current[c].location,
                          t.current[c].sequence)
  <2>1. CASE location \in OnField BY <1>2, <2>1
  <2>2. CASE location \notin OnField BY <1>2, <2>2 DEF is_location_useable
  <2> QED BY <2>1, <2>2
<1> QED BY <1>1, <1>2, <1>3 DEF Moved

(* A card that is nowhere, or was taken from where it was, is put somewhere. *)
LEMMA AgainGood ==
  ASSUME NEW s \in FieldState, NEW m \in FieldState, Good(m), NEW c \in Cards,
         Removed(s, m, c), NEW p \in Players,
         NEW location \in Piles \cup OnField, NEW sequence \in Nat,
         location \in OnField => <<location, sequence>> \in Zones,
         NEW faceup \in BOOLEAN, NEW pzone \in BOOLEAN,
         is_location_useable(s, p, location, sequence)
  PROVE  LET t == add_card(m, c, p, location, sequence, faceup, pzone) IN
         /\ Good(t) /\ Moved(s, t, c) /\ In(t, c, p, Redirected(c, location, faceup))
<1> DEFINE loc == Redirected(c, location, faceup)
           t == add_card(m, c, p, location, sequence, faceup, pzone)
<1>1. Nowhere(m, c) BY DEF Removed
<1>2. is_location_useable(m, p, location, sequence)
  <2>1. Used(m, p) \subseteq Used(s, p) /\ Used(m, 1 - p) \subseteq Used(s, 1 - p)
    BY DEF Removed, Players
  <2> QED BY <2>1 DEF is_location_useable, Used
<1>3. loc \in Piles \cup OnField /\ (loc = location \/ loc \notin OnField)
  BY DEF Redirected, Piles, OnField
<1>4. is_location_useable(s, p, loc, sequence) BY <1>3 DEF is_location_useable
<1>5. Good(t) /\ Arrived(m, t, c, p, loc, sequence) BY <1>1, <1>2, AddGood
<1>7. MayEnter(c, loc) BY RedirectedMayEnter
<1> HIDE DEF t, loc
<1>6. Moved(s, t, c) BY <1>3, <1>4, <1>5, <1>7, ArrivedMoved
<1> QED BY <1>5, <1>6 DEF Arrived, t, loc

LEMMA MoveGood ==
  ASSUME NEW s \in FieldState, Good(s), NEW c \in Cards, NEW p \in Players,
         NEW location \in Piles \cup OnField, NEW sequence \in Nat,
         location \in OnField => <<location, sequence>> \in Zones,
         NEW faceup \in BOOLEAN, NEW pzone \in BOOLEAN, NEW redirect \in BOOLEAN
  PROVE  LET t == move_card(s, c, p, location, sequence, faceup, pzone, redirect) IN
         /\ Good(t) /\ Moved(s, t, c)
         /\ location \in OnField /\ is_location_useable(s, p, location, sequence) =>
              t.current[c].location = location
<1> DEFINE cur == s.current[c]
           loc == IF c \in ExtraMonsters /\ location \in {"HAND", "DECK"} THEN "EXTRA"
                  ELSE location
           up == faceup /\ loc = location
           last == cur.sequence = Len(List(s, cur.controler, loc)) - 1
           toExtra == redirect /\ c \in Pendulums /\ loc = "GRAVE" /\ cur.location \in OnField
           m == remove_card(s, c)
           again == add_card(m, c, p, loc, sequence, up, pzone)
           extra == add_card(m, c, p, "EXTRA", sequence, TRUE, pzone)
           t == move_card(s, c, p, location, sequence, faceup, pzone, redirect)
           Fine(x) == /\ Good(x) /\ Moved(s, x, c)
                      /\ location \in OnField => x.current[c].location = location
<1>1. CASE ~is_location_useable(s, p, location, sequence)
  <2>1. t = s BY <1>1 DEF move_card
  <2>2. Moved(s, s, c) BY DEF Moved, Undisturbed, SameSpot
  <2> QED BY <1>1, <2>1, <2>2
<1>2. ASSUME is_location_useable(s, p, location, sequence)
      PROVE  Fine(t)
  <2>1. /\ loc \in Piles \cup OnField /\ up \in BOOLEAN
        /\ location \in OnField => loc = location
        /\ loc \in OnField => loc = location
    BY DEF Piles, OnField
  <2>2. is_location_useable(s, p, loc, sequence)
        /\ is_location_useable(s, p, "EXTRA", sequence)
    BY <1>2, <2>1 DEF is_location_useable, OnField
  <2>3. Good(m) /\ Removed(s, m, c) /\ m \in FieldState BY RemoveGood DEF Good, Sound
  <2>5. Fine(again)
    <3> HIDE DEF loc, up, m
    <3>1. Good(again) /\ Moved(s, again, c) /\ In(again, c, p, Redirected(c, loc, up))
      BY <2>1, <2>2, <2>3, AgainGood
    <3>2. loc \in OnField => Redirected(c, loc, up) = loc BY DEF Redirected, OnField
    <3> QED BY <2>1, <3>1, <3>2 DEF In
  <2>6. ASSUME toExtra
        PROVE  Fine(extra)
    <3>1. location \notin OnField BY <2>6 DEF OnField
    <3>2. "EXTRA" \in Piles \cup OnField /\ "EXTRA" \notin OnField /\ TRUE \in BOOLEAN
      BY DEF Piles, OnField
    <3> HIDE DEF m
    <3>3. Good(extra) /\ Moved(s, extra, c) BY <2>2, <2>3, <3>1, <3>2, AgainGood
    <3> QED BY <3>1, <3>3
  <2>7. ASSUME cur.location = loc, loc \in OnField
        PROVE  Fine(Rezone(s, c, p, sequence)) /\ s.player[p].zone[<<loc, sequence>>] = NoCard
    <3> DEFINE x == Rezone(s, c, p, sequence)
    <3>1. <<loc, sequence>> \in Zones BY <2>1, <2>7
    <3>2. /\ Good(x) /\ Undisturbed(s, x, Cards \ {c})
          /\ At(x, c, p, <<loc, sequence>>)
      BY <2>2, <2>7, <3>1, RezoneGood
    <3> HIDE DEF x
    <3>3. x.current[c].controler = p /\ x.current[c].location = loc /\ x.current[c].sequence = sequence
      BY <3>2 DEF At, In
    <3>4. Fine(x) BY <2>1, <2>2, <2>7, <3>2, <3>3 DEF Moved, MayEnter, OnField
    <3>5. <<loc, sequence>> \notin Used(s, p)
      BY <2>2, <2>7 DEF is_location_useable, Used
    <3> QED BY <3>1, <3>4, <3>5 DEF Good, Sound, InUse, Zone, x
  <2>8. ASSUME cur.location = loc, loc \in Piles
        PROVE  Fine(Requeue(s, c, sequence)) /\ Fine(s)
    <3> DEFINE x == Requeue(s, c, sequence)
    <3>2. Good(x) /\ Undisturbed(s, x, Cards) BY <2>8, RequeueGood
    <3> HIDE DEF x
    <3>3. location \notin OnField BY <2>1, <2>8 DEF Piles, OnField
    <3>4. Moved(s, x, c) /\ Moved(s, s, c) BY <3>2 DEF Moved, Undisturbed, SameSpot
    <3> QED BY <3>2, <3>3, <3>4 DEF x
  <2>9. \/ cur.location # loc \/ cur.pzone # pzone
        \/ cur.location = loc /\ loc \in OnField
        \/ cur.location = loc /\ loc \in Piles
    BY <2>1
  <2>10. t = IF cur.location # loc \/ cur.pzone # pzone THEN
               IF toExtra THEN extra ELSE again
             ELSE IF loc \in OnField THEN
               IF s.player[p].zone[<<loc, sequence>>] = NoCard
               THEN Rezone(s, c, p, sequence) ELSE s
             ELSE IF loc \in {"DECK", "HAND"} /\ p # cur.controler THEN again
             ELSE IF loc = "HAND" \/ (loc \in {"GRAVE", "REMOVED"} /\ last) THEN s
             ELSE Requeue(s, c, sequence)
    BY <1>2 DEF move_card
  <2> HIDE DEF t, toExtra, extra, again, last, loc, Fine
  <2>11. CASE cur.location # loc \/ cur.pzone # pzone BY <2>5, <2>6, <2>10, <2>11
  <2>12. CASE cur.location = loc /\ cur.pzone = pzone /\ loc \in OnField
    BY <2>7, <2>10, <2>12
  <2>13. CASE cur.location = loc /\ cur.pzone = pzone /\ loc \in Piles
    BY <2>5, <2>8, <2>10, <2>13 DEF OnField, Piles
  <2> QED BY <2>9, <2>11, <2>12, <2>13
<1> QED BY <1>1, <1>2

-----------------------------------------------------------------------------
(* swap_card. *)

LEMMA SwapState ==
  ASSUME NEW s \in FieldState, NEW c \in Cards, NEW d \in Cards, c # d,
         s.current[c].controler \in Players, s.current[d].controler \in Players,
         s.current[c].location \in OnField, s.current[d].location = s.current[c].location,
         NEW n1 \in Nat, NEW n2 \in Nat,
         <<s.current[c].location, n1>> \in Zones, <<s.current[c].location, n2>> \in Zones,
         \/ n1 = s.current[c].sequence
         \/ is_location_useable(s, s.current[c].controler, s.current[c].location, n1),
         \/ n2 = s.current[d].sequence
         \/ is_location_useable(s, s.current[d].controler, s.current[c].location, n2),
         s.current[c].controler = s.current[d].controler =>
           n1 # s.current[d].sequence /\ n2 # s.current[c].sequence
  PROVE  LET t == swap_card(s, c, d, n1, n2)
             a == s.current[c].controler
             b == s.current[d].controler
             v == <<s.current[c].location, s.current[c].sequence>>
             w == <<s.current[d].location, s.current[d].sequence>>
             z1 == <<s.current[c].location, n1>>
             z2 == <<s.current[d].location, n2>>
             Freed(q, z) == (q = a /\ z = v) \/ (q = b /\ z = w)
         IN
         /\ t \in FieldState /\ SameLists(s, t)
         /\ \A e \in Cards \ {c, d} : t.current[e] = s.current[e]
         /\ At(t, c, b, z2) /\ At(t, d, a, z1)
         /\ t.current[c].faceup = s.current[c].faceup
         /\ t.current[d].faceup = s.current[d].faceup
         /\ \A q \in Players :
              /\ \A z \in Zones : Zone(t, q, z) = IF q = a /\ z = z1 THEN d
                                                  ELSE IF q = b /\ z = z2 THEN c
                                                  ELSE IF Freed(q, z) THEN NoCard
                                                  ELSE Zone(s, q, z)
              /\ \A z : z \in Used(t, q) <=>
                   z \in Zones /\ (\/ q = a /\ z = z1
                                   \/ q = b /\ z = z2
                                   \/ z \in Used(s, q) /\ ~Freed(q, z))
<1> DEFINE x == s.current[c]
           y == s.current[d]
           t == swap_card(s, c, d, n1, n2)
           a == x.controler
           b == y.controler
           v == <<x.location, x.sequence>>
           w == <<y.location, y.sequence>>
           z1 == <<x.location, n1>>
           z2 == <<y.location, n2>>
           Freed(q, z) == (q = a /\ z = v) \/ (q = b /\ z = w)
           Taken(q, z) == (q = a /\ z = z1) \/ (q = b /\ z = z2)
           Holder(q, z) == IF q = a /\ z = z1 THEN d
                           ELSE IF q = b /\ z = z2 THEN c
                           ELSE IF Freed(q, z) THEN NoCard ELSE s.player[q].zone[z]
           zones(q) == [z \in Zones |-> Holder(q, z)]
           used(q) == {z \in Zones : Taken(q, z) \/ (z \in s.player[q].used_location /\ ~Freed(q, z))}
           pl == [q \in Players |-> [s.player[q] EXCEPT !.zone = zones(q),
                                                        !.used_location = used(q)]]
           x2 == [x EXCEPT !.controler = b, !.sequence = n2]
           y2 == [y EXCEPT !.controler = a, !.sequence = n1]
<1>1. x \in CardState /\ y \in CardState /\ \A q \in Players : s.player[q] \in Player
  BY DEF FieldState
<1>2. t = [player |-> pl, current |-> [s.current EXCEPT ![c] = x2, ![d] = y2]]
  <2>1. [s.current EXCEPT ![c].controler = b, ![c].sequence = n2,
                          ![d].controler = a, ![d].sequence = n1]
          = [s.current EXCEPT ![c] = x2, ![d] = y2]
    BY DEF FieldState, CardState
  <2>2. t = [player |-> pl,
             current |-> [s.current EXCEPT ![c].controler = b, ![c].sequence = n2,
                                           ![d].controler = a, ![d].sequence = n1]]
    BY DEF swap_card
  <2> QED BY <2>1, <2>2
<1>3. /\ x2 \in CardState /\ x2.controler = b /\ x2.sequence = n2
      /\ x2.location = x.location /\ x2.faceup = x.faceup
      /\ y2 \in CardState /\ y2.controler = a /\ y2.sequence = n1
      /\ y2.location = y.location /\ y2.faceup = y.faceup
  <2>1. a \in Players /\ b \in Players OBVIOUS
  <2> HIDE DEF x, y, a, b
  <2> QED BY <1>1, <2>1 DEF CardState
<1>4. \A q \in Players :
        /\ zones(q) \in [Zones -> Cards \cup {NoCard}] /\ used(q) \in SUBSET Zones
        /\ \A z \in Zones : zones(q)[z] = Holder(q, z)
  BY <1>1 DEF Player
<1>5. \A q \in Players : pl[q] = [s.player[q] EXCEPT !.zone = zones(q), !.used_location = used(q)]
  OBVIOUS
<1>6. pl = [q \in Players |-> pl[q]] OBVIOUS
<1>7. /\ \A q \in Players, z \in Zones :
           Holder(q, z) = IF q = a /\ z = z1 THEN d
                          ELSE IF q = b /\ z = z2 THEN c
                          ELSE IF Freed(q, z) THEN NoCard ELSE Zone(s, q, z)
      /\ \A q \in Players : \A z :
           z \in used(q) <=> z \in Zones /\ (Taken(q, z) \/ (z \in Used(s, q) /\ ~Freed(q, z)))
  BY DEF Zone, Used
<1> HIDE DEF pl, zones, used, x2, y2, t, Holder
<1>8. \A q \in Players :
        /\ pl[q] \in Player /\ pl[q].zone = zones(q) /\ pl[q].used_location = used(q)
        /\ pl[q].list = s.player[q].list /\ pl[q].extra_p_count = s.player[q].extra_p_count
        /\ pl[q].reordered = s.player[q].reordered
  <2> TAKE q \in Players
  <2>1. PICK o \in Player : o = s.player[q] BY <1>1
  <2>2. PICK g \in [Zones -> Cards \cup {NoCard}] : g = zones(q) BY <1>4
  <2>3. PICK U \in SUBSET Zones : U = used(q) BY <1>4
  <2>4. pl[q] = [o EXCEPT !.zone = g, !.used_location = U] BY <1>5, <2>1, <2>2, <2>3
  <2>5. /\ pl[q] \in Player /\ pl[q].zone = g /\ pl[q].used_location = U
        /\ pl[q].list = o.list /\ pl[q].extra_p_count = o.extra_p_count
        /\ pl[q].reordered = o.reordered
    BY <2>4 DEF Player
  <2> QED BY <2>1, <2>2, <2>3, <2>5
<1>9. /\ t \in FieldState /\ t.player = pl /\ t.current[c] = x2 /\ t.current[d] = y2
      /\ \A e \in Cards \ {c, d} : t.current[e] = s.current[e]
  <2>1. pl \in [Players -> Player] BY <1>6, <1>8
  <2>2. /\ [s.current EXCEPT ![c] = x2, ![d] = y2] \in [Cards -> CardState]
        /\ [s.current EXCEPT ![c] = x2, ![d] = y2][c] = x2
        /\ [s.current EXCEPT ![c] = x2, ![d] = y2][d] = y2
        /\ \A e \in Cards \ {c, d} :
             [s.current EXCEPT ![c] = x2, ![d] = y2][e] = s.current[e]
    BY <1>3 DEF FieldState
  <2> QED BY <1>2, <2>1, <2>2 DEF FieldState
<1>10. SameLists(s, t) /\ At(t, c, b, z2) /\ At(t, d, a, z1)
  BY <1>3, <1>8, <1>9 DEF SameLists, At, In, List, Count, Buried
<1>11. \A q \in Players :
         /\ \A z \in Zones : Zone(t, q, z) = Holder(q, z)
         /\ Used(t, q) = used(q)
  BY <1>4, <1>8, <1>9 DEF Zone, Used
<1>12. \A q \in Players :
         /\ \A z \in Zones : Zone(t, q, z) = IF q = a /\ z = z1 THEN d
                                             ELSE IF q = b /\ z = z2 THEN c
                                             ELSE IF Freed(q, z) THEN NoCard
                                             ELSE Zone(s, q, z)
         /\ \A z : z \in Used(t, q) <=>
              z \in Zones /\ (Taken(q, z) \/ (z \in Used(s, q) /\ ~Freed(q, z)))
  BY <1>7, <1>11
<1> QED BY <1>3, <1>9, <1>10, <1>12 DEF t

(* c is on the side of d and d on the side of c, each in the zone the other
   left or in a vacant one. *)
Exchanged(s, t, c, d) ==
  LET x == s.current[c]
      y == s.current[d]
      x2 == t.current[c]
      y2 == t.current[d]
  IN /\ x.location \in OnField /\ y.location = x.location
     /\ x2.location = x.location /\ x2.controler = y.controler
     /\ y2.location = x.location /\ y2.controler = x.controler
     /\ x2.sequence = y.sequence \/ is_location_useable(s, y.controler, x.location, x2.sequence)
     /\ y2.sequence = x.sequence \/ is_location_useable(s, x.controler, x.location, y2.sequence)
     /\ Undisturbed(s, t, Cards \ {c, d})

(* A zone that its card leaves is free for another, on both sides. *)
LEMMA FreedUseable ==
  ASSUME NEW s, Good(s), NEW p \in Players, NEW location \in OnField, NEW n,
         <<location, n>> \in Used(s, p), NEW U, <<location, n>> \notin U, U \subseteq Used(s, p),
         NEW V, V \subseteq Used(s, 1 - p)
  PROVE  location = "MZONE" /\ n >= 5 => <<"MZONE", 11 - n>> \notin V
<1> SUFFICES ASSUME location = "MZONE", n >= 5, <<"MZONE", 11 - n>> \in Used(s, 1 - p)
             PROVE  FALSE
  OBVIOUS
<1>1. <<"MZONE", n>> \in Zones /\ <<"MZONE", 11 - n>> \in Zones
  BY FieldType DEF Good, Sound, Players
<1>2. n \in MZones /\ 11 - n \in MZones BY <1>1 DEF Zones
<1>3. n \in {5, 6} /\ 11 - n \in {5, 6} /\ 11 - (11 - n) = n
  BY <1>2, ConstantsAssumption
<1>4. CASE p = 0 BY <1>2, <1>3, <1>4 DEF Good, Sound, Shared
<1>5. CASE p = 1 BY <1>2, <1>3, <1>5 DEF Good, Sound, Shared
<1> QED BY <1>4, <1>5 DEF Players

LEMMA SwapGood ==
  ASSUME NEW s \in FieldState, Good(s), NEW c \in Cards, NEW d \in Cards, c # d,
         s.current[c].location \in OnField, s.current[d].location = s.current[c].location,
         s.current[c].controler # s.current[d].controler => s.current[c].location = "MZONE",
         NEW n1, NEW n2,
         s.current[c].controler = s.current[d].controler =>
           n1 = s.current[c].sequence /\ n2 = s.current[d].sequence,
         n1 = s.current[c].sequence \/ (n1 \in MZones /\ n1 < 5),
         n2 = s.current[d].sequence \/ (n2 \in MZones /\ n2 < 5)
  PROVE  LET t == swap_card(s, c, d, n1, n2) IN
         Good(t) /\ (t = s \/ Exchanged(s, t, c, d))
<1> DEFINE t == swap_card(s, c, d, n1, n2)
           a == s.current[c].controler
           b == s.current[d].controler
           loc == s.current[c].location
           sx == s.current[c].sequence
           sy == s.current[d].sequence
           v == <<loc, sx>>
           w == <<loc, sy>>
           z1 == <<loc, n1>>
           z2 == <<loc, n2>>
           Freed(q, z) == (q = a /\ z = v) \/ (q = b /\ z = w)
           m1 == remove_card(s, c)
           m2 == remove_card(m1, d)
           up == s.current[c].faceup
           pz == s.current[c].pzone
           k == AddToZone(m2, c, b, loc, n2, up, pz)
<1>1. /\ Good(m1) /\ Removed(s, m1, c) /\ a \in Players /\ v \in Zones
      /\ Seated(m1, s, c, a, v)
  BY RemoveFromZone
<1>2. d \in Cards \ {c} /\ loc \in OnField /\ s.current[d].location = loc
      /\ s.current[d].location \in OnField
  OBVIOUS
<1>3. SameSpot(m1, s, d) /\ m1 \in FieldState
  BY <1>1, <1>2 DEF Seated, Undisturbed, Good, Sound
<1>4. m1.current[d].controler = b /\ m1.current[d].location = loc /\ m1.current[d].sequence = sy
  BY <1>2, <1>3 DEF SameSpot
<1> HIDE DEF m1
<1>5. /\ Good(m2) /\ Removed(m1, m2, d) /\ b \in Players /\ w \in Zones
      /\ Seated(m2, m1, d, b, w)
  <2>1. m1.current[d].location \in OnField /\ d \in Cards BY <1>2, <1>4
  <2> DEFINE e == m1.current[d]
  <2>2. /\ Good(m2) /\ Removed(m1, m2, d)
        /\ e.controler \in Players /\ <<e.location, e.sequence>> \in Zones
        /\ Seated(m2, m1, d, e.controler, <<e.location, e.sequence>>)
    BY <1>1, <1>3, <2>1, RemoveFromZone
  <2> QED BY <1>4, <2>2
<1> HIDE DEF m2
<1>6. a = b => v # w
  <2>1. v \notin Used(m1, a) BY <1>1 DEF Seated
  <2>2. w \in Used(m1, b) BY <1>5 DEF Seated
  <2> QED BY <2>1, <2>2
<1>7. z1 \in Zones /\ z2 \in Zones /\ n1 \in Nat /\ n2 \in Nat
  <2>1. n1 # sx => loc = "MZONE" /\ n1 \in MZones OBVIOUS
  <2>2. n2 # sy => loc = "MZONE" /\ n2 \in MZones OBVIOUS
  <2>3. z1 \in Zones /\ z2 \in Zones BY <1>1, <1>5, <2>1, <2>2 DEF Zones
  <2>4. n1 \in MZones \cup SZones /\ n2 \in MZones \cup SZones BY <2>3 DEF Zones
  <2> QED BY <2>3, <2>4, ConstantsAssumption
<1>8. a = b => n1 # sy /\ n2 # sx BY <1>6
<1>9. CASE ~(/\ n1 = sx \/ is_location_useable(s, a, loc, n1)
             /\ n2 = sy \/ is_location_useable(s, b, loc, n2))
  <2>1. t = s BY <1>9 DEF swap_card
  <2> QED BY <2>1
<1>10. ASSUME n1 = sx \/ is_location_useable(s, a, loc, n1),
              n2 = sy \/ is_location_useable(s, b, loc, n2)
       PROVE  Good(t) /\ Exchanged(s, t, c, d)
  <2>1. /\ t \in FieldState /\ SameLists(s, t)
        /\ \A e \in Cards \ {c, d} : t.current[e] = s.current[e]
        /\ At(t, c, b, z2) /\ At(t, d, a, z1)
        /\ t.current[c].faceup = up
        /\ t.current[d].faceup = s.current[d].faceup
        /\ \A q \in Players :
             /\ \A z \in Zones : Zone(t, q, z) = IF q = a /\ z = z1 THEN d
                                                 ELSE IF q = b /\ z = z2 THEN c
                                                 ELSE IF Freed(q, z) THEN NoCard
                                                 ELSE Zone(s, q, z)
             /\ \A z : z \in Used(t, q) <=>
                  z \in Zones /\ (\/ q = a /\ z = z1
                                  \/ q = b /\ z = z2
                                  \/ z \in Used(s, q) /\ ~Freed(q, z))
    BY <1>1, <1>2, <1>5, <1>7, <1>8, <1>10, SwapState
  <2> HIDE DEF t, a, b, loc, sx, sy, up, pz
  <2>2. /\ \A q \in Players, z \in Zones :
             Zone(m2, q, z) = IF Freed(q, z) THEN NoCard ELSE Zone(s, q, z)
        /\ \A q \in Players : \A z :
             z \in Used(m2, q) <=> z \in Used(s, q) /\ ~Freed(q, z)
    <3>1. \A q \in Players, z \in Zones :
            /\ Zone(m1, q, z) = IF q = a /\ z = v THEN NoCard ELSE Zone(s, q, z)
            /\ Zone(m2, q, z) = IF q = b /\ z = w THEN NoCard ELSE Zone(m1, q, z)
      BY <1>1, <1>5 DEF Seated
    <3>2. \A q \in Players : \A z :
            /\ z \in Used(m1, q) <=> z \in Used(s, q) /\ ~(q = a /\ z = v)
            /\ z \in Used(m2, q) <=> z \in Used(m1, q) /\ ~(q = b /\ z = w)
      BY <1>1, <1>5 DEF Seated
    <3> QED BY <3>1, <3>2
  <2>3. v \in Used(s, a) /\ w \in Used(s, b)
    <3>1. v \in Used(s, a) BY <1>1 DEF Seated
    <3>2. w \in Used(m1, b) /\ Used(m1, b) \subseteq Used(s, b)
      BY <1>1, <1>5 DEF Seated, Removed
    <3> QED BY <3>1, <3>2
  <2>4. \A q \in Players : Used(m2, q) \subseteq Used(s, q) BY <2>2
  <2>5. 1 - a \in Players /\ 1 - b \in Players BY <1>1, <1>5 DEF Players
  <2>6. is_location_useable(m2, b, loc, n2)
    <3>1. CASE n2 = sy
      <4>1. w \notin Used(m2, b) BY <1>5, <2>2
      <4>2. loc = "MZONE" /\ sy >= 5 => <<"MZONE", 11 - sy>> \notin Used(m2, 1 - b)
        BY <1>2, <1>5, <2>3, <2>4, <2>5, <4>1, FreedUseable DEF loc
      <4> QED BY <3>1, <4>1, <4>2 DEF is_location_useable, Used
    <3>2. CASE n2 # sy BY <1>5, <1>10, <2>4, <2>5, <3>2 DEF is_location_useable, Used
    <3> QED BY <3>1, <3>2
  <2>7. /\ Good(k) /\ Seated(m2, k, c, b, z2) /\ k.current[c].faceup = up
    <3>1. Nowhere(m2, c)
      <4>1. Nowhere(m1, c) /\ c \in Cards \ {d} BY <1>1 DEF Removed
      <4> QED BY <1>5, <4>1 DEF Removed, Nowhere, Undisturbed, SameSpot
    <3>2. up \in BOOLEAN /\ pz \in BOOLEAN /\ m2 \in FieldState
      BY <1>5, FieldType DEF up, pz, CardState, Good, Sound, Players
    <3> QED
      <4>1. Good(m2) /\ b \in Players /\ loc \in OnField /\ <<loc, n2>> \in Zones
        BY <1>2, <1>5, <1>7
      <4> QED BY <2>6, <3>1, <3>2, <4>1, AddToZoneGood
  <2> HIDE DEF k
  <2>8. /\ \A q \in Players, z \in Zones :
             Zone(k, q, z) = IF q = b /\ z = z2 THEN c
                             ELSE IF Freed(q, z) THEN NoCard ELSE Zone(s, q, z)
        /\ \A q \in Players : \A z :
             z \in Used(k, q) <=> (q = b /\ z = z2) \/ (z \in Used(s, q) /\ ~Freed(q, z))
    <3>1. \A q \in Players, z \in Zones :
             Zone(k, q, z) = IF q = b /\ z = z2 THEN c ELSE Zone(m2, q, z)
      BY <2>7 DEF Seated
    <3>2. \A q \in Players : \A z :
             z \in Used(k, q) <=> (q = b /\ z = z2) \/ z \in Used(m2, q)
      BY <2>7 DEF Seated
    <3> QED BY <2>2, <3>1, <3>2
  <2>9. a = b => z1 # z2 BY <1>6, <1>8 DEF a, b, sx, sy
  <2>10. z1 \notin Used(s, a) \/ z1 = v
    BY <1>2, <1>10 DEF is_location_useable, Used, loc
  <2>11. is_location_useable(k, a, loc, n1)
    <3>1. z1 \notin Used(k, a) BY <1>1, <2>8, <2>9, <2>10
    <3>2. ASSUME loc = "MZONE", n1 >= 5
          PROVE  <<"MZONE", 11 - n1>> \notin Used(k, 1 - a)
      <4>1. n1 = sx BY <1>7, <3>2 DEF sx
      <4>2. v \notin Used(m2, a) BY <1>1, <2>2
      <4>3. <<"MZONE", 11 - n1>> \notin Used(s, 1 - a)
        BY <1>2, <1>1, <2>3, <2>4, <2>5, <3>2, <4>1, <4>2, FreedUseable DEF loc
      <4>4. <<"MZONE", 11 - n1>> # z2 \/ 1 - a # b
        <5> SUFFICES ASSUME <<"MZONE", 11 - n1>> = z2, 1 - a = b
                     PROVE  FALSE
          OBVIOUS
        <5>1. n2 = 11 - n1 /\ n2 >= 5
          <6>1. n1 \in MZones BY <1>7, <3>2 DEF Zones
          <6> QED BY <6>1, ConstantsAssumption
        <5>2. n2 = sy BY <1>7, <5>1 DEF sy
        <5> QED BY <2>3, <4>3, <5>2
      <4> QED BY <2>5, <2>8, <4>3, <4>4
    <3> QED BY <3>1, <3>2 DEF is_location_useable, Used
  <2>12. Seated(k, t, d, a, z1)
    <3>1. SameLists(k, t) BY <1>1, <1>5, <2>1, <2>7 DEF Seated, SameLists
    <3>2. Undisturbed(k, t, Cards \ {d}) /\ SameFaces(k, t, Cards \ {d})
      <4> SUFFICES ASSUME NEW e \in Cards \ {d}
                   PROVE  SameSpot(k, t, e) /\ t.current[e].faceup = k.current[e].faceup
        BY DEF Undisturbed, SameFaces
      <4>1. CASE e = c
        <5>1. /\ k.current[c].controler = b /\ k.current[c].location = loc
              /\ k.current[c].sequence = n2
          BY <2>7 DEF Seated, At, In
        <5>2. /\ t.current[c].controler = b /\ t.current[c].location = loc
              /\ t.current[c].sequence = n2
          BY <2>1 DEF At, In
        <5>3. k.current[c].faceup = up BY <2>7
        <5> QED BY <2>1, <4>1, <5>1, <5>2, <5>3 DEF SameSpot
      <4>2. CASE e # c
        <5>1. SameSpot(m1, s, e) /\ SameSpot(m2, m1, e) /\ SameSpot(m2, k, e)
          BY <1>1, <1>5, <2>7, <4>2 DEF Seated, Undisturbed
        <5>2. /\ s.current[e].faceup = m1.current[e].faceup
              /\ m1.current[e].faceup = m2.current[e].faceup
              /\ k.current[e].faceup = m2.current[e].faceup
          BY <1>1, <1>5, <2>7, <4>2 DEF Seated, SameFaces
        <5>3. t.current[e] = s.current[e] BY <2>1, <4>2
        <5> QED BY <5>1, <5>2, <5>3 DEF SameSpot
      <4> QED BY <4>1, <4>2
    <3>3. Nowhere(k, d)
      <4>1. Nowhere(m2, d) /\ d \in Cards \ {c} BY <1>5 DEF Removed
      <4> QED BY <2>7, <4>1 DEF Seated, Nowhere, Undisturbed, SameSpot
    <3>4. z1 \notin Used(k, a) /\ Zone(k, a, z1) = NoCard
      <4>1. z1 \notin Used(k, a) BY <1>1, <2>8, <2>9, <2>10
      <4> QED BY <1>1, <1>7, <2>7, <4>1 DEF Good, Sound, InUse
    <3>5. /\ Zone(t, a, z1) = d
          /\ \A q \in Players, z \in Zones : q # a \/ z # z1 => Zone(t, q, z) = Zone(k, q, z)
      BY <1>1, <1>7, <2>1, <2>8
    <3>6. \A q \in Players : \A z : z \in Used(s, q) => z \in Zones BY FieldType
    <3>7. /\ Used(t, a) = Used(k, a) \cup {z1}
          /\ \A q \in Players : q # a => Used(t, q) = Used(k, q)
      BY <1>1, <1>7, <2>1, <2>8, <3>6
    <3> QED BY <2>1, <3>1, <3>2, <3>3, <3>4, <3>5, <3>7 DEF Seated
  <2>13. AllIndexed(t)
    <3>1. \A e \in Cards : s.current[e].location \in Piles =>
            t.current[e].sequence = s.current[e].sequence
      BY <1>2, <2>1 DEF Piles, OnField, loc
    <3> QED BY <2>1, <3>1, UnmovedIndexed DEF Good, Sound, AllIndexed
  <2>14. Good(t)
    <3>1. k \in FieldState BY <2>7 DEF Good, Sound
    <3>2. z1[1] = loc /\ z1[2] = n1 OBVIOUS
    <3> QED BY <1>1, <1>7, <2>1, <2>7, <2>11, <2>12, <2>13, <3>1, <3>2, SeatedGood
  <2>15. Undisturbed(s, t, Cards \ {c, d}) BY <2>1 DEF Undisturbed, SameSpot
  <2>16. /\ t.current[c].controler = b /\ t.current[c].location = loc
         /\ t.current[c].sequence = n2
         /\ t.current[d].controler = a /\ t.current[d].location = loc
         /\ t.current[d].sequence = n1
    BY <2>1 DEF At, In
  <2> QED BY <1>2, <1>10, <2>14, <2>15, <2>16 DEF Exchanged, loc, a, b, sx, sy
<1> QED BY <1>9, <1>10

-----------------------------------------------------------------------------
(* Turning a card, shuffling and reversing. *)

LEMMA TurnedUpGood ==
  ASSUME NEW s \in FieldState, Good(s), NEW c \in Cards,
         s.current[c].location = "EXTRA" => c \notin Pendulums, NEW up \in BOOLEAN
  PROVE  Good(TurnedUp(s, c, up)) /\ Undisturbed(s, TurnedUp(s, c, up), Cards)
<1> DEFINE t == TurnedUp(s, c, up)
<1>1. /\ t \in FieldState /\ SameLists(s, t) /\ SameZones(s, t)
      /\ \A d \in Cards : d # c => t.current[d] = s.current[d]
      /\ \A d \in Cards :
           /\ t.current[d].controler = s.current[d].controler
           /\ t.current[d].location = s.current[d].location
           /\ t.current[d].sequence = s.current[d].sequence
  BY TurnedUpState DEF Elsewhere
<1> HIDE DEF t
<1>2. Undisturbed(s, t, Cards) BY <1>1 DEF Undisturbed, SameSpot
<1>3. Members(t) BY <1>1 DEF Good, Sound, Members, In, SameLists
<1>4. Occupied(t)
  <2>1. \A d \in Cards, q \in Players, z \in Zones : At(t, d, q, z) <=> At(s, d, q, z)
    BY <1>1 DEF At, In
  <2> QED BY <1>1, <2>1 DEF Good, Sound, Occupied, SameZones
<1>5. Somewhere(t) BY <1>1 DEF Good, Sound, Somewhere
<1>6. InUse(t) /\ Shared(t) BY <1>1 DEF Good, Sound, InUse, Shared, SameZones, Players
<1>7. FaceupEnd(t)
  <2> SUFFICES ASSUME NEW q \in Players
               PROVE  EndsIn(Buried(t, q), List(t, q, "EXTRA"), Count(t, q), Faceup(t))
    BY DEF FaceupEnd
  <2> DEFINE l == List(s, q, "EXTRA")
  <2>1. /\ EndsIn(Buried(s, q), l, Count(s, q), Faceup(s)) /\ l \in Seq(Cards)
        /\ \A d \in Cards : Listed(l, d) => In(s, d, q, "EXTRA")
    BY FieldType DEF Good, Sound, FaceupEnd, Members, Piles
  <2>2. List(t, q, "EXTRA") = l /\ Count(t, q) = Count(s, q) /\ Buried(t, q) = Buried(s, q)
    BY <1>1 DEF SameLists, Piles
  <2> HIDE DEF l
  <2>3. \A i \in DOMAIN l : l[i] \in Cards /\ (l[i] = c => c \notin Pendulums)
    BY <2>1 DEF Listed, In
  <2>4. \A i \in DOMAIN l : l[i] \in Faceup(s) <=> l[i] \in Faceup(t)
    BY <1>1, <2>3 DEF Faceup, Counts
  <2> QED BY <2>1, <2>2, <2>4, SameEnds
<1>8. Admitted(t) BY <1>2, UndisturbedAdmitted DEF Good, Sound
<1>9. AllIndexed(t) BY <1>1, UnmovedIndexed DEF Good, Sound, AllIndexed
<1> QED
  BY <1>1, <1>2, <1>3, <1>4, <1>5, <1>6, <1>7, <1>8, <1>9 DEF Good, Sound, AllIndexed, t

(* An order of the first n is a permutation of them. *)
LEMMA OrderOnto ==
  ASSUME NEW n \in Nat, NEW f \in [1 .. n -> 1 .. n], IsInjective(f)
  PROVE  \A j \in 1 .. n : \E i \in 1 .. n : f[i] = j
<1>1. f \in Injection(1 .. n, 1 .. n) BY Zenon DEF Injection
<1>3. IsFiniteSet(1 .. n) BY FS_Interval
<1>2. f \in Surjection(1 .. n, 1 .. n) BY <1>1, <1>3, FS_Injection
<1> QED BY <1>2 DEF Surjection

LEMMA MixedMembers ==
  ASSUME NEW l \in Seq(Cards), Once(l), NEW n \in 0 .. Len(l),
         NEW f \in [1 .. n -> 1 .. n], IsInjective(f)
  PROVE  LET r == [i \in DOMAIN l |-> IF i <= n THEN l[f[i]] ELSE l[i]] IN
         /\ r \in Seq(Cards) /\ Len(r) = Len(l) /\ SameMembers(r, l)
         /\ \A b, F : EndsIn(b, l, Len(l) - n, F) => EndsIn(b, r, Len(l) - n, F)
<1> DEFINE N == Len(l)
           r == [i \in DOMAIN l |-> IF i <= n THEN l[f[i]] ELSE l[i]]
<1>1. N \in Nat /\ DOMAIN l = 1 .. N /\ n \in Nat /\ n <= N /\ \A i \in 1 .. N : l[i] \in Cards
  BY LenProperties
<1>2. \A i \in 1 .. n : f[i] \in 1 .. n /\ f[i] \in 1 .. N BY <1>1
<1>3. \A i \in 1 .. N : r[i] = IF i <= n THEN l[f[i]] ELSE l[i] BY <1>1
<1>4. \A i \in 1 .. N : /\ i <= n => i \in 1 .. n /\ r[i] = l[f[i]]
                        /\ ~(i <= n) => r[i] = l[i]
  BY <1>1, <1>3
<1>5. r \in Seq(Cards) /\ Len(r) = N /\ DOMAIN r = 1 .. N
  <2>1. r \in [1 .. N -> Cards] BY <1>1, <1>2
  <2> HIDE DEF r
  <2>2. r \in Seq(Cards) BY <1>1, <2>1, SeqDef
  <2> QED BY <1>1, <2>1, <2>2, LenProperties
<1> HIDE DEF r
<1>6. \A i, j \in 1 .. N : l[i] = l[j] => i = j BY <1>1 DEF Once
<1>7. ASSUME NEW i \in 1 .. N, NEW j \in 1 .. N, r[i] = r[j]
      PROVE  i = j
  <2>1. CASE i <= n /\ j <= n
    <3>1. f[i] = f[j] BY SMTT(20), <1>2, <1>4, <1>6, <1>7, <2>1
    <3> QED BY <1>4, <2>1, <3>1 DEF IsInjective
  <2>2. CASE ~(i <= n) /\ j <= n BY <1>1, <1>2, <1>4, <1>6, <1>7, <2>2
  <2>3. CASE i <= n /\ ~(j <= n) BY <1>1, <1>2, <1>4, <1>6, <1>7, <2>3
  <2>4. CASE ~(i <= n) /\ ~(j <= n) BY <1>4, <1>6, <1>7, <2>4
  <2> QED BY <2>1, <2>2, <2>3, <2>4
<1>8. \A d : Listed(r, d) => Listed(l, d) BY <1>1, <1>2, <1>4, <1>5 DEF Listed
<1>9. ASSUME NEW d, Listed(l, d)
      PROVE  Listed(r, d)
  <2>1. PICK j \in 1 .. N : l[j] = d BY <1>1, <1>9 DEF Listed
  <2>2. CASE j <= n
    <3>3. \A m \in 1 .. n : \E i \in 1 .. n : f[i] = m BY <1>1, OrderOnto
    <3>1. PICK i \in 1 .. n : f[i] = j BY <1>1, <2>1, <2>2, <3>3
    <3>2. i \in 1 .. N /\ r[i] = d BY <1>1, <1>4, <2>1, <3>1
    <3> QED BY <1>5, <3>2 DEF Listed
  <2>3. CASE ~(j <= n) BY <1>4, <1>5, <2>1, <2>3 DEF Listed
  <2> QED BY <2>2, <2>3
<1>10. SameMembers(r, l) BY <1>5, <1>7, <1>8, <1>9 DEF SameMembers, Once
<1>11. ASSUME NEW b, NEW F, EndsIn(b, l, N - n, F)
       PROVE  EndsIn(b, r, N - n, F)
  <2>1. N - (N - n) = n BY <1>1
  <2>2. b \/ \A i \in 1 .. N : i > n <=> l[i] \in F BY <1>1, <1>11, <2>1 DEF EndsIn
  <2>3. b \/ \A i \in 1 .. N : i > n <=> r[i] \in F BY <1>1, <1>2, <1>4, <2>2
  <2>4. Marked(r, F) = Marked(l, F) BY <1>8, <1>9 DEF Marked
  <2> QED BY <1>1, <1>5, <1>11, <2>1, <2>3, <2>4 DEF EndsIn
<1> QED BY <1>5, <1>10, <1>11 DEF r

(* Shuffling; only a deck that was just made from the grave may not have
   its indices yet, when it will be shuffled whatever its length. *)
LEMMA ShuffledGood ==
  ASSUME NEW s \in FieldState, Sound(s), NEW p \in Players, NEW pile \in Piles,
         \A q \in Players, k \in Piles : q # p \/ k # pile => Indexed(s, q, k),
         \/ Indexed(s, p, pile)
         \/ pile = "DECK" /\ ~PseudoShuffle /\ Len(List(s, p, pile)) # 1,
         NEW order \in Orders(s, p, pile)
  PROVE  Good(Shuffled(s, p, pile, order)) /\ Undisturbed(s, Shuffled(s, p, pile, order), Cards)
<1> DEFINE l == List(s, p, pile)
           n == IF pile = "EXTRA" THEN Len(l) - Count(s, p) ELSE Len(l)
           r == [i \in DOMAIN l |-> IF i <= n THEN l[order[i]] ELSE l[i]]
<1>1. /\ Shuffled(s, p, pile, order) =
           IF n <= 1 \/ (pile # "HAND" /\ PseudoShuffle) THEN s
           ELSE reset_sequence(SetList(s, p, pile, r), p, pile)
      /\ order \in [1 .. n -> 1 .. n] /\ IsInjective(order)
  BY DEF Shuffled, Orders, Count, Buried
<1>2. /\ l \in Seq(Cards) /\ Len(l) \in Nat /\ DOMAIN l = 1 .. Len(l)
      /\ Once(l) /\ Count(s, p) \in Nat
      /\ pile = "EXTRA" => EndsIn(Buried(s, p), l, Count(s, p), Faceup(s))
  BY FieldType, LenProperties DEF Sound, Members, FaceupEnd
<1>3. n \in 0 .. Len(l) /\ n \in Nat /\ (pile = "EXTRA" => Len(l) - n = Count(s, p))
  BY <1>2 DEF EndsIn
<1> HIDE DEF n, l
<1>4. CASE n <= 1 \/ (pile # "HAND" /\ PseudoShuffle)
  <2>1. Indexed(s, p, pile)
    <3>1. CASE pile = "DECK" /\ ~PseudoShuffle /\ Len(l) # 1
      <4>1. Len(l) = 0 BY <1>2, <1>3, <1>4, <3>1 DEF n
      <4>2. DOMAIN l = {} BY <1>2, <4>1
      <4> QED BY <4>2 DEF Indexed, l
    <3> QED BY <3>1 DEF l
  <2>2. Good(s) BY <2>1 DEF Good
  <2> QED BY <1>1, <1>4, <2>2 DEF Undisturbed, SameSpot
<1>5. CASE ~(n <= 1 \/ (pile # "HAND" /\ PseudoShuffle))
  <2>1. /\ r \in Seq(Cards) /\ SameMembers(r, l)
        /\ \A b, F : EndsIn(b, l, Len(l) - n, F) => EndsIn(b, r, Len(l) - n, F)
    BY <1>1, <1>2, <1>3, MixedMembers
  <2> HIDE DEF r
  <2>2. pile = "EXTRA" => EndsIn(Buried(s, p), r, Count(s, p), Faceup(s)) BY <1>2, <1>3, <2>1
  <2> QED BY <1>1, <1>5, <2>1, <2>2, Rearranged DEF l
<1> QED BY <1>4, <1>5

LEMMA ReversedGood ==
  ASSUME NEW s \in FieldState, Good(s), NEW p \in Players
  PROVE  LET t == reset_sequence(SetList(s, p, "DECK", Reverse(List(s, p, "DECK"))), p, "DECK")
         IN Good(t) /\ Undisturbed(s, t, Cards)
<1> DEFINE l == List(s, p, "DECK")
           N == Len(l)
           r == Reverse(l)
<1>1. /\ l \in Seq(Cards) /\ N \in Nat /\ DOMAIN l = 1 .. N /\ Once(l)
      /\ \A i \in 1 .. N : l[i] \in Cards
  BY FieldType, LenProperties DEF Good, Sound, Members, Piles
<1> HIDE DEF l
<1>2. r = [i \in 1 .. N |-> l[(N - i) + 1]] BY DEF Reverse
<1>3. \A i \in 1 .. N : (N - i) + 1 \in 1 .. N /\ (N - ((N - i) + 1)) + 1 = i BY <1>1
<1>4. r \in [1 .. N -> Cards] /\ \A i \in 1 .. N : r[i] = l[(N - i) + 1]
  BY <1>1, <1>2, <1>3
<1> HIDE DEF r
<1>5. r \in Seq(Cards) /\ DOMAIN r = 1 .. N BY <1>1, <1>4, SeqDef
<1>6. Once(r)
  <2> SUFFICES ASSUME NEW i \in 1 .. N, NEW j \in 1 .. N, r[i] = r[j]
               PROVE  i = j
    BY <1>5 DEF Once
  <2>1. (N - i) + 1 = (N - j) + 1 BY <1>1, <1>3, <1>4 DEF Once
  <2> QED BY <1>1, <2>1
<1>7. \A d : Listed(r, d) <=> Listed(l, d)
  <2>1. \A d : Listed(r, d) => Listed(l, d) BY <1>1, <1>3, <1>4, <1>5 DEF Listed
  <2>2. \A i \in 1 .. N : r[(N - i) + 1] = l[i] BY <1>3, <1>4
  <2>3. \A d : Listed(l, d) => Listed(r, d) BY <1>1, <1>3, <1>5, <2>2 DEF Listed
  <2> QED BY <2>1, <2>3
<1>8. SameMembers(r, l) BY <1>6, <1>7 DEF SameMembers
<1>9. \A q \in Players, k \in Piles : Indexed(s, q, k) BY DEF Good
<1>10. "DECK" \in Piles /\ "DECK" # "EXTRA" /\ Sound(s) BY DEF Piles, Good
<1>11. reset_sequence(SetList(s, p, "DECK", Reverse(List(s, p, "DECK"))), p, "DECK")
         = reset_sequence(SetList(s, p, "DECK", r), p, "DECK")
  BY DEF r, l
<1> QED BY <1>5, <1>8, <1>9, <1>10, <1>11, Rearranged DEF l

-----------------------------------------------------------------------------
(* Turning the deck over with the grave. *)

(* Numbers in increasing order that take every place are the places. *)
LEMMA IncreasingOnto ==
  ASSUME NEW n \in Nat, NEW f \in [1 .. n -> 1 .. n],
         \A j, k \in 1 .. n : j < k => f[j] < f[k],
         \A j \in 1 .. n : \E k \in 1 .. n : f[k] = j
  PROVE  \A k \in 1 .. n : f[k] = k
<1> DEFINE T == {k \in 1 .. n : f[k] # k}
<1> SUFFICES ASSUME T # {}
             PROVE  FALSE
  OBVIOUS
<1>1. T \in SUBSET Nat OBVIOUS
<1>2. PICK m \in T : \A k \in T : m <= k
  <2>1. PICK m \in T : \A k \in T : <<k, m>> \notin OpToRel(<, Nat)
    BY <1>1, NatLessThanWellFounded, WFMin
  <2>2. \A k \in T : ~(k < m) BY <1>1, <2>1 DEF OpToRel
  <2> QED BY <1>1, <2>2
<1>3. m \in 1 .. n /\ f[m] # m /\ \A k \in 1 .. n : k < m => f[k] = k BY <1>2
<1>4. f[m] > m
  <2>1. CASE f[m] < m BY <1>3, <2>1
  <2> QED BY <1>3, <2>1
<1>5. PICK k \in 1 .. n : f[k] = m BY <1>3
<1>6. CASE k < m BY <1>3, <1>5, <1>6
<1>7. CASE k > m
  <2>1. f[m] < f[k] BY <1>3, <1>7
  <2> QED BY <1>3, <1>4, <1>5, <2>1
<1> QED BY <1>3, <1>5, <1>6, <1>7

LEMMA PickedMembers ==
  ASSUME NEW l \in Seq(Cards), Once(l), NEW S, NEW r \in Picked(l, S)
  PROVE  /\ r \in Seq(Cards) /\ Once(r)
         /\ \A d : Listed(r, d) <=> Listed(l, d) /\ d \in S
         /\ (\A i \in DOMAIN l : l[i] \in S) => r = l
<1> DEFINE N == Len(l)
           at == {i \in DOMAIN l : l[i] \in S}
           n == Cardinality(at)
<1>1. N \in Nat /\ DOMAIN l = 1 .. N /\ \A i \in 1 .. N : l[i] \in Cards
  BY LenProperties
<1>2. PICK f \in SetToSeqs(at) :
        /\ \A j, k \in DOMAIN f : j < k => f[j] < f[k]
        /\ r = [k \in DOMAIN f |-> l[f[k]]]
  BY DEF Picked
<1>3. IsFiniteSet(at) /\ n \in Nat
  <2>1. IsFiniteSet(1 .. N) /\ at \in SUBSET (1 .. N) BY <1>1, FS_Interval
  <2>2. IsFiniteSet(at) BY <2>1, FS_Subset
  <2> QED BY <2>2, FS_CardinalityType
<1>4. f \in [1 .. n -> at] /\ \A i, j \in 1 .. n : i # j => f[i] # f[j] BY DEF SetToSeqs
<1>5. DOMAIN f = 1 .. n BY <1>4
<1>6. \A j \in at : \E k \in 1 .. n : f[k] = j
  <2>1. f \in Injection(1 .. n, at) BY <1>4, Zenon DEF Injection, IsInjective
  <2>2. Cardinality(1 .. n) = n BY <1>3, FS_Interval
  <2>3. f \in Surjection(1 .. n, at) BY <1>3, <2>1, <2>2, FS_Injection
  <2> QED BY <2>3 DEF Surjection
<1>7. \A k \in 1 .. n : f[k] \in 1 .. N /\ l[f[k]] \in S /\ r[k] = l[f[k]]
  BY <1>1, <1>2, <1>4, <1>5
<1>8. r \in Seq(Cards) /\ DOMAIN r = 1 .. n /\ Len(r) = n
  <2> HIDE DEF n
  <2>1. r \in [1 .. n -> Cards] BY <1>1, <1>2, <1>5, <1>7
  <2>2. r \in Seq(Cards) BY <1>3, <2>1, SeqDef
  <2> QED BY <1>3, <2>1, <2>2, LenProperties
<1>9. Once(r)
  <2> SUFFICES ASSUME NEW i \in 1 .. n, NEW j \in 1 .. n, r[i] = r[j]
               PROVE  i = j
    BY <1>8 DEF Once
  <2>1. f[i] = f[j] BY <1>1, <1>7 DEF Once
  <2> QED BY <1>4, <2>1
<1>10. ASSUME NEW d
       PROVE  Listed(r, d) <=> Listed(l, d) /\ d \in S
  <2>1. Listed(r, d) => Listed(l, d) /\ d \in S BY <1>1, <1>7, <1>8 DEF Listed
  <2>2. ASSUME Listed(l, d), d \in S
        PROVE  Listed(r, d)
    <3>1. PICK j \in at : l[j] = d BY <2>2 DEF Listed
    <3>2. PICK k \in 1 .. n : f[k] = j BY <1>6
    <3> QED BY <1>7, <1>8, <3>1, <3>2 DEF Listed
  <2> QED BY <2>1, <2>2
<1>11. ASSUME \A i \in DOMAIN l : l[i] \in S
       PROVE  r = l
  <2>1. at = 1 .. N BY <1>1, <1>11
  <2>2. n = N
    <3>2. N \in Int /\ 1 \in Int /\ (IF 1 > N THEN 0 ELSE N - 1 + 1) = N BY <1>1
    <3> HIDE DEF N
    <3>1. Cardinality(1 .. N) = N BY <3>2, FS_Interval
    <3> QED BY <2>1, <3>1
  <2>3. f \in [1 .. N -> 1 .. N] BY <1>4, <2>1, <2>2
  <2>4. /\ \A j, k \in 1 .. N : j < k => f[j] < f[k]
        /\ \A j \in 1 .. N : \E k \in 1 .. N : f[k] = j
    BY <1>2, <1>5, <1>6, <2>1, <2>2
  <2> HIDE DEF N, n, at
  <2>5. \A k \in 1 .. N : f[k] = k BY <1>1, <2>3, <2>4, IncreasingOnto
  <2>6. \A k \in 1 .. N : r[k] = l[k] BY <1>7, <2>2, <2>5
  <2> QED BY <1>8, <2>2, <2>6, SeqEqual DEF N
<1> QED BY <1>8, <1>9, <1>10, <1>11

(* Cards put into a list before the last ones. *)
LEMMA BetweenMembers ==
  ASSUME NEW l \in Seq(Cards), NEW x \in Seq(Cards), NEW n \in 0 .. Len(l),
         Once(l), Once(x), \A d : ~(Listed(l, d) /\ Listed(x, d))
  PROVE  LET r == SubSeq(l, 1, n) \o x \o SubSeq(l, n + 1, Len(l)) IN
         /\ r \in Seq(Cards) /\ Once(r)
         /\ \A d : Listed(r, d) <=> Listed(l, d) \/ Listed(x, d)
         /\ \A y, F : EndsIn(y, l, Len(l) - n, F) /\ (\A i \in DOMAIN x : x[i] \notin F)
              => EndsIn(y, r, Len(l) - n, F)
<1> DEFINE a == SubSeq(l, 1, n)
           b == SubSeq(l, n + 1, Len(l))
           ax == a \o x
           r == ax \o b
           N == Len(l)
           X == Len(x)
<1>1. N \in Nat /\ n \in Nat /\ n <= N /\ X \in Nat /\ DOMAIN l = 1 .. N /\ DOMAIN x = 1 .. X
  BY LenProperties
<1>2. /\ a \in Seq(Cards) /\ Len(a) = n
      /\ \A k \in 1 .. n : a[k] = l[k]
      /\ b \in Seq(Cards) /\ Len(b) = N - n
      /\ \A k \in 1 .. N - n : b[k] = l[n + k]
  BY Split
<1> HIDE DEF a, b
<1>3. /\ ax \in Seq(Cards) /\ Len(ax) = n + X
      /\ \A k \in 1 .. n + X : ax[k] = IF k <= n THEN a[k] ELSE x[k - n]
  BY <1>2, ConcatProperties
<1> HIDE DEF ax
<1>4. /\ r \in Seq(Cards) /\ Len(r) = n + X + (N - n)
      /\ \A k \in 1 .. n + X + (N - n) : r[k] = IF k <= n + X THEN ax[k] ELSE b[k - (n + X)]
  <2>1. /\ r \in Seq(Cards) /\ Len(r) = Len(ax) + Len(b)
        /\ \A k \in 1 .. Len(ax) + Len(b) :
             r[k] = IF k <= Len(ax) THEN ax[k] ELSE b[k - Len(ax)]
    <3>1. ax \in Seq(Cards) /\ b \in Seq(Cards) BY <1>2, <1>3
    <3> QED BY <3>1, ConcatProperties
  <2>2. Len(ax) + Len(b) = n + X + (N - n) BY <1>2, <1>3
  <2> HIDE DEF r
  <2> QED BY <1>3, <2>1, <2>2
<1>5. Len(r) = N + X /\ DOMAIN r = 1 .. N + X
  <2>1. n + X + (N - n) = N + X BY <1>1
  <2> QED BY <1>4, <2>1, LenProperties
<1> HIDE DEF r, N, X
<1>6. \A k \in 1 .. N + X :
        \/ k <= n /\ k \in 1 .. N /\ r[k] = l[k]
        \/ k > n /\ k <= n + X /\ k - n \in 1 .. X /\ r[k] = x[k - n]
        \/ k > n + X /\ k - X \in 1 .. N /\ k - X > n /\ r[k] = l[k - X]
  <2> SUFFICES ASSUME NEW k \in 1 .. N + X
               PROVE  \/ k <= n /\ k \in 1 .. N /\ r[k] = l[k]
                      \/ k > n /\ k <= n + X /\ k - n \in 1 .. X /\ r[k] = x[k - n]
                      \/ k > n + X /\ k - X \in 1 .. N /\ k - X > n /\ r[k] = l[k - X]
    OBVIOUS
  <2>0. k \in 1 .. n + X + (N - n) BY <1>1
  <2>1. CASE k <= n
    <3>1. r[k] = ax[k] /\ ax[k] = a[k] /\ a[k] = l[k]
      BY <1>1, <1>2, <1>3, <1>4, <2>0, <2>1
    <3> QED BY <1>1, <2>1, <3>1
  <2>2. CASE k > n /\ k <= n + X
    <3>1. r[k] = ax[k] /\ ax[k] = x[k - n] BY <1>1, <1>3, <1>4, <2>0, <2>2
    <3> QED BY <1>1, <2>2, <3>1
  <2>3. CASE k > n + X
    <3>1. k - (n + X) \in 1 .. N - n /\ n + (k - (n + X)) = k - X BY <1>1, <2>3
    <3>2. r[k] = b[k - (n + X)] /\ b[k - (n + X)] = l[k - X]
      BY <1>1, <1>2, <1>4, <2>0, <2>3, <3>1
    <3> QED BY <1>1, <2>3, <3>2
  <2> QED BY <1>1, <2>1, <2>2, <2>3
<1>7. /\ \A j \in 1 .. N : j <= n => j \in 1 .. N + X /\ r[j] = l[j]
      /\ \A j \in 1 .. N : j > n => j + X \in 1 .. N + X /\ r[j + X] = l[j]
      /\ \A j \in 1 .. X : n + j \in 1 .. N + X /\ r[n + j] = x[j]
  <2>1. ASSUME NEW j \in 1 .. N, j <= n
        PROVE  j \in 1 .. N + X /\ r[j] = l[j]
    BY <1>1, <1>6, <2>1
  <2>2. ASSUME NEW j \in 1 .. N, j > n
        PROVE  j + X \in 1 .. N + X /\ r[j + X] = l[j]
    <3>1. j + X \in 1 .. N + X /\ j + X > n + X /\ (j + X) - X = j BY <1>1, <2>2
    <3> QED BY <1>1, <1>6, <3>1
  <2>3. ASSUME NEW j \in 1 .. X
        PROVE  n + j \in 1 .. N + X /\ r[n + j] = x[j]
    <3>1. n + j \in 1 .. N + X /\ n + j > n /\ n + j <= n + X /\ (n + j) - n = j BY <1>1
    <3> QED BY <1>1, <1>6, <3>1
  <2> QED BY <2>1, <2>2, <2>3
<1>8. /\ \A i, j \in 1 .. N : l[i] = l[j] => i = j
      /\ \A i, j \in 1 .. X : x[i] = x[j] => i = j
      /\ \A i \in 1 .. N, j \in 1 .. X : l[i] # x[j]
  BY <1>1 DEF Once, Listed
<1>9. Once(r)
  <2> SUFFICES ASSUME NEW i \in 1 .. N + X, NEW j \in 1 .. N + X, r[i] = r[j]
               PROVE  i = j
    BY <1>5 DEF Once
  <2> QED BY <1>1, <1>6, <1>8
<1>10. \A d : Listed(r, d) <=> Listed(l, d) \/ Listed(x, d)
  <2>1. ASSUME NEW d, Listed(r, d)
        PROVE  Listed(l, d) \/ Listed(x, d)
    BY <1>1, <1>5, <1>6, <2>1 DEF Listed
  <2>2. ASSUME NEW d, Listed(l, d) \/ Listed(x, d)
        PROVE  Listed(r, d)
    <3>1. CASE Listed(l, d)
      <4>1. PICK j \in 1 .. N : l[j] = d BY <1>1, <3>1 DEF Listed
      <4>2. j <= n \/ j > n BY <1>1
      <4> QED BY <1>5, <1>7, <4>1, <4>2 DEF Listed
    <3>2. CASE Listed(x, d) BY <1>1, <1>5, <1>7, <3>2 DEF Listed
    <3> QED BY <2>2, <3>1, <3>2
  <2> QED BY <2>1, <2>2
<1>11. ASSUME NEW y, NEW F, EndsIn(y, l, N - n, F), \A i \in DOMAIN x : x[i] \notin F
       PROVE  EndsIn(y, r, N - n, F)
  <2>1. N - (N - n) = n /\ (N + X) - (N - n) = n + X /\ N - n <= N + X BY <1>1
  <2>2. y \/ \A i \in 1 .. N : i > n <=> l[i] \in F BY <1>1, <1>11, <2>1 DEF EndsIn, N
  <2>3. \A i \in 1 .. X : x[i] \notin F BY <1>1, <1>11
  <2>4. y \/ \A i \in 1 .. N + X : i > n + X <=> r[i] \in F BY <1>1, <1>6, <2>2, <2>3
  <2>5. \A d : Listed(x, d) => d \notin F BY <1>11 DEF Listed
  <2>6. Marked(r, F) = Marked(l, F) BY <1>9, <1>10, <2>5 DEF Marked
  <2>7. N - n = Cardinality(Marked(l, F)) BY <1>11 DEF EndsIn, N
  <2> QED BY <1>5, <2>1, <2>4, <2>6, <2>7 DEF EndsIn
<1> QED BY <1>4, <1>9, <1>10, <1>11 DEF r, ax, a, b, N

SetCurrent(s, f) == [s EXCEPT !.current = f]

LEMMA CurrentState ==
  ASSUME NEW s \in FieldState, NEW f \in [Cards -> CardState]
  PROVE  LET t == SetCurrent(s, f) IN
         t \in FieldState /\ t.current = f /\ SameLists(s, t) /\ SameZones(s, t)
<1>1. /\ SetCurrent(s, f).player = s.player /\ SetCurrent(s, f).current = f
      /\ SetCurrent(s, f) \in FieldState
  BY DEF SetCurrent, FieldState
<1> QED BY <1>1 DEF SameLists, SameZones, List, Count, Buried, Zone, Used

(* The deck of a player has changed places with the grave, whose extra deck
   monsters are in the extra deck. *)
TurnedOver(s, t, p) ==
  \A c \in Cards :
    /\ t.current[c].controler = s.current[c].controler
    /\ In(s, c, p, "DECK") => t.current[c].location = "GRAVE"
    /\ In(s, c, p, "GRAVE") =>
         t.current[c].location = IF c \in ExtraMonsters THEN "EXTRA" ELSE "DECK"
    /\ ~In(s, c, p, "DECK") /\ ~In(s, c, p, "GRAVE") => SameSpot(s, t, c)

LEMMA TurnoverState ==
  ASSUME NEW s \in FieldState, Good(s), NEW p \in Players,
         NEW deck \in Picked(List(s, p, "GRAVE"), Cards \ ExtraMonsters),
         NEW extra \in Picked(List(s, p, "GRAVE"), ExtraMonsters)
  PROVE  \E u \in FieldState, r \in Seq(Cards) :
           /\ Turnover(s, p, deck, extra) = reset_sequence(reset_sequence(u, p, "GRAVE"), p, "EXTRA")
           /\ SameZones(s, u)
           /\ \A q \in Players, k \in Piles :
                List(u, q, k) = IF q = p /\ k = "DECK" THEN deck
                                ELSE IF q = p /\ k = "GRAVE" THEN List(s, p, "DECK")
                                ELSE IF q = p /\ k = "EXTRA" THEN r ELSE List(s, q, k)
           /\ \A q \in Players : Count(u, q) = Count(s, q) /\ Buried(u, q) = Buried(s, q)
           /\ TurnedOver(s, u, p)
           /\ \A c \in Cards :
                /\ u.current[c].sequence = s.current[c].sequence
                /\ ~In(s, c, p, "DECK") /\ ~In(s, c, p, "GRAVE") => u.current[c] = s.current[c]
                /\ In(s, c, p, "GRAVE") => ~u.current[c].faceup
           /\ Once(r)
           /\ \A c \in Cards : Listed(r, c) <=> \/ In(s, c, p, "EXTRA")
                                                \/ In(s, c, p, "GRAVE") /\ c \in ExtraMonsters
           /\ EndsIn(Buried(s, p), r, Count(s, p), Faceup(u))
           /\ deck \in Seq(Cards) /\ Once(deck)
           /\ \A c \in Cards : Listed(deck, c) <=> In(s, c, p, "GRAVE") /\ c \notin ExtraMonsters
           /\ extra = <<>> => deck = List(s, p, "GRAVE")
<1> DEFINE D == List(s, p, "DECK")
           G == List(s, p, "GRAVE")
           E == List(s, p, "EXTRA")
           n == Len(E) - Count(s, p)
           r == BeforeFaceup(s, p, extra)
<1>1. /\ D \in Seq(Cards) /\ G \in Seq(Cards) /\ E \in Seq(Cards)
      /\ Once(D) /\ Once(G) /\ Once(E)
      /\ \A c \in Cards : /\ Listed(D, c) <=> In(s, c, p, "DECK")
                          /\ Listed(G, c) <=> In(s, c, p, "GRAVE")
                          /\ Listed(E, c) <=> In(s, c, p, "EXTRA")
  BY FieldType DEF Good, Sound, Members, Piles
<1>2. /\ deck \in Seq(Cards) /\ Once(deck)
      /\ \A d : Listed(deck, d) <=> Listed(G, d) /\ d \in Cards \ ExtraMonsters
      /\ (\A i \in DOMAIN G : G[i] \in Cards \ ExtraMonsters) => deck = G
  BY <1>1, PickedMembers
<1>3. /\ extra \in Seq(Cards) /\ Once(extra)
      /\ \A d : Listed(extra, d) <=> Listed(G, d) /\ d \in ExtraMonsters
  BY <1>1, PickedMembers
<1>4. extra = <<>> => deck = G
  <2>1. extra = <<>> => \A d : ~Listed(extra, d) BY DEF Listed
  <2>2. \A i \in DOMAIN G : G[i] \in Cards /\ Listed(G, G[i])
    BY <1>1, LenProperties DEF Listed
  <2> QED BY <1>2, <1>3, <2>1, <2>2
<1>5. /\ EndsIn(Buried(s, p), E, Count(s, p), Faceup(s)) /\ Count(s, p) \in Nat /\ Len(E) \in Nat
      /\ n \in 0 .. Len(E) /\ Len(E) - n = Count(s, p)
  <2>1. EndsIn(Buried(s, p), E, Count(s, p), Faceup(s)) /\ Count(s, p) \in Nat /\ Len(E) \in Nat
    BY <1>1, FieldType, LenProperties DEF Good, Sound, FaceupEnd
  <2> HIDE DEF E
  <2> QED BY <2>1 DEF EndsIn
<1>6. r = SubSeq(E, 1, n) \o extra \o SubSeq(E, n + 1, Len(E))
  BY DEF BeforeFaceup, Count, Buried
<1> HIDE DEF D, G, E, n, r
<1>7. \A d : ~(Listed(E, d) /\ Listed(extra, d))
  <2>1. \A d : Listed(E, d) => d \in Cards BY <1>1, LenProperties DEF Listed
  <2> QED BY <1>1, <1>3, <2>1 DEF In
<1>8. /\ r \in Seq(Cards) /\ Once(r)
      /\ \A d : Listed(r, d) <=> Listed(E, d) \/ Listed(extra, d)
      /\ \A F : EndsIn(Buried(s, p), E, Count(s, p), F) /\ (\A i \in DOMAIN extra : extra[i] \notin F)
           => EndsIn(Buried(s, p), r, Count(s, p), F)
  BY <1>1, <1>3, <1>5, <1>6, <1>7, BetweenMembers
<1> DEFINE v == SetList(SetList(SetList(s, p, "DECK", deck), p, "GRAVE", D), p, "EXTRA", r)
           Turned(c) ==
             CASE c \in Range(D) -> [s.current[c] EXCEPT !.location = "GRAVE", !.faceup = TRUE]
               [] c \in Range(deck) -> [s.current[c] EXCEPT !.location = "DECK", !.faceup = FALSE]
               [] c \in Range(extra) -> [s.current[c] EXCEPT !.location = "EXTRA", !.faceup = FALSE]
               [] OTHER -> s.current[c]
           f == [c \in Cards |-> Turned(c)]
           u == SetCurrent(v, f)
<1>9. Turnover(s, p, deck, extra) = reset_sequence(reset_sequence(u, p, "GRAVE"), p, "EXTRA")
  BY DEF Turnover, SetCurrent, D, r
<1>10. /\ v \in FieldState /\ SameZones(s, v)
       /\ \A q \in Players, k \in Piles :
            List(v, q, k) = IF q = p /\ k = "DECK" THEN deck
                            ELSE IF q = p /\ k = "GRAVE" THEN D
                            ELSE IF q = p /\ k = "EXTRA" THEN r ELSE List(s, q, k)
       /\ \A q \in Players : Count(v, q) = Count(s, q) /\ Buried(v, q) = Buried(s, q)
  <2> DEFINE a == SetList(s, p, "DECK", deck)
             b == SetList(a, p, "GRAVE", D)
  <2>0. "DECK" \in Piles /\ "GRAVE" \in Piles /\ "EXTRA" \in Piles BY DEF Piles
  <2>1. /\ a \in FieldState /\ SameZones(s, a)
        /\ \A q \in Players :
             /\ \A k \in Piles : List(a, q, k) = IF q = p /\ k = "DECK" THEN deck ELSE List(s, q, k)
             /\ Count(a, q) = Count(s, q) /\ Buried(a, q) = Buried(s, q)
    BY <1>2, <2>0, SetListState
  <2> HIDE DEF a
  <2>2. /\ b \in FieldState /\ SameZones(a, b)
        /\ \A q \in Players :
             /\ \A k \in Piles : List(b, q, k) = IF q = p /\ k = "GRAVE" THEN D ELSE List(a, q, k)
             /\ Count(b, q) = Count(a, q) /\ Buried(b, q) = Buried(a, q)
    BY <1>1, <2>0, <2>1, SetListState
  <2> HIDE DEF b
  <2>3. /\ v \in FieldState /\ SameZones(b, v)
        /\ \A q \in Players :
             /\ \A k \in Piles : List(v, q, k) = IF q = p /\ k = "EXTRA" THEN r ELSE List(b, q, k)
             /\ Count(v, q) = Count(b, q) /\ Buried(v, q) = Buried(b, q)
    <3>1. v = SetList(b, p, "EXTRA", r) BY DEF a, b
    <3> HIDE DEF v
    <3> QED BY <1>8, <2>0, <2>2, <3>1, SetListState
  <2> HIDE DEF v
  <2>4. SameZones(s, v) BY <2>1, <2>2, <2>3 DEF SameZones
  <2>5. \A q \in Players, k \in Piles :
            List(v, q, k) = IF q = p /\ k = "DECK" THEN deck
                            ELSE IF q = p /\ k = "GRAVE" THEN D
                            ELSE IF q = p /\ k = "EXTRA" THEN r ELSE List(s, q, k)
    BY <2>1, <2>2, <2>3
  <2> QED BY <2>1, <2>2, <2>3, <2>4, <2>5
<1> HIDE DEF v
<1>11. \A c \in Cards :
         /\ c \in Range(D) <=> In(s, c, p, "DECK")
         /\ c \in Range(deck) <=> In(s, c, p, "GRAVE") /\ c \notin ExtraMonsters
         /\ c \in Range(extra) <=> In(s, c, p, "GRAVE") /\ c \in ExtraMonsters
  <2>1. \A l, c : c \in Range(l) <=> Listed(l, c) BY DEF Range, Listed
  <2> QED BY <1>1, <1>2, <1>3, <2>1
<1>12. \A c \in Cards :
         /\ In(s, c, p, "DECK") =>
              Turned(c) = [s.current[c] EXCEPT !.location = "GRAVE", !.faceup = TRUE]
         /\ In(s, c, p, "GRAVE") =>
              Turned(c) = [s.current[c] EXCEPT !.location = IF c \in ExtraMonsters THEN "EXTRA"
                                                            ELSE "DECK",
                                               !.faceup = FALSE]
         /\ ~In(s, c, p, "DECK") /\ ~In(s, c, p, "GRAVE") => Turned(c) = s.current[c]
  <2> SUFFICES ASSUME NEW c \in Cards
               PROVE  /\ In(s, c, p, "DECK") =>
                           Turned(c) = [s.current[c] EXCEPT !.location = "GRAVE", !.faceup = TRUE]
                      /\ In(s, c, p, "GRAVE") =>
                           Turned(c) = [s.current[c] EXCEPT !.location = IF c \in ExtraMonsters
                                                                         THEN "EXTRA" ELSE "DECK",
                                                            !.faceup = FALSE]
                      /\ ~In(s, c, p, "DECK") /\ ~In(s, c, p, "GRAVE") => Turned(c) = s.current[c]
    OBVIOUS
  <2>1. ~(In(s, c, p, "DECK") /\ In(s, c, p, "GRAVE")) BY DEF In
  <2>2. CASE In(s, c, p, "DECK") BY <1>11, <2>1, <2>2
  <2>3. CASE In(s, c, p, "GRAVE") /\ c \in ExtraMonsters BY <1>11, <2>1, <2>3
  <2>4. CASE In(s, c, p, "GRAVE") /\ c \notin ExtraMonsters BY <1>11, <2>1, <2>4
  <2>5. CASE ~In(s, c, p, "DECK") /\ ~In(s, c, p, "GRAVE") BY <1>11, <2>5
  <2> QED BY <2>1, <2>2, <2>3, <2>4, <2>5
<1> HIDE DEF Turned
<1>13. \A c \in Cards :
         /\ Turned(c) \in CardState
         /\ Turned(c).controler = s.current[c].controler
         /\ Turned(c).sequence = s.current[c].sequence
         /\ In(s, c, p, "DECK") => Turned(c).location = "GRAVE"
         /\ In(s, c, p, "GRAVE") =>
              /\ Turned(c).location = IF c \in ExtraMonsters THEN "EXTRA" ELSE "DECK"
              /\ Turned(c).faceup = FALSE
  <2> SUFFICES ASSUME NEW c \in Cards
               PROVE  /\ Turned(c) \in CardState
                      /\ Turned(c).controler = s.current[c].controler
                      /\ Turned(c).sequence = s.current[c].sequence
                      /\ In(s, c, p, "DECK") => Turned(c).location = "GRAVE"
                      /\ In(s, c, p, "GRAVE") =>
                           /\ Turned(c).location = IF c \in ExtraMonsters THEN "EXTRA" ELSE "DECK"
                           /\ Turned(c).faceup = FALSE
    OBVIOUS
  <2>1. s.current[c] \in CardState BY FieldType
  <2> DEFINE cur == s.current[c]
  <2> HIDE DEF cur
  <2>2. cur \in CardState BY <2>1 DEF cur
  <2>3. ~(In(s, c, p, "DECK") /\ In(s, c, p, "GRAVE")) BY DEF In
  <2>4. CASE In(s, c, p, "DECK")
    <3>1. Turned(c) = [cur EXCEPT !.location = "GRAVE", !.faceup = TRUE]
      BY <1>12, <2>4 DEF cur
    <3>2. /\ Turned(c) \in CardState /\ Turned(c).controler = cur.controler
          /\ Turned(c).sequence = cur.sequence /\ Turned(c).location = "GRAVE"
      BY <2>2, <3>1 DEF CardState, Piles
    <3> QED BY <2>3, <2>4, <3>2 DEF cur
  <2>5. CASE In(s, c, p, "GRAVE")
    <3> DEFINE where == IF c \in ExtraMonsters THEN "EXTRA" ELSE "DECK"
    <3>1. Turned(c) = [cur EXCEPT !.location = where, !.faceup = FALSE]
      BY <1>12, <2>5 DEF cur
    <3>2. where \in Piles BY DEF Piles
    <3> HIDE DEF where
    <3>3. /\ Turned(c) \in CardState /\ Turned(c).controler = cur.controler
          /\ Turned(c).sequence = cur.sequence /\ Turned(c).location = where
          /\ Turned(c).faceup = FALSE
      BY <2>2, <3>1, <3>2 DEF CardState
    <3> QED BY <2>3, <2>5, <3>3 DEF cur, where
  <2>6. CASE ~In(s, c, p, "DECK") /\ ~In(s, c, p, "GRAVE") BY <1>12, <2>1, <2>6
  <2> QED BY <2>4, <2>5, <2>6
<1>14. /\ f \in [Cards -> CardState] /\ \A c \in Cards : f[c] = Turned(c) BY <1>13
<1> HIDE DEF f
<1>15. u \in FieldState /\ u.current = f /\ SameLists(v, u) /\ SameZones(v, u)
  BY <1>10, <1>14, CurrentState
<1> HIDE DEF u
<1>16. /\ SameZones(s, u)
       /\ \A q \in Players, k \in Piles :
            List(u, q, k) = IF q = p /\ k = "DECK" THEN deck
                            ELSE IF q = p /\ k = "GRAVE" THEN D
                            ELSE IF q = p /\ k = "EXTRA" THEN r ELSE List(s, q, k)
       /\ \A q \in Players : Count(u, q) = Count(s, q) /\ Buried(u, q) = Buried(s, q)
  BY <1>10, <1>15 DEF SameZones, SameLists
<1>17. \A c \in Cards : u.current[c] = Turned(c) BY <1>14, <1>15
<1>18. TurnedOver(s, u, p) BY <1>12, <1>13, <1>17 DEF TurnedOver, SameSpot
<1>19. \A c \in Cards :
         /\ u.current[c].sequence = s.current[c].sequence
         /\ ~In(s, c, p, "DECK") /\ ~In(s, c, p, "GRAVE") => u.current[c] = s.current[c]
         /\ In(s, c, p, "GRAVE") => ~u.current[c].faceup
  BY <1>12, <1>13, <1>17
<1>20. EndsIn(Buried(s, p), r, Count(s, p), Faceup(u))
  <2>1. \A i \in DOMAIN E : E[i] \in Cards /\ In(s, E[i], p, "EXTRA")
    BY <1>1, LenProperties DEF Listed
  <2>2. \A i \in DOMAIN E : E[i] \in Faceup(s) <=> E[i] \in Faceup(u)
    BY <1>19, <2>1 DEF Faceup, Counts, In
  <2>3. EndsIn(Buried(s, p), E, Count(s, p), Faceup(u)) BY <1>5, <2>2, SameEnds
  <2>4. \A i \in DOMAIN extra : extra[i] \in Cards /\ In(s, extra[i], p, "GRAVE")
    <3>1. \A i \in DOMAIN extra : extra[i] \in Cards BY <1>3, LenProperties
    <3>2. \A i \in DOMAIN extra : Listed(extra, extra[i]) BY DEF Listed
    <3> QED BY <1>1, <1>3, <3>1, <3>2
  <2>5. \A i \in DOMAIN extra : extra[i] \notin Faceup(u) BY <1>19, <2>4 DEF Faceup, Counts
  <2> QED BY <1>8, <2>3, <2>5
<1>21. \A c \in Cards :
         /\ Listed(r, c) <=> \/ In(s, c, p, "EXTRA")
                             \/ In(s, c, p, "GRAVE") /\ c \in ExtraMonsters
         /\ Listed(deck, c) <=> In(s, c, p, "GRAVE") /\ c \notin ExtraMonsters
  BY <1>1, <1>2, <1>3, <1>8
<1>22. List(s, p, "DECK") = D /\ List(s, p, "GRAVE") = G BY DEF D, G
<1> QED BY <1>2, <1>4, <1>8, <1>9, <1>15, <1>16, <1>18, <1>19, <1>20, <1>21, <1>22

LEMMA TurnoverGood ==
  ASSUME NEW s \in FieldState, Good(s), NEW p \in Players,
         NEW deck \in Picked(List(s, p, "GRAVE"), Cards \ ExtraMonsters),
         NEW extra \in Picked(List(s, p, "GRAVE"), ExtraMonsters)
  PROVE  LET t == Turnover(s, p, deck, extra) IN
         /\ Sound(t) /\ TurnedOver(s, t, p) /\ List(t, p, "DECK") = deck
         /\ \A q \in Players, k \in Piles : q # p \/ k # "DECK" => Indexed(t, q, k)
         /\ extra = <<>> => Indexed(t, p, "DECK")
<1>1. PICK u \in FieldState, r \in Seq(Cards) :
           /\ Turnover(s, p, deck, extra) = reset_sequence(reset_sequence(u, p, "GRAVE"), p, "EXTRA")
           /\ SameZones(s, u)
           /\ \A q \in Players, k \in Piles :
                List(u, q, k) = IF q = p /\ k = "DECK" THEN deck
                                ELSE IF q = p /\ k = "GRAVE" THEN List(s, p, "DECK")
                                ELSE IF q = p /\ k = "EXTRA" THEN r ELSE List(s, q, k)
           /\ \A q \in Players : Count(u, q) = Count(s, q) /\ Buried(u, q) = Buried(s, q)
           /\ TurnedOver(s, u, p)
           /\ \A c \in Cards :
                /\ u.current[c].sequence = s.current[c].sequence
                /\ ~In(s, c, p, "DECK") /\ ~In(s, c, p, "GRAVE") => u.current[c] = s.current[c]
                /\ In(s, c, p, "GRAVE") => ~u.current[c].faceup
           /\ Once(r)
           /\ \A c \in Cards : Listed(r, c) <=> \/ In(s, c, p, "EXTRA")
                                                \/ In(s, c, p, "GRAVE") /\ c \in ExtraMonsters
           /\ EndsIn(Buried(s, p), r, Count(s, p), Faceup(u))
           /\ deck \in Seq(Cards) /\ Once(deck)
           /\ \A c \in Cards : Listed(deck, c) <=> In(s, c, p, "GRAVE") /\ c \notin ExtraMonsters
           /\ extra = <<>> => deck = List(s, p, "GRAVE")
  BY TurnoverState
<1>2. /\ "DECK" \in Piles /\ "GRAVE" \in Piles /\ "EXTRA" \in Piles
      /\ "NONE" \notin Piles /\ Piles \cap OnField = {}
  BY DEF Piles, OnField
<1>3. \A q \in Players, k \in Piles :
        /\ Once(List(s, q, k))
        /\ \A c \in Cards : Listed(List(s, q, k), c) <=> In(s, c, q, k)
  BY DEF Good, Sound, Members
<1>4. \A c \in Cards :
        /\ u.current[c].controler = s.current[c].controler
        /\ In(s, c, p, "DECK") => u.current[c].location = "GRAVE"
        /\ In(s, c, p, "GRAVE") =>
             u.current[c].location = IF c \in ExtraMonsters THEN "EXTRA" ELSE "DECK"
        /\ ~In(s, c, p, "DECK") /\ ~In(s, c, p, "GRAVE") =>
             u.current[c].location = s.current[c].location
  BY <1>1 DEF TurnedOver, SameSpot
<1>5. Members(u)
  <2> SUFFICES ASSUME NEW q \in Players, NEW k \in Piles
               PROVE  /\ Once(List(u, q, k))
                      /\ \A c \in Cards : Listed(List(u, q, k), c) <=> In(u, c, q, k)
    BY DEF Members
  <2>1. CASE q = p /\ k = "DECK"
    <3>1. List(u, q, k) = deck BY <1>1, <2>1
    <3>2. \A c \in Cards : In(u, c, q, k) <=> In(s, c, p, "GRAVE") /\ c \notin ExtraMonsters
      BY <1>4, <2>1 DEF In
    <3> QED BY <1>1, <3>1, <3>2
  <2>2. CASE q = p /\ k = "GRAVE"
    <3>1. List(u, q, k) = List(s, p, "DECK") BY <1>1, <2>2
    <3>2. \A c \in Cards : In(u, c, q, k) <=> In(s, c, p, "DECK") BY <1>4, <2>2 DEF In
    <3> QED BY <1>2, <1>3, <3>1, <3>2
  <2>3. CASE q = p /\ k = "EXTRA"
    <3>1. List(u, q, k) = r BY <1>1, <2>3
    <3>2. \A c \in Cards : In(u, c, q, k) <=> \/ In(s, c, p, "EXTRA")
                                              \/ In(s, c, p, "GRAVE") /\ c \in ExtraMonsters
      BY <1>4, <2>3 DEF In
    <3> QED BY <1>1, <3>1, <3>2
  <2>4. CASE q # p \/ k \notin {"DECK", "GRAVE", "EXTRA"}
    <3>1. List(u, q, k) = List(s, q, k) BY <1>1, <2>4
    <3>2. \A c \in Cards : In(u, c, q, k) <=> In(s, c, q, k) BY <1>4, <2>4 DEF In
    <3> QED BY <1>3, <3>1, <3>2
  <2> QED BY <2>1, <2>2, <2>3, <2>4
<1> DEFINE v == reset_sequence(u, p, "GRAVE")
           t == reset_sequence(v, p, "EXTRA")
<1>6. /\ List(u, p, "GRAVE") = List(s, p, "DECK") /\ List(u, p, "EXTRA") = r
      /\ List(u, p, "DECK") = deck
  BY <1>1, <1>2
<1>7. /\ v \in FieldState /\ SameLists(u, v) /\ SameZones(u, v)
      /\ \A c \in Cards :
           /\ v.current[c].controler = u.current[c].controler
           /\ v.current[c].location = u.current[c].location
           /\ v.current[c].faceup = u.current[c].faceup
           /\ ~Listed(List(u, p, "GRAVE"), c) => v.current[c] = u.current[c]
      /\ \A i \in DOMAIN List(u, p, "GRAVE") : v.current[List(u, p, "GRAVE")[i]].sequence = i - 1
  BY <1>2, <1>3, <1>6, ResetState
<1> HIDE DEF v
<1>8. List(v, p, "EXTRA") = r BY <1>2, <1>6, <1>7 DEF SameLists
<1>9. /\ t \in FieldState /\ SameLists(v, t) /\ SameZones(v, t)
      /\ \A c \in Cards :
           /\ t.current[c].controler = v.current[c].controler
           /\ t.current[c].location = v.current[c].location
           /\ t.current[c].faceup = v.current[c].faceup
           /\ ~Listed(r, c) => t.current[c] = v.current[c]
      /\ \A i \in DOMAIN r : t.current[r[i]].sequence = i - 1
  BY <1>1, <1>2, <1>7, <1>8, ResetState
<1> HIDE DEF t
<1>10. /\ SameZones(s, t) /\ SameLists(u, t)
       /\ \A c \in Cards :
            /\ t.current[c].controler = u.current[c].controler
            /\ t.current[c].location = u.current[c].location
            /\ t.current[c].faceup = u.current[c].faceup
            /\ ~Listed(r, c) /\ ~Listed(List(u, p, "GRAVE"), c) => t.current[c] = u.current[c]
  BY <1>1, <1>7, <1>9 DEF SameZones, SameLists
<1>11. \A c \in Cards, q \in Players, k \in Piles : In(t, c, q, k) <=> In(u, c, q, k)
  BY <1>10 DEF In
<1>12. Members(t) BY <1>5, <1>10, <1>11 DEF Members, SameLists
<1>13. \A c \in Cards : ~In(s, c, p, "DECK") /\ ~In(s, c, p, "GRAVE") /\ ~In(s, c, p, "EXTRA") =>
         t.current[c] = s.current[c]
  BY <1>1, <1>2, <1>3, <1>6, <1>10
<1>14. \A c \in Cards : \/ t.current[c] = s.current[c]
                        \/ /\ t.current[c].location \in Piles /\ s.current[c].location \in Piles
                           /\ t.current[c].controler = s.current[c].controler
  <2> SUFFICES ASSUME NEW c \in Cards
               PROVE  \/ t.current[c] = s.current[c]
                      \/ /\ t.current[c].location \in Piles /\ s.current[c].location \in Piles
                         /\ t.current[c].controler = s.current[c].controler
    OBVIOUS
  <2>1. CASE In(s, c, p, "DECK") BY <1>2, <1>4, <1>10, <2>1 DEF In
  <2>2. CASE In(s, c, p, "GRAVE") BY <1>2, <1>4, <1>10, <2>2 DEF In
  <2>3. CASE In(s, c, p, "EXTRA") BY <1>1, <1>2, <1>10, <2>3 DEF In
  <2> QED BY <1>13, <2>1, <2>2, <2>3
<1>15. Occupied(t) /\ Somewhere(t)
  <2>1. \A c \in Cards, q \in Players, z \in Zones : At(t, c, q, z) <=> At(s, c, q, z)
    <3>1. \A z \in Zones : z[1] \in OnField BY DEF Zones, OnField
    <3> QED BY <1>2, <1>14, <3>1 DEF At, In
  <2>2. Occupied(t) BY <1>10, <2>1 DEF Good, Sound, Occupied, SameZones
  <2>3. Somewhere(t) BY <1>2, <1>14 DEF Good, Sound, Somewhere
  <2> QED BY <2>2, <2>3
<1>16. InUse(t) /\ Shared(t) BY <1>10 DEF Good, Sound, InUse, Shared, SameZones, Players
<1>17. TurnedOver(s, t, p)
  <2> SUFFICES ASSUME NEW c \in Cards, ~In(s, c, p, "DECK"), ~In(s, c, p, "GRAVE")
               PROVE  SameSpot(s, t, c)
    BY <1>4, <1>10 DEF TurnedOver
  <2>1. t.current[c].controler = s.current[c].controler
        /\ t.current[c].location = s.current[c].location
    BY <1>1, <1>10
  <2>2. s.current[c].location \in OnField => t.current[c] = s.current[c] BY <1>2, <1>14
  <2> QED BY <2>1, <2>2 DEF SameSpot
<1>18. FaceupEnd(t)
  <2> SUFFICES ASSUME NEW q \in Players
               PROVE  EndsIn(Buried(t, q), List(t, q, "EXTRA"), Count(t, q), Faceup(t))
    BY DEF FaceupEnd
  <2>1. Faceup(t) = Faceup(u) BY <1>10 DEF Faceup, Counts
  <2>2. Count(t, q) = Count(s, q) /\ Buried(t, q) = Buried(s, q) /\ List(t, q, "EXTRA") = List(u, q, "EXTRA")
    BY <1>1, <1>2, <1>10 DEF SameLists
  <2>3. CASE q = p BY <1>1, <1>6, <2>1, <2>2, <2>3
  <2>4. CASE q # p
    <3> DEFINE l == List(s, q, "EXTRA")
    <3>1. List(t, q, "EXTRA") = l BY <1>1, <1>2, <2>2, <2>4
    <3>2. /\ EndsIn(Buried(s, q), l, Count(s, q), Faceup(s)) /\ l \in Seq(Cards)
          /\ \A d \in Cards : Listed(l, d) => In(s, d, q, "EXTRA")
      BY <1>2, <1>3, FieldType DEF Good, Sound, FaceupEnd
    <3> HIDE DEF l
    <3>3. \A i \in DOMAIN l : l[i] \in Cards /\ In(s, l[i], q, "EXTRA")
      <4>1. \A i \in DOMAIN l : l[i] \in Cards /\ Listed(l, l[i])
        BY <3>2, LenProperties DEF Listed
      <4> QED BY <3>2, <4>1
    <3>4. \A i \in DOMAIN l : l[i] \in Faceup(s) <=> l[i] \in Faceup(u)
      BY <1>1, <2>4, <3>3 DEF In, Faceup, Counts
    <3>5. EndsIn(Buried(s, q), l, Count(s, q), Faceup(u)) BY <3>2, <3>4, SameEnds
    <3> QED BY <2>1, <2>2, <3>1, <3>5
  <2> QED BY <2>3, <2>4
<1>19. Admitted(t)
  <2> SUFFICES ASSUME NEW c \in Cards
               PROVE  LET cur == t.current[c] IN
                      /\ cur.location \in {"DECK", "HAND"} => c \notin ExtraMonsters
                      /\ cur.location = "EXTRA" => c \in Extras \cup Pendulums
    BY DEF Admitted
  <2>1. LET cur == s.current[c] IN
          /\ cur.location \in {"DECK", "HAND"} => c \notin ExtraMonsters
          /\ cur.location = "EXTRA" => c \in Extras \cup Pendulums
    BY DEF Good, Sound, Admitted
  <2>2. CASE In(s, c, p, "DECK") BY <1>4, <1>10, <2>1, <2>2 DEF In
  <2>3. CASE In(s, c, p, "GRAVE") BY <1>4, <1>10, <2>1, <2>3 DEF In, Extras
  <2>4. CASE ~In(s, c, p, "DECK") /\ ~In(s, c, p, "GRAVE") BY <1>1, <1>10, <2>1, <2>4
  <2> QED BY <2>2, <2>3, <2>4
<1>20. ASSUME NEW q \in Players, NEW k \in Piles, q # p \/ k # "DECK" \/ extra = <<>>
       PROVE  Indexed(t, q, k)
  <2>1. List(t, q, k) = List(u, q, k) /\ List(v, q, k) = List(u, q, k)
    BY <1>7, <1>10 DEF SameLists
  <2>2. CASE q = p /\ k = "EXTRA" BY <1>6, <1>9, <2>1, <2>2 DEF Indexed
  <2>3. CASE q = p /\ k = "GRAVE"
    <3> DEFINE l == List(u, p, "GRAVE")
    <3>1. \A i \in DOMAIN l : v.current[l[i]].sequence = i - 1 BY <1>7
    <3>2. \A i \in DOMAIN l : l[i] \in Cards /\ ~Listed(r, l[i])
      <4>1. \A i \in DOMAIN l : l[i] \in Cards /\ Listed(l, l[i])
        BY SMTT(20), <1>2, FieldType, LenProperties DEF Listed
      <4>2. \A i \in DOMAIN l : In(s, l[i], p, "DECK") BY <1>2, <1>3, <1>6, <4>1
      <4> QED BY <1>1, <4>1, <4>2 DEF In
    <3>3. \A i \in DOMAIN l : t.current[l[i]] = v.current[l[i]] BY <1>9, <3>2
    <3> QED BY <2>1, <2>3, <3>1, <3>3 DEF Indexed
  <2>4. CASE ~(q = p /\ k \in {"EXTRA", "GRAVE"})
    <3> DEFINE l == List(u, q, k)
    <3>1. \A i \in DOMAIN l : l[i] \in Cards /\ In(u, l[i], q, k)
      <4>1. \A i \in DOMAIN l : l[i] \in Cards /\ Listed(l, l[i])
        BY FieldType, LenProperties DEF Listed
      <4> QED BY <1>5, <4>1 DEF Members
    <3>2. \A i \in DOMAIN l : ~Listed(r, l[i]) /\ ~Listed(List(u, p, "GRAVE"), l[i])
      <4>1. \A c \in Cards : /\ Listed(r, c) => In(u, c, p, "EXTRA")
                             /\ Listed(List(u, p, "GRAVE"), c) => In(u, c, p, "GRAVE")
        BY <1>2, <1>5, <1>6 DEF Members
      <4> QED BY <2>4, <3>1, <4>1 DEF In
    <3>3. \A i \in DOMAIN l : t.current[l[i]].sequence = s.current[l[i]].sequence
      BY <1>1, <1>10, <3>1, <3>2
    <3>4. PICK m \in Piles : l = List(s, q, m)
      <4>1. CASE q = p /\ k = "DECK" BY <1>1, <1>2, <1>6, <1>20, <4>1
      <4>2. CASE ~(q = p /\ k = "DECK") BY <1>1, <2>4, <4>2
      <4> QED BY <4>1, <4>2
    <3>5. \A i \in DOMAIN l : s.current[l[i]].sequence = i - 1 BY <3>4 DEF Good, Indexed
    <3> QED BY <2>1, <3>3, <3>5 DEF Indexed
  <2> QED BY <2>2, <2>3, <2>4
<1>21. Turnover(s, p, deck, extra) = t BY <1>1 DEF t, v
<1>22. List(t, p, "DECK") = deck BY <1>2, <1>6, <1>10 DEF SameLists
<1>23. Sound(t) BY <1>9, <1>12, <1>15, <1>16, <1>18, <1>19 DEF Sound
<1>24. \A q \in Players, k \in Piles : q # p \/ k # "DECK" => Indexed(t, q, k) BY <1>20
<1>25. extra = <<>> => Indexed(t, p, "DECK") BY <1>2, <1>20
<1> QED BY <1>17, <1>21, <1>22, <1>23, <1>24, <1>25

-----------------------------------------------------------------------------
(* The actions.  Each leads from a good field to a good field, and moves
   cards in one of the ways of Placement. *)

Stepped(s, t) ==
  \/ Undisturbed(s, t, Cards)
  \/ \E c \in Cards : Moved(s, t, c)
  \/ \E c, d \in Cards : c # d /\ Exchanged(s, t, c, d)
  \/ \E p \in Players : TurnedOver(s, t, p)

Step == \E t \in FieldState : Becomes(t) /\ Good(t) /\ Stepped(Now, t)

LEMMA StillMoved ==
  ASSUME NEW s, NEW t, NEW w, NEW c \in Cards, Moved(s, t, c), Undisturbed(t, w, Cards)
  PROVE  Moved(s, w, c)
<1>1. \A d \in Cards : SameSpot(s, t, d) => SameSpot(s, w, d)
  BY DEF Undisturbed, SameSpot
<1>2. Undisturbed(s, w, Cards \ {c}) BY <1>1 DEF Moved, Undisturbed
<1>3. CASE SameSpot(s, t, c) BY <1>1, <1>2, <1>3 DEF Moved
<1>4. CASE LET cur == t.current[c] IN
             /\ is_location_useable(s, cur.controler, cur.location, cur.sequence)
             /\ MayEnter(c, cur.location)
  <2>1. LET cur == w.current[c] IN
          /\ is_location_useable(s, cur.controler, cur.location, cur.sequence)
          /\ MayEnter(c, cur.location)
    BY <1>4 DEF Undisturbed, SameSpot, is_location_useable
  <2> QED BY <1>2, <2>1 DEF Moved
<1> QED BY <1>3, <1>4 DEF Moved

(* The top card of a deck is sent to a pile and turned there. *)
LEMMA TopMoved ==
  ASSUME NEW s \in FieldState, Good(s), NEW p \in Players, List(s, p, "DECK") # <<>>,
         NEW q \in Players, NEW pile \in Piles \ {"EXTRA"}, NEW up \in BOOLEAN,
         NEW faceup \in BOOLEAN, NEW pzone \in BOOLEAN
  PROVE  LET l == List(s, p, "DECK")
             c == Last(l)
             m == Leaves(SetList(s, p, "DECK", Front(l)), c)
             t == TurnedUp(add_card(m, c, q, pile, 0, faceup, pzone), c, up)
         IN t \in FieldState /\ Good(t) /\ Stepped(s, t)
<1> DEFINE l == List(s, p, "DECK")
           c == Last(l)
           m == Leaves(SetList(s, p, "DECK", Front(l)), c)
           zero == 0
           loc == Redirected(c, pile, faceup)
           a == add_card(m, c, q, pile, zero, faceup, pzone)
           t == TurnedUp(a, c, up)
<1>1. c \in Cards /\ In(s, c, p, "DECK") /\ Good(m) /\ Removed(s, m, c) BY TopGood
<1>9. zero \in Nat OBVIOUS
<1> HIDE DEF m, c, zero
<1>2. c \notin ExtraMonsters BY <1>1 DEF Good, Sound, Admitted, In
<1>3. pile \in Piles \cup OnField /\ pile \notin OnField BY DEF Piles, OnField
<1>4. is_location_useable(s, q, pile, zero) BY <1>3 DEF is_location_useable
<1>5. m \in FieldState BY <1>1, GoodState
<1>6. Good(a) /\ Moved(s, a, c) /\ In(a, c, q, loc) BY <1>1, <1>3, <1>4, <1>5, <1>9, AgainGood
<1>10. loc = "EXTRA" => c \notin Pendulums
  BY <1>2, ConstantsAssumption DEF Redirected, Extras
<1> HIDE DEF a, loc
<1>11. a.current[c].location = "EXTRA" => c \notin Pendulums BY <1>6, <1>10 DEF In
<1>7. Good(t) /\ Undisturbed(a, t, Cards) BY <1>1, <1>6, <1>11, GoodState, TurnedUpGood
<1> HIDE DEF t
<1>8. Moved(s, t, c) BY <1>1, <1>6, <1>7, StillMoved
<1> QED BY <1>1, <1>7, <1>8, GoodState DEF Stepped, t, a, m, c, l, zero

LEMMA DrawStep ==
  ASSUME Good(Now), NEW p \in Players, Draw(p)
  PROVE  Step
<1> DEFINE no == FALSE
<1>1. no \in BOOLEAN /\ "HAND" \in Piles \ {"EXTRA"} /\ Now \in FieldState
  BY GoodState DEF Piles
<1>2. List(Now, p, "DECK") = player[p].list["DECK"] BY DEF List, Now
<1> DEFINE l == List(Now, p, "DECK")
           c == Last(l)
           m == Leaves(SetList(Now, p, "DECK", Front(l)), c)
           t == TurnedUp(add_card(m, c, p, "HAND", 0, no, no), c, no)
<1>3. l # <<>> /\ Becomes(t) BY <1>2 DEF Draw, DrawTop, WithoutTop
<1> HIDE DEF no
<1>4. t \in FieldState /\ Good(t) /\ Stepped(Now, t) BY <1>1, <1>3, TopMoved
<1> HIDE DEF t
<1> QED BY <1>3, <1>4 DEF Step

LEMMA DiscardDeckStep ==
  ASSUME Good(Now), NEW p \in Players, NEW dest \in {"GRAVE", "REMOVED", "HAND", "DECK"},
         DiscardDeck(p, dest)
  PROVE  Step
<1> DEFINE no == FALSE
           yes == TRUE
<1>1. no \in BOOLEAN /\ yes \in BOOLEAN /\ dest \in Piles \ {"EXTRA"} /\ Now \in FieldState
  BY GoodState DEF Piles
<1>2. List(Now, p, "DECK") = player[p].list["DECK"] BY DEF List, Now
<1> DEFINE l == List(Now, p, "DECK")
           c == Last(l)
           m == Leaves(SetList(Now, p, "DECK", Front(l)), c)
           t == TurnedUp(add_card(m, c, Owner[c], dest, 0, yes, no), c, yes)
<1>3. l # <<>> /\ Becomes(t) BY <1>2 DEF DiscardDeck, DrawTop, WithoutTop
<1> HIDE DEF no, yes
<1>4. Owner[c] \in Players
  <2>1. c \in Cards BY <1>1, <1>3, TopGood
  <2> QED BY <2>1, ConstantsAssumption
<1>5. t \in FieldState /\ Good(t) /\ Stepped(Now, t) BY <1>1, <1>3, <1>4, TopMoved
<1> HIDE DEF t
<1> QED BY <1>3, <1>5 DEF Step

LEMMA SendToStep ==
  ASSUME Good(Now), NEW c \in Cards, NEW p \in Players, NEW dest \in Piles,
         NEW sequence \in Ends(dest), NEW faceup \in Faceups(dest),
         NEW redirect \in Redirects(c, dest), SendTo(c, p, dest, sequence, faceup, redirect)
  PROVE  Step
<1> DEFINE no == FALSE
           t == move_card(Now, c, p, dest, sequence, faceup, no, redirect)
           cur == Now.current[c]
<1>1. /\ no \in BOOLEAN /\ faceup \in BOOLEAN /\ redirect \in BOOLEAN /\ sequence \in Nat
      /\ Now \in FieldState /\ dest \in Piles \cup OnField /\ dest \notin OnField
  <2>1. faceup \in BOOLEAN BY DEF Faceups
  <2>2. redirect \in BOOLEAN BY DEF Redirects
  <2>3. sequence \in Nat BY DEF Ends
  <2> QED BY <2>1, <2>2, <2>3, GoodState DEF Piles, OnField
<1>2. Becomes(t) BY DEF SendTo
<1> HIDE DEF no
<1>6. Good(t) /\ Moved(Now, t, c) BY <1>1, MoveGood
<1> HIDE DEF t
<1> QED BY <1>2, <1>6, GoodState DEF Step, Stepped

LEMMA MoveToFieldStep ==
  ASSUME Good(Now), NEW c \in Cards, NEW p \in Players, NEW z \in Zones,
         NEW pzone \in BOOLEAN, MoveToField(c, p, z, TRUE, pzone)
  PROVE  Step
<1> DEFINE no == FALSE
           yes == TRUE
           a == move_card(Now, c, p, z[1], z[2], yes, pzone, no)
           t == TurnedUp(a, c, yes)
<1>1. /\ no \in BOOLEAN /\ yes \in BOOLEAN /\ Now \in FieldState /\ z = <<z[1], z[2]>>
      /\ z[1] \in OnField /\ z[2] \in Nat
  <2>1. z = <<z[1], z[2]>> /\ z[1] \in OnField /\ z[2] \in MZones \cup SZones
    BY DEF Zones, OnField
  <2> QED BY <2>1, GoodState, ConstantsAssumption
<1>2. is_location_useable(Now, p, z[1], z[2]) /\ Becomes(t) BY DEF MoveToField
<1> HIDE DEF no, yes
<1>3. z[1] \notin {"DECK", "HAND", "EXTRA"} BY <1>1 DEF OnField
<1>4. Good(a) /\ Moved(Now, a, c) /\ a.current[c].location = z[1]
  <2>1. <<z[1], z[2]>> \in Zones /\ z[1] \in Piles \cup OnField BY <1>1
  <2> QED BY <1>1, <1>2, <2>1, MoveGood
<1> HIDE DEF a
<1>5. Good(t) /\ Undisturbed(a, t, Cards) BY <1>1, <1>3, <1>4, GoodState, TurnedUpGood
<1> HIDE DEF t
<1>6. Moved(Now, t, c) BY <1>4, <1>5, StillMoved
<1> QED BY <1>2, <1>5, <1>6, GoodState DEF Step, Stepped

LEMMA MoveSequenceStep ==
  ASSUME Good(Now), NEW c \in Cards, NEW sequence \in {0, 1} \cup MZones \cup SZones,
         NEW pzone \in BOOLEAN, MoveSequence(c, sequence, pzone)
  PROVE  Step
<1> DEFINE no == FALSE
           cur == Now.current[c]
           t == move_card(Now, c, cur.controler, cur.location, sequence, cur.faceup, pzone, no)
<1>1. /\ no \in BOOLEAN /\ Now \in FieldState /\ sequence \in Nat
  BY GoodState, ConstantsAssumption
<1>2. /\ cur.location # "NONE"
      /\ cur.location \in OnField => <<cur.location, sequence>> \in Zones
      /\ Becomes(t)
  BY DEF MoveSequence, Now
<1> HIDE DEF no
<1>3. cur \in CardState BY <1>1 DEF FieldState
<1>4. cur.controler \in Players BY <1>2 DEF Good, Sound, Somewhere
<1>5. cur.location \in Piles \cup OnField /\ cur.faceup \in BOOLEAN
  BY <1>2, <1>3 DEF CardState
<1>9. Good(t) /\ Moved(Now, t, c) BY <1>1, <1>2, <1>4, <1>5, MoveGood
<1> HIDE DEF t
<1> QED BY <1>2, <1>9, GoodState DEF Step, Stepped

LEMMA ExchangeStep ==
  ASSUME Good(Now), NEW c \in Cards, NEW d \in Cards, NEW n1 \in MZones \cup SZones,
         NEW n2 \in MZones \cup SZones, Exchange(c, d, n1, n2)
  PROVE  Step
<1> DEFINE x == Now.current[c]
           y == Now.current[d]
           t == swap_card(Now, c, d, n1, n2)
<1>1. /\ c # d /\ x.location = y.location /\ x.location \in OnField
      /\ x.controler # y.controler => x.location = "MZONE"
      /\ x.controler = y.controler => n1 = x.sequence /\ n2 = y.sequence
      /\ n1 = x.sequence \/ (n1 \in MZones /\ n1 < 5)
      /\ n2 = y.sequence \/ (n2 \in MZones /\ n2 < 5)
      /\ Becomes(t)
  BY DEF Exchange, Now
<1>2. Now \in FieldState BY GoodState
<1>3. Good(t) /\ (t = Now \/ Exchanged(Now, t, c, d)) BY <1>1, <1>2, SwapGood
<1> HIDE DEF t
<1>4. t = Now => Undisturbed(Now, t, Cards) BY DEF Undisturbed, SameSpot
<1> QED BY <1>1, <1>3, <1>4, GoodState DEF Step, Stepped

LEMMA RemoveFromFieldStep ==
  ASSUME Good(Now), NEW c \in Cards, RemoveFromField(c)
  PROVE  Step
<1> DEFINE t == remove_card(Now, c)
<1>1. Becomes(t) /\ Now \in FieldState BY GoodState DEF RemoveFromField
<1>2. Good(t) /\ Removed(Now, t, c) BY <1>1, RemoveGood
<1> HIDE DEF t
<1>3. Moved(Now, t, c)
  <2>1. t.current[c].location \notin OnField BY <1>2 DEF Removed, Nowhere, OnField
  <2>2. MayEnter(c, t.current[c].location) BY <1>2 DEF Removed, Nowhere, MayEnter
  <2> QED BY <1>2, <2>1, <2>2 DEF Removed, Moved, is_location_useable
<1> QED BY <1>1, <1>2, <1>3, GoodState DEF Step, Stepped

LEMMA ShuffleStep ==
  ASSUME Good(Now), NEW p \in Players, NEW pile \in Piles, shuffle(p, pile)
  PROVE  Step
<1>1. PICK order \in Orders(Now, p, pile) : Becomes(Shuffled(Now, p, pile, order))
  BY DEF shuffle
<1> DEFINE t == Shuffled(Now, p, pile, order)
<1>2. Good(t) /\ Undisturbed(Now, t, Cards) BY GoodState, ShuffledGood DEF Good
<1> HIDE DEF t
<1> QED BY <1>1, <1>2, GoodState DEF Step, Stepped, t

LEMMA ReverseStep ==
  ASSUME Good(Now), NEW p \in Players, reverse_deck(p)
  PROVE  Step
<1> DEFINE t == reset_sequence(SetList(Now, p, "DECK", Reverse(List(Now, p, "DECK"))), p, "DECK")
<1>1. Becomes(t)
  <2>1. List(Now, p, "DECK") = player[p].list["DECK"] BY DEF List, Now
  <2> QED BY <2>1 DEF reverse_deck
<1>2. Good(t) /\ Undisturbed(Now, t, Cards) BY GoodState, ReversedGood
<1> HIDE DEF t
<1> QED BY <1>1, <1>2, GoodState DEF Step, Stepped

LEMMA SwapDeckStep ==
  ASSUME Good(Now), ~AnySwap, NEW p \in Players, swap_deck_and_grave(p)
  PROVE  Step
<1> DEFINE grave == List(Now, p, "GRAVE")
<1>1. grave = player[p].list["GRAVE"] BY DEF List, Now
<1>2. PICK deck \in Picked(grave, Cards \ ExtraMonsters), extra \in Picked(grave, ExtraMonsters) :
        LET t == Turnover(Now, p, deck, extra) IN
        /\ AnySwap \/ extra = <<>> \/ (~PseudoShuffle /\ Len(deck) # 1)
        /\ \E order \in Orders(t, p, "DECK") : Becomes(Shuffled(t, p, "DECK", order))
  BY <1>1 DEF swap_deck_and_grave
<1> DEFINE t == Turnover(Now, p, deck, extra)
<1>3. PICK order \in Orders(t, p, "DECK") : Becomes(Shuffled(t, p, "DECK", order))
  BY <1>2
<1>4. /\ Sound(t) /\ TurnedOver(Now, t, p) /\ List(t, p, "DECK") = deck
      /\ \A q \in Players, k \in Piles : q # p \/ k # "DECK" => Indexed(t, q, k)
      /\ extra = <<>> => Indexed(t, p, "DECK")
  BY GoodState, TurnoverGood
<1>5. /\ Indexed(t, p, "DECK") \/ (~PseudoShuffle /\ Len(List(t, p, "DECK")) # 1)
      /\ t \in FieldState /\ "DECK" \in Piles
  BY <1>2, <1>4 DEF Sound, Piles
<1> HIDE DEF t
<1> DEFINE w == Shuffled(t, p, "DECK", order)
<1>6. Good(w) /\ Undisturbed(t, w, Cards) BY <1>4, <1>5, ShuffledGood
<1>7. Becomes(w) BY <1>3
<1> HIDE DEF w
<1>8. TurnedOver(Now, w, p) BY <1>4, <1>6 DEF TurnedOver, Undisturbed, SameSpot
<1> QED BY <1>6, <1>7, <1>8, GoodState DEF Step, Stepped

-----------------------------------------------------------------------------
(* The start of the duel. *)

LEMMA OrderMembers ==
  ASSUME NEW S \in SUBSET Cards, NEW l \in SetToSeqs(S)
  PROVE  l \in Seq(Cards) /\ Once(l) /\ \A c : Listed(l, c) <=> c \in S
<1> DEFINE n == Cardinality(S)
<1>1. IsFiniteSet(S) /\ n \in Nat
  <2>1. IsFiniteSet(S) BY ConstantsAssumption, FS_Subset
  <2> QED BY <2>1, FS_CardinalityType
<1>2. l \in [1 .. n -> S] /\ \A i, j \in 1 .. n : i # j => l[i] # l[j] BY DEF SetToSeqs
<1>3. \A c \in S : \E i \in 1 .. n : l[i] = c
  <2>1. l \in Injection(1 .. n, S) BY <1>2, Zenon DEF Injection, IsInjective
  <2>2. Cardinality(1 .. n) = n BY <1>1, FS_Interval
  <2>3. l \in Surjection(1 .. n, S) BY <1>1, <2>1, <2>2, FS_Injection
  <2> QED BY <2>3 DEF Surjection
<1> HIDE DEF n
<1>4. DOMAIN l = 1 .. n /\ l \in [1 .. n -> Cards] BY <1>2
<1>5. l \in Seq(Cards) BY <1>1, <1>4, SeqDef
<1>6. Once(l) BY <1>2, <1>4 DEF Once
<1>7. \A c : Listed(l, c) <=> c \in S BY <1>2, <1>3, <1>4 DEF Listed
<1> QED BY <1>5, <1>6, <1>7

LEMMA StartGood == Init => Good(Now)
<1> SUFFICES ASSUME Init
             PROVE  Good(Now)
  OBVIOUS
<1>1. PICK deck \in StartPiles("DECK"), extra \in StartPiles("EXTRA") :
    LET Start(p, pile) == CASE pile = "DECK" -> deck[p]
                            [] pile = "EXTRA" -> extra[p]
                            [] OTHER -> <<>>
        Index(l, c) == CHOOSE i \in DOMAIN l : l[i] = c
    IN /\ player = [p \in Players |->
                      [list |-> [pile \in Piles |-> Start(p, pile)],
                       zone |-> [z \in Zones |-> NoCard],
                       used_location |-> {}, extra_p_count |-> 0, reordered |-> FALSE]]
       /\ current = [c \in Cards |->
                       [controler |-> Owner[c], location |-> StartPile(c),
                        sequence |-> Index(Start(Owner[c], StartPile(c)), c) - 1,
                        faceup |-> FALSE, pzone |-> FALSE]]
  BY DEF Init
<1> DEFINE Start(p, pile) == CASE pile = "DECK" -> deck[p]
                               [] pile = "EXTRA" -> extra[p]
                               [] OTHER -> <<>>
           Index(l, c) == CHOOSE i \in DOMAIN l : l[i] = c
           sequence(c) == Index(Start(Owner[c], StartPile(c)), c) - 1
<1>2. \A p \in Players, k \in Piles :
        /\ Start(p, k) \in Seq(Cards) /\ Once(Start(p, k))
        /\ \A c \in Cards : Listed(Start(p, k), c) <=> Owner[c] = p /\ StartPile(c) = k
  <2> SUFFICES ASSUME NEW p \in Players, NEW k \in Piles
               PROVE  /\ Start(p, k) \in Seq(Cards) /\ Once(Start(p, k))
                      /\ \A c \in Cards : Listed(Start(p, k), c) <=> Owner[c] = p /\ StartPile(c) = k
    OBVIOUS
  <2> DEFINE S == {c \in Cards : Owner[c] = p /\ StartPile(c) = k}
  <2>1. CASE k \in {"DECK", "EXTRA"}
    <3>1. Start(p, k) \in StartOrders(p, k) BY <2>1 DEF StartPiles
    <3>2. Start(p, k) \in SetToSeqs(S) /\ S \in SUBSET Cards BY <3>1 DEF StartOrders
    <3> HIDE DEF Start
    <3>3. Start(p, k) \in Seq(Cards) /\ Once(Start(p, k))
          /\ \A c : Listed(Start(p, k), c) <=> c \in S
      <4> HIDE DEF S
      <4> QED BY <3>2, OrderMembers
    <3> QED BY <3>3
  <2>2. CASE k \notin {"DECK", "EXTRA"}
    <3>1. Start(p, k) = <<>> BY <2>2
    <3>2. \A c \in Cards : StartPile(c) # k BY <2>2 DEF StartPile
    <3> HIDE DEF Start
    <3> QED BY <3>1, <3>2 DEF Once, Listed
  <2> QED BY <2>1, <2>2
<1>3. \A c \in Cards : Owner[c] \in Players /\ StartPile(c) \in {"DECK", "EXTRA"}
  BY ConstantsAssumption DEF StartPile
<1>4. /\ player = [p \in Players |->
                      [list |-> [pile \in Piles |-> Start(p, pile)],
                       zone |-> [z \in Zones |-> NoCard],
                       used_location |-> {}, extra_p_count |-> 0, reordered |-> FALSE]]
      /\ current = [c \in Cards |->
                       [controler |-> Owner[c], location |-> StartPile(c),
                        sequence |-> sequence(c), faceup |-> FALSE, pzone |-> FALSE]]
  BY <1>1
<1> HIDE DEF Start
<1>5. \A p \in Players, k \in Piles : \A i \in DOMAIN Start(p, k) :
        Start(p, k)[i] \in Cards /\ sequence(Start(p, k)[i]) = i - 1
  <2> SUFFICES ASSUME NEW p \in Players, NEW k \in Piles, NEW i \in DOMAIN Start(p, k)
               PROVE  Start(p, k)[i] \in Cards /\ sequence(Start(p, k)[i]) = i - 1
    OBVIOUS
  <2> DEFINE l == Start(p, k)
             c == l[i]
  <2>1. c \in Cards /\ Listed(l, c) BY <1>2, LenProperties DEF Listed
  <2>2. Owner[c] = p /\ StartPile(c) = k BY <1>2, <2>1
  <2>3. Index(l, c) = i BY <1>2 DEF Once
  <2> HIDE DEF Index
  <2> QED BY <2>1, <2>2, <2>3
<1>6. \A c \in Cards : sequence(c) \in Nat
  <2> SUFFICES ASSUME NEW c \in Cards
               PROVE  sequence(c) \in Nat
    OBVIOUS
  <2> DEFINE l == Start(Owner[c], StartPile(c))
  <2>1. StartPile(c) \in Piles BY <1>3 DEF Piles
  <2>2. Listed(l, c) /\ l \in Seq(Cards) BY <1>2, <1>3, <2>1
  <2>3. PICK i \in DOMAIN l : l[i] = c BY <2>2 DEF Listed
  <2>4. sequence(c) = i - 1 BY <1>3, <1>5, <2>1, <2>3
  <2>5. i \in Nat \ {0} BY <2>2, <2>3, LenProperties
  <2> HIDE DEF sequence
  <2> QED BY <2>4, <2>5
<1> HIDE DEF sequence, Index
<1>7. \A p \in Players :
        /\ \A k \in Piles : List(Now, p, k) = Start(p, k)
        /\ \A z \in Zones : Zone(Now, p, z) = NoCard
        /\ Used(Now, p) = {} /\ Count(Now, p) = 0
  BY <1>4 DEF Now, List, Zone, Used, Count, Buried
<1>8. \A c \in Cards :
        /\ Now.current[c].controler = Owner[c] /\ Now.current[c].location = StartPile(c)
        /\ Now.current[c].sequence = sequence(c) /\ Now.current[c].faceup = FALSE
  BY <1>4 DEF Now
<1>9. Now \in FieldState
  <2>1. player \in [Players -> Player]
    <3>1. \A p \in Players : [pile \in Piles |-> Start(p, pile)] \in [Piles -> Seq(Cards)]
      BY <1>2
    <3>2. [z \in Zones |-> NoCard] \in [Zones -> Cards \cup {NoCard}] /\ {} \in SUBSET Zones /\ 0 \in Nat
      OBVIOUS
    <3>3. \A p \in Players : [list |-> [pile \in Piles |-> Start(p, pile)],
                              zone |-> [z \in Zones |-> NoCard],
                              used_location |-> {}, extra_p_count |-> 0, reordered |-> FALSE] \in Player
      BY <3>1, <3>2 DEF Player
    <3> QED BY <1>4, <3>3
  <2>2. current \in [Cards -> CardState] BY <1>3, <1>4, <1>6 DEF CardState, Piles
  <2> QED BY <2>1, <2>2 DEF Now, FieldState
<1>10. \A c \in Cards : Now.current[c].location \in {"DECK", "EXTRA"} BY <1>3, <1>8
<1>11. Members(Now) BY <1>2, <1>7, <1>8 DEF Members, In
<1>12. Occupied(Now)
  <2>1. \A c \in Cards, p \in Players, z \in Zones : Zone(Now, p, z) # c /\ ~At(Now, c, p, z)
    BY <1>7, <1>10, ConstantsAssumption DEF At, In, Zones
  <2> QED BY <2>1 DEF Occupied
<1>13. Somewhere(Now) BY <1>3, <1>8, <1>10 DEF Somewhere, OnField
<1>14. InUse(Now) /\ Shared(Now) BY <1>7 DEF InUse, Shared, Players
<1>15. FaceupEnd(Now)
  <2> SUFFICES ASSUME NEW p \in Players
               PROVE  EndsIn(Buried(Now, p), List(Now, p, "EXTRA"), Count(Now, p), Faceup(Now))
    BY DEF FaceupEnd
  <2> DEFINE l == List(Now, p, "EXTRA")
  <2>1. l \in Seq(Cards) /\ Count(Now, p) = 0 BY <1>2, <1>7 DEF Piles
  <2> HIDE DEF l
  <2>2. Len(l) \in Nat /\ DOMAIN l = 1 .. Len(l) /\ \A i \in DOMAIN l : l[i] \in Cards
    BY <2>1, LenProperties
  <2>3. \A i \in DOMAIN l : l[i] \notin Faceup(Now) BY <1>8, <2>2 DEF Faceup, Counts
  <2>4. Marked(l, Faceup(Now)) = {} BY <2>3 DEF Marked, Listed
  <2>5. Cardinality(Marked(l, Faceup(Now))) = 0 BY <2>4, FS_EmptySet
  <2> QED BY <2>1, <2>2, <2>3, <2>5 DEF EndsIn, l
<1>16. Admitted(Now) BY <1>8, <1>10 DEF Admitted, StartPile, Extras
<1>17. \A p \in Players, k \in Piles : Indexed(Now, p, k)
  BY <1>5, <1>7, <1>8 DEF Indexed
<1> QED BY <1>9, <1>11, <1>12, <1>13, <1>14, <1>15, <1>16, <1>17 DEF Good, Sound

(* Every step leads from a good field to a good field. *)
LEMMA NextStep ==
  ASSUME ~AnySwap, Good(Now), Next
  PROVE  Step
<1>1. ASSUME NEW p \in Players, Draw(p)
      PROVE  Step
  BY <1>1, DrawStep
<1>2. ASSUME NEW p \in Players, NEW dest \in {"GRAVE", "REMOVED", "HAND", "DECK"},
             DiscardDeck(p, dest)
      PROVE  Step
  BY <1>2, DiscardDeckStep
<1>3. ASSUME NEW p \in Players, NEW pile \in {"DECK", "HAND", "EXTRA"}, shuffle(p, pile)
      PROVE  Step
  BY <1>3, ShuffleStep DEF Piles
<1>4. ASSUME NEW p \in Players, reverse_deck(p)
      PROVE  Step
  BY <1>4, ReverseStep
<1>5. ASSUME NEW p \in Players, swap_deck_and_grave(p)
      PROVE  Step
  BY <1>5, SwapDeckStep
<1>6. ASSUME NEW c \in Cards, NEW p \in Players, NEW dest \in Piles,
             NEW sequence \in Ends(dest), NEW faceup \in Faceups(dest),
             NEW redirect \in Redirects(c, dest),
             SendTo(c, p, dest, sequence, faceup, redirect)
      PROVE  Step
  BY <1>6, SendToStep
<1>7. ASSUME NEW c \in Cards, NEW p \in Players, NEW z \in Zones, NEW pzone \in BOOLEAN,
             MoveToField(c, p, z, TRUE, pzone)
      PROVE  Step
  BY <1>7, MoveToFieldStep
<1>8. ASSUME NEW c \in Cards, NEW sequence \in {0, 1} \cup MZones \cup SZones,
             NEW pzone \in BOOLEAN, MoveSequence(c, sequence, pzone)
      PROVE  Step
  BY <1>8, MoveSequenceStep
<1>9. ASSUME NEW c \in Cards, NEW d \in Cards, NEW n1 \in MZones \cup SZones,
             NEW n2 \in MZones \cup SZones, Exchange(c, d, n1, n2)
      PROVE  Step
  BY <1>9, ExchangeStep
<1>10. ASSUME NEW c \in Cards, RemoveFromField(c)
       PROVE  Step
  BY <1>10, RemoveFromFieldStep
<1> QED BY <1>1, <1>2, <1>3, <1>4, <1>5, <1>6, <1>7, <1>8, <1>9, <1>10 DEF Next

-----------------------------------------------------------------------------
(* What the runs check, of a good field. *)

(* The places that Held collects. *)
LEMMA HeldPlaces ==
  ASSUME NEW c
  PROVE  \A x : x \in Held(c) <=>
           \/ \E p \in Players, k \in Piles : \E i \in DOMAIN List(Now, p, k) :
                List(Now, p, k)[i] = c /\ x = <<p, k, i - 1>>
           \/ \E p \in Players, z \in Zones : Zone(Now, p, z) = c /\ x = <<p, z[1], z[2]>>
<1> DEFINE A == UNION {{<<p, pile, i - 1>> : i \in {j \in DOMAIN player[p].list[pile] :
                                                      player[p].list[pile][j] = c}} :
                         p \in Players, pile \in Piles}
           B == {<<q[1], q[2][1], q[2][2]>> :
                   q \in {r \in Players \X Zones : player[r[1]].zone[r[2]] = c}}
<1>1. Held(c) = A \cup B BY DEF Held
<1>2. \A x : x \in A <=> \E p \in Players, k \in Piles : \E i \in DOMAIN player[p].list[k] :
                           player[p].list[k][i] = c /\ x = <<p, k, i - 1>>
  <2> DEFINE H(p, k) == {<<p, k, i - 1>> : i \in {j \in DOMAIN player[p].list[k] :
                                                    player[p].list[k][j] = c}}
  <2>1. \A p, k, x : x \in H(p, k) <=> \E i \in DOMAIN player[p].list[k] :
                                         player[p].list[k][i] = c /\ x = <<p, k, i - 1>>
    OBVIOUS
  <2>2. A = UNION {H(p, k) : p \in Players, k \in Piles} OBVIOUS
  <2> HIDE DEF H
  <2>3. \A x : x \in UNION {H(p, k) : p \in Players, k \in Piles} <=>
                 \E p \in Players, k \in Piles : x \in H(p, k)
    OBVIOUS
  <2> HIDE DEF A
  <2> TAKE x
  <2>4. x \in A <=> \E p \in Players, k \in Piles : x \in H(p, k) BY <2>2, <2>3
  <2> QED BY <2>1, <2>4
<1>3. \A x : x \in B <=> \E p \in Players, z \in Zones :
                           player[p].zone[z] = c /\ x = <<p, z[1], z[2]>>
  <2> TAKE x
  <2>1. ASSUME x \in B
        PROVE  \E p \in Players, z \in Zones : player[p].zone[z] = c /\ x = <<p, z[1], z[2]>>
    <3>1. PICK q \in Players \X Zones :
            player[q[1]].zone[q[2]] = c /\ x = <<q[1], q[2][1], q[2][2]>>
      BY <2>1
    <3>2. q[1] \in Players /\ q[2] \in Zones BY <3>1
    <3> QED BY <3>1, <3>2
  <2>2. ASSUME NEW p \in Players, NEW z \in Zones, player[p].zone[z] = c, x = <<p, z[1], z[2]>>
        PROVE  x \in B
    <3>1. <<p, z>> \in Players \X Zones /\ <<p, z>>[1] = p /\ <<p, z>>[2] = z OBVIOUS
    <3>2. <<p, z>> \in {r \in Players \X Zones : player[r[1]].zone[r[2]] = c}
      BY <2>2, <3>1
    <3> QED BY <2>2, <3>1, <3>2
  <2> QED BY <2>1, <2>2
<1>4. \A p, k, z : List(Now, p, k) = player[p].list[k] /\ Zone(Now, p, z) = player[p].zone[z]
  BY DEF List, Zone, Now
<1> HIDE DEF A, B
<1>5. \A x : x \in Held(c) <=> x \in A \/ x \in B BY <1>1
<1> QED BY <1>2, <1>3, <1>4, <1>5

LEMMA GoodLocated == Good(Now) => TypeOK /\ Located
<1> SUFFICES ASSUME Good(Now)
             PROVE  TypeOK /\ Located
  OBVIOUS
<1>1. Now \in FieldState /\ Now.player = player /\ Now.current = current
  BY GoodState DEF Now
<1>2. TypeOK BY <1>1 DEF TypeOK, FieldState
<1>3. ASSUME NEW c \in Cards
      PROVE  AtItsPlace(c)
  <2> DEFINE cur == Now.current[c]
  <2>1. \A p \in Players, k \in Piles, i \in Nat :
          i \in DOMAIN List(Now, p, k) /\ List(Now, p, k)[i] = c =>
            In(Now, c, p, k) /\ cur.sequence = i - 1
    <3> SUFFICES ASSUME NEW p \in Players, NEW k \in Piles, NEW i \in DOMAIN List(Now, p, k),
                        List(Now, p, k)[i] = c
                 PROVE  In(Now, c, p, k) /\ cur.sequence = i - 1
      OBVIOUS
    <3>1. Listed(List(Now, p, k), c) BY DEF Listed
    <3> QED BY <3>1 DEF Good, Sound, Members, Indexed
  <2>2. \A p \in Players, k \in Piles : \A i \in DOMAIN List(Now, p, k) : i \in Nat
    BY <1>1, FieldType, LenProperties
  <2>3. \A p \in Players, z \in Zones : Zone(Now, p, z) = c <=> At(Now, c, p, z)
    BY DEF Good, Sound, Occupied
  <2>4. \A z \in Zones : z[1] \in OnField /\ z[1] # "NONE" /\ z[1] \notin Piles
    BY DEF Zones, OnField, Piles
  <2>5. \A x : x \in Held(c) <=> cur.location # "NONE" /\ x = <<cur.controler, cur.location, cur.sequence>>
    <3> TAKE x
    <3>1. ASSUME x \in Held(c)
          PROVE  cur.location # "NONE" /\ x = <<cur.controler, cur.location, cur.sequence>>
      <4>1. CASE \E p \in Players, k \in Piles : \E i \in DOMAIN List(Now, p, k) :
                   List(Now, p, k)[i] = c /\ x = <<p, k, i - 1>>
        <5>1. PICK p \in Players, k \in Piles : \E i \in DOMAIN List(Now, p, k) :
                   List(Now, p, k)[i] = c /\ x = <<p, k, i - 1>>
          BY <4>1
        <5>2. PICK i \in DOMAIN List(Now, p, k) : List(Now, p, k)[i] = c /\ x = <<p, k, i - 1>>
          BY <5>1
        <5> QED BY <2>1, <2>2, <5>2 DEF In, Piles
      <4>2. CASE \E p \in Players, z \in Zones : Zone(Now, p, z) = c /\ x = <<p, z[1], z[2]>>
        BY <2>3, <2>4, <4>2 DEF At, In
      <4> QED BY <3>1, <4>1, <4>2, HeldPlaces
    <3>2. ASSUME cur.location # "NONE", x = <<cur.controler, cur.location, cur.sequence>>
          PROVE  x \in Held(c)
      <4>1. cur.controler \in Players /\ cur.location \in Piles \cup OnField
        BY <1>1, <3>2, FieldType DEF Good, Sound, Somewhere, CardState
      <4>2. CASE cur.location \in Piles
        <5>1. In(Now, c, cur.controler, cur.location) BY DEF In
        <5>2. Members(Now) /\ Indexed(Now, cur.controler, cur.location)
          BY <4>1, <4>2 DEF Good, Sound
        <5>3. PICK i \in 1 .. Len(List(Now, cur.controler, cur.location)) :
                List(Now, cur.controler, cur.location)[i] = c /\ cur.sequence = i - 1
          BY <1>1, <4>1, <4>2, <5>1, <5>2, Found
        <5>4. i \in DOMAIN List(Now, cur.controler, cur.location)
          BY <1>1, <4>1, <4>2, FieldType, LenProperties
        <5> HIDE DEF cur
        <5> QED BY <3>2, <4>1, <4>2, <5>3, <5>4, HeldPlaces
      <4>3. CASE cur.location \in OnField
        <5> DEFINE z == <<cur.location, cur.sequence>>
        <5>1. z \in Zones /\ z[1] = cur.location /\ z[2] = cur.sequence
          BY <4>3 DEF Good, Sound, Somewhere
        <5>2. At(Now, c, cur.controler, z) BY <5>1 DEF At, In
        <5>3. Zone(Now, cur.controler, z) = c BY <2>3, <4>1, <5>1, <5>2
        <5>4. x = <<cur.controler, z[1], z[2]>> BY <3>2, <5>1
        <5> HIDE DEF cur, z
        <5> QED BY <4>1, <5>1, <5>3, <5>4, HeldPlaces
      <4> QED BY <4>1, <4>2, <4>3
    <3> QED BY <3>1, <3>2
  <2>6. cur = current[c] BY <1>1
  <2> HIDE DEF cur
  <2>7. Held(c) = IF cur.location = "NONE" THEN {}
                  ELSE {<<cur.controler, cur.location, cur.sequence>>}
    BY <2>5
  <2> QED BY <2>6, <2>7 DEF AtItsPlace
<1>4. ZonesInUse
  <2>1. \A p \in Players : Used(Now, p) = player[p].used_location /\ Used(Now, p) \subseteq Zones
    BY <1>1, FieldType DEF Used
  <2>2. \A p \in Players, z \in Zones : z \in Used(Now, p) <=> player[p].zone[z] # NoCard
    BY <1>1 DEF Good, Sound, InUse, Zone
  <2>3. \A p \in Players : player[p].used_location = {z \in Zones : player[p].zone[z] # NoCard}
    BY <2>1, <2>2
  <2> QED BY <2>1, <2>3 DEF Good, Sound, Shared, ZonesInUse, Players
<1>5. FaceupLast
  <2> SUFFICES ASSUME NEW p \in Players
               PROVE  LET l == player[p].list["EXTRA"]
                          n == player[p].extra_p_count
                      IN /\ n = Cardinality({c \in ToSet(l) : Counts(Now, c)})
                         /\ player[p].reordered \/
                              \A i \in DOMAIN l : i > Len(l) - n <=> Counts(Now, l[i])
    BY DEF FaceupLast
  <2> DEFINE l == List(Now, p, "EXTRA")
  <2>1. EndsIn(Buried(Now, p), l, Count(Now, p), Faceup(Now)) /\ l \in Seq(Cards)
    BY <1>1, FieldType DEF Good, Sound, FaceupEnd, Piles
  <2>2. /\ l = player[p].list["EXTRA"] /\ Count(Now, p) = player[p].extra_p_count
        /\ Buried(Now, p) = player[p].reordered
    BY <1>1 DEF List, Count, Buried
  <2> HIDE DEF l
  <2>3. \A i \in DOMAIN l : l[i] \in Cards BY <2>1, LenProperties
  <2>4. \A i \in DOMAIN l : l[i] \in Faceup(Now) <=> Counts(Now, l[i])
    BY <2>3 DEF Faceup
  <2>5. {c \in ToSet(l) : Counts(Now, c)} = Marked(l, Faceup(Now))
    BY <2>3 DEF ToSet, Marked, Listed, Faceup
  <2> QED BY <2>1, <2>2, <2>4, <2>5 DEF EndsIn
<1> QED BY <1>2, <1>3, <1>4, <1>5 DEF Located

LEMMA GoodNext ==
  ASSUME ~AnySwap, Good(Now), [Next]_vars
  PROVE  Good(Now)'
<1>1. CASE Next
  <2>1. PICK t \in FieldState : Becomes(t) /\ Good(t) BY <1>1, NextStep DEF Step
  <2>2. Now' = t BY <2>1 DEF Becomes, Now, FieldState
  <2> QED BY <2>1, <2>2
<1>2. CASE UNCHANGED vars
  <2>1. Now' = Now BY <1>2 DEF vars, Now
  <2> QED BY <2>1
<1> QED BY <1>1, <1>2

-----------------------------------------------------------------------------
(* The refinement. *)

PlaceIn(s, c) ==
  LET cur == s.current[c] IN
    IF cur.location = "NONE" THEN <<>>
    ELSE <<cur.controler, <<cur.location, IF cur.location \in Piles THEN 0
                                          ELSE cur.sequence>>>>
Places(s) == [c \in Cards |-> PlaceIn(s, c)]

Free(s, p, z) ==
  \A c \in Cards : PlaceIn(s, c) \notin {<<p, z>>} \cup Abstract!Facing(p, z)

LEMMA SamePlace ==
  ASSUME NEW s \in FieldState, NEW t \in FieldState, NEW c \in Cards, SameSpot(s, t, c)
  PROVE  PlaceIn(t, c) = PlaceIn(s, c)
<1>1. s.current[c] \in CardState BY DEF FieldState
<1>2. s.current[c].location \in Piles \cup OnField \cup {"NONE"} BY <1>1 DEF CardState
<1> QED BY <1>2 DEF SameSpot, PlaceIn

LEMMA PlacedAt ==
  ASSUME NEW s, NEW c \in Cards, NEW p, NEW z \in Zones, PlaceIn(s, c) = <<p, z>>
  PROVE  At(s, c, p, z)
<1> DEFINE cur == s.current[c]
<1>1. cur.location # "NONE" BY DEF PlaceIn
<1>2. /\ p = cur.controler
      /\ z = <<cur.location, IF cur.location \in Piles THEN 0 ELSE cur.sequence>>
  BY <1>1 DEF PlaceIn
<1>3. z[1] = cur.location /\ z[2] = IF cur.location \in Piles THEN 0 ELSE cur.sequence
  BY <1>2
<1>4. z[1] \notin Piles BY DEF Zones, Piles
<1> QED BY <1>2, <1>3, <1>4 DEF At, In

(* A zone that may be used holds no card on either side. *)
LEMMA UseableFree ==
  ASSUME NEW s, Good(s), NEW p \in Players, NEW z \in Zones,
         is_location_useable(s, p, z[1], z[2])
  PROVE  Free(s, p, z)
<1> SUFFICES ASSUME NEW c \in Cards, PlaceIn(s, c) \in {<<p, z>>} \cup Abstract!Facing(p, z)
             PROVE  FALSE
  BY DEF Free
<1>1. /\ s \in FieldState /\ 1 - p \in Players /\ NoCard \notin Cards
      /\ z = <<z[1], z[2]>> /\ z[1] \in OnField
  BY GoodState, ConstantsAssumption DEF Players, Zones, OnField
<1>2. \A q \in Players, y \in Zones : At(s, c, q, y) => y \in Used(s, q)
  BY <1>1 DEF Good, Sound, Occupied, InUse
<1>3. /\ z \notin Used(s, p)
      /\ z[1] = "MZONE" /\ z[2] >= 5 => <<"MZONE", 11 - z[2]>> \notin Used(s, 1 - p)
  BY <1>1 DEF is_location_useable, Used
<1>4. CASE PlaceIn(s, c) = <<p, z>> BY <1>2, <1>3, <1>4, PlacedAt
<1>5. CASE PlaceIn(s, c) \in Abstract!Facing(p, z)
  <2> DEFINE y == <<"MZONE", 11 - z[2]>>
  <2>1. z[1] = "MZONE" /\ z[2] >= 5 /\ PlaceIn(s, c) = <<1 - p, y>>
    BY <1>5 DEF Abstract!Facing
  <2>2. y \in Zones
    <3> DEFINE cur == s.current[c]
    <3>1. cur.location # "NONE" BY <2>1 DEF PlaceIn
    <3>2. y = <<cur.location, IF cur.location \in Piles THEN 0 ELSE cur.sequence>>
      BY <2>1, <3>1 DEF PlaceIn
    <3>3. cur.location = "MZONE" /\ cur.location \notin Piles /\ cur.location \in OnField
      BY <3>2 DEF Piles, OnField
    <3>4. y = <<cur.location, cur.sequence>> BY <3>2, <3>3
    <3> QED BY <3>3, <3>4 DEF Good, Sound, Somewhere
  <2> HIDE DEF y
  <2>3. y \in Used(s, 1 - p) BY <1>1, <1>2, <2>1, <2>2, PlacedAt
  <2> QED BY <1>3, <2>1, <2>3 DEF y
<1> QED BY <1>4, <1>5

(* One card has moved. *)
LEMMA MovedPlaces ==
  ASSUME NEW s \in FieldState, Good(s), NEW t \in FieldState, Good(t), NEW c \in Cards,
         Moved(s, t, c)
  PROVE  \/ Places(t) = Places(s)
         \/ Places(t) = [Places(s) EXCEPT ![c] = <<>>]
         \/ \E p \in Players, k \in Piles :
              Abstract!Admits(k, c) /\ Places(t) = [Places(s) EXCEPT ![c] = <<p, <<k, 0>>>>]
         \/ \E p \in Players, z \in Zones :
              Free(s, p, z) /\ Places(t) = [Places(s) EXCEPT ![c] = <<p, z>>]
<1> DEFINE cur == t.current[c]
<1>1. \A d \in Cards \ {c} : PlaceIn(t, d) = PlaceIn(s, d)
  BY SamePlace DEF Moved, Undisturbed
<1>2. Places(t) = [Places(s) EXCEPT ![c] = PlaceIn(t, c)] BY <1>1 DEF Places
<1>3. CASE SameSpot(s, t, c)
  <2>1. \A d \in Cards : PlaceIn(t, d) = PlaceIn(s, d) BY <1>1, <1>3, SamePlace
  <2> QED BY <2>1 DEF Places
<1>4. CASE /\ is_location_useable(s, cur.controler, cur.location, cur.sequence)
           /\ MayEnter(c, cur.location)
  <2>1. /\ cur.location \in Piles \cup OnField \cup {"NONE"} /\ "NONE" \notin Piles
        /\ cur.location # "NONE" => cur.controler \in Players
        /\ cur.location \in OnField => <<cur.location, cur.sequence>> \in Zones
    BY FieldType DEF CardState, Good, Sound, Somewhere, Piles
  <2>2. CASE cur.location = "NONE" BY <1>2, <2>2 DEF PlaceIn
  <2>3. CASE cur.location \in Piles
    <3>1. PlaceIn(t, c) = <<cur.controler, <<cur.location, 0>>>>
      BY <2>1, <2>3 DEF PlaceIn
    <3>2. Abstract!Admits(cur.location, c) BY <1>4 DEF MayEnter, Abstract!Admits, Extras, Abstract!Extras
    <3> HIDE DEF cur
    <3> QED BY <1>2, <2>1, <2>3, <3>1, <3>2
  <2>4. CASE cur.location \in OnField
    <3> DEFINE z == <<cur.location, cur.sequence>>
    <3>1. z \in Zones /\ z[1] = cur.location /\ z[2] = cur.sequence /\ cur.controler \in Players
      BY <2>1, <2>4 DEF OnField
    <3>2. PlaceIn(t, c) = <<cur.controler, z>> BY <2>4 DEF PlaceIn, OnField, Piles
    <3> HIDE DEF cur, z
    <3>3. Free(s, cur.controler, z) BY <1>4, <3>1, UseableFree
    <3> QED BY <1>2, <3>1, <3>2, <3>3
  <2> QED BY <2>1, <2>2, <2>3, <2>4
<1> QED BY <1>3, <1>4 DEF Moved

(* Two cards have changed places. *)
LEMMA ExchangedPlaces ==
  ASSUME NEW s \in FieldState, Good(s), NEW t \in FieldState, Good(t),
         NEW c \in Cards, NEW d \in Cards, c # d, Exchanged(s, t, c, d)
  PROVE  \E p \in Players, q \in Players, x \in Zones, y \in Zones, v \in Zones, w \in Zones :
           /\ PlaceIn(s, c) = <<p, x>> /\ PlaceIn(s, d) = <<q, y>>
           /\ v = y \/ Free(s, q, v)
           /\ w = x \/ Free(s, p, w)
           /\ v[1] = y[1] /\ w[1] = x[1]
           /\ Places(t) = [Places(s) EXCEPT ![c] = <<q, v>>, ![d] = <<p, w>>]
<1> DEFINE p == s.current[c].controler
           q == s.current[d].controler
           l == s.current[c].location
           x == <<l, s.current[c].sequence>>
           y == <<l, s.current[d].sequence>>
           v == <<l, t.current[c].sequence>>
           w == <<l, t.current[d].sequence>>
<1>1. /\ l \in OnField /\ s.current[d].location = l
      /\ t.current[c].location = l /\ t.current[c].controler = q
      /\ t.current[d].location = l /\ t.current[d].controler = p
      /\ l \notin Piles /\ l # "NONE"
  BY DEF Exchanged, OnField, Piles
<1>2. p \in Players /\ q \in Players /\ x \in Zones /\ y \in Zones /\ v \in Zones /\ w \in Zones
  BY <1>1 DEF Good, Sound, Somewhere
<1>3. /\ PlaceIn(s, c) = <<p, x>> /\ PlaceIn(s, d) = <<q, y>>
      /\ PlaceIn(t, c) = <<q, v>> /\ PlaceIn(t, d) = <<p, w>>
  BY <1>1 DEF PlaceIn
<1>4. /\ v = y \/ is_location_useable(s, q, v[1], v[2])
      /\ w = x \/ is_location_useable(s, p, w[1], w[2])
      /\ v[1] = y[1] /\ w[1] = x[1]
  BY <1>1 DEF Exchanged
<1>5. \A e \in Cards \ {c, d} : PlaceIn(t, e) = PlaceIn(s, e)
  BY SamePlace DEF Exchanged, Undisturbed
<1> HIDE DEF p, q, x, y, v, w
<1>6. (v = y \/ Free(s, q, v)) /\ (w = x \/ Free(s, p, w)) BY <1>2, <1>4, UseableFree
<1>7. Places(t) = [Places(s) EXCEPT ![c] = <<q, v>>, ![d] = <<p, w>>]
  BY <1>3, <1>5 DEF Places
<1>8. v[1] = y[1] /\ w[1] = x[1] BY <1>4
<1>9. PlaceIn(s, c) = <<p, x>> /\ PlaceIn(s, d) = <<q, y>> BY <1>3
<1> QED BY <1>2, <1>6, <1>7, <1>8, <1>9, Zenon

(* A deck has changed places with the grave. *)
LEMMA TurnedPlaces ==
  ASSUME NEW s \in FieldState, NEW t \in FieldState, NEW p \in Players, TurnedOver(s, t, p)
  PROVE  Places(t) = [c \in Cards |->
           CASE Places(s)[c] = <<p, <<"DECK", 0>>>> -> <<p, <<"GRAVE", 0>>>>
             [] Places(s)[c] = <<p, <<"GRAVE", 0>>>> ->
                  <<p, <<IF c \in ExtraMonsters THEN "EXTRA" ELSE "DECK", 0>>>>
             [] OTHER -> Places(s)[c]]
<1> SUFFICES ASSUME NEW c \in Cards
             PROVE  PlaceIn(t, c) =
               CASE PlaceIn(s, c) = <<p, <<"DECK", 0>>>> -> <<p, <<"GRAVE", 0>>>>
                 [] PlaceIn(s, c) = <<p, <<"GRAVE", 0>>>> ->
                      <<p, <<IF c \in ExtraMonsters THEN "EXTRA" ELSE "DECK", 0>>>>
                 [] OTHER -> PlaceIn(s, c)
  BY DEF Places
<1>1. /\ "DECK" \in Piles /\ "GRAVE" \in Piles /\ "EXTRA" \in Piles /\ "NONE" \notin Piles
  BY DEF Piles
<1>2. \A k \in Piles : PlaceIn(s, c) = <<p, <<k, 0>>>> <=> In(s, c, p, k)
  <2> TAKE k \in Piles
  <2>1. ASSUME PlaceIn(s, c) = <<p, <<k, 0>>>>
        PROVE  In(s, c, p, k)
    <3>1. s.current[c].location # "NONE" BY <2>1 DEF PlaceIn
    <3> QED BY <2>1, <3>1 DEF PlaceIn, In
  <2>2. In(s, c, p, k) => PlaceIn(s, c) = <<p, <<k, 0>>>> BY <1>1 DEF PlaceIn, In
  <2> QED BY <2>1, <2>2
<1>3. CASE In(s, c, p, "DECK")
  <2>1. In(t, c, p, "GRAVE") /\ ~In(s, c, p, "GRAVE") BY <1>3 DEF TurnedOver, In
  <2>2. PlaceIn(t, c) = <<p, <<"GRAVE", 0>>>> BY <1>1, <2>1 DEF In, PlaceIn
  <2> QED BY <1>1, <1>2, <1>3, <2>2
<1>4. CASE In(s, c, p, "GRAVE")
  <2> DEFINE k == IF c \in ExtraMonsters THEN "EXTRA" ELSE "DECK"
  <2>1. t.current[c].controler = p /\ t.current[c].location = k /\ ~In(s, c, p, "DECK")
    BY <1>4 DEF TurnedOver, In
  <2>2. k \in Piles BY <1>1
  <2> HIDE DEF k
  <2>3. PlaceIn(t, c) = <<p, <<k, 0>>>> BY <1>1, <2>1, <2>2 DEF PlaceIn
  <2> QED BY <1>1, <1>2, <1>4, <2>1, <2>3 DEF k
<1>5. CASE ~In(s, c, p, "DECK") /\ ~In(s, c, p, "GRAVE")
  <2>1. PlaceIn(t, c) = PlaceIn(s, c) BY <1>5, SamePlace DEF TurnedOver
  <2> QED BY <1>1, <1>2, <1>5, <2>1
<1> QED BY <1>3, <1>4, <1>5

LEMMA AbstractPlace ==
  /\ [c \in Cards |-> PlaceOf(c)] = Places(Now)
  /\ \A p, z : Abstract!Vacant(p, z) <=> Free(Now, p, z)
<1>1. \A c \in Cards : PlaceOf(c) = PlaceIn(Now, c) BY DEF PlaceOf, PlaceIn, Now
<1>2. [c \in Cards |-> PlaceOf(c)] = Places(Now) BY <1>1 DEF Places
<1>3. \A c \in Cards : [d \in Cards |-> PlaceOf(d)][c] = PlaceIn(Now, c) BY <1>1
<1>4. \A p, z : Abstract!Vacant(p, z) <=> Free(Now, p, z)
  BY <1>3 DEF Abstract!Vacant, Free
<1> QED BY <1>2, <1>4

LEMMA RefinesInit == Init => Abstract!Init
<1> SUFFICES ASSUME Init
             PROVE  Abstract!Init
  OBVIOUS
<1>1. \A c \in Cards : current[c].controler = Owner[c] /\ current[c].location = StartPile(c)
  BY DEF Init
<1>2. \A c \in Cards : PlaceOf(c) = <<Owner[c], <<StartPile(c), 0>>>>
  BY <1>1 DEF PlaceOf, StartPile, Piles
<1> DEFINE f == [c \in Cards |-> PlaceOf(c)]
<1>3. \A c \in Cards : /\ f[c] = <<Owner[c], <<StartPile(c), 0>>>>
                       /\ Owner[c] \in Abstract!Players
  BY <1>2, ConstantsAssumption DEF Abstract!Players, Players
<1>4. /\ f \in [Cards -> Abstract!Players \X {Abstract!Pile("DECK"), Abstract!Pile("EXTRA")}]
      /\ \A c \in Cards : f[c][2] = Abstract!Pile("EXTRA") <=> c \in Abstract!Extras
  <2>1. \A c \in Cards : f[c] \in Abstract!Players \X {Abstract!Pile("DECK"), Abstract!Pile("EXTRA")}
    BY <1>3 DEF StartPile, Abstract!Pile
  <2>2. \A c \in Cards : f[c][2] = Abstract!Pile("EXTRA") <=> c \in Abstract!Extras
    BY <1>3 DEF StartPile, Extras, Abstract!Extras, Abstract!Pile
  <2>3. f = [c \in Cards |-> f[c]] OBVIOUS
  <2> HIDE DEF f
  <2> QED BY <2>1, <2>2, <2>3
<1> QED BY <1>4 DEF Abstract!Init

LEMMA RefinesStep ==
  ASSUME ~AnySwap, Good(Now), [Next]_vars
  PROVE  [Abstract!Next]_[c \in Cards |-> PlaceOf(c)]
<1> DEFINE place == [c \in Cards |-> PlaceOf(c)]
<1>1. place = Places(Now) BY AbstractPlace
<1>2. CASE UNCHANGED vars
  <2>1. \A c \in Cards : PlaceOf(c)' = PlaceOf(c) BY <1>2 DEF vars, PlaceOf
  <2> QED BY <2>1
<1>3. CASE Next
  <2>1. PICK t \in FieldState : Becomes(t) /\ Good(t) /\ Stepped(Now, t)
    BY <1>3, NextStep DEF Step
  <2>2. place' = Places(t) BY <2>1 DEF PlaceOf, Places, PlaceIn, Becomes
  <2>3. Now \in FieldState BY GoodState
  <2>4. \A c \in Cards : place[c] = PlaceIn(Now, c) BY <1>1 DEF Places
  <2> HIDE DEF place
  <2>5. CASE Undisturbed(Now, t, Cards)
    <3>1. \A c \in Cards : PlaceIn(t, c) = PlaceIn(Now, c)
      BY <2>1, <2>3, <2>5, SamePlace DEF Undisturbed
    <3>2. place' = place BY <1>1, <2>2, <3>1 DEF Places
    <3> QED BY <3>2 DEF place
  <2>6. ASSUME NEW c \in Cards, Moved(Now, t, c)
        PROVE  Abstract!Next \/ place' = place
    <3>1. \/ place' = place
          \/ place' = [place EXCEPT ![c] = <<>>]
          \/ \E p \in Players, k \in Piles :
               Abstract!Admits(k, c) /\ place' = [place EXCEPT ![c] = <<p, <<k, 0>>>>]
          \/ \E p \in Players, z \in Zones :
               Free(Now, p, z) /\ place' = [place EXCEPT ![c] = <<p, z>>]
      <4>1. \/ Places(t) = Places(Now)
            \/ Places(t) = [Places(Now) EXCEPT ![c] = <<>>]
            \/ \E p \in Players, k \in Piles :
                 Abstract!Admits(k, c) /\ Places(t) = [Places(Now) EXCEPT ![c] = <<p, <<k, 0>>>>]
            \/ \E p \in Players, z \in Zones :
                 Free(Now, p, z) /\ Places(t) = [Places(Now) EXCEPT ![c] = <<p, z>>]
        BY <2>1, <2>3, <2>6, MovedPlaces
      <4> QED BY <1>1, <2>2, <4>1
    <3>2. ASSUME place' = [place EXCEPT ![c] = <<>>]
          PROVE  Abstract!Next
      <4>1. Abstract!Leave(c) BY <3>2 DEF Abstract!Leave, Abstract!Nowhere, place
      <4> QED BY <4>1 DEF Abstract!Next
    <3>3. ASSUME NEW p \in Players, NEW k \in Piles, Abstract!Admits(k, c),
                 place' = [place EXCEPT ![c] = <<p, <<k, 0>>>>]
          PROVE  Abstract!Next
      <4>1. Abstract!MoveToPile(c, p, k)
        BY <3>3 DEF Abstract!MoveToPile, Abstract!Pile, place
      <4> QED BY <4>1 DEF Abstract!Next, Abstract!Players, Players
    <3>4. ASSUME NEW p \in Players, NEW z \in Zones, Free(Now, p, z),
                 place' = [place EXCEPT ![c] = <<p, z>>]
          PROVE  Abstract!Next
      <4>1. Abstract!MoveToZone(c, p, z)
        BY <3>4, AbstractPlace DEF Abstract!MoveToZone, place
      <4> QED BY <4>1 DEF Abstract!Next, Abstract!Players, Players
    <3> QED BY <3>1, <3>2, <3>3, <3>4
  <2>7. ASSUME NEW c \in Cards, NEW d \in Cards, c # d, Exchanged(Now, t, c, d)
        PROVE  Abstract!Next
    <3>1. PICK p \in Players, q \in Players, x \in Zones, y \in Zones, v \in Zones, w \in Zones :
           /\ PlaceIn(Now, c) = <<p, x>> /\ PlaceIn(Now, d) = <<q, y>>
           /\ v = y \/ Free(Now, q, v)
           /\ w = x \/ Free(Now, p, w)
           /\ v[1] = y[1] /\ w[1] = x[1]
           /\ Places(t) = [Places(Now) EXCEPT ![c] = <<q, v>>, ![d] = <<p, w>>]
      BY <2>1, <2>3, <2>7, ExchangedPlaces
    <3>2. place[c] = <<p, x>> /\ place[d] = <<q, y>> BY <2>4, <3>1
    <3>3. place' = [place EXCEPT ![c] = <<q, v>>, ![d] = <<p, w>>] BY <1>1, <2>2, <3>1
    <3>4. /\ v = y \/ Abstract!Vacant(q, v)
          /\ w = x \/ Abstract!Vacant(p, w)
      BY <3>1, AbstractPlace
    <3>5. Abstract!Exchange(c, d, v, w)
      <4>1. /\ place[c] \in Abstract!Players \X Zones /\ place[d] \in Abstract!Players \X Zones
            /\ place[c][1] = p /\ place[c][2] = x /\ place[d][1] = q /\ place[d][2] = y
        BY <3>2 DEF Abstract!Players, Players
      <4>2. /\ <<place[d][1], v>> = place[d] \/ Abstract!Vacant(place[d][1], v)
            /\ <<place[c][1], w>> = place[c] \/ Abstract!Vacant(place[c][1], w)
            /\ v[1] = place[d][2][1] /\ w[1] = place[c][2][1]
        BY <3>1, <3>2, <3>4, <4>1
      <4>3. place' = [place EXCEPT ![c] = <<place[d][1], v>>, ![d] = <<place[c][1], w>>]
        BY <3>3, <4>1
      <4> QED BY <4>1, <4>2, <4>3 DEF Abstract!Exchange, place
    <3> QED BY <2>7, <3>5 DEF Abstract!Next
  <2>8. ASSUME NEW p \in Players, TurnedOver(Now, t, p)
        PROVE  Abstract!Next
    <3>1. place' = [c \in Cards |->
             CASE place[c] = <<p, <<"DECK", 0>>>> -> <<p, <<"GRAVE", 0>>>>
               [] place[c] = <<p, <<"GRAVE", 0>>>> ->
                    <<p, <<IF c \in ExtraMonsters THEN "EXTRA" ELSE "DECK", 0>>>>
               [] OTHER -> place[c]]
      BY <1>1, <2>1, <2>2, <2>3, <2>8, TurnedPlaces
    <3>2. Abstract!Turnover(p) BY <3>1 DEF Abstract!Turnover, Abstract!Pile, place
    <3> QED BY <3>2 DEF Abstract!Next, Abstract!Players, Players
  <2> QED BY <2>1, <2>5, <2>6, <2>7, <2>8 DEF Stepped, place
<1> QED BY <1>2, <1>3

-----------------------------------------------------------------------------
(* The theorems.  AnySwap admits the turning over of a deck that leaves
   sequences wrong, with which none of this holds (MovedToField). *)

(* A field is good at all times: every operation of field.cpp that moves a
   card, or arranges a pile, finds it good and leaves it so. *)
THEOREM FieldGood ==
  ASSUME ~AnySwap
  PROVE  Spec => []Good(Now)
<1>1. Init => Good(Now) BY StartGood
<1>2. Good(Now) /\ [Next]_vars => Good(Now)' BY GoodNext
<1> QED BY <1>1, <1>2, PTL DEF Spec

(* The lists, zones and counters keep their types; above all, the counter
   of face-up cards in the extra deck never wraps below zero. *)
THEOREM FieldTypeCorrect ==
  ASSUME ~AnySwap
  PROVE  Spec => []TypeOK
<1>1. Good(Now) => TypeOK BY GoodLocated
<1> QED BY <1>1, FieldGood, PTL

(* card::current, the lists and the zones, used_location and extra_p_count
   agree on where every card is, for any cards, owners and zones: erasing
   or moving a card by its own sequence always takes that card. *)
THEOREM LocatedCorrect ==
  ASSUME ~AnySwap
  PROVE  Spec => []Located
<1>1. Good(Now) => Located BY GoodLocated
<1> QED BY <1>1, FieldGood, PTL

(* Every move, exchange and rearrangement of the field is one of Placement:
   it displaces only the cards it names, to zones that were free on both
   sides, or to piles that admit them. *)
THEOREM PlacedCorrect ==
  ASSUME ~AnySwap
  PROVE  Spec => Placed
<1>1. Init => Abstract!Init BY RefinesInit
<1>2. Good(Now) /\ [Next]_vars => [Abstract!Next]_[c \in Cards |-> PlaceOf(c)]
  BY RefinesStep
<1> QED BY <1>1, <1>2, FieldGood, PTL DEF Spec, Placed, Abstract!Spec
=============================================================================
