----------------------------- MODULE MCAnswers -----------------------------
(* The calls that Answers is checked for: every assortment of up to four
   cards for the choices of cards, and a few for the others. *)
EXTENDS Answers
LOCAL INSTANCE SequencesExt
LOCAL INSTANCE FiniteSetsExt

CONSTANT MaxCards

(* Assortments: the kind and the weight of each card; those that differ
   only in the order of the cards are the same one. *)
Kinds == <<<<"zone", 1>>, <<"zone", 2>>, <<"away", 1>>, <<"away", 2>>,
           <<"ex", 1>>, <<"ex", 2>>, <<"oneof", 1>>, <<"oneof", 2>>>>
Assorted(kinds) ==
  {f \in BoundedSeq(kinds, MaxCards) : \A i \in 1 .. Len(f) - 1 : f[i] <= f[i + 1]}
Of(f, kinds) == {i \in DOMAIN f : Kinds[f[i]][1] \in kinds}

Bounds == {<<0, 1>>, <<1, 1>>, <<1, 2>>, <<2, 2>>, <<2, 3>>, <<3, 3>>}

Tributes ==
  {[kind |-> "tribute", param |-> [i \in DOMAIN f |-> Kinds[f[i]][2]],
    release |-> Of(f, {"zone", "away"}), zone |-> Of(f, {"zone"}), onfield |-> Of(f, {"zone"}),
    ex |-> Of(f, {"ex"}), oneof |-> Of(f, {"oneof"}),
    room |-> room, min |-> b[1], max |-> b[2], cancelable |-> c] :
     f \in Assorted(1 .. 8), room \in 0 .. 1, b \in Bounds, c \in BOOLEAN}

Releases ==
  {[kind |-> "release", release |-> Of(f, {"zone", "away"}), zone |-> Of(f, {"zone"}),
    ex |-> Of(f, {"ex"}), oneof |-> Of(f, {"oneof"}), check_field |-> room < 3,
    selected |-> s, room |-> room, min |-> b[1], max |-> b[2], cancelable |-> c] :
     f \in Assorted({1, 3, 5, 7}), s \in {{}, {1}, {1, 2}, {3, MaxCards}},
     room \in 0 .. 3, b \in Bounds, c \in BOOLEAN}

(* Sums of cards with one value or two. *)
SumValues == <<<<1, 0>>, <<2, 0>>, <<3, 0>>, <<1, 3>>, <<2, 1>>>>
Sumsets(greater) ==
  {[kind |-> "sum", values |-> [i \in DOMAIN f |-> SumValues[f[i]]],
    must |-> [i \in 1 .. m |-> i], cards |-> m + 1 .. Len(f), acc |-> acc,
    greater |-> greater, min |-> b[1], max |-> b[2]] :
     f \in {g \in BoundedSeq(1 .. 5, 3) : g # <<>>}, m \in 0 .. 1, acc \in 1 .. 5,
     b \in IF greater THEN {<<0, 0>>} ELSE {<<0, 1>>, <<1, 1>>, <<1, 2>>, <<2, 2>>, <<1, 3>>}}

Others ==
  {[kind |-> "counters", counters |-> f, count |-> n, replaces |-> r] :
     f \in [1 .. 3 -> 0 .. 2], n \in 1 .. 3, r \in BOOLEAN}
  \cup {[kind |-> "places", free |-> z, count |-> n] : z \in SUBSET (1 .. 4), n \in 1 .. 3}
  \cup {[kind |-> "sort", deck |-> [i \in 1 .. n |-> i], count |-> k, pile |-> p] :
          n \in 1 .. 4, k \in 1 .. 3, p \in {"top", "bottom", "chain"}}
  \cup {[kind |-> "announce", available |-> a, count |-> n] : a \in SUBSET (1 .. 3), n \in 1 .. 2}
  \cup {[kind |-> "throw", repeat |-> r] : r \in BOOLEAN}

Commands ==
  {[kind |-> "idle", lists |-> l, main1 |-> p, cannot_bp |-> bp, cannot_ep |-> ep,
    must_attack |-> a, can_shuffle |-> s] :
     l \in SUBSET {0, 2, 5}, p, bp, ep, a, s \in BOOLEAN}
  \cup {r \in {[kind |-> "battle", lists |-> l, cannot_m2 |-> m, must_attack |-> a] :
                 l \in SUBSET {0, 1}, m, a \in BOOLEAN} : r.must_attack => 1 \in r.lists}

(* The calls as the scripts and the engine make them: not for more counters
   or zones than there are, nor for a sum of more cards than are needed
   already. *)
Made(r) ==
  /\ r.kind = "counters" =>
       LET total == MapThenSumSet(LAMBDA c : r.counters[c], 1 .. 3) IN total = 0 \/ r.count <= total
  /\ r.kind = "places" => r.count <= Cardinality(r.free)
  /\ r.kind = "sort" => r.count <= Len(r.deck) /\ (r.pile = "chain" => r.count = Len(r.deck))

AllCalls == {r \in Tributes \cup Releases \cup Sumsets(TRUE) \cup Sumsets(FALSE)
                    \cup Others \cup Commands : Made(r)}
=============================================================================
