------------------------------ MODULE Answers ------------------------------
(* The choices of the players: what the engine asks for, which answers of
   the host it takes, and what the caller makes of them.  A behaviour is
   one call: the test that a script makes before it (check_tribute,
   check_release_list, the sums), the unit that asks (SelectCard,
   SelectUnselectCard, SelectTributeP, SelectSum, SelectCounter,
   SelectPlace, SortCard, RockPaperScissors and the commands of a phase),
   answers good and bad, and the unit that asked for it, which may ask
   again (SelectTribute and SelectRelease, one card at a time).

   Cards are numbers; an answer about cards is a cancellation or the
   positions it names (the three widths and the bitmap of
   parse_response_cards), Len(cards) standing for any position that is out
   of range. *)
EXTENDS Integers, Sequences, FiniteSets
LOCAL INSTANCE SequencesExt
LOCAL INSTANCE FiniteSetsExt

CONSTANT Requests  \* the calls: records with the arguments and the facts they meet

VARIABLES
  request,       \* the call
  ask,           \* the unit that waits for an answer, with its arguments
  returns,       \* field::return_cards: what was parsed so far, and canceled
  dialogue,      \* core.operated_set, arg.extra_release_effect, arg.hand0
  result         \* what the call came to

vars == <<request, ask, returns, dialogue, result>>

Units == {"None", "SelectCard", "SelectTributeP", "SelectUnselectCard", "SelectSum",
          "SelectOption", "SelectCounter", "SelectPlace", "SortCard",
          "Announce", "RockPaperScissors", "SelectIdleCmd", "SelectBattleCmd"}

(* An ask: cards are core.select_cards, back core.unselect_cards. *)
Asking(unit, cards, back, min, max, cancelable, finishable) ==
  [unit |-> unit, cards |-> SetToSortSeq(cards, <), back |-> SetToSortSeq(back, <),
   min |-> min, max |-> max, cancelable |-> cancelable, finishable |-> finishable]
Simple(unit) == Asking(unit, {}, {}, 0, 0, FALSE, FALSE)
NoAsk == Simple("None")

NoReturns == [canceled |-> FALSE, list |-> {}]
NoDialogue == [set |-> {}, extra |-> FALSE, hand0 |-> 0]
Open == [state |-> "open"]
Declined == [state |-> "declined"]

Is(kind) == request.kind = kind
New == result.state = "open" /\ ask = NoAsk
Ends(r) == result' = r /\ ask' = NoAsk
Asks(a) == ask' = a /\ returns' = NoReturns /\ UNCHANGED result

(* The result of a selection of cards. *)
Cards(set, canceled, extra) ==
  [state |-> "done", set |-> set, canceled |-> canceled, extra |-> extra]

-----------------------------------------------------------------------------
(* parse_response_cards: what is valid is appended to return_cards until
   something is not; a card that is named twice makes the answer invalid. *)
Canceled == [type |-> "cancel"]
Named(idx) == [type |-> "cards", idx |-> idx]

Parsed(a, cards, cancelable) ==
  IF a = Canceled
  THEN [ok |-> cancelable, ret |-> [returns EXCEPT !.canceled = @ \/ cancelable]]
  ELSE LET bad == {i \in DOMAIN a.idx : a.idx[i] >= Len(cards)}
           valid == {i \in DOMAIN a.idx : \A j \in bad : i < j}
           named == {cards[a.idx[i] + 1] : i \in valid}
       IN [ok |-> bad = {} /\ Cardinality(named) = Len(a.idx) /\ named \cap returns.list = {},
           ret |-> [returns EXCEPT !.list = @ \cup named]]

(* The answers a host may give to an ask for cards. *)
CardAnswers(n) ==
  {Canceled}
  \cup {Named(idx) : idx \in {SetToSortSeq(S, <) : S \in SUBSET (0 .. n - 1)}}
  \cup {Named(idx) : idx \in BoundedSeq(0 .. n, 2)}

(* The weight of cards as tributes: release_param. *)
Weight(set) == MapThenSumSet(LAMBDA c : request.param[c], set)

(* SelectCard and SelectTributeP clip their bounds before they ask.
   Mutant: the lower one is left as it is. *)
Least(a, b) == IF a < b THEN a ELSE b
SelectCardUnclipped(cards, min, max, cancelable) ==
  Asking("SelectCard", cards, {}, min, Least(max, Cardinality(cards)),
         cancelable \/ min = 0, FALSE)
SelectCard(cards, min, max, cancelable) ==
  LET most == Least(max, Cardinality(cards))
      least == Least(min, most)
  IN Asking("SelectCard", cards, {}, least, most, cancelable \/ least = 0, FALSE)
SelectTributeP(cards, min, max, cancelable) ==
  LET most == Least(max, Least(5, Weight(cards)))
      least == Least(min, most)
  IN Asking("SelectTributeP", cards, {}, least, most, cancelable \/ least = 0, FALSE)

-----------------------------------------------------------------------------
(* Sums: a card counts as o1 or, if it has one, o2. *)
Values(c) == {request.values[c][1]} \cup ({request.values[c][2]} \ {0})

(* field::check_with_sum_limit: some of the cards from index on, count - 1
   being chosen already, make acc exactly. *)
RECURSIVE check_with_sum_limit(_, _, _, _, _)
check_with_sum_limit(mats, acc, count, min, max) ==
  /\ count <= max
  /\ mats # <<>>
  /\ \/ acc \in Values(Head(mats)) /\ count >= min
     \/ \E v \in Values(Head(mats)) :
          acc > v /\ check_with_sum_limit(Tail(mats), acc - v, count + 1, min, max)
     \/ check_with_sum_limit(Tail(mats), acc, count, min, max)

(* ... after all of the cards that must be taken. *)
RECURSIVE check_with_sum_limit_m(_, _, _, _, _)
check_with_sum_limit_m(must, mats, acc, min, max) ==
  IF acc = 0 THEN must = <<>> /\ 0 >= min /\ 0 <= max
  ELSE IF must = <<>> THEN check_with_sum_limit(mats, acc, 1, min, max)
  ELSE \E v \in Values(Head(must)) :
         acc >= v /\ check_with_sum_limit_m(Tail(must), mats, acc - v, min, max)

(* check_with_sum_greater_limit: they reach acc, but not without the
   smallest of them, opmin. *)
RECURSIVE check_with_sum_greater_limit(_, _, _)
check_with_sum_greater_limit(mats, acc, opmin) ==
  /\ mats # <<>>
  /\ \/ \E v \in Values(Head(mats)) : acc <= v /\ acc + opmin > v
     \/ \E v \in Values(Head(mats)) :
          check_with_sum_greater_limit(Tail(mats), acc - v, Least(opmin, v))
     \/ check_with_sum_greater_limit(Tail(mats), acc, opmin)

RECURSIVE check_with_sum_greater_limit_m(_, _, _, _)
check_with_sum_greater_limit_m(must, mats, acc, opmin) ==
  IF acc <= 0 THEN must = <<>> /\ acc + opmin > 0
  ELSE IF must = <<>> THEN check_with_sum_greater_limit(mats, acc, opmin)
  ELSE \E v \in Values(Head(must)) :
         check_with_sum_greater_limit_m(Tail(must), mats, acc - v, Least(opmin, v))

(* select_sum_check1: all of the cards of the answer make acc. *)
RECURSIVE select_sum_check1(_, _)
select_sum_check1(oparam, acc) ==
  /\ acc # 0 /\ oparam # <<>>
  /\ IF Len(oparam) = 1 THEN acc \in Values(oparam[1])
     ELSE \E v \in Values(oparam[1]) :
            acc > v /\ select_sum_check1(Tail(oparam), acc - v)

(* The test of the answer when there is no upper limit of cards. *)
ReachesJust(cards, acc) ==
  LET smallest(c) == Min(Values(c))
  IN /\ MapThenSumSet(LAMBDA c : Max(Values(c)), cards) >= acc
     /\ MapThenSumSet(smallest, cards) - Min({smallest(c) : c \in cards} \cup {1000}) < acc

-----------------------------------------------------------------------------
(* The second step of the units that ask for cards: is the answer taken,
   and what is in return_cards after it. *)
Accepts(parsed, cond(_)) ==
  [parsed EXCEPT !.ok = @ /\ (parsed.ret.canceled \/ cond(parsed.ret.list))]

JudgeCards(u, a) ==
  LET enough(set) == Cardinality(set) \in u.min .. u.max
  IN Accepts(Parsed(a, u.cards, u.cancelable), enough)

JudgeTributes(u, a) ==
  LET enough(set) == Cardinality(set) <= u.max /\ Weight(set) >= u.min
  IN Accepts(Parsed(a, u.cards, u.cancelable), enough)

JudgeSum(u, a) ==
  LET right(set) ==
        IF request.max = 0 THEN ReachesJust(set \cup ToSet(request.must), request.acc)
        ELSE /\ Cardinality(set) \in request.min .. request.max
             /\ select_sum_check1(request.must \o SetToSortSeq(set, <), request.acc)
  IN Accepts(Parsed(a, u.cards, FALSE), right)

(* One card, by its position in the two lists, or the end of the dialogue. *)
JudgeToggle(u, a) ==
  LET both == u.cards \o u.back
      may_end == u.cancelable \/ u.finishable
      one == a # Canceled /\ Len(a.idx) = 1 /\ a.idx[1] < Len(both)
  IN IF a = Canceled THEN [ok |-> may_end, ret |-> [returns EXCEPT !.canceled = @ \/ may_end]]
     ELSE [ok |-> one,
           ret |-> [returns EXCEPT !.list = @ \cup IF one THEN {both[a.idx[1] + 1]} ELSE {}]]

Judged(u, a) ==
  CASE u.unit = "SelectCard" -> JudgeCards(u, a)
    [] u.unit = "SelectTributeP" -> JudgeTributes(u, a)
    [] u.unit = "SelectSum" -> JudgeSum(u, a)
    [] u.unit = "SelectUnselectCard" -> JudgeToggle(u, a)

CardUnits == {"SelectCard", "SelectTributeP", "SelectUnselectCard", "SelectSum"}
AnswersTo(u) == CardAnswers(Len(u.cards \o u.back))
Taken(u) == {a \in AnswersTo(u) : Judged(u, a).ok}

(* A refused answer (MSG_RETRY) leaves nothing of itself in return_cards.
   Mutant: the cards that were parsed stay. *)
KeptCards(ret) == ret
ClearedCards(ret) == NoReturns

CardsRefused ==
  /\ ask.unit \in CardUnits
  /\ \E a \in AnswersTo(ask) \ Taken(ask) :
       returns' = ClearedCards(Judged(ask, a).ret)
  /\ UNCHANGED <<request, ask, dialogue, result>>

-----------------------------------------------------------------------------
(* SelectTribute, after check_tribute.  release, ex and oneof are the lists
   that get_summon_release_list fills: the cards that may be tributed,
   those of the opponent that must (EFFECT_EXTRA_RELEASE) and those of
   which one may (EFFECT_EXTRA_RELEASE_SUM); room is get_tofield_count,
   zone are the cards of release in the zones that the monster may take,
   onfield those that are anywhere on that side. *)
Most(set) == Max({request.param[c] : c \in set} \cup {0})

check_tribute ==
  LET m == Weight(request.release \cup request.ex) + Most(request.oneof)
      max == Least(request.max, m)
      both == request.ex # {} /\ Cardinality(request.ex) >= request.min
      s == IF both THEN 0 ELSE Cardinality(request.onfield)
      ct == request.room + IF both THEN 0 ELSE Cardinality(request.zone)
      left == Max({max - Cardinality(request.ex), 0})
  IN /\ request.min <= max
     /\ request.room > 0 \/ max > 0
     /\ ct > 0
     /\ s >= 1 - request.room /\ left >= 1 - request.room

MustChoose == IF request.room <= 0 THEN request.zone ELSE {}

(* The two cases that one ask for all of the cards is enough for. *)
TributesAtOnce ==
  IF request.room > 0 /\ request.ex \cup request.oneof = {} THEN {request.release}
  ELSE IF request.room > 0 /\ Cardinality(request.ex) >= request.max THEN {request.ex}
  ELSE IF request.ex \cup request.oneof = {} /\ request.min > Weight(request.release)
  THEN {request.release}
  ELSE {}

(* Step 1: the first card of a dialogue. *)
FirstTribute ==
  LET must == MustChoose
      offered ==
        IF must # {} /\ request.max - Cardinality(request.ex) = 1 THEN must \cup request.ex
        ELSE IF must # {} /\ request.max <= 1 THEN must
        ELSE request.release \cup request.ex \cup request.oneof
  IN Asking("SelectUnselectCard", offered, {}, request.min, request.max,
            request.cancelable, FALSE)

(* Step 2: the next one.  The cards that must be among the tributes get the
   places that are left when there are no more than that.  Mutant: the
   other cards are offered to the end. *)
Cut(a, b) == IF b > a THEN 0 ELSE a - b
PlacesLeft(d) == Cut(request.max, Cardinality(d.set))
ExLeft(d) == request.ex \ d.set
Forced(d) == MustChoose # {} /\ MustChoose \cap d.set = {}
AnyTribute(d) ==
  (request.release \cup request.ex \cup IF d.extra THEN {} ELSE request.oneof) \ d.set
OfferedToTheEnd(d) ==
  IF Forced(d) /\ PlacesLeft(d) - Cardinality(ExLeft(d)) = 1 THEN MustChoose \cup ExLeft(d)
  ELSE IF Forced(d) /\ PlacesLeft(d) <= 1 THEN MustChoose
  ELSE AnyTribute(d)
Offered(d) ==
  IF Forced(d) /\ PlacesLeft(d) - Cardinality(ExLeft(d)) = 1 THEN MustChoose \cup ExLeft(d)
  ELSE IF Forced(d) /\ PlacesLeft(d) <= 1 THEN MustChoose
  ELSE IF ExLeft(d) # {} /\ Cardinality(ExLeft(d)) = PlacesLeft(d) THEN ExLeft(d)
  ELSE AnyTribute(d)

NextTribute(d) ==
  Asking("SelectUnselectCard", Offered(d), d.set, request.min, request.max,
         d.set = {} /\ request.cancelable,
         Weight(d.set) >= request.min /\ ~Forced(d) /\ ExLeft(d) = {})

(* A card is chosen or taken back; an effect that lets one card be
   released is noted with that card. *)
Toggled(d, c) ==
  IF c \in d.set
  THEN [d EXCEPT !.set = @ \ {c}, !.extra = @ /\ c \notin request.oneof]
  ELSE [d EXCEPT !.set = @ \cup {c}, !.extra = @ \/ c \in request.oneof]
After(d, ret) == IF ret.canceled THEN d ELSE Toggled(d, CHOOSE c \in ret.list : TRUE)

(* Step 3. *)
TributesOver(d, ret) ==
  LET e == After(d, ret) IN
    \/ ret.canceled /\ (e.set = {} \/ Weight(e.set) >= request.min)
    \/ Cardinality(e.set) >= request.max

SelectTribute ==
  /\ New /\ Is("tribute") /\ UNCHANGED <<request, dialogue>>
  /\ IF ~check_tribute THEN Ends(Declined) /\ UNCHANGED returns
     ELSE IF TributesAtOnce = {} THEN Asks(FirstTribute)
     ELSE LET cards == CHOOSE s \in TributesAtOnce : TRUE IN
          IF request.max = 0 \/ cards = {}
          THEN Ends(Cards({}, FALSE, FALSE)) /\ UNCHANGED returns
          ELSE Asks(SelectTributeP(cards, request.min, request.max, request.cancelable))

TributesSelected ==
  /\ ask.unit = "SelectTributeP"
  /\ \E a \in Taken(ask) : LET ret == Judged(ask, a).ret IN
       returns' = ret /\ Ends(Cards(ret.list, ret.canceled, FALSE))
  /\ UNCHANGED <<request, dialogue>>

TributeToggled ==
  /\ ask.unit = "SelectUnselectCard" /\ Is("tribute") /\ UNCHANGED request
  /\ \E a \in Taken(ask) : LET ret == Judged(ask, a).ret  e == After(dialogue, ret) IN
       /\ dialogue' = e
       /\ IF TributesOver(dialogue, ret)
          THEN /\ returns' = ret
               /\ Ends(Cards(e.set, ret.canceled /\ e.set = {}, e.extra))
          ELSE Asks(NextTribute(e))

-----------------------------------------------------------------------------
(* SelectRelease, after check_release_list: the same with a weight of 1,
   where a card of zone must be among them if check_field is asked for and
   there is less room than cards to be released. *)
MustFree == request.check_field /\ request.room < request.min

(* The cards that the script has selected already (Duel.SetSelectedCard,
   core.must_select_cards) must be among those that can be released, and
   enough are to be left without them: the test is for more. *)
check_release_list ==
  LET relcard == request.release \cup request.ex
      selected == request.selected \ relcard
      has_oneof == selected # {}
  IN /\ MustFree => request.zone # {}
     /\ selected \subseteq request.oneof /\ Cardinality(selected) <= 1
     /\ Cardinality(relcard \ request.selected)
          + (IF ~has_oneof /\ request.oneof # {} THEN 1 ELSE 0) >= request.min

(* Step 0: when one SelectCard is enough, and what it offers. *)
AllMust == \/ Cardinality(request.ex) >= request.max
           \/ request.release \cup request.oneof = {}
AllMinimum == /\ Cardinality(request.oneof) <= 1
              /\ Cardinality(request.ex \cup request.release \cup request.oneof) = request.min
OnlySelf == request.ex \cup request.oneof = {}
ReleasesAtOnce == ~MustFree /\ (AllMinimum \/ AllMust \/ OnlySelf)

AllReleases ==
  LET cards == request.ex \cup IF Cardinality(request.ex) < request.max
                               THEN request.release \cup request.oneof ELSE {}
  IN SelectCard(cards, IF AllMust THEN Cardinality(request.ex) ELSE request.min,
                request.max, request.cancelable)

(* Step 2. *)
NextRelease(d) ==
  LET chosen == MustFree => request.zone \cap d.set # {}
      ex == request.ex \ d.set
      curmax == request.max - Cardinality(d.set) - (IF chosen THEN 0 ELSE 1) - Cardinality(ex)
      finishable == Cardinality(d.set) >= request.min /\ ex = {} /\ chosen
      diff == IF curmax > 0
              THEN request.ex \cup request.release \cup IF d.extra THEN {} ELSE request.oneof
              ELSE IF chosen THEN request.ex
              ELSE request.zone \cup IF curmax = 0 THEN request.ex ELSE {}
  IN Asking("SelectUnselectCard", diff \ d.set, d.set, request.min, request.max,
            finishable \/ d.set = {}, finishable)

(* Step 3. *)
ReleasesOver(d, ret) ==
  \/ ret.canceled
  \/ Cardinality(After(d, ret).set) = request.max

SelectRelease ==
  /\ New /\ Is("release") /\ UNCHANGED <<request, dialogue>>
  /\ IF ~check_release_list THEN Ends(Declined) /\ UNCHANGED returns
     ELSE IF ~ReleasesAtOnce THEN Asks(NextRelease(dialogue))
     ELSE IF AllReleases.max = 0
     THEN Ends(Cards({}, FALSE, request.oneof # {})) /\ UNCHANGED returns
     ELSE Asks(AllReleases)

(* Step 1: the use of the effect is counted when there are such cards. *)
ReleasesSelected ==
  /\ ask.unit = "SelectCard"
  /\ \E a \in Taken(ask) : LET ret == Judged(ask, a).ret IN
       /\ returns' = ret
       /\ Ends(IF ret.canceled \/ Cardinality(ret.list) < request.min
               THEN Cards({}, TRUE, FALSE)
               ELSE Cards(ret.list, FALSE, request.oneof # {}))
  /\ UNCHANGED <<request, dialogue>>

ReleaseToggled ==
  /\ ask.unit = "SelectUnselectCard" /\ Is("release") /\ UNCHANGED request
  /\ \E a \in Taken(ask) : LET ret == Judged(ask, a).ret  e == After(dialogue, ret) IN
       /\ dialogue' = e
       /\ IF ReleasesOver(dialogue, ret)
          THEN /\ returns' = ret
               /\ Ends(Cards(e.set, ret.canceled /\ e.set = {}, e.extra))
          ELSE Asks(NextRelease(e))

-----------------------------------------------------------------------------
(* Group.SelectWithSumEqual and, with max = 0, Group.SelectWithSumGreater. *)
SumPossible ==
  LET mats == SetToSortSeq(request.cards, <) IN
    IF request.greater
    THEN check_with_sum_greater_limit_m(request.must, mats, request.acc, 1000)
    ELSE check_with_sum_limit_m(request.must, mats, request.acc, request.min, request.max)

SelectSum ==
  /\ New /\ Is("sum") /\ UNCHANGED <<request, dialogue>>
  /\ IF ~SumPossible THEN Ends(Declined) /\ UNCHANGED returns
     ELSE IF request.cards = {} THEN Ends(Cards({}, FALSE, FALSE)) /\ UNCHANGED returns
     ELSE Asks(Asking("SelectSum", request.cards, {}, request.min, request.max, FALSE, FALSE))

SumSelected ==
  /\ ask.unit = "SelectSum"
  /\ \E a \in Taken(ask) : LET ret == Judged(ask, a).ret IN
       returns' = ret /\ Ends(Cards(ret.list, FALSE, FALSE))
  /\ UNCHANGED <<request, dialogue>>

-----------------------------------------------------------------------------
(* The other answers are numbers in field::returns, which every unit reads
   from the beginning.  What they come to: *)
Gives(value) == [state |-> "done", value |-> value]

(* RemoveCounter: by taking the counters off, or by an effect instead
   (EFFECT_RCOUNTER_REPLACE); SelectCounter is not shown when one card has
   all of them. *)
Total == MapThenSumSet(LAMBDA c : request.counters[c], DOMAIN request.counters)
Options == (IF Total > 0 THEN <<"remove">> ELSE <<>>)
           \o (IF request.replaces THEN <<"replace">> ELSE <<>>)
Holders == {c \in DOMAIN request.counters : request.counters[c] > 0}

(* Step 2: an amount below 0 is passed over. *)
Removed(amounts) ==
  [c \in DOMAIN request.counters |->
     IF c \in DOMAIN amounts /\ amounts[c] > 0 THEN request.counters[c] - amounts[c]
     ELSE request.counters[c]]

(* Step 1. *)
Chosen(option) ==
  IF option = "replace" THEN Ends([state |-> "replaced"]) /\ UNCHANGED returns
  ELSE IF Cardinality(Holders) = 1
  THEN Ends(Gives(Removed([c \in Holders |-> Least(request.count, Total)]))) /\ UNCHANGED returns
  ELSE Asks(Simple("SelectCounter"))

RemoveCounter ==
  /\ New /\ Is("counters") /\ UNCHANGED <<request, dialogue>>
  /\ IF Options = <<>> THEN Ends(Declined) /\ UNCHANGED returns
     ELSE IF Len(Options) = 1 THEN Chosen(Options[1])
     ELSE Asks(Simple("SelectOption"))

OptionChosen ==
  /\ ask.unit = "SelectOption" /\ UNCHANGED <<request, dialogue>>
  /\ \E i \in DOMAIN Options : Chosen(Options[i])

(* The judge of SelectCounter.  The amounts that answers name are bounded. *)
CountersRight(amounts) ==
  /\ \A c \in Holders : request.counters[c] >= amounts[c]
  /\ MapThenSumSet(LAMBDA c : amounts[c], Holders) = request.count
AmountBound == 3
Amounts == {a \in [Holders -> -1 .. AmountBound] : CountersRight(a)}

CountersChosen ==
  /\ ask.unit = "SelectCounter" /\ UNCHANGED <<request, dialogue, returns>>
  /\ \E amounts \in Amounts : Ends(Gives(Removed(amounts)))

(* SelectPlace for Duel.SelectDisableField and SelectFieldZone: a zone that
   was named is no longer free for the rest of the answer, flag being a
   copy for this answer alone. *)
FreeForEach(zones) ==
  \A i \in DOMAIN zones :
    zones[i] \in request.free \ {zones[j] : j \in 1 .. i - 1}
Places == {z \in [1 .. request.count -> 0 .. 4] : FreeForEach(z)}

SelectPlace ==
  /\ New /\ Is("places") /\ Asks(Simple("SelectPlace")) /\ UNCHANGED <<request, dialogue>>
PlacesSelected ==
  /\ ask.unit = "SelectPlace" /\ UNCHANGED <<request, dialogue, returns>>
  /\ \E zones \in Places : Ends(Gives(ToSet(zones)))

-----------------------------------------------------------------------------
(* SortCard, for SortChain and SortDeck: <<>> stands for the answer -1, no
   sorting; the i-th number is the place of the i-th card. *)
Orders ==
  {<<>>} \cup {o \in [1 .. request.count -> 0 .. request.count - 1] :
                 \A i, j \in DOMAIN o : o[i] = o[j] => i = j}

(* tc, the cards in their new order: the links of one player, or the cards
   from the top of the deck (the end of list_main) on, or those from its
   bottom on. *)
Shown ==
  SubSeq(IF request.pile = "top" THEN Reverse(request.deck) ELSE request.deck, 1, request.count)
InOrder(order) ==
  [p \in 1 .. request.count |-> Shown[CHOOSE i \in DOMAIN order : order[i] = p - 1]]

(* Each card is taken out of the deck and put on the top, the last of tc
   first, or under the bottom, the first one first. *)
Put(deck, c) ==
  LET others == SelectSeq(deck, LAMBDA x : x # c)
  IN IF request.pile = "bottom" THEN <<c>> \o others ELSE others \o <<c>>
Restacked(tc) ==
  CASE request.pile = "chain" -> tc
    [] request.pile = "bottom" -> FoldLeft(Put, request.deck, tc)
    [] request.pile = "top" -> FoldLeft(Put, request.deck, Reverse(tc))

SortCard ==
  /\ New /\ Is("sort") /\ Asks(Simple("SortCard")) /\ UNCHANGED <<request, dialogue>>
CardsSorted ==
  /\ ask.unit = "SortCard" /\ UNCHANGED <<request, dialogue, returns>>
  /\ \E order \in Orders :
       Ends([state |-> "done", order |-> order,
             value |-> IF order = <<>> THEN request.deck
                       ELSE Restacked(InOrder(order))])

(* Duel.AnnounceRace and AnnounceAttribute: as many of the available bits
   as are asked for, or all. *)
Announce ==
  /\ New /\ Is("announce") /\ Asks(Simple("Announce")) /\ UNCHANGED <<request, dialogue>>
Announced ==
  /\ ask.unit = "Announce" /\ UNCHANGED <<request, dialogue, returns>>
  /\ \E bits \in SUBSET (request.available \cup {0}) :
       /\ bits \subseteq request.available
       /\ Cardinality(bits) = Least(request.count, Cardinality(request.available))
       /\ Ends(Gives(bits))

(* RockPaperScissors: rock is 1, paper 2 and scissors 3; both answer in
   turn, and again when they throw the same and repeat is set. *)
RockPaperScissors ==
  /\ New /\ Is("throw") /\ Asks(Simple("RockPaperScissors")) /\ UNCHANGED <<request, dialogue>>

FirstThrow ==
  /\ ask.unit = "RockPaperScissors" /\ dialogue.hand0 = 0
  /\ \E hand \in 1 .. 3 : dialogue' = [dialogue EXCEPT !.hand0 = hand]
  /\ UNCHANGED <<request, ask, returns, result>>

SecondThrow ==
  /\ ask.unit = "RockPaperScissors" /\ dialogue.hand0 # 0
  /\ \E hand1 \in 1 .. 3 :
       IF dialogue.hand0 = hand1 /\ request.repeat
       THEN dialogue' = [dialogue EXCEPT !.hand0 = 0] /\ UNCHANGED <<ask, result>>
       ELSE /\ Ends([state |-> "done", hands |-> <<dialogue.hand0, hand1>>,
                     value |-> IF dialogue.hand0 = hand1 THEN 2
                               ELSE IF <<dialogue.hand0, hand1>> \in {<<1, 2>>, <<2, 3>>, <<3, 1>>}
                               THEN 1 ELSE 0])
            /\ UNCHANGED dialogue
  /\ UNCHANGED <<request, returns>>

(* IdleCommand and BattleCommand decide which phases the player may go to,
   SelectIdleCmd and SelectBattleCmd take a command t and a position s in
   its list; lists are the commands whose list is not empty (one card each). *)
to_bp == request.main1 /\ ~request.cannot_bp
to_ep == ~(request.main1 /\ to_bp /\ (request.must_attack \/ request.cannot_ep))

IdleCommands ==
  {c \in (0 .. 9) \X (0 .. 1) :
     \/ c[1] <= 5 /\ c[1] \in request.lists /\ c[2] = 0
     \/ c[1] = 6 /\ request.main1 /\ to_bp
     \/ c[1] = 7 /\ to_ep
     \/ c[1] = 8 /\ request.can_shuffle}
BattleCommands ==
  {c \in (0 .. 4) \X (0 .. 1) :
     \/ c[1] <= 1 /\ c[1] \in request.lists /\ c[2] = 0
     \/ c[1] = 2 /\ ~request.cannot_m2 /\ ~request.must_attack
     \/ c[1] = 3 /\ ~request.must_attack}

Command ==
  /\ New /\ (Is("idle") \/ Is("battle")) /\ UNCHANGED <<request, dialogue>>
  /\ Asks(Simple(IF Is("idle") THEN "SelectIdleCmd" ELSE "SelectBattleCmd"))
CommandGiven ==
  /\ ask.unit \in {"SelectIdleCmd", "SelectBattleCmd"}
  /\ \E c \in IF Is("idle") THEN IdleCommands ELSE BattleCommands : Ends(Gives(c))
  /\ UNCHANGED <<request, dialogue, returns>>

-----------------------------------------------------------------------------
Init ==
  /\ request \in Requests
  /\ ask = NoAsk /\ returns = NoReturns /\ dialogue = NoDialogue /\ result = Open

Next ==
  \/ CardsRefused
  \/ SelectTribute \/ TributesSelected \/ TributeToggled
  \/ SelectRelease \/ ReleasesSelected \/ ReleaseToggled
  \/ SelectSum \/ SumSelected
  \/ RemoveCounter \/ OptionChosen \/ CountersChosen
  \/ SelectPlace \/ PlacesSelected
  \/ SortCard \/ CardsSorted
  \/ Announce \/ Announced
  \/ RockPaperScissors \/ FirstThrow \/ SecondThrow
  \/ Command \/ CommandGiven

Spec == Init /\ [][Next]_vars

-----------------------------------------------------------------------------
Done == result.state = "done"

(* Types; bounds that are asked for can be met, and what return_cards holds
   is some of what was offered. *)
TypeOK ==
  /\ ask.unit \in Units
  /\ ask.min <= ask.max
  /\ returns.canceled \in BOOLEAN
  /\ returns.list \subseteq ToSet(ask.cards \o ask.back) \/ ask = NoAsk
  /\ dialogue.set \cap returns.list = {} \/ ask = NoAsk
  /\ dialogue.extra \in BOOLEAN /\ dialogue.hand0 \in 0 .. 3
  /\ result.state \in {"open", "declined", "replaced", "done"}
  /\ ask # NoAsk => result = Open

(* Whether a dialogue of the units that ask for one card at a time can come
   to an end with cards: by the answers that are taken now, or after taking
   some cards back. *)
AskOf(d) ==
  IF d = dialogue THEN ask ELSE IF Is("tribute") THEN NextTribute(d) ELSE NextRelease(d)
AnswersOf(u) ==
  {[canceled |-> FALSE, list |-> {c}] : c \in ToSet(u.cards \o u.back)}
  \cup IF u.cancelable \/ u.finishable THEN {[canceled |-> TRUE, list |-> {}]} ELSE {}
Over(d, ret) == IF Is("tribute") THEN TributesOver(d, ret) ELSE ReleasesOver(d, ret)

RECURSIVE CanFinish(_)
CanFinish(reached) ==
  LET more == reached \cup UNION {{After(d, ret) : ret \in AnswersOf(AskOf(d))} : d \in reached}
  IN \/ \E d \in reached : \E ret \in AnswersOf(AskOf(d)) :
          Over(d, ret) /\ After(d, ret).set # {}
     \/ more # reached /\ CanFinish(more)

(* Nothing is asked that cannot be answered: when the test before a call
   holds, there are answers that are taken, however many were refused, and
   a dialogue over single cards never runs into a dead end. *)
Answerable ==
  CASE ask.unit \in {"SelectCard", "SelectTributeP", "SelectSum"} -> Taken(ask) # {}
    [] ask.unit = "SelectUnselectCard" -> CanFinish({dialogue})
    [] ask.unit = "SelectCounter" -> Amounts # {}
    [] ask.unit = "SelectPlace" -> Places # {}
    [] ask.unit = "SelectIdleCmd" -> IdleCommands # {}
    [] ask.unit = "SelectBattleCmd" -> BattleCommands # {}
    [] OTHER -> TRUE

(* What comes of a call is within the rules, whatever the answers were.
   Tributes and releases: enough and not too many; the cards of the
   opponent that must be among them all are, unless there are more of them
   than may be taken: then there is no other card but one that frees a zone
   where one is needed.  One at most that an effect lets be used, whose use
   is counted if and only if there is one; and a zone is freed if one is
   needed. *)
Within(set, weight, needs_zone) ==
  /\ set \subseteq request.release \cup request.ex \cup request.oneof
  /\ weight >= request.min /\ Cardinality(set) <= request.max
  /\ IF Cardinality(request.ex) < request.max THEN request.ex \subseteq set
     ELSE Cardinality(set \ request.ex) <= IF needs_zone THEN 1 ELSE 0
  /\ Cardinality(set \cap request.oneof) <= 1
  /\ needs_zone => set \cap request.zone # {}

LegalTributes ==
  IF result.canceled THEN request.cancelable \/ request.min = 0
  ELSE /\ Within(result.set, Weight(result.set), request.room = 0)
       /\ result.extra <=> result.set \cap request.oneof # {}

(* A release can be given up in its dialogue even if it is not cancelable;
   and SelectCard for the cards that must be released counts the use of the
   effect although no other card could be chosen.  When it is declined,
   then no cards could have been released besides those selected already. *)
Besides(set) ==
  /\ request.selected \cup set \subseteq request.release \cup request.ex \cup request.oneof
  /\ request.selected \cap set = {} /\ Cardinality(set) = request.min
  /\ Cardinality((request.selected \cup set) \cap request.oneof) <= 1
  /\ MustFree => (request.selected \cup set) \cap request.zone # {}
LegalReleases ==
  IF result = Declined
  THEN ~\E set \in SUBSET (request.release \cup request.ex \cup request.oneof) : Besides(set)
  ELSE IF result.canceled THEN ReleasesAtOnce => request.cancelable \/ request.min = 0
  ELSE /\ Within(result.set, Cardinality(result.set), MustFree)
       /\ \/ result.extra <=> result.set \cap request.oneof # {}
          \/ ReleasesAtOnce /\ Cardinality(request.ex) >= request.max

(* Sums: every card counts as one of its values, together they make acc; or
   they reach it, and would not without the smallest one.  No choice is
   overlooked when there is said to be none.  (An answer for the second
   case may count a card as the smaller value where it is the smallest and
   as the larger one in the sum.) *)
SumOf(f) == MapThenSumSet(LAMBDA c : f[c], DOMAIN f)
Valuations(set) ==
  LET all == set \cup ToSet(request.must)
  IN {f \in [all -> 1 .. 5] : \A c \in all : f[c] \in Values(c)}
Exact(set) ==
  /\ \E f \in Valuations(set) : SumOf(f) = request.acc
  /\ Cardinality(set) \in request.min .. request.max
Reaching(set) == \E f \in Valuations(set) : SumOf(f) >= request.acc
ReachingJust(set) ==
  \E f \in Valuations(set) :
    SumOf(f) >= request.acc /\ \E c \in DOMAIN f : SumOf(f) - f[c] < request.acc
                                               /\ \A e \in DOMAIN f : f[c] <= f[e]
LegalSum ==
  IF Done THEN IF request.greater THEN Reaching(result.set) ELSE Exact(result.set)
  ELSE \A set \in SUBSET request.cards :
         ~IF request.greater THEN ReachingJust(set) ELSE Exact(set)

(* Counters: no card loses more than it has, and together not fewer than
   asked for (more, if an answer named an amount below 0). *)
LegalCounters ==
  /\ \A c \in DOMAIN request.counters : result.value[c] >= 0
  /\ MapThenSumSet(LAMBDA c : request.counters[c] - result.value[c],
                   DOMAIN request.counters) >= request.count

(* Sorting: the i-th card is at the place that was named for it, counted
   from the top, and no other card has moved. *)
LegalOrder ==
  LET deck == result.value  rest == Len(deck) - request.count
      at(p) == CASE request.pile = "chain" -> p + 1
                 [] request.pile = "top" -> Len(deck) - p
                 [] request.pile = "bottom" -> request.count - p
  IN IF result.order = <<>> THEN deck = request.deck
     ELSE /\ Len(deck) = Len(request.deck)
          /\ \A i \in 1 .. request.count : deck[at(result.order[i])] = Shown[i]
          /\ IF request.pile = "bottom"
             THEN \A i \in request.count + 1 .. Len(deck) : deck[i] = request.deck[i]
             ELSE \A i \in 1 .. rest : deck[i] = request.deck[i]

LegalThrow ==
  LET h == result.hands IN
    IF result.value = 2 THEN h[1] = h[2] /\ ~request.repeat
    ELSE (h[result.value + 1] - h[2 - result.value]) % 3 = 1

(* Commands: a monster that must attack keeps the player from ending the
   turn before the Battle Phase, if there can be one, and from leaving it. *)
LegalCommand ==
  request.must_attack =>
    IF Is("battle") THEN result.value[1] \in request.lists
    ELSE result.value[1] = 7 => ~request.main1 \/ request.cannot_bp

Legal ==
  /\ Done /\ Is("tribute") => LegalTributes
  /\ result # Open /\ Is("release") => LegalReleases
  /\ result # Open /\ Is("sum") => LegalSum
  /\ Done /\ Is("counters") => LegalCounters
  /\ Done /\ Is("places") => result.value \in kSubset(request.count, request.free)
  /\ Done /\ Is("sort") => LegalOrder
  /\ Done /\ Is("throw") => LegalThrow
  /\ Done /\ (Is("idle") \/ Is("battle")) => LegalCommand
=============================================================================
