--------------------------- MODULE ProcessorProofs ---------------------------
(* Proofs about Processor, for any number of functions and events and any
   bound.  The unit stack and the event lists change by taking the last
   element off and appending others, so the invariants are stated of a
   stack and a list of events, and each follows from what Below and Append
   do to them. *)
EXTENDS Processor, SequenceTheorems, FiniteSetTheorems, TLAPS

-----------------------------------------------------------------------------
(* Stacks. *)

(* What Below returns. *)
LEMMA BelowProperties ==
  ASSUME NEW S, NEW s \in Seq(S), s # <<>>
  PROVE  /\ Below(s) \in Seq(S)
         /\ Len(s) \in Nat \ {0}
         /\ Len(Below(s)) = Len(s) - 1
         /\ \A i \in 1 .. Len(s) - 1 : Below(s)[i] = s[i]
         /\ Top(s) \in S
<1> DEFINE k == Len(s) - 1
           L == Len(SubSeq(s, 1, Len(s) - 1))
<1>1. Len(s) \in Nat \ {0} BY EmptySeq
<1>2. /\ SubSeq(s, 1, Len(s) - 1) \in Seq(S)
      /\ \A i \in 1 .. Len(s) - 1 : SubSeq(s, 1, Len(s) - 1)[i] = s[i]
      /\ s[Len(s)] \in S
  BY <1>1
<1>3. k \in Nat BY <1>1
<1>4. L = IF 1 <= k THEN k - 1 + 1 ELSE 0
  <2>1. \A i \in 1 .. Len(s) - 1 : s[i] \in S BY <1>1
  <2> QED BY <1>1, <2>1, SubSeqProperties
<1>5. L = k
  <2> HIDE DEF L, k
  <2> QED BY <1>3, <1>4, SMT
<1> QED BY <1>1, <1>2, <1>5 DEF Below, Top

(* Replacing the last element is taking it off and appending another. *)
LEMMA ReplaceTop ==
  ASSUME NEW S, NEW s \in Seq(S), s # <<>>, NEW u \in S
  PROVE  [s EXCEPT ![Len(s)] = u] = Append(Below(s), u)
<1>1. Len(s) \in Nat \ {0} BY EmptySeq
<1>2. /\ Below(s) \in Seq(S) /\ Len(Below(s)) = Len(s) - 1
      /\ \A i \in 1 .. Len(s) - 1 : Below(s)[i] = s[i]
  BY BelowProperties
<1>3. /\ [s EXCEPT ![Len(s)] = u] \in Seq(S)
      /\ Len([s EXCEPT ![Len(s)] = u]) = Len(s)
      /\ \A i \in 1 .. Len(s) :
           [s EXCEPT ![Len(s)] = u][i] = IF i = Len(s) THEN u ELSE s[i]
  BY <1>1, ExceptSeq
<1>4. /\ Append(Below(s), u) \in Seq(S) /\ Len(Append(Below(s), u)) = Len(s)
      /\ \A i \in 1 .. Len(s) :
           Append(Below(s), u)[i] = IF i = Len(s) THEN u ELSE s[i]
  BY <1>1, <1>2
<1> QED BY <1>3, <1>4, SeqEqual

LEMMA BelowThenTop ==
  ASSUME NEW S, NEW s \in Seq(S), s # <<>>
  PROVE  Append(Below(s), Top(s)) = s
<1>1. /\ Below(s) \in Seq(S) /\ Len(s) \in Nat \ {0} /\ Len(Below(s)) = Len(s) - 1
      /\ \A i \in 1 .. Len(s) - 1 : Below(s)[i] = s[i]
      /\ Top(s) \in S /\ Top(s) = s[Len(s)]
  BY BelowProperties DEF Top
<1>2. /\ Append(Below(s), Top(s)) \in Seq(S) /\ Len(Append(Below(s), Top(s))) = Len(s)
      /\ \A i \in 1 .. Len(s) : Append(Below(s), Top(s))[i] = s[i]
  BY <1>1
<1> QED BY <1>2, SeqEqual

(* Concatenating a short list is appending its elements. *)
LEMMA ConcatShort ==
  ASSUME NEW S, NEW s \in Seq(S), NEW a \in S, NEW b \in S, NEW c \in S
  PROVE  /\ s \o <<>> = s
         /\ s \o <<a>> = Append(s, a)
         /\ s \o <<a, b>> = Append(Append(s, a), b)
         /\ s \o <<a, b, c>> = Append(Append(Append(s, a), b), c)
  OBVIOUS

-----------------------------------------------------------------------------
(* The units in progress and the holders of events, of a stack. *)

LEMMA Indices ==
  ASSUME NEW s \in Seq(Unit)
  PROVE  /\ Executing(s) \subseteq 1 .. Len(s) /\ IsFiniteSet(Executing(s))
         /\ Holders(s) \subseteq 1 .. Len(s) /\ IsFiniteSet(Holders(s))
         /\ Cardinality(Executing(s)) \in Nat /\ Cardinality(Holders(s)) \in Nat
<1>1. Len(s) \in Nat /\ DOMAIN s = 1 .. Len(s) OBVIOUS
<1>2. Executing(s) \subseteq 1 .. Len(s) /\ Holders(s) \subseteq 1 .. Len(s)
  BY <1>1 DEF Executing, Holders
<1>3. IsFiniteSet(1 .. Len(s)) BY <1>1, FS_Interval
<1>4. IsFiniteSet(Executing(s)) /\ IsFiniteSet(Holders(s)) BY <1>2, <1>3, FS_Subset
<1> QED BY <1>2, <1>4, FS_CardinalityType

LEMMA OfAppend ==
  ASSUME NEW s \in Seq(Unit), NEW u \in Unit
  PROVE  /\ Append(s, u) \in Seq(Unit)
         /\ Executing(Append(s, u)) =
              Executing(s) \cup (IF IsExecuting(u) THEN {Len(s) + 1} ELSE {})
         /\ Holders(Append(s, u)) =
              Holders(s) \cup (IF HoldsEvent(u) THEN {Len(s) + 1} ELSE {})
<1>1. /\ Append(s, u) \in Seq(Unit) /\ Len(s) \in Nat
      /\ DOMAIN s = 1 .. Len(s) /\ DOMAIN Append(s, u) = 1 .. (Len(s) + 1)
      /\ \A i \in 1 .. Len(s) : Append(s, u)[i] = s[i]
      /\ Append(s, u)[Len(s) + 1] = u
  OBVIOUS
<1>2. 1 .. (Len(s) + 1) = (1 .. Len(s)) \cup {Len(s) + 1} BY <1>1
<1> QED BY <1>1, <1>2, Zenon DEF Executing, Holders

LEMMA OfBelow ==
  ASSUME NEW s \in Seq(Unit), s # <<>>
  PROVE  /\ Executing(Below(s)) = Executing(s) \ {Len(s)}
         /\ Holders(Below(s)) = Holders(s) \ {Len(s)}
<1>1. /\ Below(s) \in Seq(Unit) /\ Len(s) \in Nat \ {0}
      /\ Len(Below(s)) = Len(s) - 1
      /\ \A i \in 1 .. Len(s) - 1 : Below(s)[i] = s[i]
  BY BelowProperties
<1>2. DOMAIN Below(s) = 1 .. Len(s) - 1 /\ DOMAIN s = 1 .. Len(s) BY <1>1, LenProperties
<1>3. \A i : i \in 1 .. Len(s) - 1 <=> i \in 1 .. Len(s) /\ i # Len(s) BY <1>1
<1>4. ASSUME NEW i
      PROVE  /\ i \in Executing(Below(s)) <=> i \in Executing(s) \ {Len(s)}
             /\ i \in Holders(Below(s)) <=> i \in Holders(s) \ {Len(s)}
  BY <1>1, <1>2, <1>3 DEF Executing, Holders
<1> QED BY <1>4

(* A holder's rank among the holders is an index of the list of events. *)
LEMMA RankBounds ==
  ASSUME NEW s \in Seq(Unit), NEW i \in Holders(s)
  PROVE  Rank(Holders(s), i) \in 1 .. Cardinality(Holders(s))
<1> DEFINE R == {j \in Holders(s) : j <= i}
<1>1. R \subseteq Holders(s) /\ i \in R BY Indices
<1>2. IsFiniteSet(R) /\ Cardinality(R) <= Cardinality(Holders(s))
  BY <1>1, Indices, FS_Subset
<1>3. Cardinality(R) \in Nat /\ Cardinality(R) # 0
  BY <1>1, <1>2, FS_CardinalityType, FS_EmptySet
<1> QED BY <1>2, <1>3, Indices DEF Rank

(* Appending a unit that holds no event, or one together with its event,
   keeps the events in step. *)
LEMMA InStepAppend ==
  ASSUME NEW s \in Seq(Unit), NEW u \in Unit, NEW e \in Seq(Events), InStep(s, e)
  PROVE  /\ ~HoldsEvent(u) => InStep(Append(s, u), e)
         /\ HoldsEvent(u) /\ u.event \in Events =>
              InStep(Append(s, u), Append(e, u.event))
<1> DEFINE t == Append(s, u)
           n == Len(s) + 1
<1>1. /\ t \in Seq(Unit) /\ n \in Nat /\ t[n] = u
      /\ \A i \in Holders(s) : i < n /\ t[i] = s[i]
  BY Indices
<1>2. \A i \in Holders(s) :
        Rank(Holders(s), i) \in 1 .. Len(e) /\ e[Rank(Holders(s), i)] = t[i].event
  BY <1>1, RankBounds DEF InStep
<1>3. ASSUME ~HoldsEvent(u)
      PROVE  InStep(t, e)
  <2>1. Holders(t) = Holders(s) BY <1>3, OfAppend
  <2> QED BY <1>2, <2>1 DEF InStep
<1>4. ASSUME HoldsEvent(u), u.event \in Events
      PROVE  InStep(t, Append(e, u.event))
  <2>1. Holders(t) = Holders(s) \cup {n} /\ n \notin Holders(s) BY <1>1, <1>4, OfAppend
  <2>2. Cardinality(Holders(t)) = Cardinality(Holders(s)) + 1
    BY <2>1, Indices, FS_AddElement
  <2>3. Len(e) = Cardinality(Holders(s)) /\ Len(e) \in Nat BY DEF InStep
  <2>4. \A i \in Holders(s) : Rank(Holders(t), i) = Rank(Holders(s), i)
    <3>1. ASSUME NEW i \in Holders(s)
          PROVE  {j \in Holders(t) : j <= i} = {j \in Holders(s) : j <= i}
      BY <1>1, <2>1, Indices
    <3> QED BY <3>1 DEF Rank
  <2>5. Rank(Holders(t), n) = Len(e) + 1
    <3>1. {j \in Holders(t) : j <= n} = Holders(t) BY <1>1, <2>1, Indices
    <3> QED BY <3>1, <2>2, <2>3 DEF Rank
  <2>6. /\ Len(Append(e, u.event)) = Len(e) + 1
        /\ Append(e, u.event)[Len(e) + 1] = u.event
        /\ \A k \in 1 .. Len(e) : Append(e, u.event)[k] = e[k]
    BY <1>4
  <2>7. \A i \in Holders(s) : Append(e, u.event)[Rank(Holders(t), i)] = t[i].event
    BY <1>2, <2>4, <2>6
  <2>8. Append(e, u.event)[Rank(Holders(t), n)] = t[n].event BY <1>1, <2>5, <2>6
  <2> QED BY <2>1, <2>2, <2>3, <2>6, <2>7, <2>8 DEF InStep
<1> QED BY <1>3, <1>4

(* Taking off a unit that holds no event, or one together with its event,
   keeps the events in step. *)
LEMMA InStepBelow ==
  ASSUME NEW s \in Seq(Unit), s # <<>>, NEW e \in Seq(Events), InStep(s, e)
  PROVE  /\ ~HoldsEvent(Top(s)) => InStep(Below(s), e)
         /\ HoldsEvent(Top(s)) => e # <<>> /\ InStep(Below(s), Below(e))
         /\ HoldsEvent(Top(s)) => Top(e) = Top(s).event
<1> DEFINE t == Below(s)
           n == Len(s)
<1>1. /\ t \in Seq(Unit) /\ n \in Nat \ {0} /\ DOMAIN s = 1 .. n
      /\ \A i \in 1 .. n - 1 : t[i] = s[i]
      /\ Top(s) = s[n]
  BY BelowProperties DEF Top
<1>2. Holders(t) = Holders(s) \ {n} /\ Holders(s) \subseteq 1 .. n BY OfBelow, Indices
<1>3. \A i \in Holders(t) : i \in 1 .. n - 1 /\ t[i] = s[i] BY <1>1, <1>2
<1>4. \A i \in Holders(t) : Rank(Holders(t), i) = Rank(Holders(s), i)
  <2>1. ASSUME NEW i \in Holders(t)
        PROVE  {j \in Holders(t) : j <= i} = {j \in Holders(s) : j <= i}
    BY <1>1, <1>2, <1>3
  <2> QED BY <2>1 DEF Rank
<1>5. \A i \in Holders(t) : /\ Rank(Holders(t), i) \in 1 .. Cardinality(Holders(t))
                            /\ e[Rank(Holders(t), i)] = t[i].event
  BY <1>1, <1>2, <1>3, <1>4, RankBounds DEF InStep
<1>6. ASSUME ~HoldsEvent(Top(s))
      PROVE  InStep(t, e)
  <2>1. Holders(t) = Holders(s) BY <1>1, <1>2, <1>6 DEF Holders
  <2> QED BY <1>5, <2>1 DEF InStep
<1>7. ASSUME HoldsEvent(Top(s))
      PROVE  e # <<>> /\ InStep(t, Below(e)) /\ Top(e) = Top(s).event
  <2>1. n \in Holders(s) BY <1>1, <1>7 DEF Holders
  <2>2. Len(e) = Cardinality(Holders(s)) /\ Len(e) \in Nat BY DEF InStep
  <2>3. Cardinality(Holders(t)) = Len(e) - 1 /\ Cardinality(Holders(t)) \in Nat
    BY <1>1, <1>2, <2>1, <2>2, Indices, FS_RemoveElement
  <2>4. e # <<>>
    <3>1. Len(e) # 0 BY <2>2, <2>3
    <3> QED BY <3>1, EmptySeq
  <2>5. Len(Below(e)) = Len(e) - 1 /\ \A k \in 1 .. Len(e) - 1 : Below(e)[k] = e[k]
    BY <2>4, BelowProperties
  <2>6. \A i \in Holders(t) : Below(e)[Rank(Holders(t), i)] = t[i].event
    BY <1>5, <2>3, <2>5
  <2>7. Rank(Holders(s), n) = Len(e)
    <3>1. {j \in Holders(s) : j <= n} = Holders(s) BY <1>1, <1>2
    <3> QED BY <3>1, <2>2 DEF Rank
  <2>8. Top(e) = s[n].event BY <2>1, <2>7 DEF InStep, Top
  <2> QED BY <1>1, <2>3, <2>4, <2>5, <2>6, <2>8 DEF InStep
<1> QED BY <1>6, <1>7

(* Replacing the last unit by another one. *)
LEMMA OfTop ==
  ASSUME NEW s \in Seq(Unit), s # <<>>, NEW u \in Unit
  PROVE  LET t == [s EXCEPT ![Len(s)] = u] IN
         /\ t \in Seq(Unit) /\ t[Len(s)] = u
         /\ \A i \in 1 .. Len(s) - 1 : t[i] = s[i]
         /\ Executing(t) = (Executing(s) \ {Len(s)})
                           \cup (IF IsExecuting(u) THEN {Len(s)} ELSE {})
<1> DEFINE t == [s EXCEPT ![Len(s)] = u]
<1>1. Len(s) \in Nat \ {0} BY EmptySeq
<1>2. t \in Seq(Unit) /\ t[Len(s)] = u /\ \A i \in 1 .. Len(s) - 1 : t[i] = s[i] BY <1>1
<1>3. t = Append(Below(s), u) BY ReplaceTop
<1>4. Below(s) \in Seq(Unit) /\ Len(Below(s)) + 1 = Len(s) BY <1>1, BelowProperties
<1>5. Executing(t) = Executing(Below(s))
                     \cup (IF IsExecuting(u) THEN {Len(Below(s)) + 1} ELSE {})
  BY <1>3, <1>4, OfAppend
<1> QED BY <1>2, <1>4, <1>5, OfBelow

LEMMA InStepTop ==
  ASSUME NEW s \in Seq(Unit), s # <<>>, NEW u \in Unit,
         NEW e \in Seq(Events), InStep(s, e)
  PROVE  /\ /\ HoldsEvent(u) <=> HoldsEvent(Top(s))
            /\ HoldsEvent(u) => u.event = Top(s).event
            => InStep([s EXCEPT ![Len(s)] = u], e)
         /\ ~HoldsEvent(Top(s)) /\ HoldsEvent(u) /\ u.event \in Events =>
              InStep([s EXCEPT ![Len(s)] = u], Append(e, u.event))
<1>1. [s EXCEPT ![Len(s)] = u] = Append(Below(s), u) /\ Below(s) \in Seq(Unit)
  BY ReplaceTop, BelowProperties
<1>2. ASSUME ~HoldsEvent(Top(s))
      PROVE  /\ ~HoldsEvent(u) => InStep(Append(Below(s), u), e)
             /\ HoldsEvent(u) /\ u.event \in Events =>
                  InStep(Append(Below(s), u), Append(e, u.event))
  <2>1. InStep(Below(s), e) BY <1>2, InStepBelow
  <2> QED BY <1>1, <2>1, InStepAppend
<1>3. ASSUME HoldsEvent(Top(s)), HoldsEvent(u), u.event = Top(s).event
      PROVE  InStep(Append(Below(s), u), e)
  <2>1. e # <<>> /\ InStep(Below(s), Below(e)) /\ Top(e) = u.event BY <1>3, InStepBelow
  <2>2. Below(e) \in Seq(Events) /\ u.event \in Events BY <2>1, BelowProperties
  <2>3. InStep(Append(Below(s), u), Append(Below(e), u.event))
    BY <1>1, <1>3, <2>1, <2>2, InStepAppend
  <2> QED BY <2>1, <2>3, BelowThenTop
<1> QED BY <1>1, <1>2, <1>3

-----------------------------------------------------------------------------
(* What a step emplaces, given that no event waits in sub_solving_event. *)
Batch(b, v) ==
  \/ b = <<>> /\ v = <<>>
  \/ \E u \in {Native, Select, Replace} : b = <<u>> /\ v = <<>>
  \/ \E f, g \in Functions \cup {NoFunction}, d, e \in Events :
       \/ b = <<Execute(f, e)>> /\ v = <<e>>
       \/ b = <<Execute(g, d), Execute(f, e)>> /\ v = <<d, e>>
       \/ b = <<Native, Execute(f, e)>> /\ v = <<e>>
       \/ b = <<Execute(g, d), Native, Execute(f, e)>> /\ v = <<d, e>>

LEMMA EmplacesBatch ==
  /\ EmplaceNothing(<<>>) => Batch(subunits', sub_solving_event')
  /\ EmplaceUnit(<<>>) => Batch(subunits', sub_solving_event')
  /\ EmplaceExecute(<<>>) => Batch(subunits', sub_solving_event')
  /\ \A f \in Functions, e \in Events :
       Emplace(<<Execute(f, e)>>, <<e>>, <<>>) => Batch(subunits', sub_solving_event')
<1>1. \A d, e : <<e>> \o <<>> = <<e>> /\ <<d, e>> \o <<>> = <<d, e>> OBVIOUS
<1>2. <<>> \o <<>> = <<>> OBVIOUS
<1>3. ASSUME NEW b, NEW evs, Emplace(b, evs, <<>>)
      PROVE  subunits' = b /\ sub_solving_event' = evs \o <<>>
  BY <1>3 DEF Emplace
<1>4. EmplaceNothing(<<>>) => Batch(subunits', sub_solving_event')
  BY DEF EmplaceNothing, Batch
<1>5. EmplaceUnit(<<>>) => Batch(subunits', sub_solving_event')
  BY <1>2, <1>3 DEF EmplaceUnit, Batch
<1>6. EmplaceExecute(<<>>) => Batch(subunits', sub_solving_event')
  BY <1>1, <1>3 DEF EmplaceExecute, Batch
<1>7. ASSUME NEW f \in Functions, NEW e \in Events,
             Emplace(<<Execute(f, e)>>, <<e>>, <<>>)
      PROVE  Batch(subunits', sub_solving_event')
  BY <1>1, <1>3, <1>7 DEF Batch
<1> QED BY <1>4, <1>5, <1>6, <1>7

LEMMA NewUnits ==
  ASSUME NEW f \in Functions \cup {NoFunction}, NEW e \in Events
  PROVE  /\ {Native, Select, Replace, Execute(f, e)} \subseteq Unit
         /\ \A u \in {Native, Select, Replace} : ~HoldsEvent(u) /\ ~IsExecuting(u)
         /\ HoldsEvent(Execute(f, e)) /\ ~IsExecuting(Execute(f, e))
         /\ Execute(f, e).event = e
         /\ Execute(f, e).kind = "Execute" /\ Execute(f, e).step = 0
BY ConstantsAssumption
   DEF Unit, Kinds, Steps, Native, Select, Replace, Execute, NewUnit, HoldsEvent,
       IsExecuting

(* s grown to t by units none of which has started; x are the events of t. *)
Grown(s, t, x) ==
  /\ t \in Seq(Unit) /\ x \in Seq(Events)
  /\ InStep(t, x)
  /\ Executing(t) = Executing(s)
  /\ Len(s) <= Len(t) /\ \A i \in 1 .. Len(s) : t[i] = s[i]

LEMMA GrownByOne ==
  ASSUME NEW s \in Seq(Unit), NEW e \in Seq(Events), InStep(s, e),
         NEW f \in Functions \cup {NoFunction}, NEW d \in Events
  PROVE  /\ Grown(s, s, e)
         /\ \A u \in {Native, Select, Replace} : Grown(s, Append(s, u), e)
         /\ Grown(s, Append(s, Execute(f, d)), Append(e, d))
<1>1. \A u \in Unit : /\ Append(s, u) \in Seq(Unit) /\ Len(s) <= Len(Append(s, u))
                      /\ \A i \in 1 .. Len(s) : Append(s, u)[i] = s[i]
  OBVIOUS
<1>2. Append(e, d) \in Seq(Events) OBVIOUS
<1>3. Grown(s, s, e) BY DEF Grown
<1>4. ASSUME NEW u \in {Native, Select, Replace}
      PROVE  Grown(s, Append(s, u), e)
  <2>1. u \in Unit /\ ~HoldsEvent(u) /\ ~IsExecuting(u) BY NewUnits
  <2>2. InStep(Append(s, u), e) /\ Executing(Append(s, u)) = Executing(s)
    BY <2>1, InStepAppend, OfAppend
  <2> QED BY <1>1, <2>1, <2>2 DEF Grown
<1>5. Grown(s, Append(s, Execute(f, d)), Append(e, d))
  <2> DEFINE u == Execute(f, d)
  <2>1. u \in Unit /\ HoldsEvent(u) /\ ~IsExecuting(u) /\ u.event = d BY NewUnits
  <2> HIDE DEF u
  <2>2. InStep(Append(s, u), Append(e, d)) /\ Executing(Append(s, u)) = Executing(s)
    BY <2>1, InStepAppend, OfAppend
  <2>3. Grown(s, Append(s, u), Append(e, d)) BY <1>1, <1>2, <2>1, <2>2 DEF Grown
  <2> QED BY <2>3 DEF u
<1> QED BY <1>3, <1>4, <1>5

LEMMA GrownTransitive ==
  ASSUME NEW s \in Seq(Unit), NEW t, NEW x, NEW r, NEW y,
         Grown(s, t, x), Grown(t, r, y)
  PROVE  Grown(s, r, y)
BY DEF Grown

LEMMA GrownByBatch ==
  ASSUME NEW s \in Seq(Unit), NEW e \in Seq(Events), InStep(s, e),
         NEW b, NEW v, Batch(b, v)
  PROVE  /\ b \in Seq(Unit) /\ v \in Seq(Events)
         /\ Grown(s, s \o b, e \o v)
         /\ v # <<>> => /\ s \o b # <<>>
                        /\ Top(s \o b).kind = "Execute" /\ Top(s \o b).step = 0
<1> DEFINE Goal == /\ b \in Seq(Unit) /\ v \in Seq(Events)
                   /\ Grown(s, s \o b, e \o v)
                   /\ v # <<>> => /\ s \o b # <<>>
                                  /\ Top(s \o b).kind = "Execute"
                                  /\ Top(s \o b).step = 0
<1>1. CASE b = <<>> /\ v = <<>>
  <2>1. s \o b = s /\ e \o v = e /\ b \in Seq(Unit) /\ v \in Seq(Events) BY <1>1
  <2>2. Grown(s, s, e) BY DEF Grown
  <2> QED BY <1>1, <2>1, <2>2
<1>2. ASSUME NEW u \in {Native, Select, Replace}, b = <<u>>, v = <<>>
      PROVE  Goal
  <2>1. u \in Unit
    <3>1. {Native, Select, Replace} \subseteq Unit
      BY ConstantsAssumption DEF Unit, Kinds, Steps, Native, Select, Replace, NewUnit
    <3> QED BY <3>1
  <2>2. s \o b = Append(s, u) /\ e \o v = e /\ b \in Seq(Unit) /\ v \in Seq(Events)
    BY <1>2, <2>1
  <2>3. Grown(s, Append(s, u), e)
    <3>1. ~HoldsEvent(u) /\ ~IsExecuting(u)
      BY DEF Native, Select, Replace, NewUnit, HoldsEvent, IsExecuting
    <3>2. InStep(Append(s, u), e) /\ Executing(Append(s, u)) = Executing(s)
      BY <2>1, <3>1, InStepAppend, OfAppend
    <3> QED BY <2>1, <3>2 DEF Grown
  <2> QED BY <1>2, <2>2, <2>3
<1>3. ASSUME NEW f \in Functions \cup {NoFunction}, NEW g \in Functions \cup {NoFunction},
             NEW d \in Events, NEW w \in Events,
             \/ b = <<Execute(f, w)>> /\ v = <<w>>
             \/ b = <<Execute(g, d), Execute(f, w)>> /\ v = <<d, w>>
             \/ b = <<Native, Execute(f, w)>> /\ v = <<w>>
             \/ b = <<Execute(g, d), Native, Execute(f, w)>> /\ v = <<d, w>>
      PROVE  Goal
  <2> DEFINE x == Execute(f, w)
             z == Execute(g, d)
             N == Native
  <2>1. x \in Unit /\ z \in Unit /\ N \in Unit /\ x.kind = "Execute" /\ x.step = 0
    BY NewUnits
  <2>2. /\ \A t \in Seq(Unit), y \in Seq(Events) : InStep(t, y) =>
             /\ Grown(t, Append(t, x), Append(y, w))
             /\ Grown(t, Append(t, z), Append(y, d))
             /\ Grown(t, Append(t, N), y)
    BY GrownByOne
  <2>3. \/ b = <<x>> /\ v = <<w>>
        \/ b = <<z, x>> /\ v = <<d, w>>
        \/ b = <<N, x>> /\ v = <<w>>
        \/ b = <<z, N, x>> /\ v = <<d, w>>
    BY <1>3
  <2> HIDE DEF x, z, N
  <2>4. /\ b \in Seq(Unit) /\ v \in Seq(Events)
        /\ \A t \in Seq(Unit) : Append(t, x) # <<>> /\ Top(Append(t, x)) = x
    <3>1. b \in Seq(Unit)
      <4>1. /\ <<x>> \in Seq(Unit) /\ <<z, x>> \in Seq(Unit)
            /\ <<N, x>> \in Seq(Unit) /\ <<z, N, x>> \in Seq(Unit)
        BY <2>1
      <4> QED BY <4>1, <2>3, Zenon
    <3>2. v \in Seq(Events)
      <4>1. <<w>> \in Seq(Events) /\ <<d, w>> \in Seq(Events) OBVIOUS
      <4> QED BY <4>1, <2>3, Zenon
    <3>3. \A t \in Seq(Unit) : Append(t, x) # <<>> /\ Top(Append(t, x)) = x
      BY <2>1 DEF Top
    <3> QED BY <3>1, <3>2, <3>3
  <2>5. Append(s, z) \in Seq(Unit) /\ Append(s, N) \in Seq(Unit)
        /\ Append(Append(s, z), N) \in Seq(Unit)
    BY <2>1
  <2>6. \/ s \o b = Append(s, x) /\ e \o v = Append(e, w)
        \/ s \o b = Append(Append(s, z), x) /\ e \o v = Append(Append(e, d), w)
        \/ s \o b = Append(Append(s, N), x) /\ e \o v = Append(e, w)
        \/ /\ s \o b = Append(Append(Append(s, z), N), x)
           /\ e \o v = Append(Append(e, d), w)
    <3>1. /\ s \o <<x>> = Append(s, x) /\ s \o <<z, x>> = Append(Append(s, z), x)
          /\ s \o <<N, x>> = Append(Append(s, N), x)
          /\ s \o <<z, N, x>> = Append(Append(Append(s, z), N), x)
      BY <2>1, ConcatShort
    <3>2. e \o <<w>> = Append(e, w) /\ e \o <<d, w>> = Append(Append(e, d), w)
      BY ConcatShort
    <3> QED BY <2>3, <3>1, <3>2
  <2>7. Grown(s, s \o b, e \o v)
    <3>1. CASE s \o b = Append(s, x) /\ e \o v = Append(e, w) BY <2>2, <3>1
    <3>2. CASE s \o b = Append(Append(s, z), x) /\ e \o v = Append(Append(e, d), w)
      <4>1. Grown(s, Append(s, z), Append(e, d)) BY <2>2
      <4>2. Grown(Append(s, z), Append(Append(s, z), x),
                  Append(Append(e, d), w))
        BY <2>2, <4>1 DEF Grown
      <4> QED BY <3>2, <4>1, <4>2, GrownTransitive
    <3>3. CASE s \o b = Append(Append(s, N), x) /\ e \o v = Append(e, w)
      <4>1. Grown(s, Append(s, N), e) BY <2>2
      <4>2. Grown(Append(s, N), Append(Append(s, N), x), Append(e, w))
        BY <2>2, <4>1 DEF Grown
      <4> QED BY <3>3, <4>1, <4>2, GrownTransitive
    <3>4. CASE /\ s \o b = Append(Append(Append(s, z), N), x)
               /\ e \o v = Append(Append(e, d), w)
      <4> DEFINE t == Append(s, z)
                 y == Append(e, d)
      <4>1. Grown(s, t, y) BY <2>2
      <4>2. t \in Seq(Unit) /\ y \in Seq(Events) /\ InStep(t, y) BY <4>1 DEF Grown
      <4> HIDE DEF t, y
      <4>3. Grown(t, Append(t, N), y) BY <2>2, <4>2
      <4>4. Grown(Append(t, N), Append(Append(t, N), x), Append(y, w))
        BY <2>2, <4>2, <4>3 DEF Grown
      <4>5. Grown(t, Append(Append(t, N), x), Append(y, w))
        BY <4>2, <4>3, <4>4, GrownTransitive
      <4>6. Grown(s, Append(Append(t, N), x), Append(y, w))
        BY <4>1, <4>5, GrownTransitive
      <4> QED BY <3>4, <4>6 DEF t, y
    <3> QED BY <2>6, <3>1, <3>2, <3>3, <3>4
  <2>8. s \o b # <<>> /\ Top(s \o b) = x BY <2>4, <2>5, <2>6
  <2> QED BY <2>1, <2>4, <2>7, <2>8
<1> QED BY <1>1, <1>2, <1>3 DEF Batch

-----------------------------------------------------------------------------
(* The inductive invariant.  Besides the properties themselves it says that
   events wait in sub_solving_event only for the Execute unit that the next
   call of process() starts, that a unit in progress has a function, and
   that finitely many threads exist. *)
Waiting ==
  sub_solving_event # <<>> =>
    Stack # <<>> /\ Front.kind = "Execute" /\ Front.step = 0

HaveFunctions == \A i \in Executing(Stack) : Stack[i].fn \in Functions

Threads == {f \in Functions : coroutines[f] # 0}

IInv ==
  /\ TypeOK
  /\ EventsInStep
  /\ CheckLevelCounts
  /\ ThreadOwner
  /\ CallDepthCounts
  /\ Waiting
  /\ HaveFunctions
  /\ IsFiniteSet(Threads)

LEMMA StackType ==
  ASSUME TypeOK
  PROVE  /\ Stack \in Seq(Unit) /\ SplicedEvents \in Seq(Events)
         /\ sub_solving_event = <<>> => SplicedEvents = solving_event
         /\ Stack # <<>> => Front \in Unit /\ Len(Stack) \in Nat \ {0}
                            /\ Len(Stack) \in DOMAIN Stack
                            /\ Front = Stack[Len(Stack)]
<1>1. Stack \in Seq(Unit) /\ SplicedEvents \in Seq(Events)
  BY DEF TypeOK, Stack, SplicedEvents
<1>2. sub_solving_event = <<>> => SplicedEvents = solving_event
  BY ConcatEmptySeq DEF TypeOK, SplicedEvents
<1>3. Stack # <<>> => Front \in Unit /\ Len(Stack) \in Nat \ {0}
                      /\ Front = Stack[Len(Stack)]
  BY <1>1, BelowProperties DEF Front, Top
<1>4. Stack # <<>> => Len(Stack) \in DOMAIN Stack BY <1>1, <1>3, LenProperties
<1> QED BY <1>1, <1>2, <1>3, <1>4

(* What a call of process() does to the stacks, when x are then the units
   in progress. *)
Moves(x) ==
  /\ units' \in Seq(Unit) /\ solving_event' \in Seq(Events)
  /\ InStep(units', solving_event')
  /\ Executing(units') = x
  /\ Batch(subunits', sub_solving_event')
  /\ \A i \in x : /\ units'[i].fn \in Functions
                  /\ i \in Executing(Stack) => units'[i].fn = Stack[i].fn

LEMMA AfterMove ==
  ASSUME NEW x, Moves(x)
  PROVE  /\ (units \in Seq(Unit))' /\ (subunits \in Seq(Unit))'
         /\ (solving_event \in Seq(Events))' /\ (sub_solving_event \in Seq(Events))'
         /\ EventsInStep' /\ Waiting' /\ HaveFunctions'
         /\ Executing(Stack)' = x
         /\ \A i \in x \cap Executing(Stack) : Stack'[i].fn = Stack[i].fn
         /\ \A i \in x : Stack'[i].fn = units'[i].fn
<1> DEFINE s == units'
           e == solving_event'
           b == subunits'
           v == sub_solving_event'
<1>1. s \in Seq(Unit) /\ e \in Seq(Events) /\ InStep(s, e) /\ Batch(b, v) BY DEF Moves
<1>2. Stack' = s \o b /\ SplicedEvents' = e \o v /\ Front' = Top(s \o b)
  BY DEF Stack, SplicedEvents, Front
<1>3. Executing(s) = x /\ Executing(s) \subseteq 1 .. Len(s) BY <1>1, Indices DEF Moves
<1> HIDE DEF s, e, b, v
<1>4. /\ b \in Seq(Unit) /\ v \in Seq(Events)
      /\ Grown(s, s \o b, e \o v)
      /\ v # <<>> => /\ s \o b # <<>>
                     /\ Top(s \o b).kind = "Execute" /\ Top(s \o b).step = 0
  BY <1>1, GrownByBatch
<1>5. /\ InStep(s \o b, e \o v) /\ Executing(s \o b) = x
      /\ \A i \in x : (s \o b)[i] = s[i]
  BY <1>3, <1>4 DEF Grown
<1>6. EventsInStep' BY <1>2, <1>5 DEF EventsInStep
<1>7. Waiting' BY <1>2, <1>4 DEF Waiting, v
<1>8. Executing(Stack)' = x BY <1>2, <1>5
<1>9. \A i \in x : Stack'[i].fn = s[i].fn BY <1>2, <1>5
<1>10. HaveFunctions' /\ \A i \in x \cap Executing(Stack) : Stack'[i].fn = Stack[i].fn
  BY <1>8, <1>9 DEF HaveFunctions, Moves, s
<1> QED BY <1>1, <1>4, <1>6, <1>7, <1>8, <1>9, <1>10 DEF s, e, b, v

(* The five ways in which a step leaves the units it found. *)

LEMMA MoveKeeps ==
  ASSUME IInv, sub_solving_event = <<>>,
         units' = Stack, solving_event' = solving_event,
         Batch(subunits', sub_solving_event')
  PROVE  Moves(Executing(Stack))
BY StackType DEF IInv, EventsInStep, HaveFunctions, Moves

LEMMA MovePops ==
  ASSUME IInv, Stack # <<>>, ~HoldsEvent(Front),
         units' = Below(Stack), solving_event' = SplicedEvents,
         Batch(subunits', sub_solving_event')
  PROVE  Moves(Executing(Stack))
<1>1. Stack \in Seq(Unit) /\ SplicedEvents \in Seq(Events) /\ Front = Top(Stack)
  BY StackType DEF IInv, Front
<1>2. Below(Stack) \in Seq(Unit)
      /\ \A i \in 1 .. Len(Stack) - 1 : Below(Stack)[i] = Stack[i]
  BY <1>1, BelowProperties
<1>3. InStep(Below(Stack), SplicedEvents) BY <1>1, InStepBelow DEF IInv, EventsInStep
<1>4. Len(Stack) \notin Executing(Stack)
  BY StackType DEF IInv, HoldsEvent, Executing, IsExecuting
<1>5. Executing(Below(Stack)) = Executing(Stack) BY <1>1, <1>4, OfBelow
<1>6. \A i \in Executing(Stack) : i \in 1 .. Len(Stack) - 1 BY <1>1, <1>4, Indices
<1> QED BY <1>1, <1>2, <1>3, <1>5, <1>6 DEF IInv, HaveFunctions, Moves

LEMMA MovePopsHolder ==
  ASSUME IInv, Stack # <<>>, HoldsEvent(Front),
         units' = Below(Stack), solving_event' = Below(SplicedEvents),
         Batch(subunits', sub_solving_event')
  PROVE  Moves(Executing(Stack) \ {Len(Stack)})
<1>1. Stack \in Seq(Unit) /\ SplicedEvents \in Seq(Events) /\ Front = Top(Stack)
  BY StackType DEF IInv, Front
<1>2. Below(Stack) \in Seq(Unit)
      /\ \A i \in 1 .. Len(Stack) - 1 : Below(Stack)[i] = Stack[i]
  BY <1>1, BelowProperties
<1>3. SplicedEvents # <<>> /\ InStep(Below(Stack), Below(SplicedEvents))
  BY <1>1, InStepBelow DEF IInv, EventsInStep
<1>4. Below(SplicedEvents) \in Seq(Events) BY <1>1, <1>3, BelowProperties
<1>5. Executing(Below(Stack)) = Executing(Stack) \ {Len(Stack)} BY <1>1, OfBelow
<1>6. \A i \in Executing(Stack) \ {Len(Stack)} : i \in 1 .. Len(Stack) - 1
  BY <1>1, Indices
<1> QED BY <1>2, <1>3, <1>4, <1>5, <1>6 DEF IInv, HaveFunctions, Moves

(* The unit at the top waits for its next step, holding what it held. *)
LEMMA MoveStays ==
  ASSUME IInv, Stack # <<>>, NEW u \in Unit,
         HoldsEvent(u) <=> HoldsEvent(Front),
         HoldsEvent(u) => u.event = Front.event,
         IsExecuting(u) => u.fn = Front.fn /\ u.fn \in Functions,
         units' = [Stack EXCEPT ![Len(Stack)] = u], solving_event' = SplicedEvents,
         Batch(subunits', sub_solving_event')
  PROVE  Moves((Executing(Stack) \ {Len(Stack)})
               \cup (IF IsExecuting(u) THEN {Len(Stack)} ELSE {}))
<1> DEFINE t == [Stack EXCEPT ![Len(Stack)] = u]
           n == Len(Stack)
           x == (Executing(Stack) \ {n}) \cup (IF IsExecuting(u) THEN {n} ELSE {})
<1>1. /\ Stack \in Seq(Unit) /\ SplicedEvents \in Seq(Events)
      /\ Front = Top(Stack) /\ Front = Stack[n]
  BY StackType DEF IInv, Front
<1>2. /\ t \in Seq(Unit) /\ t[n] = u
      /\ \A i \in 1 .. n - 1 : t[i] = Stack[i]
      /\ Executing(t) = x
  BY <1>1, OfTop
<1>3. InStep(t, SplicedEvents) BY <1>1, InStepTop DEF IInv, EventsInStep
<1>4. \A i \in x : /\ t[i].fn \in Functions
                   /\ i \in Executing(Stack) => t[i].fn = Stack[i].fn
  <2>1. ASSUME NEW i \in x, i = n
        PROVE  t[i].fn = Front.fn /\ Front.fn \in Functions
    BY <1>2, <2>1
  <2>2. ASSUME NEW i \in x, i # n
        PROVE  t[i] = Stack[i] /\ i \in Executing(Stack)
    BY <1>1, <1>2, <2>2, Indices
  <2> QED BY <1>1, <2>1, <2>2 DEF IInv, HaveFunctions
<1> QED BY <1>1, <1>2, <1>3, <1>4 DEF Moves

(* The unit at the top takes a new event. *)
LEMMA MoveTakesEvent ==
  ASSUME IInv, Stack # <<>>, NEW u \in Unit,
         ~HoldsEvent(Front), HoldsEvent(u), ~IsExecuting(u), u.event \in Events,
         units' = [Stack EXCEPT ![Len(Stack)] = u],
         solving_event' = Append(SplicedEvents, u.event),
         Batch(subunits', sub_solving_event')
  PROVE  Moves(Executing(Stack))
<1> DEFINE t == [Stack EXCEPT ![Len(Stack)] = u]
           n == Len(Stack)
           e == Append(SplicedEvents, u.event)
<1>1. /\ Stack \in Seq(Unit) /\ SplicedEvents \in Seq(Events)
      /\ Front = Top(Stack) /\ Front = Stack[n]
  BY StackType DEF IInv, Front
<1>2. n \notin Executing(Stack) BY <1>1 DEF HoldsEvent, Executing, IsExecuting
<1>3. /\ t \in Seq(Unit)
      /\ \A i \in 1 .. n - 1 : t[i] = Stack[i]
      /\ Executing(t) = Executing(Stack)
  <2>1. /\ t \in Seq(Unit)
        /\ \A i \in 1 .. n - 1 : t[i] = Stack[i]
        /\ Executing(t) = (Executing(Stack) \ {n})
                          \cup (IF IsExecuting(u) THEN {n} ELSE {})
    BY <1>1, OfTop
  <2> QED BY <1>2, <2>1
<1>4. InStep(t, e) BY <1>1, InStepTop DEF IInv, EventsInStep
<1>5. e \in Seq(Events) BY <1>1
<1>6. \A i \in Executing(Stack) : t[i] = Stack[i] BY <1>1, <1>2, <1>3, Indices
<1> HIDE DEF t, e
<1>7. units' = t /\ solving_event' = e BY DEF t, e
<1> QED BY <1>3, <1>4, <1>5, <1>6, <1>7 DEF IInv, HaveFunctions, Moves

-----------------------------------------------------------------------------
(* A step that calls no effect function keeps the invariant. *)
LEMMA QuietStep ==
  ASSUME IInv, Moves(Executing(Stack)),
         UNCHANGED <<coroutines, call_depth, check_level>>,
         assumes' \in {assumes, call_depth # 0},
         (shuffle_check \in BOOLEAN)', (shuffle_check_disabled \in BOOLEAN)',
         (owed \in BOOLEAN)', (returns \in {"valid", "invalid"})',
         (answered \in BOOLEAN)', (status \in {"CONTINUE", "AWAITING", "END"})',
         (running \in BOOLEAN)'
  PROVE  IInv'
<1>1. /\ (units \in Seq(Unit))' /\ (subunits \in Seq(Unit))'
      /\ (solving_event \in Seq(Events))' /\ (sub_solving_event \in Seq(Events))'
      /\ EventsInStep' /\ Waiting' /\ HaveFunctions'
      /\ Executing(Stack)' = Executing(Stack)
      /\ \A i \in Executing(Stack) : Stack'[i].fn = Stack[i].fn
  BY AfterMove
<1>2. TypeOK' BY <1>1 DEF IInv, TypeOK
<1>3. CheckLevelCounts' BY <1>1 DEF IInv, CheckLevelCounts
<1>4. ThreadOwner' BY <1>1 DEF IInv, ThreadOwner
<1>5. CallDepthCounts' BY DEF IInv, CallDepthCounts
<1>6. IsFiniteSet(Threads)' BY DEF IInv, Threads
<1> QED BY <1>1, <1>2, <1>3, <1>4, <1>5, <1>6 DEF IInv

(* The same as EmplacesBatch, of a step that finds sub_solving_event empty. *)
LEMMA EmplacesBatchAfter ==
  ASSUME sub_solving_event = <<>>
  PROVE  /\ EmplaceNothing(sub_solving_event) => Batch(subunits', sub_solving_event')
         /\ EmplaceUnit(sub_solving_event) => Batch(subunits', sub_solving_event')
         /\ EmplaceExecute(sub_solving_event) => Batch(subunits', sub_solving_event')
         /\ \A f \in Functions, e \in Events :
              Emplace(<<Execute(f, e)>>, <<e>>, sub_solving_event) =>
                Batch(subunits', sub_solving_event')
<1>1. EmplaceNothing(sub_solving_event) => EmplaceNothing(<<>>) BY DEF EmplaceNothing
<1>2. \A b, v : Emplace(b, v, sub_solving_event) => Emplace(b, v, <<>>) BY DEF Emplace
<1>3. EmplaceUnit(sub_solving_event) => EmplaceUnit(<<>>) BY <1>2 DEF EmplaceUnit
<1>4. EmplaceExecute(sub_solving_event) => EmplaceExecute(<<>>)
  BY <1>2 DEF EmplaceExecute
<1> QED BY <1>1, <1>2, <1>3, <1>4, EmplacesBatch

(* No event waits when the unit at the top is not an Execute unit that is
   about to start. *)
LEMMA NothingWaits ==
  ASSUME IInv, Front.kind # "Execute" \/ Front.step # 0
  PROVE  sub_solving_event = <<>> /\ SplicedEvents = solving_event
BY StackType DEF IInv, Waiting

(* The unit with its step advanced by process(). *)
LEMMA Advanced ==
  ASSUME NEW s \in Seq(Unit), s # <<>>, NEW k \in Steps
  PROVE  /\ [s EXCEPT ![Len(s)].step = (k + 1) % StepModulus]
              = [s EXCEPT ![Len(s)] = [Top(s) EXCEPT !.step = (k + 1) % StepModulus]]
         /\ [Top(s) EXCEPT !.step = (k + 1) % StepModulus] \in Unit
         /\ [Top(s) EXCEPT !.step = (k + 1) % StepModulus].kind = Top(s).kind
         /\ [Top(s) EXCEPT !.step = (k + 1) % StepModulus].event = Top(s).event
<1>1. Top(s) \in Unit /\ Top(s) = s[Len(s)] BY BelowProperties DEF Top
<1>2. (k + 1) % StepModulus \in Steps BY ConstantsAssumption DEF Steps
<1> QED BY <1>1, <1>2 DEF Unit

LEMMA InitInvariant == Init => IInv
<1> SUFFICES ASSUME Init PROVE IInv OBVIOUS
<1> DEFINE n == NewUnit("Native", NoFunction, NoEvent)
<1>1. n \in Unit /\ ~HoldsEvent(n) /\ ~IsExecuting(n)
  BY ConstantsAssumption
     DEF Unit, Kinds, Steps, NewUnit, HoldsEvent, IsExecuting
<1>2. Stack = <<n>> /\ SplicedEvents = <<>>
  <2> HIDE DEF n
  <2>1. units = <<>> /\ subunits = <<n>> /\ solving_event = <<>> /\ sub_solving_event = <<>>
    BY DEF Init, n
  <2> QED BY <1>1, <2>1 DEF Stack, SplicedEvents
<1>3. TypeOK
  <2>1. units \in Seq(Unit) /\ subunits \in Seq(Unit)
    <3>1. units = <<>> /\ subunits = <<n>> BY DEF Init
    <3> HIDE DEF n
    <3> QED BY <1>1, <3>1
  <2>2. solving_event \in Seq(Events) /\ sub_solving_event \in Seq(Events) BY DEF Init
  <2> QED BY <2>1, <2>2 DEF Init, TypeOK
<1>4. Executing(Stack) = {} /\ Holders(Stack) = {}
  <2> HIDE DEF n
  <2> QED BY <1>1, <1>2 DEF Executing, Holders
<1>5. Threads = {} /\ \A f \in Functions : coroutines[f] = 0 BY DEF Init, Threads
<1>6. EventsInStep BY <1>2, <1>4, FS_EmptySet DEF EventsInStep, InStep
<1>7. CheckLevelCounts BY <1>4, FS_EmptySet DEF CheckLevelCounts, Init
<1>8. ThreadOwner BY <1>5 DEF ThreadOwner
<1>9. CallDepthCounts BY <1>5, FS_EmptySet DEF CallDepthCounts, Threads, Init
<1>10. Waiting /\ HaveFunctions BY <1>4 DEF Waiting, HaveFunctions, Init
<1>11. IsFiniteSet(Threads) BY <1>5, FS_EmptySet
<1> QED BY <1>3, <1>6, <1>7, <1>8, <1>9, <1>10, <1>11 DEF IInv

-----------------------------------------------------------------------------
(* One lemma per action. *)

LEMMA ProcessEndStep == IInv /\ ProcessEnd => IInv'
<1> SUFFICES ASSUME IInv, ProcessEnd PROVE IInv' OBVIOUS
<1>1. /\ UNCHANGED <<stacks, events, check_level, shuffles, threads, answers>>
      /\ status' \in {"CONTINUE", "AWAITING", "END"} /\ running' \in BOOLEAN
  BY DEF ProcessEnd, Leave
<1> QED
  BY <1>1 DEF IInv, TypeOK, EventsInStep, CheckLevelCounts, ThreadOwner,
     CallDepthCounts, Waiting, HaveFunctions, Threads, Stack, SplicedEvents, Front,
     stacks, events, shuffles, threads, answers

LEMMA ProcessNativeStep == IInv /\ ProcessNative => IInv'
<1> SUFFICES ASSUME IInv, ProcessNative PROVE IInv' OBVIOUS
<1>1. Stack # <<>> /\ Front.kind = "Native" /\ ~HoldsEvent(Front)
  BY DEF ProcessNative, Runs, HoldsEvent
<1>2. sub_solving_event = <<>> /\ SplicedEvents = solving_event BY <1>1, NothingWaits
<1>3. Batch(subunits', sub_solving_event') BY <1>2, EmplacesBatchAfter DEF ProcessNative
<1>4. solving_event' = solving_event BY DEF ProcessNative
<1>5. /\ units' = Below(Stack) \/ units' = Stack
      /\ status' \in {"CONTINUE", "AWAITING", "END"} /\ running' \in BOOLEAN
  BY DEF ProcessNative, Finish, Leave
<1>6. Moves(Executing(Stack)) BY <1>1, <1>2, <1>3, <1>4, <1>5, MoveKeeps, MovePops
<1>7. /\ UNCHANGED <<coroutines, call_depth, check_level>>
      /\ assumes' \in {assumes, call_depth # 0}
      /\ shuffle_check' \in BOOLEAN /\ shuffle_check_disabled' \in BOOLEAN
      /\ owed' \in BOOLEAN /\ UNCHANGED answers
  BY DEF ProcessNative, MoveCards, IInv, TypeOK
<1>8. returns' \in {"valid", "invalid"} /\ answered' \in BOOLEAN
  BY <1>7 DEF IInv, TypeOK, answers
<1> QED BY <1>5, <1>6, <1>7, <1>8, QuietStep

(* A Select unit holds no event and waits with its step advanced. *)
LEMMA SelectStays ==
  ASSUME IInv, Stack # <<>>, Front.kind = "Select", NEW k \in Steps,
         NEW wrote \in BOOLEAN, Stay(k, wrote),
         EmplaceNothing(sub_solving_event), solving_event' = solving_event
  PROVE  /\ Moves(Executing(Stack))
         /\ status' \in {"CONTINUE", "AWAITING", "END"} /\ running' \in BOOLEAN
<1>1. Stack \in Seq(Unit) /\ Front = Top(Stack) BY StackType DEF IInv, Front
<1> DEFINE u == [Front EXCEPT !.step = (k + 1) % StepModulus]
<1>2. /\ u \in Unit /\ u.kind = "Select" /\ u.event = Front.event
      /\ [Stack EXCEPT ![Len(Stack)].step = (k + 1) % StepModulus]
           = [Stack EXCEPT ![Len(Stack)] = u]
  BY <1>1, Advanced
<1> HIDE DEF u
<1>3. ~HoldsEvent(u) /\ ~IsExecuting(u) /\ ~HoldsEvent(Front)
  BY <1>2 DEF HoldsEvent, IsExecuting
<1>4. sub_solving_event = <<>> /\ SplicedEvents = solving_event BY NothingWaits
<1>5. Batch(subunits', sub_solving_event') BY <1>4, EmplacesBatchAfter
<1>6. units' = [Stack EXCEPT ![Len(Stack)] = u] BY <1>2 DEF Stay
<1>7. Moves((Executing(Stack) \ {Len(Stack)})
            \cup (IF IsExecuting(u) THEN {Len(Stack)} ELSE {}))
  BY <1>2, <1>3, <1>4, <1>5, <1>6, MoveStays
<1>8. Len(Stack) \notin Executing(Stack) BY StackType DEF IInv, Executing, IsExecuting
<1>9. (Executing(Stack) \ {Len(Stack)})
      \cup (IF IsExecuting(u) THEN {Len(Stack)} ELSE {}) = Executing(Stack)
  BY <1>3, <1>8
<1>10. status' \in {"CONTINUE", "AWAITING", "END"} /\ running' \in BOOLEAN
  BY DEF Stay, Leave
<1> QED BY <1>7, <1>9, <1>10

LEMMA SelectStep ==
  IInv /\ (SelectAtOnce \/ SelectRequest \/ SelectRetry \/ SelectAccept) => IInv'
<1> SUFFICES ASSUME IInv, SelectAtOnce \/ SelectRequest \/ SelectRetry \/ SelectAccept
             PROVE  IInv'
  OBVIOUS
<1>1. /\ Stack # <<>> /\ Front.kind = "Select" /\ ~HoldsEvent(Front)
      /\ EmplaceNothing(sub_solving_event) /\ solving_event' = solving_event
  BY DEF SelectAtOnce, SelectRequest, SelectRetry, SelectAccept, Runs, HoldsEvent
<1>2. Moves(Executing(Stack))
      /\ status' \in {"CONTINUE", "AWAITING", "END"} /\ running' \in BOOLEAN
  <2>1. 0 \in Steps /\ Front.step \in Steps
    BY <1>1, StackType, ConstantsAssumption DEF IInv, Unit, Steps
  <2>2. CASE SelectRequest BY <1>1, <2>1, <2>2, SelectStays DEF SelectRequest
  <2>3. CASE SelectRetry BY <1>1, <2>1, <2>3, SelectStays DEF SelectRetry
  <2>4. CASE SelectAtOnce \/ SelectAccept
    <3>1. sub_solving_event = <<>> /\ SplicedEvents = solving_event
      BY <1>1, NothingWaits
    <3>2. Batch(subunits', sub_solving_event') BY <1>1, <3>1, EmplacesBatchAfter
    <3>3. units' = Below(Stack)
          /\ status' \in {"CONTINUE", "AWAITING", "END"} /\ running' \in BOOLEAN
      BY <2>4 DEF SelectAtOnce, SelectAccept, Finish, Leave
    <3> QED BY <1>1, <3>1, <3>2, <3>3, MovePops
  <2> QED BY <2>2, <2>3, <2>4
<1>3. /\ UNCHANGED <<check_level, shuffles, threads>>
      /\ returns' \in {"valid", "invalid"} /\ answered' \in BOOLEAN
  BY DEF SelectAtOnce, SelectRequest, SelectRetry, SelectAccept, IInv, TypeOK, answers
<1>4. /\ UNCHANGED <<coroutines, call_depth, check_level>> /\ assumes' = assumes
      /\ shuffle_check' \in BOOLEAN /\ shuffle_check_disabled' \in BOOLEAN
      /\ owed' \in BOOLEAN
  BY <1>3 DEF IInv, TypeOK, shuffles, threads
<1> QED BY <1>2, <1>3, <1>4, QuietStep

LEMMA NotExecuting ==
  ASSUME IInv, Stack # <<>>, ~IsExecuting(Front)
  PROVE  Len(Stack) \notin Executing(Stack)
BY StackType DEF IInv, Executing

(* What the five cases of OperationReplace leave of the units. *)
LEMMA ReplaceMoves ==
  ASSUME IInv,
         \/ ReplaceRefuse \/ ReplaceTarget \/ ReplaceAnswer
         \/ ReplaceOperation \/ ReplaceEnd
  PROVE  Moves(Executing(Stack))
<1>1. /\ Stack # <<>> /\ Front.kind = "Replace" /\ Front \in Unit
      /\ ~IsExecuting(Front)
      /\ Stack \in Seq(Unit) /\ Front = Top(Stack)
      /\ SplicedEvents \in Seq(Events)
  BY StackType DEF ReplaceRefuse, ReplaceTarget, ReplaceAnswer, ReplaceOperation,
     ReplaceEnd, Runs, IsExecuting, IInv, Front
<1>2. sub_solving_event = <<>> /\ SplicedEvents = solving_event BY <1>1, NothingWaits
<1>3. Len(Stack) \notin Executing(Stack) BY <1>1, NotExecuting
<1>4. EmplaceNothing(sub_solving_event) => Batch(subunits', sub_solving_event')
  BY <1>2, EmplacesBatchAfter
<1>5. \A f \in Functions, e \in Events :
        Emplace(<<Execute(f, e)>>, <<e>>, sub_solving_event) =>
          Batch(subunits', sub_solving_event')
  BY <1>2, EmplacesBatchAfter
<1>6. ASSUME NEW k \in {1, 2, 3}, NEW e \in Events \cup {NoEvent}
      PROVE  LET u == [Front EXCEPT !.step = k, !.event = e] IN
             /\ u \in Unit /\ HoldsEvent(u) /\ ~IsExecuting(u) /\ u.event = e
             /\ [Stack EXCEPT ![Len(Stack)] = [@ EXCEPT !.step = k, !.event = e]]
                  = [Stack EXCEPT ![Len(Stack)] = u]
  <2>1. k \in Steps /\ k > 0 BY ConstantsAssumption DEF Steps
  <2>2. Front = Stack[Len(Stack)] BY <1>1, StackType DEF IInv
  <2> QED BY <1>1, <2>1, <2>2 DEF Unit, HoldsEvent, IsExecuting
<1>7. ASSUME NEW k \in {2, 3}, Front.step > 0,
             ReplaceStay(k, Front.event), solving_event' = solving_event,
             Batch(subunits', sub_solving_event')
      PROVE  Moves(Executing(Stack))
  <2> DEFINE u == [Front EXCEPT !.step = k, !.event = Front.event]
  <2>1. /\ u \in Unit /\ HoldsEvent(u) /\ ~IsExecuting(u) /\ u.event = Front.event
        /\ units' = [Stack EXCEPT ![Len(Stack)] = u]
    <3>1. k \in {1, 2, 3} /\ Front.event \in Events \cup {NoEvent} BY <1>1 DEF Unit
    <3>2. units' = [Stack EXCEPT ![Len(Stack)] =
                      [@ EXCEPT !.step = k, !.event = Front.event]]
      BY <1>7 DEF ReplaceStay
    <3> QED BY <1>6, <3>1, <3>2
  <2>2. HoldsEvent(Front) BY <1>1, <1>7 DEF HoldsEvent
  <2> HIDE DEF u
  <2>3. Moves((Executing(Stack) \ {Len(Stack)})
              \cup (IF IsExecuting(u) THEN {Len(Stack)} ELSE {}))
    BY <1>1, <1>2, <1>7, <2>1, <2>2, MoveStays
  <2>4. (Executing(Stack) \ {Len(Stack)})
        \cup (IF IsExecuting(u) THEN {Len(Stack)} ELSE {}) = Executing(Stack)
    BY <1>3, <2>1
  <2> QED BY <2>3, <2>4
<1>8. CASE ReplaceRefuse
  <2>1. ~HoldsEvent(Front) /\ units' = Below(Stack) /\ solving_event' = SplicedEvents
    BY <1>1, <1>2, <1>8 DEF ReplaceRefuse, Finish, HoldsEvent
  <2> QED BY <1>1, <1>4, <1>8, <2>1, MovePops DEF ReplaceRefuse
<1>9. CASE ReplaceTarget
  <2>1. PICK f \in Functions, e \in Events :
          /\ solving_event' = Append(solving_event, e)
          /\ Emplace(<<Execute(f, e)>>, <<e>>, sub_solving_event)
          /\ ReplaceStay(1, e)
    BY <1>9 DEF ReplaceTarget
  <2> DEFINE u == [Front EXCEPT !.step = 1, !.event = e]
  <2>2. /\ u \in Unit /\ HoldsEvent(u) /\ ~IsExecuting(u) /\ u.event = e
        /\ units' = [Stack EXCEPT ![Len(Stack)] = u]
    BY <1>6, <2>1 DEF ReplaceStay
  <2>3. ~HoldsEvent(Front) BY <1>1, <1>9 DEF ReplaceTarget, HoldsEvent
  <2> HIDE DEF u
  <2> QED BY <1>1, <1>2, <1>5, <2>1, <2>2, <2>3, MoveTakesEvent
<1>10. CASE ReplaceAnswer
  <2>1. PICK k \in {2, 3} : ReplaceStay(k, Front.event) BY <1>10 DEF ReplaceAnswer
  <2> QED BY <1>4, <1>7, <1>10, <2>1 DEF ReplaceAnswer
<1>11. CASE ReplaceOperation
  <2>1. HoldsEvent(Front) /\ Front.step > 0
    BY <1>1, <1>11 DEF ReplaceOperation, HoldsEvent
  <2>2. Top(solving_event) \in Events
    BY <1>1, <1>2, <2>1, InStepBelow, BelowProperties DEF IInv, EventsInStep
  <2>3. Batch(subunits', sub_solving_event')
    BY <1>4, <1>5, <1>11, <2>2 DEF ReplaceOperation
  <2> QED BY <1>7, <1>11, <2>1, <2>3 DEF ReplaceOperation
<1>12. CASE ReplaceEnd
  <2>1. HoldsEvent(Front) /\ units' = Below(Stack)
        /\ solving_event' = Below(SplicedEvents)
    BY <1>1, <1>2, <1>12 DEF ReplaceEnd, Finish, HoldsEvent
  <2>2. Moves(Executing(Stack) \ {Len(Stack)})
    BY <1>1, <1>4, <1>12, <2>1, MovePopsHolder DEF ReplaceEnd
  <2>3. Executing(Stack) \ {Len(Stack)} = Executing(Stack) BY <1>3
  <2> QED BY <2>2, <2>3
<1> QED BY <1>8, <1>9, <1>10, <1>11, <1>12

LEMMA ReplaceStep ==
  IInv /\ (\/ ReplaceRefuse \/ ReplaceTarget \/ ReplaceAnswer
           \/ ReplaceOperation \/ ReplaceEnd) => IInv'
<1> SUFFICES ASSUME IInv, \/ ReplaceRefuse \/ ReplaceTarget \/ ReplaceAnswer
                          \/ ReplaceOperation \/ ReplaceEnd
             PROVE  IInv'
  OBVIOUS
<1>1. Moves(Executing(Stack)) BY ReplaceMoves
<1>2. /\ UNCHANGED <<check_level, shuffles, threads, answers>>
      /\ status' \in {"CONTINUE", "AWAITING", "END"} /\ running' \in BOOLEAN
  BY DEF ReplaceRefuse, ReplaceTarget, ReplaceAnswer, ReplaceOperation, ReplaceEnd,
     ReplaceStay, Finish, Leave
<1>3. /\ UNCHANGED <<coroutines, call_depth, check_level>> /\ assumes' = assumes
      /\ shuffle_check' \in BOOLEAN /\ shuffle_check_disabled' \in BOOLEAN
      /\ owed' \in BOOLEAN /\ returns' \in {"valid", "invalid"} /\ answered' \in BOOLEAN
  BY <1>2 DEF IInv, TypeOK, shuffles, threads, answers
<1> QED BY <1>1, <1>2, <1>3, QuietStep

LEMMA ExecuteNothingStep == IInv /\ ExecuteNothing => IInv'
<1> SUFFICES ASSUME IInv, ExecuteNothing PROVE IInv' OBVIOUS
<1>1. Stack # <<>> /\ HoldsEvent(Front) /\ Front.fn = NoFunction
  BY DEF ExecuteNothing, Runs, HoldsEvent
<1>2. Batch(subunits', sub_solving_event') BY EmplacesBatch DEF ExecuteNothing
<1>3. Moves(Executing(Stack) \ {Len(Stack)})
  BY <1>1, <1>2, MovePopsHolder DEF ExecuteNothing, Finish
<1>4. Len(Stack) \notin Executing(Stack)
  BY <1>1, StackType, ConstantsAssumption DEF IInv, HaveFunctions
<1>5. Moves(Executing(Stack)) BY <1>3, <1>4
<1>6. /\ UNCHANGED <<check_level, shuffles, threads, answers>>
      /\ status' \in {"CONTINUE", "AWAITING", "END"} /\ running' \in BOOLEAN
  BY DEF ExecuteNothing, Finish, Leave
<1>7. /\ UNCHANGED <<coroutines, call_depth, check_level>> /\ assumes' = assumes
      /\ shuffle_check' \in BOOLEAN /\ shuffle_check_disabled' \in BOOLEAN
      /\ owed' \in BOOLEAN /\ returns' \in {"valid", "invalid"} /\ answered' \in BOOLEAN
  BY <1>6 DEF IInv, TypeOK, shuffles, threads, answers
<1> QED BY <1>5, <1>6, <1>7, QuietStep

-----------------------------------------------------------------------------
(* What an Execute unit with a function finds. *)
LEMMA Inside ==
  ASSUME IInv, Stack # <<>>, Front.kind = "Execute", Front.fn \in Functions
  PROVE  LET n == Len(Stack)
             E == Executing(Stack) IN
         /\ n \in Nat \ {0} /\ E \subseteq 1 .. n
         /\ n \in E <=> ~Starting
         /\ IsFiniteSet(E)
         /\ LevelInside \in Nat \ {0}
         /\ LevelInside = Cardinality((E \ {n}) \cup {n})
         /\ LevelInside - 1 = Cardinality(E \ {n})
<1> DEFINE n == Len(Stack)
           E == Executing(Stack)
           D == E \ {n}
<1>1. /\ Stack \in Seq(Unit) /\ n \in Nat \ {0} /\ n \in DOMAIN Stack
      /\ Front \in Unit /\ Front = Stack[n]
  BY StackType DEF IInv
<1>2. Front.step \in Nat BY <1>1, ConstantsAssumption DEF Unit, Steps
<1>3. n \in E <=> ~Starting BY <1>1, <1>2 DEF Executing, IsExecuting, Starting
<1>4. E \subseteq 1 .. n /\ IsFiniteSet(E) /\ Cardinality(E) \in Nat BY <1>1, Indices
<1>5. check_level = Cardinality(E) BY DEF IInv, CheckLevelCounts
<1> HIDE DEF n, E
<1>6. IsFiniteSet(D) /\ n \notin D BY <1>4, FS_Subset
<1>7. Cardinality(D) \in Nat /\ Cardinality(D \cup {n}) = Cardinality(D) + 1
  BY <1>6, FS_AddElement, FS_CardinalityType
<1>8. CASE Starting
  <2>1. D = E BY <1>3, <1>8
  <2>2. LevelInside = Cardinality(D) + 1 BY <1>5, <1>8, <2>1 DEF LevelInside
  <2> QED BY <1>1, <1>3, <1>4, <1>7, <2>2 DEF n, E
<1>9. CASE ~Starting
  <2>1. D \cup {n} = E BY <1>3, <1>9
  <2>2. LevelInside = Cardinality(D \cup {n}) BY <1>4, <1>5, <1>9, <2>1 DEF LevelInside
  <2> QED BY <1>1, <1>3, <1>4, <1>7, <2>2 DEF n, E
<1> QED BY <1>8, <1>9

(* Its thread, if there is one, is its own unless the call is recursive. *)
LEMMA OwnThread ==
  ASSUME IInv, Stack # <<>>, Front.kind = "Execute", Front.fn \in Functions
  PROVE  LET n == Len(Stack)
             f == Front.fn IN
         /\ ~Recursive => Thread = n
         /\ \A g \in Functions : coroutines[g] = n => g = f
         /\ DepthInside \in Nat
         /\ DepthInside = Cardinality((Threads \ {f}) \cup {f})
         /\ DepthInside - 1 = Cardinality(Threads \ {f})
         /\ IsFiniteSet(Threads \ {f})
<1> DEFINE n == Len(Stack)
           f == Front.fn
           D == Threads \ {f}
<1>1. /\ n \in Nat \ {0} /\ Front = Stack[n]
      /\ n \in Executing(Stack) <=> ~Starting
      /\ Executing(Stack) \subseteq 1 .. n
  BY Inside, StackType DEF IInv
<1>2. coroutines \in [Functions -> Nat] /\ ThreadOwner
      /\ call_depth = Cardinality(Threads) /\ IsFiniteSet(Threads)
      /\ f \in Functions
  BY DEF IInv, TypeOK, CallDepthCounts, Threads
<1> HIDE DEF n, f
<1>3. ~Recursive => Thread = n
  <2>1. ASSUME ~Recursive, coroutines[f] # 0
        PROVE  coroutines[f] = n
    <3>1. ~Starting /\ n \in Executing(Stack) BY <1>1, <2>1 DEF Recursive, f
    <3>2. coroutines[f] \in 1 .. n /\ n <= coroutines[f]
      BY <1>1, <1>2, <2>1, <3>1 DEF ThreadOwner, f
    <3> QED BY <1>1, <3>2
  <2> QED BY <2>1 DEF Thread, n, f
<1>4. ASSUME NEW g \in Functions, coroutines[g] = n
      PROVE  g = f
  BY <1>1, <1>2, <1>4 DEF ThreadOwner, f
<1>5. IsFiniteSet(D) /\ f \notin D BY <1>2, FS_Subset
<1>6. Cardinality(D) \in Nat /\ Cardinality(D \cup {f}) = Cardinality(D) + 1
  BY <1>5, FS_AddElement, FS_CardinalityType
<1>7. DepthInside = Cardinality(D) + 1
  <2>1. CASE coroutines[f] = 0
    <3>1. D = Threads BY <2>1 DEF Threads
    <3> QED BY <1>2, <2>1, <3>1 DEF DepthInside, f
  <2>2. CASE coroutines[f] # 0
    <3>1. D \cup {f} = Threads BY <1>2, <2>2 DEF Threads
    <3>2. DepthInside = call_depth + 0 /\ call_depth \in Nat
      BY <2>2 DEF DepthInside, f, IInv, TypeOK
    <3>3. call_depth = Cardinality(D) + 1 BY <1>2, <1>6, <3>1, Zenon
    <3> HIDE DEF D
    <3> QED BY <1>6, <3>2, <3>3
  <2> QED BY <2>1, <2>2
<1> QED BY <1>3, <1>4, <1>5, <1>6, <1>7 DEF n, f

(* The function has returned, failed, or was not called. *)
LEMMA FunctionEnds ==
  ASSUME IInv, Stack # <<>>, Front.kind = "Execute", Front.fn \in Functions,
         Moves(Executing(Stack) \ {Len(Stack)}),
         check_level' = LevelInside - 1,
         coroutines' = [coroutines EXCEPT ![Front.fn] = 0],
         call_depth' = (IF Recursive THEN call_depth ELSE DepthInside) - 1,
         assumes' => call_depth' # 0,
         (assumes \in BOOLEAN)',
         (shuffle_check \in BOOLEAN)', (shuffle_check_disabled \in BOOLEAN)',
         (owed \in BOOLEAN)', (returns \in {"valid", "invalid"})',
         (answered \in BOOLEAN)', (status \in {"CONTINUE", "AWAITING", "END"})',
         (running \in BOOLEAN)'
  PROVE  IInv'
<1> DEFINE n == Len(Stack)
           f == Front.fn
           E == Executing(Stack)
<1>1. /\ n \in Nat \ {0} /\ E \subseteq 1 .. n
      /\ LevelInside \in Nat \ {0} /\ LevelInside - 1 = Cardinality(E \ {n})
  BY Inside
<1>2. /\ \A g \in Functions : coroutines[g] = n => g = f
      /\ DepthInside - 1 = Cardinality(Threads \ {f})
      /\ IsFiniteSet(Threads \ {f})
  BY OwnThread
<1>3. coroutines \in [Functions -> Nat] /\ ThreadOwner /\ f \in Functions
  BY DEF IInv, TypeOK
<1>4. /\ (units \in Seq(Unit))' /\ (subunits \in Seq(Unit))'
      /\ (solving_event \in Seq(Events))' /\ (sub_solving_event \in Seq(Events))'
      /\ EventsInStep' /\ Waiting' /\ HaveFunctions'
      /\ Executing(Stack)' = E \ {n}
      /\ \A i \in E \ {n} : Stack'[i].fn = Stack[i].fn
  BY AfterMove
<1>5. coroutines' = [coroutines EXCEPT ![f] = 0] OBVIOUS
<1>6. Threads' = Threads \ {f} BY <1>3, <1>5 DEF Threads
<1>7. call_depth' = Cardinality(Threads \ {f}) /\ call_depth' \in Nat
  <2>1. Recursive => DepthInside = call_depth
    BY DEF Recursive, DepthInside, IInv, TypeOK
  <2>2. call_depth' = DepthInside - 1 BY <2>1
  <2> QED BY <1>2, <2>2, FS_CardinalityType
<1>8. TypeOK'
  <2>1. check_level' \in Nat BY <1>1
  <2>2. coroutines' \in [Functions -> Nat] BY <1>3, <1>5
  <2> QED BY <1>4, <1>7, <2>1, <2>2 DEF TypeOK
<1>9. CheckLevelCounts' BY <1>1, <1>4 DEF CheckLevelCounts
<1>10. ThreadOwner'
  <2>1. SUFFICES ASSUME NEW g \in Functions, coroutines'[g] # 0
                 PROVE  /\ coroutines'[g] \in E \ {n}
                        /\ Stack'[coroutines'[g]].fn = g
                        /\ \A i \in E \ {n} :
                             Stack'[i].fn = g => i <= coroutines'[g]
    BY <1>4 DEF ThreadOwner
  <2>2. g # f /\ coroutines'[g] = coroutines[g] /\ coroutines[g] # n
    BY <1>2, <1>3, <1>5, <2>1
  <2>3. /\ coroutines[g] \in E /\ Stack[coroutines[g]].fn = g
        /\ \A i \in E : Stack[i].fn = g => i <= coroutines[g]
    BY <1>3, <2>1, <2>2 DEF ThreadOwner
  <2> HIDE DEF n, f, E
  <2> QED BY <1>4, <2>2, <2>3
<1>11. CallDepthCounts' BY <1>6, <1>7 DEF CallDepthCounts, Threads
<1>12. IsFiniteSet(Threads)' BY <1>2, <1>6
<1> QED BY <1>4, <1>8, <1>9, <1>10, <1>11, <1>12 DEF IInv

LEMMA ExecuteEndStep == IInv /\ (ExecuteEnd \/ ExecuteRecursive) => IInv'
<1> SUFFICES ASSUME IInv, ExecuteEnd \/ ExecuteRecursive PROVE IInv' OBVIOUS
<1>1. Stack # <<>> /\ Front.kind = "Execute" /\ Front.fn \in Functions
  BY StackType DEF ExecuteEnd, ExecuteRecursive, Runs, IInv, Unit
<1>2. HoldsEvent(Front) BY <1>1 DEF HoldsEvent
<1>3. Batch(subunits', sub_solving_event')
  BY EmplacesBatch DEF ExecuteEnd, ExecuteRecursive
<1>4. /\ units' = Below(Stack) /\ solving_event' = Below(SplicedEvents)
      /\ status' \in {"CONTINUE", "AWAITING", "END"} /\ running' \in BOOLEAN
  BY DEF ExecuteEnd, ExecuteRecursive, Finish, Leave, EndFunction
<1>5. Moves(Executing(Stack) \ {Len(Stack)}) BY <1>1, <1>2, <1>3, <1>4, MovePopsHolder
<1>6. /\ check_level' = LevelInside - 1
      /\ shuffle_check' \in BOOLEAN /\ owed' \in BOOLEAN
      /\ shuffle_check_disabled' \in BOOLEAN
  <2>1. PICK pending \in BOOLEAN, due \in BOOLEAN : EndFunction(LevelInside, pending, due)
    BY DEF ExecuteEnd, ExecuteRecursive, PendingInside, IInv, TypeOK
  <2>2. DisabledOutside \in BOOLEAN
    BY <1>1, StackType DEF DisabledOutside, IInv, TypeOK, Unit
  <2> QED BY <2>1, <2>2 DEF EndFunction
<1>7. /\ coroutines' = [coroutines EXCEPT ![Front.fn] = 0]
      /\ call_depth' = (IF Recursive THEN call_depth ELSE DepthInside) - 1
      /\ assumes' => call_depth' # 0
      /\ assumes' \in BOOLEAN
  <2>1. DepthInside \in Nat /\ call_depth \in Nat /\ assumes \in BOOLEAN
    BY <1>1, OwnThread DEF IInv, TypeOK
  <2> DEFINE depth == IF Recursive THEN call_depth ELSE DepthInside
  <2>2. ExecuteEnd => ~Recursive /\ LeaveThread(DepthInside, TRUE) BY DEF ExecuteEnd
  <2>3. ExecuteRecursive => Recursive /\ LeaveThread(call_depth, assumes)
    BY DEF ExecuteRecursive
  <2>4. PICK a \in BOOLEAN : LeaveThread(depth, a) BY <2>1, <2>2, <2>3
  <2>5. depth \in Nat BY <2>1
  <2> HIDE DEF depth
  <2>6. /\ coroutines' = [coroutines EXCEPT ![Front.fn] = 0]
        /\ call_depth' = depth - 1
        /\ assumes' => depth # 1
        /\ assumes' \in BOOLEAN
    BY <2>4, Zenon DEF LeaveThread
  <2>7. depth # 1 => depth - 1 # 0 BY <2>5
  <2> QED BY <2>6, <2>7 DEF depth
<1>8. returns' \in {"valid", "invalid"} /\ answered' \in BOOLEAN
  BY DEF ExecuteEnd, ExecuteRecursive, IInv, TypeOK
<1> QED BY <1>1, <1>4, <1>5, <1>6, <1>7, <1>8, FunctionEnds

LEMMA ExecuteYieldStep == IInv /\ ExecuteYield => IInv'
<1> SUFFICES ASSUME IInv, ExecuteYield PROVE IInv' OBVIOUS
<1> DEFINE n == Len(Stack)
           f == Front.fn
           E == Executing(Stack)
           u == [Front EXCEPT !.step = @ + 1,
                              !.shuffle_check_was_disabled = DisabledOutside]
           x == (E \ {n}) \cup {n}
<1>1. /\ Stack # <<>> /\ Front.kind = "Execute" /\ Front.fn \in Functions
      /\ Front \in Unit /\ Front = Stack[n] /\ ~Recursive
      /\ Stack \in Seq(Unit)
  BY StackType DEF ExecuteYield, Runs, IInv, Unit
<1>2. /\ n \in Nat \ {0} /\ E \subseteq 1 .. n
      /\ LevelInside \in Nat \ {0}
      /\ LevelInside = Cardinality((E \ {n}) \cup {n})
  BY <1>1, Inside
<1>3. /\ Thread = n
      /\ \A g \in Functions : coroutines[g] = n => g = f
      /\ DepthInside \in Nat
      /\ DepthInside = Cardinality((Threads \ {f}) \cup {f})
      /\ DepthInside - 1 = Cardinality(Threads \ {f})
      /\ IsFiniteSet(Threads \ {f})
  BY <1>1, OwnThread
<1>4. DisabledOutside \in BOOLEAN BY <1>1 DEF DisabledOutside, IInv, TypeOK, Unit
<1>5. Front.step + 1 \in Steps /\ Front.step + 1 > 0
  BY <1>1, ConstantsAssumption DEF ExecuteYield, Unit, Steps
<1>6. /\ u \in Unit /\ u.kind = "Execute" /\ u.fn = f /\ u.event = Front.event
      /\ u.step > 0
  BY <1>1, <1>4, <1>5 DEF Unit
<1>7. HoldsEvent(u) /\ HoldsEvent(Front) /\ IsExecuting(u)
  BY <1>1, <1>6 DEF HoldsEvent, IsExecuting
<1>8. units' = [Stack EXCEPT ![n] = u] BY <1>1 DEF ExecuteYield
<1>9. Batch(subunits', sub_solving_event') /\ solving_event' = SplicedEvents
  BY EmplacesBatch DEF ExecuteYield
<1>10. Moves(x)
  <2> HIDE DEF u
  <2>1. Moves((E \ {n}) \cup (IF IsExecuting(u) THEN {n} ELSE {}))
    BY <1>1, <1>6, <1>7, <1>8, <1>9, MoveStays
  <2> QED BY <1>7, <2>1
<1>11. /\ (units \in Seq(Unit))' /\ (subunits \in Seq(Unit))'
       /\ (solving_event \in Seq(Events))' /\ (sub_solving_event \in Seq(Events))'
       /\ EventsInStep' /\ Waiting' /\ HaveFunctions'
       /\ Executing(Stack)' = x
       /\ \A i \in x \cap E : Stack'[i].fn = Stack[i].fn
       /\ \A i \in x : Stack'[i].fn = units'[i].fn
  BY <1>10, AfterMove
<1>12. Stack'[n].fn = f
  <2> HIDE DEF u
  <2>1. units'[n] = u BY <1>1, <1>6, <1>8, OfTop
  <2> QED BY <1>6, <1>11, <2>1
<1>13. /\ coroutines \in [Functions -> Nat] /\ ThreadOwner
       /\ coroutines' = [coroutines EXCEPT ![f] = n]
       /\ call_depth' = DepthInside /\ check_level' = LevelInside
  BY <1>3 DEF ExecuteYield, IInv, TypeOK
<1>14. Threads' = (Threads \ {f}) \cup {f} BY <1>1, <1>2, <1>13 DEF Threads
<1>15. TypeOK'
  <2>1. status' \in {"CONTINUE", "AWAITING", "END"} /\ running' \in BOOLEAN
    BY DEF ExecuteYield, Leave
  <2>2. LevelInside > 0 BY <1>2
  <2>3. shuffle_check' \in BOOLEAN /\ owed' \in BOOLEAN
    <3>1. PendingInside \in BOOLEAN /\ owed \in BOOLEAN
      BY DEF PendingInside, IInv, TypeOK
    <3>2. PICK g \in BOOLEAN : MoveCards(PendingInside, g, LevelInside, owed)
      BY DEF ExecuteYield
    <3>3. (owed \/ LevelInside > 0) \in BOOLEAN BY <2>2
    <3> QED BY <3>1, <3>2, <3>3, Zenon DEF MoveCards
  <2>4. /\ shuffle_check_disabled' \in BOOLEAN /\ assumes' \in BOOLEAN
        /\ returns' \in {"valid", "invalid"} /\ answered' \in BOOLEAN
    BY DEF ExecuteYield, IInv, TypeOK
  <2>5. coroutines' \in [Functions -> Nat] BY <1>2, <1>13
  <2> QED BY <1>2, <1>3, <1>11, <1>13, <2>1, <2>3, <2>4, <2>5 DEF TypeOK
<1>16. CheckLevelCounts' BY <1>2, <1>11, <1>13 DEF CheckLevelCounts
<1>17. ThreadOwner'
  <2>1. SUFFICES ASSUME NEW g \in Functions, coroutines'[g] # 0
                 PROVE  /\ coroutines'[g] \in x
                        /\ Stack'[coroutines'[g]].fn = g
                        /\ \A i \in x : Stack'[i].fn = g => i <= coroutines'[g]
    BY <1>11 DEF ThreadOwner
  <2>2. \A i \in x : i \in Nat /\ i <= n BY <1>2
  <2>3. CASE g = f
    <3>1. coroutines'[g] = n BY <1>13, <2>3
    <3> QED BY <1>12, <2>2, <2>3, <3>1
  <2>4. CASE g # f
    <3>1. coroutines'[g] = coroutines[g] /\ coroutines[g] # n BY <1>3, <1>13, <2>4
    <3>2. /\ coroutines[g] \in E /\ Stack[coroutines[g]].fn = g
          /\ \A i \in E : Stack[i].fn = g => i <= coroutines[g]
      BY <1>13, <2>1, <3>1 DEF ThreadOwner
    <3> HIDE DEF n, f, E
    <3>3. \A i \in x : i # n => i \in x \cap E OBVIOUS
    <3>4. coroutines[g] \in x \cap E BY <3>1, <3>2
    <3> HIDE DEF x
    <3> QED BY <1>11, <1>12, <2>4, <3>1, <3>2, <3>3, <3>4
  <2> QED BY <2>3, <2>4
<1>18. CallDepthCounts'
  <2>1. call_depth' = Cardinality(Threads') BY <1>3, <1>13, <1>14
  <2>2. call_depth' # 0
    <3>1. Cardinality(Threads \ {f}) \in Nat BY <1>3, FS_CardinalityType
    <3> QED BY <1>3, <1>13, <3>1
  <2> QED BY <2>1, <2>2 DEF CallDepthCounts, Threads
<1>19. IsFiniteSet(Threads)' BY <1>3, <1>14, FS_AddElement
<1> QED BY <1>11, <1>15, <1>16, <1>17, <1>18, <1>19 DEF IInv

(* The calls of the host touch nothing but the answer and the loop. *)
LEMMA HostStep ==
  IInv /\ (OCG_DuelProcess \/ OCG_DuelSetResponse \/ Finished \/ UNCHANGED vars)
    => IInv'
<1> SUFFICES ASSUME IInv, \/ OCG_DuelProcess \/ OCG_DuelSetResponse
                          \/ Finished \/ UNCHANGED vars
             PROVE  IInv'
  OBVIOUS
<1>1. /\ UNCHANGED <<stacks, events, check_level, shuffles, threads>>
      /\ returns' \in {"valid", "invalid"} /\ answered' \in BOOLEAN
      /\ status' \in {"CONTINUE", "AWAITING", "END"} /\ running' \in BOOLEAN
  BY DEF OCG_DuelProcess, OCG_DuelSetResponse, Finished, vars, answers, IInv, TypeOK
<1> QED
  BY <1>1 DEF IInv, TypeOK, EventsInStep, CheckLevelCounts, ThreadOwner,
     CallDepthCounts, Waiting, HaveFunctions, Threads, Stack, SplicedEvents, Front,
     stacks, events, shuffles, threads

LEMMA NextInvariant == IInv /\ [Next]_vars => IInv'
BY ProcessEndStep, ProcessNativeStep, SelectStep, ExecuteNothingStep,
   ExecuteYieldStep, ExecuteEndStep, ReplaceStep, HostStep
   DEF Next, Process

-----------------------------------------------------------------------------
(* The deferred shuffles and the answers.  The outermost function in
   progress found the check enabled, and enables it again when it ends; a
   unit that has asked for an answer stays at the top, and the host is not
   let in again before it has answered. *)
Outermost ==
  \A i \in Executing(Stack) :
    Stack[i].shuffle_check_was_disabled => \E j \in Executing(Stack) : j < i

Asking(u) == u.kind = "Select" /\ u.step # 0
Awaited ==
  \A i \in DOMAIN Stack : Asking(Stack[i]) =>
    i = Len(Stack) /\ (answered \/ (status = "AWAITING" /\ ~running))

(* What a step emplaces has not begun. *)
LEMMA BatchNew ==
  ASSUME NEW w, \/ EmplaceNothing(w) \/ EmplaceUnit(w) \/ EmplaceExecute(w)
                \/ \E f, e : Emplace(<<Execute(f, e)>>, <<e>>, w)
  PROVE  \A i \in DOMAIN subunits' : subunits'[i].step = 0
<1>1. \A f, e : Execute(f, e).step = 0 BY DEF Execute, NewUnit
<1>2. Native.step = 0 /\ Select.step = 0 /\ Replace.step = 0
  BY DEF Native, Select, Replace, NewUnit
<1>3. CASE EmplaceNothing(w) BY <1>3 DEF EmplaceNothing
<1>4. CASE EmplaceUnit(w)
  <2>1. PICK u \in {Native, Select, Replace} : subunits' = <<u>>
    BY <1>4 DEF EmplaceUnit, Emplace
  <2>2. u.step = 0 BY <1>2
  <2> QED BY <2>1, <2>2
<1>5. CASE EmplaceExecute(w)
  <2>1. PICK f, g, d, e : \/ subunits' = <<Execute(f, e)>>
                          \/ subunits' = <<Execute(g, d), Execute(f, e)>>
                          \/ subunits' = <<Native, Execute(f, e)>>
                          \/ subunits' = <<Execute(g, d), Native, Execute(f, e)>>
    BY <1>5, Zenon DEF EmplaceExecute, Emplace
  <2> DEFINE u == Execute(f, e)
             v == Execute(g, d)
  <2>2. u.step = 0 /\ v.step = 0 BY <1>1
  <2> HIDE DEF u, v
  <2>3. \/ subunits' = <<u>> \/ subunits' = <<v, u>>
        \/ subunits' = <<Native, u>> \/ subunits' = <<v, Native, u>>
    BY <2>1 DEF u, v
  <2> QED BY <1>2, <2>2, <2>3
<1>6. CASE \E f, e : Emplace(<<Execute(f, e)>>, <<e>>, w)
  <2>1. PICK f, e : subunits' = <<Execute(f, e)>> BY <1>6 DEF Emplace
  <2> QED BY <1>1, <2>1
<1> QED BY <1>3, <1>4, <1>5, <1>6

(* The unit at the top goes, stays as it is or changes, and everything
   above it has not begun. *)
LEMMA TopOnly ==
  ASSUME IInv, Process, Stack # <<>>
  PROVE  /\ \A i \in DOMAIN subunits' : subunits'[i].step = 0
         /\ \/ units' = Below(Stack)
            \/ units' = Stack /\ Front.kind = "Native"
            \/ \E u \in Unit : u.kind = Front.kind
                               /\ units' = [Stack EXCEPT ![Len(Stack)] = u]
<1>1. /\ Stack \in Seq(Unit) /\ Front \in Unit /\ Front = Top(Stack)
      /\ Front = Stack[Len(Stack)]
  BY StackType DEF IInv, Front
<1>2. ASSUME NEW k \in Steps, NEW wrote \in BOOLEAN, Stay(k, wrote)
      PROVE  \E u \in Unit : u.kind = Front.kind
                             /\ units' = [Stack EXCEPT ![Len(Stack)] = u]
  <2> DEFINE u == [Front EXCEPT !.step = (k + 1) % StepModulus]
  <2>1. /\ u \in Unit /\ u.kind = Front.kind
        /\ [Stack EXCEPT ![Len(Stack)].step = (k + 1) % StepModulus]
             = [Stack EXCEPT ![Len(Stack)] = u]
    BY <1>1, Advanced
  <2> HIDE DEF u
  <2>2. units' = [Stack EXCEPT ![Len(Stack)] = u] BY <1>2, <2>1 DEF Stay
  <2> QED BY <2>1, <2>2
<1>3. CASE ProcessNative
  <2>1. units' = Below(Stack) \/ (units' = Stack /\ Front.kind = "Native")
    BY <1>3 DEF ProcessNative, Runs, Finish
  <2> QED BY <1>3, <2>1, BatchNew DEF ProcessNative
<1>4. CASE SelectAtOnce \/ SelectRequest \/ SelectRetry \/ SelectAccept
  <2>1. EmplaceNothing(sub_solving_event)
    BY <1>4 DEF SelectAtOnce, SelectRequest, SelectRetry, SelectAccept
  <2>2. 0 \in Steps /\ Front.step \in Steps BY <1>1, ConstantsAssumption DEF Unit, Steps
  <2>3. \/ units' = Below(Stack)
        \/ \E k \in Steps, wrote \in BOOLEAN : Stay(k, wrote)
    BY <1>4, <2>2 DEF SelectAtOnce, SelectRequest, SelectRetry, SelectAccept, Finish
  <2> QED BY <1>2, <2>1, <2>3, BatchNew
<1>5. CASE ExecuteNothing \/ ExecuteEnd \/ ExecuteRecursive
  <2>1. EmplaceNothing(<<>>) /\ units' = Below(Stack)
    BY <1>5 DEF ExecuteNothing, ExecuteEnd, ExecuteRecursive, Finish
  <2> QED BY <2>1, BatchNew
<1>6. CASE ExecuteYield
  <2> DEFINE u == [Front EXCEPT !.step = @ + 1,
                                !.shuffle_check_was_disabled = DisabledOutside]
  <2>1. DisabledOutside \in BOOLEAN BY <1>1 DEF DisabledOutside, IInv, TypeOK, Unit
  <2>2. Front.step + 1 \in Steps
    BY <1>1, <1>6, ConstantsAssumption DEF ExecuteYield, Unit, Steps
  <2>3. u \in Unit /\ u.kind = Front.kind BY <1>1, <2>1, <2>2 DEF Unit
  <2>4. units' = [Stack EXCEPT ![Len(Stack)] = u] /\ EmplaceUnit(<<>>)
    BY <1>6 DEF ExecuteYield
  <2> QED BY <2>3, <2>4, BatchNew
<1>7. CASE ReplaceRefuse \/ ReplaceEnd
  <2>1. EmplaceNothing(sub_solving_event) /\ units' = Below(Stack)
    BY <1>7 DEF ReplaceRefuse, ReplaceEnd, Finish
  <2> QED BY <2>1, BatchNew
<1>8. CASE ReplaceTarget \/ ReplaceAnswer \/ ReplaceOperation
  <2>1. PICK k \in {1, 2, 3}, e \in Events \cup {NoEvent} : ReplaceStay(k, e)
    BY <1>1, <1>8 DEF ReplaceTarget, ReplaceAnswer, ReplaceOperation, Unit
  <2> DEFINE u == [Front EXCEPT !.step = k, !.event = e]
  <2>2. k \in Steps BY ConstantsAssumption DEF Steps
  <2>3. u \in Unit /\ u.kind = Front.kind BY <1>1, <2>2 DEF Unit
  <2>4. units' = [Stack EXCEPT ![Len(Stack)] = u] BY <1>1, <2>1 DEF ReplaceStay
  <2>5. \/ EmplaceNothing(sub_solving_event)
        \/ \E f, d : Emplace(<<Execute(f, d)>>, <<d>>, sub_solving_event)
    BY <1>8 DEF ReplaceTarget, ReplaceAnswer, ReplaceOperation
  <2> HIDE DEF u
  <2> QED BY <2>3, <2>4, <2>5, BatchNew
<1>9. ~ProcessEnd BY DEF ProcessEnd
<1> QED BY <1>3, <1>4, <1>5, <1>6, <1>7, <1>8, <1>9 DEF Process

LEMMA StackAfter ==
  ASSUME IInv, Process, Stack # <<>>
  PROVE  LET n == Len(Stack) IN
         /\ n \in Nat \ {0}
         /\ \A i \in 1 .. n - 1 : i \in DOMAIN Stack' /\ Stack'[i] = Stack[i]
         /\ \A i \in DOMAIN Stack' :
              \/ i \in 1 .. n - 1
              \/ Stack'[i].step = 0
              \/ /\ i = n /\ units' # Below(Stack)
                 /\ Stack'[i] = units'[n] /\ units'[n].kind = Front.kind
<1> DEFINE n == Len(Stack)
           m == Len(units')
<1>1. /\ Stack \in Seq(Unit) /\ n \in Nat \ {0} /\ Front = Stack[n]
      /\ units' \in Seq(Unit) /\ subunits' \in Seq(Unit)
  <2>1. IInv' BY NextInvariant DEF Next
  <2> QED BY <2>1, StackType DEF IInv, TypeOK
<1>2. /\ \A i \in 1 .. n - 1 : i \in 1 .. m /\ units'[i] = Stack[i]
      /\ m = n - 1 \/ (m = n /\ units'[n].kind = Front.kind /\ units' # Below(Stack))
  <2>1. Len(Below(Stack)) = n - 1 /\ \A i \in 1 .. n - 1 : Below(Stack)[i] = Stack[i]
    BY <1>1, BelowProperties
  <2>2. CASE units' = Below(Stack) BY <1>1, <2>1, <2>2
  <2>3. CASE units' = Stack BY <1>1, <2>1, <2>3
  <2>4. ASSUME NEW u \in Unit, u.kind = Front.kind, units' = [Stack EXCEPT ![n] = u]
        PROVE  /\ \A i \in 1 .. n - 1 : i \in 1 .. m /\ units'[i] = Stack[i]
               /\ m = n /\ units'[n].kind = Front.kind
    BY <1>1, <2>4
  <2> QED BY <1>1, <2>1, <2>2, <2>3, <2>4, TopOnly
<1>3. /\ DOMAIN Stack' = 1 .. m + Len(subunits')
      /\ \A i \in 1 .. m : Stack'[i] = units'[i]
      /\ \A i \in DOMAIN Stack' : i \in 1 .. m \/ Stack'[i].step = 0
  <2>1. Stack' = units' \o subunits' /\ m \in Nat /\ Len(subunits') \in Nat
    BY <1>1 DEF Stack
  <2>2. \A i \in 1 .. Len(subunits') : subunits'[i].step = 0 BY <1>1, TopOnly
  <2>3. \A i \in 1 .. m + Len(subunits') :
          Stack'[i] = IF i <= m THEN units'[i] ELSE subunits'[i - m]
    BY <1>1, <2>1
  <2>4. DOMAIN Stack' = 1 .. m + Len(subunits') BY <1>1, <2>1
  <2> QED BY <2>1, <2>2, <2>3, <2>4
<1>4. m \in Nat /\ Len(subunits') \in Nat BY <1>1
<1> QED BY <1>1, <1>2, <1>3, <1>4

(* A step of a function, or of anything else, keeps the scope of the checks. *)
LEMMA OutermostKept ==
  ASSUME IInv, ShuffleScope, Outermost, Process, Stack # <<>>
  PROVE  Outermost'
<1> DEFINE n == Len(Stack)
<1>1. /\ n \in Nat \ {0}
      /\ \A i \in 1 .. n - 1 : i \in DOMAIN Stack' /\ Stack'[i] = Stack[i]
      /\ \A i \in DOMAIN Stack' :
           \/ i \in 1 .. n - 1
           \/ Stack'[i].step = 0
           \/ /\ i = n /\ units' # Below(Stack)
              /\ Stack'[i] = units'[n] /\ units'[n].kind = Front.kind
  BY StackAfter
<1>2. Stack \in Seq(Unit) /\ DOMAIN Stack = 1 .. n /\ Front = Stack[n] /\ Front \in Unit
  BY StackType DEF IInv
<1> SUFFICES ASSUME NEW i \in Executing(Stack)', Stack'[i].shuffle_check_was_disabled
             PROVE  \E j \in Executing(Stack)' : j < i
  BY DEF Outermost
<1>3. i \in DOMAIN Stack' /\ Stack'[i].kind = "Execute" /\ Stack'[i].step > 0
  BY DEF Executing, IsExecuting
<1>4. SUFFICES \E j \in Executing(Stack) : j < i /\ j < n BY <1>1, <1>2 DEF Executing
<1>5. CASE i \in 1 .. n - 1
  <2>1. i \in Executing(Stack) /\ Stack[i].shuffle_check_was_disabled
    BY <1>1, <1>2, <1>3, <1>5 DEF Executing, IsExecuting
  <2> QED BY <1>1, <1>2, <1>5, <2>1 DEF Outermost, Executing
<1>6. CASE i = n /\ units' # Below(Stack) /\ Stack'[i] = units'[n]
           /\ units'[n].kind = Front.kind
  <2>1. Front.kind = "Execute" BY <1>3, <1>6
  <2>2. ExecuteYield
    BY <1>6, <2>1 DEF Process, ProcessEnd, ProcessNative, SelectAtOnce, SelectRequest,
       SelectRetry, SelectAccept, ExecuteNothing, ExecuteEnd, ExecuteRecursive,
       ReplaceRefuse, ReplaceTarget, ReplaceAnswer, ReplaceOperation, ReplaceEnd, Runs,
       Finish
  <2>3. Front.fn \in Functions BY <1>2, <2>2 DEF ExecuteYield, Unit
  <2>4. n \in Executing(Stack) <=> ~Starting BY <2>1, <2>3, Inside
  <2>5. units'[n].shuffle_check_was_disabled = DisabledOutside
    BY <1>1, <1>2, <2>2 DEF ExecuteYield, Unit
  <2>6. CASE Starting
    <3>1. check_level # 0 BY <1>6, <2>5, <2>6 DEF DisabledOutside, ShuffleScope
    <3>2. Executing(Stack) # {} BY <3>1, FS_EmptySet DEF IInv, CheckLevelCounts
    <3> QED BY <1>1, <1>2, <1>6, <2>4, <2>6, <3>2 DEF Executing
  <2>7. CASE ~Starting
    <3>1. Stack[n].shuffle_check_was_disabled
      BY <1>2, <1>6, <2>5, <2>7 DEF DisabledOutside
    <3>2. \E j \in Executing(Stack) : j < n BY <2>4, <2>7, <3>1 DEF Outermost
    <3> QED BY <1>6, <3>2
  <2> QED BY <2>6, <2>7
<1> QED BY <1>1, <1>3, <1>5, <1>6

(* What asks for a shuffle while none is pending is owed nothing. *)
LEMMA ScopeKept ==
  ASSUME IInv, ShuffleScope, Outermost, Process
  PROVE  ShuffleScope'
<1>1. /\ check_level \in Nat /\ owed \in BOOLEAN /\ shuffle_check \in BOOLEAN
      /\ shuffle_check_disabled \in BOOLEAN
  BY DEF IInv, TypeOK
<1>2. ASSUME UNCHANGED <<check_level, shuffles>>
      PROVE  ShuffleScope'
  BY <1>2 DEF ShuffleScope, shuffles
<1>3. CASE ProcessNative BY <1>1, <1>3 DEF ProcessNative, MoveCards, ShuffleScope
<1>4. ASSUME Stack # <<>>, Front.kind = "Execute", Front.fn # NoFunction
      PROVE  /\ owed => PendingInside
             /\ LevelInside \in Nat \ {0}
             /\ LevelInside = 1 => ~DisabledOutside
  <2>1. Front.fn \in Functions BY <1>4, StackType DEF IInv, Unit
  <2> DEFINE n == Len(Stack)
             E == Executing(Stack)
  <2>2. /\ n \in Nat \ {0} /\ E \subseteq 1 .. n /\ n \in E <=> ~Starting
        /\ IsFiniteSet(E) /\ LevelInside \in Nat \ {0}
        /\ LevelInside - 1 = Cardinality(E \ {n})
    BY <1>4, <2>1, Inside
  <2>3. owed => PendingInside BY DEF PendingInside, ShuffleScope
  <2>4. ASSUME LevelInside = 1
        PROVE  ~DisabledOutside
    <3>1. CASE Starting
      BY <1>1, <2>4, <3>1 DEF LevelInside, DisabledOutside, ShuffleScope
    <3>2. CASE ~Starting
      <4>1. E \ {n} = {}
        <5>1. IsFiniteSet(E \ {n}) /\ Cardinality(E \ {n}) = 0 BY <2>2, <2>4, FS_Subset
        <5> QED BY <5>1, FS_EmptySet
      <4>2. n \in E /\ ~\E j \in E : j < n BY <2>2, <3>2, <4>1
      <4>3. Front = Stack[n] BY <1>4, StackType DEF IInv
      <4> QED BY <3>2, <4>2, <4>3 DEF Outermost, DisabledOutside
    <3> QED BY <3>1, <3>2
  <2> QED BY <2>2, <2>3, <2>4
<1>5. CASE ExecuteYield
  <2>1. /\ LevelInside \in Nat \ {0}
        /\ owed => PendingInside
        /\ check_level' = LevelInside
    BY <1>4, <1>5 DEF ExecuteYield, Runs
  <2>2. PICK b \in BOOLEAN : MoveCards(PendingInside, b, LevelInside, owed)
    BY <1>5 DEF ExecuteYield
  <2>3. owed' => shuffle_check' BY <2>1, <2>2, Zenon DEF MoveCards
  <2>4. check_level' # 0 BY <2>1
  <2> QED BY <2>3, <2>4 DEF ShuffleScope
<1>6. CASE ExecuteEnd \/ ExecuteRecursive
  <2>1. /\ owed => PendingInside
        /\ LevelInside \in Nat \ {0}
        /\ LevelInside = 1 => ~DisabledOutside
    BY <1>4, <1>6 DEF ExecuteEnd, ExecuteRecursive, Runs
  <2>2. PICK pending \in BOOLEAN, due \in BOOLEAN :
          (due => pending) /\ EndFunction(LevelInside, pending, due)
    BY <1>1, <1>6, <2>1 DEF ExecuteEnd, ExecuteRecursive, PendingInside
  <2>3. check_level' = 0 => LevelInside = 1 BY <2>1, <2>2 DEF EndFunction
  <2> QED BY <2>1, <2>2, <2>3, Zenon DEF EndFunction, ShuffleScope
<1>7. CASE \/ ProcessEnd \/ SelectAtOnce \/ SelectRequest \/ SelectRetry \/ SelectAccept
           \/ ExecuteNothing \/ ReplaceRefuse \/ ReplaceTarget \/ ReplaceAnswer
           \/ ReplaceOperation \/ ReplaceEnd
  <2>1. UNCHANGED <<check_level, shuffles>>
    BY <1>7 DEF ProcessEnd, SelectAtOnce, SelectRequest, SelectRetry, SelectAccept,
       ExecuteNothing, ReplaceRefuse, ReplaceTarget, ReplaceAnswer, ReplaceOperation,
       ReplaceEnd, ReplaceStay
  <2> QED BY <1>2, <2>1
<1> QED BY <1>3, <1>5, <1>6, <1>7 DEF Process

(* Only a unit that asks waits for an answer, and only at the top. *)
LEMMA AwaitedKept ==
  ASSUME IInv, Awaited, Process, Stack # <<>>
  PROVE  Awaited'
<1> DEFINE n == Len(Stack)
<1>1. /\ n \in Nat \ {0}
      /\ \A i \in 1 .. n - 1 : i \in DOMAIN Stack' /\ Stack'[i] = Stack[i]
      /\ \A i \in DOMAIN Stack' :
           \/ i \in 1 .. n - 1
           \/ Stack'[i].step = 0
           \/ /\ i = n /\ units' # Below(Stack)
              /\ Stack'[i] = units'[n] /\ units'[n].kind = Front.kind
  BY StackAfter
<1>2. Stack \in Seq(Unit) /\ DOMAIN Stack = 1 .. n /\ Front = Stack[n] /\ Front \in Unit
  BY StackType DEF IInv
<1> SUFFICES ASSUME NEW i \in DOMAIN Stack', Asking(Stack'[i])
             PROVE  i = Len(Stack') /\ (answered' \/ (status' = "AWAITING" /\ ~running'))
  BY DEF Awaited
<1>3. i \notin 1 .. n - 1 BY <1>1, <1>2 DEF Awaited
<1>4. /\ i = n /\ units' # Below(Stack) /\ Front.kind = "Select"
  BY <1>1, <1>3 DEF Asking
<1>5. SelectRequest \/ SelectRetry
  BY <1>4 DEF Process, ProcessEnd, ProcessNative, SelectAtOnce, SelectAccept,
     ExecuteNothing, ExecuteYield, ExecuteEnd, ExecuteRecursive, ReplaceRefuse,
     ReplaceTarget, ReplaceAnswer, ReplaceOperation, ReplaceEnd, Runs, Finish
<1>6. status' = "AWAITING" /\ ~running' /\ subunits' = <<>>
  BY <1>4, <1>5 DEF SelectRequest, SelectRetry, Stay, Leave, EmplaceNothing
<1>7. Len(Stack') = n
  <2>1. PICK u \in Unit : units' = [Stack EXCEPT ![n] = u] BY <1>4, TopOnly
  <2>2. units' \in Seq(Unit) /\ Len(units') = n BY <1>2, <2>1
  <2> QED BY <1>6, <2>2 DEF Stack
<1> QED BY <1>4, <1>6, <1>7

(* Everything together. *)
Fresh == IInv /\ ShuffleScope /\ Outermost /\ Awaited

LEMMA InitFresh == Init => Fresh
<1> SUFFICES ASSUME Init PROVE Fresh OBVIOUS
<1>1. ShuffleScope BY DEF Init, ShuffleScope
<1> DEFINE u == NewUnit("Native", NoFunction, NoEvent)
<1>2. u.kind = "Native" BY DEF NewUnit
<1>3. Stack = <<>> \o <<u>> BY DEF Init, Stack
<1> HIDE DEF u
<1>4. Stack = <<u>> BY <1>3
<1>5. \A i \in DOMAIN Stack : Stack[i].kind = "Native" BY <1>2, <1>4
<1>6. Outermost /\ Awaited
  BY <1>5 DEF Outermost, Awaited, Executing, IsExecuting, Asking
<1> QED BY <1>1, <1>6, InitInvariant DEF Fresh

LEMMA NextFresh == Fresh /\ [Next]_vars => Fresh'
<1> SUFFICES ASSUME Fresh, [Next]_vars PROVE Fresh' OBVIOUS
<1>1. IInv' BY NextInvariant DEF Fresh
<1>2. CASE Process /\ Stack # <<>>
  BY <1>1, <1>2, OutermostKept, ScopeKept, AwaitedKept DEF Fresh
<1>3. CASE (Process /\ Stack = <<>>) \/ ~Process
  <2>1. \/ ProcessEnd \/ OCG_DuelProcess \/ OCG_DuelSetResponse \/ UNCHANGED vars
    BY <1>3 DEF Next, Process, Finished, ProcessNative, SelectAtOnce, SelectRequest,
       SelectRetry, SelectAccept, ExecuteNothing, ExecuteYield, ExecuteEnd,
       ExecuteRecursive, ReplaceRefuse, ReplaceTarget, ReplaceAnswer, ReplaceOperation,
       ReplaceEnd, Runs
  <2>2. UNCHANGED <<stacks, check_level, shuffles>>
    BY <2>1 DEF ProcessEnd, OCG_DuelProcess, OCG_DuelSetResponse, vars
  <2>3. Stack' = Stack BY <2>2 DEF Stack, stacks
  <2>4. ShuffleScope' BY <2>2 DEF Fresh, ShuffleScope, shuffles
  <2>5. Outermost' BY <2>3 DEF Fresh, Outermost, Executing
  <2>6. Awaited'
    <3>1. CASE ProcessEnd
      <4>1. Stack = <<>> BY <3>1 DEF ProcessEnd
      <4> QED BY <2>3, <4>1 DEF Awaited
    <3>2. CASE OCG_DuelProcess
      BY <2>3, <3>2 DEF OCG_DuelProcess, Fresh, Awaited, answers
    <3>3. CASE OCG_DuelSetResponse BY <2>3, <3>3 DEF OCG_DuelSetResponse, Fresh, Awaited
    <3>4. CASE UNCHANGED vars BY <2>3, <3>4 DEF vars, answers, Fresh, Awaited
    <3> QED BY <2>1, <3>1, <3>2, <3>3, <3>4
  <2> QED BY <1>1, <2>4, <2>5, <2>6 DEF Fresh
<1> QED BY <1>2, <1>3

-----------------------------------------------------------------------------
(* IInv holds of every state of every duel. *)
THEOREM Invariant == Spec => []IInv
BY InitInvariant, NextInvariant, PTL DEF Spec

(* The variables keep their types: in particular check_level and call_depth
   are never decremented below 0. *)
THEOREM TypeCorrect == Spec => []TypeOK
<1>1. IInv => TypeOK BY DEF IInv
<1> QED BY <1>1, Invariant, PTL

(* core.solving_event, with what core.sub_solving_event will add to it, has
   exactly one entry for each effect function queued or in progress and for
   each replacement effect, its own, in the order of the unit stack. *)
THEOREM EventsCorrect == Spec => []EventsInStep
<1>1. IInv => EventsInStep BY DEF IInv
<1> QED BY <1>1, Invariant, PTL

(* core.check_level is the number of effect functions in progress. *)
THEOREM LevelCorrect == Spec => []CheckLevelCounts
<1>1. IInv => CheckLevelCounts BY DEF IInv
<1> QED BY <1>1, Invariant, PTL

(* Every suspended thread belongs to the innermost unit in progress on its
   function. *)
THEOREM ThreadsCorrect == Spec => []ThreadOwner
<1>1. IInv => ThreadOwner BY DEF IInv
<1> QED BY <1>1, Invariant, PTL

(* interpreter::call_depth is the number of suspended threads, and no
   assumed property of a card survives the last of them. *)
THEOREM DepthCorrect == Spec => []CallDepthCounts
<1>1. IInv => CallDepthCounts BY DEF IInv
<1> QED BY <1>1, Invariant, PTL

(* Both counters are exact at every moment. *)
THEOREM CountsCorrect == Spec => []CountsKept
<1>1. IInv => CountsKept BY DEF IInv, CountsKept
<1> QED BY <1>1, Invariant, PTL

(* However effect functions are nested and suspended, DisableShuffleCheck
   lasts no longer than the function that called it, and the shuffles that
   were put off are made when the outermost one ends (ExecuteOperation,
   processor.cpp:98-132). *)
THEOREM ShufflesCorrect == Spec => []ShuffleScope
<1>1. Fresh => ShuffleScope BY DEF Fresh
<1> QED BY <1>1, InitFresh, NextFresh, PTL DEF Spec

(* A unit that asks accepts only an answer that the host gave after it had
   asked, whatever effect functions and earlier requests left in
   field::returns. *)
THEOREM AnswersCorrect == Spec => FreshAnswer
<1>1. Fresh /\ [Next]_vars => [SelectAccept => answered]_vars
  <2> SUFFICES ASSUME Fresh, SelectAccept PROVE answered OBVIOUS
  <2>1. Stack # <<>> /\ Front.kind = "Select" /\ Front.step # 0 /\ running
    BY DEF SelectAccept, Runs
  <2>2. Len(Stack) \in DOMAIN Stack /\ Stack[Len(Stack)] = Front
    BY <2>1, StackType DEF Fresh, IInv
  <2> QED BY <2>1, <2>2 DEF Fresh, Awaited, Asking
<1> QED BY <1>1, InitFresh, NextFresh, PTL DEF Spec, FreshAnswer
=============================================================================
