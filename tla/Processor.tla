----------------------------- MODULE Processor -----------------------------
(* The scheduler of the duel engine: the stack of processor units that
   field::process() runs one step at a time, the lists of events kept in
   parallel with the Execute* units, the Lua coroutines those units resume,
   and the loop and the answers of the public API around it.

   The handlers of the other units are abstracted: "Native" stands for any
   handler that neither waits for an answer nor touches the state modelled
   here except by emplacing units, "Select" for the units of playerop.cpp,
   "Execute" for ExecuteCost/Operation/Target and "Replace" for steps 0-3
   and 5-8 of OperationReplace, the one other unit that pushes
   core.solving_event itself.

   Every std::list used as a stack is written bottom first: front() of the
   source is Last(_) here, so that a unit keeps its index while it lives. *)
EXTENDS Naturals, Sequences, FiniteSets

CONSTANTS
  Functions,   \* Lua function references: the keys of interpreter::coroutines
  NoFunction,  \* an effect whose cost, target or operation is not set
  Events,      \* tevent values
  NoEvent,     \* the event field of units that have none
  StepModulus, \* how many values a step counter has (2^16 in the code)
  MaxYields,   \* bound on the suspensions of one call of an effect function
  MaxUnits     \* bound on the height of the unit stack

ASSUME ConstantsAssumption ==
  /\ NoFunction \notin Functions
  /\ NoEvent \notin Events
  /\ StepModulus \in Nat /\ StepModulus > 4
  /\ MaxYields \in Nat /\ MaxYields < StepModulus
  /\ MaxUnits \in Nat \ {0}

VARIABLES
  units,                  \* core.units
  subunits,               \* core.subunits
  solving_event,          \* core.solving_event
  sub_solving_event,      \* core.sub_solving_event
  check_level,            \* core.check_level
  shuffle_check,          \* some core.shuffle_{deck,hand}_check[p] is set
  shuffle_check_disabled, \* core.shuffle_check_disabled
  owed,                   \* history: a card that an effect function moved with
                          \* the check enabled waits for its pile's shuffle
  coroutines,             \* interpreter::coroutines: 0, or the height of the
                          \* unit that created the thread of the function
  call_depth,             \* interpreter::call_depth
  assumes,                \* duel::assumes is not empty
  returns,                \* field::returns, as the waiting unit judges it
  answered,               \* a response was set since the last request
  status,                 \* the flag of the last field::process()
  running                 \* the host is inside OCG_DuelProcess

stacks == <<units, subunits>>
events == <<solving_event, sub_solving_event>>
shuffles == <<shuffle_check, shuffle_check_disabled, owed>>
threads == <<coroutines, call_depth, assumes>>
answers == <<returns, answered>>
vars == <<stacks, events, check_level, shuffles, threads, answers,
          status, running>>

Kinds == {"Native", "Execute", "Select", "Replace"}
Steps == 0 .. StepModulus - 1

Unit == [kind  : Kinds,
         step  : Steps,
         fn    : Functions \cup {NoFunction},
         event : Events \cup {NoEvent},
         shuffle_check_was_disabled : BOOLEAN]

NewUnit(kind, f, e) ==
  [kind |-> kind, step |-> 0, fn |-> f, event |-> e,
   shuffle_check_was_disabled |-> FALSE]

Top(s) == s[Len(s)]
Below(s) == SubSeq(s, 1, Len(s) - 1)

(* core.units.splice(core.units.begin(), core.subunits): what a call of
   field::process() finds. *)
Stack == units \o subunits
Front == Top(Stack)

(* core.solving_event.splice(core.solving_event.begin(), ...) *)
SplicedEvents == solving_event \o sub_solving_event

Init ==
  /\ units = <<>>
  /\ subunits = <<NewUnit("Native", NoFunction, NoEvent)>>
  /\ solving_event = <<>> /\ sub_solving_event = <<>>
  /\ check_level = 0
  /\ shuffle_check = FALSE /\ shuffle_check_disabled = FALSE /\ owed = FALSE
  /\ coroutines = [f \in Functions |-> 0]
  /\ call_depth = 0
  /\ assumes = FALSE
  /\ returns = "invalid" /\ answered = FALSE
  /\ status = "CONTINUE" /\ running = FALSE

-----------------------------------------------------------------------------
(* What a handler emplaces in core.subunits, and the events it pushes to
   core.sub_solving_event for the Execute units among them, both written
   bottom first.  Wherever the source pushes events, the first unit it
   emplaces in the same step is the Execute unit of the first event. *)
Execute(f, e) == NewUnit("Execute", f, e)
Native == NewUnit("Native", NoFunction, NoEvent)
Select == NewUnit("Select", NoFunction, NoEvent)
Replace == NewUnit("Replace", NoFunction, NoEvent)

(* waiting is what core.sub_solving_event still holds. *)

(* Mutant: the units emplaced run in the reverse order. *)
EmplaceReversed(batch, evs, waiting) ==
  /\ Len(Stack) + Len(batch) <= MaxUnits
  /\ subunits' = [i \in 1 .. Len(batch) |-> batch[Len(batch) + 1 - i]]
  /\ sub_solving_event' = evs \o waiting

Emplace(batch, evs, waiting) ==
  /\ Len(Stack) + Len(batch) <= MaxUnits
  /\ subunits' = batch
  /\ sub_solving_event' = evs \o waiting

EmplaceNothing(waiting) ==
  /\ subunits' = <<>>
  /\ sub_solving_event' = waiting

(* A unit that pushes no event: one that asks the players, one that works
   on its own, or a replacement effect. *)
EmplaceUnit(waiting) ==
  \E u \in {Native, Select, Replace} : Emplace(<<u>>, <<>>, waiting)

(* The batches with Execute units: one (SummonRule, AddChain's cost and
   target, SolveChain), several in a row (the *_COST effects, AddChain step
   1), one followed by other units (AddChain step 1), or alternating with
   adjust_all() (BattleCommand step 14). *)
EmplaceExecute(waiting) ==
  \E f, g \in Functions \cup {NoFunction}, d, e \in Events :
    \/ Emplace(<<Execute(f, e)>>, <<e>>, waiting)
    \/ Emplace(<<Execute(g, d), Execute(f, e)>>, <<d, e>>, waiting)
    \/ Emplace(<<Native, Execute(f, e)>>, <<e>>, waiting)
    \/ Emplace(<<Execute(g, d), Native, Execute(f, e)>>, <<d, e>>, waiting)

-----------------------------------------------------------------------------
(* add_card, remove_card and move_card ask for a shuffle of the deck or of
   the hand unless the check is disabled; field::shuffle() drops the
   request.  What was asked outside every effect function is not owed. *)
MoveCards(pending, enabled, level, due) ==
  \/ shuffle_check' = pending /\ owed' = due
  \/ enabled /\ shuffle_check' = TRUE /\ owed' = (due \/ level > 0)
  \/ shuffle_check' = FALSE /\ owed' = FALSE

-----------------------------------------------------------------------------
(* field::process() and the loop of OCG_DuelProcess around it: one action
   per call of field::process(), which leaves the loop when a message was
   written or the flag is not CONTINUE. *)
Leave(flag, wrote) ==
  /\ status' = flag
  /\ running' = (~wrote /\ flag = "CONTINUE")

(* The handler returned TRUE. *)
Finish(wrote) ==
  /\ units' = Below(Stack)
  /\ Leave("CONTINUE", wrote)

(* The handler returned FALSE with arg.step = s: process() increments it,
   and stops for an answer if the type of the unit says needs_answer.
   Mutant: the type of a Select unit does not say it. *)
StayUnasked(s, wrote) ==
  /\ units' = [Stack EXCEPT ![Len(Stack)].step = (s + 1) % StepModulus]
  /\ Leave("CONTINUE", wrote)

Stay(s, wrote) ==
  /\ units' = [Stack EXCEPT ![Len(Stack)].step = (s + 1) % StepModulus]
  /\ Leave(IF Front.kind = "Select" THEN "AWAITING" ELSE "CONTINUE", wrote)

Runs(kind) == running /\ Stack # <<>> /\ Front.kind = kind

ProcessEnd ==
  /\ running /\ Stack = <<>>
  /\ Leave("END", FALSE)
  /\ UNCHANGED <<stacks, events, check_level, shuffles, threads, answers>>

(* Any other handler.  It may move cards or shuffle a pile, evaluate Lua
   conditions, write a message, emplace units, and either finish or wait
   for its next step (whose number is the handler's affair and not kept). *)
ProcessNative ==
  /\ Runs("Native")
  /\ \/ EmplaceNothing(sub_solving_event)
     \/ EmplaceUnit(sub_solving_event)
     \/ EmplaceExecute(sub_solving_event)
  /\ \E wrote \in BOOLEAN :
       \/ Finish(wrote)
       \/ units' = Stack /\ Leave("CONTINUE", wrote)
  /\ MoveCards(shuffle_check, ~shuffle_check_disabled, check_level, owed)
  /\ assumes' \in {assumes, call_depth # 0}
  /\ UNCHANGED <<solving_event, check_level, shuffle_check_disabled, coroutines,
                 call_depth, answers>>

(* The units of playerop.cpp: step 0 sends the request, the later ones
   judge the answer and ask again as long as it is not acceptable.  Step 0
   of most of them also resets the answer; SelectIdleCmd and
   SelectBattleCmd leave the last one in place.  Some finish at once, when
   there is nothing to choose or the simple AI chooses. *)
SelectAtOnce ==
  /\ Runs("Select") /\ Front.step = 0
  /\ Finish(FALSE)
  /\ returns' \in {returns, "valid"}
  /\ EmplaceNothing(sub_solving_event)
  /\ UNCHANGED <<solving_event, check_level, shuffles, threads, answered>>

SelectRequest ==
  /\ Runs("Select") /\ Front.step = 0
  /\ Stay(0, TRUE)
  /\ returns' \in {returns, "invalid"}
  /\ answered' = FALSE
  /\ EmplaceNothing(sub_solving_event)
  /\ UNCHANGED <<solving_event, check_level, shuffles, threads>>

SelectRetry ==
  /\ Runs("Select") /\ Front.step # 0 /\ returns = "invalid"
  /\ Stay(Front.step, TRUE)
  /\ EmplaceNothing(sub_solving_event)
  /\ UNCHANGED <<solving_event, check_level, shuffles, threads, answers>>

SelectAccept ==
  /\ Runs("Select") /\ Front.step # 0 /\ returns = "valid"
  /\ Finish(FALSE)
  /\ EmplaceNothing(sub_solving_event)
  /\ UNCHANGED <<solving_event, check_level, shuffles, threads, answers>>

-----------------------------------------------------------------------------
(* ExecuteCost, ExecuteOperation and ExecuteTarget, which differ in nothing
   but the function they call. *)

(* The effect has no such function: the event is taken off again. *)
ExecuteNothing ==
  /\ Runs("Execute") /\ Front.fn = NoFunction
  /\ solving_event' = Below(SplicedEvents)
  /\ EmplaceNothing(<<>>)
  /\ Finish(FALSE)
  /\ UNCHANGED <<check_level, shuffles, threads, answers>>

(* What step 0 sets up before the call, and the later steps find.
   Mutant: the level is not raised. *)
Starting == Front.step = 0
LevelForgotten == check_level
LevelInside == check_level + (IF Starting THEN 1 ELSE 0)
PendingInside == shuffle_check /\ ~(Starting /\ check_level = 0)
DisabledInside == shuffle_check_disabled /\ ~Starting
DisabledOutside == IF Starting THEN shuffle_check_disabled
                   ELSE Front.shuffle_check_was_disabled

(* call_coroutine finds the thread of the function, or creates one.
   Mutant: a thread that exists is always resumed. *)
NeverRecursive == Starting /\ Front.fn = NoFunction
Recursive == Starting /\ coroutines[Front.fn] # 0
Thread == IF coroutines[Front.fn] = 0 THEN Len(Stack) ELSE coroutines[Front.fn]
DepthInside == call_depth + (IF coroutines[Front.fn] = 0 THEN 1 ELSE 0)

(* --call_depth, with restore_assumes() when it reaches 0. *)
LeaveThread(depth, assumed) ==
  /\ coroutines' = [coroutines EXCEPT ![Front.fn] = 0]
  /\ call_depth' = depth - 1
  /\ assumes' = (assumed /\ depth # 1)

(* What the Execute unit does once its function has returned: the shuffles
   still asked for are made when the outermost one ends.
   Mutants: the level is kept when the call failed; the saved flag is not
   restored. *)
EndFunctionKeepsLevel(level, pending, due) ==
  /\ check_level' = IF Recursive THEN level ELSE level - 1
  /\ shuffle_check' = (pending /\ level # 1)
  /\ owed' = (due /\ ~(pending /\ level = 1))
  /\ shuffle_check_disabled' = DisabledOutside
  /\ solving_event' = Below(SplicedEvents)

EndFunctionKeepsFlag(level, pending, due) ==
  /\ check_level' = level - 1
  /\ shuffle_check' = (pending /\ level # 1)
  /\ owed' = (due /\ ~(pending /\ level = 1))
  /\ shuffle_check_disabled' = DisabledInside
  /\ solving_event' = Below(SplicedEvents)

EndFunction(level, pending, due) ==
  /\ check_level' = level - 1
  /\ shuffle_check' = (pending /\ level # 1)
  /\ owed' = (due /\ ~(pending /\ level = 1))
  /\ shuffle_check_disabled' = DisabledOutside
  /\ solving_event' = Below(SplicedEvents)

(* The function suspends itself after a library call that emplaced a unit.
   It may have called DisableShuffleCheck, moved cards, or assumed
   properties of cards.  The bound keeps the step counter from wrapping to
   0, which a body suspended 2^16 times would make it do. *)
ExecuteYield ==
  /\ Runs("Execute") /\ Front.fn # NoFunction /\ ~Recursive
  /\ Front.step < MaxYields
  /\ units' = [Stack EXCEPT ![Len(Stack)] =
                 [Front EXCEPT !.step = @ + 1,
                               !.shuffle_check_was_disabled = DisabledOutside]]
  /\ \E wrote \in BOOLEAN : Leave("CONTINUE", wrote)
  /\ EmplaceUnit(<<>>) /\ solving_event' = SplicedEvents
  /\ check_level' = LevelInside
  /\ shuffle_check_disabled' \in BOOLEAN
  /\ MoveCards(PendingInside, ~(DisabledInside /\ shuffle_check_disabled'),
               LevelInside, owed)
  /\ coroutines' = [coroutines EXCEPT ![Front.fn] = Thread]
  /\ call_depth' = DepthInside
  /\ assumes' \in {assumes, TRUE}
  /\ returns' \in {"valid", "invalid"}
  /\ UNCHANGED answered

(* The function returns, or fails: both leave the unit the same way. *)
ExecuteEnd ==
  /\ Runs("Execute") /\ Front.fn # NoFunction /\ ~Recursive
  /\ EmplaceNothing(<<>>)
  /\ \E wrote \in BOOLEAN : Finish(wrote)
  /\ \E pending, due \in BOOLEAN :
       /\ \/ pending = PendingInside /\ due = owed
          \/ pending = TRUE /\ due = TRUE /\ ~DisabledInside
       /\ EndFunction(LevelInside, pending, due)
  /\ LeaveThread(DepthInside, TRUE)
  /\ returns' \in {"valid", "invalid"}
  /\ UNCHANGED answered

(* "recursive event trigger detected.": the function is already suspended
   in a unit further down.  The call fails, and the thread of that unit is
   given up with it. *)
ExecuteRecursive ==
  /\ Runs("Execute") /\ Front.fn # NoFunction /\ Recursive
  /\ EmplaceNothing(<<>>)
  /\ \E wrote \in BOOLEAN : Finish(wrote)
  /\ EndFunction(LevelInside, PendingInside, owed)
  /\ LeaveThread(call_depth, assumes)
  /\ returns' \in {"valid", "invalid"}
  /\ UNCHANGED answered

-----------------------------------------------------------------------------
(* OperationReplace: a replacement effect pushes its event itself, because
   its target and its operation both run under it. *)
ReplaceStay(s, e) ==
  /\ units' = [Stack EXCEPT ![Len(Stack)] = [@ EXCEPT !.step = s, !.event = e]]
  /\ Leave("CONTINUE", FALSE)
  /\ UNCHANGED <<check_level, shuffles, threads, answers>>

(* case 0: already replaced, or the effect does not apply. *)
ReplaceRefuse ==
  /\ Runs("Replace") /\ Front.step = 0
  /\ Finish(FALSE) /\ EmplaceNothing(sub_solving_event)
  /\ UNCHANGED <<solving_event, check_level, shuffles, threads, answers>>

ReplaceTarget ==
  /\ Runs("Replace") /\ Front.step = 0
  /\ \E f \in Functions, e \in Events :
       /\ solving_event' = Append(solving_event, e)
       /\ Emplace(<<Execute(f, e)>>, <<e>>, sub_solving_event)
       /\ ReplaceStay(1, e)

(* case 1: a target function that refused skips the operation. *)
ReplaceAnswer ==
  /\ Runs("Replace") /\ Front.step = 1
  /\ \E s \in {2, 3} : ReplaceStay(s, Front.event)
  /\ EmplaceNothing(sub_solving_event) /\ UNCHANGED solving_event

(* case 2: the operation, if any, runs under the event at the front. *)
ReplaceOperation ==
  /\ Runs("Replace") /\ Front.step = 2
  /\ ReplaceStay(3, Front.event)
  /\ \/ EmplaceNothing(sub_solving_event)
     \/ \E f \in Functions :
          Emplace(<<Execute(f, Top(solving_event))>>, <<Top(solving_event)>>,
                  sub_solving_event)
  /\ UNCHANGED solving_event

(* case 3 *)
ReplaceEnd ==
  /\ Runs("Replace") /\ Front.step = 3
  /\ solving_event' = Below(solving_event)
  /\ Finish(FALSE) /\ EmplaceNothing(sub_solving_event)
  /\ UNCHANGED <<check_level, shuffles, threads, answers>>

-----------------------------------------------------------------------------
(* The host.  It calls OCG_DuelProcess, and after AWAITING first gives an
   answer, acceptable or not, with OCG_DuelSetResponse.  That it does is an
   assumption about the host, as src/README.md:88 tells it: the engine would
   judge the last answer again. *)
OCG_DuelProcess ==
  /\ ~running /\ status # "END"
  /\ status = "AWAITING" => answered
  /\ running' = TRUE
  /\ UNCHANGED <<stacks, events, check_level, shuffles, threads, answers, status>>

OCG_DuelSetResponse ==
  /\ ~running /\ status = "AWAITING"
  /\ returns' \in {"valid", "invalid"}
  /\ answered' = TRUE
  /\ UNCHANGED <<stacks, events, check_level, shuffles, threads, status, running>>

Finished == status = "END" /\ UNCHANGED vars

Process ==
  \/ ProcessEnd \/ ProcessNative
  \/ SelectAtOnce \/ SelectRequest \/ SelectRetry \/ SelectAccept
  \/ ExecuteNothing \/ ExecuteYield \/ ExecuteEnd \/ ExecuteRecursive
  \/ ReplaceRefuse \/ ReplaceTarget \/ ReplaceAnswer \/ ReplaceOperation
  \/ ReplaceEnd

Next == Process \/ OCG_DuelProcess \/ OCG_DuelSetResponse \/ Finished

Spec == Init /\ [][Next]_vars

-----------------------------------------------------------------------------
(* The type invariant. *)
TypeOK ==
  /\ units \in Seq(Unit) /\ subunits \in Seq(Unit)
  /\ solving_event \in Seq(Events) /\ sub_solving_event \in Seq(Events)
  /\ check_level \in Nat /\ call_depth \in Nat
  /\ shuffle_check \in BOOLEAN /\ shuffle_check_disabled \in BOOLEAN
  /\ owed \in BOOLEAN
  /\ coroutines \in [Functions -> Nat]
  /\ assumes \in BOOLEAN
  /\ returns \in {"valid", "invalid"} /\ answered \in BOOLEAN
  /\ status \in {"CONTINUE", "AWAITING", "END"} /\ running \in BOOLEAN

(* The units that own an entry of the event lists: every Execute unit until
   it ends, and a replacement effect once it has pushed its event. *)
HoldsEvent(u) == u.kind = "Execute" \/ (u.kind = "Replace" /\ u.step > 0)
Holders(stack) == {i \in DOMAIN stack : HoldsEvent(stack[i])}
Rank(S, i) == Cardinality({j \in S : j <= i})

InStep(stack, evs) ==
  /\ Len(evs) = Cardinality(Holders(stack))
  /\ \A i \in Holders(stack) : evs[Rank(Holders(stack), i)] = stack[i].event

(* The event lists and the unit stack stay in step: each effect function
   runs, from its first call to its last resumption, with the event it was
   queued for at the front of core.solving_event, whatever its cost, target
   or operation makes the engine run in between. *)
EventsInStep == InStep(Stack, SplicedEvents)

(* The units whose function has been called and has not returned. *)
IsExecuting(u) == u.kind = "Execute" /\ u.step > 0
Executing(stack) == {i \in DOMAIN stack : IsExecuting(stack[i])}

(* core.check_level is the number of effect functions in progress: it comes
   back to 0, where the deferred shuffles are made, exactly when the
   outermost one ends. *)
CheckLevelCounts == check_level = Cardinality(Executing(Stack))

(* A suspended thread belongs to the innermost unit in progress on its
   function, so that no unit resumes, or is ended by, the thread of another
   one, although interpreter::coroutines is keyed by the function alone. *)
ThreadOwner ==
  \A f \in Functions : coroutines[f] # 0 =>
    /\ coroutines[f] \in Executing(Stack)
    /\ Stack[coroutines[f]].fn = f
    /\ \A i \in Executing(Stack) : Stack[i].fn = f => i <= coroutines[f]

(* call_depth counts the suspended threads, also after a recursive call
   gave up the thread of a unit still in progress: the assumed properties
   of cards (Card.AssumeProperty) are dropped when the last thread ends and
   never outlive it. *)
CallDepthCounts ==
  /\ call_depth = Cardinality({f \in Functions : coroutines[f] # 0})
  /\ assumes => call_depth # 0

(* Both counters, which no unit keeps for itself, come back to 0 when the
   last function ends, whatever path each of them took. *)
CountsKept == CheckLevelCounts /\ CallDepthCounts

(* DisableShuffleCheck holds for the effect function that called it only,
   and no pile is left unshuffled: a card moved by an effect function with
   the check enabled has its pile shuffled by the time the outermost
   function has ended, however many functions were nested in between. *)
ShuffleScope ==
  /\ check_level = 0 => ~shuffle_check_disabled /\ ~owed
  /\ owed => shuffle_check

(* A request for an answer is satisfied only by an answer given after it
   was sent: one left over from an earlier request, or the result an effect
   function left in field::returns, never stands for it, as long as the
   host answers before it goes on. *)
FreshAnswer == [][SelectAccept => answered]_vars
=============================================================================
