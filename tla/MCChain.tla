------------------------------ MODULE MCChain ------------------------------
(* Chain for TLC: the behaviours with at most max_links triggers and
   activations. *)
EXTENDS Chain

Call(t, f, n) == [skip_trigger |-> t, skip_freechain |-> f, skip_new |-> n]

(* The arguments PointEvent is called with: by every unit of processor.cpp
   and operations.cpp; in the window of a summon that can be negated; after
   the draw; and in the steps of the damage step that take a single chain. *)
AllCalls == {Call(FALSE, FALSE, FALSE), Call(TRUE, TRUE, TRUE),
             Call(FALSE, TRUE, FALSE), Call(FALSE, FALSE, TRUE)}
MainCall == {Call(FALSE, FALSE, FALSE)}

(* The duel options of today's rules, and those of the old ones. *)
ModernRules ==
  [first_trigger |-> FALSE, non_public |-> FALSE, inverted_quick |-> FALSE,
   ignition_priority |-> FALSE]
OldRules ==
  [first_trigger |-> TRUE, non_public |-> TRUE, inverted_quick |-> TRUE,
   ignition_priority |-> FALSE]
FirstRules == [ModernRules EXCEPT !.ignition_priority = TRUE]
Both == {ModernRules, OldRules}
AllKinds == {"forced", "optional", "hidden", "quick"}

(* Two of everything, with all that can go wrong; three, to see the order
   of triggers of one event with an answer between them; and the duels in
   which nothing keeps a chain from being resolved. *)
Everything ==
  [options |-> Both, control_changes |-> TRUE, may_abandon |-> TRUE, activates |-> FALSE,
   trigger_kinds |-> AllKinds, calls |-> AllCalls, max_links |-> 2]
Triggers ==
  [options |-> Both, control_changes |-> FALSE, may_abandon |-> FALSE, activates |-> FALSE,
   trigger_kinds |-> {"forced", "optional"}, calls |-> MainCall,
   max_links |-> 3]
Ordinary ==
  [options |-> {ModernRules}, control_changes |-> FALSE, may_abandon |-> FALSE, activates |-> FALSE,
   trigger_kinds |-> AllKinds, calls |-> MainCall, max_links |-> 2]

Ignition ==
  [Ordinary EXCEPT !.options = {FirstRules}, !.activates = TRUE,
                   !.trigger_kinds = {"optional", "quick"}]

AllDuels == {Everything, Triggers, Ordinary, Ignition}
ControlDuels ==
  {[Ordinary EXCEPT !.control_changes = TRUE, !.trigger_kinds = {"forced"},
                       !.calls = MainCall]}
StaleDuels ==
  {[Ordinary EXCEPT !.may_abandon = TRUE, !.trigger_kinds = {"forced"},
                       !.calls = MainCall]}
=============================================================================
