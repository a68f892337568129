------------------------------ MODULE Selection ------------------------------
(***************************************************************************)
(* The selection manager of the message list                               *)
(* (internal/ui/controllers/selection_manager.go): a map from the indices  *)
(* of the list to whether they are selected, the index a range starts      *)
(* from, and a pointer to the message to show.  Indices count from 1 here. *)
(* The map keeps a deselected index with the value false, and counts it.   *)
(*                                                                         *)
(* Every operator returns the manager as the call of that name leaves it.  *)
(***************************************************************************)
EXTENDS Integers, FiniteSets, FiniteSetsExt

\* A pointer to a list item: into the array behind the list, or to an item of
\* an array that the list has left.  NoPtr is nil.
Slot(i) == [slot |-> i, item |-> <<>>]
NoPtr == Slot(0)
Nil(p) == p = NoPtr

\* marks and off: the keys of selectedMessages that are true, and those that
\* are false; last: lastSelectedIndex; shown: selectedMessage.
NoSelection == [marks |-> {}, off |-> {}, last |-> 0, shown |-> NoPtr]
SelectionCount(sm) == Cardinality(sm.marks) + Cardinality(sm.off)

Only(i) == [marks |-> {i}, off |-> {}, last |-> i, shown |-> Slot(i)]
Toggled(sm, i) ==
  [marks |-> IF i \in sm.marks THEN sm.marks \ {i} ELSE sm.marks \cup {i},
   off |-> IF i \in sm.marks THEN sm.off \cup {i} ELSE sm.off \ {i},
   last |-> i, shown |-> sm.shown]
Extended(sm, i, ctrl) ==
  LET range == Min({sm.last, i})..Max({sm.last, i})
  IN  [marks |-> (IF ctrl THEN sm.marks ELSE {}) \cup range,
       off |-> IF ctrl THEN sm.off \ range ELSE {},
       last |-> sm.last, shown |-> sm.shown]

\* The message to show after a click on i: i if it is selected, else the first
\* that is; the last one shown when the map only has deselected indices.
Showing(sm, i) ==
  CASE i \in sm.marks -> [sm EXCEPT !.shown = Slot(i)]
    [] i \notin sm.marks /\ sm.marks # {} -> [sm EXCEPT !.shown = Slot(Min(sm.marks))]
    [] OTHER -> sm

SelectMessageMultiple(sm, i, ctrl, shift) ==
  Showing(CASE shift /\ sm.last > 0 -> Extended(sm, i, ctrl)
            [] ctrl /\ ~(shift /\ sm.last > 0) -> Toggled(sm, i)
            [] OTHER -> Only(i), i)

SelectAllMessages(sm, n) ==
  IF n = 0 THEN [sm EXCEPT !.marks = {}, !.off = {}]
  ELSE [marks |-> 1..n, off |-> {}, last |-> 1, shown |-> Slot(1)]

\* What GetSelectedMessages points to, in a list of n messages.
GetSelectedMessages(sm, n) == sm.marks \cap 1..n
=============================================================================
