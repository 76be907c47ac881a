---------------------------- MODULE SequenceSpec ----------------------------
(***************************************************************************)
(* What a linked list promises: a sequence that is read and written at     *)
(* both ends.                                                              *)
(***************************************************************************)
EXTENDS Integers, Sequences

CONSTANTS Value, None   \* None: there was nothing to take

VARIABLES items, result

sequenceVars == <<items, result>>

Init == items = <<>> /\ result = None

Append_(v) == items' = Append(items, v) /\ result' = None
Prepend(v) == items' = <<v>> \o items /\ result' = None

Pop ==
    \/ items = <<>> /\ result' = None /\ UNCHANGED items
    \/ /\ items # <<>>
       /\ result' = items[Len(items)]
       /\ items' = SubSeq(items, 1, Len(items) - 1)

Shift ==
    \/ items = <<>> /\ result' = None /\ UNCHANGED items
    \/ /\ items # <<>>
       /\ result' = Head(items)
       /\ items' = Tail(items)

\* The list is given up, or becomes an array
Release == items' = <<>> /\ result' = None

Next == (\E v \in Value : Append_(v) \/ Prepend(v)) \/ Pop \/ Shift \/ Release

Spec == Init /\ [][Next]_sequenceVars
=============================================================================
