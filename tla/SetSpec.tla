------------------------------ MODULE SetSpec -------------------------------
(***************************************************************************)
(* What a hash set promises: it finds by its text what was put into it and *)
(* not erased as often. A string may be put several times, and erasing     *)
(* takes that very string out once.                                        *)
(***************************************************************************)
EXTENDS Integers

CONSTANTS String, Text(_), None

VARIABLES members, result   \* members: how often each string is in the set

setVars == <<members, result>>

Nothing == [s \in String |-> 0]

Init == members = Nothing /\ result = None

Contains(s) ==
    /\ result' = [str |-> s, is |-> \E t \in String : Text(t) = Text(s) /\ members[t] > 0]
    /\ UNCHANGED members

Put(s) == members' = [members EXCEPT ![s] = @ + 1] /\ result' = None

Erase(s) ==
    /\ members' = [members EXCEPT ![s] = IF @ > 0 THEN @ - 1 ELSE 0]
    /\ result' = None

\* The set is given up
Release == members' = Nothing /\ result' = None

Next == Release \/ \E s \in String : Contains(s) \/ Put(s) \/ Erase(s)

Spec == Init /\ [][Next]_setVars
=============================================================================
