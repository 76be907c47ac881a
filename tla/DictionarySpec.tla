--------------------------- MODULE DictionarySpec ---------------------------
(***************************************************************************)
(* What a hash map promises: at most one entry for a text, found by its    *)
(* text; the entry keeps the string it was first put with, and that very   *)
(* string erases it.                                                       *)
(***************************************************************************)
CONSTANTS String, Text(_), Value, None

VARIABLES entries, result

dictionaryVars == <<entries, result>>

Entry == [str : String, value : Value]
Return(s, r) == result' = [str |-> s, is |-> r]
For(s) == {e \in entries : Text(e.str) = Text(s)}

Init == entries = {} /\ result = None

Get(s) ==
    /\ \/ \E e \in For(s) : Return(s, e)
       \/ For(s) = {} /\ Return(s, None)
    /\ UNCHANGED entries

Put(s, v) ==
    \/ /\ For(s) = {}
       /\ entries' = entries \cup {[str |-> s, value |-> v]}
       /\ Return(s, None)
    \/ \E e \in For(s) :
          /\ entries' = (entries \ {e}) \cup {[e EXCEPT !.value = v]}
          /\ Return(s, e.value)

Erase(s) ==
    \/ /\ \A e \in For(s) : e.str # s
       /\ Return(s, None) /\ UNCHANGED entries
    \/ \E e \in For(s) :
          /\ e.str = s
          /\ entries' = entries \ {e}
          /\ Return(s, e)

\* The map is given up
Release == entries' = {} /\ result' = None

Next ==
    \/ Release
    \/ \E s \in String : Get(s) \/ Erase(s) \/ \E v \in Value : Put(s, v)

Spec == Init /\ [][Next]_dictionaryVars
=============================================================================
