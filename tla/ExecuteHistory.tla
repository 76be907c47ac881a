--------------------------- MODULE ExecuteHistory ---------------------------
(* Execute with two history variables, for properties of whole walks. *)
EXTENDS Execute

\* The devices form a tree: each is in one place of one parent's array, and the
\* system is in none.
ASSUME TreeAssumption ==
    \A p \in Device : \A i \in DOMAIN Children[p] :
        /\ Children[p][i] # Root
        /\ \A q \in Device : \A j \in DOMAIN Children[q] :
              Children[p][i] = Children[q][j] => p = q /\ i = j

VARIABLES
    ran,   \* the devices whose executor this walk has called, and whose loop is over
    idle   \* calls in a row, counted up to its period, that entered the device
           \* without executing it

historyVars == <<running, counter, now, stack, ran, idle>>

\* A walk in which a device is not entered breaks its row
HistoryInit == Init /\ ran = {} /\ idle = [d \in Device |-> 0]

HistoryCall ==
    /\ Call
    /\ ran' = {}
    /\ idle' = [d \in Device |-> IF d \in ran THEN idle[d] ELSE 0]

HistoryReturn(d, after) ==
    /\ Return(d, after)
    /\ ran' = ran \cup {d}
    /\ idle' = [idle EXCEPT ![d] =
                    IF Due(d) THEN 0 ELSE IF @ < Period[d] THEN @ + 1 ELSE @]

HistoryNext ==
    \/ HistoryCall
    \/ Descend /\ UNCHANGED <<ran, idle>>
    \/ \E d \in Device : \E after \in Effect(d) : HistoryReturn(d, after)

HistorySpec == HistoryInit /\ [][HistoryNext]_historyVars

\* A device entered in Period calls in a row has been executed in one of them,
\* also when the counter wraps in between: a period is never stretched.
NeverLate == \A d \in Device : idle[d] < Period[d]

\* When a device's executor is called, this walk has not called it before, nor
\* that of a device above it: a parent works on what its children left behind.
PostOrder ==
    [][\A d \in Device : Executes(d) => Owners[d] \cap ran = {}]_historyVars

HistoryFairSpec == HistorySpec /\ WF_historyVars(HistoryNext)
=============================================================================
