---------------------------- MODULE AtomicMemory ----------------------------
(***************************************************************************)
(* What the memory path promises the core: a write takes effect when the   *)
(* core hands it over and stays, a read returns the last word written.     *)
(***************************************************************************)
CONSTANTS
    Cell, Value,
    NoRead         \* not a cell

VARIABLES
    cells,   \* the contents as the program sees them
    reg,     \* the data register of the core's bus
    read     \* the cell of the read under way, or NoRead

memoryVars == <<cells, reg, read>>

Init ==
    /\ cells \in [Cell -> Value]
    /\ reg \in Value
    /\ read = NoRead

\* The core puts a word it will write into the register
Load(v) ==
    /\ read = NoRead
    /\ reg' = v
    /\ UNCHANGED <<cells, read>>

Write(a) ==
    /\ read = NoRead
    /\ cells' = [cells EXCEPT ![a] = reg]
    /\ UNCHANGED <<reg, read>>

Read(a) ==
    /\ read = NoRead
    /\ read' = a
    /\ UNCHANGED <<cells, reg>>

Return ==
    /\ read # NoRead
    /\ reg' = cells[read]
    /\ read' = NoRead
    /\ UNCHANGED cells

Next ==
    \/ \E v \in Value : Load(v)
    \/ \E a \in Cell : Write(a) \/ Read(a)
    \/ Return

Spec == Init /\ [][Next]_memoryVars

\* A read that has been asked for returns
ReadsReturn == WF_memoryVars(Return)
=============================================================================
