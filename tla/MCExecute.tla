------------------------------ MODULE MCExecute ------------------------------
(* A system with one board of a core, its timer and a RAM bank. *)
EXTENDS ExecuteHistory

Machine == {"system", "board", "cpu", "timer", "ram"}
MachineChildren ==
    [d \in Machine |-> CASE d = "system" -> <<"board">>
                         [] d = "board" -> <<"cpu", "ram">>
                         [] d = "cpu" -> <<"timer">>
                         [] OTHER -> <<>>]
MachinePeriod ==
    [d \in Machine |-> CASE d = "ram" -> 3 [] d = "timer" -> 2 [] OTHER -> 1]
=============================================================================
