--------------------------- MODULE MCLegacyMachine ---------------------------
(* Small Legacy machines for TLC: one core, one or two timers, one RAM bank. *)
EXTENDS LegacyMachine

CONSTANTS v1, v2, RamPeriod, CpuPeriod, BoardPeriod, TimerPeriod

OneValue == {v1}
Values == {v1, v2}
TwoCells == 0..1
\* A task, and a slot that holds none
Tasks == {{"RUNNING", "INTF"}, {}}
AnyStatus == SUBSET CONTROL
AnyImage == [0..(RamSize - 1) -> Value]

Periods ==
    [d \in Device |->
        CASE d = "ram" -> RamPeriod
          [] d = "cpu" -> CpuPeriod
          [] d = "board" -> BoardPeriod
          [] d = "system" -> 1
          [] OTHER -> TimerPeriod]
Limits == [t \in Timer |-> 2]

NoTimer == [t \in {} |-> {}]
OneShotTimer == [t \in {0} |-> {"AUTO", "STOP", "INTP"}]
\* Stops the core, and then itself, unless TINC keeps clearing it
Watchdog == [t \in {0} |-> {"AUTO", "STOP", "WATCHDOG"}]
=============================================================================
