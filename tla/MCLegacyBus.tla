----------------------------- MODULE MCLegacyBus -----------------------------
(* A small instance of LegacyBus for TLC. *)
EXTENDS LegacyBus

CONSTANT v1

OneValue == {v1}
TwoCells == 0..1
AnyStatus == SUBSET CONTROL
\* Tasks without a fault
Tasks == {{"RUNNING"}, {"RUNNING", "INTF"}}
AnyImage == [0..(RamSize - 1) -> Value]
NoTimer == [t \in {} |-> {}]
OneTimerMode == [t \in {0} |-> {"WAKEUP", "INTP"}]
=============================================================================
