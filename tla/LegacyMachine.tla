---------------------------- MODULE LegacyMachine ----------------------------
(***************************************************************************)
(* A Legacy machine as execute() runs it: the executors of LegacyBus, the  *)
(* timers with their counters, under the walk and the periods of Execute.  *)
(* What is left open is the program: the core may execute any instruction. *)
(***************************************************************************)
EXTENDS LegacyBus, Sequences

CONSTANTS
    RamFirst,     \* TRUE: the RAM comes before the core in the board's devices
    Period,       \* of "system", "board", "cpu", "ram" and each timer
    CounterMod,   \* 2^32, the modulus of the system counter
    Limit,        \* limit of each timer
    TimerMod      \* 2^32, the modulus of a timer's counter

VARIABLES
    timer,                \* counter and running bit of each timer
    counter, now, stack   \* the walk, as in Execute

machineVars == <<core, board, ram, mem, timer, counter, now, stack>>

TimerName == [t \in 0..3 |-> <<"timer0", "timer1", "timer2", "timer3">>[t + 1]]
TimerDevice(t) == IF t \in Timer THEN <<TimerName[t]>> ELSE <<>>
Device == {"system", "board", "cpu", "ram"} \cup {TimerName[t] : t \in Timer}

ASSUME MachineAssumption ==
    /\ RamFirst \in BOOLEAN
    /\ Period \in [Device -> Nat \ {0}]
    /\ CounterMod \in Nat \ {0}
    /\ TimerMod \in Nat \ {0}
    /\ Limit \in [Timer -> 0..(TimerMod - 1)]

Children ==
    [d \in Device |->
        CASE d = "system" -> <<"board">>
          [] d = "board" -> IF RamFirst THEN <<"ram", "cpu">> ELSE <<"cpu", "ram">>
          [] d = "cpu" -> TimerDevice(0) \o TimerDevice(1) \o TimerDevice(2) \o TimerDevice(3)
          [] OTHER -> <<>>]

\* Nothing writes the running bits of the board and of the RAM
Running ==
    {"system", "board", "ram"}
    \cup {d \in {"cpu"} : Test(core, {"RUNNING"})}
    \cup {TimerName[t] : t \in {u \in Timer : timer[u].running}}

Walk == INSTANCE Execute WITH Root <- "system", running <- Running

-----------------------------------------------------------------------------
MachineInit ==
    /\ Init
    /\ timer = [t \in Timer |-> [counter |-> 0, running |-> TRUE]]
    /\ counter = 0 /\ now = 0 /\ stack = <<>>

\* kyanite_legacy_timer_executor: once the counter has reached the limit the
\* timer acts on every call until the counter is cleared or the timer stopped.
TimerCall(t) ==
    LET mode  == TimerMode[t]
        count == IF "AUTO" \in mode THEN (timer[t].counter + 1) % TimerMod
                                    ELSE timer[t].counter
    IN  \/ /\ count < Limit[t]
           /\ timer' = [timer EXCEPT ![t].counter = count]
           /\ UNCHANGED vars
        \/ /\ count >= Limit[t]
           /\ timer' = [timer EXCEPT ![t] =
                            [counter |-> IF "CLEAR" \in mode THEN 0 ELSE count,
                             running |-> "STOP" \notin mode]]
           /\ TimerExecutor(t)

\* The executors return without a write from these states
BoardStays ==
    ~Test(board, IO_ACTIVE) \/ (Test(board, IO_INPUT) /\ ~RamPresent /\ Test(board, IO_OUTPUT))
RamStays ==
    \/ ~Test(ram, IO_ACTIVE)
    \/ /\ Test(board, IO_OUTPUT)
       /\ ram.bus_address >= RamSize \/ ~Test(ram, {"IO_WRITE"})
CpuStays ==
    \/ Test(core, SLEEP_ACTIVE) /\ ~Test(core, {"SLEEP_DELAY"})
    \/ Awake /\ Test(core, {"DTR_MEM"}) /\ Test(board, IO_INPUT)

\* Mutant: TINC stops the timer
CpuTinc_Stops ==
    /\ Awake /\ ~Test(core, DTR_ACTIVE)
    /\ \E t \in Timer : timer' = [timer EXCEPT ![t].running = FALSE]
    /\ UNCHANGED vars

\* TINC reaches into a timer; every other call of the core's executor is the
\* bus's.
CpuTinc ==
    /\ Awake /\ ~Test(core, DTR_ACTIVE)
    /\ \E t \in Timer :
          timer' = [timer EXCEPT ![t].counter =
                        IF "WATCHDOG" \in TimerMode[t] THEN 0 ELSE (@ + 1) % TimerMod]
    /\ UNCHANGED vars

Executor(d) ==
    \/ d = "system" /\ UNCHANGED <<vars, timer>>
    \/ d = "board" /\ BoardExecutor /\ UNCHANGED timer
    \/ d = "board" /\ BoardStays /\ UNCHANGED <<vars, timer>>
    \/ d = "ram" /\ RamExecutor /\ UNCHANGED timer
    \/ d = "ram" /\ RamStays /\ UNCHANGED <<vars, timer>>
    \/ d = "cpu" /\ CpuExecutor /\ UNCHANGED timer
    \/ d = "cpu" /\ CpuStays /\ UNCHANGED <<vars, timer>>
    \/ d = "cpu" /\ CpuTinc
    \/ \E t \in Timer : d = TimerName[t] /\ TimerCall(t)

\* The walk goes on between two executors
Step ==
    /\ UNCHANGED <<vars, timer>>
    /\ \/ Walk!Call
       \/ Walk!Descend
       \/ \E d \in Device : ~Walk!Due(d) /\ Walk!Return(d, Running)

Execute ==
    \E d \in Device :
        /\ Walk!InWalk /\ Walk!ChildrenDone /\ d = Walk!Top.dev /\ Walk!Due(d)
        /\ Executor(d)
        /\ Walk!Return(d, Running')

MachineNext == Step \/ Execute

MachineSpec == MachineInit /\ [][MachineNext]_machineVars
\* The host keeps calling execute()
MachineFairSpec == MachineSpec /\ WF_machineVars(MachineNext)

-----------------------------------------------------------------------------
(* Properties *)

\* What LegacyBus assumes of the schedule is what execute() provides: each of its
\* devices that keeps having something to do is called in a state in which it can do
\* it, although the walk takes other devices between, passes over a device whose
\* period has not come or whose owner has stopped, and the counter wraps.
BusStaysFair == Fairness

\* The walk is the walk of Execute although the executors rewrite the running
\* bits under it.
ImplementsExecute == Walk!Spec

Overlay(words, dev) ==
    IF Writing(dev) THEN [words EXCEPT ![dev.bus_address] = dev.bus_in] ELSE words

\* The memory as the program sees it: the write in the RAM, then the one in the
\* board, laid over the cells.
Memory == INSTANCE AtomicMemory WITH
    Cell   <- 0..(RamSize - 1),
    NoRead <- -1,
    cells  <- Overlay(Overlay(mem, ram), board),
    reg    <- core.bus_data,
    read   <- IF Test(core, {"DTR_MEM"}) /\ core.bus_op = "IO_READ"
                THEN core.bus_address ELSE -1

\* The board is called whenever the core is, and the RAM at least at every second
\* call of the core: what freq_mod and freq_div must satisfy for posted writes,
\* which nobody answers, to be safe.
KeepsUp ==
    /\ Period["cpu"] % Period["board"] = 0
    /\ Period["ram"] <= 2 * Period["cpu"]

\* Three devices, posted writes and retried reads behave as one memory where the RAM
\* keeps up with the core (KeepsUp): no write is lost or overtaken by a read, no read
\* gets another's word.
ImplementsMemory == Memory!Spec

\* And every read that the core starts comes back, unless the core is stopped.
ReadsReturn == Memory!ReadsReturn \/ <>[]~Test(core, {"RUNNING"})

\* kyanite_legacy.c:376 "IO busy, reject request": what is rejected is a read,
\* which its issuer repeats; a posted write has no issuer left.
OnlyReadsRejected == [][BoardReject => ~Writing(board)]_machineVars

\* main.h:98 "Waiting for memory operation result": the answer that ends the sleep
\* on a memory operation is the result of that operation.
OwnAnswer ==
    [][BoardTransfer /\ Test(board, {"IO_RESPONSE"}) /\ Test(core, {"SLEEP_MEM"})
          => board.bus_out = mem[core.bus_address]]_machineVars
=============================================================================
