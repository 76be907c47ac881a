------------------------- MODULE LegacyMachineProofs -------------------------
(* The scheduled machine is an instance of LegacyBus, for every tree, period,  *)
(* timer and memory; so it inherits what is proved of every order of calls.    *)
(* And where the RAM keeps up with the core its three devices are one memory.  *)
EXTENDS LegacyMachine, LegacyBusProofs

\* What is proved of Execute, of the walk of this machine
P == INSTANCE ExecuteProofs WITH Root <- "system", running <- Running

(* The executors act on the bus as LegacyBus says, the walk between them not   *)
(* at all.                                                                     *)
LEMMA MachineStep == [MachineNext]_machineVars => [Next]_vars
<1> SUFFICES ASSUME [MachineNext]_machineVars
             PROVE  [Next]_vars
  OBVIOUS
<1>1. CASE Step
  BY <1>1 DEF Step
<1>2. ASSUME NEW d \in Device, Executor(d)
      PROVE  [Next]_vars
  <2>1. ASSUME NEW t \in Timer, TimerCall(t)
        PROVE  [Next]_vars
    BY <2>1 DEF TimerCall, Next
  <2> QED
    BY <1>2, <2>1 DEF Executor, CpuTinc, Next
<1>3. CASE UNCHANGED machineVars
  BY <1>3 DEF machineVars, vars
<1> QED
  BY <1>1, <1>2, <1>3 DEF MachineNext, Execute

\* The executors are those of LegacyBus, so that what is proved there holds here.
LEMMA MachineRunsBus == MachineSpec => Spec
<1>1. MachineInit => Init
  BY DEF MachineInit
<1> QED
  BY <1>1, MachineStep, PTL DEF MachineSpec, Spec

\* So a core asleep on the memory always has its wakeup on the way, under every
\* schedule that the walk produces.
THEOREM MachineNeverLosesWakeup == MachineSpec => []NoLostWakeup
BY MachineRunsBus, NeverLosesWakeup

-----------------------------------------------------------------------------
(* The walk of the machine is the walk of Execute: the executors change the    *)
(* running bits only as Execute lets them.                                     *)

\* The tree of the machine is one that Execute is about
LEMMA MachineTree == P!ExecuteAssumption
<1>1. \A t \in Timer : t \in 0..3 /\ TimerName[t] \in Device
  BY BusAssumption DEF Device
<1>2. \A t \in 0..3 : TimerDevice(t) \in Seq(Device)
  BY <1>1 DEF TimerDevice
<1>3. TimerDevice(0) \o TimerDevice(1) \o TimerDevice(2) \o TimerDevice(3) \in Seq(Device)
  BY <1>2
<1>4. "board" \in Device /\ "cpu" \in Device /\ "ram" \in Device /\ "system" \in Device
  BY DEF Device
<1>5. ASSUME NEW d \in Device
      PROVE  Children[d] \in Seq(Device)
  <2>1. CASE d = "system"
    BY <1>4, <2>1 DEF Children
  <2>2. CASE d = "board"
    BY <1>4, <2>2 DEF Children
  <2>3. CASE d = "cpu"
    BY <1>3, <1>4, <2>3 DEF Children
  <2>4. CASE d \notin {"system", "board", "cpu"}
    BY <1>5, <2>4 DEF Children
  <2> QED
    BY <2>1, <2>2, <2>3, <2>4
<1>6. Children \in [Device -> Seq(Device)]
  BY <1>5 DEF Children
<1> QED
  BY <1>4, <1>6, MachineAssumption DEF P!ExecuteAssumption

(* A timer that has stopped is one whose mode stops it: its executor never     *)
(* starts it again, so it changes its own bit only downwards.                  *)
TimerInv ==
    /\ timer \in [Timer -> [counter : 0..(TimerMod - 1), running : BOOLEAN]]
    /\ \A t \in Timer : timer[t].running \/ "STOP" \in TimerMode[t]

LEMMA TimerNames ==
    ASSUME NEW t \in Timer
    PROVE  /\ TimerName[t] \in Device
           /\ TimerName[t] \notin {"system", "board", "cpu", "ram"}
           /\ \A u \in Timer : TimerName[u] = TimerName[t] => u = t
<1>1. Timer \subseteq 0..3
  BY BusAssumption
<1>2. \A u \in 0..3 : u = 0 \/ u = 1 \/ u = 2 \/ u = 3
  OBVIOUS
<1>3. /\ TimerName[0] = "timer0" /\ TimerName[1] = "timer1"
      /\ TimerName[2] = "timer2" /\ TimerName[3] = "timer3"
  BY DEF TimerName
<1> QED
  BY <1>1, <1>2, <1>3 DEF Device

\* All run at the start
LEMMA MachineWalkInit == MachineInit => P!Init
<1> SUFFICES ASSUME MachineInit
             PROVE  Running = Device
  BY DEF MachineInit, P!Init
<1>1. Test(core, {"RUNNING"})
  BY DEF MachineInit, Init, Test
<1>2. \A t \in Timer : timer[t].running
  BY DEF MachineInit
<1> QED
  BY <1>1, <1>2 DEF Running, Device

\* The core's executor changes at most its own bit
LEMMA CoreRunning ==
    ASSUME UNCHANGED timer
    PROVE  Running' \in {Running, Running \ {"cpu"}, Running \cup {"cpu"}}
<1>1. \A t \in Timer : TimerName[t] # "cpu"
  BY TimerNames
<1>2. Running' \ {"cpu"} = Running \ {"cpu"}
  BY <1>1 DEF Running
<1>3. CASE "cpu" \in Running'
  BY <1>2, <1>3
<1>4. CASE "cpu" \notin Running'
  BY <1>2, <1>4
<1> QED
  BY <1>3, <1>4

\* Whether the core runs is not the board's business, nor the RAM's
LEMMA BusRunning ==
    ASSUME TypeOK, BoardExecutor \/ RamExecutor, UNCHANGED timer
    PROVE  Running' = Running
<1>1. core.status \subseteq CONTROL \cup SLEEP_ACTIVE \cup DTR_ACTIVE /\ core \in CoreType
  BY DEF TypeOK, CoreType
<1>2. \A c \in CoreType : \A id :
         Test(dtr_intp(c, id), {"RUNNING"}) <=> Test(c, {"RUNNING"})
  BY DEF dtr_intp, Set, Unset, Test, DTR_ACTIVE, SLEEP_ACTIVE, CoreType
<1>3. \A bits \in {{"SLEEP_MEM"}, {"SLEEP_DELAY", "SLEEP_MEM"}, {"DTR_MEM"}} :
         \A c \in CoreType :
            /\ Unset(c, bits) \in CoreType
            /\ Test(Unset(c, bits), {"RUNNING"}) <=> Test(c, {"RUNNING"})
  BY DEF Unset, Test, CoreType
<1>4. \A c \in CoreType : \A v :
         Test([c EXCEPT !.bus_data = v], {"RUNNING"}) <=> Test(c, {"RUNNING"})
  BY DEF Test, CoreType
<1>5. Test(Answered, {"RUNNING"}) <=> Test(core, {"RUNNING"})
  <2> HIDE DEF Test, Unset, CoreType
  <2> QED
    BY <1>1, <1>2, <1>3, <1>4 DEF Answered
<1>6. Test(core', {"RUNNING"}) <=> Test(core, {"RUNNING"})
  <2>1. core' \in {core, Unset(core, {"SLEEP_MEM"}), Answered}
    BY DEF BoardExecutor, BoardAbsent, BoardReject, BoardTransfer,
           RamExecutor, RamWrite, RamRead, RamOutOfRange
  <2> QED
    BY <1>1, <1>3, <1>5, <2>1
<1> QED
  BY <1>6 DEF Running

LEMMA TimerInitially == MachineInit => TimerInv
BY MachineAssumption DEF MachineInit, TimerInv

\* A timer leaves the timers alone but for itself, which it may stop
LEMMA TimerSelf ==
    ASSUME TimerInv, NEW t \in Timer, TimerCall(t)
    PROVE  /\ TimerInv'
           /\ \A u \in Timer : u # t => timer'[u].running = timer[u].running
           /\ timer'[t].running => timer[t].running
<1> DEFINE mode == TimerMode[t]
           count == IF "AUTO" \in mode THEN (timer[t].counter + 1) % TimerMod
                                       ELSE timer[t].counter
           cleared == IF "CLEAR" \in mode THEN 0 ELSE count
<1>1. timer[t].counter \in 0..(TimerMod - 1) /\ timer[t].running \in BOOLEAN
  BY DEF TimerInv
<1>2. count \in 0..(TimerMod - 1) /\ cleared \in 0..(TimerMod - 1)
  <2>1. (timer[t].counter + 1) % TimerMod \in 0..(TimerMod - 1)
    BY <1>1, MachineAssumption
  <2>2. 0 \in 0..(TimerMod - 1)
    BY MachineAssumption
  <2> QED
    BY <1>1, <2>1, <2>2
<1>3. \/ timer' = [timer EXCEPT ![t].counter = count]
      \/ timer' = [timer EXCEPT ![t] =
                      [counter |-> cleared, running |-> "STOP" \notin mode]]
  BY DEF TimerCall
<1> HIDE DEF count, cleared
<1>4. CASE timer' = [timer EXCEPT ![t].counter = count]
  BY <1>2, <1>4 DEF TimerInv
<1>5. CASE timer' = [timer EXCEPT ![t] =
                        [counter |-> cleared, running |-> "STOP" \notin mode]]
  <2> DEFINE r == "STOP" \notin mode
  <2>1. r \in BOOLEAN /\ (r => timer[t].running) /\ (r \/ "STOP" \in TimerMode[t])
    BY DEF TimerInv
  <2>2. timer' = [timer EXCEPT ![t] = [counter |-> cleared, running |-> r]]
    BY <1>5
  <2> HIDE DEF r
  <2> QED
    BY <1>2, <2>1, <2>2 DEF TimerInv
<1> QED
  BY <1>3, <1>4, <1>5

\* A timer stops itself, the core, both or neither
LEMMA TimerRunning ==
    ASSUME TypeOK, TimerInv, NEW t \in Timer, TimerCall(t)
    PROVE  Running' \in {Running, Running \ {TimerName[t]}, Running \ {"cpu"},
                         Running \ ({"cpu"} \cup {TimerName[t]})}
<1>1. core \in CoreType
  BY DEF TypeOK, CoreType
<1>2. Test(core', {"RUNNING"}) => Test(core, {"RUNNING"})
  <2>1. \A c \in CoreType : \A id :
           Test(dtr_intp(c, id), {"RUNNING"}) <=> Test(c, {"RUNNING"})
    BY DEF dtr_intp, Set, Unset, Test, DTR_ACTIVE, SLEEP_ACTIVE, CoreType
  <2>2. \A bits \in {{"SLEEP_TIMER"}, {"RUNNING"}} :
           \A c \in CoreType :
              /\ Unset(c, bits) \in CoreType
              /\ Test(Unset(c, bits), {"RUNNING"}) => Test(c, {"RUNNING"})
    BY DEF Unset, Test, CoreType
  <2>3. core' = core \/ core' = TimerEffect(core, t)
    BY DEF TimerCall, TimerExecutor, vars
  <2> HIDE DEF Test, Unset, CoreType
  <2> QED
    BY <1>1, <2>1, <2>2, <2>3 DEF TimerEffect
<1>3. \A u \in Timer : TimerName[u] \notin {"system", "board", "cpu", "ram"}
  BY TimerNames
<1>4. \A u \in Timer : TimerName[u] = TimerName[t] => u = t
  BY TimerNames
<1>5. Running' \subseteq Running
  BY <1>2, TimerSelf DEF Running
<1>6. Running \subseteq Running' \cup ({"cpu"} \cup {TimerName[t]})
  BY TimerSelf, <1>3, <1>4 DEF Running
<1> QED
  BY <1>5, <1>6

\* Timers hang under the core
LEMMA TimerChild ==
    ASSUME NEW t \in Timer, NEW d \in Device, NEW i \in 1..Len(Children[d]),
           Children[d][i] = TimerName[t]
    PROVE  d = "cpu"
<1>1. TimerName[t] \notin {"board", "cpu", "ram"}
  BY TimerNames
<1>2. CASE d = "system"
  BY <1>1, <1>2 DEF Children
<1>3. CASE d = "board"
  BY <1>1, <1>3 DEF Children
<1>4. CASE d \notin {"system", "board", "cpu"}
  BY <1>4 DEF Children
<1> QED
  BY <1>2, <1>3, <1>4

\* So the walk has come to a timer from the core, and to nothing else does a
\* timer write
LEMMA TimerOwner ==
    ASSUME P!WalkInv, P!InWalk, NEW t \in Timer, P!Top.dev = TimerName[t]
    PROVE  P!Owner = {"cpu"}
<1> DEFINE n == Len(stack)
<1>1. /\ n \in Nat \ {0} /\ P!Top = stack[n]
      /\ P!Callers \in Seq(P!FrameType) /\ Len(P!Callers) = n - 1
      /\ \A k \in 1..Len(P!Callers) : P!Callers[k] = stack[k]
  BY MachineTree, P!TopType DEF P!WalkInv, P!Top
<1>2. n > 1
  <2>1. stack[1].dev = "system"
    BY <1>1 DEF P!WalkInv, P!WalkIsPath
  <2>2. TimerName[t] # "system"
    BY TimerNames
  <2> QED
    BY <1>1, <2>1, <2>2
<1> DEFINE caller == stack[n - 1]
<1>3. caller \in P!FrameType /\ caller = P!Callers[Len(P!Callers)]
  <2>1. n - 1 \in 1..Len(P!Callers)
    BY <1>1, <1>2
  <2>2. P!Callers[n - 1] \in P!FrameType
    BY <1>1, <2>1
  <2> QED
    BY <1>1, <2>1, <2>2
<1>4. /\ caller.done > 0 /\ caller.done <= Len(Children[caller.dev])
      /\ TimerName[t] = Children[caller.dev][caller.done]
  BY <1>1, <1>2 DEF P!WalkInv, P!WalkIsPath
<1>5. caller.dev \in Device /\ caller.done \in 1..Len(Children[caller.dev])
  BY <1>3, <1>4, MachineTree DEF P!ExecuteAssumption, P!FrameType
<1>6. caller.dev = "cpu"
  BY <1>4, <1>5, TimerChild
<1>7. P!Callers # <<>>
  BY <1>1, <1>2
<1> QED
  BY <1>3, <1>6, <1>7 DEF P!Owner

\* Each executor does to the running bits what Execute lets it do
LEMMA ExecutorEffect ==
    ASSUME TypeOK, TimerInv, P!WalkInv, P!InWalk,
           NEW d \in Device, d = P!Top.dev, Executor(d)
    PROVE  TimerInv' /\ Running' \in P!Effect(d)
<1>1. CASE UNCHANGED <<vars, timer>>
  <2>1. Running' = Running
    BY <1>1 DEF vars, Running
  <2> QED
    BY <1>1, <2>1 DEF TimerInv, P!Effect
<1>2. CASE (BoardExecutor \/ RamExecutor) /\ UNCHANGED timer
  BY <1>2, BusRunning DEF TimerInv, P!Effect
<1>3. CASE d = "cpu" /\ CpuExecutor /\ UNCHANGED timer
  BY <1>3, CoreRunning DEF TimerInv, P!Effect
<1>4. CASE d = "cpu" /\ CpuTinc
  <2>1. PICK t \in Timer :
           timer' = [timer EXCEPT ![t].counter =
                        IF "WATCHDOG" \in TimerMode[t] THEN 0 ELSE (@ + 1) % TimerMod]
    BY <1>4 DEF CpuTinc
  <2>2. /\ 0 \in 0..(TimerMod - 1)
        /\ (timer[t].counter + 1) % TimerMod \in 0..(TimerMod - 1)
    BY MachineAssumption DEF TimerInv
  <2>3. TimerInv' /\ \A u \in Timer : timer'[u].running = timer[u].running
    BY <2>1, <2>2 DEF TimerInv
  <2>4. Running' = Running
    BY <1>4, <2>3 DEF CpuTinc, vars, Running
  <2> QED
    BY <2>3, <2>4 DEF P!Effect
<1>5. ASSUME NEW t \in Timer, d = TimerName[t], TimerCall(t)
      PROVE  TimerInv' /\ Running' \in P!Effect(d)
  <2>1. P!Owner = {"cpu"}
    BY <1>5, TimerOwner
  <2> QED
    BY <1>5, <2>1, TimerSelf, TimerRunning DEF P!Effect
<1> QED
  BY <1>1, <1>2, <1>3, <1>4, <1>5 DEF Executor

\* A step of the machine is a step of the walk of Execute, or none
LEMMA MachineWalkStep ==
    ASSUME TypeOK, TimerInv, P!WalkInv, [MachineNext]_machineVars
    PROVE  /\ TimerInv'
           /\ [P!Next]_P!executeVars
           /\ [Walk!Next]_Walk!executeVars
<1>1. CASE Step
  <2>1. Running' = Running /\ TimerInv'
    BY <1>1 DEF Step, vars, Running, TimerInv
  <2>2. \A d : Running \in P!Effect(d) /\ Running \in Walk!Effect(d)
    BY DEF P!Effect, Walk!Effect
  <2>3. CASE Walk!Call
    BY <2>1, <2>3 DEF P!Next, P!Call, P!InWalk, P!Entered, P!Frame,
                      Walk!Next, Walk!Call, Walk!InWalk, Walk!Entered, Walk!Frame
  <2>4. CASE Walk!Descend
    BY <2>1, <2>4
       DEF P!Next, P!Descend, P!InWalk, P!ChildrenDone, P!Top, P!Callers, P!Entered,
           P!Frame, Walk!Next, Walk!Descend, Walk!InWalk, Walk!ChildrenDone, Walk!Top,
           Walk!Callers, Walk!Entered, Walk!Frame
  <2>5. ASSUME NEW d \in Device, Walk!Return(d, Running)
        PROVE  P!Next /\ Walk!Next
    <3>1. P!Return(d, Running)
      BY <2>5 DEF P!Return, P!InWalk, P!ChildrenDone, P!Top, P!Callers, P!Due,
                  Walk!Return, Walk!InWalk, Walk!ChildrenDone, Walk!Top, Walk!Callers,
                  Walk!Due
    <3> QED
      BY <2>2, <2>5, <3>1 DEF P!Next, Walk!Next
  <2> QED
    BY <1>1, <2>1, <2>3, <2>4, <2>5 DEF Step
<1>2. ASSUME NEW d \in Device, Walk!InWalk, d = Walk!Top.dev, Executor(d),
             Walk!Return(d, Running')
      PROVE  TimerInv' /\ P!Next /\ Walk!Next
  <2>1. P!InWalk /\ d = P!Top.dev
    BY <1>2 DEF P!InWalk, P!Top, Walk!InWalk, Walk!Top
  <2>2. TimerInv' /\ Running' \in P!Effect(d)
    BY <1>2, <2>1, ExecutorEffect
  <2>3. P!Return(d, Running')
    BY <1>2 DEF P!Return, P!InWalk, P!ChildrenDone, P!Top, P!Callers, P!Due,
                Walk!Return, Walk!InWalk, Walk!ChildrenDone, Walk!Top, Walk!Callers,
                Walk!Due
  <2>4. Running' \in Walk!Effect(d)
    BY <2>2 DEF P!Effect, P!Owner, P!Callers, Walk!Effect, Walk!Owner, Walk!Callers
  <2> QED
    BY <1>2, <2>2, <2>3, <2>4 DEF P!Next, Walk!Next
<1>3. CASE UNCHANGED machineVars
  BY <1>3 DEF machineVars, Running, TimerInv, P!executeVars, Walk!executeVars
<1> QED
  BY <1>1, <1>2, <1>3 DEF MachineNext, Execute

-----------------------------------------------------------------------------
\* The executors rewrite the bits that the walk tests, while it is under way: every
\* run of the machine is still a run of Execute, so that what is proved of the
\* walk under any executors holds under these.
THEOREM MachineImplementsExecute == MachineSpec => ImplementsExecute
<1>1. MachineInit => TimerInv /\ P!WalkInv /\ Walk!Init
  BY TimerInitially, MachineWalkInit, MachineTree, P!InitWalk DEF P!Init, Walk!Init
<1>2. TypeOK /\ TimerInv /\ P!WalkInv /\ [MachineNext]_machineVars
        => TimerInv' /\ P!WalkInv' /\ [Walk!Next]_Walk!executeVars
  BY MachineWalkStep, MachineTree, P!NextWalk
<1>3. MachineSpec => []TypeOK
  BY MachineRunsBus, TypeCorrect
<1> QED
  BY <1>1, <1>2, <1>3, PTL DEF MachineSpec, ImplementsExecute, Walk!Spec

\* The walk of the machine keeps its place in the tree, whatever the core, the
\* board, the RAM and the timers do to the running bits under it.
THEOREM MachineKeepsItsPlace == MachineSpec => []P!WalkIsPath
<1>1. MachineInit => TimerInv /\ P!WalkInv
  BY TimerInitially, MachineWalkInit, MachineTree, P!InitWalk
<1>2. TypeOK /\ TimerInv /\ P!WalkInv /\ [MachineNext]_machineVars
        => TimerInv' /\ P!WalkInv'
  BY MachineWalkStep, MachineTree, P!NextWalk
<1>3. MachineSpec => []TypeOK
  BY MachineRunsBus, TypeCorrect
<1>4. P!WalkInv => P!WalkIsPath
  BY DEF P!WalkInv
<1> QED
  BY <1>1, <1>2, <1>3, <1>4, PTL DEF MachineSpec

-----------------------------------------------------------------------------
(* Each step of the bus is a step of the memory that the program sees, or none, *)
(* as long as no posted write is lost and no timer cuts a read short: writes    *)
(* take effect when the core hands them over, for the RAM's pending write and   *)
(* the board's are laid over the cells.                                         *)

\* The memory as the program sees it, and the cell of the read under way
Seen == Overlay(Overlay(mem, ram), board)
Sought ==
    IF Test(core, {"DTR_MEM"}) /\ core.bus_op = "IO_READ" THEN core.bus_address ELSE -1

LEMMA SeenType ==
    ASSUME Backed, TypeOK
    PROVE  /\ mem \in [Cell -> Value] /\ Overlay(mem, ram) \in [Cell -> Value] /\ Seen \in [Cell -> Value]
           /\ core.bus_data \in Value /\ core.bus_address \in Cell
           /\ core.bus_op \in {"IO_READ", "IO_WRITE"}
           /\ board.bus_address \in Cell /\ board.bus_in \in Value /\ board.status \subseteq IO_ACTIVE
           /\ ram.bus_address \in Cell /\ ram.bus_in \in Value /\ ram.status \subseteq IO_ACTIVE
<1>1. /\ mem \in [Cell -> Value]
      /\ core.bus_data \in Value /\ core.bus_address \in Cell
      /\ core.bus_op \in {"IO_READ", "IO_WRITE"}
      /\ board.bus_address \in Cell /\ board.bus_in \in Value /\ board.status \subseteq IO_ACTIVE
      /\ ram.bus_address \in Cell /\ ram.bus_in \in Value /\ ram.status \subseteq IO_ACTIVE
  BY DEF TypeOK, BusDevice, BoardDevice, Backed, Cell
<1>2. Overlay(mem, ram) \in [Cell -> Value]
  BY <1>1 DEF Overlay
<1>3. Seen \in [Cell -> Value]
  BY <1>1, <1>2 DEF Overlay, Seen
<1> QED
  BY <1>1, <1>2, <1>3

LEMMA MemoryInit == Backed /\ Init => Memory!Init
<1> SUFFICES ASSUME Backed, Init
             PROVE  Memory!Init
  OBVIOUS
<1>1. TypeOK
  BY InitInv DEF IInv
<1>2. Seen \in [Cell -> Value] /\ core.bus_data \in Value
  BY <1>1, SeenType
<1>3. ~Test(core, {"DTR_MEM"})
  BY DEF Init, Test
<1> QED
  BY <1>2, <1>3 DEF Memory!Init, Seen, Cell

\* A step that leaves what the program sees, its data register and its read alone
LEMMA MemoryStutters ==
    ASSUME Seen' = Seen, core'.bus_data = core.bus_data, Sought' = Sought
    PROVE  UNCHANGED Memory!memoryVars
BY DEF Memory!memoryVars, Seen, Sought

LEMMA BoardOnMemory ==
    ASSUME Backed, IInv, OneReadPath, BoardExecutor, ~LosesWrite
    PROVE  [Memory!Next]_Memory!memoryVars
<1>1. TypeOK /\ core \in CoreType
  BY DEF IInv, TypeOK, CoreType
<1>2. /\ mem \in [Cell -> Value] /\ Overlay(mem, ram) \in [Cell -> Value] /\ Seen \in [Cell -> Value]
      /\ core.bus_data \in Value /\ core.bus_address \in Cell
      /\ board.bus_address \in Cell /\ board.bus_in \in Value /\ board.status \subseteq IO_ACTIVE
      /\ ram.bus_address \in Cell /\ ram.bus_in \in Value /\ ram.status \subseteq IO_ACTIVE
  BY <1>1, SeenType
<1>3. ~BoardAbsent
  BY DEF Backed, BoardAbsent, RamPresent, IInv, TypeOK, BoardDevice
<1>4. CASE BoardReject
  <2>1. ~Writing(board)
    BY <1>4 DEF LosesWrite
  <2>2. ~Writing(board')
    BY <1>1, <1>4 DEF BoardReject, Unset, TypeOK, BoardDevice, Writing, Test, IO_INPUT
  <2>3. Seen' = Seen
    BY <1>4, <2>1, <2>2 DEF Seen, Overlay, Writing, Test, BoardReject
  <2>4. core' = Unset(core, {"SLEEP_MEM"})
    BY <1>4 DEF BoardReject
  <2>5. core'.bus_data = core.bus_data /\ Sought' = Sought
    BY <1>1, <2>4 DEF CoreType, Unset, Sought, Test
  <2> QED
    BY <2>3, <2>5, MemoryStutters
<1>5. CASE BoardTransfer
  <2>1. ~Writing(board') /\ UNCHANGED mem
    BY <1>1, <1>5 DEF BoardTransfer, Unset, TypeOK, BoardDevice, Writing, Test, IO_INPUT
  <2>2. Seen' = Seen
    <3>1. CASE Test(board, IO_INPUT)
      <4>1. ~Writing(ram)
        BY <1>5, <3>1 DEF BoardTransfer, Writing, Test, IO_INPUT
      <4>2. ram' = Request(ram, board.status \cap IO_INPUT, board.bus_address, board.bus_in)
        BY <1>5, <3>1 DEF BoardTransfer, Forwarded
      <4>3. /\ ram'.bus_address = board.bus_address /\ ram'.bus_in = board.bus_in
            /\ Writing(ram') <=> Writing(board)
        BY <1>1, <4>1, <4>2 DEF Request, Set, TypeOK, BusDevice, Writing, Test, IO_INPUT
      <4> QED
        BY <2>1, <4>1, <4>3 DEF Seen, Overlay, Writing, Test
    <3>2. CASE ~Test(board, IO_INPUT)
      <4>1. ram' = ram /\ ~Writing(board)
        BY <1>5, <3>2 DEF BoardTransfer, Forwarded, Writing, Test, IO_INPUT
      <4> QED
        BY <2>1, <4>1 DEF Seen, Overlay, Writing, Test
    <3> QED
      BY <3>1, <3>2
  <2>3. CASE Test(board, IO_OUTPUT)
    <3>1. Test(board, {"IO_RESPONSE"})
      BY <2>3 DEF OneReadPath, Test, IO_OUTPUT
    <3>2. /\ Test(core, {"DTR_MEM"}) /\ core.bus_op = "IO_READ"
          /\ board.bus_out = mem[core.bus_address]
          /\ ~Writing(board) /\ ~Writing(ram)
      BY <3>1, PathMatches DEF ReadsMatch
    <3>3. core' = [Unset(Unset(core, {"SLEEP_DELAY", "SLEEP_MEM"}), {"DTR_MEM"}) EXCEPT !.bus_data = board.bus_out]
      BY <1>5, <2>3, <3>1 DEF BoardTransfer, Answered
    <3>4. core'.bus_data = board.bus_out /\ ~Test(core', {"DTR_MEM"})
      BY <1>1, <3>3 DEF CoreType, Unset, Test
    <3>5. Seen = mem
      BY <3>2 DEF Seen, Overlay
    <3>6. Sought = core.bus_address /\ Sought # -1 /\ Sought' = -1
      BY <1>2, <3>2, <3>4 DEF Sought, Cell, Test
    <3>7. Memory!Return
      BY <2>2, <3>2, <3>4, <3>5, <3>6 DEF Memory!Return, Seen, Sought
    <3> QED
      BY <3>7 DEF Memory!Next
  <2>4. CASE ~Test(board, IO_OUTPUT)
    <3>1. core' = core
      BY <1>5, <2>4 DEF BoardTransfer
    <3> QED
      BY <2>2, <3>1, MemoryStutters DEF Sought, Test
  <2> QED
    BY <2>3, <2>4
<1> QED
  BY <1>3, <1>4, <1>5 DEF BoardExecutor

LEMMA RamOnMemory ==
    ASSUME Backed, IInv, OneReadPath, RamExecutor
    PROVE  [Memory!Next]_Memory!memoryVars
<1>1. TypeOK
  BY DEF IInv
<1>2. /\ mem \in [Cell -> Value]
      /\ ram.bus_address \in Cell /\ ram.bus_in \in Value /\ ram.status \subseteq IO_ACTIVE
  BY <1>1, SeenType
<1>3. core' = core /\ ~Writing(ram') /\ Sought' = Sought
  BY <1>1 DEF RamExecutor, RamWrite, RamRead, RamOutOfRange, RamDone, Unset, TypeOK, BusDevice,
              Writing, Test, IO_ACTIVE, IO_INPUT, Sought
<1>4. CASE RamWrite
  <2>1. Overlay(mem, ram) = mem' /\ UNCHANGED board
    BY <1>4 DEF RamWrite, Overlay, Writing
  <2> QED
    BY <1>3, <2>1, MemoryStutters DEF Seen, Overlay, Writing, Test
<1>5. CASE RamRead \/ RamOutOfRange
  <2>1. UNCHANGED mem /\ ~Writing(ram)
    <3>1. ram.bus_address < RamSize
      BY <1>2, BusAssumption DEF Cell
    <3>2. RamSize \in Nat /\ ram.bus_address \in Nat
      BY <1>2, BusAssumption DEF Cell
    <3>3. RamRead
      BY <1>5, <3>1, <3>2 DEF RamOutOfRange
    <3> QED
      BY <3>3 DEF RamRead, Writing
  <2>2. /\ Writing(board') <=> Writing(board)
        /\ board'.bus_address = board.bus_address /\ board'.bus_in = board.bus_in
    BY <1>1, <1>5 DEF RamRead, RamOutOfRange, Respond, Set, TypeOK, BoardDevice, Writing, Test
  <2> QED
    BY <1>3, <2>1, <2>2, MemoryStutters DEF Seen, Overlay, Writing, Test
<1> QED
  BY <1>4, <1>5 DEF RamExecutor

\* A timer that does not interrupt leaves the bus of the core alone
LEMMA TimerOnMemory ==
    ASSUME Quiet, IInv, NEW t \in Timer, TimerExecutor(t)
    PROVE  /\ UNCHANGED Memory!memoryVars
           /\ UNCHANGED <<board, ram>>
           /\ Test(core', {"DTR_MEM"}) <=> Test(core, {"DTR_MEM"})
           /\ core'.bus_op = core.bus_op
<1>1. core \in CoreType
  BY DEF IInv, TypeOK, CoreType
<1>2. core' \in {core, Unset(core, {"SLEEP_TIMER"}), Unset(core, {"RUNNING"}),
                 Unset(Unset(core, {"SLEEP_TIMER"}), {"RUNNING"})}
  BY DEF Quiet, TimerExecutor, TimerEffect
<1>3. /\ Test(core', {"DTR_MEM"}) <=> Test(core, {"DTR_MEM"})
      /\ core'.bus_op = core.bus_op /\ core'.bus_data = core.bus_data
      /\ core'.bus_address = core.bus_address
  BY <1>1, <1>2 DEF CoreType, Unset, Test
<1>4. UNCHANGED <<board, ram, mem>>
  BY DEF TimerExecutor
<1> QED
  BY <1>3, <1>4, MemoryStutters DEF Seen, Overlay, Writing, Test, Sought

LEMMA CpuOnMemory ==
    ASSUME Backed, IInv, OneReadPath, CpuExecutor
    PROVE  [Memory!Next]_Memory!memoryVars
<1> DEFINE detour == Test(core, {"DTR_MEM"})
<1>1. TypeOK /\ core \in CoreType
  BY DEF IInv, TypeOK, CoreType
<1>2. /\ Seen \in [Cell -> Value]
      /\ core.bus_data \in Value /\ core.bus_address \in Cell
      /\ board.bus_address \in Cell /\ board.bus_in \in Value /\ board.status \subseteq IO_ACTIVE
      /\ ram.bus_address \in Cell /\ ram.bus_in \in Value /\ ram.status \subseteq IO_ACTIVE
      /\ core.bus_op \in {"IO_READ", "IO_WRITE"}
  BY <1>1, SeenType
<1>3. CASE CpuSleep
  <2>1. Seen' = Seen
    BY <1>3 DEF CpuSleep, OnlyCore, Seen, Overlay, Writing, Test
  <2>2. core'.bus_data = core.bus_data /\ Sought' = Sought
    BY <1>1, <1>3 DEF CpuSleep, CoreType, Unset, Sought, Test
  <2> QED
    BY <2>1, <2>2, MemoryStutters
<1>4. CASE CpuAsksRead
  <2>1. board' = Request(board, {"IO_READ"}, core.bus_address, core.bus_data) /\ UNCHANGED <<ram, mem>>
    BY <1>4 DEF CpuAsksRead, CpuAsks
  <2>2. ~Writing(board)
    BY <1>4 DEF CpuAsksRead, CpuAsks, Writing, Test, IO_INPUT
  <2>3. ~Writing(board')
    BY <1>1, <2>1, <2>2 DEF Request, Set, TypeOK, BoardDevice, Writing, Test
  <2>4. Seen' = Seen
    BY <2>1, <2>2, <2>3 DEF Seen, Overlay, Writing, Test
  <2>5. core'.bus_data = core.bus_data /\ Sought' = Sought
    BY <1>1, <1>4 DEF CpuAsksRead, CoreType, Set, Sought, Test
  <2> QED
    BY <2>4, <2>5, MemoryStutters
<1>5. CASE CpuAsksWrite
  <2>1. board' = Request(board, {"IO_WRITE"}, core.bus_address, core.bus_data) /\ UNCHANGED <<ram, mem>>
    BY <1>5 DEF CpuAsksWrite, CpuAsks
  <2>2. ~Writing(board)
    BY <1>5 DEF CpuAsksWrite, CpuAsks, Writing, Test, IO_INPUT
  <2>3. /\ Writing(board') /\ board'.bus_address = core.bus_address
        /\ board'.bus_in = core.bus_data
    BY <1>1, <2>1 DEF Request, Set, TypeOK, BoardDevice, Writing, Test
  <2>4. Seen = Overlay(mem, ram) /\ UNCHANGED Overlay(mem, ram)
    BY <2>1, <2>2 DEF Seen, Overlay, Writing, Test
  <2>5. Seen' = [Seen EXCEPT ![core.bus_address] = core.bus_data]
    BY <2>3, <2>4 DEF Seen, Overlay
  <2>6. core'.bus_data = core.bus_data /\ Sought = -1 /\ Sought' = -1
    BY <1>1, <1>5 DEF CpuAsksWrite, CoreType, Unset, Sought, Test
  <2>7. Memory!Write(core.bus_address)
    BY <2>5, <2>6 DEF Memory!Write, Seen, Sought
  <2> QED
    BY <1>2, <2>7 DEF Memory!Next, Cell
<1>6. CASE CpuCache
  <2>1. Seen' = Seen
    BY <1>6 DEF CpuCache, OnlyCore, Seen, Overlay, Writing, Test
  <2>2. ~Test(core, {"DTR_MEM"}) /\ Sought = -1
    BY <1>6 DEF CpuCache, Sought
  <2>3. ASSUME NEW a \in Addr, NEW v \in Value, core' = dtr_mem_write(core, a, v)
        PROVE  Memory!Load(v)
    <3>1. core'.bus_data = v /\ core'.bus_op = "IO_WRITE"
      BY <1>1, <2>3 DEF CoreType, dtr_mem_write, Set
    <3>2. Sought' = -1
      BY <3>1 DEF Sought
    <3> QED
      BY <2>1, <2>2, <3>1, <3>2 DEF Memory!Load, Seen, Sought
  <2>4. ASSUME NEW a \in Addr, core' = dtr_mem_read(core, a)
        PROVE  Memory!Read(a)
    <3>1. /\ core'.bus_data = core.bus_data /\ core'.bus_op = "IO_READ"
          /\ core'.bus_address = a /\ Test(core', {"DTR_MEM"})
      BY <1>1, <2>4 DEF CoreType, dtr_mem_read, Set, Test
    <3>2. Sought' = a
      BY <3>1 DEF Sought, Test
    <3> QED
      BY <2>1, <2>2, <3>1, <3>2 DEF Memory!Read, Seen, Sought
  <2>5. CASE core' = Unset(core, {"DTR_CACHE"})
    <3>1. core'.bus_data = core.bus_data /\ Sought' = Sought
      BY <1>1, <2>5 DEF CoreType, Unset, Sought, Test
    <3> QED
      BY <2>1, <3>1, MemoryStutters
  <2>6. Addr = 0..(RamSize - 1)
    BY DEF Backed
  <2> QED
    BY <1>6, <2>3, <2>4, <2>5, <2>6 DEF CpuCache, Memory!Next
<1>7. CASE CpuMasksIntp \/ CpuTripleFault \/ CpuTakesIntp
  <2>1. Seen' = Seen
    BY <1>7 DEF CpuMasksIntp, CpuTripleFault, TripleFault, CpuTakesIntp, OnlyCore, Seen, Overlay, Writing, Test
  <2>2. ~Test(core, {"DTR_MEM"})
    BY <1>7 DEF CpuMasksIntp, CpuTripleFault, TripleFault, CpuTakesIntp, OnlyIntp, Test
  <2>3. core'.bus_data = core.bus_data /\ ~Test(core', {"DTR_MEM"})
    <3>1. Accept(core) \in CoreType /\ Accept(core).bus_data = core.bus_data
          /\ ~Test(Accept(core), {"DTR_MEM"})
      BY <1>1, <2>2 DEF CoreType, Accept, Set, Test, CONTROL, Interrupt
    <3>2. CASE CpuMasksIntp \/ CpuTripleFault
      BY <1>1, <2>2, <3>2 DEF CpuMasksIntp, CpuTripleFault, TripleFault, CoreType, Unset, Test
    <3>3. CASE CpuTakesIntp
      BY <3>1, <3>3 DEF CpuTakesIntp, CoreType, dtr_cache, Set, Unset, Test
    <3> QED
      BY <1>7, <3>2, <3>3
  <2> QED
    BY <2>1, <2>2, <2>3, MemoryStutters DEF Sought, Test
<1>8. CASE CpuInstruction
  <2>1. Seen' = Seen
    BY <1>8 DEF CpuInstruction, AtInstruction, OnlyCore, Seen, Overlay, Writing, Test
  <2>2. ~Test(core, {"DTR_MEM"})
    BY <1>8 DEF CpuInstruction, AtInstruction, DTR_ACTIVE, Test
  <2>3. core'.bus_data = core.bus_data /\ ~Test(core', {"DTR_MEM"})
    <3>1. CASE core' = dtr_cache(core) \/ core' = core
      BY <1>1, <2>2, <3>1 DEF CoreType, dtr_cache, Set, Test
    <3>2. CASE InsnStatus
      BY <1>1, <2>2, <3>2 DEF InsnStatus, dtr_intp, CoreType, Set, Unset, Test
    <3>3. CASE InsnSwitch
      BY <1>1, <3>3 DEF InsnSwitch, CoreType, Test, CONTROL
    <3> QED
      BY <1>8, <3>1, <3>2, <3>3 DEF CpuInstruction
  <2> QED
    BY <2>1, <2>2, <2>3, MemoryStutters DEF Sought, Test
<1> QED
  BY <1>3, <1>4, <1>5, <1>6, <1>7, <1>8 DEF CpuExecutor, CpuDetour

\* A step of the bus that loses no write is a step of the memory
LEMMA MemoryStep ==
    ASSUME Quiet, IInv, OneReadPath, [Next]_vars, ~LosesWrite
    PROVE  [Memory!Next]_Memory!memoryVars
<1>1. Backed
  BY DEF Quiet
<1>2. ASSUME NEW t \in Timer, TimerExecutor(t)
      PROVE  UNCHANGED Memory!memoryVars
  BY <1>2, TimerOnMemory
<1>3. CASE UNCHANGED vars
  BY <1>3, MemoryStutters DEF vars, Seen, Overlay, Writing, Test, Sought
<1> QED
  BY <1>1, <1>2, <1>3, BoardOnMemory, RamOnMemory, CpuOnMemory DEF Next

-----------------------------------------------------------------------------
(* Where the walk is.  The board, the core and the RAM have one place each in   *)
(* the tree, so the stack tells which of their calls are over in this walk.     *)

\* Where the walk is among the board's devices: how many of the two are over, and
\* 3 once the board's own call is
PlaceOf(s) ==
    IF Len(s) = 0 THEN 3
    ELSE IF Len(s) = 1 THEN 3 * s[1].done
    ELSE IF Len(s) = 2 THEN s[2].done
    ELSE s[2].done - 1
Place == PlaceOf(stack)
RamAt == IF RamFirst THEN 1 ELSE 2
CpuAt == 3 - RamAt

LEMMA Places ==
    /\ RamAt \in 1..2 /\ CpuAt \in 1..2 /\ RamAt # CpuAt
    /\ Len(Children["system"]) = 1 /\ Children["system"][1] = "board"
    /\ Len(Children["board"]) = 2
    /\ Children["board"][RamAt] = "ram" /\ Children["board"][CpuAt] = "cpu"
<1>1. "system" \in Device /\ "board" \in Device
  BY DEF Device
<1>2. /\ Children["system"] = <<"board">>
      /\ Children["board"] = IF RamFirst THEN <<"ram", "cpu">> ELSE <<"cpu", "ram">>
  BY <1>1 DEF Children
<1>3. CASE RamFirst
  BY <1>2, <1>3 DEF RamAt, CpuAt
<1>4. CASE ~RamFirst
  BY <1>2, <1>4 DEF RamAt, CpuAt
<1> QED
  BY <1>3, <1>4

\* Among the devices' own children the walk has one place
LEMMA DeepPlace ==
    ASSUME NEW s \in Seq(P!FrameType), Len(s) > 2
    PROVE  PlaceOf(s) = s[2].done - 1
<1> DEFINE n == Len(s)
           a == s[1].done
           b == s[2].done
<1>1. n \in Nat /\ n > 2 /\ s[1] \in P!FrameType /\ s[2] \in P!FrameType
  OBVIOUS
<1>2. a \in Nat /\ b \in Nat
  BY <1>1 DEF P!FrameType
<1>3. PlaceOf(s) = IF n = 0 THEN 3 ELSE IF n = 1 THEN 3 * a ELSE IF n = 2 THEN b ELSE b - 1
  BY DEF PlaceOf
<1> HIDE DEF n, a, b
<1>4. PlaceOf(s) = b - 1
  BY <1>1, <1>2, <1>3
<1> QED
  BY <1>4 DEF b

\* Each device has one place in the tree
LEMMA Parents ==
    ASSUME NEW d \in Device, NEW i \in 1..Len(Children[d])
    PROVE  /\ Children[d][i] # "system"
           /\ Children[d][i] = "board" => d = "system"
           /\ Children[d][i] \in {"cpu", "ram"} => d = "board"
<1>1. CASE d = "system"
  BY <1>1, Places
<1>2. CASE d = "board"
  <2>1. i = RamAt \/ i = CpuAt
    BY <1>2, Places
  <2> QED
    BY <1>2, <2>1, Places
<1>3. CASE d = "cpu"
  <2> DEFINE names == {TimerName[t] : t \in Timer}
             T0 == TimerDevice(0)
             T1 == TimerDevice(1)
             T2 == TimerDevice(2)
             T3 == TimerDevice(3)
  <2>6. ASSUME NEW t \in 0..3
        PROVE  TimerDevice(t) \in Seq(names)
    <3>1. CASE t \in Timer
      <4>1. TimerName[t] \in names
        BY <3>1
      <4> QED
        BY <3>1, <4>1 DEF TimerDevice
    <3>2. CASE t \notin Timer
      BY <3>2 DEF TimerDevice
    <3> QED
      BY <3>1, <3>2
  <2>1. T0 \in Seq(names) /\ T1 \in Seq(names) /\ T2 \in Seq(names) /\ T3 \in Seq(names)
    BY <2>6
  <2>2. Children["cpu"] = T0 \o T1 \o T2 \o T3
    BY <1>3 DEF Children
  <2> HIDE DEF names, T0, T1, T2, T3
  <2>3. Children["cpu"] \in Seq(names)
    BY <2>1, <2>2
  <2>4. Children[d][i] \in names
    BY <1>3, <2>3
  <2>5. names \cap {"system", "board", "cpu", "ram"} = {}
    BY TimerNames DEF names
  <2> QED
    BY <2>4, <2>5
<1>4. CASE d \notin {"system", "board", "cpu"}
  BY <1>4 DEF Children
<1> QED
  BY <1>1, <1>2, <1>3, <1>4

\* So the stack tells the device on top
LEMMA StackShape ==
    ASSUME P!WalkInv, stack # <<>>
    PROVE  /\ Len(stack) \in Nat \ {0} /\ stack \in Seq(P!FrameType)
           /\ \A k \in 1..Len(stack) :
                 /\ stack[k].dev = "system" <=> k = 1
                 /\ stack[k].dev = "board" <=> k = 2
                 /\ stack[k].dev \in {"cpu", "ram"} <=> k = 3
           /\ stack[1].done \in 0..1
           /\ Len(stack) > 1 => stack[1].done = 1 /\ stack[2].done \in 0..2
           /\ Len(stack) > 2 => /\ stack[2].done \in 1..2
                                /\ stack[3].dev = Children["board"][stack[2].done]
<1> DEFINE n == Len(stack)
<1>1. stack \in Seq(P!FrameType) /\ n \in Nat \ {0}
  BY DEF P!WalkInv, P!TypeOK, P!FrameType
<1>2. \A k \in 1..n : stack[k] \in P!FrameType
  BY <1>1
<1>3. \A k \in 1..n :
         /\ stack[k].done <= Len(Children[stack[k].dev])
         /\ k = 1 => stack[k].dev = "system"
         /\ k > 1 => /\ stack[k - 1].done > 0
                     /\ stack[k].dev = Children[stack[k - 1].dev][stack[k - 1].done]
  BY DEF P!WalkInv, P!WalkIsPath
<1> HIDE DEF n
<1>4. \A k \in 1..n : stack[k].dev \in Device /\ stack[k].done \in Nat
  BY <1>2 DEF P!FrameType
<1>5. \A k \in 1..n : k > 1 =>
         /\ k - 1 \in 1..n
         /\ stack[k].dev # "system"
         /\ stack[k].dev = "board" => stack[k - 1].dev = "system"
         /\ stack[k].dev \in {"cpu", "ram"} => stack[k - 1].dev = "board"
  <2> SUFFICES ASSUME NEW k \in 1..n, k > 1
               PROVE  /\ k - 1 \in 1..n
                      /\ stack[k].dev # "system"
                      /\ stack[k].dev = "board" => stack[k - 1].dev = "system"
                      /\ stack[k].dev \in {"cpu", "ram"} => stack[k - 1].dev = "board"
    OBVIOUS
  <2>1. k - 1 \in 1..n
    BY <1>1
  <2> DEFINE p == stack[k - 1]
  <2>2. p.dev \in Device /\ p.done \in Nat /\ p.done > 0 /\ p.done <= Len(Children[p.dev])
        /\ stack[k].dev = Children[p.dev][p.done]
    BY <1>3, <1>4, <2>1
  <2>3. Len(Children[p.dev]) \in Nat
    BY <2>2, MachineTree DEF P!ExecuteAssumption
  <2>4. p.done \in 1..Len(Children[p.dev])
    BY <2>2, <2>3
  <2> QED
    BY <2>1, <2>2, <2>4, Parents
<1>6. \A k \in 1..n : stack[k].dev = "system" <=> k = 1
  BY <1>1, <1>3, <1>5
<1>7. \A k \in 1..n : stack[k].dev = "board" => k = 2
  BY <1>1, <1>5, <1>6
<1>8. \A k \in 1..n : stack[k].dev \in {"cpu", "ram"} => k = 3
  BY <1>1, <1>5, <1>6, <1>7
<1>9. 1 \in 1..n /\ stack[1].dev = "system" /\ stack[1].done \in 0..1
  BY <1>1, <1>3, <1>4, Places
<1>10. n > 1 => stack[1].done = 1 /\ stack[2].dev = "board" /\ stack[2].done \in 0..2
  <2> SUFFICES ASSUME n > 1
               PROVE  stack[1].done = 1 /\ stack[2].dev = "board" /\ stack[2].done \in 0..2
    OBVIOUS
  <2>1. 2 \in 1..n
    BY <1>1
  <2>2. stack[1].done > 0 /\ stack[2].dev = Children[stack[1].dev][stack[1].done]
    BY <1>3, <2>1
  <2>4. stack[1].done = 1
    BY <1>9, <2>2
  <2>3. stack[1].done = 1 /\ stack[2].dev = "board"
    <3>1. stack[2].dev = Children["system"][1]
      BY <1>9, <2>2, <2>4
    <3> QED
      BY <2>4, <3>1, Places
  <2> QED
    <3>1. stack[2].done <= Len(Children["board"]) /\ stack[2].done \in Nat
      BY <1>3, <1>4, <2>1, <2>3
    <3> QED
      BY <2>3, <3>1, Places
<1>11. n > 2 => /\ stack[2].done \in 1..2
                /\ stack[3].dev = Children["board"][stack[2].done]
                /\ stack[3].dev \in {"cpu", "ram"}
  <2> SUFFICES ASSUME n > 2
               PROVE  /\ stack[2].done \in 1..2
                      /\ stack[3].dev = Children["board"][stack[2].done]
                      /\ stack[3].dev \in {"cpu", "ram"}
    OBVIOUS
  <2>1. 3 \in 1..n
    BY <1>1
  <2>2. stack[2].done > 0 /\ stack[3].dev = Children[stack[2].dev][stack[2].done]
    BY <1>3, <2>1
  <2>3. stack[2].done \in 1..2
    BY <1>10, <2>2, <1>1
  <2>4. stack[2].done = RamAt \/ stack[2].done = CpuAt
    BY <2>3, Places
  <2> QED
    BY <1>1, <1>10, <2>2, <2>3, <2>4, Places
<1> QED
  BY <1>1, <1>6, <1>7, <1>8, <1>9, <1>10, <1>11 DEF n

LEMMA PlaceRange ==
    ASSUME P!WalkInv
    PROVE  Place \in 0..3
<1>1. CASE stack = <<>>
  BY <1>1 DEF Place, PlaceOf
<1>2. CASE stack # <<>>
  <2> DEFINE n == Len(stack)
  <2>1. /\ n \in Nat \ {0} /\ stack[1].done \in 0..1
        /\ n > 1 => stack[2].done \in 0..2
        /\ n > 2 => stack[2].done \in 1..2
    BY <1>2, StackShape
  <2>2. Place = IF n = 0 THEN 3 ELSE IF n = 1 THEN 3 * stack[1].done
                ELSE IF n = 2 THEN stack[2].done ELSE stack[2].done - 1
    BY DEF Place, PlaceOf
  <2> HIDE DEF n
  <2> QED
    BY <2>1, <2>2
<1> QED
  BY <1>1, <1>2

\* Descending, the walk passes over a core that has stopped, and over nothing else
LEMMA DescendPlace ==
    ASSUME P!WalkInv, P!Descend
    PROVE  Place' = Place \/ (Place' = Place + 1 /\ Place' = CpuAt)
<1> DEFINE n == Len(stack)
           counted == P!Callers \o <<P!Frame(P!Top.dev, P!Top.done + 1)>>
           child == Children[P!Top.dev][P!Top.done + 1]
<1>1. P!InWalk /\ ~P!ChildrenDone /\ stack' = counted \o P!Entered(child) /\ stack # <<>>
  BY DEF P!Descend, P!InWalk
<1>2. /\ counted \in Seq(P!FrameType) /\ Len(counted) = n
      /\ \A k \in 1..(n - 1) : counted[k] = stack[k]
      /\ counted[n] = P!Frame(P!Top.dev, P!Top.done + 1)
  BY <1>1, MachineTree, P!CountedStack
<1>3. /\ n \in Nat \ {0} /\ P!Top = stack[n]
      /\ \A k \in 1..n :
            /\ stack[k].dev = "system" <=> k = 1
            /\ stack[k].dev = "board" <=> k = 2
      /\ stack[1].done \in 0..1
      /\ n > 1 => stack[1].done = 1 /\ stack[2].done \in 0..2
      /\ n > 2 => stack[2].done \in 1..2
  BY <1>1, StackShape DEF P!Top
<1> HIDE DEF n, counted
<1>7. \A f \in P!FrameType :
         LET s == counted \o <<f>>
         IN  Len(s) = n + 1 /\ (\A k \in 1..n : s[k] = counted[k]) /\ s[n + 1] = f
  BY <1>2, <1>3
<1>4. CASE n = 1
  <2>1. P!Top.dev = "system" /\ P!Top.done = 0 /\ child = "board"
    BY <1>1, <1>3, <1>4, Places DEF P!ChildrenDone
  <2>2. "board" \in Running
    BY DEF Running
  <2>3. stack' = counted \o <<P!Frame("board", 0)>>
    BY <1>1, <2>1, <2>2 DEF P!Entered
  <2>6. P!Frame("board", 0) \in P!FrameType
    BY DEF P!Frame, P!FrameType, Device
  <2>4. Len(stack') = 2 /\ stack'[2] = P!Frame("board", 0)
    BY <1>4, <1>7, <2>3, <2>6
  <2>5. Place' = 0 /\ Place = 0
    BY <1>3, <1>4, <2>1, <2>4 DEF Place, PlaceOf, P!Frame, n
  <2> QED
    BY <2>5
<1>5. CASE n = 2
  <2>1. P!Top.dev = "board" /\ P!Top.done \in 0..1 /\ Place = P!Top.done
    <3>1. P!Top = stack[2] /\ P!Top.dev = "board" /\ P!Top.done \in 0..2
      BY <1>3, <1>5
    <3>2. P!Top.done # 2
      BY <1>1, <3>1, Places DEF P!ChildrenDone
    <3>3. Place = P!Top.done
      BY <1>3, <1>5 DEF Place, PlaceOf, n
    <3> QED
      BY <3>1, <3>2, <3>3
  <2>2. counted[2].done = P!Top.done + 1
    BY <1>2, <1>5 DEF P!Frame
  <2>3. CASE child \in Running
    <3>1. stack' = counted \o <<P!Frame(child, 0)>>
      BY <1>1, <2>3 DEF P!Entered
    <3>4. P!Frame(child, 0) \in P!FrameType
      BY <2>3, TimerNames DEF Running, Device, P!Frame, P!FrameType
    <3>2. Len(stack') = 3 /\ stack'[2] = counted[2]
      BY <1>5, <1>7, <3>1, <3>4
    <3>3. Place' = Place
      BY <2>1, <2>2, <3>2 DEF Place, PlaceOf
    <3> QED
      BY <3>3
  <2>4. CASE child \notin Running
    <3>1. stack' = counted
      BY <1>1, <1>2, <2>4 DEF P!Entered
    <3>5. Len(stack') = 2 /\ stack'[2].done = P!Top.done + 1
      BY <1>2, <1>5, <2>2, <3>1
    <3>2. Place' = Place + 1
      BY <2>1, <3>5 DEF Place, PlaceOf
    <3>3. child # "ram"
      BY <2>4 DEF Running
    <3>4. P!Top.done + 1 = CpuAt
      BY <2>1, <3>3, Places
    <3> QED
      BY <2>1, <3>2, <3>4
  <2> QED
    BY <2>3, <2>4
<1>6. CASE n > 2
  <2>1. counted[2] = stack[2]
    BY <1>2, <1>3, <1>6
  <2>2. Len(stack') > 2 /\ stack'[2] = counted[2]
    <3>1. CASE child \in Running
      <4>1. stack' = counted \o <<P!Frame(child, 0)>>
        BY <1>1, <3>1 DEF P!Entered
      <4>2. P!Frame(child, 0) \in P!FrameType
        BY <3>1, TimerNames DEF Running, Device, P!Frame, P!FrameType
      <4> QED
        BY <1>3, <1>6, <1>7, <4>1, <4>2
    <3>2. CASE child \notin Running
      BY <1>1, <1>2, <1>6, <3>2 DEF P!Entered
    <3> QED
      BY <3>1, <3>2
  <2>4. stack \in Seq(P!FrameType) /\ stack' \in Seq(P!FrameType)
    BY MachineTree, P!DescendWalk DEF P!WalkInv, P!TypeOK, P!FrameType
  <2>3. Place = stack[2].done - 1 /\ Place' = stack'[2].done - 1
    BY <1>6, <2>2, <2>4, DeepPlace DEF Place, n
  <2> QED
    BY <2>1, <2>2, <2>3
<1> QED
  BY <1>3, <1>4, <1>5, <1>6

\* And a call of the executor returns from its device's place to the next
LEMMA ReturnPlace ==
    ASSUME P!WalkInv, P!InWalk, P!ChildrenDone, stack' = P!Callers
    PROVE  /\ P!Top.dev = "ram" => Place = RamAt - 1 /\ Place' = RamAt
           /\ P!Top.dev = "cpu" => Place = CpuAt - 1 /\ Place' = CpuAt
           /\ P!Top.dev = "board" => Place = 2 /\ Place' = 3
           /\ P!Top.dev \notin {"ram", "cpu", "board"} => Place' = Place
<1> DEFINE n == Len(stack)
<1>1. /\ n \in Nat \ {0} /\ P!Top = stack[n]
      /\ \A k \in 1..n :
            /\ stack[k].dev = "system" <=> k = 1
            /\ stack[k].dev = "board" <=> k = 2
            /\ stack[k].dev \in {"cpu", "ram"} <=> k = 3
      /\ stack[1].done \in 0..1
      /\ n > 1 => stack[1].done = 1 /\ stack[2].done \in 0..2
      /\ n > 2 => stack[2].done \in 1..2 /\ stack[3].dev = Children["board"][stack[2].done]
  BY StackShape DEF P!InWalk, P!Top
<1>2. Len(stack') = n - 1 /\ \A k \in 1..(n - 1) : stack'[k] = stack[k]
  BY MachineTree, P!TopType DEF P!WalkInv
<1> HIDE DEF n
<1>3. CASE n = 1
  <2>1. P!Top.dev = "system" /\ P!Top.done = 1
    BY <1>1, <1>3, Places DEF P!ChildrenDone
  <2>2. Place = 3 /\ Place' = 3
    BY <1>1, <1>2, <1>3, <2>1 DEF Place, PlaceOf, n
  <2> QED
    BY <2>1, <2>2
<1>4. CASE n = 2
  <2>1. P!Top.dev = "board" /\ P!Top.done = 2
    BY <1>1, <1>4, Places DEF P!ChildrenDone
  <2>2. Place = 2 /\ Place' = 3
    BY <1>1, <1>2, <1>4, <2>1 DEF Place, PlaceOf, n
  <2> QED
    BY <2>1, <2>2
<1>5. CASE n = 3
  <2>1. P!Top.dev = Children["board"][stack[2].done] /\ P!Top.dev \in {"cpu", "ram"}
    BY <1>1, <1>5
  <2>2. Place = stack[2].done - 1 /\ Place' = stack[2].done
    BY <1>1, <1>2, <1>5 DEF Place, PlaceOf, n
  <2>3. stack[2].done = RamAt \/ stack[2].done = CpuAt
    BY <1>1, <1>5, Places
  <2> QED
    BY <2>1, <2>2, <2>3, Places
<1>6. CASE n > 3
  <2>1. P!Top.dev \notin {"ram", "cpu", "board"}
    BY <1>1, <1>6
  <2>2. stack'[2] = stack[2] /\ Len(stack') > 2
    BY <1>1, <1>2, <1>6
  <2>4. stack \in Seq(P!FrameType) /\ stack' \in Seq(P!FrameType)
    BY MachineTree, P!TopType DEF P!WalkInv, P!TypeOK, P!FrameType
  <2>3. Place = stack[2].done - 1 /\ Place' = stack'[2].done - 1
    BY <1>6, <2>2, <2>4, DeepPlace DEF Place, n
  <2> QED
    BY <2>1, <2>2, <2>3
<1> QED
  BY <1>1, <1>3, <1>4, <1>5, <1>6

-----------------------------------------------------------------------------
(* A posted write cannot meet the one before it: the board takes a write out in *)
(* the walk in which the core posts it, and the RAM's next call comes before    *)
(* the core's second from then, the first that could post another.              *)

LEMMA Multiples ==
    ASSUME NEW m \in Nat \ {0}, NEW q \in Nat
    PROVE  (m * q) % m = 0
OBVIOUS

LEMMA Quotient ==
    ASSUME NEW m \in Nat \ {0}, NEW n \in Nat, n % m = 0
    PROVE  \E q \in Nat : n = m * q
<1> DEFINE q == n \div m
           r == n % m
<1>1. q \in Int /\ r \in 0..(m - 1) /\ n = m * q + r
  BY SMT
<1> HIDE DEF q, r
<1>2. r = 0
  BY DEF r
<1>3. q \in Nat /\ n = m * q
  BY <1>1, <1>2, SMT
<1> QED
  BY <1>3

\* A device whose period divides another's is due whenever the other is
LEMMA DueTogether ==
    ASSUME NEW b \in Nat \ {0}, NEW c \in Nat \ {0}, NEW n \in Nat, c % b = 0, n % c = 0
    PROVE  n % b = 0
<1>1. PICK j \in Nat : c = b * j
  BY Quotient
<1>2. PICK k \in Nat : n = c * k
  BY Quotient
<1>3. n = b * (j * k) /\ j * k \in Nat
  BY <1>1, <1>2
<1> QED
  BY <1>3, Multiples

\* Successive due times are a period apart
LEMMA PeriodApart ==
    ASSUME NEW c \in Nat \ {0}, NEW m \in Nat, NEW n \in Nat, m % c = 0, n % c = 0, m < n
    PROVE  m + c <= n
<1>1. PICK j \in Nat : m = c * j
  BY Quotient
<1>2. PICK k \in Nat : n = c * k
  BY Quotient
<1>3. j < k
  BY <1>1, <1>2
<1>4. j + 1 <= k
  BY <1>3
<1>5. c * (j + 1) <= c * k
  BY <1>4
<1> QED
  BY <1>1, <1>2, <1>5

\* A stretch as long as a period has a due time in it
LEMMA DueWithin ==
    ASSUME NEW r \in Nat \ {0}, NEW n \in Nat
    PROVE  \E s \in Nat : n < s /\ s <= n + r /\ s % r = 0
<1> DEFINE q == n \div r
           s == r * (q + 1)
           rest == n % r
<1>1. q \in Int /\ rest \in 0..(r - 1) /\ n = r * q + rest
  BY SMT
<1> HIDE DEF q, rest
<1>5. q \in Nat
  BY <1>1, SMT
<1>2. s \in Nat /\ s = r * q + r
  BY <1>1, <1>5
<1>3. n < s /\ s <= n + r
  BY <1>1, <1>2
<1>4. s % r = 0
  BY <1>5, Multiples
<1> QED
  BY <1>2, <1>3, <1>4

\* The calls of the RAM and of the core still to come before the counter wraps
RamAhead == {s \in 0..(CounterMod - 1) :
                s % Period["ram"] = 0 /\ (s > now \/ (s = now /\ Place < RamAt))}
CpuAhead == {s \in 0..(CounterMod - 1) :
                s % Period["cpu"] = 0 /\ (s > now \/ (s = now /\ Place < CpuAt))}

Clock == counter = 0 \/ counter = now + 1

\* A write in the board is there from the core's call to the board's own, in one walk
BoardInTime ==
    Writing(board) =>
        /\ Place \in CpuAt..2
        /\ now % Period["cpu"] = 0
        /\ ~Test(core, {"DTR_MEM"})
        /\ Test(ram, IO_INPUT) => Place < RamAt /\ now % Period["ram"] = 0

\* A write in the RAM is done before the core's second call from now
RamInTime ==
    Writing(ram) =>
        \A u, v \in CpuAhead : u < v => \E s \in RamAhead : s <= v

\* and before its next, if that may post another
RamBeforeNext ==
    Writing(ram) /\ Scheduled =>
        \A u \in CpuAhead : \E s \in RamAhead : s <= u

TimeInv == Clock /\ BoardInTime /\ RamInTime /\ RamBeforeNext

LEMMA PeriodType ==
    /\ Period["cpu"] \in Nat \ {0} /\ Period["ram"] \in Nat \ {0} /\ Period["board"] \in Nat \ {0}
    /\ CounterMod \in Nat \ {0}
<1>1. "cpu" \in Device /\ "ram" \in Device /\ "board" \in Device
  BY DEF Device
<1> QED
  BY <1>1, MachineAssumption

LEMMA TimeInit ==
    ASSUME MachineInit
    PROVE  TimeInv
BY DEF MachineInit, Init, TimeInv, Clock, BoardInTime, RamInTime, RamBeforeNext, Writing, Test

\* What is ahead within a walk
LEMMA SameWalk ==
    ASSUME now \in Nat, now' = now, Place \in 0..3, Place' = Place \/ Place' = Place + 1
    PROVE  /\ CpuAhead' \subseteq CpuAhead
           /\ Place' = Place \/ Place' # RamAt \/ now % Period["ram"] # 0 => RamAhead' = RamAhead
           /\ Place' = CpuAt /\ Place # Place' /\ now % Period["cpu"] = 0
                 => \A u \in CpuAhead' : now < u
<1>1. RamAt \in 1..2 /\ CpuAt \in 1..2
  BY Places
<1>2. CpuAhead' \subseteq CpuAhead
  BY <1>1 DEF CpuAhead
<1>3. ASSUME Place' = Place \/ Place' # RamAt \/ now % Period["ram"] # 0
      PROVE  RamAhead' = RamAhead
  BY <1>1, <1>3 DEF RamAhead
<1>4. ASSUME Place' = CpuAt
      PROVE  \A u \in CpuAhead' : now < u
  BY <1>1, <1>4 DEF CpuAhead
<1> QED
  BY <1>2, <1>3, <1>4

\* With the same calls ahead, the RAM's write stays in time
LEMMA RamKeepsTime ==
    ASSUME RamInTime, RamBeforeNext, RamAhead' = RamAhead, CpuAhead' \subseteq CpuAhead,
           Writing(ram') => Writing(ram), Scheduled' => Scheduled
    PROVE  RamInTime' /\ RamBeforeNext'
<1>1. RamInTime'
  BY DEF RamInTime
<1>2. RamBeforeNext'
  BY DEF RamBeforeNext
<1> QED
  BY <1>1, <1>2

LEMMA CallTime ==
    ASSUME P!WalkInv, TimeInv, P!Call, UNCHANGED vars
    PROVE  TimeInv'
<1>1. Place = 3 /\ Place' = 0
  <2>1. stack = <<>> /\ Place = 3
    BY DEF P!Call, P!InWalk, Place, PlaceOf
  <2>2. stack' = <<P!Frame("system", 0)>>
    BY DEF P!Call, P!Entered, Running
  <2>3. Place' = 0
    BY <2>2 DEF Place, PlaceOf, P!Frame
  <2> QED
    BY <2>1, <2>3
<1>2. /\ now \in 0..(CounterMod - 1) /\ counter \in 0..(CounterMod - 1)
      /\ now' = counter /\ counter' = (counter + 1) % CounterMod
      /\ CounterMod \in Nat \ {0} /\ RamAt \in 1..2 /\ CpuAt \in 1..2
  BY PeriodType, Places DEF P!WalkInv, P!TypeOK, P!Call
<1>3. ~Writing(board) /\ UNCHANGED <<Writing(board), Writing(ram), Scheduled>>
  BY <1>1, <1>2 DEF TimeInv, BoardInTime, vars, Writing, Test, Scheduled
<1>4. Clock'
  <2>1. CASE counter + 1 = CounterMod
    BY <1>2, <2>1 DEF Clock
  <2>2. CASE counter + 1 < CounterMod
    <3>1. (counter + 1) % CounterMod = counter + 1
      BY <1>2, <2>2
    <3> QED
      BY <1>2, <3>1 DEF Clock
  <2> QED
    BY <1>2, <2>1, <2>2
<1>5. BoardInTime'
  BY <1>3 DEF BoardInTime
<1>6. RamInTime' /\ RamBeforeNext'
  <2>1. CASE counter = 0
    <3>1. 0 \in RamAhead'
      BY <1>1, <1>2, <2>1, PeriodType DEF RamAhead
    <3>2. \A u \in CpuAhead' : 0 <= u
      BY DEF CpuAhead
    <3>3. RamInTime'
      BY <3>1, <3>2 DEF RamInTime
    <3>4. RamBeforeNext'
      BY <3>1, <3>2 DEF RamBeforeNext
    <3> QED
      BY <3>3, <3>4
  <2>2. CASE counter = now + 1
    <3>1. RamAhead' = RamAhead
      BY <1>1, <1>2, <2>2 DEF RamAhead
    <3>2. CpuAhead' = CpuAhead
      BY <1>1, <1>2, <2>2 DEF CpuAhead
    <3> QED
      BY <1>3, <3>1, <3>2, RamKeepsTime DEF TimeInv
  <2> QED
    BY <2>1, <2>2 DEF TimeInv, Clock
<1> QED
  BY <1>4, <1>5, <1>6 DEF TimeInv

\* Within a walk a step that leaves the bus alone, unless it passes over a call that
\* was due
LEMMA IdleTime ==
    ASSUME P!WalkInv, TimeInv, UNCHANGED vars, UNCHANGED <<now, counter>>,
           Place' = Place \/ Place' = Place + 1,
           Place' = RamAt => Place' = Place \/ now % Period["ram"] # 0,
           Place' = 3 => Place' = Place \/ ~Writing(board)
    PROVE  TimeInv'
<1>1. now \in Nat /\ Place \in 0..3 /\ RamAt \in 1..2 /\ CpuAt \in 1..2
  BY PlaceRange, Places, PeriodType DEF P!WalkInv, P!TypeOK
<1>2. UNCHANGED <<Writing(board), Writing(ram), Scheduled>>
      /\ UNCHANGED <<Test(ram, IO_INPUT), Test(core, {"DTR_MEM"})>>
  BY DEF vars, Writing, Test, Scheduled
<1>3. RamAhead' = RamAhead /\ CpuAhead' \subseteq CpuAhead
  BY <1>1, SameWalk
<1>4. RamInTime' /\ RamBeforeNext'
  BY <1>2, <1>3, RamKeepsTime DEF TimeInv
<1>5. Clock'
  BY DEF TimeInv, Clock
<1>6. BoardInTime'
  BY <1>1, <1>2 DEF TimeInv, BoardInTime
<1> QED
  BY <1>4, <1>5, <1>6 DEF TimeInv

LEMMA DescendTime ==
    ASSUME P!WalkInv, TimeInv, P!Descend, UNCHANGED vars
    PROVE  TimeInv'
<1>1. UNCHANGED <<now, counter>>
  BY DEF P!Descend
<1>2. Place' = Place \/ (Place' = Place + 1 /\ Place' = CpuAt)
  BY DescendPlace
<1>3. RamAt # CpuAt /\ CpuAt \in 1..2
  BY Places
<1> QED
  BY <1>1, <1>2, <1>3, IdleTime

\* A call that returns without its executor
LEMMA SkipTime ==
    ASSUME KeepsUp, P!WalkInv, TimeInv, NEW d \in Device, P!Return(d, Running), ~P!Due(d),
           UNCHANGED vars
    PROVE  TimeInv'
<1>1. /\ UNCHANGED <<now, counter>> /\ now \in Nat
      /\ P!InWalk /\ P!ChildrenDone /\ stack' = P!Callers /\ d = P!Top.dev
      /\ now % Period[d] # 0
  BY PeriodType DEF P!Return, P!Due, P!WalkInv, P!TypeOK
<1>2. /\ d = "ram" => Place = RamAt - 1 /\ Place' = RamAt
      /\ d = "cpu" => Place = CpuAt - 1 /\ Place' = CpuAt
      /\ d = "board" => Place = 2 /\ Place' = 3
      /\ d \notin {"ram", "cpu", "board"} => Place' = Place
  BY <1>1, ReturnPlace
<1>3. RamAt \in 1..2 /\ CpuAt \in 1..2 /\ RamAt # CpuAt
  BY Places
<1>4. d = "board" => ~Writing(board)
  <2> SUFFICES ASSUME d = "board", Writing(board)
               PROVE  FALSE
    OBVIOUS
  <2>1. now % Period["cpu"] = 0
    BY DEF TimeInv, BoardInTime
  <2> QED
    BY <1>1, <2>1, PeriodType, DueTogether DEF KeepsUp
<1> QED
  BY <1>1, <1>2, <1>3, <1>4, IdleTime

\* What the executors' lemmas have in common: a call of d's executor that was due
Called(d) ==
    /\ UNCHANGED <<now, counter>>
    /\ now % Period[d] = 0
    /\ P!InWalk /\ P!ChildrenDone /\ stack' = P!Callers /\ d = P!Top.dev

LEMMA WriteCells ==
    ASSUME Backed, IInv
    PROVE  /\ core \in CoreType
           /\ board.status \subseteq IO_ACTIVE /\ ram.status \subseteq IO_ACTIVE
           /\ ram.bus_address < RamSize /\ RamPresent
<1>1. TypeOK
  BY DEF IInv
<1>2. ram.bus_address < RamSize
  BY <1>1, SeenType, BusAssumption DEF Cell
<1> QED
  BY <1>1, <1>2 DEF TypeOK, CoreType, BusDevice, BoardDevice, Backed, RamPresent

LEMMA RamTime ==
    ASSUME Backed, IInv, OneReadPath, P!WalkInv, TimeInv, Called("ram"),
           RamExecutor \/ (RamStays /\ UNCHANGED vars)
    PROVE  TimeInv'
<1>1. Place' = RamAt /\ Place' = Place + 1
  BY ReturnPlace, Places DEF Called
<1>2. RamAt \in 1..2 /\ CpuAt \in 1..2 /\ RamAt # CpuAt
  BY Places
<1>3. /\ board.status \subseteq IO_ACTIVE /\ ram.status \subseteq IO_ACTIVE
      /\ ram.bus_address < RamSize
  BY WriteCells
<1>4. core' = core /\ ~Writing(ram') /\ (Writing(board') => Writing(board))
      /\ (Writing(board) => ~Test(ram', IO_INPUT))
  <2>1. CASE RamExecutor
    <3>1. core' = core /\ ram' = Unset(ram, IO_ACTIVE)
      BY <2>1 DEF RamExecutor, RamWrite, RamRead, RamOutOfRange, RamDone
    <3>2. ~Test(ram', IO_INPUT) /\ ~Writing(ram')
      BY <3>1 DEF IInv, TypeOK, BusDevice, Unset, Test, Writing, IO_ACTIVE, IO_INPUT
    <3>3. Writing(board') => Writing(board)
      BY <2>1 DEF RamExecutor, RamWrite, RamRead, RamOutOfRange, Respond, Set, IInv, TypeOK,
                  BoardDevice, Writing, Test
    <3> QED
      BY <3>1, <3>2, <3>3
  <2>2. CASE RamStays /\ UNCHANGED vars
    <3>1. ~Writing(ram)
      <4>1. ~(ram.bus_address >= RamSize)
        BY <1>3, SeenType, BusAssumption DEF IInv, Cell
      <4>2. Writing(ram) => Test(ram, IO_ACTIVE)
        BY DEF Writing, Test, IO_ACTIVE, IO_INPUT
      <4> QED
        BY <2>2, <4>1, <4>2 DEF RamStays, Writing
    <3>2. Writing(board) => ~Test(ram, IO_INPUT)
      BY <2>2 DEF RamStays, OneReadPath, Writing, Test, IO_ACTIVE, IO_INPUT, IO_OUTPUT
    <3> QED
      BY <2>2, <3>1, <3>2 DEF vars, Writing, Test
  <2> QED
    BY <2>1, <2>2
<1>5. RamInTime' /\ RamBeforeNext'
  BY <1>4 DEF RamInTime, RamBeforeNext
<1>6. BoardInTime'
  <2> SUFFICES ASSUME Writing(board')
               PROVE  /\ Place' \in CpuAt..2
                      /\ now' % Period["cpu"] = 0
                      /\ ~Test(core', {"DTR_MEM"})
                      /\ ~Test(ram', IO_INPUT)
    BY DEF BoardInTime
  <2>1. Place \in CpuAt..2 /\ now % Period["cpu"] = 0 /\ ~Test(core, {"DTR_MEM"})
    BY <1>4 DEF TimeInv, BoardInTime
  <2> QED
    BY <1>1, <1>2, <1>4, <2>1 DEF Called, Test
<1>7. Clock'
  BY DEF TimeInv, Clock, Called
<1> QED
  BY <1>5, <1>6, <1>7 DEF TimeInv

\* Nothing is posted or scheduled that the two periods leave no room for
LEMMA CpuTime ==
    ASSUME Backed, IInv, OneReadPath, P!WalkInv, TimeInv, Called("cpu"),
           CpuExecutor \/ UNCHANGED vars
    PROVE  TimeInv'
<1>1. Place = CpuAt - 1 /\ Place' = CpuAt /\ Place' = Place + 1
  BY ReturnPlace, Places DEF Called
<1>2. RamAt \in 1..2 /\ CpuAt \in 1..2 /\ RamAt # CpuAt /\ Place \in 0..3
  BY <1>1, Places
<1>3. /\ now \in 0..(CounterMod - 1) /\ now' = now /\ counter' = counter
      /\ now % Period["cpu"] = 0
  BY DEF P!WalkInv, P!TypeOK, Called
<1>4. RamAhead' = RamAhead /\ CpuAhead' \subseteq CpuAhead /\ \A u \in CpuAhead' : now < u
  BY <1>1, <1>2, <1>3, SameWalk
<1>5. now \in CpuAhead
  BY <1>1, <1>2, <1>3 DEF CpuAhead
<1>6. ram' = ram /\ ~Writing(board)
  <2>1. ram' = ram
    BY DEF vars, CpuExecutor, CpuDetour, CpuSleep, CpuAsksRead, CpuAsksWrite, CpuAsks, CpuCache, CpuMasksIntp,
           CpuTripleFault, TripleFault, CpuTakesIntp, CpuInstruction, AtInstruction, OnlyCore
  <2>2. ~Writing(board)
    BY <1>1, <1>2 DEF TimeInv, BoardInTime
  <2> QED
    BY <2>1, <2>2
<1>7. RamInTime'
  BY <1>4, <1>6 DEF TimeInv, RamInTime, Writing, Test
<1>8. RamBeforeNext'
  BY <1>4, <1>5, <1>6 DEF TimeInv, RamInTime, RamBeforeNext, Writing, Test
<1>9. BoardInTime'
  <2>1. CASE CpuAsksWrite
    <3>1. core' = Unset(core, {"DTR_MEM"}) /\ Scheduled /\ Awake
      BY <2>1 DEF CpuAsksWrite, CpuAsks, Scheduled
    <3>2. core \in CoreType /\ ~Test(core', {"DTR_MEM"})
      BY <3>1, WriteCells DEF CoreType, Unset, Test
    <3>3. ASSUME Test(ram, IO_INPUT)
          PROVE  Place < RamAt /\ now % Period["ram"] = 0
      <4>1. Writing(ram)
        BY <3>1, <3>3, AwakeNoRead DEF Reading, Writing, Test, IO_INPUT
      <4>2. PICK s \in RamAhead : s <= now
        BY <1>5, <3>1, <4>1 DEF TimeInv, RamBeforeNext
      <4> QED
        BY <1>3, <4>2 DEF RamAhead
    <3>4. Test(ram', IO_INPUT) => Place' < RamAt /\ now' % Period["ram"] = 0
      BY <1>1, <1>2, <1>3, <1>6, <3>3
    <3> QED
      BY <1>1, <1>2, <1>3, <3>2, <3>4 DEF BoardInTime
  <2>2. CASE ~CpuAsksWrite
    <3>1. ~Writing(board')
      <4>1. CASE CpuAsksRead
        BY <1>6, <4>1 DEF CpuAsksRead, CpuAsks, Request, Set, IInv, TypeOK, BoardDevice, Writing, Test
      <4>2. CASE ~CpuAsksRead
        <5>1. board' = board
          BY <2>2, <4>2 DEF vars, CpuExecutor, CpuDetour, CpuSleep, CpuCache, CpuMasksIntp,
             CpuTripleFault, TripleFault, CpuTakesIntp, CpuInstruction, AtInstruction, OnlyCore
        <5> QED
          BY <1>6, <5>1
      <4> QED
        BY <4>1, <4>2
    <3> QED
      BY <3>1 DEF BoardInTime
  <2> QED
    BY <2>1, <2>2
<1>10. Clock'
  BY <1>3 DEF TimeInv, Clock
<1> QED
  BY <1>7, <1>8, <1>9, <1>10 DEF TimeInv

\* The board hands a write on: the RAM's next call is not later than the core's
\* second, which is the first that could post another
LEMMA BoardTime ==
    ASSUME KeepsUp, Backed, IInv, OneReadPath, P!WalkInv, TimeInv, Called("board"),
           BoardExecutor \/ (BoardStays /\ UNCHANGED vars)
    PROVE  TimeInv' /\ ~LosesWrite
<1>1. Place = 2 /\ Place' = 3
  BY ReturnPlace DEF Called
<1>2. RamAt \in 1..2 /\ CpuAt \in 1..2
  BY Places
<1>3. now \in 0..(CounterMod - 1) /\ now' = now /\ counter' = counter
  BY DEF P!WalkInv, P!TypeOK, Called
<1>4. CpuAhead' \subseteq CpuAhead /\ RamAhead' = RamAhead
  BY <1>1, <1>2, <1>3, SameWalk
<1>5. Writing(board) => ~Test(ram, IO_INPUT) /\ now % Period["cpu"] = 0 /\ ~Test(core, {"DTR_MEM"})
  BY <1>1, <1>2 DEF TimeInv, BoardInTime
<1>6. ~LosesWrite
  BY <1>5 DEF LosesWrite, BoardReject
<1>7. /\ core \in CoreType /\ board.status \subseteq IO_ACTIVE /\ ram.status \subseteq IO_ACTIVE
      /\ RamPresent
  BY WriteCells
<1>8. ~Writing(board')
  <2>1. CASE BoardExecutor
    BY <1>7, <2>1 DEF BoardExecutor, BoardAbsent, BoardReject, BoardTransfer, Unset, IInv, TypeOK,
                      BoardDevice, Writing, Test, IO_INPUT
  <2>2. CASE BoardStays /\ UNCHANGED vars
    BY <1>7, <2>2 DEF BoardStays, vars, Writing, Test, IO_ACTIVE, IO_INPUT
  <2> QED
    BY <2>1, <2>2
<1>9. Scheduled' => Scheduled
  <2>1. CASE BoardReject
    <3>1. core' = Unset(core, {"SLEEP_MEM"})
      BY <2>1 DEF BoardReject
    <3> QED
      BY <1>7, <3>1 DEF CoreType, Unset, Scheduled, Test
  <2>2. CASE BoardTransfer
    <3>1. CASE Test(board, IO_OUTPUT)
      <4>1. Test(board, {"IO_RESPONSE"})
        BY <3>1 DEF OneReadPath, Test, IO_OUTPUT
      <4>2. core' = [Unset(Unset(core, {"SLEEP_DELAY", "SLEEP_MEM"}), {"DTR_MEM"})
                        EXCEPT !.bus_data = board.bus_out]
        BY <2>2, <3>1, <4>1 DEF BoardTransfer, Answered
      <4>3. ~Test(core', {"DTR_MEM"})
        BY <1>7, <4>2 DEF CoreType, Unset, Test
      <4> QED
        BY <4>3 DEF Scheduled, Test
    <3>2. CASE ~Test(board, IO_OUTPUT)
      BY <2>2, <3>2 DEF BoardTransfer, Scheduled, Test
    <3> QED
      BY <3>1, <3>2
  <2>3. CASE UNCHANGED vars
    BY <2>3 DEF vars, Scheduled, Test
  <2>4. ~BoardAbsent
    BY <1>7 DEF BoardAbsent
  <2> QED
    BY <2>1, <2>2, <2>3, <2>4 DEF BoardExecutor
<1>10. ASSUME Writing(ram') => Writing(ram)
       PROVE  RamInTime' /\ RamBeforeNext'
  BY <1>4, <1>9, <1>10, RamKeepsTime DEF TimeInv
<1>11. ASSUME Writing(ram'), ~Writing(ram)
       PROVE  RamInTime' /\ RamBeforeNext'
  <2>1. BoardTransfer /\ Test(board, IO_INPUT)
    BY <1>11 DEF BoardExecutor, BoardAbsent, BoardReject, BoardTransfer, Forwarded, vars, Writing, Test
  <2>2. ram' = Request(ram, board.status \cap IO_INPUT, board.bus_address, board.bus_in)
    BY <2>1 DEF BoardTransfer, Forwarded
  <2>3. Writing(board)
    BY <1>7, <1>11, <2>2 DEF Request, Set, IInv, TypeOK, BusDevice, Writing, Test, IO_INPUT
  <2>4. ~Scheduled'
    BY <1>5, <1>9, <2>3 DEF Scheduled, Test
  <2>5. now % Period["cpu"] = 0
    BY <1>5, <2>3
  <2>6. ASSUME NEW u \in CpuAhead', NEW v \in CpuAhead', u < v
        PROVE  \E s \in RamAhead' : s <= v
    <3>1. /\ u \in Nat /\ v \in 0..(CounterMod - 1) /\ now < u
          /\ u % Period["cpu"] = 0 /\ v % Period["cpu"] = 0
      BY <1>1, <1>2, <1>3 DEF CpuAhead
    <3>2. now + Period["cpu"] <= u
      BY <1>3, <2>5, <3>1, PeriodType, PeriodApart
    <3>3. u + Period["cpu"] <= v
      BY <2>6, <3>1, PeriodType, PeriodApart
    <3>4. PICK s \in Nat : now < s /\ s <= now + Period["ram"] /\ s % Period["ram"] = 0
      <4>1. now \in Nat
        BY <1>3, PeriodType
      <4> QED
        BY <4>1, PeriodType, DueWithin
    <3>5. s <= v
      BY <1>3, <3>1, <3>2, <3>3, <3>4, PeriodType DEF KeepsUp
    <3>6. s \in RamAhead'
      BY <1>3, <3>1, <3>4, <3>5, PeriodType DEF RamAhead
    <3> QED
      BY <3>5, <3>6
  <2>7. RamInTime'
    BY <2>6 DEF RamInTime
  <2> QED
    BY <2>4, <2>7 DEF RamBeforeNext
<1>12. RamInTime' /\ RamBeforeNext'
  BY <1>10, <1>11
<1>13. Clock'
  BY <1>3 DEF TimeInv, Clock
<1> QED
  BY <1>6, <1>8, <1>12, <1>13 DEF TimeInv, BoardInTime

\* A timer that does not interrupt schedules nothing
LEMMA TimerTime ==
    ASSUME Quiet, IInv, P!WalkInv, TimeInv, NEW t \in Timer, Called(TimerName[t]), TimerCall(t)
    PROVE  TimeInv'
<1>1. TimerName[t] \notin {"system", "board", "cpu", "ram"}
  BY TimerNames
<1>2. Place' = Place /\ Place \in 0..3 /\ now \in Nat /\ UNCHANGED <<now, counter>>
  BY <1>1, ReturnPlace, PlaceRange, PeriodType DEF Called, P!WalkInv, P!TypeOK
<1>3. /\ UNCHANGED <<board, ram>>
      /\ Test(core', {"DTR_MEM"}) <=> Test(core, {"DTR_MEM"})
      /\ core'.bus_op = core.bus_op
  <2>1. CASE TimerExecutor(t)
    BY <2>1, TimerOnMemory
  <2>2. CASE UNCHANGED vars
    BY <2>2 DEF vars, Test
  <2> QED
    BY <2>1, <2>2 DEF TimerCall
<1>4. Scheduled' <=> Scheduled
  BY <1>3 DEF Scheduled
<1>5. RamAhead' = RamAhead /\ CpuAhead' \subseteq CpuAhead
  BY <1>2, SameWalk
<1>6. RamInTime' /\ RamBeforeNext'
  BY <1>3, <1>4, <1>5, RamKeepsTime DEF TimeInv, Writing, Test
<1>7. BoardInTime'
  BY <1>2, <1>3 DEF TimeInv, BoardInTime, Writing, Test
<1>8. Clock'
  BY <1>2 DEF TimeInv, Clock
<1> QED
  BY <1>6, <1>7, <1>8 DEF TimeInv

\* Only the board takes a write out of the board
LEMMA OthersLoseNothing ==
    ASSUME IInv, RamExecutor \/ CpuExecutor \/ UNCHANGED <<board, ram, mem>>
    PROVE  ~LosesWrite
<1> SUFFICES ASSUME BoardReject, Writing(board)
             PROVE  FALSE
  BY DEF LosesWrite
<1>1. board \in BoardDevice
  BY DEF IInv, TypeOK
<1>2. ~Writing(board')
  BY <1>1 DEF BoardReject, Unset, BoardDevice, Writing, Test, IO_INPUT
<1>3. CASE RamExecutor
  BY <1>1, <1>2, <1>3 DEF RamExecutor, RamWrite, RamRead, RamOutOfRange, Respond, Set,
                          BoardDevice, Writing, Test
<1>4. CASE CpuExecutor
  <2>1. Test(board, IO_INPUT)
    BY DEF BoardReject
  <2>2. board' = board
    BY <1>4, <2>1 DEF CpuExecutor, CpuDetour, CpuSleep, CpuAsksRead, CpuAsksWrite, CpuAsks, CpuCache,
         CpuMasksIntp, CpuTripleFault, TripleFault, CpuTakesIntp, CpuInstruction, AtInstruction, OnlyCore
  <2> QED
    BY <1>2, <2>2
<1>5. CASE UNCHANGED <<board, ram, mem>>
  BY <1>2, <1>5
<1> QED
  BY <1>3, <1>4, <1>5

\* The inductive invariant: the one read under way, and the timing of the writes
\* against the place of the walk
MemoryInv == IInv /\ OneReadPath /\ TimerInv /\ P!WalkInv /\ TimeInv

LEMMA ExecutorTime ==
    ASSUME Quiet, KeepsUp, MemoryInv, NEW d \in Device, Called(d), Executor(d)
    PROVE  TimeInv' /\ ~LosesWrite
<1>1. Backed /\ IInv /\ OneReadPath /\ P!WalkInv /\ TimeInv
  BY DEF Quiet, MemoryInv
<1>2. CASE d = "system" /\ UNCHANGED <<vars, timer>>
  <2>1. Place' = Place /\ UNCHANGED <<now, counter>> /\ UNCHANGED vars
    BY <1>1, <1>2, ReturnPlace DEF Called
  <2> QED
    BY <1>1, <2>1, IdleTime, OthersLoseNothing DEF vars
<1>3. CASE d = "board" /\ (BoardExecutor \/ (BoardStays /\ UNCHANGED vars))
  BY <1>1, <1>3, BoardTime
<1>4. CASE d = "ram" /\ (RamExecutor \/ (RamStays /\ UNCHANGED vars))
  BY <1>1, <1>4, RamTime, OthersLoseNothing DEF vars
<1>5. CASE d = "cpu" /\ (CpuExecutor \/ UNCHANGED vars)
  BY <1>1, <1>5, CpuTime, OthersLoseNothing DEF vars
<1>6. ASSUME NEW t \in Timer, d = TimerName[t], TimerCall(t)
      PROVE  TimeInv' /\ ~LosesWrite
  <2>1. UNCHANGED <<board, ram, mem>>
    BY <1>6 DEF TimerCall, TimerExecutor, vars
  <2> QED
    BY <1>1, <1>6, <2>1, TimerTime, OthersLoseNothing
<1> QED
  BY <1>2, <1>3, <1>4, <1>5, <1>6 DEF Executor, CpuTinc

LEMMA MachineTime ==
    ASSUME Quiet, KeepsUp, MemoryInv, [MachineNext]_machineVars
    PROVE  TimeInv' /\ ~LosesWrite
<1>1. IInv /\ P!WalkInv /\ TimeInv
  BY DEF MemoryInv
<1>2. CASE Step
  <2>1. UNCHANGED vars /\ ~LosesWrite
    BY <1>1, <1>2, OthersLoseNothing DEF Step, vars
  <2>2. CASE Walk!Call
    <3>1. P!Call
      BY <1>2, <2>2 DEF Step, vars, Running, P!Call, P!InWalk, P!Entered, P!Frame,
                        Walk!Call, Walk!InWalk, Walk!Entered, Walk!Frame
    <3> QED
      BY <1>1, <2>1, <3>1, CallTime
  <2>3. CASE Walk!Descend
    <3>1. P!Descend
      BY <1>2, <2>3
         DEF Step, vars, Running, P!Descend, P!InWalk, P!ChildrenDone, P!Top, P!Callers, P!Entered,
             P!Frame, Walk!Descend, Walk!InWalk, Walk!ChildrenDone, Walk!Top,
             Walk!Callers, Walk!Entered, Walk!Frame
    <3> QED
      BY <1>1, <2>1, <3>1, DescendTime
  <2>4. ASSUME NEW d \in Device, ~Walk!Due(d), Walk!Return(d, Running)
        PROVE  TimeInv'
    <3>1. P!Return(d, Running) /\ ~P!Due(d)
      BY <2>4 DEF P!Return, P!InWalk, P!ChildrenDone, P!Top, P!Callers, P!Due,
                  Walk!Return, Walk!InWalk, Walk!ChildrenDone, Walk!Top, Walk!Callers,
                  Walk!Due
    <3> QED
      BY <1>1, <2>1, <3>1, SkipTime
  <2> QED
    BY <1>2, <2>1, <2>2, <2>3, <2>4 DEF Step
<1>3. ASSUME NEW d \in Device, Walk!InWalk, Walk!ChildrenDone, d = Walk!Top.dev, Walk!Due(d),
             Executor(d), Walk!Return(d, Running')
      PROVE  TimeInv' /\ ~LosesWrite
  <2>1. Called(d)
    BY <1>3 DEF Called, P!InWalk, P!ChildrenDone, P!Top, P!Callers,
                Walk!Return, Walk!InWalk, Walk!ChildrenDone, Walk!Top, Walk!Callers, Walk!Due
  <2> QED
    BY <1>3, <2>1, ExecutorTime
<1>4. CASE UNCHANGED machineVars
  <2>1. UNCHANGED vars /\ UNCHANGED <<now, counter, stack>> /\ ~LosesWrite
    BY <1>1, <1>4, OthersLoseNothing DEF machineVars, vars
  <2>2. Place' = Place
    BY <2>1 DEF Place
  <2> QED
    BY <1>1, <2>1, <2>2, IdleTime
<1> QED
  BY <1>2, <1>3, <1>4 DEF MachineNext, Execute

LEMMA MemoryInvInit == MachineInit => MemoryInv
<1> SUFFICES ASSUME MachineInit
             PROVE  MemoryInv
  OBVIOUS
<1>1. Init
  BY DEF MachineInit
<1>2. IInv /\ OneReadPath
  BY <1>1, InitInv, InitPath
<1>3. TimerInv /\ P!WalkInv
  BY TimerInitially, MachineWalkInit, MachineTree, P!InitWalk
<1> QED
  BY <1>2, <1>3, TimeInit DEF MemoryInv

LEMMA MemoryInvStep ==
    ASSUME Quiet, KeepsUp
    PROVE  MemoryInv /\ [MachineNext]_machineVars => MemoryInv' /\ ~LosesWrite
<1> SUFFICES ASSUME MemoryInv, [MachineNext]_machineVars
             PROVE  MemoryInv' /\ ~LosesWrite
  OBVIOUS
<1>1. IInv' /\ OneReadPath'
  BY MachineStep, NextInv, QuietNext, ReadPathNext DEF MemoryInv, Quiet
<1>2. TimerInv' /\ P!WalkInv'
  BY MachineWalkStep, MachineTree, P!NextWalk DEF MemoryInv, IInv
<1>3. TimeInv' /\ ~LosesWrite
  BY MachineTime
<1> QED
  BY <1>1, <1>2, <1>3 DEF MemoryInv

\* On a machine whose RAM keeps up with its core, whose timers do not interrupt and
\* whose memory covers every address, the board never finds the RAM busy with an
\* earlier request when it has a posted write to hand on (kyanite_legacy.c:376): no
\* write is dropped, whatever the program.
THEOREM PostedWritesAccepted ==
    ASSUME Quiet, KeepsUp
    PROVE  MachineSpec => OnlyReadsRejected
<1>1. MemoryInv /\ [MachineNext]_machineVars
        => MemoryInv' /\ [BoardReject => ~Writing(board)]_machineVars
  BY MemoryInvStep DEF LosesWrite
<1> QED
  BY <1>1, MemoryInvInit, PTL DEF MachineSpec, OnlyReadsRejected

\* And that machine is one atomic memory for every program, size of memory, value of
\* the periods that satisfies KeepsUp, order of the devices and wrap of the counter:
\* a write takes effect when the core hands it over and stays, a read returns the
\* last word written, although each is in up to three devices' registers meanwhile.
THEOREM MachineImplementsMemory ==
    ASSUME Quiet, KeepsUp
    PROVE  MachineSpec => ImplementsMemory
<1>1. MachineInit => MemoryInv /\ Memory!Init
  <2>1. MachineInit => Init
    BY DEF MachineInit
  <2> QED
    BY <2>1, MemoryInvInit, MemoryInit DEF Quiet
<1>2. MemoryInv /\ [MachineNext]_machineVars
        => MemoryInv' /\ [Memory!Next]_Memory!memoryVars
  <2> SUFFICES ASSUME MemoryInv, [MachineNext]_machineVars
               PROVE  MemoryInv' /\ [Memory!Next]_Memory!memoryVars
    OBVIOUS
  <2>1. MemoryInv' /\ ~LosesWrite
    BY MemoryInvStep
  <2>2. [Memory!Next]_Memory!memoryVars
    BY <2>1, MachineStep, MemoryStep DEF MemoryInv
  <2> QED
    BY <2>1, <2>2
<1> QED
  BY <1>1, <1>2, PTL DEF MachineSpec, ImplementsMemory, Memory!Spec
=============================================================================
