--------------------------- MODULE LegacyBusProofs ---------------------------
(* Proofs about LegacyBus for every value of its constants. *)
EXTENDS LegacyBus, TLAPS

CoreType ==
    [status : SUBSET (CONTROL \cup SLEEP_ACTIVE \cup DTR_ACTIVE),
     bus_op : {"IO_READ", "IO_WRITE"}, tries : 0..RetryCap,
     bus_address : Addr, bus_data : Value, delay : 0..(DelayMod - 1),
     intp_id : Interrupt, intp_phase : {"raised", "accepted"}]

\* The addresses that the RAM has words for
Cell == 0..(RamSize - 1)

\* The core has a write at hand that it will post
Scheduled == Test(core, {"DTR_MEM"}) /\ core.bus_op = "IO_WRITE"

(* The microtasks of the core keep its record a core record. *)
LEMMA CoreOps ==
    ASSUME NEW c \in CoreType
    PROVE  /\ \A bits \in SUBSET (CONTROL \cup SLEEP_ACTIVE \cup DTR_ACTIVE) :
                 /\ Set(c, bits) \in CoreType
                 /\ Unset(c, bits) \in CoreType
           /\ \A id \in Interrupt : dtr_intp(c, id) \in CoreType
           /\ \A a \in Addr : dtr_mem_read(c, a) \in CoreType
           /\ \A a \in Addr, v \in Value : dtr_mem_write(c, a, v) \in CoreType
           /\ dtr_cache(c) \in CoreType
           /\ Accept(c) \in CoreType
<1>1. \A bits \in SUBSET (CONTROL \cup SLEEP_ACTIVE \cup DTR_ACTIVE) :
         /\ Set(c, bits) \in CoreType
         /\ Unset(c, bits) \in CoreType
  BY DEF CoreType, Set, Unset
<1>2. \A id \in Interrupt : dtr_intp(c, id) \in CoreType
  BY BusAssumption DEF CoreType, Set, Unset, dtr_intp, CONTROL, SLEEP_ACTIVE, DTR_ACTIVE
<1>3. \A a \in Addr : dtr_mem_read(c, a) \in CoreType
  <2>1. Set(c, {"DTR_MEM"}) \in CoreType
    BY <1>1 DEF DTR_ACTIVE
  <2>2. 0 \in 0..RetryCap
    BY BusAssumption
  <2> QED
    BY <2>1, <2>2 DEF CoreType, dtr_mem_read
<1>4. \A a \in Addr, v \in Value : dtr_mem_write(c, a, v) \in CoreType
  <2>1. Set(c, {"DTR_MEM"}) \in CoreType
    BY <1>1 DEF DTR_ACTIVE
  <2>2. 0 \in 0..RetryCap
    BY BusAssumption
  <2> QED
    BY <2>1, <2>2 DEF CoreType, dtr_mem_write
<1>5. dtr_cache(c) \in CoreType
  BY DEF CoreType, Set, dtr_cache, CONTROL, SLEEP_ACTIVE, DTR_ACTIVE
<1>6. Accept(c) \in CoreType
  BY DEF CoreType, Set, Accept, Test, CONTROL, SLEEP_ACTIVE, DTR_ACTIVE, Interrupt
<1> QED
  BY <1>1, <1>2, <1>3, <1>4, <1>5, <1>6

(* So do the two bus macros and the clearing of request bits. *)
LEMMA BusOps ==
    ASSUME NEW d \in BusDevice
    PROVE  /\ \A bits : Unset(d, bits) \in BusDevice
           /\ \A bits \in SUBSET IO_ACTIVE, v \in Value \cup {INT_MR, INT_IO} :
                 Respond(d, bits, v) \in BusDevice
           /\ \A bits \in SUBSET IO_ACTIVE, a \in Addr, v \in Value :
                 Request(d, bits, a, v) \in BusDevice
BY DEF BusDevice, Unset, Set, Respond, Request

LEMMA BoardOps ==
    ASSUME NEW d \in BoardDevice
    PROVE  /\ \A bits : Unset(d, bits) \in BoardDevice
           /\ \A bits \in SUBSET IO_ACTIVE, v \in Value \cup {INT_MR, INT_IO} :
                 Respond(d, bits, v) \in BoardDevice
           /\ \A bits \in SUBSET IO_ACTIVE, a \in Addr, v \in Value :
                 Request(d, bits, a, v) \in BoardDevice
BY DEF BoardDevice, Unset, Set, Respond, Request

LEMMA TimerType ==
    ASSUME NEW c \in CoreType, NEW t \in Timer
    PROVE  TimerEffect(c, t) \in CoreType
<1>1. INT_TS \in Interrupt /\ INT_TIMER0 + t \in Interrupt
  BY DEF Interrupt
<1>2. Unset(c, {"SLEEP_TIMER"}) \in CoreType
  BY CoreOps DEF CONTROL, SLEEP_ACTIVE, DTR_ACTIVE
<1>3. \A d \in CoreType : Unset(d, {"RUNNING"}) \in CoreType
  BY CoreOps DEF CONTROL, SLEEP_ACTIVE, DTR_ACTIVE
<1>4. \A d \in CoreType, id \in Interrupt : dtr_intp(d, id) \in CoreType
  BY CoreOps
<1> QED
  BY <1>1, <1>2, <1>3, <1>4 DEF TimerEffect

LEMMA InitInv == Init => IInv
BY BusAssumption
   DEF Init, IInv, TypeOK, AnswerOK, OneRequest, NoLostWakeup, BusDevice, BoardDevice, Interrupt,
       CONTROL, IO_ACTIVE, IO_INPUT, IO_OUTPUT, Test

(* What the board's answer leaves in the core: AnswerOK is what types the  *)
(* word that it copies.                                                    *)
LEMMA AnsweredType ==
    ASSUME TypeOK, AnswerOK, Test(board, IO_OUTPUT)
    PROVE  Answered \in CoreType
<1> DEFINE awake == Unset(core, {"SLEEP_DELAY", "SLEEP_MEM"})
<1>1. awake \in CoreType
  BY CoreOps DEF TypeOK, CoreType, CONTROL, SLEEP_ACTIVE, DTR_ACTIVE
<1>2. CASE Test(board, {"IO_RESPONSE"})
  <2>1. Unset(awake, {"DTR_MEM"}) \in CoreType
    BY <1>1, CoreOps DEF CONTROL, SLEEP_ACTIVE, DTR_ACTIVE
  <2>2. board.bus_out \in Value
    BY <1>2 DEF AnswerOK
  <2>3. Answered = [Unset(awake, {"DTR_MEM"}) EXCEPT !.bus_data = board.bus_out]
    BY <1>2 DEF Answered
  <2> QED
    BY <2>1, <2>2, <2>3 DEF CoreType
<1>3. CASE ~Test(board, {"IO_RESPONSE"})
  <2>1. Test(board, {"IO_INTP"})
    BY <1>3 DEF Test, IO_OUTPUT
  <2>2. board.bus_out \in Interrupt
    BY <2>1 DEF AnswerOK, Interrupt
  <2> QED
    BY <1>1, <1>3, <2>2, CoreOps DEF Answered
<1> QED
  BY <1>2, <1>3

LEMMA BoardType ==
    ASSUME TypeOK, AnswerOK, BoardExecutor
    PROVE  TypeOK'
<1> core \in CoreType
  BY DEF TypeOK, CoreType
<1>1. CASE BoardAbsent
  BY <1>1, BusOps, BoardOps DEF BoardAbsent, TypeOK, IO_ACTIVE, IO_OUTPUT, IO_INPUT
<1>2. CASE BoardReject
  <2>1. core' \in CoreType
    BY <1>2, CoreOps DEF BoardReject, CONTROL, SLEEP_ACTIVE, DTR_ACTIVE
  <2> QED
    BY <1>2, <2>1, BusOps, BoardOps DEF BoardReject, TypeOK, CoreType
<1>3. CASE BoardTransfer
  <2>1. board.bus_address \in Addr /\ board.bus_in \in Value
    BY DEF TypeOK, BusDevice, BoardDevice
  <2>2. ram' \in BusDevice
    BY <1>3, <2>1, BusOps, BoardOps DEF BoardTransfer, Forwarded, TypeOK, IO_ACTIVE
  <2>3. board' \in BoardDevice
    BY <1>3, BusOps, BoardOps DEF BoardTransfer, TypeOK
  <2>4. core' \in CoreType
    BY <1>3, AnsweredType DEF BoardTransfer
  <2> QED
    BY <1>3, <2>2, <2>3, <2>4 DEF BoardTransfer, TypeOK, CoreType
<1> QED
  BY <1>1, <1>2, <1>3 DEF BoardExecutor

LEMMA RamType ==
    ASSUME TypeOK, RamExecutor
    PROVE  TypeOK'
<1>1. ram' \in BusDevice
  BY BusOps, BoardOps DEF RamExecutor, RamWrite, RamRead, RamOutOfRange, RamDone, TypeOK
<1>2. CASE RamWrite
  <2>1. mem' \in [0..(RamSize - 1) -> Value]
    BY <1>2, BusAssumption DEF RamWrite, TypeOK, BusDevice, BoardDevice
  <2> QED
    BY <1>1, <1>2, <2>1 DEF RamWrite, TypeOK
<1>3. CASE RamRead
  <2>1. ram.bus_address \in 0..(RamSize - 1)
    <3>1. ram.bus_address \in Nat
      BY BusAssumption DEF TypeOK, BusDevice, BoardDevice
    <3> QED
      BY <1>3, <3>1, BusAssumption DEF RamRead
  <2>2. board' \in BoardDevice
    BY <1>3, <2>1, BusOps, BoardOps DEF RamRead, TypeOK, IO_ACTIVE, IO_OUTPUT
  <2> QED
    BY <1>1, <1>3, <2>2 DEF RamRead, TypeOK
<1>4. CASE RamOutOfRange
  <2>1. board' \in BoardDevice
    BY <1>4, BusOps, BoardOps DEF RamOutOfRange, TypeOK, IO_ACTIVE, IO_OUTPUT
  <2> QED
    BY <1>1, <1>4, <2>1 DEF RamOutOfRange, TypeOK
<1> QED
  BY <1>2, <1>3, <1>4 DEF RamExecutor

(* The core's own executor changes its record by the microtasks alone. *)
LEMMA CpuCoreType ==
    ASSUME TypeOK, CpuExecutor
    PROVE  core' \in CoreType
<1> core \in CoreType
  BY DEF TypeOK, CoreType
<1>1. CASE CpuSleep
  <2> DEFINE left == IF core.delay = 0 THEN DelayMod - 1 ELSE core.delay - 1
             bits == IF left = 0 THEN {"SLEEP_DELAY"} ELSE {}
  <2>1. left \in 0..(DelayMod - 1)
    BY BusAssumption DEF CoreType
  <2>2. Unset(core, bits) \in CoreType
    BY CoreOps DEF SLEEP_ACTIVE
  <2>3. core' = [Unset(core, bits) EXCEPT !.delay = left]
    BY <1>1 DEF CpuSleep
  <2> HIDE DEF left, bits
  <2> QED
    BY <2>1, <2>2, <2>3 DEF CoreType
<1>2. CASE CpuAsksRead
  <2> DEFINE tries == IF core.tries < RetryCap THEN core.tries + 1 ELSE core.tries
             asleep == Set(core, {"SLEEP_DELAY", "SLEEP_MEM"})
  <2>1. tries \in 0..RetryCap /\ tries \in 0..(DelayMod - 1)
    BY BusAssumption DEF CoreType
  <2>2. asleep \in CoreType
    BY CoreOps DEF SLEEP_ACTIVE
  <2>3. core' = [asleep EXCEPT !.tries = tries, !.delay = tries]
    BY <1>2 DEF CpuAsksRead
  <2> HIDE DEF tries, asleep
  <2> QED
    BY <2>1, <2>2, <2>3 DEF CoreType
<1>3. CASE CpuAsksWrite
  BY <1>3, CoreOps DEF CpuAsksWrite, CONTROL, SLEEP_ACTIVE, DTR_ACTIVE
<1>4. CASE CpuCache
  BY <1>4, CoreOps DEF CpuCache, CONTROL, SLEEP_ACTIVE, DTR_ACTIVE
<1>5. CASE CpuMasksIntp
  BY <1>5, CoreOps DEF CpuMasksIntp, CONTROL, SLEEP_ACTIVE, DTR_ACTIVE
<1>6. CASE CpuTripleFault
  BY <1>6, CoreOps DEF CpuTripleFault, TripleFault, CONTROL, SLEEP_ACTIVE, DTR_ACTIVE
<1>7. CASE CpuTakesIntp
  <2>1. Accept(core) \in CoreType
    BY CoreOps
  <2>2. dtr_cache(Accept(core)) \in CoreType
    BY <2>1, CoreOps
  <2>3. Unset(Accept(core), SLEEP_ACTIVE \cup {"INTF", "DTR_INTP"}) \in CoreType
    BY <2>1, CoreOps DEF CONTROL, SLEEP_ACTIVE, DTR_ACTIVE
  <2> QED
    BY <1>7, <2>2, <2>3 DEF CpuTakesIntp
<1>8. CASE CpuInstruction
  <2>1. \A id \in {INT_UD, INT_DV} \cup SoftInt : dtr_intp(core, id) \in CoreType
    BY CoreOps DEF Interrupt
  <2>2. dtr_cache(core) \in CoreType /\ Unset(core, {"RUNNING"}) \in CoreType
        /\ Set(core, {"INTF"}) \in CoreType /\ Unset(core, {"INTF"}) \in CoreType
    BY CoreOps DEF CONTROL, SLEEP_ACTIVE, DTR_ACTIVE
  <2>3. \A bits \in {{"SLEEP_DELAY"}, {"SLEEP_TIMER"}}, n \in 0..(DelayMod - 1) :
           [Set(core, bits) EXCEPT !.delay = n] \in CoreType
    BY DEF CoreType, Set, SLEEP_ACTIVE
  <2>4. \A saved \in SUBSET CONTROL : [core EXCEPT !.status = saved] \in CoreType
    BY DEF CoreType
  <2> QED
    BY <1>8, <2>1, <2>2, <2>3, <2>4 DEF CpuInstruction, AtInstruction, InsnStatus, InsnSwitch
<1> QED
  BY <1>1, <1>2, <1>3, <1>4, <1>5, <1>6, <1>7, <1>8 DEF CpuExecutor, CpuDetour

LEMMA CpuType ==
    ASSUME TypeOK, CpuExecutor
    PROVE  TypeOK'
<1>1. core' \in CoreType
  BY CpuCoreType
<1>2. CASE CpuAsks
  <2>1. /\ {core.bus_op} \in SUBSET IO_ACTIVE
        /\ core.bus_address \in Addr /\ core.bus_data \in Value
    BY DEF TypeOK, IO_ACTIVE, IO_INPUT
  <2>2. board' \in BoardDevice
    BY <1>2, <2>1, BusOps, BoardOps DEF CpuAsks, TypeOK
  <2> QED
    BY <1>1, <1>2, <2>2 DEF CpuAsks, TypeOK, CoreType
<1>3. CASE OnlyCore
  BY <1>1, <1>3 DEF OnlyCore, TypeOK, CoreType
<1>4. CpuAsks \/ OnlyCore
  BY DEF CpuExecutor, CpuDetour, CpuSleep, CpuAsksRead, CpuAsksWrite, CpuCache, CpuMasksIntp,
         CpuTripleFault, TripleFault, CpuTakesIntp, CpuInstruction, AtInstruction, InsnStatus, InsnSwitch
<1> QED
  BY <1>2, <1>3, <1>4

LEMMA NextType == TypeOK /\ AnswerOK /\ [Next]_vars => TypeOK'
<1> SUFFICES ASSUME TypeOK, AnswerOK, [Next]_vars
             PROVE  TypeOK'
  OBVIOUS
<1>1. CASE BoardExecutor
  BY <1>1, BoardType
<1>2. CASE RamExecutor
  BY <1>2, RamType
<1>3. CASE CpuExecutor
  BY <1>3, CpuType
<1>4. ASSUME NEW t \in Timer, TimerExecutor(t)
      PROVE  TypeOK'
  BY <1>4, TimerType DEF TimerExecutor, TypeOK, CoreType
<1>5. CASE UNCHANGED vars
  BY <1>5 DEF vars, TypeOK
<1> QED
  BY <1>1, <1>2, <1>3, <1>4, <1>5 DEF Next

-----------------------------------------------------------------------------
(* The bits in the bus devices. *)

LEMMA NextAnswer == TypeOK /\ AnswerOK /\ [Next]_vars => AnswerOK'
<1> SUFFICES ASSUME TypeOK, AnswerOK, [Next]_vars
             PROVE  AnswerOK'
  OBVIOUS
<1> USE DEF AnswerOK, Test, Set, Unset, IO_OUTPUT, IO_INPUT
<1>1. CASE BoardAbsent
  BY <1>1 DEF BoardAbsent, Respond, TypeOK, BusDevice, BoardDevice
<1>2. CASE BoardReject
  BY <1>2 DEF BoardReject, TypeOK, BusDevice, BoardDevice
<1>3. CASE BoardTransfer
  BY <1>3 DEF BoardTransfer, TypeOK, BusDevice, BoardDevice
<1>4. CASE RamWrite
  BY <1>4 DEF RamWrite
<1>5. CASE RamRead
  <2>1. mem[ram.bus_address] \in Value
    <3>1. ram.bus_address \in Nat
      BY BusAssumption DEF TypeOK, BusDevice, BoardDevice
    <3>2. ram.bus_address \in 0..(RamSize - 1)
      BY <1>5, <3>1, BusAssumption DEF RamRead
    <3> QED
      BY <3>2 DEF TypeOK
  <2> QED
    BY <1>5, <2>1 DEF RamRead, Respond, TypeOK, BusDevice, BoardDevice
<1>6. CASE RamOutOfRange
  BY <1>6 DEF RamOutOfRange, Respond, TypeOK, BusDevice, BoardDevice
<1>7. CASE CpuAsks
  BY <1>7 DEF CpuAsks, Request, TypeOK, BusDevice, BoardDevice
<1>8. CASE UNCHANGED board
  BY <1>8
<1> QED
  BY <1>1, <1>2, <1>3, <1>4, <1>5, <1>6, <1>7, <1>8
     DEF Next, BoardExecutor, RamExecutor, CpuExecutor, CpuDetour, CpuSleep, CpuAsksRead,
         CpuAsksWrite, CpuCache, CpuMasksIntp, CpuTripleFault, TripleFault, CpuTakesIntp,
         CpuInstruction, AtInstruction, InsnStatus, InsnSwitch, TimerExecutor, OnlyCore, vars

LEMMA NextRequest == TypeOK /\ OneRequest /\ [Next]_vars => OneRequest'
<1> SUFFICES ASSUME TypeOK, OneRequest, [Next]_vars
             PROVE  OneRequest'
  OBVIOUS
<1> USE DEF OneRequest, Test, Set, Unset, IO_OUTPUT, IO_INPUT, IO_ACTIVE
<1>1. CASE BoardAbsent
  BY <1>1 DEF BoardAbsent, Respond, TypeOK, BusDevice, BoardDevice
<1>2. CASE BoardReject
  BY <1>2 DEF BoardReject, TypeOK, BusDevice, BoardDevice
<1>3. CASE BoardTransfer
  BY <1>3 DEF BoardTransfer, Forwarded, Request, TypeOK, BusDevice, BoardDevice
<1>4. CASE RamExecutor
  <2>1. ram'.status = ram.status \ IO_ACTIVE
    BY <1>4 DEF RamExecutor, RamWrite, RamRead, RamOutOfRange, RamDone, TypeOK, BusDevice, BoardDevice
  <2>2. CASE board' = board
    BY <2>1, <2>2
  <2>3. ASSUME NEW bit \in IO_OUTPUT, NEW v, board' = Respond(board, {bit}, v)
        PROVE  OneRequest'
    <3>1. board'.status = board.status \cup {bit}
      BY <2>3 DEF Respond, TypeOK, BusDevice, BoardDevice
    <3> QED
      BY <2>1, <2>3, <3>1
  <2> QED
    BY <1>4, <2>2, <2>3 DEF RamExecutor, RamWrite, RamRead, RamOutOfRange
<1>5. CASE CpuAsks
  BY <1>5 DEF CpuAsks, Request, TypeOK, BusDevice, BoardDevice
<1>6. CASE UNCHANGED <<board, ram>>
  BY <1>6
<1> QED
  BY <1>1, <1>2, <1>3, <1>4, <1>5, <1>6
     DEF Next, BoardExecutor, CpuExecutor, CpuDetour, CpuSleep, CpuAsksRead,
         CpuAsksWrite, CpuCache, CpuMasksIntp, CpuTripleFault, TripleFault, CpuTakesIntp,
         CpuInstruction, AtInstruction, InsnStatus, InsnSwitch, TimerExecutor, OnlyCore, vars

(* Nothing but the request of a read puts the core to sleep on the memory,  *)
(* and no step but the board's touches the sleeping core's memory detour.   *)
LEMMA NextWakeup == IInv /\ [Next]_vars => NoLostWakeup'
<1> SUFFICES ASSUME IInv, [Next]_vars
             PROVE  NoLostWakeup'
  OBVIOUS
<1> USE DEF IInv, NoLostWakeup, Reading, Test, Set, Unset, IO_OUTPUT, IO_INPUT, IO_ACTIVE
<1>1. CASE BoardAbsent
  BY <1>1 DEF BoardAbsent, Respond, TypeOK, BusDevice, BoardDevice
<1>2. CASE BoardReject
  BY <1>2 DEF BoardReject, TypeOK
<1>3. CASE BoardTransfer
  <2>1. CASE Test(board, IO_OUTPUT)
    BY <1>3, <2>1 DEF BoardTransfer, Answered, dtr_intp, SLEEP_ACTIVE, DTR_ACTIVE, TypeOK
  <2>2. CASE ~Test(board, IO_OUTPUT)
    BY <1>3, <2>2 DEF BoardTransfer, Forwarded, Request, TypeOK, BusDevice, BoardDevice
  <2> QED
    BY <2>1, <2>2
<1>4. CASE RamExecutor
  <2>1. CASE RamWrite
    BY <1>4, <2>1 DEF RamWrite, RamDone, OneRequest, TypeOK, BusDevice, BoardDevice
  <2>2. CASE RamRead \/ RamOutOfRange
    <3>1. Test(board', IO_OUTPUT)
      <4>1. CASE RamRead
        BY <4>1 DEF RamRead, Respond, TypeOK, BusDevice, BoardDevice
      <4>2. CASE RamOutOfRange
        BY <4>2 DEF RamOutOfRange, Respond, TypeOK, BusDevice, BoardDevice
      <4> QED
        BY <2>2, <4>1, <4>2
    <3>2. core' = core
      BY <2>2 DEF RamRead, RamOutOfRange
    <3> QED
      BY <3>1, <3>2
  <2> QED
    BY <1>4, <2>1, <2>2 DEF RamExecutor
<1>5. CASE CpuSleep
  <2> DEFINE left == IF core.delay = 0 THEN DelayMod - 1 ELSE core.delay - 1
             bits == IF left = 0 THEN {"SLEEP_DELAY"} ELSE {}
  <2>1. core' = [[core EXCEPT !.status = @ \ bits] EXCEPT !.delay = left]
    BY <1>5 DEF CpuSleep
  <2>2. "SLEEP_MEM" \notin bits /\ "DTR_MEM" \notin bits
    OBVIOUS
  <2> HIDE DEF left, bits
  <2>3. /\ "SLEEP_MEM" \in core'.status <=> "SLEEP_MEM" \in core.status
        /\ "DTR_MEM" \in core'.status <=> "DTR_MEM" \in core.status
        /\ core'.bus_op = core.bus_op
    BY <2>1, <2>2 DEF TypeOK
  <2> QED
    BY <1>5, <2>3 DEF CpuSleep, OnlyCore
<1>6. CASE CpuAsksRead
  BY <1>6 DEF CpuAsksRead, CpuAsks, Request, TypeOK, BusDevice, BoardDevice
<1>7. CASE CpuExecutor /\ Awake /\ ~CpuAsksRead
  <2>1. ~Test(core', {"SLEEP_MEM"})
    <3> USE DEF Awake, SLEEP_ACTIVE, DTR_ACTIVE, CONTROL, TypeOK
    <3>1. CASE CpuAsksWrite \/ CpuMasksIntp \/ CpuTripleFault
      BY <1>7, <3>1 DEF CpuAsksWrite, CpuMasksIntp, CpuTripleFault, TripleFault
    <3>2. CASE CpuCache
      BY <1>7, <3>2 DEF CpuCache, dtr_mem_read, dtr_mem_write
    <3>3. CASE CpuTakesIntp
      BY <1>7, <3>3 DEF CpuTakesIntp, Accept, dtr_cache
    <3>4. CASE CpuInstruction
      <4>1. ASSUME NEW n, NEW bit \in {"SLEEP_DELAY", "SLEEP_TIMER"},
                   core' = [Set(core, {bit}) EXCEPT !.delay = n]
            PROVE  ~Test(core', {"SLEEP_MEM"})
        BY <1>7, <4>1
      <4>2. ASSUME NEW saved \in SUBSET CONTROL, core' = [core EXCEPT !.status = saved]
            PROVE  ~Test(core', {"SLEEP_MEM"})
        BY <4>2
      <4>3. ASSUME NEW id, core' = dtr_intp(core, id)
            PROVE  ~Test(core', {"SLEEP_MEM"})
        BY <4>3 DEF dtr_intp
      <4>4. CASE \/ core' = dtr_cache(core) \/ core' = Unset(core, {"RUNNING"})
                 \/ core' = Set(core, {"INTF"}) \/ core' = Unset(core, {"INTF"})
                 \/ core' = core
        BY <1>7, <4>4 DEF dtr_cache
      <4> QED
        <5> HIDE DEF Test, Set, Unset, CONTROL
        <5> QED
          BY <3>4, <4>1, <4>2, <4>3, <4>4 DEF CpuInstruction, AtInstruction, InsnStatus, InsnSwitch
    <3> QED
      BY <1>7, <3>1, <3>2, <3>3, <3>4 DEF CpuExecutor, CpuDetour, CpuSleep
  <2> QED
    BY <2>1
<1>8. ASSUME NEW t \in Timer, TimerExecutor(t)
      PROVE  NoLostWakeup'
  BY <1>8 DEF TimerExecutor, TimerEffect, dtr_intp, SLEEP_ACTIVE, DTR_ACTIVE, TypeOK
<1>9. CASE UNCHANGED vars
  BY <1>9 DEF vars
<1>10. CpuExecutor => CpuSleep \/ CpuAsksRead \/ (Awake /\ ~CpuAsksRead)
  BY DEF CpuExecutor, CpuDetour, CpuAsksRead, CpuAsksWrite, CpuAsks, CpuCache,
         CpuMasksIntp, CpuTripleFault, TripleFault,
         CpuTakesIntp, OnlyIntp, CpuInstruction, AtInstruction, InsnStatus, InsnSwitch
<1> QED
  BY <1>1, <1>2, <1>3, <1>4, <1>5, <1>6, <1>7, <1>8, <1>9, <1>10 DEF Next, BoardExecutor

-----------------------------------------------------------------------------
LEMMA NextInv == IInv /\ [Next]_vars => IInv'
BY NextType, NextAnswer, NextRequest, NextWakeup DEF IInv

LEMMA Invariance == Spec => []IInv
BY InitInv, NextInv, PTL DEF Spec

\* Every field of the four records keeps its range under any order of the
\* executors, any number of timers and any size of the memory.
THEOREM TypeCorrect == Spec => []TypeOK
<1>1. IInv => TypeOK
  BY DEF IInv
<1> QED
  BY <1>1, Invariance, PTL

\* A core asleep on the memory always has something on its way that wakes it,
\* in whatever order the executors of aasm.c are called.
THEOREM NeverLosesWakeup == Spec => []NoLostWakeup
<1>1. IInv => NoLostWakeup
  BY DEF IInv
<1> QED
  BY <1>1, Invariance, PTL

-----------------------------------------------------------------------------
(* The quiet machine.  A core that takes any other step than a sleeping    *)
(* one is awake, so it has no read under way.                              *)

LEMMA AwakeNoRead ==
    ASSUME OneReadPath, Awake
    PROVE  ~Reading(board) /\ ~Reading(ram) /\ ~Test(board, IO_OUTPUT)
BY DEF OneReadPath, Awake, Test, SLEEP_ACTIVE

\* A timer that does not cut the read that is under way leaves it alone
LEMMA TimerKeepsRead ==
    ASSUME TypeOK, NoLostWakeup, OneReadPath, ~CutsRead, NEW t \in Timer, TimerExecutor(t),
           Reading(board) \/ Reading(ram) \/ Test(board, IO_OUTPUT)
    PROVE  /\ Test(core', {"SLEEP_MEM"})
           /\ core'.bus_address = core.bus_address
<1>1. Test(core', {"DTR_MEM"})
  BY DEF CutsRead
<1>2. Test(core, {"SLEEP_MEM"})
  BY DEF OneReadPath
<1>3. \A c, id : "DTR_MEM" \notin dtr_intp(c, id).status
  BY DEF dtr_intp, Set, Unset, DTR_ACTIVE, SLEEP_ACTIVE
<1>4. core' \in {core, Unset(core, {"SLEEP_TIMER"}), Unset(core, {"RUNNING"}),
                 Unset(Unset(core, {"SLEEP_TIMER"}), {"RUNNING"})}
  BY <1>1, <1>3 DEF TimerExecutor, TimerEffect, Test
<1> QED
  BY <1>2, <1>4 DEF Unset, Test, TypeOK

LEMMA ReadPathNext ==
    Backed /\ IInv /\ OneReadPath /\ [Next]_vars /\ ~CutsRead => OneReadPath'
<1> SUFFICES ASSUME Backed, IInv, OneReadPath, [Next]_vars, ~CutsRead
             PROVE  OneReadPath'
  OBVIOUS
<1> USE DEF OneReadPath, Reading, Test, Set, Unset, IO_OUTPUT, IO_INPUT, IO_ACTIVE
<1>1. ~BoardAbsent
  BY DEF Backed, BoardAbsent, RamPresent, IInv, TypeOK, BoardDevice
<1>2. CASE BoardReject
  <2>1. ~Reading(board) => ~Test(core, {"SLEEP_MEM"})
    BY <1>2 DEF BoardReject, IInv, NoLostWakeup
  <2> QED
    BY <1>2, <2>1 DEF BoardReject, IInv, TypeOK, BusDevice, BoardDevice, OneRequest
<1>3. CASE BoardTransfer
  <2>1. CASE Test(board, IO_OUTPUT)
    BY <1>3, <2>1 DEF BoardTransfer, Forwarded, IInv, TypeOK, BusDevice, BoardDevice
  <2>2. CASE ~Test(board, IO_OUTPUT)
    BY <1>3, <2>2 DEF BoardTransfer, Forwarded, Request, IInv, TypeOK, BusDevice, BoardDevice
  <2> QED
    BY <2>1, <2>2
<1>4. CASE RamWrite
  BY <1>4 DEF RamWrite, RamDone, IInv, TypeOK, BusDevice, BoardDevice, OneRequest
<1>5. CASE RamRead
  <2>1. Reading(ram)
    BY <1>5 DEF RamRead, IInv, OneRequest
  <2>2. board' = [board EXCEPT !.status = board.status \cup {"IO_RESPONSE"},
                               !.bus_out = mem[ram.bus_address]]
    BY <1>5 DEF RamRead, Respond, IInv, TypeOK, BusDevice, BoardDevice
  <2> QED
    BY <1>5, <2>1, <2>2 DEF RamRead, RamDone, IInv, TypeOK, BusDevice, BoardDevice, OneRequest
<1>6. ~RamOutOfRange
  <2>1. ram.bus_address \in 0..(RamSize - 1)
    BY DEF Backed, IInv, TypeOK, BusDevice, BoardDevice
  <2> QED
    BY <2>1, BusAssumption DEF RamOutOfRange
<1>7. CASE CpuSleep
  <2>1. /\ Test(core', {"SLEEP_MEM"}) <=> Test(core, {"SLEEP_MEM"})
        /\ core'.bus_address = core.bus_address
    BY <1>7 DEF CpuSleep, IInv, TypeOK
  <2> QED
    BY <1>7, <2>1 DEF CpuSleep, OnlyCore
<1>8. CASE CpuAsksRead
  <2>1. Test(core', {"SLEEP_MEM"}) /\ core'.bus_address = core.bus_address
    BY <1>8 DEF CpuAsksRead, IInv, TypeOK
  <2>2. ~Reading(ram) /\ ~Test(board, IO_OUTPUT)
    BY <1>8, AwakeNoRead DEF CpuAsksRead, CpuAsks
  <2> QED
    BY <1>8, <2>1, <2>2 DEF CpuAsksRead, CpuAsks, Request, IInv, TypeOK, BusDevice, BoardDevice
<1>9. CASE CpuAsksWrite
  <2>1. ~Reading(board) /\ ~Reading(ram) /\ ~Test(board, IO_OUTPUT)
    BY <1>9, AwakeNoRead DEF CpuAsksWrite, CpuAsks
  <2> QED
    BY <1>9, <2>1 DEF CpuAsksWrite, CpuAsks, Request, IInv, TypeOK, BusDevice, BoardDevice
<1>10. CASE Awake /\ OnlyCore
  BY <1>10, AwakeNoRead DEF OnlyCore
<1>11. ASSUME NEW t \in Timer, TimerExecutor(t)
       PROVE  OneReadPath'
  <2>1. CASE Reading(board) \/ Reading(ram) \/ Test(board, IO_OUTPUT)
    BY <1>11, <2>1, TimerKeepsRead DEF TimerExecutor, IInv
  <2>2. CASE ~(Reading(board) \/ Reading(ram) \/ Test(board, IO_OUTPUT))
    BY <1>11, <2>2 DEF TimerExecutor
  <2> QED
    BY <2>1, <2>2
<1>12. CASE UNCHANGED vars
  BY <1>12 DEF vars
<1> QED
  BY <1>1, <1>2, <1>3, <1>4, <1>5, <1>6, <1>7, <1>8, <1>9, <1>10, <1>11, <1>12
     DEF Next, BoardExecutor, RamExecutor, CpuExecutor, CpuDetour, CpuCache, CpuMasksIntp,
         CpuTripleFault, TripleFault, CpuTakesIntp, OnlyIntp, CpuInstruction, AtInstruction, InsnStatus, InsnSwitch

\* Timers that do not interrupt cut nothing short
LEMMA QuietNext ==
    Quiet /\ IInv /\ OneReadPath /\ [Next]_vars => ~CutsRead
<1> SUFFICES ASSUME Quiet, IInv, OneReadPath, CutsRead
             PROVE  FALSE
  OBVIOUS
<1>1. PICK t \in Timer : TimerExecutor(t) /\ ~Test(core', {"DTR_MEM"})
  BY DEF CutsRead
<1>2. Test(core, {"DTR_MEM"})
  BY DEF CutsRead, OneReadPath, IInv, NoLostWakeup
<1>3. TimerMode[t] \cap {"INTP", "TSWITCH"} = {}
  BY DEF Quiet
<1>4. core' \in {core, Unset(core, {"SLEEP_TIMER"}), Unset(core, {"RUNNING"}),
                 Unset(Unset(core, {"SLEEP_TIMER"}), {"RUNNING"})}
  BY <1>1, <1>3 DEF TimerExecutor, TimerEffect
<1> QED
  BY <1>1, <1>2, <1>4 DEF Unset, Test, IInv, TypeOK

LEMMA InitPath == Init => OneReadPath
BY DEF Init, OneReadPath, Reading, Test

LEMMA PathMatches == IInv /\ OneReadPath => ReadsMatch
BY DEF IInv, NoLostWakeup, OneReadPath, ReadsMatch, Reading, Writing, Test, IO_OUTPUT, IO_INPUT

\* On a machine whose timers do not interrupt and whose memory covers every
\* address, each answer the board hands to the core is the answer to the read the
\* core sleeps on, with the cell's present word and no write overtaken.
THEOREM QuietReadsMatch ==
    ASSUME Quiet
    PROVE  Spec => []ReadsMatch
<1>1. IInv /\ OneReadPath /\ [Next]_vars => OneReadPath'
  BY QuietNext, ReadPathNext DEF Quiet
<1> QED
  BY <1>1, InitPath, PathMatches, Invariance, PTL DEF Spec
=============================================================================
