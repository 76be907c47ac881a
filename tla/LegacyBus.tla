------------------------------ MODULE LegacyBus ------------------------------
(***************************************************************************)
(* The memory path of the Kyanite "Legacy" machine (kyanite_legacy.c): the *)
(* CPU core, the board that carries its bus and the RAM bank behind it.    *)
(*                                                                         *)
(* A device is reached through the request and response bits of its own    *)
(* status word: the CPU writes a request into the board, the board copies  *)
(* it into the RAM, the RAM writes its answer into the board and the board *)
(* writes it into the CPU.  Nothing else synchronises the three executors, *)
(* so this module lets them run in any order and at any relative speed:    *)
(* LegacyMachine puts them under the scheduler of aasm.c.                  *)
(*                                                                         *)
(* The CPU's detours and sleeps are modelled in full; what the cache lines *)
(* and the instructions hold is not: where the code looks at them (a hit   *)
(* or a miss, a dirty line, the opcode) the model takes any outcome.       *)
(***************************************************************************)
EXTENDS Integers

CONSTANTS
    Addr,        \* the 16-bit bus addresses in use
    RamSize,     \* ram_size: addresses from RamSize on have no cell
    Value,       \* the 32-bit words in use
    RamImage,    \* the contents the RAM may start with
    RamId,       \* the ram_id a board may have: the RAM's index, or 0xFF for none
    DelayMod,    \* 2^16, the modulus of the core's delay register
    RetryCap,    \* 0xFF, where the count of a read's attempts saturates
    Timer,       \* the ids of the core's timers, a subset of 0..3
    TimerMode,   \* the status bits of each timer
    SoftInt,     \* operands of INT in use
    Saved        \* the status words that task slots hold

ASSUME BusAssumption ==
    /\ Addr \subseteq Nat
    /\ RamSize \in Nat
    /\ 0..(RamSize - 1) \subseteq Addr
    /\ RamImage \subseteq [0..(RamSize - 1) -> Value]
    /\ RamId \subseteq 0..255
    /\ DelayMod \in Nat /\ RetryCap \in Nat
    /\ 0 < RetryCap /\ RetryCap < DelayMod
    /\ Timer \subseteq 0..(DelayMod - 1) /\ Timer \subseteq 0..3
    /\ TimerMode \in [Timer -> SUBSET {"AUTO", "CLEAR", "STOP", "INTP",
                                       "WATCHDOG", "WAKEUP", "TSWITCH"}]
    /\ SoftInt \subseteq 0..255

VARIABLES
    core,   \* kyanite_legacy_cpu_t, without its registers and cache lines
    board,  \* kyanite_legacy_board_t
    ram,    \* kyanite_legacy_ram_t, without its cells
    mem     \* ram_data

vars == <<core, board, ram, mem>>

-----------------------------------------------------------------------------
(* The status bits, and the masks the code tests them with. *)

IO_INPUT  == {"IO_READ", "IO_WRITE"}
IO_OUTPUT == {"IO_RESPONSE", "IO_INTP"}
IO_ACTIVE == IO_INPUT \cup IO_OUTPUT

\* Mutant: the mask is one bit short
SLEEP_ACTIVE_NoMem == {"SLEEP_DELAY", "SLEEP_TIMER"}
SLEEP_ACTIVE == {"SLEEP_DELAY", "SLEEP_TIMER", "SLEEP_MEM"}
DTR_ACTIVE   == {"DTR_CACHE", "DTR_INTP", "DTR_MEM"}
CONTROL      == {"RUNNING", "INTF", "DFAULT", "TFAULT"}

INT_UD == 1   INT_MR == 2   INT_IO == 3   INT_DV == 4   INT_DF == 6
INT_LAST_NMI == 31   INT_TIMER0 == 32   INT_TS == 36

Absent == 255

Interrupt == {INT_UD, INT_MR, INT_IO, INT_DV, INT_DF, INT_TS}
             \cup {INT_TIMER0 + t : t \in Timer} \cup SoftInt

Test(dev, bits) == dev.status \cap bits # {}          \* ST_TEST
Set(dev, bits)  == [dev EXCEPT !.status = @ \cup bits] \* ST_SET
Unset(dev, bits) == [dev EXCEPT !.status = @ \ bits]   \* ST_UNSET

-----------------------------------------------------------------------------
(* The two bus macros write into the other device; each gives up, and      *)
(* makes its caller return, while that side of the device is taken.  The   *)
(* callers below carry that guard.                                         *)

\* BUS_RESP, BUS_RESPM after their test
Respond(dev, bits, value) == [Set(dev, bits) EXCEPT !.bus_out = value]

\* BUS_REQ, BUS_REQM after their test
Request(dev, bits, address, value) ==
    [Set(dev, bits) EXCEPT !.bus_address = address, !.bus_in = value]

dtr_intp(c, id) ==
    [Set(Unset(c, DTR_ACTIVE \cup SLEEP_ACTIVE), {"DTR_INTP"})
        EXCEPT !.intp_id = id, !.intp_phase = "raised"]

dtr_mem_read(c, address) ==
    [Set(c, {"DTR_MEM"})
        EXCEPT !.bus_op = "IO_READ", !.tries = 0, !.bus_address = address]

dtr_mem_write(c, address, value) ==
    [Set(c, {"DTR_MEM"})
        EXCEPT !.bus_op = "IO_WRITE", !.tries = 0, !.bus_address = address,
               !.bus_data = value]

dtr_cache(c) == Set(c, {"DTR_CACHE"})

-----------------------------------------------------------------------------
(* The state of a machine that has just been put together: no device has a *)
(* request, the core runs.                                                 *)

Init ==
    \E a \in Addr, v \in Value, id \in RamId :
        LET idle == [status |-> {}, bus_address |-> a, bus_in |-> v, bus_out |-> v]
        IN  /\ core = [status |-> {"RUNNING"}, bus_op |-> "IO_READ", tries |-> 0,
                       bus_address |-> a, bus_data |-> v, delay |-> 0,
                       intp_id |-> INT_UD, intp_phase |-> "raised"]
            /\ board = [status |-> {}, bus_address |-> a, bus_in |-> v, bus_out |-> v,
                        ram_id |-> id]
            /\ ram = idle
            /\ mem \in RamImage

-----------------------------------------------------------------------------
(* kyanite_legacy_ram_executor *)

RamDone == ram' = Unset(ram, IO_ACTIVE)

\* Mutant: the request stays when it has been carried out
RamWrite_Stays ==
    /\ Test(ram, {"IO_WRITE"})
    /\ ram.bus_address < RamSize
    /\ mem' = [mem EXCEPT ![ram.bus_address] = ram.bus_in]
    /\ UNCHANGED <<core, board, ram>>

RamWrite ==
    /\ Test(ram, {"IO_WRITE"})
    /\ ram.bus_address < RamSize
    /\ mem' = [mem EXCEPT ![ram.bus_address] = ram.bus_in]
    /\ RamDone
    /\ UNCHANGED <<core, board>>

\* Mutant: the answer's bit is missing
RamRead_NoBit ==
    /\ Test(ram, IO_ACTIVE) /\ ~Test(ram, {"IO_WRITE"})
    /\ ram.bus_address < RamSize
    /\ ~Test(board, IO_OUTPUT)
    /\ board' = Respond(board, {}, mem[ram.bus_address])
    /\ RamDone
    /\ UNCHANGED <<core, mem>>

RamRead ==
    /\ Test(ram, IO_ACTIVE) /\ ~Test(ram, {"IO_WRITE"})
    /\ ram.bus_address < RamSize
    /\ ~Test(board, IO_OUTPUT)
    /\ board' = Respond(board, {"IO_RESPONSE"}, mem[ram.bus_address])
    /\ RamDone
    /\ UNCHANGED <<core, mem>>

RamOutOfRange ==
    /\ Test(ram, IO_ACTIVE)
    /\ ram.bus_address >= RamSize
    /\ ~Test(board, IO_OUTPUT)
    /\ board' = Respond(board, {"IO_INTP"}, INT_MR)
    /\ RamDone
    /\ UNCHANGED <<core, mem>>

RamExecutor == RamWrite \/ RamRead \/ RamOutOfRange

-----------------------------------------------------------------------------
(* kyanite_legacy_board_executor.  BOARD_BUS_IO is set only for a request  *)
(* whose bus_status has 0x2000, which no caller asks for, so the device is *)
(* always the RAM.                                                         *)

RamPresent == board.ram_id # Absent

\* No such device.  The board answers itself, unless an answer is pending:
\* then BUS_RESP returns and both sides stay as they are.
BoardAbsent ==
    /\ Test(board, IO_INPUT)
    /\ ~RamPresent
    /\ ~Test(board, IO_OUTPUT)
    /\ board' = Unset(Respond(board, {"IO_INTP"}, INT_IO), IO_INPUT)
    /\ UNCHANGED <<core, ram, mem>>

\* Mutant: the core is not let go
BoardReject_NoWake ==
    /\ Test(board, IO_INPUT)
    /\ RamPresent
    /\ Test(ram, IO_INPUT)
    /\ board' = Unset(board, IO_INPUT)
    /\ UNCHANGED <<core, ram, mem>>

\* The RAM still works on an earlier request: this one is dropped and the
\* core, if it waits, is let go to ask again.
BoardReject ==
    /\ Test(board, IO_INPUT)
    /\ RamPresent
    /\ Test(ram, IO_INPUT)
    /\ core' = Unset(core, {"SLEEP_MEM"})
    /\ board' = Unset(board, IO_INPUT)
    /\ UNCHANGED <<ram, mem>>

Forwarded ==
    IF Test(board, IO_INPUT)
      THEN Request(ram, board.status \cap IO_INPUT, board.bus_address, board.bus_in)
      ELSE ram

\* Mutants: a response leaves the sleep, the detour or the data register alone
Answered_Asleep ==
    LET awake == Unset(core, {"SLEEP_DELAY"})
    IN  IF Test(board, {"IO_RESPONSE"})
          THEN [Unset(awake, {"DTR_MEM"}) EXCEPT !.bus_data = board.bus_out]
          ELSE dtr_intp(awake, board.bus_out)

Answered_Detour ==
    LET awake == Unset(core, {"SLEEP_DELAY", "SLEEP_MEM"})
    IN  IF Test(board, {"IO_RESPONSE"})
          THEN [awake EXCEPT !.bus_data = board.bus_out]
          ELSE dtr_intp(awake, board.bus_out)

Answered_NoData ==
    LET awake == Unset(core, {"SLEEP_DELAY", "SLEEP_MEM"})
    IN  IF Test(board, {"IO_RESPONSE"})
          THEN Unset(awake, {"DTR_MEM"})
          ELSE dtr_intp(awake, board.bus_out)

\* The core after the board's pending answer has reached it
Answered ==
    LET awake == Unset(core, {"SLEEP_DELAY", "SLEEP_MEM"})
    IN  IF Test(board, {"IO_RESPONSE"})
          THEN [Unset(awake, {"DTR_MEM"}) EXCEPT !.bus_data = board.bus_out]
          ELSE dtr_intp(awake, board.bus_out)

BoardTransfer ==
    /\ Test(board, IO_ACTIVE)
    /\ Test(board, IO_INPUT) => RamPresent /\ ~Test(ram, IO_INPUT)
    /\ ram' = Forwarded
    /\ core' = IF Test(board, IO_OUTPUT) THEN Answered ELSE core
    /\ board' = Unset(board, IO_INPUT \cup IO_OUTPUT)
    /\ UNCHANGED mem

BoardExecutor == BoardAbsent \/ BoardReject \/ BoardTransfer

-----------------------------------------------------------------------------
(* kyanite_legacy_timer_executor once the counter has reached its limit;   *)
(* the counter itself is in LegacyMachine.                                 *)

TimerEffect(c, t) ==
    LET woken == IF /\ "WAKEUP" \in TimerMode[t]
                    /\ Test(c, {"SLEEP_TIMER"})
                    /\ c.delay = t
                   THEN Unset(c, {"SLEEP_TIMER"})
                   ELSE c
    IN  IF "WATCHDOG" \in TimerMode[t] THEN Unset(woken, {"RUNNING"})
        ELSE IF "TSWITCH" \in TimerMode[t] THEN dtr_intp(woken, INT_TS)
        ELSE IF "INTP" \in TimerMode[t] THEN dtr_intp(woken, INT_TIMER0 + t)
        ELSE woken

TimerExecutor(t) ==
    /\ core' = TimerEffect(core, t)
    /\ UNCHANGED <<board, ram, mem>>

-----------------------------------------------------------------------------
(* kyanite_legacy_cpu_executor: a sleep comes before a detour, and the     *)
(* detours in the order memory, cache, interrupt before any instruction.   *)

Awake == ~Test(core, SLEEP_ACTIVE)
OnlyCore == UNCHANGED <<board, ram, mem>>

\* A delay of 0 is decremented first and so lasts DelayMod calls
CpuSleep ==
    /\ Test(core, {"SLEEP_DELAY"})
    /\ LET left == IF core.delay = 0 THEN DelayMod - 1 ELSE core.delay - 1
       IN  core' = [Unset(core, IF left = 0 THEN {"SLEEP_DELAY"} ELSE {})
                       EXCEPT !.delay = left]
    /\ OnlyCore

\* The first half of the memory detour, common to both requests
CpuAsks ==
    /\ Awake
    /\ Test(core, {"DTR_MEM"})
    /\ ~Test(board, IO_INPUT)
    /\ board' = Request(board, {core.bus_op}, core.bus_address, core.bus_data)
    /\ UNCHANGED <<ram, mem>>

\* Mutant: the count of attempts does not saturate
CpuAsksRead_NoCap ==
    /\ CpuAsks
    /\ core.bus_op = "IO_READ"
    /\ core' = [Set(core, {"SLEEP_DELAY", "SLEEP_MEM"})
                   EXCEPT !.tries = @ + 1, !.delay = core.tries + 1]

CpuAsksRead ==
    /\ CpuAsks
    /\ core.bus_op = "IO_READ"
    /\ LET tries == IF core.tries < RetryCap THEN core.tries + 1 ELSE core.tries
       IN  core' = [Set(core, {"SLEEP_DELAY", "SLEEP_MEM"})
                       EXCEPT !.tries = tries, !.delay = tries]

\* A write is posted: the core does not wait to hear of it
CpuAsksWrite ==
    /\ CpuAsks
    /\ core.bus_op = "IO_WRITE"
    /\ core' = Unset(core, {"DTR_MEM"})

\* One call of the cache detour: a word to write back, a word to fetch, or
\* the line complete.  LegacyCache says which.
CpuCache ==
    /\ Awake /\ ~Test(core, {"DTR_MEM"})
    /\ Test(core, {"DTR_CACHE"})
    /\ \/ \E a \in Addr, v \in Value : core' = dtr_mem_write(core, a, v)
       \/ \E a \in Addr : core' = dtr_mem_read(core, a)
       \/ core' = Unset(core, {"DTR_CACHE"})
    /\ OnlyCore

OnlyIntp == Awake /\ Test(core, {"DTR_INTP"}) /\ ~Test(core, {"DTR_MEM", "DTR_CACHE"})
Masked == ~Test(core, {"INTF"}) /\ core.intp_id > INT_LAST_NMI

CpuMasksIntp ==
    /\ OnlyIntp /\ Masked
    /\ core' = Unset(core, {"DTR_INTP"})
    /\ OnlyCore

\* An interrupt in a core that has had two faults
TripleFault ==
    OnlyIntp /\ ~Masked /\ core.intp_phase = "raised" /\ Test(core, {"TFAULT"})

CpuTripleFault ==
    /\ TripleFault
    /\ core' = Unset(core, {"RUNNING"})
    /\ OnlyCore

Accept(c) ==
    IF c.intp_phase = "accepted" THEN c
    ELSE IF Test(c, {"DFAULT"})
      THEN [Set(c, {"TFAULT"}) EXCEPT !.intp_id = INT_DF, !.intp_phase = "accepted"]
      ELSE [Set(c, {"DFAULT"}) EXCEPT !.intp_phase = "accepted"]

\* The vector and the stack slot must both be in the cache
CpuTakesIntp ==
    /\ OnlyIntp /\ ~Masked
    /\ core.intp_phase = "accepted" \/ ~Test(core, {"TFAULT"})
    /\ \/ core' = dtr_cache(Accept(core))
       \/ core' = Unset(Accept(core), SLEEP_ACTIVE \cup {"INTF", "DTR_INTP"})
    /\ OnlyCore

\* kyanite_legacy_cpu_normal_parser, as far as it writes what is modelled here
AtInstruction == Awake /\ ~Test(core, DTR_ACTIVE) /\ OnlyCore

InsnStatus ==
    \/ \E id \in {INT_UD, INT_DV} \cup SoftInt : core' = dtr_intp(core, id)
    \/ core' = Unset(core, {"RUNNING"})                \* HALT
    \/ \E n \in 0..(DelayMod - 1) :                    \* SLEEP
          core' = [Set(core, {"SLEEP_DELAY"}) EXCEPT !.delay = n]
    \/ \E t \in 0..255 \cap 0..(DelayMod - 1) :        \* WAIT
          core' = [Set(core, {"SLEEP_TIMER"}) EXCEPT !.delay = t]
    \/ core' = Set(core, {"INTF"})                     \* SEI
    \/ core' = Unset(core, {"INTF"})                   \* CLI

\* A task slot holds the status of a task at its own TSW, where no sleep and no
\* detour is under way, or nothing yet.  A second fault comes after a first one.
InsnSwitch ==
    \E saved \in SUBSET CONTROL :
        /\ saved \in Saved
        /\ "TFAULT" \in saved => "DFAULT" \in saved
        /\ core' = [core EXCEPT !.status = saved]

CpuInstruction ==
    /\ AtInstruction
    /\ \/ core' = dtr_cache(core)                         \* CACHE_CHECK
       \/ InsnStatus
       \/ InsnSwitch
       \/ core' = core                                    \* any other

\* The calls that do something else than an instruction
CpuDetour ==
    \/ CpuSleep \/ CpuAsksRead \/ CpuAsksWrite \/ CpuCache
    \/ CpuMasksIntp \/ CpuTripleFault \/ CpuTakesIntp

CpuExecutor == CpuDetour \/ CpuInstruction

-----------------------------------------------------------------------------
Next ==
    \/ BoardExecutor
    \/ RamExecutor
    \/ CpuExecutor
    \/ \E t \in Timer : TimerExecutor(t)

Spec == Init /\ [][Next]_vars

(* The scheduler calls the executor of a running device again and again    *)
(* (Execute, and LegacyMachine for these three).  Nothing stops the board  *)
(* or the RAM; the core is called while it runs.  At an instruction that   *)
(* promises nothing: the instruction may be one that does nothing here.    *)
Fairness ==
    /\ WF_vars(BoardExecutor)
    /\ WF_vars(RamExecutor)
    /\ WF_vars(Test(core, {"RUNNING"}) /\ CpuDetour)

FairSpec == Spec /\ Fairness

-----------------------------------------------------------------------------
(* Properties *)

BusDevice ==
    [status : SUBSET IO_ACTIVE, bus_address : Addr, bus_in : Value,
     bus_out : Value \cup {INT_MR, INT_IO}]

BoardDevice ==
    [status : SUBSET IO_ACTIVE, bus_address : Addr, bus_in : Value,
     bus_out : Value \cup {INT_MR, INT_IO}, ram_id : RamId]

TypeOK ==
    /\ core \in [status : SUBSET (CONTROL \cup SLEEP_ACTIVE \cup DTR_ACTIVE),
                 bus_op : {"IO_READ", "IO_WRITE"}, tries : 0..RetryCap,
                 bus_address : Addr, bus_data : Value, delay : 0..(DelayMod - 1),
                 intp_id : Interrupt, intp_phase : {"raised", "accepted"}]
    /\ board \in BoardDevice
    /\ ram \in BusDevice
    /\ mem \in [0..(RamSize - 1) -> Value]

Reading(dev) == Test(dev, {"IO_READ"})

\* The word an answer carries is data for a response and an interrupt's number
\* for an interrupt, and an answer is never both.
AnswerOK ==
    /\ Test(board, {"IO_RESPONSE"}) => board.bus_out \in Value
    /\ Test(board, {"IO_INTP"}) => board.bus_out \in {INT_MR, INT_IO}
    /\ ~(IO_OUTPUT \subseteq board.status)

\* A device holds one request: the RAM tests the write bit first, so a read
\* merged with a write would be swallowed.  Nothing answers to the RAM.
OneRequest ==
    /\ ~(IO_INPUT \subseteq board.status)
    /\ ram.status \subseteq IO_INPUT /\ ram.status # IO_INPUT

\* A core asleep on the memory (SLEEP_MEM, main.h:98) has a read scheduled,
\* and something is on its way that ends the sleep: the request in the board,
\* the request in the RAM or an answer in the board.  Only the board clears
\* SLEEP_MEM, so a core asleep with all three gone would never wake.
NoLostWakeup ==
    Test(core, {"SLEEP_MEM"}) =>
        /\ Test(core, {"DTR_MEM"}) /\ core.bus_op = "IO_READ"
        /\ Reading(board) \/ Reading(ram) \/ Test(board, IO_OUTPUT)

Writing(dev) == Test(dev, {"IO_WRITE"})

\* The inductive invariant behind TypeOK and NoLostWakeup
IInv == TypeOK /\ AnswerOK /\ OneRequest /\ NoLostWakeup

\* Every address has a cell
Backed == Absent \notin RamId /\ Addr = 0..(RamSize - 1)

\* What can cut a read short or answer a request that nobody waits for: a
\* timer that interrupts, a write to a missing cell, a missing RAM.
Quiet ==
    /\ Backed
    /\ \A t \in Timer : TimerMode[t] \cap {"INTP", "TSWITCH"} = {}

\* Two steps of the bus leave the core with the wrong words: the board rejects a
\* posted write, and a timer interrupts a read that is already under way, whose
\* answer then goes to another.  machine_lost and machine_stale reach them on slow
\* RAMs.
LosesWrite == BoardReject /\ Writing(board)
CutsRead ==
    /\ Reading(board) \/ Reading(ram) \/ Test(board, IO_OUTPUT)
    /\ \E t \in Timer : TimerExecutor(t) /\ ~Test(core', {"DTR_MEM"})

\* While nothing cuts a read short, the one read the core sleeps on is in one place at a time:
\* first in the board, then in the RAM, then answered in the board.
OneReadPath ==
    /\ ~Test(board, {"IO_INTP"})
    /\ Reading(board) => /\ Test(core, {"SLEEP_MEM"})
                         /\ board.bus_address = core.bus_address
                         /\ ~Reading(ram) /\ ~Test(board, IO_OUTPUT)
    /\ Reading(ram) => /\ Test(core, {"SLEEP_MEM"})
                       /\ ram.bus_address = core.bus_address
                       /\ ~Test(board, IO_ACTIVE)
    /\ Test(board, IO_OUTPUT) => /\ Test(core, {"SLEEP_MEM"})
                                 /\ board.bus_out = mem[core.bus_address]
                                 /\ ~Test(board, IO_INPUT) /\ ~Test(ram, IO_INPUT)

\* An answer carries no address: the board hands it to whatever read the core
\* has scheduled (kyanite_legacy.c:389-391).  While nothing cuts a read short, the
\* answer in the board is the answer to the read the core sleeps on, holds the
\* cell's present word, and no posted write is still on its way.
ReadsMatch ==
    Test(board, {"IO_RESPONSE"}) =>
        /\ Test(core, {"SLEEP_MEM"})
        /\ Test(core, {"DTR_MEM"}) /\ core.bus_op = "IO_READ"
        /\ board.bus_out = mem[core.bus_address]
        /\ ~Writing(board) /\ ~Writing(ram)

\* The sleep on a memory operation (kyanite_legacy.c:459) ends, by an answer,
\* a rejection or an interrupt, whatever the core does meanwhile.  (Not without a
\* RAM: there a new request and the interrupt that answers an earlier one can
\* block each other in the board, kyanite_legacy.c:371.)
Wakes ==
    Test(core, {"SLEEP_MEM"}) /\ RamPresent ~> ~Test(core, {"SLEEP_MEM"})

\* A scheduled access, refused and retried with a growing delay or not, is
\* over some time: done or abandoned for an interrupt, unless the core stops.
AccessEnds ==
    Test(core, {"DTR_MEM"}) /\ RamPresent
        ~> ~Test(core, {"DTR_MEM"}) \/ ~Test(core, {"RUNNING"})

\* main.h:34 "Reset on triple fault": a running core that comes to a triple fault is
\* running again afterwards, with its faults cleared.
ResetOnTripleFault ==
    TripleFault /\ Test(core, {"RUNNING"})
        ~> Test(core, {"RUNNING"}) /\ ~Test(core, {"DFAULT", "TFAULT"})
=============================================================================
