-------------------------- MODULE LegacyCacheProofs --------------------------
(* The core with its cache uses the bus as LegacyBus says, for every geometry  *)
(* of the cache; so it inherits what is proved there.  And what the detour of  *)
(* the cache leaves in a line and in the memory is what belongs there.         *)
EXTENDS LegacyCache, LegacyBusProofs

-----------------------------------------------------------------------------
(* The parts of an address. *)

\* A product of bounded factors is bounded
LEMMA Product ==
    ASSUME NEW m \in Nat, NEW n \in Nat, NEW i \in 0..(m - 1), NEW j \in 0..(n - 1)
    PROVE  i * n + j \in 0..(m * n - 1)
<1>1. i * n \in Nat /\ m * n \in Nat
  BY SMT
<1>2. (i + 1) * n = i * n + n
  BY SMT
<1>3. (i + 1) * n <= m * n
  BY SMT
<1> QED
  BY <1>1, <1>2, <1>3

LEMMA Quotient ==
    ASSUME NEW m \in Nat \ {0}, NEW n \in Nat \ {0}, NEW w \in 0..(m * n - 1)
    PROVE  w \div n \in 0..(m - 1)
<1>1. m * n \in Nat
  BY SMT
<1>2. w \in Nat /\ w \div n \in Int /\ w % n \in 0..(n - 1)
  BY <1>1, SMT
<1>3. w = n * (w \div n) + (w % n)
  BY <1>2, SMT
<1>4. w \div n >= 0
  BY <1>2, SMT
<1>5. ASSUME w \div n >= m
      PROVE  FALSE
  BY <1>1, <1>2, <1>3, <1>5, SMT
<1> QED
  BY <1>2, <1>4, <1>5

LEMMA Address ==
    ASSUME NEW w \in Word
    PROVE  /\ LineOf(w) \in 0..(Lines - 1)
           /\ TagOf(w) \in 0..(Tags - 1)
           /\ OffsetOf(w) \in 0..(LineWords - 1)
<1> USE CacheAssumption
<1>1. w \in Nat
  <2>1. Words \in Nat
    BY SMT DEF Words
  <2> QED
    BY <2>1 DEF Word
<1>2. LineOf(w) \in 0..(Lines - 1)
  BY <1>1, SMT DEF LineOf
<1>3. OffsetOf(w) \in 0..(LineWords - 1)
  BY <1>1, SMT DEF OffsetOf
<1>4. TagOf(w) \in 0..(Tags - 1)
  <2>1. LineWords * Lines \in Nat \ {0}
    BY SMT
  <2>2. Words = Tags * (LineWords * Lines)
    BY SMT DEF Words
  <2> QED
    BY <2>1, <2>2, Quotient DEF Word, TagOf
<1> QED
  BY <1>2, <1>3, <1>4

LEMMA WordAtType ==
    ASSUME NEW tag \in 0..(Tags - 1), NEW line \in 0..(Lines - 1),
           NEW offset \in 0..(LineWords - 1)
    PROVE  WordAt(tag, line, offset) \in Word
<1> USE CacheAssumption
<1>1. tag * Lines + line \in 0..(Tags * Lines - 1)
  BY Product
<1>2. Tags * Lines \in Nat
  BY SMT
<1>3. (tag * Lines + line) * LineWords + offset \in 0..((Tags * Lines) * LineWords - 1)
  BY <1>1, <1>2, Product
<1> QED
  BY <1>3 DEF WordAt, Word, Words

LEMMA StackWordType ==
    ASSUME NEW slot \in Slot
    PROVE  StackWord(slot) \in Word
<1>1. Words \in Nat \ {0}
  BY CacheAssumption, SMT DEF Words
<1> QED
  BY <1>1, SMT DEF Slot, Word, StackWord

\* Every bus address that a detour forms is one
LEMMA Reached ==
    /\ Word \subseteq Addr
    /\ \A w \in Word, k \in 0..(2 * LineWords - 1) : w + k \in Addr
<1>1. Words \in Nat \ {0} /\ LineWords \in Nat \ {0}
  BY CacheAssumption, SMT DEF Words
<1> QED
  BY <1>1, CacheAssumption, SMT DEF Word

-----------------------------------------------------------------------------
(* Each step of the core is a step of the core that LegacyBus leaves open. *)

LEMMA AcceptType ==
    ASSUME TypeOK
    PROVE  Accept(core) \in CoreType /\ Vector \in Word
<1>1. Accept(core) \in CoreType
  BY CoreOps DEF TypeOK, CoreType
<1>2. Accept(core).intp_id \in Interrupt
  BY <1>1 DEF CoreType
<1> QED
  BY <1>1, <1>2, CacheAssumption DEF Vector

LEMMA CacheDetourStep ==
    ASSUME TypeOK, CacheTypeOK, CacheSkips \/ CacheWrites \/ CacheReads \/ CacheDone
    PROVE  [Next]_vars
<1>1. CASE CacheSkips
  BY <1>1 DEF CacheSkips
<1>2. cache.address \in Word /\ cache.status \in 0..(2 * LineWords)
      /\ Line \in 0..(Lines - 1)
  BY Address DEF CacheTypeOK, Line
<1>3. CASE CacheWrites
  <2>1. cache.status \in 0..(LineWords - 1)
    BY <1>2, <1>3, CacheAssumption DEF CacheWrites
  <2>2. lines[Line].tag \in 0..(Tags - 1) /\ lines[Line].data[cache.status] \in Value
    BY <1>2, <2>1 DEF CacheTypeOK
  <2>3. WordAt(lines[Line].tag, Line, cache.status) \in Addr
    BY <1>2, <2>1, <2>2, WordAtType, Reached
  <2>4. CpuCache
    BY <1>3, <2>2, <2>3 DEF CacheWrites, CpuCache, InCache
  <2> QED
    BY <2>4 DEF Next, CpuExecutor, CpuDetour
<1>4. CASE CacheReads
  <2>1. cache.status \in 0..(2 * LineWords - 1)
    BY <1>2, <1>4, CacheAssumption DEF CacheReads
  <2>2. cache.address + cache.status \in Addr
    BY <1>2, <2>1, Reached
  <2>3. CpuCache
    BY <1>4, <2>2 DEF CacheReads, CpuCache, InCache
  <2> QED
    BY <2>3 DEF Next, CpuExecutor, CpuDetour
<1>5. CASE CacheDone
  <2>1. CpuCache
    BY <1>5 DEF CacheDone, CpuCache, InCache
  <2> QED
    BY <2>1 DEF Next, CpuExecutor, CpuDetour
<1> QED
  BY <1>1, <1>3, <1>4, <1>5

LEMMA CacheStep == TypeOK /\ CacheTypeOK /\ [CacheNext]_cacheVars => [Next]_vars
<1> SUFFICES ASSUME TypeOK, CacheTypeOK, [CacheNext]_cacheVars
             PROVE  [Next]_vars
  OBVIOUS
<1>1. CASE CacheSkips \/ CacheWrites \/ CacheReads \/ CacheDone
  BY <1>1, CacheDetourStep
<1>2. CASE IntpFetches \/ IntpDelivered
  <2>1. CpuTakesIntp
    BY <1>2 DEF IntpFetches, IntpDelivered, IntpProceeds, CpuTakesIntp, Fetch
  <2> QED
    BY <2>1 DEF Next, CpuExecutor, CpuDetour
<1>3. CASE InsnFetches \/ InsnStores \/ InsnSetsSp \/ InsnControls
  <2>1. CpuInstruction
    BY <1>3 DEF InsnFetches, InsnStores, InsnSetsSp, InsnControls, CpuInstruction, Fetch
  <2> QED
    BY <2>1 DEF Next, CpuExecutor, CpuDetour
<1>4. CASE UNCHANGED cacheVars
  BY <1>4 DEF cacheVars, vars
<1> QED
  BY <1>1, <1>2, <1>3, <1>4 DEF CacheNext, CoreExecutor, CoreDetour, Next, CpuExecutor, CpuDetour

-----------------------------------------------------------------------------
(* The types of the lines, the detour's counter and the stack pointer. *)

LineType == [valid : BOOLEAN, dirty : BOOLEAN, tag : 0..(Tags - 1),
             data : [0..(LineWords - 1) -> Value]]
LinesType == [0..(Lines - 1) -> LineType]

\* What a store and a store that spills leave are lines
LEMMA StoreType ==
    ASSUME lines \in LinesType, NEW w \in Word, NEW v \in Value, NEW behind \in Value
    PROVE  Stored(w, v) \in LinesType /\ Spilled(w, v, behind) \in LinesType
<1>1. LineOf(w) \in 0..(Lines - 1) /\ OffsetOf(w) \in 0..(LineWords - 1)
  BY Address
<1>2. Stored(w, v) \in LinesType
  BY <1>1 DEF Stored, LinesType, LineType
<1>3. CASE OffsetOf(w) < LineWords - 1
  BY <1>1, <1>2, <1>3 DEF Spilled, LinesType, LineType
<1>4. CASE ~(OffsetOf(w) < LineWords - 1) /\ LineOf(w) < Lines - 1
  BY <1>1, <1>2, <1>4 DEF Spilled, LinesType, LineType
<1>5. CASE ~(OffsetOf(w) < LineWords - 1) /\ ~(LineOf(w) < Lines - 1)
  BY <1>2, <1>5 DEF Spilled
<1> QED
  BY <1>2, <1>3, <1>4, <1>5

LEMMA CacheTypeNext == TypeOK /\ CacheTypeOK /\ [CacheNext]_cacheVars => CacheTypeOK'
<1> SUFFICES ASSUME TypeOK, CacheTypeOK, [CacheNext]_cacheVars
             PROVE  CacheTypeOK'
  OBVIOUS
<1> DEFINE CacheType == [status : 0..(2 * LineWords), address : Word]
<1>1. lines \in LinesType /\ cache \in CacheType /\ sp \in Slot
  BY DEF CacheTypeOK, LinesType, LineType
<1>2. SUFFICES lines' \in LinesType /\ cache' \in CacheType /\ sp' \in Slot
  BY DEF CacheTypeOK, LinesType, LineType
<1>3. cache.address \in Word /\ cache.status \in 0..(2 * LineWords)
      /\ Line \in 0..(Lines - 1) /\ TagOf(cache.address) \in 0..(Tags - 1)
  BY <1>1, Address DEF Line
<1>4. core.bus_data \in Value
  BY DEF TypeOK
<1>5. Fetched \in [0..(LineWords - 1) -> Value]
  BY <1>1, <1>3, <1>4 DEF LinesType, LineType, Fetched
<1>6. \A w \in Word : [status |-> 0, address |-> w] \in CacheType
  BY CacheAssumption
<1>7. \A n \in 0..(2 * LineWords) : [cache EXCEPT !.status = n] \in CacheType
  BY <1>1
<1>8. CASE UNCHANGED inside
  BY <1>1, <1>8 DEF inside
<1>9. CASE CacheSkips
  <2>1. LineWords \in 0..(2 * LineWords)
    BY CacheAssumption
  <2> QED
    BY <1>1, <1>7, <1>9, <2>1 DEF CacheSkips
<1>10. CASE CacheWrites
  <2>1. cache.status + 1 \in 0..(2 * LineWords)
    BY <1>3, <1>10, CacheAssumption DEF CacheWrites
  <2> QED
    BY <1>1, <1>7, <1>10, <2>1 DEF CacheWrites, Counted
<1>11. CASE CacheReads
  <2>1. cache.status + 1 \in 0..(2 * LineWords)
    BY <1>3, <1>11, CacheAssumption DEF CacheReads
  <2>2. lines' \in LinesType
    BY <1>1, <1>3, <1>5, <1>11 DEF CacheReads, LinesType, LineType
  <2> QED
    BY <1>1, <1>7, <1>11, <2>1, <2>2 DEF CacheReads, Counted
<1>12. CASE CacheDone
  <2>1. lines' \in LinesType
    BY <1>1, <1>3, <1>5, <1>12 DEF CacheDone, LinesType, LineType
  <2> QED
    BY <1>1, <1>12, <2>1 DEF CacheDone
<1>13. CASE IntpFetches \/ IntpDelivered
  <2>1. sp' \in Slot
    <3>1. 2 * Words \in Nat \ {0}
      BY CacheAssumption, SMT DEF Words
    <3>2. sp' = (sp + 2 * Words - 1) % (2 * Words)
      BY <1>13 DEF IntpFetches, IntpDelivered, IntpProceeds
    <3> QED
      BY <1>1, <3>1, <3>2, SMT DEF Slot
  <2>2. StackWord(sp') \in Word /\ Vector \in Word
    BY <2>1, StackWordType, AcceptType
  <2>3. CASE IntpFetches
    BY <1>1, <1>6, <1>13, <2>1, <2>2, <2>3 DEF IntpFetches, Fetch
  <2>4. CASE IntpDelivered
    <3>1. PICK v \in Value, behind \in Value :
             lines' = IF sp' % 2 = 0 THEN Stored(StackWord(sp'), v)
                                     ELSE Spilled(StackWord(sp'), v, behind)
      BY <2>4 DEF IntpDelivered
    <3>2. lines' \in LinesType
      BY <1>1, <2>2, <3>1, StoreType
    <3> QED
      BY <1>1, <2>1, <2>4, <3>2 DEF IntpDelivered
  <2> QED
    BY <1>13, <2>3, <2>4
<1>14. CASE InsnFetches
  BY <1>1, <1>6, <1>14 DEF InsnFetches, Fetch
<1>15. CASE InsnStores
  <2>1. lines' \in LinesType
    BY <1>1, <1>15, StoreType DEF InsnStores
  <2> QED
    BY <1>1, <1>15, <2>1 DEF InsnStores
<1>16. CASE InsnSetsSp \/ InsnControls
  BY <1>1, <1>16 DEF InsnSetsSp, InsnControls
<1>17. CASE UNCHANGED cacheVars
  BY <1>1, <1>17 DEF cacheVars
<1> QED
  BY <1>8, <1>9, <1>10, <1>11, <1>12, <1>13, <1>14, <1>15, <1>16, <1>17
     DEF CacheNext, CoreExecutor, CoreDetour

LEMMA CacheInitType == CacheInit => CacheTypeOK
<1> SUFFICES ASSUME CacheInit
             PROVE  CacheTypeOK
  OBVIOUS
<1>1. Words \in Nat \ {0}
  BY CacheAssumption, SMT DEF Words
<1>2. 0 \in Word /\ 0 \in Slot /\ 0 \in 0..(2 * LineWords) /\ 0 \in 0..(Tags - 1)
  BY <1>1, CacheAssumption DEF Word, Slot
<1> QED
  BY <1>2 DEF CacheInit, CacheTypeOK

-----------------------------------------------------------------------------
(* The theorems *)

LEMMA CacheInvariance == CacheSpec => [](IInv /\ CacheTypeOK)
<1>1. CacheInit => IInv /\ CacheTypeOK
  BY InitInv, CacheInitType DEF CacheInit
<1>2. IInv /\ CacheTypeOK /\ [CacheNext]_cacheVars => IInv' /\ CacheTypeOK'
  BY CacheStep, CacheTypeNext, NextInv DEF IInv
<1> QED
  BY <1>1, <1>2, PTL DEF CacheSpec

\* The lines, the detour's counter and the stack pointer stay in their ranges; the
\* counter in particular stops at the last word of the new line.
THEOREM CacheTypeCorrect == CacheSpec => []CacheTypeOK
BY CacheInvariance, PTL

\* A core with a cache, whatever its geometry, uses the bus as LegacyBus says.
THEOREM CacheImplementsBus == CacheSpec => ImplementsBus
<1>1. CacheInit => Init
  BY DEF CacheInit
<1>2. IInv /\ CacheTypeOK /\ [CacheNext]_cacheVars => [Next]_vars
  BY CacheStep DEF IInv
<1> QED
  BY <1>1, <1>2, CacheInvariance, PTL DEF CacheSpec, ImplementsBus, Spec

\* So none of its detours can sleep through its wakeup.
THEOREM CacheNeverLosesWakeup == CacheSpec => []NoLostWakeup
BY CacheInvariance, PTL DEF IInv

-----------------------------------------------------------------------------
(* What a line and its memory hold while the cache detour works on it, for     *)
(* every geometry of the cache, any delay of the RAM and any interrupts, as    *)
(* long as the bus loses no posted write and cuts no read short.               *)

\* The memory once the write that the core has scheduled has reached it, too
Promised ==
    IF Scheduled THEN [Visible EXCEPT ![core.bus_address] = core.bus_data] ELSE Visible

\* The words of the old line that the detour has passed are on their way
WritesDone ==
    Test(core, {"DTR_CACHE"}) /\ cache.status <= LineWords /\ WriteBack =>
        \A k \in 0..(cache.status - 1) :
            Promised[WordAt(lines[Line].tag, Line, k)] = lines[Line].data[k]

\* The words of the new line that the detour has passed are in place; the last
\* one asked for is scheduled, or in the data register
ReadsDone ==
    Test(core, {"DTR_CACHE"}) /\ cache.status > LineWords =>
        /\ \A k \in 0..(cache.status - LineWords - 2) :
              lines[Line].data[k] = Visible[cache.address + LineWords + k]
        /\ Test(core, {"DTR_MEM"}) =>
              /\ core.bus_op = "IO_READ"
              /\ core.bus_address = cache.address + cache.status - 1
        /\ ~Test(core, {"DTR_MEM"}) =>
              core.bus_data = Visible[cache.address + cache.status - 1]

SteadyInv == IInv /\ CacheTypeOK /\ OneReadPath /\ WritesDone /\ ReadsDone

-----------------------------------------------------------------------------
(* The memory as the core will find it. *)

LEMMA SeenType ==
    ASSUME TypeOK, Backed
    PROVE  /\ Visible \in [Cell -> Value] /\ Promised \in [Cell -> Value]
           /\ core.bus_address \in Cell /\ board.bus_address \in Cell
           /\ ram.bus_address \in Cell
<1>1. /\ core.bus_address \in Cell /\ board.bus_address \in Cell
      /\ ram.bus_address \in Cell
  BY DEF TypeOK, BusDevice, BoardDevice, Backed, Cell
<1>2. /\ core.bus_data \in Value /\ board.bus_in \in Value /\ ram.bus_in \in Value
      /\ mem \in [Cell -> Value]
  BY DEF TypeOK, BusDevice, BoardDevice, Cell
<1>3. Overlay(mem, ram) \in [Cell -> Value]
  BY <1>1, <1>2 DEF Overlay
<1>4. Visible \in [Cell -> Value]
  BY <1>1, <1>2, <1>3 DEF Overlay, Visible
<1> QED
  BY <1>1, <1>2, <1>4 DEF Promised

\* What the RAM and the board do to a posted write leaves the memory as it is seen
LEMMA SeenByBus ==
    ASSUME IInv, Backed,
           RamWrite \/ RamRead \/ BoardTransfer \/ (BoardReject /\ ~LosesWrite)
    PROVE  Visible' = Visible
<1> USE DEF Visible, Overlay, Writing, Test, Unset, IO_ACTIVE, IO_INPUT, IO_OUTPUT
<1>1. /\ board.bus_address < RamSize /\ ram.bus_address < RamSize
      /\ mem \in [Cell -> Value]
  BY SeenType, BusAssumption DEF Cell, IInv, TypeOK
<1>2. board \in BoardDevice /\ ram \in BusDevice
  BY DEF IInv, TypeOK
<1>3. CASE RamWrite
  <2>1. "IO_WRITE" \in ram.status /\ "IO_WRITE" \notin ram'.status /\ board' = board
    BY <1>2, <1>3 DEF RamWrite, RamDone, BusDevice
  <2>2. mem' = [mem EXCEPT ![ram.bus_address] = ram.bus_in]
    BY <1>3 DEF RamWrite
  <2> QED
    BY <1>1, <2>1, <2>2
<1>4. CASE RamRead
  <2>1. "IO_WRITE" \notin ram.status /\ "IO_WRITE" \notin ram'.status /\ mem' = mem
    BY <1>2, <1>4 DEF RamRead, RamDone, BusDevice
  <2>2. /\ "IO_WRITE" \in board'.status <=> "IO_WRITE" \in board.status
        /\ board'.bus_address = board.bus_address /\ board'.bus_in = board.bus_in
    BY <1>2, <1>4 DEF RamRead, Respond, Set, BoardDevice
  <2> QED
    BY <2>1, <2>2
<1>5. CASE BoardTransfer
  <2>1. "IO_WRITE" \notin board'.status /\ mem' = mem
    BY <1>2, <1>5 DEF BoardTransfer, BoardDevice
  <2>2. CASE "IO_WRITE" \in board.status
    <3>1. "IO_WRITE" \notin ram.status
      BY <1>5, <2>2 DEF BoardTransfer
    <3>2. /\ "IO_WRITE" \in ram'.status
          /\ ram'.bus_address = board.bus_address /\ ram'.bus_in = board.bus_in
      BY <1>2, <1>5, <2>2 DEF BoardTransfer, Forwarded, Request, Set, BusDevice
    <3> QED
      BY <1>1, <2>1, <2>2, <3>1, <3>2
  <2>3. CASE "IO_WRITE" \notin board.status
    <3>1. "IO_WRITE" \in ram'.status => ram' = ram
      BY <1>2, <1>5, <2>3 DEF BoardTransfer, Forwarded, Request, Set, BusDevice
    <3>2. "IO_WRITE" \in ram.status => ram' = ram
      BY <1>2, <1>5, <2>3 DEF BoardTransfer, Forwarded, Request, Set, BusDevice
    <3> QED
      BY <2>1, <2>3, <3>1, <3>2
  <2> QED
    BY <2>2, <2>3
<1>6. CASE BoardReject /\ ~LosesWrite
  BY <1>2, <1>6 DEF BoardReject, LosesWrite, BoardDevice
<1> QED
  BY <1>3, <1>4, <1>5, <1>6

\* A step of the core that posts nothing, or of a timer, leaves it as it is, too
LEMMA SeenByCore ==
    ASSUME OnlyCore
    PROVE  Visible' = Visible
BY DEF OnlyCore, Visible, Overlay, Writing, Test

\* A posted write makes the promise good
LEMMA SeenWhenPosted ==
    ASSUME IInv, Backed, CpuAsksWrite
    PROVE  Visible' = Promised
<1> USE DEF Test, IO_INPUT
<1>1. /\ core.bus_address < RamSize /\ ~Writing(board)
      /\ board \in BoardDevice /\ ram' = ram /\ mem' = mem
  BY SeenType, BusAssumption
     DEF Cell, IInv, TypeOK, CpuAsksWrite, CpuAsks, Writing
<1>2. /\ Writing(board') /\ board'.bus_address = core.bus_address
      /\ board'.bus_in = core.bus_data
  BY <1>1 DEF CpuAsksWrite, CpuAsks, Request, Set, Writing, BoardDevice
<1>3. Scheduled
  BY DEF Scheduled, CpuAsksWrite, CpuAsks
<1> QED
  BY <1>1, <1>2, <1>3 DEF Visible, Overlay, Promised

-----------------------------------------------------------------------------
(* Each step keeps what the detour has done.                               *)

\* A step that leaves the detour's access and the seen memory alone
LEMMA SameDetour ==
    ASSUME WritesDone, ReadsDone, UNCHANGED <<lines, cache>>, Visible' = Visible,
           Test(core', {"DTR_CACHE"}) =>
              /\ Test(core, {"DTR_CACHE"})
              /\ Test(core', {"DTR_MEM"}) <=> Test(core, {"DTR_MEM"})
              /\ core'.bus_op = core.bus_op
              /\ core'.bus_address = core.bus_address
              /\ core'.bus_data = core.bus_data
    PROVE  WritesDone' /\ ReadsDone'
<1>1. CASE ~Test(core', {"DTR_CACHE"})
  BY <1>1 DEF WritesDone, ReadsDone
<1>2. CASE Test(core', {"DTR_CACHE"})
  <2>1. Line' = Line /\ WriteBack' = WriteBack
    BY DEF Line, WriteBack
  <2>2. Promised' = Promised
    BY <1>2 DEF Promised, Scheduled
  <2>3. WritesDone'
    BY <1>2, <2>1, <2>2 DEF WritesDone
  <2>4. ReadsDone'
    BY <1>2, <2>1 DEF ReadsDone
  <2> QED
    BY <2>3, <2>4
<1> QED
  BY <1>1, <1>2

\* A step that ends the detour, or begins it
LEMMA NoDetour ==
    ASSUME ~Test(core', {"DTR_CACHE"}) \/ cache'.status = 0
    PROVE  WritesDone' /\ ReadsDone'
BY CacheAssumption DEF WritesDone, ReadsDone

LEMMA BoardKeepsDetour ==
    ASSUME SteadyInv, Backed, BoardExecutor, ~LosesWrite, UNCHANGED inside
    PROVE  WritesDone' /\ ReadsDone'
<1>1. /\ core.status \subseteq CONTROL \cup SLEEP_ACTIVE \cup DTR_ACTIVE
      /\ WritesDone /\ ReadsDone /\ UNCHANGED <<lines, cache>>
  BY DEF SteadyInv, IInv, TypeOK, inside
<1>2. ~BoardAbsent
  BY DEF Backed, BoardAbsent, RamPresent, SteadyInv, IInv, TypeOK, BoardDevice
<1>3. Visible' = Visible
  BY <1>2, SeenByBus DEF BoardExecutor, SteadyInv
<1>4. CASE BoardReject
  <2>1. core' = Unset(core, {"SLEEP_MEM"})
    BY <1>4 DEF BoardReject
  <2> QED
    BY <1>1, <1>3, <2>1, SameDetour DEF Unset, Test, SteadyInv, IInv, TypeOK
<1>5. CASE BoardTransfer /\ ~Test(board, IO_OUTPUT)
  <2>1. core' = core
    BY <1>5 DEF BoardTransfer
  <2> QED
    BY <1>1, <1>3, <2>1, SameDetour
<1>6. CASE BoardTransfer /\ Test(board, IO_OUTPUT)
  <2>1. /\ Test(board, {"IO_RESPONSE"})
        /\ Test(core, {"DTR_MEM"}) /\ core.bus_op = "IO_READ"
    BY <1>6 DEF SteadyInv, IInv, OneReadPath, NoLostWakeup, Test, IO_OUTPUT
  <2>2. board.bus_out = Visible[core.bus_address]
    BY <1>6 DEF SteadyInv, OneReadPath, Visible, Overlay, Writing, Test, IO_INPUT
  <2>3. core' = [Unset(Unset(core, {"SLEEP_DELAY", "SLEEP_MEM"}), {"DTR_MEM"})
                    EXCEPT !.bus_data = board.bus_out]
    BY <1>6, <2>1 DEF BoardTransfer, Answered
  <2>4. /\ Test(core', {"DTR_CACHE"}) <=> Test(core, {"DTR_CACHE"})
        /\ ~Test(core', {"DTR_MEM"}) /\ core'.bus_data = Visible[core.bus_address]
    BY <2>2, <2>3 DEF Unset, Test, SteadyInv, IInv, TypeOK
  <2>5. Line' = Line /\ WriteBack' = WriteBack
    BY <1>1 DEF Line, WriteBack
  <2>6. Promised' = Promised
    BY <1>3, <2>1, <2>4 DEF Promised, Scheduled
  <2>7. WritesDone'
    BY <1>1, <2>4, <2>5, <2>6 DEF WritesDone
  <2>8. ReadsDone'
    BY <1>1, <1>3, <2>1, <2>4, <2>5 DEF ReadsDone
  <2> QED
    BY <2>7, <2>8
<1> QED
  BY <1>2, <1>4, <1>5, <1>6 DEF BoardExecutor

LEMMA RamKeepsDetour ==
    ASSUME SteadyInv, Backed, RamExecutor, UNCHANGED inside
    PROVE  WritesDone' /\ ReadsDone'
<1>1. ~RamOutOfRange
  BY SeenType, BusAssumption DEF RamOutOfRange, Cell, SteadyInv, IInv
<1>2. Visible' = Visible
  BY <1>1, SeenByBus DEF RamExecutor, SteadyInv
<1>3. core' = core
  BY <1>1 DEF RamExecutor, RamWrite, RamRead
<1> QED
  BY <1>2, <1>3, SameDetour DEF SteadyInv, inside

LEMMA TimerKeepsDetour ==
    ASSUME SteadyInv, NEW t \in Timer, TimerExecutor(t), UNCHANGED inside
    PROVE  WritesDone' /\ ReadsDone'
<1>1. core \in [status : SUBSET (CONTROL \cup SLEEP_ACTIVE \cup DTR_ACTIVE),
                 bus_op : {"IO_READ", "IO_WRITE"}, tries : 0..RetryCap,
                 bus_address : Addr, bus_data : Value, delay : 0..(DelayMod - 1),
                 intp_id : Interrupt, intp_phase : {"raised", "accepted"}]
  BY DEF SteadyInv, IInv, TypeOK
<1>2. Visible' = Visible
  BY SeenByCore DEF TimerExecutor, OnlyCore
<1>3. \A c, id : "DTR_CACHE" \notin dtr_intp(c, id).status
  BY DEF dtr_intp, Set, Unset, DTR_ACTIVE, SLEEP_ACTIVE
<1>4. \/ ~Test(core', {"DTR_CACHE"})
      \/ core' \in {core, Unset(core, {"SLEEP_TIMER"}), Unset(core, {"RUNNING"}),
                    Unset(Unset(core, {"SLEEP_TIMER"}), {"RUNNING"})}
  BY <1>3 DEF TimerExecutor, TimerEffect, Test
<1>5. CASE ~Test(core', {"DTR_CACHE"})
  BY <1>5, NoDetour
<1>6. CASE core' \in {core, Unset(core, {"SLEEP_TIMER"}), Unset(core, {"RUNNING"}),
                    Unset(Unset(core, {"SLEEP_TIMER"}), {"RUNNING"})}
  BY <1>1, <1>2, <1>6, SameDetour DEF Unset, Test, SteadyInv, inside
<1> QED
  BY <1>4, <1>5, <1>6

-----------------------------------------------------------------------------
(* The steps of the core that the cache leaves to LegacyBus. *)

LEMMA CoreKeepsDetour ==
    ASSUME SteadyInv, Backed, UNCHANGED inside,
           CpuSleep \/ CpuAsksRead \/ CpuAsksWrite \/ CpuMasksIntp \/ CpuTripleFault
    PROVE  WritesDone' /\ ReadsDone'
<1> DEFINE CoreFields ==
              [status : SUBSET (CONTROL \cup SLEEP_ACTIVE \cup DTR_ACTIVE),
               bus_op : {"IO_READ", "IO_WRITE"}, tries : 0..RetryCap,
               bus_address : Addr, bus_data : Value, delay : 0..(DelayMod - 1),
               intp_id : Interrupt, intp_phase : {"raised", "accepted"}]
<1>1. core \in CoreFields /\ WritesDone /\ ReadsDone /\ UNCHANGED <<lines, cache>>
  BY DEF SteadyInv, IInv, TypeOK, inside
<1>2. CASE CpuSleep
  <2>1. Visible' = Visible
    BY <1>2, SeenByCore DEF CpuSleep
  <2>2. PICK bits \in {{}, {"SLEEP_DELAY"}} : \E left :
           core' = [Unset(core, bits) EXCEPT !.delay = left]
    BY <1>2 DEF CpuSleep
  <2>3. /\ Test(core', {"DTR_CACHE"}) <=> Test(core, {"DTR_CACHE"})
        /\ Test(core', {"DTR_MEM"}) <=> Test(core, {"DTR_MEM"})
        /\ core'.bus_op = core.bus_op /\ core'.bus_address = core.bus_address
        /\ core'.bus_data = core.bus_data
    BY <1>1, <2>2 DEF Unset, Test
  <2> QED
    BY <1>1, <2>1, <2>3, SameDetour
<1>3. CASE CpuAsksRead
  <2>1. ~Writing(board) /\ ~Writing(board') /\ UNCHANGED <<ram, mem>>
    BY <1>3 DEF CpuAsksRead, CpuAsks, Request, Set, Writing, Test, IO_INPUT, SteadyInv, IInv,
                TypeOK, BoardDevice
  <2>2. Visible' = Visible
    BY <2>1 DEF Visible, Overlay
  <2>3. PICK tries : core' = [Set(core, {"SLEEP_DELAY", "SLEEP_MEM"})
                                EXCEPT !.tries = tries, !.delay = tries]
    BY <1>3 DEF CpuAsksRead
  <2>4. /\ Test(core', {"DTR_CACHE"}) <=> Test(core, {"DTR_CACHE"})
        /\ Test(core', {"DTR_MEM"}) <=> Test(core, {"DTR_MEM"})
        /\ core'.bus_op = core.bus_op /\ core'.bus_address = core.bus_address
        /\ core'.bus_data = core.bus_data
    BY <1>1, <2>3 DEF Set, Test
  <2> QED
    BY <1>1, <2>2, <2>4, SameDetour
<1>4. CASE CpuAsksWrite
  <2>1. Visible' = Promised
    BY <1>4, SeenWhenPosted DEF SteadyInv
  <2>2. /\ Test(core', {"DTR_CACHE"}) <=> Test(core, {"DTR_CACHE"})
        /\ ~Test(core', {"DTR_MEM"})
        /\ Test(core, {"DTR_MEM"}) /\ core.bus_op = "IO_WRITE"
    BY <1>1, <1>4 DEF CpuAsksWrite, CpuAsks, Unset, Test
  <2>3. Promised' = Promised
    BY <2>1, <2>2 DEF Promised, Scheduled
  <2>4. Line' = Line /\ WriteBack' = WriteBack
    BY <1>1 DEF Line, WriteBack
  <2>5. WritesDone'
    BY <1>1, <2>2, <2>3, <2>4 DEF WritesDone
  <2>6. ReadsDone'
    BY <1>1, <2>2 DEF ReadsDone
  <2> QED
    BY <2>5, <2>6
<1>5. CASE CpuMasksIntp \/ CpuTripleFault
  <2>1. ~Test(core', {"DTR_CACHE"})
    BY <1>1, <1>5 DEF CpuMasksIntp, CpuTripleFault, TripleFault, OnlyIntp, Unset, Test
  <2> QED
    BY <2>1, NoDetour
<1> QED
  BY <1>2, <1>3, <1>4, <1>5

\* The interrupt detour and the instructions begin the cache detour or stay out of it
LEMMA RestKeepsDetour ==
    ASSUME SteadyInv,
           \/ IntpFetches \/ IntpDelivered
           \/ InsnFetches \/ InsnStores \/ InsnSetsSp \/ InsnControls
    PROVE  WritesDone' /\ ReadsDone'
<1>1. CASE IntpFetches \/ InsnFetches
  BY <1>1, NoDetour DEF IntpFetches, InsnFetches, Fetch
<1>2. CASE IntpDelivered
  <2>1. ~Test(Accept(core), {"DTR_CACHE"}) /\ Accept(core) \in CoreType
    BY <1>2, AcceptType
       DEF IntpDelivered, IntpProceeds, OnlyIntp, Accept, Set, Test, SteadyInv, IInv, TypeOK
  <2>2. ~Test(core', {"DTR_CACHE"})
    BY <1>2, <2>1 DEF IntpDelivered, Unset, Test, CoreType
  <2> QED
    BY <2>2, NoDetour
<1>3. CASE InsnStores \/ InsnSetsSp
  BY <1>3, NoDetour DEF InsnStores, InsnSetsSp, AtInstruction, Test, DTR_ACTIVE
<1>4. CASE InsnControls
  <2>1. ~Test(core, {"DTR_CACHE"})
        /\ core.status \subseteq CONTROL \cup SLEEP_ACTIVE \cup DTR_ACTIVE
    BY <1>4 DEF InsnControls, AtInstruction, Test, DTR_ACTIVE, SteadyInv, IInv, TypeOK
  <2>2. ASSUME InsnStatus PROVE ~Test(core', {"DTR_CACHE"})
    <3>1. ASSUME NEW id, core' = dtr_intp(core, id)
          PROVE  ~Test(core', {"DTR_CACHE"})
      BY <3>1 DEF dtr_intp, Set, Unset, Test, DTR_ACTIVE, SLEEP_ACTIVE
    <3>2. ASSUME NEW n, NEW bit \in {"SLEEP_DELAY", "SLEEP_TIMER"},
                 core' = [Set(core, {bit}) EXCEPT !.delay = n]
          PROVE  ~Test(core', {"DTR_CACHE"})
      BY <2>1, <3>2 DEF Set, Test, SteadyInv, IInv, TypeOK
    <3>3. CASE \/ core' = Unset(core, {"RUNNING"})
               \/ core' = Set(core, {"INTF"}) \/ core' = Unset(core, {"INTF"})
      BY <2>1, <3>3 DEF Set, Unset, Test, SteadyInv, IInv, TypeOK
    <3> QED
      BY <2>2, <3>1, <3>2, <3>3 DEF InsnStatus
  <2>3. ASSUME InsnSwitch PROVE ~Test(core', {"DTR_CACHE"})
    BY <2>3 DEF InsnSwitch, Test, CONTROL, SteadyInv, IInv, TypeOK
  <2> QED
    BY <1>4, <2>2, <2>3, NoDetour DEF InsnControls
<1> QED
  BY <1>1, <1>2, <1>3, <1>4

-----------------------------------------------------------------------------
(* The steps of the cache detour itself. *)

\* Where a word of a line lies: the words of a line are next to each other
LEMMA WordsOfLine ==
    ASSUME NEW tag \in 0..(Tags - 1), NEW line \in 0..(Lines - 1)
    PROVE  /\ \A k \in 0..(LineWords - 1) : WordAt(tag, line, k) = WordAt(tag, line, 0) + k
           /\ WordAt(tag, line, 0) \in Int
<1>1. (tag * Lines + line) * LineWords \in Int
  BY CacheAssumption, SMT
<1> QED
  BY <1>1, CacheAssumption DEF WordAt

LEMMA CacheKeepsWrites ==
    ASSUME SteadyInv, Backed, CacheWrites
    PROVE  WritesDone' /\ ReadsDone'
<1> DEFINE s == cache.status
           At(k) == WordAt(lines[Line].tag, Line, k)
<1>1. /\ s \in 0..(LineWords - 1) /\ Line \in 0..(Lines - 1)
      /\ cache'.status = s + 1 /\ cache'.address = cache.address /\ lines' = lines
  BY Address, CacheAssumption
     DEF CacheWrites, Counted, SteadyInv, CacheTypeOK, Line
<1>2. /\ ~Test(core, {"DTR_MEM"}) /\ Test(core, {"DTR_CACHE"}) /\ core \in CoreType
  BY DEF CacheWrites, InCache, SteadyInv, IInv, TypeOK, CoreType
<1>3. /\ Test(core', {"DTR_MEM"}) /\ core'.bus_op = "IO_WRITE"
      /\ core'.bus_address = At(s) /\ core'.bus_data = lines[Line].data[s]
  BY <1>2 DEF CacheWrites, dtr_mem_write, Set, Test, CoreType
<1>4. Visible' = Visible
  BY SeenByCore DEF CacheWrites
<1>5. Promised = Visible /\ Promised' = [Visible EXCEPT ![At(s)] = lines[Line].data[s]]
  BY <1>2, <1>3, <1>4 DEF Promised, Scheduled
<1>6. Line' = Line /\ WriteBack' = WriteBack
  BY <1>1 DEF Line, WriteBack
<1>7. lines[Line].tag \in 0..(Tags - 1)
  BY <1>1 DEF SteadyInv, CacheTypeOK
<1>8. \A k \in 0..(LineWords - 1) : At(k) \in Cell /\ (At(k) = At(s) => k = s)
  <2>1. \A k \in 0..(LineWords - 1) : At(k) \in Cell
    BY <1>1, <1>7, WordAtType, Reached DEF Backed, Cell
  <2>2. \A k \in 0..(LineWords - 1) : At(k) = At(0) + k /\ At(0) \in Int
    BY <1>1, <1>7, WordsOfLine
  <2> HIDE DEF At
  <2> QED
    BY <1>1, <2>1, <2>2
<1>9. Visible \in [Cell -> Value]
  BY SeenType DEF SteadyInv, IInv
<1>10. WritesDone'
  <2> SUFFICES ASSUME WriteBack, NEW k \in 0..s
               PROVE  Promised'[At(k)] = lines[Line].data[k]
    BY <1>1, <1>6 DEF WritesDone
  <2>1. k \in 0..(LineWords - 1) /\ s <= LineWords /\ (k # s => k \in 0..(s - 1))
    BY <1>1, CacheAssumption
  <2>2. At(k) \in Cell /\ At(s) \in Cell /\ (At(k) = At(s) => k = s)
    BY <1>1, <1>8, <2>1
  <2>3. k # s => Promised[At(k)] = lines[Line].data[k]
    BY <1>2, <2>1 DEF SteadyInv, WritesDone
  <2> HIDE DEF At, s
  <2> QED
    BY <1>5, <1>9, <2>2, <2>3
<1>11. ReadsDone'
  BY <1>1, CacheAssumption DEF ReadsDone
<1> QED
  BY <1>10, <1>11

LEMMA CacheKeepsReads ==
    ASSUME SteadyInv, Backed, CacheReads
    PROVE  WritesDone' /\ ReadsDone'
<1> DEFINE s == cache.status
           old == [lines EXCEPT ![Line].valid = FALSE]
           new == [lines EXCEPT ![Line].data = Fetched]
<1>1. /\ s \in LineWords..(2 * LineWords - 1) /\ Line \in 0..(Lines - 1)
      /\ cache'.status = s + 1 /\ cache'.address = cache.address
      /\ cache.address \in Nat
      /\ LineWords \in Nat \ {0}
  BY Address, CacheAssumption
     DEF CacheReads, Counted, SteadyInv, CacheTypeOK, Line, Word
<1>2. /\ ~Test(core, {"DTR_MEM"}) /\ Test(core, {"DTR_CACHE"}) /\ core \in CoreType
  BY DEF CacheReads, InCache, SteadyInv, IInv, TypeOK, CoreType
<1>3. /\ Test(core', {"DTR_MEM"}) /\ core'.bus_op = "IO_READ"
      /\ core'.bus_address = cache.address + s
  BY <1>2 DEF CacheReads, dtr_mem_read, Set, Test, CoreType
<1>4. Visible' = Visible /\ Line' = Line
  BY <1>1, SeenByCore DEF CacheReads, Line
<1>5. lines \in LinesType
  BY DEF SteadyInv, CacheTypeOK, LinesType, LineType
<1>6. lines[Line].data \in [0..(LineWords - 1) -> Value]
  BY <1>1, <1>5 DEF LinesType, LineType
<1>7. ASSUME NEW k \in 0..(s - LineWords - 1)
      PROVE  lines'[Line].data[k] = Visible[cache.address + LineWords + k]
  <2>1. s # LineWords
    BY <1>1, <1>7
  <2>2. lines'[Line].data = Fetched
    <3>1. lines' = new
      BY <2>1 DEF CacheReads
    <3> QED
      BY <1>1, <1>5, <3>1 DEF LinesType, LineType
  <2>3. s - LineWords - 1 \in 0..(LineWords - 1) /\ k \in 0..(LineWords - 1)
    BY <1>1, <1>7, <2>1
  <2>4. CASE k = s - LineWords - 1
    <3>1. core.bus_data = Visible[cache.address + s - 1]
      BY <1>1, <1>2, <2>1 DEF SteadyInv, ReadsDone
    <3>2. Fetched[k] = core.bus_data
      BY <1>6, <2>3, <2>4 DEF Fetched
    <3>3. cache.address + LineWords + k = cache.address + s - 1
      BY <1>1, <2>4
    <3> QED
      BY <2>2, <3>1, <3>2, <3>3
  <2>5. CASE k # s - LineWords - 1
    <3>1. k \in 0..(s - LineWords - 2) /\ s > LineWords
      BY <1>1, <1>7, <2>1, <2>5
    <3>2. lines[Line].data[k] = Visible[cache.address + LineWords + k]
      BY <1>2, <3>1 DEF SteadyInv, ReadsDone
    <3>3. Fetched[k] = lines[Line].data[k]
      BY <1>6, <2>3, <2>5 DEF Fetched
    <3> QED
      BY <2>2, <3>2, <3>3
  <2> QED
    BY <2>4, <2>5
<1>8. WritesDone'
  <2>1. CASE s = LineWords
    BY <1>1, <2>1 DEF WritesDone
  <2>2. CASE s # LineWords
    BY <1>1, <2>2 DEF WritesDone
  <2> QED
    BY <2>1, <2>2
<1>9. ReadsDone'
  <2>1. cache'.status - LineWords - 2 = s - LineWords - 1
        /\ cache'.address + cache'.status - 1 = cache.address + s
    BY <1>1
  <2> QED
    BY <1>1, <1>3, <1>4, <1>7, <2>1 DEF ReadsDone
<1> QED
  BY <1>8, <1>9

LEMMA CacheKeepsDetour ==
    ASSUME SteadyInv, Backed, CacheSkips \/ CacheWrites \/ CacheReads \/ CacheDone
    PROVE  WritesDone' /\ ReadsDone'
<1>1. CASE CacheSkips
  <2>1. /\ cache'.status = LineWords /\ core' = core /\ UNCHANGED lines
        /\ cache'.address = cache.address /\ ~WriteBack
    BY <1>1 DEF CacheSkips, vars, SteadyInv, CacheTypeOK
  <2>2. ~WriteBack'
    BY <2>1 DEF WriteBack, Line
  <2> QED
    BY <2>1, <2>2, CacheAssumption DEF WritesDone, ReadsDone
<1>2. CASE CacheDone
  <2>1. ~Test(core', {"DTR_CACHE"})
    BY <1>2 DEF CacheDone, Unset, Test, SteadyInv, IInv, TypeOK
  <2> QED
    BY <2>1, NoDetour
<1> QED
  BY <1>1, <1>2, CacheKeepsWrites, CacheKeepsReads

-----------------------------------------------------------------------------
(* The theorems *)

LEMMA SteadyInit == CacheInit => SteadyInv
<1> SUFFICES ASSUME CacheInit
             PROVE  SteadyInv
  OBVIOUS
<1>1. IInv /\ CacheTypeOK /\ OneReadPath
  BY InitInv, CacheInitType, InitPath DEF CacheInit
<1>2. ~Test(core, {"DTR_CACHE"})
  BY DEF CacheInit, Init, Test
<1> QED
  BY <1>1, <1>2 DEF SteadyInv, WritesDone, ReadsDone

LEMMA SteadyKeeps == Backed /\ SteadyInv /\ [SteadyNext]_cacheVars => SteadyInv'
<1> SUFFICES ASSUME Backed, SteadyInv, [SteadyNext]_cacheVars
             PROVE  SteadyInv'
  OBVIOUS
<1>1. [CacheNext]_cacheVars
  BY DEF SteadyNext
<1>2. [Next]_vars
  BY <1>1, CacheStep DEF SteadyInv, IInv
<1>3. IInv' /\ CacheTypeOK'
  BY <1>1, <1>2, NextInv, CacheTypeNext DEF SteadyInv, IInv
<1>4. CASE UNCHANGED cacheVars
  <2>1. UNCHANGED <<core, board, ram, mem, lines, cache>>
    BY <1>4 DEF cacheVars
  <2>2. OneReadPath'
    BY <2>1 DEF OneReadPath, Reading, Test, SteadyInv
  <2>3. Visible' = Visible
    BY <2>1, SeenByCore DEF OnlyCore
  <2>4. WritesDone' /\ ReadsDone'
    BY <2>1, <2>3, SameDetour DEF SteadyInv
  <2> QED
    BY <1>3, <2>2, <2>4 DEF SteadyInv
<1>5. CASE SteadyNext
  <2>1. ~LosesWrite /\ ~CutsRead /\ CacheNext
    BY <1>5 DEF SteadyNext
  <2>2. OneReadPath'
    BY <1>2, <2>1, ReadPathNext DEF SteadyInv
  <2>3. BoardExecutor /\ UNCHANGED inside => WritesDone' /\ ReadsDone'
    BY <2>1, BoardKeepsDetour
  <2>4. RamExecutor /\ UNCHANGED inside => WritesDone' /\ ReadsDone'
    BY RamKeepsDetour
  <2>5. (\E t \in Timer : TimerExecutor(t) /\ UNCHANGED inside) => WritesDone' /\ ReadsDone'
    BY TimerKeepsDetour
  <2>6. CoreExecutor => WritesDone' /\ ReadsDone'
    BY CoreKeepsDetour, CacheKeepsDetour, RestKeepsDetour DEF CoreExecutor, CoreDetour
  <2>7. WritesDone' /\ ReadsDone'
    BY <2>1, <2>3, <2>4, <2>5, <2>6 DEF CacheNext
  <2> QED
    BY <1>3, <2>2, <2>7 DEF SteadyInv
<1> QED
  BY <1>4, <1>5

LEMMA SteadyInvariance ==
    ASSUME Backed
    PROVE  SteadySpec => []SteadyInv
<1>1. SteadyInv /\ [SteadyNext]_cacheVars => SteadyInv'
  BY SteadyKeeps
<1> QED
  BY <1>1, SteadyInit, PTL DEF SteadySpec

\* Of a dirty line that the cache detour replaces, every word is in the memory or
\* posted to it before the first word of the new line is asked for, whatever
\* interrupts cut the detour short on the way (kyanite_legacy.c:465-475).
THEOREM DirtyLineWrittenBack ==
    ASSUME Backed
    PROVE  SteadySpec => []WrittenBack
<1>1. SteadyInv => WrittenBack
  <2> SUFFICES ASSUME SteadyInv, InCache, cache.status = LineWords, WriteBack,
                      NEW k \in 0..(LineWords - 1)
               PROVE  Visible[WordAt(lines[Line].tag, Line, k)] = lines[Line].data[k]
    BY DEF WrittenBack
  <2>1. Promised = Visible /\ Test(core, {"DTR_CACHE"})
    BY DEF InCache, Promised, Scheduled
  <2>2. k \in 0..(cache.status - 1) /\ cache.status <= LineWords
    BY CacheAssumption
  <2> QED
    BY <2>1, <2>2 DEF SteadyInv, WritesDone
<1> QED
  BY <1>1, SteadyInvariance, PTL

\* A line is complete only with the words that its reads asked for, each in its
\* place and as the memory has it, although all of them came through one register.
THEOREM LineFilledInOrder ==
    ASSUME Backed
    PROVE  SteadySpec => []FillInOrder
<1>1. SteadyInv => FillInOrder
  <2> SUFFICES ASSUME SteadyInv, InCache, cache.status = 2 * LineWords,
                      NEW k \in 0..(LineWords - 1)
               PROVE  Fetched[k] = Visible[cache.address + LineWords + k]
    BY DEF FillInOrder
  <2> DEFINE last == LineWords - 1
  <2>1. /\ LineWords \in Nat \ {0} /\ cache.address \in Nat
        /\ cache.status > LineWords /\ last \in 0..(LineWords - 1)
        /\ cache.status - LineWords - 1 = last
        /\ cache.status - LineWords - 2 = LineWords - 2
    BY CacheAssumption DEF SteadyInv, CacheTypeOK, Word
  <2>2. Test(core, {"DTR_CACHE"}) /\ ~Test(core, {"DTR_MEM"})
    BY DEF InCache
  <2>3. Line \in 0..(Lines - 1)
    BY Address DEF SteadyInv, CacheTypeOK, Line
  <2>4. lines[Line].data \in [0..(LineWords - 1) -> Value]
    BY <2>3 DEF SteadyInv, CacheTypeOK
  <2>5. Fetched = [lines[Line].data EXCEPT ![last] = core.bus_data]
    BY <2>1 DEF Fetched
  <2>6. CASE k = last
    <3>1. cache.address + LineWords + k = cache.address + cache.status - 1
      BY <2>1, <2>6
    <3>2. core.bus_data = Visible[cache.address + cache.status - 1]
      BY <2>1, <2>2 DEF SteadyInv, ReadsDone
    <3> QED
      BY <2>4, <2>5, <2>6, <3>1, <3>2
  <2>7. CASE k # last
    <3>1. k \in 0..(cache.status - LineWords - 2)
      BY <2>1, <2>7
    <3>2. lines[Line].data[k] = Visible[cache.address + LineWords + k]
      BY <2>1, <2>2, <3>1 DEF SteadyInv, ReadsDone
    <3> QED
      BY <2>4, <2>5, <2>7, <3>2
  <2> QED
    BY <2>6, <2>7
<1> QED
  BY <1>1, SteadyInvariance, PTL

\* Interrupts between two reads, and interrupts of the core itself, leave each
\* answer with the read that asked for it; only a read under way must not be cut.
THEOREM SteadyReadsMatch ==
    ASSUME Backed
    PROVE  SteadySpec => []ReadsMatch
<1>1. SteadyInv => ReadsMatch
  BY PathMatches DEF SteadyInv
<1> QED
  BY <1>1, SteadyInvariance, PTL
=============================================================================
