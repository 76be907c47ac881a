----------------------------- MODULE LegacyCache -----------------------------
(***************************************************************************)
(* The core of kyanite_legacy.c with what LegacyBus leaves open: the cache *)
(* lines, the detour that writes a line back and fills it a word per call, *)
(* and the stack pointer that interrupt delivery moves.                    *)
(*                                                                         *)
(* A cache address is a tag, a line and the offset of a 32-bit word.  The  *)
(* two bits that pick a byte of the word are left out, so an address is    *)
(* the number of a word and is at the same time that word's bus address.   *)
(* A 16-bit stack slot is half a word; sp counts slots, that is, SP is     *)
(* even.  Which instruction comes next, the words it touches and the words *)
(* it computes are open.                                                   *)
(***************************************************************************)
EXTENDS LegacyBus

CONSTANTS
    Tags,       \* 2^6
    Lines,      \* 2^3, the cache lines
    LineWords,  \* 2^5, the words of a line
    Ivt         \* the word that holds each interrupt's vector

Words == Tags * Lines * LineWords
Word  == 0..(Words - 1)
Slot  == 0..(2 * Words - 1)

ASSUME CacheAssumption ==
    /\ Tags \in Nat \ {0} /\ Lines \in Nat \ {0} /\ LineWords \in Nat \ {0}
    /\ Ivt \in [Interrupt -> Word]
    /\ 0..(Words + 2 * LineWords - 2) \subseteq Addr   \* what a fill may read

VARIABLES
    lines,   \* cache_lines
    cache,   \* cache_status and cache_address
    sp       \* the SP register

inside == <<lines, cache, sp>>
cacheVars == <<core, board, ram, mem, lines, cache, sp>>

LineOf(w) == (w \div LineWords) % Lines
TagOf(w) == w \div (LineWords * Lines)
OffsetOf(w) == w % LineWords
WordAt(tag, line, offset) == (tag * Lines + line) * LineWords + offset
StackWord(slot) == slot \div 2

-----------------------------------------------------------------------------
CacheInit ==
    /\ Init
    /\ \E v \in Value :
          lines = [i \in 0..(Lines - 1) |->
                     [valid |-> FALSE, dirty |-> FALSE, tag |-> 0,
                      data |-> [k \in 0..(LineWords - 1) |-> v]]]
    /\ cache = [status |-> 0, address |-> 0]
    /\ sp = 0

-----------------------------------------------------------------------------
(* CACHE_CHECK and CACHE_WRITE *)

Miss(w) == ~lines[LineOf(w)].valid \/ lines[LineOf(w)].tag # TagOf(w)

\* The detour for a word that misses, in a core already written to
Fetch(c, w) ==
    /\ Miss(w)
    /\ core' = dtr_cache(c)
    /\ cache' = [status |-> 0, address |-> w]
    /\ UNCHANGED lines

\* CACHE_WRITE stores 32 bits whatever the size of the operand.  A whole word or
\* the lower half of one stays within its word.
Stored(w, v) ==
    [lines EXCEPT ![LineOf(w)].data[OffsetOf(w)] = v, ![LineOf(w)].dirty = TRUE]

\* The upper half of a word does not: zeros reach into the word behind it, and
\* behind the last word of a line lie the flags of the next line.  (What lies
\* behind the last line is not modelled.)
Spilled(w, v, behind) ==
    LET i == LineOf(w)
    IN  IF OffsetOf(w) < LineWords - 1
          THEN [Stored(w, v) EXCEPT ![i].data[OffsetOf(w) + 1] = behind]
        ELSE IF i < Lines - 1
          THEN [Stored(w, v) EXCEPT ![i + 1].valid = FALSE, ![i + 1].dirty = FALSE]
        ELSE Stored(w, v)

-----------------------------------------------------------------------------
(* The cache detour.  cache_status counts the words of the old line up to  *)
(* LineWords, then those of the new one.                                   *)

InCache == Awake /\ ~Test(core, {"DTR_MEM"}) /\ Test(core, {"DTR_CACHE"})
Line == LineOf(cache.address)
WriteBack == lines[Line].valid /\ lines[Line].dirty
Counted == cache' = [cache EXCEPT !.status = @ + 1]

\* Mutant: the word goes into the place behind its own
Fetched_OneOff == [lines[Line].data EXCEPT ![cache.status - LineWords] = core.bus_data]

\* The line's data once the word that the previous call asked for is in place
Fetched == [lines[Line].data EXCEPT ![cache.status - LineWords - 1] = core.bus_data]

CacheSkips ==
    /\ InCache
    /\ cache.status = 0 /\ ~WriteBack
    /\ cache' = [cache EXCEPT !.status = LineWords]
    /\ UNCHANGED <<vars, lines, sp>>

\* Mutant: the old line's words go to the new line's addresses
CacheWrites_NewTag ==
    /\ InCache
    /\ cache.status < LineWords
    /\ cache.status = 0 => WriteBack
    /\ core' = dtr_mem_write(core, WordAt(TagOf(cache.address), Line, cache.status),
                                   lines[Line].data[cache.status])
    /\ Counted
    /\ OnlyCore /\ UNCHANGED <<lines, sp>>

CacheWrites ==
    /\ InCache
    /\ cache.status < LineWords
    /\ cache.status = 0 => WriteBack
    /\ core' = dtr_mem_write(core, WordAt(lines[Line].tag, Line, cache.status),
                                   lines[Line].data[cache.status])
    /\ Counted
    /\ OnlyCore /\ UNCHANGED <<lines, sp>>

\* Mutant: one read too many
CacheReads_OneMore ==
    /\ InCache
    /\ cache.status >= LineWords /\ cache.status <= 2 * LineWords
    /\ lines' = IF cache.status = LineWords
                  THEN [lines EXCEPT ![Line].valid = FALSE]
                  ELSE [lines EXCEPT ![Line].data = Fetched]
    /\ \E a \in Addr : core' = dtr_mem_read(core, a)
    /\ Counted
    /\ OnlyCore /\ UNCHANGED sp

\* The first of these calls takes the line out of use
CacheReads ==
    /\ InCache
    /\ cache.status >= LineWords /\ cache.status < 2 * LineWords
    /\ lines' = IF cache.status = LineWords
                  THEN [lines EXCEPT ![Line].valid = FALSE]
                  ELSE [lines EXCEPT ![Line].data = Fetched]
    /\ core' = dtr_mem_read(core, cache.address + cache.status)
    /\ Counted
    /\ OnlyCore /\ UNCHANGED sp

CacheDone ==
    /\ InCache
    /\ cache.status = 2 * LineWords
    /\ lines' = [lines EXCEPT ![Line] =
                    [valid |-> TRUE, dirty |-> FALSE, tag |-> TagOf(cache.address),
                     data |-> Fetched]]
    /\ core' = Unset(core, {"DTR_CACHE"})
    /\ OnlyCore /\ UNCHANGED <<cache, sp>>

-----------------------------------------------------------------------------
(* The interrupt detour past the mask and the triple fault.  Every call    *)
(* moves the stack pointer, also one that ends in a cache miss and starts  *)
(* again when the line is there.                                           *)

\* Mutant: each attempt puts the stack pointer back
IntpProceeds_SpStays ==
    /\ OnlyIntp /\ ~Masked
    /\ core.intp_phase = "accepted" \/ ~Test(core, {"TFAULT"})
    /\ sp' = sp
    /\ OnlyCore

IntpProceeds ==
    /\ OnlyIntp /\ ~Masked
    /\ core.intp_phase = "accepted" \/ ~Test(core, {"TFAULT"})
    /\ sp' = (sp + 2 * Words - 1) % (2 * Words)
    /\ OnlyCore

Vector == Ivt[Accept(core).intp_id]

IntpFetches ==
    /\ IntpProceeds
    /\ \/ Fetch(Accept(core), Vector)
       \/ ~Miss(Vector) /\ Fetch(Accept(core), StackWord(sp'))

\* Mutant: interrupts stay enabled
IntpDelivered_KeepsIntf ==
    /\ IntpProceeds
    /\ ~Miss(Vector) /\ ~Miss(StackWord(sp'))
    /\ lines' \in {Stored(StackWord(sp'), v) : v \in Value}
    /\ core' = Unset(Accept(core), SLEEP_ACTIVE \cup {"DTR_INTP"})
    /\ UNCHANGED cache

\* The return address fills one half of the stack's word
IntpDelivered ==
    /\ IntpProceeds
    /\ ~Miss(Vector) /\ ~Miss(StackWord(sp'))
    /\ \E v, behind \in Value :
          lines' = IF sp' % 2 = 0 THEN Stored(StackWord(sp'), v)
                                  ELSE Spilled(StackWord(sp'), v, behind)
    /\ core' = Unset(Accept(core), SLEEP_ACTIVE \cup {"INTF", "DTR_INTP"})
    /\ UNCHANGED cache

-----------------------------------------------------------------------------
(* Instructions, by what they do to this state.                            *)

\* An operand in memory whose line, or whose second word's line, is not there:
\* the call ends and the instruction starts again after the detour.
InsnFetches ==
    /\ AtInstruction
    /\ \E w \in Word : Fetch(core, w)
    /\ UNCHANGED sp

\* A store that crosses two lines is taken as two stores.
InsnStores ==
    /\ AtInstruction
    /\ \E w \in Word, v, behind \in Value :
          ~Miss(w) /\ lines' \in {Stored(w, v), Spilled(w, v, behind)}
    /\ UNCHANGED <<core, cache, sp>>

\* SP is a register like any other
InsnSetsSp ==
    /\ AtInstruction
    /\ sp' \in Slot
    /\ UNCHANGED <<core, lines, cache>>

InsnControls ==
    /\ AtInstruction
    /\ \/ InsnStatus /\ UNCHANGED sp
       \/ InsnSwitch /\ sp' \in Slot
    /\ UNCHANGED <<lines, cache>>

-----------------------------------------------------------------------------
CoreDetour ==
    \/ (CpuSleep \/ CpuAsksRead \/ CpuAsksWrite) /\ UNCHANGED inside
    \/ CacheSkips \/ CacheWrites \/ CacheReads \/ CacheDone
    \/ (CpuMasksIntp \/ CpuTripleFault) /\ UNCHANGED inside
    \/ IntpFetches \/ IntpDelivered

CoreExecutor ==
    \/ CoreDetour
    \/ InsnFetches \/ InsnStores \/ InsnSetsSp \/ InsnControls

CacheNext ==
    \/ BoardExecutor /\ UNCHANGED inside
    \/ RamExecutor /\ UNCHANGED inside
    \/ CoreExecutor
    \/ \E t \in Timer : TimerExecutor(t) /\ UNCHANGED inside

CacheSpec == CacheInit /\ [][CacheNext]_cacheVars

\* What a line holds is stated of the behaviours in which the bus neither loses a
\* posted write nor cuts a read short.
SteadyNext == CacheNext /\ ~LosesWrite /\ ~CutsRead

SteadySpec ==
    /\ CacheInit
    /\ [][SteadyNext]_cacheVars
    /\ WF_cacheVars(BoardExecutor /\ ~LosesWrite /\ UNCHANGED inside)
    /\ WF_cacheVars(RamExecutor /\ UNCHANGED inside)
    /\ WF_cacheVars(Test(core, {"RUNNING"}) /\ CoreDetour)

-----------------------------------------------------------------------------
(* Properties *)

CacheTypeOK ==
    /\ lines \in [0..(Lines - 1) ->
                    [valid : BOOLEAN, dirty : BOOLEAN, tag : 0..(Tags - 1),
                     data : [0..(LineWords - 1) -> Value]]]
    /\ cache \in [status : 0..(2 * LineWords), address : Word]
    /\ sp \in Slot

\* Whatever the cache, the interrupts and the instructions do, the core uses the
\* bus as LegacyBus says; what is proved there holds here.
ImplementsBus == Spec

Overlay(words, dev) ==
    IF Writing(dev) /\ dev.bus_address < RamSize
      THEN [words EXCEPT ![dev.bus_address] = dev.bus_in] ELSE words

\* The memory once the posted writes have reached it
Visible == Overlay(Overlay(mem, ram), board)

\* When the cache detour turns from writing to reading, every word of a dirty line
\* has left for the place in memory that the line's tag names, also when an
\* interrupt has cut the detour short before and it started again: nothing that
\* the program stored is dropped with the line (kyanite_legacy.c:465-475).
WrittenBack ==
    InCache /\ cache.status = LineWords /\ WriteBack =>
        \A k \in 0..(LineWords - 1) :
            Visible[WordAt(lines[Line].tag, Line, k)] = lines[Line].data[k]

\* A line that is being completed (kyanite_legacy.c:480-485) has received the
\* consecutive words that its reads asked for, each in its place, as they are in
\* memory now, although every answer passes through one register and carries no
\* address.  (Which words the reads ask for is another matter: HoldsOwnWords.)
FillInOrder ==
    InCache /\ cache.status = 2 * LineWords =>
        \A k \in 0..(LineWords - 1) : Fetched[k] = Visible[cache.address + LineWords + k]

\* An interrupt scheduled in a running core is delivered or masked, unless it comes
\* to a triple fault (what follows on that is LegacyBus's ResetOnTripleFault).
\* Vector and stack may share a cache line and evict each other again and again; what
\* ends this is that the stack pointer moves on with every attempt
\* (kyanite_legacy.c:505).
InterruptEnds ==
    Test(core, {"DTR_INTP"}) /\ Test(core, {"RUNNING"})
        ~> ~Test(core, {"DTR_INTP"}) \/ TripleFault

\* legacy.h:74, :77 "Line is valid", "Cache tag": a valid line that has not been
\* written to is a copy of the words that its tag and number name.
HoldsOwnWords ==
    \A i \in 0..(Lines - 1) :
        lines[i].valid /\ ~lines[i].dirty =>
            \A k \in 0..(LineWords - 1) :
                lines[i].data[k] = Visible[WordAt(lines[i].tag, i, k)]

\* legacy.h:75 "Line is dirty": a line that holds stored words leaves the cache in
\* the detour that has written it back, and in no other way.
DirtyLeavesByDetour ==
    [][\A i \in 0..(Lines - 1) :
          lines[i].valid /\ lines[i].dirty /\ ~(lines'[i].valid /\ lines'[i].dirty)
              => InCache /\ i = Line]_cacheVars
=============================================================================
