# A verification of AmalgamASM

AmalgamASM is a C library in two halves. One half emulates small computers: a
tree of devices that a scheduler executes, among them the *Legacy* machine with
a core, its timers, a board, a RAM and hubs. The other half is an assembler for
these computers, with the containers it is built from. The specifications in
this directory model all three in TLA+, check them with TLC, and prove the
central invariants with TLAPS for every size of machine, every table and every source. `src/...` below are
paths of the repository, and line numbers without a file are those of
`src/src/kyanite_legacy.c`.

## 1. The system

### The emulator

| part | code | state | operations |
|---|---|---|---|
| scheduler | `aasm.c:3-16`, `aasm.h` | the device tree, `status`, `freq_mod`, `freq_div` of each device, the system `counter` | `execute()`, which walks the tree with `execute_device()` |
| board | 364-396, `legacy.h:44-61` | its request bits, response bits, `bus_address`, `bus_in`, `bus_out` | forward a request, reject it, answer for an absent device, deliver an answer |
| RAM | 432-442 | the same bits, `ram_data` | read, write, report an address past the end |
| timers | 415-431, `main.h:119-125` | `counter`, `limit`, mode bits | count, clear, stop, wake the core, interrupt it, stop it |
| core: sleeps and detours | 444-519, `main.h:75-114` | the sleep, detour and control bits; `bus_status`, `delay`, `intp_status` | sleep, ask the bus, fill a cache line, take an interrupt |
| core: cache | 270-310, 463-486 | eight lines of 32 words with `valid`, `dirty`, `tag`; `cache_status`, `cache_address` | hit or miss, store, write back, fill |
| core: instructions | 33-268, 521-662 | registers, `ip`, flags | about a hundred opcodes built from macros |
| task slots | 572-585, `legacy.h:94-98` | sixteen saved contexts | `TSW`, `TMK` |
| hub | 397-414 | four ports with offsets | forward to a port, pass an answer up |

Devices do not call each other. Each executor writes *into the structure of
another device*: the core sets a request bit in the board, the board sets it in
the RAM, the RAM sets a response bit in the board, the board clears the sleep
bits of the core and fills its data register. A timer writes into the core that
owns it, and the core's `TINC` into a timer. There is no lock and no queue: the
request and response bits are the whole handshake, and the macros `BUS_REQ` and
`BUS_RESP` make the *calling executor return* where the other side is taken, so
that the rest of that call does not happen. What order the executors run in, and
how often each runs between two runs of another, follows from the tree and the
periods.

A *detour* is what a core does in the place of an instruction: `DTR_MEM` asks
the bus for one access, `DTR_CACHE` exchanges a cache line with up to 64 such
accesses, one per call, and `DTR_INTP` delivers an interrupt. A memory access of
an instruction that misses the cache starts the cache detour and returns; the
instruction starts again when the line is there.

### The assembler

| part | code | state | operations |
|---|---|---|---|
| lexer | `cmpl_internal.c:3-57` | a text, the place in it, the words of the line | cut a text into lines of words |
| front end | `compile.c:75-305` | `files`, a stack of open texts; `history`, a stack of open blocks; `dl`, the lines kept for the outermost block; `macros` | read a line, assemble it, keep it, close a block |
| conditionals, macros, repeats | `cmpl_control.c` | the same | `.include`, `.if...`, `.else`, `.macro` and its calls, `.irp`, `.irpc` |
| expressions | `cmpl_internal.c:58-250` | two stacks and two flags | a value, a request to the linker, or an error |
| data and instructions | `cmpl_data.c` | sections with address, parts and requests; symbols; errors | add a part, set a symbol, advance |
| result and linker | `compile.c:3-73`, `307-426` | compiled units, the linked sections | place a section, assemble the script |
| containers | `util.c` | lists with a pointer to the last link, arrays, hash sets and maps | make, put, get, take, erase, rehash, convert, free |

A text is a list: its name, the number of the next line, and its lines. A macro
call, a repeat or a conditional pushes a new list in front of `files` and puts
the rest of its own text back with a fresh header (`helper_reload`), and a kept
block has a header of its own (`helper_line_add`), so that errors are reported
where a line was written. Nothing marks where a header ends: what is taken off
the front twice is a header, and everything behind it lines. Sections collect
parts, each as long as the code computes it, while the address is advanced
separately; the buffer of the result has the size of the address.

### What makes each part correct, and what is hard about it

* **Scheduler.** Executors change `STATUS_RUNNING`, their own and their owner's,
  while the walk is under way, and the walk tests the bit once. The walk must
  keep its place; a device must run at its period, also where the 32-bit counter
  wraps; children run before their owner.
* **Bus.** Three executors share bits. A core asleep on the memory must always
  have something under way that wakes it, although the board may reject its
  request, the read may be repeated before its answer comes, and a timer may
  abandon it in the middle. Answers carry no address, so each must meet the read
  it belongs to. Writes are posted and must not be lost or overtaken.
* **Cache.** A detour of 64 calls may be cut by an interrupt at any of them and
  starts again from 0. Stored words must reach the memory before the line is
  reused; words read must land in their places; two lines that evict each other
  must not keep an interrupt from being delivered.
* **Assembler.** Lines are consumed, deferred and put back in front; nesting and
  the two branches of a conditional are told apart by two-letter frames. What
  matters is which lines are assembled, in what order, where they are reported,
  and at what addresses. Sizes and addresses are kept apart, so labels and
  requests to the linker may drift from the bytes they name.
* **Containers.** The `last` pointer of a list, the load of a set that never
  counts down, buckets while they are rehashed, equality of strings by text here and
  by pointer there, and who owns a block after a conversion.

`PROJECT.json` lists each of these hazards at the line where it bites, with the
properties that cover it or the reason none does.

## 2. The modules

```
Execute ----------- ExecuteHistory ---- MCExecute
   |  \                   \----------- ExecuteHistoryProofs
   |   \----------- ExecuteProofs ------------/
   | INSTANCE                    \ INSTANCE in LegacyMachineProofs
LegacyMachine ----- LegacyBus --------- MCLegacyBus
   |    \             |    \---------- LegacyBusProofs
   |     \            |                   |        |
   |      INSTANCE    LegacyCache ---- LegacyCacheProofs
   |      AtomicMemory    |               |
MCLegacyMachine       MCLegacyCache    LegacyMachineProofs

Sections -- SourceLines -- Linker -- Assembler ---- MCAssembler
                              \        |  \ INSTANCE
                   LinkerProofs        |   Expression
                                     Lexer -- LexerProofs

LinkedList -------- Containers ------- MCContainers
                     |    | INSTANCE   \-- ContainersProofs
                     |    SequenceSpec, DictionarySpec, SetSpec
                     | INSTANCE
                     HashMap, HashSet --- Chains
```

**Execute** is `execute()` and `execute_device()`. The recursion is a variable
`stack`, one frame per active call with the number of children done, because
executors act between the steps of the walk. `Call` is a call of `execute()`,
`Descend` one turn of the loop at `aasm.c:5-7`, `Return` the end of a call with
the executor, if due. What an executor does is narrowed to what an executor can
do to running bits (`Effect`): stop itself, stop its owner (a watchdog), or set
its own bit (a task switch that loads a saved status word). *ExecuteHistory*
adds history variables for the properties that speak of the past.

**LegacyBus** is the memory path. `core`, `board` and `ram` are records of the
fields of the C structures; a status word is the set of its bits, and `Test`,
`Set`, `Unset`, `Respond`, `Request`, `dtr_intp`, ... are the macros and helpers
of lines 8-30 and 312-333. There is an action for each way through each
executor. A macro that returns from its caller is a guard of the whole action. `Next`
lets the executors run in **any order**: it stands for every tree and every
choice of periods. Cache lines and instructions are open there: where the code
looks at them, the model takes any outcome.

**LegacyMachine** puts these executors under the walk of `Execute`, with the
timers' counters and limits. It takes the walk from an INSTANCE of `Execute`
whose `running` is an expression over the machine's status words, so both
modules see the same bits. The states from which an executor returns without a
write (`BoardStays`, `RamStays`, `CpuStays`) are named, because here a call must be
able to do nothing.

**LegacyCache** makes the core of LegacyBus concrete: the lines, the detour of
lines 463-486 word by word (`CacheSkips`, `CacheWrites`, `CacheReads`,
`CacheDone`), the interrupt delivery of 504-514 with its cache checks, and the
stack pointer. An address is the number of a 32-bit word, its tag, line and
offset got by division; the two byte bits are dropped, and a 16-bit stack slot is
half of a word. What a store does beyond its word (`Spilled`) is kept.
Instructions are what they can do to this state: miss, store, set SP, change
the status word.

**AtomicMemory** is the promise of the memory path: one register, one array of
cells, a write that takes effect when it is handed over, a read that returns the
last word written. LegacyMachine implements it (`ImplementsMemory`) where the RAM
`KeepsUp` with the core: the board runs whenever the core does, and the RAM at
least at every second call of the core.

**LinkedList**, **HashMap** and **HashSet** are the three containers of `util.c`.
A list is a heap of nodes with `data`, `last` and `size`; `last` is a link, that is,
a node whose `next` it is or the head's. A table is `buckets`, `capacity` and
`filled`; a string is a block with a text and a hash of that text, so that two blocks may
have one text. **Chains** is what the two tables share: a bucket is the chain of its links in
their order, a new link goes to the front (`Pushed`), a search ends at the first link that
fits (`First`), and a rehash goes through the old chains link by link and pushes each onto
its new one (`Walk`, `Relinked`), so a link that a walk misses or comes to twice is a state
of the model. **Containers** puts the containers together with arrays: one
container at a time is in use, in the order in which the assembler uses them, and
`place` says for each block where it is: in the container, with the client, or
freed. The conversions `hm_free_to`, which appends the entries as its two loops come to them,
`ll_free_to` and the array operations are
actions there. **SequenceSpec**, **DictionarySpec** and **SetSpec** are what a list, a map and a
set promise: a sequence with four operations, a function from texts to values with
three, and how often each string is in the set. `hs_erase`, `hm_erase` and `ll_pop` have no
caller in the repository and are modelled as the interface offers them.

**Lexer** is `helper_file_parse` over characters of six kinds; `LexerSpec` is it
by itself, on any of the texts `Inputs`. **Expression** is
`helper_expr_parse`: operands and operators go on two stacks and leave by
precedence. **Sections** is `cmpl_data.c` and the dispatch of `compile.c:99-249`:
each directive and each form of instruction is an operator that says how many
bytes it adds, by how much it advances, which requests it leaves, which symbols
it sets and which errors it reports. Encodings are left out. **SourceLines** is the reading of lines:
`Open`, `ReadLine`, `AssembleLine`, `Control`, `KeepLine` and the handlers of
`cmpl_control.c`, on lists whose first entries are a name and a number. A list
that has lost its header is read as the C reads it: a line becomes a name, a
number a line; where that is undefined, the model stops as "undefined".
**Linker** is the end of a unit, the script of `link()` and `_parse_linker`; the
keys of its map are freed with the script's line, so a later look-up may or may
not find them (`alive`). `Projects` are the sources, units and scripts that are
assembled; `ProjectAssumption` gives each line of them operands of the kinds that its
directive is about, and numbers that are not negative: the code reads a negative one as a
`size_t` of almost 2^64, which as a size ends the program in `emalloc` and as data adds the
bytes that any number does. `LinkerSpec` assembles any of
them and stands by itself: the recursive definitions of Expression and
Assembler are not in it. **Assembler** puts a set of sources, or
a single expression or text, under one specification and states what
a source means.

An operand is its kind (number, symbol, `symbol+1`, register, text, ...) and a
value; a line is its labels, its operation and its operands. `assembled` in
SourceLines is a history variable: the lines that were assembled, with the place at which
an error in them would be reported.

### Reading an action

`BoardReject`, for example, is lines 375-381: a request in the board, a device
behind it (`RamPresent`), and a request still in that device. The core's `SLEEP_MEM` is
cleared, the request bits of the board are cleared, and the call returns, so an
answer pending in the board stays. `BoardTransfer` is the rest of the executor,
lines 382-395, in one action, because one call both forwards a request and
delivers an answer.

Three simplifications to know of: the core's `bus_status` is split into its flag
(`bus_op`) and its count (`tries`), and `intp_status` into `intp_id` and
`intp_phase`. `BOARD_BUS_IO` is never set, since no caller sets 0x2000 in
`bus_status`, so the board's device is the RAM or none. The running bits of board
and RAM are constant: nothing writes them.

## 3. What is checked

Run `tlc -config <cfg> <module>` in this directory.

| run | module, cfg | properties | question |
|---|---|---|---|
| bus | MCLegacyBus | TypeOK, NoLostWakeup, Wakes, AccessEnds | does every sleep on the memory end, in every order of the executors? |
| execute | MCExecute | TypeOK, WalkIsPath, NeverLate, PostOrder, KeepsExecuting | does the walk survive what executors do to it? |
| machine | MCLegacyMachine | OnlyReadsRejected, ImplementsMemory, ReadsReturn, BusStaysFair, ImplementsExecute | under the walk of `execute()`, is the bus one atomic memory where the RAM keeps up, and is every executor called in time? |
| cache | MCLegacyCache | CacheTypeOK, WrittenBack, FillInOrder, ReadsMatch, ImplementsBus, InterruptEnds | do lines move through the detour intact, cut by interrupts at any call, and does every interrupt get through? |
| containers | MCContainers | TypeOK, ListWellFormed, Accounted, SetNotCrowded, ImplementsSequence, ImplementsDictionary, ImplementsSet | do lists, maps and sets keep what they promise, and does every block have one owner? |
| assembler | MCAssembler | TypeOK, Grouping, LexesAll, Expands, Located, FitsBuffer, InPlace, KeepsGlobal, Placed | does a source come to its meaning, at its places and addresses? |
| machine_lost | MCMachineLost.cfg | OnlyReadsRejected | **violated**, finding 1 |
| machine_stale | MCMachineStale.cfg | OwnAnswer | **violated**, finding 2 |
| cache_own | MCLegacyCacheOwn.cfg | HoldsOwnWords | **violated**, finding 3 |
| cache_dirty | MCLegacyCacheDirty.cfg | DirtyLeavesByDetour | **violated**, finding 4 |
| triple_fault | MCLegacyBus, MCTripleFault.cfg | ResetOnTripleFault | **violated**, finding 5 |
| expression | MCAssembler, MCExpression.cfg | ValueAsWritten | **violated**, finding 6 |

### Findings

1. **A posted write may be lost** (376). A busy RAM makes the board drop the
   request and wake the core. The core repeats a read; a write it has already
   forgotten. With a RAM four times slower than the core, the period that the
   example at `aasm.h:25` computes, two stores in a row reach it. `PostedWritesAccepted`
   (section 4) proves that a RAM at most twice slower excludes it; with periods 5 and 2
   TLC still reaches it.
2. **An answer may be taken for another's** (389). A timer interrupt abandons a
   read while the RAM still works on it. If the handler reads too, the old
   answer ends the new read.
3. **A fill reads the wrong words** (478). `(cache_address.raw >> 2) +
   cache_status` starts at the word that missed instead of the line's first
   word, and at `cache_status` 32 instead of 0. The lines are consistent with
   themselves (`FillInOrder` holds) and not with their tags.
4. **A store may clear the next line's flags** (307). `CACHE_WRITE` stores 32
   bits whatever the size; in the upper half of a line's last word the upper
   half of the store falls on the flags of the next `cache_lines` element.
5. **A triple fault does not reset** (493). `main.h:34` says "Reset on triple
   fault"; the executor clears `STATUS_RUNNING` and returns, both fault bits set.
   No code sets them back, so the third interrupt of any kind stops the core.
6. **A symbol by itself comes to 0** (`cmpl_internal.c:247`). What is left of an expression
   is given to `strtoll` as text. Of a symbol that is its name, so the value is 0, without the error
   of line 238, "all symbols must be absolute", although `test/asm/main.s:7,13` define
   `.equ abs, 0x20` and use `$abs`. The same property, `ValueAsWritten`, would also fail on the order of
   operands: the right one is taken first (`7-2` is `2-7`, lines 103 and 162).

Findings 1 and 2 bear on the cache as well: they leave any line with the wrong
words. `SteadySpec` in LegacyCache is `CacheSpec` without the two steps that lead
there (`LosesWrite`, `CutsRead`), so that the cache runs ask what the cache does
on a bus that keeps its promise. Of the proofs about LegacyCache (section 4), those of its types, of
the refinement of LegacyBus and of the wakeup are of `CacheSpec`, with those steps, and those of what the lines hold of `SteadySpec`.

### What the assembler's properties say, and where they stop

`Expands` compares the lines that the stacks of texts assemble with `Expansion`:
the text with every block, call, repeat and file replaced by what it stands for,
computed from the front without lists or headers. `Located` compares their
places. Both speak of what the code treats rightly, and stop at the first construct
that it does not (`Irregular`, `Sound`, `NoBlankInBlock`). The models follow the
code beyond that point; what was met there, and stated by no document of the
repository either way:

* the lines of a false branch are assembled from the third on: only two are
  taken off, as the header that a true branch would have (`compile.c:299`,
  `cmpl_control.c:150-154`);
* `.else` turns the frame over but takes no line out, and a second `.else` puts
  a second header among the lines (`cmpl_control.c:143-149`);
* lines with nothing but labels are dropped inside a block (`compile.c:264`);
* an `.include` with a wrong number of operands, or a call with too few, leaves
  a text without its header; such a macro also loses its operands
  (`cmpl_control.c:166-174`);
* an included file that cannot be read ends the whole source (`compile.c:94`);
* a source that ends in a block with a header frees the number in it
  (`compile.c:343`);
* using a symbol that only `.globl` has named compares a null name
  (`cmpl_internal.c:93`).

`Grouping` asks whether the operators wait on their stack as long as they should: with
brackets, unary signs and precedence, an expression groups as written, with the operands of each
operator in one order or each in the other, and is deferred or refused only where it must be. What the
order is, and what a symbol by itself comes to, is `ValueAsWritten` (finding 6). The grammar of both
leaves out a group as the left operand, which the code refuses (194), and `^`, which belongs to a
word (7). `InPlace` speaks of
sections whose parts are as long as the section: `_parsei_1reg_1imm` adds three
bytes and advances by four (`cmpl_data.c:314-316`), which `FitsBuffer` allows. No document says that
the parts fill the section, so no property of these says that they do.

Two comments of `util.h` (`hm_free`, `ll_free` "calls free() on the key and
value") do not describe the code, where only the `_val` variants free them;
`Accounted` is about what the code does: what is left then is `leaked`.

### Bounds, and why they are enough

* **bus**: machines with and without a RAM; one cell and one address past the end, one word, a delay register of
  2 values, a retry cap of 1, and a timer that both wakes and interrupts at any
  moment. No property of this run compares words. A cap of 1 makes the first
  retry saturate; a delay modulus of 2 makes a sleep of 0 wrap. `Wakes` and
  `AccessEnds` are stated of machines with a RAM: without one, TLC finds the board
  stuck at line 371, where a new request keeps the interrupt that answers an
  earlier one from being delivered, and that interrupt keeps the request from being
  answered (a hazard in `PROJECT.json`).
* **execute**: a system, a board, a core with a timer, a RAM; periods 1, 2, 3
  and a counter modulus of 7, which none of the longer periods divides, so the
  wrap cuts a period short. The depth, the branching and the owner-stopping
  child are all there.
* **machine**: two cells and two words tell an overtaken, lost or
  misdirected access from a right one. RAM period 2, core and board period 1; a timer that
  is a one-shot watchdog, so that the core and the timer stop in the middle of a walk; a counter
  modulus of 2. `OnlyReadsRejected` and `ImplementsMemory` were found to hold for RAM and core periods up to 2
  in both device orders, for a board period of 2 and for RAM 3 or 4 with a core of 2; with RAM 3
  and core 1 they fail as in finding 1.
* **cache**: two tags for one line of two words; two words of data laid out in
  stripes so that a shifted fill shows; a timer that interrupts at any call; task
  slots (`Saved`) that are unused or hold a task that has run without a fault, where
  the bus run takes every status word. The
  memory has the seven cells that a fill can reach. `VIEW Live` leaves out
  fields that are written before they are next read: the bus fields of a device
  without a request, the word of a read on its way out, the delay of a core that
  does not count it down, the place of an idle detour, the words of an invalid
  line not yet filled; of a pending interrupt it keeps the vector and whether it
  can be masked. `CONSTRAINT Healthy` does not follow a core that has stopped or
  has accepted two interrupts: the bit it would still carry, `TFAULT`, only
  decides whether the third interrupt stops it (finding 5). Nor is a machine followed in which
  a second word of the RAM differs from what it started with (`NearImage`); the words in lines
  and in writes under way are not bounded. One changed word is enough for a line written back
  to a wrong place, or read there, to be told from the right one. Vector and stack lie in
  different tags of the one line and evict each other, the case `InterruptEnds` is about.
* **containers**: four blocks, four nodes and four strings, two of which have one text
  and a third meets them in one bucket of a table of 1, 2 or 4. The first capacity is 1 for a map, which rehashes at its third entry, when a bucket splits, and 2
  for a set, which does at its fifth put; six puts,
  since a set's `filled` never falls, let it rehash with fewer members than
  puts, and hold a string several times. A list of four takes each operation at length 0, 1, 2 and more.
* **assembler**: 30 fragments of one to six lines (blocks true and false, nested, torn, with
  `.else`, words that only begin like those of a block, macros with given and missing operands, calls, nested repeats, files,
  errors), in all combinations of three of which the first defines something or leaves something torn; 49
  data lines in all pairs behind five beginnings; two units with two sections and
  all triples of eleven script lines; all expressions of up to seven tokens over a number,
  an absolute and a relocated symbol, two binary and two unary operators
  of different precedence and brackets, in 4-bit arithmetic; all texts of up to six
  characters. A third fragment is what shows a list that the
  second one left torn or out of place; a construct never looks further than to
  the list in front of and behind it. Malformed expressions are not continued beyond three tokens.
* **violation runs**: the smallest geometry that shows the behaviour.

Deadlock is not checked in the runs of LegacyBus and LegacyCache: a program may
end in `HALT` with nothing on the bus, and the core may sleep on a timer it does
not have. In the runs with the walk, which always goes on, it is checked, and in
the assembler's, where `Stopped` is the only way to stay. A container that has been
released is at its end.

### Fairness

`execute()` is called by a host in a loop; a call is a finite walk
(`WF(Next)` in Execute, `WF(MachineNext)` in LegacyMachine). From this
`KeepsExecuting` is *checked*: a device that keeps running under running owners is executed
again and again. That is what licenses `Fairness` in LegacyBus and
`SteadySpec`: weak fairness of the board's and the RAM's executor, and of the running core's
in its sleeps and detours (`CpuDetour`, `CoreDetour`). At an instruction nothing is promised,
since the instruction may be one that changes nothing here. The machine run checks the licence itself:
`BusStaysFair` is that `Fairness`, as a property of the machine under the walk, where a device
is passed over until its period has come, while its owner is stopped, and at each wrap of the counter.
Timers get no fairness, and none is put on a particular branch of the core or on
what an instruction does.

### Mutants

Each property has a mutant in the module of the definition it changes: a version
of the definition with a plausible slip (a lost wakeup, a mask one bit short, a
counter that does not count, a line written to its new tag), which makes TLC
report that property. They are marked "Mutant" and used by no specification.

## 4. What is proved

`tlapm <module>` checks each; no step is assumed. Every theorem is for all values
of the constants: every size of memory and cache, every device tree, every hash.

**LegacyBusProofs.** `TypeCorrect`, `NeverLosesWakeup`. `NoLostWakeup` is not
inductive: that a sleeping core has its read in the board, in the RAM or
answered survives a step only if a device never holds a read and a write merged
(`OneRequest`; the RAM would swallow the read), and if an answer is either data
or an interrupt (`AnswerOK`; else delivery would clear the sleep without ending
the detour it belongs to). `IInv` is the conjunction of these with `TypeOK`, and
`NextInv` proves it from one lemma per conjunct and one step per action.
`QuietReadsMatch`: under `Quiet` (no interrupts, all addresses inside the RAM)
the read a core sleeps on is in exactly one place, `OneReadPath`, from which `ReadsMatch`
follows. The proof asks of a step only that it is neither `LosesWrite` nor
`CutsRead`, so that the cache can use it with interrupts.

**LegacyMachineProofs.** The executors of the machine are the actions of LegacyBus, so
`MachineNeverLosesWakeup` carries `NeverLosesWakeup` over to the machine by the shape of the definitions.
`MachineImplementsExecute`: every step is also one of the walk of Execute. The
steps of the walk are those of Execute by definition; the work is in what an
executor does to running bits meanwhile (`ExecutorEffect`): a core may stop itself
or load a saved word, and a timer may stop or wake only its *owner*. That the
core is the owner of a timer is `TimerOwner`, from `WalkInv` of ExecuteProofs and
the tree: the timer that is called stands in the stack behind its caller. A timer
that stops itself is one that the mode says so of (`TimerInv`).
`MachineKeepsItsPlace` then takes over `WalkIsPath`.

`PostedWritesAccepted` and `MachineImplementsMemory`: under `Quiet` and `KeepsUp` a
posted write is never rejected, and the machine implements AtomicMemory, for every
memory, every order of the devices and all such periods. The first is about time:
what keeps a write from meeting a busy RAM is only when the executors run. `TimeInv` ties
the requests under way to the place of the walk. A write is in the board only between the
core's call and the board's own in the same walk (`BoardInTime`). A write in the RAM
is done before the core's second call from now (`RamInTime`), and before its next if
the core has scheduled another (`RamBeforeNext`): a RAM that had only the first would
still hold a write when the next arrives. These count the calls to come before the
32-bit counter wraps; behind the wrap nothing is needed, since at 0 every device is due. Where
each call finds the walk is `PlaceOf`, from `WalkInv`. `MemoryInv` adds the bus
invariants of LegacyBusProofs and is inductive. The second theorem maps each step to
AtomicMemory: the cells the program sees are those of the RAM under the writes in
the RAM and in the board, so a write takes effect when the board accepts the core's
request, and the steps that carry it on change nothing (`BoardOnMemory`,
`RamOnMemory`, `CpuOnMemory`). The period that `aasm.h:25` computes for the RAM violates
`KeepsUp`; that is finding 1.

**LegacyCacheProofs.** `CacheTypeCorrect`: for every number of tags, lines and
words, no address or index of the detour leaves its range. This rests on lemmas
about products and quotients, since the address of a word is computed from tag,
line and offset and back. `CacheImplementsBus`: every step with cache lines is
one of LegacyBus; here the type invariant is needed, as a fill computes an
address that the bus must know (`Reached`). `CacheNeverLosesWakeup` follows.

`DirtyLineWrittenBack`, `LineFilledInOrder` and
`SteadyReadsMatch`, of `SteadySpec` and under `Backed` (there is a RAM, and it has a cell
for every address: behind its end a read is answered by an interrupt, and no word
can be in its place). `WrittenBack` speaks of the moment when the write-back ends;
`WritesDone` of each moment of it: the words of the line that `cache_status` has passed
are what the memory will hold when the posted writes, and the one that the core has
scheduled, are done (`Promised`). Its step needs that two words of a line never have
one address. `ReadsDone` is the same for the fill: the words passed are in the
line, and the last one asked for is scheduled or in the data register. An
interrupt between two calls starts the detour again from 0, where both say
nothing; an interrupt within a read is what `SteadySpec` excludes.

**ExecuteProofs.** `ExecuteTypeCorrect`, `WalkKeepsItsPlace`, for every device
tree. The two need each other: a frame's child is a device only because the
frame has counted no further than its children, and the counter of a frame is
bounded only because the frame is where the path says.

**ExecuteHistoryProofs.** `ChildrenFirst`: an executor is called once in a walk and
after those below it. The invariant `PlaceInv` says that a device that was called
is *behind* the place at which the walk is, that is, some frame has counted past it
or past one of its owners, and that no device stands in the stack twice. For this
each device has one place in the tree (`TreeAssumption`, what `children` pointers of
separately allocated devices amount to); owners are the least set that is
closed under "owner of", so that nothing is assumed about the tree's depth.
`PeriodNotStretched`: `TimeInv` relates the calls that a device has waited to the
`counter`: their number is at most the remainder of the counter by the period,
which is kept at the wrap because the remainder of 0 is due.

**ContainersProofs.** `MapIsDictionary`: for every set of strings, every hash and
every capacity, each step of the map is a step of DictionarySpec or leaves it
alone. The refinement maps the buckets to the function from the texts they hold. The
inductive invariant `TableInv` says that an entry is in the bucket where its hash
looks for it, that no two have one text, and that the entries are finitely many;
each is needed: without the first, `hm_get` misses what a rehash moved, without the
second, an erase would leave a second value to be found (`MapKeepsBuckets`).
`SetIsBag` is the refinement of SetSpec by the set, whose strings may be put several times: it counts
the links of each string, and shows that `hs_put` adds one, that `hs_erase` takes off one at
most, the first that holds this very string, and that a rehash changes no number. `SetInv` says that
each link is in its bucket, that no link stands twice or has the number of a put to come, and that the
links are no more than `filled`, which is no more than two to a bucket; `SetStaysRoomy` follows. `NotCrowded` alone is not inductive: `hs_put`
tests `filled` and not the links. What a rehash does is a loop over all chains that relinks each link
as it goes. `WalkLinks` shows that the loops come to every link once, and `RelinkedLinks` that every
link they come to is in the chain of its slot afterwards, once, and nothing else is; both are proved for any
number of links by the least round at which it would fail.
`ListStaysWellFormed`: the nodes stay one chain that `last` ends, by giving the
chain of the new state for each operation; `ListInv` adds that each node has both
its fields. `ll_pop` needs the lemma that its search for the last link ends
there and nowhere else (`LastLinkFound`).
`ListIsSequence`: each call on a list is the operation on a sequence, at both ends and
past empty; the new chain of the lemmas above gives the new items.
`BlocksAccounted`: `OwnInv` adds to `Accounted` that no two nodes, entries or
elements hold one block; without it, freeing one of two would free the other. It is carried
through every call and conversion, `MapToList` and `ar_cutout` included.
`ContainersTypeCorrect` follows from all of them. `BlockAssumption` says that a
null pointer is no block, which is what `ar_set` and `hm_put` return where nothing was replaced.

The loops over a list are recursive functions over its nodes (`Nth`). What such a
loop computes is proved without the library's induction theorems: were it wrong
anywhere, the set of indices at which it is wrong would have a least element (`LeastOf`,
from the well-foundedness of the naturals), and there the loop goes on from a right
one (`LoopAlongChain`).

**LexerProofs.** `WordsCoverText`, for texts of any length: a character between blanks and
comments is in one word, and the line of a word counts the breaks before it, but
for those in quotes. The invariant `LexInv` states this of what has been read, with the line in hand
as the last: the words stand in the order of the text, end before the place of
reading, and what lies between two of them is blank or comment.

**LinkerProofs.** All of it is of `LinkerSpec`, for every source, macro, repeat,
included file and script that `ProjectAssumption` admits. `AssemblerInvariant` is the
inductive invariant, in three parts. `DataInv`: the section in use exists, symbols name
sections that are there, and the parts of a section are together no longer than its address;
each form of directive and instruction is a lemma that says what it adds (`PartAdded`,
`DataLinesStep`, `InstructionStep`). `LinesInv`: every list of `files`, of `dl` and
of the macros holds lines, places and heads of the right types, also where the code has
lost a header and reads a line as a name; a block with a label has its operands and its
place behind it (`Headed`), and a macro begins with them (`Defined`). Without it nothing
is known of an operand that a macro call puts in the place of a parameter, and `DataInv` is
not kept by the lines that a call adds. `LinkInv`: while the script is read no block is
open, and every compiled result has finitely many sections, whose sizes are numbers;
`Link`, which appends the sections in the order of their buckets, needs this.
`AssemblerTypeCorrect` and `PartsFitBuffer` follow from these, and
`SymbolsStayGlobal` from the steps: `hm_put` overwrites a symbol with the mark it had, and a
unit's symbols go only when the next unit begins or the linker does.

`Placed` needs a second invariant, `PlacedInv`: while a script is read the linked section
has no gaps (`Filled`), what was placed has given its data away (`Taken`) and so is not asked
for again (`Once`), and the maps record all of it (`AllRecorded`), nothing else
(`Rightly`), and nothing in two maps (`NotTwice`). The last is not evident: the key of a map can
be freed with its line, so that a later line may find that map or make another for the
same unit; the maps stay disjoint because a section is taken once. `LinkPlaces` says where each
section of a line is placed in whatever order the buckets have them, `RecordedIs` what the
maps then hold, `SectionsPlaced` puts the two together, and `RecordsCounted` turns the
result into the count that `Placed` speaks of.

`LabelsAndRequestsInPlace` needs a third, `InPlaceInv`: for each section that is filled, as
long as no line was refused, its labels and requests lie on its parts (`SectionIn`). Both
conditions are monotone, which is what makes it inductive: a part that is shorter than what
the section advances by leaves a gap for good (`AddedIn`), and no line takes an error
back (`ErrorsReported`). `_parsei_2reg_imm`, which leaves a request and then refuses the
register, is kept by the second. A label is set to the section's address, and a request is
made for it, before the part is added: that this is a border between two parts is
`FilledBefore`. The names of sections matter: a section called "absolute" would take
the constants for its labels, which `compile.c:154` (a name begins with a dot) excludes,
and so does `ProjectAssumption`.

The sum of the parts, the substitution of operands one after another, the requests of a line
and the loop of the linker are recursive functions (`Total`, `Expanded`, `Requests`, `Link`). That each exists and has the value of its
loop is proved as in ContainersProofs, by the least index at which it would not.

The assumptions are those named in the modules (`ExecuteAssumption`, `TreeAssumption`,
`BusAssumption`, `MachineAssumption`, `CacheAssumption`, `TableAssumption`,
`BlockAssumption`, `ListAssumption`, `LexerAssumption`, `ProjectAssumption`): ranges of the constants, periods that are not 0, a
tree in which a device has one place, addresses that are not null, and an address
space that holds what a fill reaches, lines with operands of the kinds they take. TLC evaluates each in a run.
Three hypotheses of theorems choose a machine: `Backed` (a RAM, and a cell of it at every
address), `Quiet` (`Backed`, and timers that neither interrupt nor switch tasks) and `KeepsUp`. The
machine of the run machine has all three; the one of machine_lost lacks only `KeepsUp`.

**Only model-checked:** all liveness (fairness and ENABLED are out of the
prover's reach), and of the assembler `Grouping`, `Expands` and `Located`: what they
compare the code with is recursive over the text (`Expansion`, the grammar of expressions), and
Expression computes with bitwise functions, which the prover cannot reason about.

## 5. What is not modelled

* **The hub** (397-414). It hands a request to a port through `kyanite_bus_t`
  (406), whose `bus_address` and `bus_in` lie where the Legacy devices have
  `bus_in` and `bus_out` (`main.h:127-140`, `legacy.h:44-55`); what the child then
  receives is a matter of the ABI. No code of the repository puts a hub into a
  machine.
* **Bytes, registers and the instruction stream.** `ip`, registers other than
  SP, arithmetic and flags are "any"; `CACHE_WRITE` across two lines is two
  stores; what lies behind the last cache line is left out. Which status word
  is in which task slot is not tracked.
* **Encodings** of instructions and data, the wording of errors, memory
  exhaustion (`emalloc` ends the program). The texts of the assembler are
  operations and operands; how a line's words are told apart is in Lexer and
  Expression by themselves.
* **What `link()` returns**: it has no return statement, and resolves no request.
* The commented-out code (`aasm.c:18-997`, `kyanite.c:26-677`), headers nothing
  uses, the test driver and the build files have no state worth checking.

## 6. Plan

1. *done* - scheduler, bus, machine, cache, their type invariants, the wakeup
   invariant, the two refinements.
2. *done* - containers against sequences, dictionaries and sets, down to the links of the chains,
   with proofs for all three.
3. *done* - the assembler: lines, expressions, sections, linker.
4. *done* - proofs: the machine's walk implements Execute; `WrittenBack`, `FillInOrder`,
   `ReadsMatch` under `SteadySpec`; `PostOrder` and `NeverLate`; every invariant of the
   containers and their three refinements; of the assembler `TypeOK`, `FitsBuffer`,
   `KeepsGlobal`, `Placed` and `InPlace`; the machine as one atomic memory under `KeepsUp`;
   the lexer on any text.
5. **Task slots**: which slot holds which status word, and the registers `TSW` exchanges.
