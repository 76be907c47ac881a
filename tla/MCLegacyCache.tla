---------------------------- MODULE MCLegacyCache ----------------------------
(* Small cores with a cache for TLC. *)
EXTENDS LegacyCache, Sequences, FiniteSets

CONSTANTS v1, v2

Values == {v1, v2}
Reached == 0..(Words + 2 * LineWords - 2)
\* The words of a line differ
Striped ==
    {[a \in 0..(RamSize - 1) |-> IF a % 2 = 1 /\ v2 \in Value THEN v2 ELSE v1]}
\* Tasks that have run without a fault, with interrupts or without, and an unused slot
Tasks == {{"RUNNING"}, {"RUNNING", "INTF"}, {}}
FirstWord == [i \in Interrupt |-> 0]
NoTimer == [t \in {} |-> {}]
OneTimer == [t \in {0} |-> {"INTP"}]

\* Bounds: a core that has stopped or has had two faults is followed no further, nor
\* is a machine with a second word in the RAM that differs from what the RAM started
\* with (lines, and writes on their way, may hold more such words).
Healthy == Test(core, {"RUNNING"}) /\ ~Test(core, {"TFAULT"})
NearImage ==
    \E image \in RamImage : Cardinality({a \in DOMAIN mem : mem[a] # image[a]}) < 2

\* Fields that are written before they are read again do not tell states apart.
\* (No timer here wakes the core, so nothing reads the delay of WAIT.
\* Of an interrupt the core looks at its vector and at whether it can be masked.)
Dead == "dead"
LiveBus(dev) ==
    << dev.status,
       IF Test(dev, IO_INPUT) THEN dev.bus_address ELSE Dead,
       IF Test(dev, {"IO_WRITE"}) THEN dev.bus_in ELSE Dead >>
Writes == Test(core, {"DTR_MEM"}) /\ core.bus_op = "IO_WRITE"
Filled == Test(core, {"DTR_CACHE"}) /\ ~Test(core, {"DTR_MEM"}) /\ cache.status > LineWords
LiveCore ==
    << core.status,
       IF Test(core, {"DTR_MEM"}) THEN <<core.bus_op, core.bus_address, core.tries>> ELSE <<>>,
       IF Writes \/ Filled THEN core.bus_data ELSE Dead,
       IF Test(core, {"SLEEP_DELAY"}) THEN core.delay ELSE 0,
       IF Test(core, {"DTR_INTP"})
         THEN <<Ivt[core.intp_id], core.intp_id > INT_LAST_NMI, core.intp_phase>> ELSE <<>> >>
LiveCache == IF Test(core, {"DTR_CACHE"}) THEN cache ELSE [status |-> 0, address |-> 0]
LiveLine(i) ==
    IF lines[i].valid THEN lines[i]
    ELSE [valid |-> FALSE,
          data |-> IF Test(core, {"DTR_CACHE"}) /\ i = Line
                     THEN SubSeq([k \in 1..LineWords |-> lines[i].data[k - 1]],
                                 1, cache.status - LineWords - 1)
                     ELSE <<>>]
Live == << LiveCore, LiveBus(board), LiveBus(ram),
           IF Test(board, IO_OUTPUT) THEN board.bus_out ELSE Dead,
           mem, LiveCache, [i \in 0..(Lines - 1) |-> LiveLine(i)], sp >>
=============================================================================
