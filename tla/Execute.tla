------------------------------- MODULE Execute -------------------------------
(***************************************************************************)
(* The scheduler of aasm.c.  A host calls execute() again and again; each  *)
(* call walks the device tree depth first and calls the executors that are *)
(* due, children before their parent.  The walk is recursive C; here its   *)
(* call stack is a variable, one frame per active execute_device(), because *)
(* executors run between the steps of the walk and change the very bits    *)
(* that the walk tests.                                                    *)
(***************************************************************************)
EXTENDS Naturals, Sequences

CONSTANTS
    Device,      \* the nodes of the device tree
    Root,        \* the system_t
    Children,    \* devices[0..device_count-1] of each
    Period,      \* freq_mod * freq_div of each, freq_div alone for the root
    CounterMod   \* 2^32, the modulus of the system counter

ASSUME ExecuteAssumption ==
    /\ Root \in Device
    /\ Children \in [Device -> Seq(Device)]
    /\ Period \in [Device -> Nat \ {0}]
    /\ CounterMod \in Nat \ {0}

VARIABLES
    running,  \* the devices whose status has STATUS_RUNNING
    counter,  \* system_t.counter
    now,      \* the value of counter that this call of execute() passes down
    stack     \* the active calls of execute_device(), the root's first

schedule == <<counter, now, stack>>
executeVars == <<running, counter, now, stack>>

-----------------------------------------------------------------------------
\* A call that has done the first i of its device's children
Frame(d, i) == [dev |-> d, done |-> i]

Top == stack[Len(stack)]
Callers == SubSeq(stack, 1, Len(stack) - 1)
InWalk == stack # <<>>
ChildrenDone == Top.done = Len(Children[Top.dev])
\* Mutants: the counter's zero is skipped, the phase is off by one
Due_NotZero(d) == now # 0 /\ now % Period[d] = 0
Due_Phase(d) == now % Period[d] = 1
Due(d) == now % Period[d] = 0

\* execute_device() tests STATUS_RUNNING once, on entry
Entered(d) == IF d \in running THEN <<Frame(d, 0)>> ELSE <<>>

Init ==
    /\ running = Device
    /\ counter = 0
    /\ now = 0
    /\ stack = <<>>

\* Mutant: the counter does not wrap
Call_NoWrap ==
    /\ ~InWalk
    /\ now' = counter
    /\ counter' = counter + 1
    /\ stack' = Entered(Root)
    /\ UNCHANGED running

\* execute(): the walk starts with the counter's old value
Call ==
    /\ ~InWalk
    /\ now' = counter
    /\ counter' = (counter + 1) % CounterMod
    /\ stack' = Entered(Root)
    /\ UNCHANGED running

\* Mutants: the loop does not count, the loop is off by one
Descend_NoCount ==
    /\ InWalk /\ ~ChildrenDone
    /\ stack' = stack \o Entered(Children[Top.dev][Top.done + 1])
    /\ UNCHANGED <<running, counter, now>>

Descend_OffByOne ==
    /\ InWalk /\ ~ChildrenDone
    /\ stack' = Callers \o <<Frame(Top.dev, Top.done + 1)>>
                        \o Entered(Children[Top.dev][IF Top.done = 0 THEN 1 ELSE Top.done])
    /\ UNCHANGED <<running, counter, now>>

\* The loop over the children takes its next one
Descend ==
    /\ InWalk /\ ~ChildrenDone
    /\ stack' = Callers \o <<Frame(Top.dev, Top.done + 1)>>
                        \o Entered(Children[Top.dev][Top.done + 1])
    /\ UNCHANGED <<running, counter, now>>

\* The loop is over: the call returns, having called the executor if it is due.
\* `after' is what the executor leaves in the running bits.
Return(d, after) ==
    /\ InWalk /\ ChildrenDone
    /\ d = Top.dev
    /\ stack' = Callers
    /\ running' = IF Due(d) THEN after ELSE running
    /\ UNCHANGED <<counter, now>>

\* The device that owns the one on top of the stack
Owner == IF Callers = <<>> THEN {} ELSE {Callers[Len(Callers)].dev}

\* What an executor may do to the running bits: a timer stops itself and the
\* core that owns it; a core stops itself or, when it switches tasks, takes the
\* bit of a saved status word.
Effect(d) ==
    {running, running \ {d}, running \cup {d}, running \ Owner,
     running \ (Owner \cup {d})}

Next ==
    \/ Call
    \/ Descend
    \/ \E d \in Device : \E after \in Effect(d) : Return(d, after)

Spec == Init /\ [][Next]_executeVars

(* The host keeps calling execute(), and a call of it is a finite walk. *)
FairSpec == Spec /\ WF_executeVars(Next)

-----------------------------------------------------------------------------
(* Properties *)

\* A set with the owners of all its members
OwnersIn(S) ==
    \A o \in Device : (\E i \in DOMAIN Children[o] : Children[o][i] \in S) => o \in S

\* d and the devices above it in the tree: the least such set that d is in
Owners ==
    [d \in Device |->
        {o \in Device : \A S \in SUBSET Device : d \in S /\ OwnersIn(S) => o \in S}]

TypeOK ==
    /\ running \subseteq Device
    /\ counter \in 0..(CounterMod - 1)
    /\ now \in 0..(CounterMod - 1)
    /\ stack \in Seq([dev : Device, done : Nat])

\* The executor of d is called
Executes(d) == InWalk /\ ChildrenDone /\ Top.dev = d /\ Due(d) /\ stack' = Callers

\* The active calls are a path of the tree that starts at the root, each frame
\* the child its caller is busy with: no executor can make the walk lose its
\* place, whichever running bits it flips.
WalkIsPath ==
    \A k \in 1..Len(stack) :
        /\ stack[k].done <= Len(Children[stack[k].dev])
        /\ k = 1 => stack[k].dev = Root
        /\ k > 1 => /\ stack[k - 1].done > 0
                    /\ stack[k].dev = Children[stack[k - 1].dev][stack[k - 1].done]

\* A device that stays running under owners that stay running is executed again
\* and again, whatever its period and also across the wrap of the counter.
KeepsExecuting ==
    \A d \in Device :
        <>[](Owners[d] \subseteq running) => []<><<Executes(d)>>_executeVars
=============================================================================
