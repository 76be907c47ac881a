---------------------------- MODULE ExecuteProofs ----------------------------
(* The walk of execute() keeps its place in every device tree, whatever the    *)
(* executors do to the running bits under it.                                  *)
EXTENDS Execute, SequenceTheorems, TLAPS

FrameType == [dev : Device, done : Nat]

\* The inductive invariant: the conjuncts need each other, for a frame's child is
\* a device only because the frame has counted no further than its children.
WalkInv == TypeOK /\ WalkIsPath

\* Entering a device adds at most a frame for it that has done nothing
LEMMA EnteredCases ==
    ASSUME NEW d
    PROVE  Entered(d) = <<>> \/ Entered(d) = <<Frame(d, 0)>>
BY DEF Entered

LEMMA TopType ==
    ASSUME TypeOK, InWalk
    PROVE  /\ Len(stack) \in Nat \ {0}
           /\ Top \in FrameType
           /\ Callers \in Seq(FrameType)
           /\ Len(Callers) = Len(stack) - 1
           /\ \A k \in 1..Len(Callers) : Callers[k] = stack[k]
<1>1. stack \in Seq(FrameType) /\ stack # <<>>
  BY DEF TypeOK, InWalk, FrameType
<1>2. Len(stack) \in Nat \ {0}
  BY <1>1
<1>3. Top \in FrameType
  BY <1>1, <1>2 DEF Top
<1>4. \A k \in 1..(Len(stack) - 1) : stack[k] \in FrameType
  BY <1>1, <1>2
<1>5. /\ Callers \in Seq(FrameType)
      /\ Len(Callers) = IF 1 <= Len(stack) - 1 THEN Len(stack) - 1 ELSE 0
      /\ \A k \in 1..(Len(stack) - 1) : Callers[k] = stack[k]
  BY <1>2, <1>4, SubSeqProperties DEF Callers
<1>6. Len(Callers) = Len(stack) - 1
  <2> DEFINE n == Len(stack)
  <2>1. n \in Nat \ {0} /\ Len(Callers) = IF 1 <= n - 1 THEN n - 1 ELSE 0
    BY <1>2, <1>5
  <2> HIDE DEF n
  <2>2. Len(Callers) = n - 1
    BY <2>1
  <2> QED
    BY <2>2 DEF n
<1> QED
  BY <1>2, <1>3, <1>5, <1>6

LEMMA InitWalk == Init => WalkInv
BY ExecuteAssumption DEF Init, WalkInv, TypeOK, WalkIsPath

LEMMA CallWalk ==
    ASSUME WalkInv, Call
    PROVE  WalkInv'
<1>1. Root \in Device /\ Children[Root] \in Seq(Device)
  BY ExecuteAssumption
<1>2. counter' \in 0..(CounterMod - 1) /\ now' \in 0..(CounterMod - 1)
  BY ExecuteAssumption DEF WalkInv, TypeOK, Call
<1>3. CASE stack' = <<>>
  BY <1>2, <1>3 DEF WalkInv, TypeOK, WalkIsPath, Call
<1>4. CASE stack' = <<Frame(Root, 0)>>
  BY <1>1, <1>2, <1>4 DEF WalkInv, TypeOK, WalkIsPath, Call, Frame
<1> QED
  BY <1>3, <1>4, EnteredCases DEF Call

\* The stack after one more child is counted: the same but for the top frame
LEMMA CountedStack ==
    ASSUME WalkInv, InWalk, ~ChildrenDone,
           NEW counted, counted = Callers \o <<Frame(Top.dev, Top.done + 1)>>
    PROVE  /\ counted \in Seq(FrameType)
           /\ Len(counted) = Len(stack)
           /\ \A k \in 1..(Len(stack) - 1) : counted[k] = stack[k]
           /\ counted[Len(stack)] = Frame(Top.dev, Top.done + 1)
<1>1. /\ Top \in FrameType /\ Callers \in Seq(FrameType)
      /\ Len(stack) \in Nat \ {0} /\ Len(Callers) = Len(stack) - 1
      /\ \A k \in 1..Len(Callers) : Callers[k] = stack[k]
  BY TopType DEF WalkInv
<1>2. Frame(Top.dev, Top.done + 1) \in FrameType
  BY <1>1 DEF FrameType, Frame
<1> QED
  BY <1>1, <1>2

LEMMA DescendWalk ==
    ASSUME WalkInv, Descend
    PROVE  WalkInv'
<1> DEFINE n == Len(stack)
           counted == Callers \o <<Frame(Top.dev, Top.done + 1)>>
           child == Children[Top.dev][Top.done + 1]
<1>1. InWalk /\ ~ChildrenDone /\ stack' = counted \o Entered(child)
  BY DEF Descend
<1>2. n \in Nat \ {0} /\ Top \in FrameType /\ Top = stack[n]
  BY <1>1, TopType DEF WalkInv, Top
<1>3. /\ counted \in Seq(FrameType) /\ Len(counted) = n
      /\ \A k \in 1..(n - 1) : counted[k] = stack[k]
      /\ counted[n] = Frame(Top.dev, Top.done + 1)
  BY <1>1, CountedStack
<1>4. Top.done < Len(Children[Top.dev])
  <2>1. Top.done <= Len(Children[Top.dev])
    BY <1>2 DEF WalkInv, WalkIsPath
  <2>2. Len(Children[Top.dev]) \in Nat /\ Top.done \in Nat
    BY <1>2, ExecuteAssumption DEF FrameType
  <2> QED
    BY <1>1, <2>1, <2>2 DEF ChildrenDone
<1>5. child \in Device
  BY <1>2, <1>4, ExecuteAssumption DEF FrameType
<1>6. \A k \in 1..n :
         /\ counted[k].done <= Len(Children[counted[k].dev])
         /\ k = 1 => counted[k].dev = Root
         /\ k > 1 => /\ counted[k - 1].done > 0
                     /\ counted[k].dev = Children[counted[k - 1].dev][counted[k - 1].done]
  <2> SUFFICES ASSUME NEW k \in 1..n
               PROVE  /\ counted[k].done <= Len(Children[counted[k].dev])
                      /\ k = 1 => counted[k].dev = Root
                      /\ k > 1 => /\ counted[k - 1].done > 0
                                  /\ counted[k].dev =
                                        Children[counted[k - 1].dev][counted[k - 1].done]
    OBVIOUS
  <2>1. /\ k = 1 => stack[k].dev = Root
        /\ k > 1 => /\ stack[k - 1].done > 0
                    /\ stack[k].dev = Children[stack[k - 1].dev][stack[k - 1].done]
        /\ stack[k].done <= Len(Children[stack[k].dev])
    BY DEF WalkInv, WalkIsPath
  <2>2. counted[k].dev = stack[k].dev
    BY <1>2, <1>3 DEF Frame
  <2>3. k > 1 => counted[k - 1] = stack[k - 1]
    BY <1>2, <1>3
  <2>4. counted[k].done <= Len(Children[counted[k].dev])
    <3>1. CASE k = n
      <4>1. Top.done + 1 <= Len(Children[Top.dev])
        BY <1>2, <1>4, ExecuteAssumption DEF FrameType
      <4> QED
        BY <1>3, <3>1, <4>1 DEF Frame
    <3>2. CASE k \in 1..(n - 1)
      <4>1. counted[k] = stack[k]
        BY <1>3, <3>2
      <4> QED
        BY <2>1, <4>1
    <3>3. k = n \/ k \in 1..(n - 1)
      BY <1>2
    <3> QED
      BY <3>1, <3>2, <3>3
  <2> QED
    BY <2>1, <2>2, <2>3, <2>4
<1>7. UNCHANGED <<running, counter, now>>
  BY DEF Descend
<1> HIDE DEF n, counted, child
<1>8. CASE stack' = counted
  <2>1. TypeOK'
    BY <1>3, <1>7, <1>8 DEF WalkInv, TypeOK, FrameType
  <2>2. WalkIsPath'
    BY <1>3, <1>6, <1>8 DEF WalkIsPath
  <2> QED
    BY <2>1, <2>2 DEF WalkInv
<1>9. CASE stack' = counted \o <<Frame(child, 0)>>
  <2>1. Frame(child, 0) \in FrameType
    BY <1>5 DEF Frame, FrameType
  <2>2. /\ stack' \in Seq(FrameType) /\ Len(stack') = n + 1
        /\ \A k \in 1..n : stack'[k] = counted[k]
        /\ stack'[n + 1] = Frame(child, 0)
    BY <1>2, <1>3, <1>9, <2>1
  <2>3. TypeOK'
    BY <1>7, <2>2 DEF WalkInv, TypeOK, FrameType
  <2>4. /\ stack'[n + 1].done <= Len(Children[stack'[n + 1].dev])
        /\ stack'[n].done > 0
        /\ stack'[n + 1].dev = Children[stack'[n].dev][stack'[n].done]
    <3>1. Len(Children[child]) \in Nat
      BY <1>5, ExecuteAssumption
    <3>2. stack'[n] = Frame(Top.dev, Top.done + 1)
      BY <1>2, <1>3, <2>2
    <3> QED
      BY <1>2, <2>2, <3>1, <3>2 DEF Frame, FrameType, child
  <2>5. WalkIsPath'
    <3> SUFFICES ASSUME NEW k \in 1..(n + 1)
                 PROVE  /\ stack'[k].done <= Len(Children[stack'[k].dev])
                        /\ k = 1 => stack'[k].dev = Root
                        /\ k > 1 => /\ stack'[k - 1].done > 0
                                    /\ stack'[k].dev =
                                          Children[stack'[k - 1].dev][stack'[k - 1].done]
      BY <2>2 DEF WalkIsPath
    <3>1. CASE k = n + 1
      BY <1>2, <2>4, <3>1
    <3>2. CASE k \in 1..n
      <4>1. stack'[k] = counted[k] /\ (k > 1 => stack'[k - 1] = counted[k - 1])
        BY <1>2, <2>2, <3>2
      <4> QED
        BY <1>6, <3>2, <4>1
    <3> QED
      BY <1>2, <3>1, <3>2
  <2> QED
    BY <2>3, <2>5 DEF WalkInv
<1>10. counted \o <<>> = counted
  BY <1>3
<1> QED
  BY <1>1, <1>8, <1>9, <1>10, EnteredCases

LEMMA ReturnWalk ==
    ASSUME WalkInv, NEW d \in Device, NEW after \in Effect(d), Return(d, after)
    PROVE  WalkInv'
<1>1. /\ stack' \in Seq(FrameType) /\ Len(stack') = Len(stack) - 1
      /\ Len(stack) \in Nat \ {0}
      /\ \A k \in 1..Len(stack') : stack'[k] = stack[k]
  BY TopType DEF WalkInv, Return
<1>2. after \subseteq Device
  BY DEF Effect, WalkInv, TypeOK
<1>3. running' \subseteq Device /\ UNCHANGED <<counter, now>>
  BY <1>2 DEF Return, WalkInv, TypeOK
<1>4. TypeOK'
  BY <1>1, <1>3 DEF WalkInv, TypeOK, FrameType
<1>5. WalkIsPath'
  <2> SUFFICES ASSUME NEW k \in 1..Len(stack')
               PROVE  /\ stack'[k].done <= Len(Children[stack'[k].dev])
                      /\ k = 1 => stack'[k].dev = Root
                      /\ k > 1 => /\ stack'[k - 1].done > 0
                                  /\ stack'[k].dev =
                                        Children[stack'[k - 1].dev][stack'[k - 1].done]
    BY DEF WalkIsPath
  <2>1. k \in 1..Len(stack) /\ stack'[k] = stack[k]
        /\ (k > 1 => stack'[k - 1] = stack[k - 1])
    BY <1>1
  <2> QED
    BY <2>1 DEF WalkInv, WalkIsPath
<1> QED
  BY <1>4, <1>5 DEF WalkInv

-----------------------------------------------------------------------------
LEMMA NextWalk == WalkInv /\ [Next]_executeVars => WalkInv'
<1>1. WalkInv /\ UNCHANGED executeVars => WalkInv'
  BY DEF WalkInv, TypeOK, WalkIsPath, executeVars
<1> QED
  BY <1>1, CallWalk, DescendWalk, ReturnWalk DEF Next

\* The frames of the walk, its counter and the running bits keep their types in
\* every tree, with every modulus.
THEOREM ExecuteTypeCorrect == Spec => []TypeOK
BY InitWalk, NextWalk, PTL DEF Spec, WalkInv

\* The active calls are a path of the tree from the root: whatever running bits
\* executors flip, their own and their owners' included, the walk continues with
\* the right child and ends.
THEOREM WalkKeepsItsPlace == Spec => []WalkIsPath
BY InitWalk, NextWalk, PTL DEF Spec, WalkInv
=============================================================================
