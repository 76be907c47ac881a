------------------------ MODULE ExecuteHistoryProofs ------------------------
(* Each executor is called after those below it, and no period is stretched,   *)
(* in every device tree.                                                       *)
EXTENDS ExecuteHistory, ExecuteProofs

-----------------------------------------------------------------------------
(* What one walk has called.  A device that has been called is behind the      *)
(* place at which the walk is now.                                             *)

Distinct == \A j, k \in 1..Len(stack) : stack[j].dev = stack[k].dev => j = k

NotYet == \A k \in 1..Len(stack) : stack[k].dev \notin ran

\* The i-th child of p lies behind the place where the frames stand
Behind(p, i, frames) ==
    \E k \in 1..Len(frames) :
        /\ frames[k].dev = p /\ i <= frames[k].done
        /\ k < Len(frames) => i < frames[k].done

Passed ==
    \A p \in Device : \A i \in DOMAIN Children[p] :
        Children[p][i] \in ran => p \in ran \/ Behind(p, i, stack)

PlaceInv == WalkInv /\ Distinct /\ NotYet /\ Passed

\* The stack after a step of the loop
LEMMA DescendShape ==
    ASSUME WalkInv, Descend
    PROVE  /\ Len(stack) \in Nat \ {0} /\ Top = stack[Len(stack)] /\ Top \in FrameType
           /\ Top.done + 1 \in DOMAIN Children[Top.dev]
           /\ \A k \in 1..(Len(stack) - 1) : stack'[k] = stack[k]
           /\ stack'[Len(stack)] = Frame(Top.dev, Top.done + 1)
           /\ \/ Len(stack') = Len(stack)
              \/ /\ Len(stack') = Len(stack) + 1
                 /\ stack'[Len(stack) + 1] = Frame(Children[Top.dev][Top.done + 1], 0)
<1> DEFINE n == Len(stack)
           counted == Callers \o <<Frame(Top.dev, Top.done + 1)>>
           child == Children[Top.dev][Top.done + 1]
<1>1. InWalk /\ ~ChildrenDone /\ stack' = counted \o Entered(child)
  BY DEF Descend
<1>2. n \in Nat \ {0} /\ Top \in FrameType /\ Top = stack[n]
  BY <1>1, TopType DEF WalkInv, Top
<1>3. /\ counted \in Seq(FrameType) /\ Len(counted) = n
      /\ \A k \in 1..(n - 1) : counted[k] = stack[k]
      /\ counted[n] = Frame(Top.dev, Top.done + 1)
  BY <1>1, CountedStack
<1>4. Top.done + 1 \in DOMAIN Children[Top.dev]
  <2>1. Top.done <= Len(Children[Top.dev])
    BY <1>2 DEF WalkInv, WalkIsPath
  <2>2. /\ Len(Children[Top.dev]) \in Nat /\ Top.done \in Nat
        /\ DOMAIN Children[Top.dev] = 1..Len(Children[Top.dev])
    BY <1>2, ExecuteAssumption DEF FrameType
  <2> QED
    BY <1>1, <2>1, <2>2 DEF ChildrenDone
<1> HIDE DEF n, counted, child
<1>5. \/ stack' = counted
      \/ stack' = Append(counted, Frame(child, 0))
  BY <1>1, <1>3, EnteredCases
<1>6. \/ stack' = counted
      \/ /\ Len(stack') = n + 1 /\ stack'[n + 1] = Frame(child, 0)
         /\ \A k \in 1..n : stack'[k] = counted[k]
  BY <1>2, <1>3, <1>5
<1>7. n \in 1..n /\ \A k \in 1..(n - 1) : k \in 1..n
  BY <1>2
<1> QED
  BY <1>2, <1>3, <1>4, <1>6, <1>7 DEF n, child

\* A child that the walk comes to is not yet on the stack
LEMMA ChildIsNew ==
    ASSUME WalkInv, Distinct, InWalk, Top.done + 1 \in DOMAIN Children[Top.dev],
           NEW k \in 1..Len(stack)
    PROVE  stack[k].dev # Children[Top.dev][Top.done + 1]
<1> DEFINE n == Len(stack)
           child == Children[Top.dev][Top.done + 1]
<1>1. n \in Nat \ {0} /\ Top = stack[n] /\ Top \in FrameType
  BY TopType DEF WalkInv, Top
<1>2. \A j \in 1..n : stack[j] \in FrameType
  <2>1. stack \in Seq(FrameType)
    BY DEF WalkInv, TypeOK, FrameType
  <2> QED
    BY <2>1
<1>3. CASE k = 1
  BY <1>1, <1>3, TreeAssumption DEF WalkInv, WalkIsPath, FrameType
<1>4. CASE k > 1
  <2>1. k - 1 \in 1..n /\ stack[k - 1] \in FrameType
    BY <1>2, <1>4
  <2>2. /\ stack[k].dev = Children[stack[k - 1].dev][stack[k - 1].done]
        /\ stack[k - 1].done > 0
        /\ stack[k - 1].done <= Len(Children[stack[k - 1].dev])
    BY <1>4, <2>1 DEF WalkInv, WalkIsPath
  <2>3. stack[k - 1].done \in DOMAIN Children[stack[k - 1].dev]
    <3>1. DOMAIN Children[stack[k - 1].dev] = 1..Len(Children[stack[k - 1].dev])
      BY <2>1, ExecuteAssumption DEF FrameType
    <3> QED
      BY <2>1, <2>2, <3>1 DEF FrameType
  <2> SUFFICES ASSUME stack[k].dev = child
               PROVE  FALSE
    OBVIOUS
  <2>4. stack[k - 1].dev = stack[n].dev
    BY <1>1, <2>1, <2>2, <2>3, TreeAssumption DEF FrameType
  <2>5. k - 1 = n
    BY <1>1, <2>1, <2>4 DEF Distinct
  <2> QED
    BY <1>1, <2>5
<1> QED
  BY <1>3, <1>4

LEMMA DescendPlace ==
    ASSUME PlaceInv, Descend, UNCHANGED ran
    PROVE  Distinct' /\ NotYet' /\ Passed'
<1> DEFINE n == Len(stack)
           c == Top.done + 1
           child == Children[Top.dev][c]
<1>1. /\ WalkInv /\ Distinct /\ NotYet /\ Passed /\ InWalk
  BY DEF PlaceInv, Descend
<1>2. /\ n \in Nat \ {0} /\ Top = stack[n] /\ Top \in FrameType
      /\ c \in DOMAIN Children[Top.dev]
      /\ \A k \in 1..(n - 1) : stack'[k] = stack[k]
      /\ stack'[n] = Frame(Top.dev, c)
      /\ \/ Len(stack') = n
         \/ Len(stack') = n + 1 /\ stack'[n + 1] = Frame(child, 0)
  BY <1>1, DescendShape
<1>3. \A k \in 1..n : stack'[k].dev = stack[k].dev
  BY <1>2 DEF Frame
<1>4. \A k \in 1..n : stack[k].dev # child
  BY <1>1, <1>2, ChildIsNew
<1>5. child \notin ran
  <2> SUFFICES ASSUME child \in ran
               PROVE  FALSE
    OBVIOUS
  <2>1. Top.dev \notin ran
    BY <1>1, <1>2 DEF NotYet
  <2>2. PICK k \in 1..n : stack[k].dev = Top.dev /\ c <= stack[k].done
    BY <1>1, <1>2, <2>1 DEF Passed, Behind, FrameType
  <2>3. k = n
    BY <1>1, <1>2, <2>2 DEF Distinct
  <2> QED
    BY <1>2, <2>2, <2>3 DEF FrameType
<1>6. Distinct'
  <2> SUFFICES ASSUME NEW j \in 1..Len(stack'), NEW k \in 1..Len(stack'),
                      stack'[j].dev = stack'[k].dev
               PROVE  j = k
    BY DEF Distinct
  <2>1. j \in 1..n /\ k \in 1..n => j = k
    BY <1>1, <1>3 DEF Distinct
  <2>2. CASE Len(stack') = n
    BY <2>1, <2>2
  <2>3. CASE Len(stack') = n + 1 /\ stack'[n + 1] = Frame(child, 0)
    <3>1. stack'[n + 1].dev = child
      BY <2>3 DEF Frame
    <3>2. (j \in 1..n \/ j = n + 1) /\ (k \in 1..n \/ k = n + 1)
      BY <1>2, <2>3
    <3> HIDE DEF n, child
    <3> QED
      BY <1>3, <1>4, <2>1, <3>1, <3>2
  <2> QED
    BY <1>2, <2>2, <2>3
<1>7. NotYet'
  <2> SUFFICES ASSUME NEW k \in 1..Len(stack')
               PROVE  stack'[k].dev \notin ran
    BY DEF NotYet
  <2>1. k \in 1..n => stack'[k].dev \notin ran
    BY <1>1, <1>3 DEF NotYet
  <2>2. k \in 1..n \/ (k = n + 1 /\ stack'[k] = Frame(child, 0))
    BY <1>2
  <2> QED
    BY <1>5, <2>1, <2>2 DEF Frame
<1>8. Passed'
  <2> SUFFICES ASSUME NEW p \in Device, NEW i \in DOMAIN Children[p],
                      Children[p][i] \in ran, p \notin ran
               PROVE  Behind(p, i, stack')
    BY DEF Passed
  <2>1. PICK k \in 1..n : /\ stack[k].dev = p /\ i <= stack[k].done
                          /\ k < n => i < stack[k].done
    BY <1>1 DEF Passed, Behind
  <2>2. k \in 1..Len(stack') /\ stack'[k].dev = p
    BY <1>2, <1>3, <2>1
  <2>3. CASE k < n
    <3>1. k \in 1..(n - 1)
      BY <1>2, <2>3
    <3>2. stack'[k] = stack[k]
      BY <1>2, <3>1
    <3> QED
      BY <2>1, <2>2, <2>3, <3>2 DEF Behind
  <2>4. CASE k = n
    <3>1. stack'[k].done = Top.done + 1 /\ i <= Top.done
      BY <1>2, <2>1, <2>4 DEF Frame
    <3>2. i \in Nat /\ Top.done \in Nat
      <4>1. i \in Nat
        BY ExecuteAssumption
      <4>2. Top.done \in Nat
        BY <1>2 DEF FrameType
      <4> QED
        BY <4>1, <4>2
    <3>3. i <= stack'[k].done /\ i < stack'[k].done
      BY <3>1, <3>2
    <3> QED
      BY <2>2, <3>3 DEF Behind
  <2> QED
    BY <1>2, <2>3, <2>4
<1> QED
  BY <1>6, <1>7, <1>8

LEMMA ReturnPlace ==
    ASSUME PlaceInv, NEW d \in Device, NEW after, Return(d, after), ran' = ran \cup {d}
    PROVE  Distinct' /\ NotYet' /\ Passed'
<1> DEFINE n == Len(stack)
<1>1. /\ WalkInv /\ Distinct /\ NotYet /\ Passed /\ InWalk
  BY DEF PlaceInv, Return
<1>2. /\ n \in Nat \ {0} /\ stack[n].dev = d
      /\ Len(stack') = n - 1 /\ \A k \in 1..(n - 1) : stack'[k] = stack[k]
      /\ \A k \in 1..n : stack[k] \in FrameType
  <2>1. stack \in Seq(FrameType)
    BY <1>1 DEF WalkInv, TypeOK, FrameType
  <2> QED
    BY <1>1, <2>1, TopType DEF WalkInv, Return, Top
<1>3. Distinct'
  BY <1>1, <1>2 DEF Distinct
<1>4. NotYet'
  <2> SUFFICES ASSUME NEW k \in 1..(n - 1)
               PROVE  stack[k].dev \notin ran \cup {d}
    BY <1>2 DEF NotYet
  <2>1. k \in 1..n /\ n \in 1..n /\ k # n
    BY <1>2
  <2> QED
    BY <1>1, <1>2, <2>1 DEF NotYet, Distinct
<1>5. Passed'
  <2> SUFFICES ASSUME NEW p \in Device, NEW i \in DOMAIN Children[p],
                      Children[p][i] \in ran \cup {d}, p \notin ran \cup {d}
               PROVE  Behind(p, i, stack')
    BY DEF Passed
  <2>1. i \in Nat
    BY ExecuteAssumption
  <2>2. CASE Children[p][i] \in ran
    <3>1. PICK k \in 1..n : /\ stack[k].dev = p /\ i <= stack[k].done
                            /\ k < n => i < stack[k].done
      BY <1>1, <2>2 DEF Passed, Behind
    <3>2. k \in 1..(n - 1)
      BY <1>2, <3>1
    <3>3. k < n /\ stack'[k] = stack[k]
      BY <1>2, <3>2
    <3> QED
      BY <1>2, <3>1, <3>2, <3>3 DEF Behind
  <2>3. CASE Children[p][i] = d
    <3>1. n # 1
      BY <1>1, <1>2, <2>3, TreeAssumption DEF WalkInv, WalkIsPath
    <3>2. n - 1 \in 1..(n - 1) /\ n - 1 \in 1..n /\ n \in 1..n /\ n > 1
      BY <1>2, <3>1
    <3>3. stack[n - 1] \in FrameType
      BY <1>2, <3>2
    <3>4. /\ d = Children[stack[n - 1].dev][stack[n - 1].done]
          /\ stack[n - 1].done > 0
          /\ stack[n - 1].done <= Len(Children[stack[n - 1].dev])
      BY <1>1, <1>2, <3>2 DEF WalkInv, WalkIsPath
    <3>5. stack[n - 1].done \in DOMAIN Children[stack[n - 1].dev]
      <4>1. DOMAIN Children[stack[n - 1].dev] = 1..Len(Children[stack[n - 1].dev])
        BY <3>3, ExecuteAssumption DEF FrameType
      <4> QED
        BY <3>3, <3>4, <4>1 DEF FrameType
    <3>6. p = stack[n - 1].dev /\ i = stack[n - 1].done
      BY <2>3, <3>3, <3>4, <3>5, TreeAssumption DEF FrameType
    <3>7. stack'[n - 1] = stack[n - 1] /\ ~(n - 1 < n - 1)
      BY <1>2, <3>2
    <3> QED
      BY <1>2, <2>1, <3>2, <3>6, <3>7 DEF Behind
  <2> QED
    BY <2>2, <2>3
<1> QED
  BY <1>3, <1>4, <1>5

LEMMA CallPlace ==
    ASSUME PlaceInv, Call, ran' = {}
    PROVE  Distinct' /\ NotYet' /\ Passed'
<1>1. stack' = <<>> \/ stack' = <<Frame(Root, 0)>>
  BY EnteredCases DEF Call
<1>2. Len(stack') \in {0, 1}
  BY <1>1
<1>3. \A n \in {0, 1} : \A j, k \in 1..n : j = k
  OBVIOUS
<1> QED
  BY <1>2, <1>3 DEF Distinct, NotYet, Passed

LEMMA PlaceInit == HistoryInit => PlaceInv
<1> SUFFICES ASSUME HistoryInit
             PROVE  PlaceInv
  OBVIOUS
<1>1. WalkInv
  BY InitWalk DEF HistoryInit
<1>2. Len(stack) = 0 /\ ran = {}
  BY DEF HistoryInit, Init
<1> QED
  BY <1>1, <1>2 DEF PlaceInv, Distinct, NotYet, Passed

LEMMA PlaceNext == PlaceInv /\ [HistoryNext]_historyVars => PlaceInv'
<1> SUFFICES ASSUME PlaceInv, [HistoryNext]_historyVars
             PROVE  PlaceInv'
  OBVIOUS
<1>1. [Next]_executeVars
  BY DEF HistoryNext, HistoryCall, HistoryReturn, Next, historyVars, executeVars
<1>2. WalkInv'
  BY <1>1, NextWalk DEF PlaceInv
<1>3. CASE UNCHANGED historyVars
  BY <1>2, <1>3 DEF historyVars, PlaceInv, Distinct, NotYet, Passed, Behind
<1>4. CASE HistoryNext
  <2>1. Distinct' /\ NotYet' /\ Passed'
    BY <1>4, CallPlace, DescendPlace, ReturnPlace
       DEF HistoryNext, HistoryCall, HistoryReturn
  <2> QED
    BY <1>2, <2>1 DEF PlaceInv
<1> QED
  BY <1>3, <1>4

LEMMA PlaceInvariance == HistorySpec => []PlaceInv
BY PlaceInit, PlaceNext, PTL DEF HistorySpec

\* The devices of the active calls, and the owners of each, are active calls
LEMMA OwnersActive ==
    ASSUME WalkInv, NEW m \in 1..Len(stack), NEW o \in Owners[stack[m].dev]
    PROVE  \E k \in 1..Len(stack) : stack[k].dev = o
<1> DEFINE S == {stack[k].dev : k \in 1..Len(stack)}
<1>1. \A k \in 1..Len(stack) : stack[k] \in FrameType
  <2>1. stack \in Seq(FrameType)
    BY DEF WalkInv, TypeOK, FrameType
  <2> QED
    BY <2>1
<1>2. S \in SUBSET Device
  BY <1>1 DEF FrameType
<1>3. OwnersIn(S)
  <2> SUFFICES ASSUME NEW k \in 1..Len(stack), NEW p \in Device,
                      NEW i \in DOMAIN Children[p], Children[p][i] = stack[k].dev
               PROVE  p \in S
    BY DEF OwnersIn
  <2>1. k # 1
    BY TreeAssumption DEF WalkInv, WalkIsPath
  <2>2. k > 1 /\ k - 1 \in 1..Len(stack)
    BY <2>1 DEF WalkInv, TypeOK
  <2>3. stack[k - 1] \in FrameType
    BY <1>1, <2>2
  <2>4. /\ stack[k].dev = Children[stack[k - 1].dev][stack[k - 1].done]
        /\ stack[k - 1].done > 0
        /\ stack[k - 1].done <= Len(Children[stack[k - 1].dev])
    BY <2>2 DEF WalkInv, WalkIsPath
  <2>5. stack[k - 1].done \in DOMAIN Children[stack[k - 1].dev]
    <3>1. DOMAIN Children[stack[k - 1].dev] = 1..Len(Children[stack[k - 1].dev])
      BY <2>3, ExecuteAssumption DEF FrameType
    <3> QED
      BY <2>3, <2>4, <3>1 DEF FrameType
  <2>6. p = stack[k - 1].dev
    BY <2>3, <2>4, <2>5, TreeAssumption DEF FrameType
  <2> QED
    BY <2>2, <2>6
<1>4. stack[m].dev \in S /\ stack[m].dev \in Device
  BY <1>2
<1> HIDE DEF S
<1>5. o \in S
  BY <1>2, <1>3, <1>4 DEF Owners
<1> QED
  BY <1>5 DEF S

\* When the executor of a device is called, this walk has called neither it nor
\* the executor of any device above it: in every tree a parent works on what its
\* children have left in this very call of execute().
THEOREM ChildrenFirst == HistorySpec => PostOrder
<1>1. PlaceInv /\ [HistoryNext]_historyVars
         => [\A d \in Device : Executes(d) => Owners[d] \cap ran = {}]_historyVars
  <2> SUFFICES ASSUME PlaceInv, NEW d \in Device, Executes(d), NEW o \in Owners[d], o \in ran
               PROVE  FALSE
    OBVIOUS
  <2>1. Len(stack) \in 1..Len(stack) /\ stack[Len(stack)].dev = d
    BY TopType DEF PlaceInv, WalkInv, Executes, Top
  <2>2. PICK k \in 1..Len(stack) : stack[k].dev = o
    BY <2>1, OwnersActive DEF PlaceInv
  <2> QED
    BY <2>2 DEF PlaceInv, NotYet
<1> QED
  BY <1>1, PlaceInvariance, PTL DEF HistorySpec, PostOrder

-----------------------------------------------------------------------------
(* No period is stretched.  The counter of a walk is the one before plus one,  *)
(* or zero, and zero is due for every period; so the calls that entered a      *)
(* device without executing it never outnumber what its phase has counted.     *)

\* What the next remainder is
LEMMA NextPhase ==
    ASSUME NEW n \in Nat, NEW p \in Nat \ {0}
    PROVE  /\ n % p \in 0..(p - 1)
           /\ (n + 1) % p = 0 \/ (n + 1) % p = (n % p) + 1
<1> DEFINE q == n \div p
           r == n % p
           q1 == (n + 1) \div p
           r1 == (n + 1) % p
<1>1. /\ q \in Int /\ r \in 0..(p - 1) /\ n = p * q + r
      /\ q1 \in Int /\ r1 \in 0..(p - 1) /\ n + 1 = p * q1 + r1
  BY SMT
<1> HIDE DEF q, r, q1, r1
<1>2. p * (q1 - q) = r + 1 - r1
  BY <1>1, SMT
<1>3. r + 1 - r1 <= p /\ r + 1 - r1 >= 2 - p
  BY <1>1
<1>4. q1 - q <= 1
  BY <1>1, <1>2, <1>3, SMT
<1>5. q1 - q >= 0
  BY <1>1, <1>2, <1>3, SMT
<1>6. CASE q1 - q = 0
  BY <1>1, <1>2, <1>6, SMT DEF r, r1
<1>7. CASE q1 - q = 1
  <2>1. r1 = r + 1 - p
    BY <1>1, <1>2, <1>7, SMT
  <2>2. r1 = 0
    BY <1>1, <2>1
  <2> QED
    BY <1>1, <2>2 DEF r, r1
<1> QED
  BY <1>1, <1>4, <1>5, <1>6, <1>7

IdleType == idle \in [Device -> Nat]

Clock == counter = 0 \/ counter = now + 1

\* idle against the phase of the walk, before and after it has returned from d
InTime ==
    \A d \in Device :
        /\ idle[d] < Period[d]
        /\ d \in ran => idle[d] <= now % Period[d]
        /\ d \notin ran /\ now % Period[d] # 0 => idle[d] < now % Period[d]

TimeInv == IdleType /\ Clock /\ InTime

LEMMA TimeInit == HistoryInit => TimeInv
<1> SUFFICES ASSUME HistoryInit
             PROVE  TimeInv
  OBVIOUS
<1>1. IdleType /\ Clock
  BY DEF HistoryInit, Init, IdleType, Clock
<1>2. \A d \in Device : 0 < Period[d] /\ 0 % Period[d] = 0
  <2> SUFFICES ASSUME NEW d \in Device
               PROVE  0 < Period[d] /\ 0 % Period[d] = 0
    OBVIOUS
  <2>1. Period[d] \in Nat \ {0}
    BY ExecuteAssumption
  <2> QED
    BY <2>1, SMT
<1>3. InTime
  BY <1>2 DEF HistoryInit, Init, InTime
<1> QED
  BY <1>1, <1>3 DEF TimeInv

LEMMA TimeCall ==
    ASSUME WalkInv, TimeInv, HistoryCall
    PROVE  TimeInv'
<1>1. /\ now \in Nat /\ counter \in Nat /\ now' = counter
      /\ counter' = (counter + 1) % CounterMod /\ ran' = {}
      /\ idle' = [d \in Device |-> IF d \in ran THEN idle[d] ELSE 0]
  BY ExecuteAssumption DEF WalkInv, TypeOK, HistoryCall, Call
<1>2. IdleType'
  BY <1>1 DEF IdleType, TimeInv
<1>3. Clock'
  <2>1. counter + 1 \in Nat /\ counter + 1 <= CounterMod /\ CounterMod \in Nat \ {0}
    BY ExecuteAssumption DEF WalkInv, TypeOK
  <2>2. (counter + 1) % CounterMod = 0 \/ (counter + 1) % CounterMod = counter + 1
    <3>1. CASE counter + 1 = CounterMod
      BY <2>1, <3>1, SMT
    <3>2. CASE counter + 1 < CounterMod
      BY <2>1, <3>2, SMT
    <3> QED
      BY <2>1, <3>1, <3>2
  <2> QED
    BY <1>1, <2>2 DEF Clock
<1>4. InTime'
  <2> SUFFICES ASSUME NEW d \in Device
               PROVE  /\ idle'[d] < Period[d]
                      /\ counter % Period[d] # 0 => idle'[d] < counter % Period[d]
    BY <1>1 DEF InTime
  <2>1. Period[d] \in Nat \ {0} /\ idle[d] \in Nat
    BY ExecuteAssumption DEF TimeInv, IdleType
  <2>2. idle'[d] = (IF d \in ran THEN idle[d] ELSE 0)
    BY <1>1
  <2>3. idle[d] < Period[d] /\ (d \in ran => idle[d] <= now % Period[d])
    BY DEF TimeInv, InTime
  <2>4. CASE counter = 0
    <3>1. 0 % Period[d] = 0
      BY <2>1, SMT
    <3> QED
      BY <2>1, <2>2, <2>3, <2>4, <3>1
  <2>5. CASE counter = now + 1
    <3>1. /\ now % Period[d] \in 0..(Period[d] - 1)
          /\ counter % Period[d] = 0 \/ counter % Period[d] = (now % Period[d]) + 1
      BY <1>1, <2>1, <2>5, NextPhase
    <3> QED
      BY <2>1, <2>2, <2>3, <3>1
  <2> QED
    BY <2>4, <2>5 DEF TimeInv, Clock
<1> QED
  BY <1>2, <1>3, <1>4 DEF TimeInv

LEMMA TimeReturn ==
    ASSUME PlaceInv, TimeInv, NEW d \in Device, NEW after, HistoryReturn(d, after)
    PROVE  TimeInv'
<1>1. d \notin ran
  BY TopType DEF PlaceInv, WalkInv, NotYet, HistoryReturn, Return, Top
<1>2. /\ now \in Nat /\ now' = now /\ counter' = counter /\ ran' = ran \cup {d}
      /\ idle' = [idle EXCEPT ![d] = IF Due(d) THEN 0
                                     ELSE IF idle[d] < Period[d] THEN idle[d] + 1 ELSE idle[d]]
  BY DEF PlaceInv, WalkInv, TypeOK, HistoryReturn, Return
<1>3. IdleType'
  BY <1>2 DEF IdleType, TimeInv
<1>4. Clock'
  BY <1>2 DEF Clock, TimeInv
<1>5. InTime'
  <2> SUFFICES ASSUME NEW e \in Device
               PROVE  /\ idle'[e] < Period[e]
                      /\ e \in ran \cup {d} => idle'[e] <= now % Period[e]
                      /\ e \notin ran \cup {d} /\ now % Period[e] # 0
                            => idle'[e] < now % Period[e]
    BY <1>2 DEF InTime
  <2>1. /\ Period[e] \in Nat \ {0} /\ idle \in [Device -> Nat]
        /\ now % Period[e] \in 0..(Period[e] - 1)
    BY <1>2, NextPhase, ExecuteAssumption DEF TimeInv, IdleType
  <2>2. /\ idle[e] < Period[e]
        /\ e \in ran => idle[e] <= now % Period[e]
        /\ e \notin ran /\ now % Period[e] # 0 => idle[e] < now % Period[e]
    BY DEF TimeInv, InTime
  <2>3. CASE e # d
    BY <1>2, <2>1, <2>2, <2>3
  <2>4. CASE e = d /\ Due(d)
    BY <1>2, <2>1, <2>4
  <2>5. CASE e = d /\ ~Due(d)
    <3>1. idle[e] < now % Period[e]
      BY <1>1, <2>2, <2>5 DEF Due
    <3>2. idle'[e] = idle[e] + 1
      BY <1>2, <2>1, <2>2, <2>5
    <3> QED
      BY <2>1, <2>5, <3>1, <3>2
  <2> QED
    BY <2>3, <2>4, <2>5
<1> QED
  BY <1>3, <1>4, <1>5 DEF TimeInv

LEMMA TimeNext == PlaceInv /\ TimeInv /\ [HistoryNext]_historyVars => TimeInv'
<1> SUFFICES ASSUME PlaceInv, TimeInv, [HistoryNext]_historyVars
             PROVE  TimeInv'
  OBVIOUS
<1>1. CASE UNCHANGED <<counter, now, ran, idle>>
  BY <1>1 DEF TimeInv, IdleType, Clock, InTime
<1> QED
  BY <1>1, TimeCall, TimeReturn DEF HistoryNext, Descend, historyVars, PlaceInv

\* A device that is entered in as many calls in a row as its period is long has
\* been executed in one of them, whatever the modulus of the counter and whether
\* or not the period divides it: where the counter wraps, the row gets shorter.
THEOREM PeriodNotStretched == HistorySpec => []NeverLate
<1>1. TimeInv => NeverLate
  BY DEF TimeInv, InTime, NeverLate
<1> QED
  BY <1>1, TimeInit, TimeNext, PlaceInvariance, PTL DEF HistorySpec
=============================================================================
