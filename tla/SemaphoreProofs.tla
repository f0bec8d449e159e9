-------------------------- MODULE SemaphoreProofs --------------------------
(***************************************************************************)
(* The kernel semaphore for every finite set of tasks and every initial    *)
(* count: type correctness, the accounting of the two-way counter, mutual  *)
(* exclusion, that it implements the atomic counting semaphore, and that   *)
(* neither a wake-up nor a signal is lost.                                 *)
(***************************************************************************)
EXTENDS Semaphore, FiniteSetTheorems, TLAPS

(***************************************************************************)
(* No simple type fits None \in None.  A leaf that has it among its facts  *)
(* is given to the SMT solver in the untyped translation, which is the     *)
(* same wherever the leaf stands; it says nothing else.                    *)
(***************************************************************************)
LEMMA Untyped == None \in None => TRUE
  OBVIOUS
USE Untyped

(***************************************************************************)
(* Type correctness.                                                       *)
(***************************************************************************)

(* Every action keeps every variable in its range; the sleepers count is   *)
(* never anything but 0 or 1 when semaphore_lock is free.                  *)
LEMMA TypeStep == TypeOK /\ [Next]_vars => TypeOK'
<1> SUFFICES ASSUME TypeOK, [Next]_vars PROVE TypeOK'
  OBVIOUS
<1> USE TaskAssumption, ValAssumption
<1> USE DEF TypeOK, Kind, Pc, semVars, waitVars, sigVars, ghosts
<1>1. ASSUME NEW t \in Task, NEW k \in Kind, Decrement(t, k) PROVE TypeOK'
  BY <1>1 DEF Decrement
<1>2. ASSUME NEW t \in Task, Up(t) PROVE TypeOK'
  BY <1>2 DEF Up
<1>3. ASSUME NEW t \in Task, AddWaitQueue(t) PROVE TypeOK'
  BY <1>3 DEF AddWaitQueue, SleepState
<1>4. ASSUME NEW t \in Task, Contend(t) PROVE TypeOK'
  BY <1>4 DEF Contend
<1>5. ASSUME NEW t \in Task, Schedule(t) PROVE TypeOK'
  BY <1>5 DEF Schedule
<1>6. ASSUME NEW t \in Task, SetState(t) PROVE TypeOK'
  BY <1>6 DEF SetState, SleepState
<1>7. ASSUME NEW t \in Task, Leave(t) PROVE TypeOK'
  <2>1. pc' \in [Task -> Pc] /\ kind' \in [Task -> Kind]
    BY <1>7 DEF Leave
  <2>2. UNCHANGED <<count, sleepers, semLock, sig, sender, holding, ups>>
    BY <1>7 DEF Leave
  <2>3. RemoveWaitQueue(t) \/ SetRunning(t)
    BY <1>7 DEF Leave
  <2>4. UNCHANGED <<wqLock, pos>>
    BY <2>3, Zenon DEF RemoveWaitQueue, SetRunning
  <2>5. state' \in [Task -> {"RUNNING", "INTERRUPTIBLE", "UNINTERRUPTIBLE"}]
    BY <2>3, Zenon DEF RemoveWaitQueue, SetRunning
  <2>6. wait' \in Seq(Task)
    <3>1. CASE RemoveWaitQueue(t)
      <4>1. PICK i \in 1..Len(wait) :
              wait' = SubSeq(wait, 1, i - 1) \o SubSeq(wait, i + 1, Len(wait))
        BY <3>1, Zenon DEF RemoveWaitQueue
      <4>2. SubSeq(wait, 1, i - 1) \in Seq(Task)
        OBVIOUS
      <4>3. SubSeq(wait, i + 1, Len(wait)) \in Seq(Task)
        OBVIOUS
      <4> QED BY <4>1, <4>2, <4>3, SMTT(20)
    <3>2. CASE SetRunning(t)
      BY <3>2 DEF SetRunning
    <3> QED BY <2>3, <3>1, <3>2
  <2> QED BY <2>1, <2>2, <2>4, <2>5, <2>6
<1>8. ASSUME NEW t \in Task, TrylockFailed(t) PROVE TypeOK'
  BY <1>8 DEF TrylockFailed
<1>9. ASSUME NEW t \in Task, WakeBegin(t) PROVE TypeOK'
  BY <1>9 DEF WakeBegin
<1>10. ASSUME NEW t \in Task, WakeSkip(t) PROVE TypeOK'
  BY <1>10 DEF WakeSkip
<1>11. ASSUME NEW t \in Task, WakeEnd(t) PROVE TypeOK'
  <2>1. pos <= Len(wait) => wait[pos] \in Task
    OBVIOUS
  <2>2. state' \in [Task -> {"RUNNING", "INTERRUPTIBLE", "UNINTERRUPTIBLE"}]
    BY <1>11, <2>1 DEF WakeEnd
  <2>3. pc' \in [Task -> Pc]
    BY <1>11, <2>1 DEF WakeEnd
  <2>4. wqLock' = None /\ pos' = 1 /\ semLock' \in Task \union {None}
    BY <1>11 DEF WakeEnd
  <2>5. UNCHANGED <<count, sleepers, wait, kind, sig, sender, holding, ups>>
    BY <1>11 DEF WakeEnd
  <2> QED
    BY <2>2, <2>3, <2>4, <2>5
<1>12. ASSUME NEW t \in Task, SigPending(t) PROVE TypeOK'
  BY <1>12 DEF SigPending
<1>13. ASSUME NEW t \in Task, SigTest(t) PROVE TypeOK'
  BY <1>13 DEF SigTest
<1>14. ASSUME NEW t \in Task, SigWake(t) PROVE TypeOK'
  BY <1>14 DEF SigWake, WakeUpProcess
<1>15. ASSUME NEW t \in Task, DeliverSignal(t) PROVE TypeOK'
  BY <1>15 DEF DeliverSignal
<1>16. CASE UNCHANGED vars
  BY <1>16 DEF vars
<1> QED
  BY <1>1, <1>2, <1>3, <1>4, <1>5, <1>6, <1>7, <1>8, <1>9, <1>10, <1>11,
     <1>12, <1>13, <1>14, <1>15, <1>16, SMTT(20)
  DEF Next, Continue, Down, DownInterruptible, DownTrylock

(* Type correctness holds in every behaviour: in particular sleepers, which *)
(* __down() increments and resets, is 0 or 1 whenever the lock is free.    *)
THEOREM TypeCorrect == Spec => []TypeOK
<1>1. Init => TypeOK
  BY TaskAssumption, ValAssumption DEF Init, TypeOK, Kind, Pc
<1> QED
  BY <1>1, TypeStep, PTL DEF Spec

(***************************************************************************)
(* The accounting of "count" is inductive together with the fact that a    *)
(* task waiting for a permit holds none.                                   *)
(***************************************************************************)
Waiting == {"slow", "try", "enter", "retry", "sched", "asleep", "woken"}

WaiterHoldsNone == \A t \in Task : pc[t] \in Waiting => t \notin holding

IInv == TypeOK /\ WaiterHoldsNone /\ Accounting /\ MutualExclusion

(* What the accounting adds up are numbers, and what it counts is finite.  *)
LEMMA Numbers ==
  ASSUME TypeOK
  PROVE  /\ count \in Int /\ sleepers \in 0..1 /\ ups \in Nat /\ Val \in Nat
         /\ IsFiniteSet(holding) /\ Cardinality(holding) \in Nat
         /\ IsFiniteSet(Pending) /\ Cardinality(Pending) \in Nat
<1>1. holding \in SUBSET Task /\ Pending \in SUBSET Task
  BY DEF TypeOK, Pending
<1>2. count \in Int /\ sleepers \in 0..1 /\ ups \in Nat /\ Val \in Nat
  BY ValAssumption DEF TypeOK
<1> QED
  BY <1>1, <1>2, TaskAssumption, FS_Subset, FS_CardinalityType

(* Decrementing the count, as a waiter or as the new holder of a permit.   *)
LEMMA DecrementStep ==
  ASSUME IInv, NEW t \in Task, NEW k \in Kind, Decrement(t, k)
  PROVE  Accounting' /\ MutualExclusion'
<1>1. TypeOK /\ Accounting /\ MutualExclusion
  BY DEF IInv
<1>2. t \notin Pending /\ t \notin holding
  BY DEF Decrement, Pending
<1>3. count' = count - 1 /\ sleepers' = sleepers /\ ups' = ups
  BY DEF Decrement
<1>4. CASE count - 1 >= 0
  <2>1. holding' = holding \cup {t} /\ Pending' = Pending
    BY <1>3, <1>4 DEF Decrement, Pending
  <2>2. Cardinality(holding') = Cardinality(holding) + 1
    BY <1>1, <1>2, <2>1, Numbers, FS_AddElement, Zenon
  <2> QED
    BY <1>1, <1>3, <1>4, <2>1, <2>2, Numbers DEF Accounting, Avail, MutualExclusion
<1>5. CASE ~(count - 1 >= 0)
  <2>1. holding' = holding /\ Pending' = Pending \cup {t}
    BY <1>1, <1>3, <1>5 DEF Decrement, Pending, TypeOK
  <2>2. Cardinality(Pending') = Cardinality(Pending) + 1
    BY <1>1, <1>2, <2>1, Numbers, FS_AddElement, Zenon
  <2> QED
    BY <1>1, <1>3, <2>1, <2>2, Numbers DEF Accounting, Avail, MutualExclusion
<1> QED
  BY <1>4, <1>5

(* Giving a permit back, or giving one that was never taken.               *)
LEMMA UpStep ==
  ASSUME IInv, NEW t \in Task, Up(t)
  PROVE  Accounting' /\ MutualExclusion'
<1>1. TypeOK /\ Accounting /\ MutualExclusion
  BY DEF IInv
<1>2. Pending' = Pending
  BY <1>1 DEF Up, Pending, TypeOK
<1>3. count' = count + 1 /\ sleepers' = sleepers
  BY DEF Up
<1>4. CASE t \in holding
  <2>1. holding' = holding \ {t} /\ ups' = ups
    BY <1>4 DEF Up
  <2>2. Cardinality(holding') = Cardinality(holding) - 1
    BY <1>1, <1>4, <2>1, Numbers, FS_RemoveElement, Zenon
  <2> QED
    BY <1>1, <1>2, <1>3, <2>1, <2>2, Numbers DEF Accounting, Avail, MutualExclusion
<1>5. CASE t \notin holding
  <2>1. holding' = holding /\ ups' = ups + 1
    BY <1>5 DEF Up
  <2> QED
    BY <1>1, <1>2, <1>3, <2>1, Numbers DEF Accounting, Avail, MutualExclusion
<1> QED
  BY <1>4, <1>5

(* The region under semaphore_lock: the registered sleepers and the task   *)
(* itself are put back into the count, less one for whoever stays.         *)
LEMMA ContendStep ==
  ASSUME IInv, NEW t \in Task, Contend(t)
  PROVE  Accounting' /\ MutualExclusion'
<1> DEFINE s == IF pc[t] = "enter" THEN sleepers + 1 ELSE sleepers
<1>1. TypeOK /\ Accounting /\ MutualExclusion
  BY DEF IInv
<1>2. /\ Cardinality(Pending') = Cardinality(Pending) - (s - sleepers)
      /\ Cardinality(Pending') \in Nat
      /\ s \in Nat
  <2>1. CASE pc[t] = "enter"
    <3>1. t \in Pending /\ Pending' = Pending \ {t}
      BY <1>1, <2>1 DEF Contend, Pending, TypeOK
    <3>2. /\ Cardinality(Pending') = Cardinality(Pending) - 1
          /\ Cardinality(Pending') \in Nat
      BY <1>1, <3>1, Numbers, FS_RemoveElement, FS_CardinalityType
    <3> QED
      BY <1>1, <2>1, <3>2, Numbers
  <2>2. CASE pc[t] # "enter"
    <3>1. Pending' = Pending
      BY <1>1, <2>2 DEF Contend, Pending, TypeOK
    <3> QED
      BY <1>1, <2>2, <3>1, Numbers
  <2> QED
    BY <2>1, <2>2
<1>3. t \notin holding
  BY DEF IInv, WaiterHoldsNone, Waiting, Contend
<1>4. ups' = ups
  BY DEF Contend
<1>5. \/ holding' = holding /\ count' = count + s /\ sleepers' = 0
      \/ /\ holding' = holding \cup {t} /\ count' = count + (s - 1)
         /\ sleepers' = 0 /\ count' >= 0
      \/ holding' = holding /\ count' = count + (s - 1) /\ sleepers' = 1
  BY DEF Contend
<1> HIDE DEF s
<1>6. CASE holding' = holding /\ count' = count + s /\ sleepers' = 0
  BY <1>1, <1>2, <1>4, <1>6, Numbers DEF Accounting, Avail, MutualExclusion
<1>7. CASE /\ holding' = holding \cup {t} /\ count' = count + (s - 1)
           /\ sleepers' = 0 /\ count' >= 0
  <2>1. Cardinality(holding') = Cardinality(holding) + 1
    BY <1>1, <1>3, <1>7, Numbers, FS_AddElement, Zenon
  <2> QED
    BY <1>1, <1>2, <1>4, <1>7, <2>1, Numbers DEF Accounting, Avail, MutualExclusion
<1>8. CASE holding' = holding /\ count' = count + (s - 1) /\ sleepers' = 1
  BY <1>1, <1>2, <1>4, <1>8, Numbers DEF Accounting, Avail, MutualExclusion
<1> QED
  BY <1>5, <1>6, <1>7, <1>8

(* A failed trylock takes its decrement and the sleepers out of the count. *)
LEMMA TrylockStep ==
  ASSUME IInv, NEW t \in Task, TrylockFailed(t)
  PROVE  Accounting' /\ MutualExclusion'
<1>1. TypeOK /\ Accounting /\ MutualExclusion
  BY DEF IInv
<1>2. t \in Pending /\ Pending' = Pending \ {t}
  BY <1>1 DEF TrylockFailed, Pending, TypeOK
<1>3. Cardinality(Pending') = Cardinality(Pending) - 1
  BY <1>1, <1>2, Numbers, FS_RemoveElement, Zenon
<1>4. count' = count + sleepers + 1 /\ sleepers' = 0 /\ holding' = holding /\ ups' = ups
  BY DEF TrylockFailed, ghosts
<1> QED
  BY <1>1, <1>3, <1>4, Numbers DEF Accounting, Avail, MutualExclusion

(* The other steps leave the counters and the counted sets alone.          *)
LEMMA NeutralStep ==
  ASSUME IInv, UNCHANGED <<count, sleepers, holding, ups>>, Pending' = Pending
  PROVE  Accounting' /\ MutualExclusion'
BY DEF IInv, Accounting, Avail, MutualExclusion

(* The inductive step, one case per action.                                *)
LEMMA IInvStep == IInv /\ [Next]_vars => IInv'
<1> SUFFICES ASSUME IInv, [Next]_vars PROVE IInv'
  OBVIOUS
<1> USE DEF semVars, waitVars, sigVars, ghosts
<1>t. TypeOK /\ WaiterHoldsNone
  BY DEF IInv
<1>0. TypeOK'
  BY <1>t, TypeStep
<1>w. WaiterHoldsNone'
  <2>1. ASSUME NEW t \in Task, NEW k \in Kind, Decrement(t, k) PROVE WaiterHoldsNone'
    BY <1>t, <2>1 DEF Decrement, WaiterHoldsNone, TypeOK, Waiting
  <2>2. ASSUME NEW t \in Task, Up(t) PROVE WaiterHoldsNone'
    BY <1>t, <2>2 DEF Up, WaiterHoldsNone, TypeOK, Waiting
  <2>3. ASSUME NEW t \in Task, Contend(t) PROVE WaiterHoldsNone'
    BY <1>t, <2>3 DEF Contend, WaiterHoldsNone, TypeOK, Waiting
  <2>4. ASSUME NEW t \in Task,
               \/ AddWaitQueue(t) \/ Schedule(t) \/ SetState(t) \/ Leave(t)
               \/ TrylockFailed(t) \/ WakeBegin(t) \/ WakeSkip(t)
        PROVE  WaiterHoldsNone'
    BY <1>t, <2>4 DEF AddWaitQueue, Schedule, SetState, Leave, TrylockFailed,
                      WakeBegin, WakeSkip, WaiterHoldsNone, TypeOK, Waiting
  <2>5. ASSUME NEW t \in Task, WakeEnd(t) PROVE WaiterHoldsNone'
    BY <1>t, <2>5 DEF WakeEnd, WaiterHoldsNone, TypeOK, Waiting
  <2>6. ASSUME NEW t \in Task,
               SigPending(t) \/ SigTest(t) \/ SigWake(t) \/ DeliverSignal(t)
        PROVE  WaiterHoldsNone'
    BY <1>t, <2>6 DEF SigPending, SigTest, SigWake, WakeUpProcess, DeliverSignal,
                      WaiterHoldsNone, TypeOK, Waiting
  <2>7. CASE UNCHANGED vars
    BY <1>t, <2>7 DEF vars, WaiterHoldsNone
  <2> QED
    BY <2>1, <2>2, <2>3, <2>4, <2>5, <2>6, <2>7
    DEF Next, Continue, Down, DownInterruptible, DownTrylock, Kind
<1>1. ASSUME NEW t \in Task, Down(t) \/ DownInterruptible(t) \/ DownTrylock(t)
      PROVE  Accounting' /\ MutualExclusion'
  BY <1>1, DecrementStep DEF Down, DownInterruptible, DownTrylock, Kind
<1>2. ASSUME NEW t \in Task,
             \/ AddWaitQueue(t) \/ Schedule(t) \/ SetState(t) \/ Leave(t)
             \/ WakeBegin(t) \/ WakeSkip(t)
      PROVE  Accounting' /\ MutualExclusion'
  <2>1. Pending' = Pending
    BY <1>t, <1>2 DEF AddWaitQueue, Schedule, SetState, Leave, WakeBegin, WakeSkip,
                      Pending, TypeOK
  <2>2. UNCHANGED <<count, sleepers, holding, ups>>
    BY <1>2 DEF AddWaitQueue, Schedule, SetState, Leave, WakeBegin, WakeSkip
  <2> QED
    BY <2>1, <2>2, NeutralStep
<1>3. ASSUME NEW t \in Task, WakeEnd(t)
      PROVE  Accounting' /\ MutualExclusion'
  <2>1. Pending' = Pending
    BY <1>t, <1>3 DEF WakeEnd, Pending, TypeOK
  <2> QED
    BY <1>3, <2>1, NeutralStep DEF WakeEnd
<1>4. ASSUME NEW t \in Task, SigPending(t) \/ SigTest(t) \/ SigWake(t) \/ DeliverSignal(t)
      PROVE  Accounting' /\ MutualExclusion'
  <2>1. Pending' = Pending
    BY <1>t, <1>4 DEF SigPending, SigTest, SigWake, WakeUpProcess, DeliverSignal,
                      Pending, TypeOK
  <2> QED
    BY <1>4, <2>1, NeutralStep DEF SigPending, SigTest, SigWake, DeliverSignal
<1>5. ASSUME UNCHANGED vars PROVE Accounting' /\ MutualExclusion'
  <2>1. Pending' = Pending
    BY <1>5 DEF vars, Pending
  <2> QED
    BY <1>5, <2>1, NeutralStep DEF vars
<1>6. Accounting' /\ MutualExclusion'
  BY <1>1, <1>2, <1>3, <1>4, <1>5, UpStep, ContendStep, TrylockStep DEF Next, Continue
<1> QED
  BY <1>0, <1>w, <1>6 DEF IInv

LEMMA IInvInit == Init => IInv
<1> SUFFICES ASSUME Init PROVE IInv
  OBVIOUS
<1>1. TypeOK
  BY TaskAssumption, ValAssumption DEF Init, TypeOK, Kind, Pc
<1>2. Pending = {} /\ holding = {}
  BY DEF Init, Pending
<1>3. Accounting /\ MutualExclusion
  BY <1>1, <1>2, FS_EmptySet, ValAssumption DEF Init, Accounting, Avail, MutualExclusion
<1>4. WaiterHoldsNone
  BY DEF Init, WaiterHoldsNone, Waiting
<1> QED
  BY <1>1, <1>3, <1>4 DEF IInv

LEMMA IInvAlways == Spec => []IInv
BY IInvInit, IInvStep, PTL DEF Spec

(* The two-way counter of __down(), __down_trylock() and the fast paths    *)
(* always equals the free permits less the tasks on their way to sleep and *)
(* the registered sleeper.                                                 *)
THEOREM AccountingHolds == Spec => []Accounting
<1>1. IInv => Accounting
  BY DEF IInv
<1> QED
  BY <1>1, IInvAlways, PTL

(* Never more tasks between a successful down() and their up() than there  *)
(* are permits, whatever the number of tasks and however they interleave.  *)
THEOREM MutualExclusionHolds == Spec => []MutualExclusion
<1>1. IInv => MutualExclusion
  BY DEF IInv
<1> QED
  BY <1>1, IInvAlways, PTL

(***************************************************************************)
(* Refinement.  By the accounting, the mapped value is the free permits;   *)
(* the steps that change it are the ones that change "holding" or "ups".   *)
(***************************************************************************)
FreeValue == count + Cardinality(Pending) + sleepers = Val + ups - Cardinality(holding)

LEMMA MappedValue == IInv => FreeValue
BY Numbers DEF IInv, Accounting, Avail, FreeValue

(* The same in the state after a step.                                     *)
LEMMA MappedValueNext == IInv' => FreeValue'
BY MappedValue, PTL

(* A step that takes a permit finds one free.                              *)
LEMMA AcquireMaps ==
  ASSUME IInv, IInv', NEW t \in Task,
         t \notin holding, holding' = holding \cup {t}, ups' = ups
  PROVE  Abstract!Acquire(t)
<1>1. Cardinality(holding') = Cardinality(holding) + 1
  BY Numbers, FS_AddElement, Zenon DEF IInv
<1>2. count' + Cardinality(Pending') + sleepers' = Val + ups' - Cardinality(holding')
  BY MappedValueNext DEF FreeValue
<1>3. Cardinality(holding') <= Val + ups'
  BY DEF IInv, MutualExclusion
<1>4. Val \in Nat /\ ups \in Nat /\ Cardinality(holding) \in Nat
  BY Numbers DEF IInv
<1> DEFINE v == count + Cardinality(Pending) + sleepers
<1>5. v = Val + ups - Cardinality(holding)
  BY MappedValue DEF FreeValue
<1>6. v > 0 /\ v' = v - 1
  BY <1>1, <1>2, <1>3, <1>4, <1>5
<1> QED
  BY <1>6 DEF Abstract!Acquire

(* A step that gives a permit maps to Release.                             *)
LEMMA ReleaseMaps ==
  ASSUME IInv, IInv', NEW t \in Task, Up(t)
  PROVE  Abstract!Release(t)
<1> DEFINE v == count + Cardinality(Pending) + sleepers
<1>1. v' = Val + ups' - Cardinality(holding')
  BY MappedValueNext DEF FreeValue
<1>2. v = Val + ups - Cardinality(holding)
  BY MappedValue DEF FreeValue
<1>3. Val \in Nat /\ ups \in Nat /\ Cardinality(holding) \in Nat /\ IsFiniteSet(holding)
  BY Numbers DEF IInv
<1>4. CASE t \in holding
  <2>1. holding' = holding \ {t} /\ ups' = ups
    BY <1>4 DEF Up
  <2>2. Cardinality(holding') = Cardinality(holding) - 1
    BY <1>3, <1>4, <2>1, FS_RemoveElement, Zenon
  <2>3. v' = v + 1
    BY <1>1, <1>2, <1>3, <2>1, <2>2
  <2> QED
    BY <2>1, <2>3 DEF Abstract!Release
<1>5. CASE t \notin holding
  <2>1. holding' = holding /\ ups' = ups + 1 /\ holding \ {t} = holding
    BY <1>5 DEF Up
  <2>2. v' = v + 1
    BY <1>1, <1>2, <1>3, <2>1
  <2> QED
    BY <2>1, <2>2 DEF Abstract!Release
<1> QED
  BY <1>4, <1>5

(* Every other step is invisible: the counters move between count, Pending *)
(* and sleepers without changing their sum.                                *)
LEMMA StutterMaps ==
  ASSUME IInv, IInv', holding' = holding, ups' = ups
  PROVE  UNCHANGED Abstract!vars
<1>1. /\ count + Cardinality(Pending) + sleepers = Val + ups - Cardinality(holding)
      /\ count' + Cardinality(Pending') + sleepers' = Val + ups' - Cardinality(holding')
  BY MappedValue, MappedValueNext DEF FreeValue
<1> QED
  BY <1>1 DEF Abstract!vars

(* down(), down_interruptible(), down_trylock() and up(), with all their   *)
(* contention handling, implement the atomic counting semaphore.           *)
THEOREM Refinement == Spec => ImplementsCountingSemaphore
<1>1. Init => Abstract!Init
  <2> SUFFICES ASSUME Init PROVE Abstract!Init
    OBVIOUS
  <2>1. Pending = {}
    BY DEF Init, Pending
  <2> QED
    BY <2>1, FS_EmptySet, ValAssumption DEF Init, Abstract!Init
<1>2. IInv /\ IInv' /\ [Next]_vars => [Abstract!Next]_(Abstract!vars)
  <2> SUFFICES ASSUME IInv, IInv', [Next]_vars
               PROVE  Abstract!Next \/ UNCHANGED Abstract!vars
    OBVIOUS
  <2> USE DEF semVars, waitVars, sigVars, ghosts
  <2>1. ASSUME NEW t \in Task, NEW k \in Kind, Decrement(t, k)
        PROVE  Abstract!Acquire(t) \/ UNCHANGED Abstract!vars
    <3>1. /\ t \notin holding /\ ups' = ups
          /\ holding' = holding \cup {t} \/ holding' = holding
      BY <2>1 DEF Decrement
    <3> QED
      BY <3>1, AcquireMaps, StutterMaps
  <2>2. ASSUME NEW t \in Task, Contend(t)
        PROVE  Abstract!Acquire(t) \/ UNCHANGED Abstract!vars
    <3>1. /\ t \notin holding /\ ups' = ups
          /\ holding' = holding \cup {t} \/ holding' = holding
      BY <2>2 DEF Contend, IInv, WaiterHoldsNone, Waiting
    <3> QED
      BY <3>1, AcquireMaps, StutterMaps
  <2>3. ASSUME NEW t \in Task, Up(t) PROVE Abstract!Release(t)
    BY <2>3, ReleaseMaps
  <2>4. ASSUME NEW t \in Task,
               \/ AddWaitQueue(t) \/ Schedule(t) \/ SetState(t) \/ Leave(t)
               \/ TrylockFailed(t) \/ WakeBegin(t) \/ WakeSkip(t) \/ WakeEnd(t)
        PROVE  UNCHANGED Abstract!vars
    <3>1. holding' = holding /\ ups' = ups
      BY <2>4 DEF AddWaitQueue, Schedule, SetState, Leave, TrylockFailed,
                  WakeBegin, WakeSkip, WakeEnd
    <3> QED
      BY <3>1, StutterMaps
  <2>5. ASSUME NEW t \in Task, SigPending(t) \/ SigTest(t) \/ SigWake(t) \/ DeliverSignal(t)
        PROVE  UNCHANGED Abstract!vars
    <3>1. holding' = holding /\ ups' = ups
      BY <2>5 DEF SigPending, SigTest, SigWake, DeliverSignal
    <3> QED
      BY <3>1, StutterMaps
  <2>6. CASE UNCHANGED vars
    BY <2>6, StutterMaps DEF vars
  <2>7. CASE Next
    BY <2>1, <2>2, <2>3, <2>4, <2>5, <2>7
    DEF Next, Continue, Down, DownInterruptible, DownTrylock, Kind, Abstract!Next
  <2> QED
    BY <2>6, <2>7
<1> QED
  BY <1>1, <1>2, IInvAlways, PTL DEF Spec, ImplementsCountingSemaphore, Abstract!Spec

(***************************************************************************)
(* Wake-ups and signals are not lost.  What the argument needs first is    *)
(* who is on the wait queue, and that it stands still under a scan.        *)
(***************************************************************************)
(* In __down() or __down_interruptible(), before their wake_up().          *)
Contending == {"slow", "enter", "retry", "sched", "asleep", "woken", "leave", "left"}

Queued(t) == \E i \in 1..Len(wait) : wait[i] = t

(* Between add_wait_queue_exclusive() and remove_wait_queue().             *)
OnQueue(t) ==
    \/ pc[t] \in {"enter", "retry", "sched", "asleep", "woken", "leave"}
    \/ pc[t] = "left" /\ kind[t] = "interruptible"

QueueInv ==
    /\ \A t \in Task : OnQueue(t) <=> Queued(t)
    /\ \A i, j \in 1..Len(wait) : wait[i] = wait[j] => i = j
    /\ \A t \in Task : pc[t] = "scan" => wqLock = t
    /\ \A t \in Task : pc[t] \in Contending => kind[t] \in {"down", "interruptible"}

(* A task that will sleep, or sleeps, until somebody wakes it.             *)
Sleeper(t) == pc[t] \in {"sched", "asleep"} /\ state[t] # "RUNNING"

(* A task that has still to look at the count, or to wake a sleeper.       *)
WillLook(t) ==
    \/ pc[t] \in {"slow", "try", "enter", "retry", "woken", "leave", "left", "wake"}
    \/ pc[t] = "sched" /\ state[t] = "RUNNING"
    \/ pc[t] = "scan" /\ \E i \in pos..Len(wait) : Sleeper(wait[i])

(* While the count is not negative no up() wakes anybody: if a task sleeps *)
(* then, another one is on its way that will.                              *)
WakeInv ==
    /\ \A t \in Task : pc[t] = "asleep" => state[t] # "RUNNING"
    /\ (count >= 0 /\ \E t \in Task : Sleeper(t)) => \E t \in Task : WillLook(t)

(* The signal came after the test under semaphore_lock; its sender has yet *)
(* to look at the state, or the task will not sleep.                       *)
SigInv == \A t \in Task :
    /\ OnQueue(t) /\ kind[t] = "interruptible" => state[t] # "UNINTERRUPTIBLE"
    /\ (pc[t] \in {"sched", "asleep"} /\ kind[t] = "interruptible" /\ sig[t])
         => sender[t] # "none" \/ state[t] = "RUNNING"

(* list_del(): what is left is what was there, in the same order.          *)
Unlink(w, i) == SubSeq(w, 1, i - 1) \o SubSeq(w, i + 1, Len(w))

LEMMA Unlinked ==
  ASSUME NEW w \in Seq(Task), NEW i \in 1..Len(w)
  PROVE  /\ Len(Unlink(w, i)) = Len(w) - 1
         /\ \A j \in 1..(Len(w) - 1) : Unlink(w, i)[j] = IF j < i THEN w[j] ELSE w[j + 1]
<1> DEFINE a == SubSeq(w, 1, i - 1)
           b == SubSeq(w, i + 1, Len(w))
<1>1. a \in Seq(Task) /\ Len(a) = i - 1 /\ \A j \in 1..(i - 1) : a[j] = w[j]
  OBVIOUS
<1>2. b \in Seq(Task) /\ Len(b) = Len(w) - i /\ \A j \in 1..(Len(w) - i) : b[j] = w[i + j]
  OBVIOUS
<1>3. Unlink(w, i) = a \o b
  BY DEF Unlink
<1> HIDE DEF a, b
<1>4. Len(a \o b) = Len(w) - 1
  <2>1. a \in Seq(Task) /\ b \in Seq(Task)
    BY <1>1, <1>2
  <2>2. Len(a \o b) = Len(a) + Len(b)
    BY <2>1
  <2>3. Len(a) = i - 1 /\ Len(b) = Len(w) - i
    BY <1>1, <1>2, Zenon
  <2> QED
    BY <2>2, <2>3
<1>5. ASSUME NEW j \in 1..(Len(w) - 1) PROVE (a \o b)[j] = IF j < i THEN w[j] ELSE w[j + 1]
  <2>1. CASE j < i
    BY <1>1, <1>2, <2>1
  <2>2. CASE ~(j < i)
    <3>1. (a \o b)[j] = b[j - (i - 1)]
      BY <1>1, <1>2, <2>2
    <3>2. j - (i - 1) \in 1..(Len(w) - i) /\ i + (j - (i - 1)) = j + 1
      BY <2>2
    <3> QED
      BY <1>2, <2>2, <3>1, <3>2
  <2> QED
    BY <2>1, <2>2, Zenon
<1> QED
  BY <1>3, <1>4, <1>5, Zenon

(* The steps that touch neither the queue nor anybody's being on it.       *)
LEMMA QueueKept ==
  ASSUME TypeOK, QueueInv, UNCHANGED wait,
         \A t \in Task : /\ OnQueue(t)' <=> OnQueue(t)
                         /\ pc'[t] = "scan" => wqLock' = t
                         /\ pc'[t] \in Contending => kind'[t] \in {"down", "interruptible"}
  PROVE  QueueInv'
BY DEF QueueInv, Queued

LEMMA QueueAdd ==
  ASSUME TypeOK, QueueInv, NEW t \in Task, AddWaitQueue(t)
  PROVE  QueueInv'
<1> USE DEF TypeOK
<1>1. wait' = Append(wait, t) /\ Len(wait') = Len(wait) + 1
  BY DEF AddWaitQueue
<1>2. /\ wait'[Len(wait) + 1] = t
      /\ \A i \in 1..Len(wait) : wait'[i] = wait[i]
  BY <1>1
<1>3. ~Queued(t)
  BY DEF QueueInv, OnQueue, AddWaitQueue
<1>4. \A u \in Task : Queued(u)' <=> Queued(u) \/ u = t
  BY <1>1, <1>2 DEF Queued
<1>5. \A u \in Task : OnQueue(u)' <=> OnQueue(u) \/ u = t
  BY DEF OnQueue, AddWaitQueue
<1>6. \A i, j \in 1..Len(wait') : wait'[i] = wait'[j] => i = j
  BY <1>1, <1>2, <1>3 DEF QueueInv, Queued
<1>7. \A u \in Task : /\ pc'[u] = "scan" => wqLock' = u
                      /\ pc'[u] \in Contending => kind'[u] \in {"down", "interruptible"}
  BY DEF QueueInv, AddWaitQueue, Contending
<1> QED
  BY <1>4, <1>5, <1>6, <1>7 DEF QueueInv

LEMMA QueueLeave ==
  ASSUME TypeOK, QueueInv, NEW t \in Task, Leave(t)
  PROVE  QueueInv'
<1>0. wqLock' = wqLock
  <2>1. RemoveWaitQueue(t) \/ SetRunning(t)
    BY Zenon DEF Leave
  <2> QED
    BY <2>1, Zenon DEF RemoveWaitQueue, SetRunning, waitVars
<1> USE DEF TypeOK
<1>1. \A u \in Task : /\ pc'[u] = "scan" => wqLock' = u
                      /\ pc'[u] \in Contending => kind'[u] \in {"down", "interruptible"}
  BY <1>0 DEF QueueInv, Leave, Contending
<1>3. CASE SetRunning(t) /\ ~((pc[t] = "leave") = (kind[t] = "down"))
  <2>1. \A u \in Task : OnQueue(u)' <=> OnQueue(u)
    BY <1>3 DEF Leave, OnQueue, QueueInv, Contending
  <2> QED
    BY <1>1, <1>3, <2>1, QueueKept DEF SetRunning, waitVars
<1>4. CASE RemoveWaitQueue(t) /\ (pc[t] = "leave") = (kind[t] = "down")
  <2>1. PICK i \in 1..Len(wait) :
            /\ wait[i] = t
            /\ wait' = Unlink(wait, i)
    BY <1>4, Zenon DEF RemoveWaitQueue, Unlink
  <2>w. wait \in Seq(Task) /\ Len(wait) \in Nat
    OBVIOUS
  <2>2. /\ Len(wait') = Len(wait) - 1
        /\ \A j \in 1..Len(wait') : wait'[j] = IF j < i THEN wait[j] ELSE wait[j + 1]
    <3>1. /\ Len(Unlink(wait, i)) = Len(wait) - 1
          /\ \A j \in 1..(Len(wait) - 1) : Unlink(wait, i)[j] = IF j < i THEN wait[j] ELSE wait[j + 1]
      BY <2>w, <2>1, Unlinked, Zenon
    <3> QED
      BY <2>1, <3>1
  <2>3. \A u \in Task : OnQueue(u)' <=> OnQueue(u) /\ u # t
    BY <1>4 DEF Leave, OnQueue, QueueInv, Contending
  <2>u. \A j, k \in 1..Len(wait) : wait[j] = wait[k] => j = k
    BY DEF QueueInv
  <2> HIDE DEF TypeOK
  <2>4. ASSUME NEW j \in 1..Len(wait'), NEW k \in 1..Len(wait'), wait'[j] = wait'[k]
        PROVE  j = k
    <3>1. /\ j \in 1..Len(wait) /\ j + 1 \in 1..Len(wait)
          /\ k \in 1..Len(wait) /\ k + 1 \in 1..Len(wait)
      BY <2>w, <2>2
    <3> QED
      BY <2>2, <2>4, <2>u, <3>1
  <2>5. ASSUME NEW u \in Task, Queued(u)' PROVE Queued(u) /\ u # t
    <3>1. PICK j \in 1..Len(wait') : wait'[j] = u
      BY <2>5 DEF Queued
    <3>2. j \in 1..Len(wait) /\ j + 1 \in 1..Len(wait)
      BY <2>w, <2>2
    <3> QED
      BY <2>1, <2>2, <2>u, <3>1, <3>2 DEF Queued
  <2>6. ASSUME NEW u \in Task, Queued(u), u # t PROVE Queued(u)'
    <3>1. PICK k \in 1..Len(wait) : wait[k] = u
      BY <2>6 DEF Queued
    <3>2. CASE k < i
      BY <2>2, <3>1, <3>2 DEF Queued
    <3>3. CASE k > i
      <4>1. k - 1 \in 1..Len(wait') /\ wait'[k - 1] = u
        BY <2>2, <3>1, <3>3
      <4> QED
        BY <4>1 DEF Queued
    <3> QED
      BY <2>1, <2>6, <3>1, <3>2, <3>3
  <2> QED
    BY <1>1, <2>3, <2>4, <2>5, <2>6 DEF QueueInv
<1> QED
  BY <1>3, <1>4 DEF Leave

LEMMA QueueStep == TypeOK /\ QueueInv /\ [Next]_vars => QueueInv'
<1> SUFFICES ASSUME TypeOK, QueueInv, [Next]_vars PROVE QueueInv'
  OBVIOUS
<1> USE DEF semVars, waitVars, sigVars, ghosts
<1> DEFINE Same == /\ UNCHANGED wait
                   /\ \A u \in Task : /\ OnQueue(u)' <=> OnQueue(u)
                                      /\ pc'[u] = "scan" => wqLock' = u
                                      /\ pc'[u] \in Contending => kind'[u] \in {"down", "interruptible"}
<1>1. ASSUME NEW t \in Task, NEW k \in Kind \ {"none"}, Decrement(t, k) PROVE Same
  BY <1>1 DEF Decrement, TypeOK, QueueInv, OnQueue, Kind, Contending
<1>2. ASSUME NEW t \in Task, Up(t) PROVE Same
  BY <1>2 DEF Up, TypeOK, QueueInv, OnQueue, Contending
<1>3. ASSUME NEW t \in Task, Contend(t) PROVE Same
  <2>1. /\ pc' = [pc EXCEPT ![t] = "leave"] \/ pc' = [pc EXCEPT ![t] = "sched"]
        /\ pc[t] \in {"enter", "retry"} /\ UNCHANGED <<wait, wqLock, kind>>
    BY <1>3 DEF Contend
  <2>2. kind[t] \in {"down", "interruptible"}
    BY <2>1 DEF QueueInv, Contending
  <2> QED
    BY <2>1, <2>2 DEF TypeOK, QueueInv, OnQueue, Contending
<1>4. ASSUME NEW t \in Task, Schedule(t) \/ SetState(t) PROVE Same
  BY <1>4 DEF Schedule, SetState, TypeOK, QueueInv, OnQueue, Contending
<1>5. ASSUME NEW t \in Task, TrylockFailed(t) PROVE Same
  BY <1>5 DEF TrylockFailed, TypeOK, QueueInv, OnQueue, Contending
<1>6. ASSUME NEW t \in Task, WakeBegin(t) \/ WakeSkip(t) PROVE Same
  BY <1>6, TaskAssumption DEF WakeBegin, WakeSkip, TypeOK, QueueInv, OnQueue, Contending
<1>7. ASSUME NEW t \in Task, WakeEnd(t) PROVE Same
  BY <1>7 DEF WakeEnd, TypeOK, QueueInv, OnQueue, Contending
<1>8. ASSUME NEW t \in Task, SigPending(t) \/ SigTest(t) \/ SigWake(t) \/ DeliverSignal(t)
      PROVE  Same
  BY <1>8 DEF SigPending, SigTest, SigWake, WakeUpProcess, DeliverSignal,
              TypeOK, QueueInv, OnQueue, Contending
<1>9. CASE UNCHANGED vars
  BY <1>9 DEF vars, QueueInv, OnQueue, Queued
<1>10. Same => QueueInv'
  BY QueueKept
<1> HIDE DEF Same
<1> QED
  BY <1>1, <1>2, <1>3, <1>4, <1>5, <1>6, <1>7, <1>8, <1>9, <1>10, QueueAdd, QueueLeave
  DEF Next, Continue, Down, DownInterruptible, DownTrylock, Kind

(* The sender of a signal has the last look at a task that goes to sleep.  *)
LEMMA SigStep == TypeOK /\ QueueInv /\ SigInv /\ [Next]_vars => SigInv'
<1> SUFFICES ASSUME TypeOK, QueueInv, SigInv, [Next]_vars PROVE SigInv'
  OBVIOUS
<1> USE DEF semVars, waitVars, sigVars, ghosts
<1>1. ASSUME NEW t \in Task, NEW k \in Kind, Decrement(t, k) PROVE SigInv'
  BY <1>1 DEF Decrement, TypeOK, SigInv, OnQueue
<1>2. ASSUME NEW t \in Task, Up(t) \/ TrylockFailed(t) PROVE SigInv'
  BY <1>2 DEF Up, TrylockFailed, TypeOK, SigInv, OnQueue
<1>3. ASSUME NEW t \in Task, Contend(t) PROVE SigInv'
  <2>1. /\ \/ pc' = [pc EXCEPT ![t] = "leave"]
           \/ pc' = [pc EXCEPT ![t] = "sched"] /\ ~(kind[t] = "interruptible" /\ sig[t])
        /\ pc[t] \in {"enter", "retry"} /\ UNCHANGED <<kind, state, sig, sender>>
    BY <1>3 DEF Contend
  <2> QED
    BY <2>1 DEF TypeOK, SigInv, OnQueue
<1>4. ASSUME NEW t \in Task, AddWaitQueue(t) \/ Schedule(t) \/ SetState(t) PROVE SigInv'
  BY <1>4 DEF AddWaitQueue, Schedule, SetState, SleepState, TypeOK, SigInv, OnQueue
<1>5. ASSUME NEW t \in Task, Leave(t) PROVE SigInv'
  <2>1. UNCHANGED state \/ state' = [state EXCEPT ![t] = "RUNNING"]
    <3>1. RemoveWaitQueue(t) \/ SetRunning(t)
      BY <1>5, Zenon DEF Leave
    <3> QED
      BY <3>1, Zenon DEF RemoveWaitQueue, SetRunning
  <2>2. /\ \/ pc[t] = "leave" /\ pc' = [pc EXCEPT ![t] = "left"] /\ UNCHANGED kind
           \/ /\ pc[t] = "left" /\ pc' = [pc EXCEPT ![t] = "wake"]
              /\ kind' = [kind EXCEPT ![t] = "none"]
        /\ UNCHANGED <<sig, sender>>
    BY <1>5, Zenon DEF Leave
  <2> QED
    BY <2>1, <2>2 DEF TypeOK, SigInv, OnQueue
<1>6. ASSUME NEW t \in Task, WakeBegin(t) \/ WakeSkip(t) PROVE SigInv'
  BY <1>6 DEF WakeBegin, WakeSkip, TypeOK, SigInv, OnQueue
<1>7. ASSUME NEW t \in Task, WakeEnd(t) PROVE SigInv'
  BY <1>7 DEF WakeEnd, TypeOK, SigInv, OnQueue
<1>8. ASSUME NEW t \in Task, SigPending(t) \/ SigTest(t) \/ SigWake(t) \/ DeliverSignal(t)
      PROVE  SigInv'
  BY <1>8 DEF SigPending, SigTest, SigWake, WakeUpProcess, DeliverSignal,
              TypeOK, SigInv, OnQueue
<1>9. CASE UNCHANGED vars
  BY <1>9 DEF vars, SigInv, OnQueue
<1> QED
  BY <1>1, <1>2, <1>3, <1>4, <1>5, <1>6, <1>7, <1>8, <1>9
  DEF Next, Continue, Down, DownInterruptible, DownTrylock, Kind

(* A sleeper has been put to sleep with its state set, and stays so until  *)
(* it is woken.                                                            *)
LEMMA AsleepStep ==
  ASSUME TypeOK, [Next]_vars, \A t \in Task : pc[t] = "asleep" => state[t] # "RUNNING"
  PROVE  \A t \in Task : pc'[t] = "asleep" => state'[t] # "RUNNING"
<1> DEFINE Kept == \A t \in Task : pc'[t] = "asleep" => state'[t] # "RUNNING"
<1> USE DEF semVars, waitVars, sigVars, ghosts
<1>1. ASSUME NEW t \in Task, NEW k \in Kind, Decrement(t, k) PROVE Kept
  BY <1>1 DEF Decrement, TypeOK
<1>2. ASSUME NEW t \in Task, Up(t) \/ TrylockFailed(t) \/ WakeBegin(t) \/ WakeSkip(t) PROVE Kept
  BY <1>2 DEF Up, TrylockFailed, WakeBegin, WakeSkip, TypeOK
<1>3. ASSUME NEW t \in Task, Contend(t) PROVE Kept
  BY <1>3 DEF Contend, TypeOK
<1>4. ASSUME NEW t \in Task, AddWaitQueue(t) \/ Schedule(t) \/ SetState(t) PROVE Kept
  BY <1>4 DEF AddWaitQueue, Schedule, SetState, SleepState, TypeOK
<1>5. ASSUME NEW t \in Task, Leave(t) PROVE Kept
  <2>1. UNCHANGED state \/ state' = [state EXCEPT ![t] = "RUNNING"]
    <3>1. RemoveWaitQueue(t) \/ SetRunning(t)
      BY <1>5, Zenon DEF Leave
    <3> QED
      BY <3>1, Zenon DEF RemoveWaitQueue, SetRunning
  <2>2. \/ pc[t] = "leave" /\ pc' = [pc EXCEPT ![t] = "left"]
        \/ pc[t] = "left" /\ pc' = [pc EXCEPT ![t] = "wake"]
    BY <1>5, Zenon DEF Leave
  <2> QED
    BY <2>1, <2>2 DEF TypeOK
<1>6. ASSUME NEW t \in Task, WakeEnd(t) PROVE Kept
  BY <1>6 DEF WakeEnd, TypeOK
<1>7. ASSUME NEW t \in Task, SigPending(t) \/ SigTest(t) \/ SigWake(t) \/ DeliverSignal(t)
      PROVE  Kept
  BY <1>7 DEF SigPending, SigTest, SigWake, WakeUpProcess, DeliverSignal, TypeOK
<1>8. ASSUME UNCHANGED vars PROVE Kept
  BY <1>8 DEF vars
<1> HIDE DEF Kept
<1>9. Kept
  BY <1>1, <1>2, <1>3, <1>4, <1>5, <1>6, <1>7, <1>8
  DEF Next, Continue, Down, DownInterruptible, DownTrylock, Kind
<1> QED
  BY <1>9 DEF Kept

(* Nobody who was going to look is lost, and nobody falls asleep.          *)
LEMMA LookKept ==
  ASSUME WakeInv, count' >= 0 => count >= 0,
         \A u \in Task : Sleeper(u)' => Sleeper(u),
         \A u \in Task : WillLook(u) => \E v \in Task : WillLook(v)'
  PROVE  (count' >= 0 /\ \E u \in Task : Sleeper(u)') => \E v \in Task : WillLook(v)'
BY DEF WakeInv

(* __wake_up() from its first step to its last.                            *)
LEMMA ScanKeepsLooking ==
  ASSUME TypeOK, QueueInv, WakeInv, NEW t \in Task,
         WakeBegin(t) \/ WakeSkip(t) \/ WakeEnd(t)
  PROVE  (count' >= 0 /\ \E u \in Task : Sleeper(u)') => \E v \in Task : WillLook(v)'
<1> USE DEF semVars
<1>w. wait \in Seq(Task) /\ Len(wait) \in Nat /\ pos \in Nat \ {0}
  BY DEF TypeOK
<1>1. CASE WakeBegin(t)
  <2> SUFFICES ASSUME NEW u \in Task, Sleeper(u)' PROVE WillLook(t)'
    OBVIOUS
  <2>1. Sleeper(u)
    BY <1>1 DEF WakeBegin, Sleeper, TypeOK
  <2>2. PICK i \in 1..Len(wait) : wait[i] = u
    BY <2>1 DEF QueueInv, Queued, OnQueue, Sleeper
  <2>3. i \in pos'..Len(wait') /\ Sleeper(wait[i])' /\ wait' = wait
    BY <1>1, <1>w, <2>2 DEF WakeBegin
  <2>4. pc'[t] = "scan"
    BY <1>1 DEF WakeBegin, TypeOK
  <2> QED
    BY <2>3, <2>4 DEF WillLook
<1>2. CASE WakeSkip(t)
  <2>1. UNCHANGED <<count, pc, state, wait>> /\ pos' = pos + 1 /\ pc[t] = "scan"
        /\ pos <= Len(wait) /\ state[wait[pos]] = "RUNNING"
    BY <1>2 DEF WakeSkip
  <2>2. \A u : Sleeper(u)' <=> Sleeper(u)
    BY <2>1 DEF Sleeper
  <2>3. ASSUME NEW u \in Task, WillLook(u) PROVE WillLook(u)'
    <3>1. CASE pc[u] # "scan"
      BY <2>1, <2>3, <3>1 DEF WillLook
    <3>2. CASE pc[u] = "scan"
      <4>1. PICK i \in pos..Len(wait) : Sleeper(wait[i])
        BY <2>3, <3>2 DEF WillLook
      <4>2. i \in (pos + 1)..Len(wait)
        BY <1>w, <2>1, <4>1 DEF Sleeper
      <4> QED
        BY <2>1, <2>2, <3>2, <4>1, <4>2 DEF WillLook
    <3> QED
      BY <3>1, <3>2
  <2> QED
    BY <2>1, <2>2, <2>3, LookKept
<1>3. CASE WakeEnd(t) /\ pos > Len(wait)
  <2>1. UNCHANGED <<count, state, wait>> /\ pc' = [pc EXCEPT ![t] = "out"] /\ pc[t] = "scan"
    BY <1>3, <1>w DEF WakeEnd
  <2>2. \A u \in Task : Sleeper(u)' => Sleeper(u)
    BY <2>1 DEF Sleeper, TypeOK
  <2>3. ASSUME NEW u \in Task, WillLook(u) PROVE WillLook(u)'
    <3>1. u # t /\ pc[u] # "scan"
      BY <1>3, <1>w, <2>1, <2>3 DEF WillLook, QueueInv
    <3> QED
      BY <2>1, <2>3, <3>1 DEF WillLook, TypeOK
  <2> QED
    BY <2>1, <2>2, <2>3, LookKept
<1>4. CASE WakeEnd(t) /\ ~(pos > Len(wait))
  <2>0. PICK u \in Task : u = wait[pos] /\ pos \in 1..Len(wait)
    BY <1>4, <1>w
  <2>1. OnQueue(u) /\ pc[t] = "scan"
    BY <1>4, <2>0 DEF QueueInv, Queued, WakeEnd
  <2>2. /\ state' = [state EXCEPT ![u] = "RUNNING"]
        /\ pc' = [pc EXCEPT ![t] = "out", ![u] = IF @ = "asleep" THEN "woken" ELSE @]
    BY <1>4, <1>w, <2>0 DEF WakeEnd
  <2>3. u # t
    BY <2>1 DEF OnQueue
  <2>4. state'[u] = "RUNNING" /\ pc'[u] = IF pc[u] = "asleep" THEN "woken" ELSE pc[u]
    BY <2>0, <2>2, <2>3 DEF TypeOK
  <2>5. WillLook(u)'
    BY <2>1, <2>4 DEF WillLook, OnQueue
  <2> QED
    BY <2>0, <2>5
<1> QED
  BY <1>1, <1>2, <1>3, <1>4

LEMMA WakeStep == TypeOK /\ QueueInv /\ WakeInv /\ [Next]_vars => WakeInv'
<1> SUFFICES ASSUME TypeOK, QueueInv, WakeInv, [Next]_vars PROVE WakeInv'
  OBVIOUS
<1> DEFINE Looked == (count' >= 0 /\ \E u \in Task : Sleeper(u)') => \E v \in Task : WillLook(v)'
<1> USE DEF semVars, waitVars, sigVars, ghosts
<1>n. count \in Int /\ count' \in Int
  <2>1. TypeOK'
    BY TypeStep
  <2> QED
    BY <2>1 DEF TypeOK
<1>s. ASSUME UNCHANGED <<pc, state, wait, pos>>, count' <= count PROVE Looked
  <2>1. \A u : Sleeper(u)' <=> Sleeper(u)
    BY <1>s DEF Sleeper
  <2>2. \A u : WillLook(u)' <=> WillLook(u)
    BY <1>s, <2>1 DEF WillLook
  <2>3. (count' >= 0) => (count >= 0)
    BY <1>n, <1>s
  <2> QED
    BY <2>1, <2>2, <2>3, LookKept
<1>1. ASSUME NEW t \in Task, NEW k \in Kind, Decrement(t, k) PROVE Looked
  <2>1. CASE UNCHANGED pc
    BY <1>1, <1>n, <1>s, <2>1 DEF Decrement
  <2>2. CASE pc' = [pc EXCEPT ![t] = IF k = "trylock" THEN "try" ELSE "slow"]
    BY <2>2 DEF WillLook, TypeOK
  <2> QED
    BY <1>1, <2>1, <2>2 DEF Decrement
<1>2. ASSUME NEW t \in Task, Up(t) PROVE Looked
  <2>1. /\ count' = count + 1 /\ pc[t] = "out"
        /\ pc' = [pc EXCEPT ![t] = IF count' <= 0 THEN "wake" ELSE "out"]
        /\ UNCHANGED <<state, wait, pos>>
    BY <1>2 DEF Up
  <2>2. CASE count' <= 0
    BY <2>1, <2>2 DEF WillLook, TypeOK
  <2>3. CASE count' > 0
    <3>1. pc'[t] = "out" /\ count >= 0
      BY <1>n, <2>1, <2>3 DEF TypeOK
    <3>2. pc' = pc
      BY <2>1, <3>1 DEF TypeOK
    <3>3. \A u : Sleeper(u)' <=> Sleeper(u)
      BY <2>1, <3>2 DEF Sleeper
    <3>4. \A u : WillLook(u)' <=> WillLook(u)
      BY <2>1, <3>2, <3>3 DEF WillLook
    <3> QED
      BY <3>1, <3>3, <3>4, LookKept
  <2> QED
    BY <1>n, <2>1, <2>2, <2>3
<1>3. ASSUME NEW t \in Task, Contend(t) PROVE Looked
  <2>1. pc' = [pc EXCEPT ![t] = "leave"] \/ ~(count' >= 0)
    BY <1>3 DEF Contend
  <2> QED
    BY <2>1 DEF WillLook, TypeOK
<1>4. ASSUME NEW t \in Task, Schedule(t) PROVE Looked
  <2>1. /\ pc' = [pc EXCEPT ![t] = IF state[t] = "RUNNING" THEN "woken" ELSE "asleep"]
        /\ UNCHANGED <<count, state, wait, pos>> /\ pc[t] = "sched"
    BY <1>4 DEF Schedule
  <2>2. CASE state[t] = "RUNNING"
    BY <2>1, <2>2 DEF WillLook, TypeOK
  <2>3. CASE state[t] # "RUNNING"
    <3>1. \A u \in Task : Sleeper(u)' <=> Sleeper(u)
      BY <2>1, <2>3 DEF Sleeper, TypeOK
    <3>2. \A i \in 1..Len(wait) : wait[i] \in Task /\ wait'[i] = wait[i]
      BY <2>1 DEF TypeOK
    <3>3. \A u \in Task : WillLook(u) => WillLook(u)'
      BY <2>1, <2>3, <3>1, <3>2 DEF WillLook, TypeOK
    <3> QED
      BY <2>1, <3>1, <3>3, LookKept
  <2> QED
    BY <2>2, <2>3
<1>5. ASSUME NEW t \in Task, AddWaitQueue(t) \/ SetState(t) PROVE Looked
  <2>1. pc' = [pc EXCEPT ![t] = "enter"] \/ pc' = [pc EXCEPT ![t] = "retry"]
    BY <1>5 DEF AddWaitQueue, SetState
  <2> QED
    BY <2>1 DEF WillLook, TypeOK
<1>6. ASSUME NEW t \in Task, Leave(t) PROVE Looked
  <2>1. pc' = [pc EXCEPT ![t] = "left"] \/ pc' = [pc EXCEPT ![t] = "wake"]
    BY <1>6, Zenon DEF Leave
  <2> QED
    BY <2>1 DEF WillLook, TypeOK
<1>7. ASSUME NEW t \in Task, TrylockFailed(t) PROVE Looked
  <2>1. pc' = [pc EXCEPT ![t] = "wake"] \/ ~(count' >= 0)
    BY <1>7 DEF TrylockFailed
  <2> QED
    BY <2>1 DEF WillLook, TypeOK
<1>8. ASSUME NEW t \in Task, SigWake(t) PROVE Looked
  <2>1. /\ state' = [state EXCEPT ![t] = "RUNNING"]
        /\ pc' = [pc EXCEPT ![t] = IF @ = "asleep" THEN "woken" ELSE @]
        /\ UNCHANGED <<count, wait, pos>>
    BY <1>8 DEF SigWake, WakeUpProcess
  <2>2. CASE pc[t] \in {"sched", "asleep"}
    BY <2>1, <2>2 DEF WillLook, TypeOK
  <2>3. CASE pc[t] \notin {"sched", "asleep"}
    <3>1. \A u \in Task : Sleeper(u)' <=> Sleeper(u)
      BY <2>1, <2>3 DEF Sleeper, TypeOK
    <3>2. \A i \in 1..Len(wait) : wait[i] \in Task /\ wait'[i] = wait[i]
      BY <2>1 DEF TypeOK
    <3>3. \A u \in Task : WillLook(u) => WillLook(u)'
      BY <2>1, <2>3, <3>1, <3>2 DEF WillLook, TypeOK
    <3> QED
      BY <2>1, <3>1, <3>3, LookKept
  <2> QED
    BY <2>2, <2>3
<1>9. ASSUME NEW t \in Task, SigPending(t) \/ SigTest(t) \/ DeliverSignal(t) PROVE Looked
  BY <1>9, <1>n, <1>s DEF SigPending, SigTest, DeliverSignal
<1>10. ASSUME NEW t \in Task, WakeBegin(t) \/ WakeSkip(t) \/ WakeEnd(t) PROVE Looked
  BY <1>10, ScanKeepsLooking, Zenon
<1>11. ASSUME UNCHANGED vars PROVE Looked
  BY <1>11, <1>n, <1>s DEF vars
<1> HIDE DEF Looked
<1>12. Looked
  BY <1>1, <1>2, <1>3, <1>4, <1>5, <1>6, <1>7, <1>8, <1>9, <1>10, <1>11
  DEF Next, Continue, Down, DownInterruptible, DownTrylock, Kind
<1>13. \A t \in Task : pc'[t] = "asleep" => state'[t] # "RUNNING"
  BY AsleepStep DEF WakeInv
<1> QED
  BY <1>12, <1>13 DEF Looked, WakeInv

SleepInv == TypeOK /\ QueueInv /\ WakeInv /\ SigInv

LEMMA SleepInvAlways == Spec => []SleepInv
<1>1. Init => SleepInv
  <2> SUFFICES ASSUME Init PROVE SleepInv
    OBVIOUS
  <2>1. TypeOK
    BY IInvInit DEF IInv
  <2>2. QueueInv /\ WakeInv /\ SigInv
    BY <2>1 DEF Init, TypeOK, QueueInv, OnQueue, Queued, Contending, WakeInv, Sleeper, SigInv
  <2> QED
    BY <2>1, <2>2 DEF SleepInv
<1>2. SleepInv /\ [Next]_vars => SleepInv'
  BY TypeStep, QueueStep, WakeStep, SigStep DEF SleepInv
<1> QED
  BY <1>1, <1>2, PTL DEF Spec

(* "we cannot lose wakeup events": when nothing is under way and a task    *)
(* sleeps in __down() or __down_interruptible(), no permit is free and the *)
(* count is negative, whatever the number of tasks, of signals and of      *)
(* failed down_trylock() calls before.                                     *)
THEOREM NoLostWakeupHolds == Spec => []NoLostWakeup
<1>1. IInv /\ SleepInv => NoLostWakeup
  <2> SUFFICES ASSUME IInv, SleepInv, NEW u \in Task, pc[u] = "asleep",
                      \A t \in Task : pc[t] \in {"out", "asleep"}
               PROVE  Avail = 0 /\ count < 0
    BY DEF NoLostWakeup, Asleep
  <2>1. Sleeper(u) /\ ~\E t \in Task : WillLook(t)
    BY DEF SleepInv, WakeInv, Sleeper, WillLook
  <2>2. ~(count >= 0)
    BY <2>1 DEF SleepInv, WakeInv
  <2>3. Pending = {} /\ Cardinality(Pending) = 0
    BY FS_EmptySet DEF Pending
  <2>4. /\ count = Avail - Cardinality(Pending) - sleepers
        /\ Cardinality(holding) <= Val + ups
    BY DEF IInv, Accounting, MutualExclusion
  <2>5. /\ count \in Int /\ sleepers \in 0..1 /\ ups \in Nat /\ Val \in Nat
        /\ Cardinality(holding) \in Nat
    BY Numbers DEF IInv
  <2> QED
    BY <2>2, <2>3, <2>4, <2>5 DEF Avail
<1> QED
  BY <1>1, IInvAlways, SleepInvAlways, PTL

(* A task asleep in __down_interruptible() with a signal pending is about  *)
(* to be woken: send_sig_info() has not finished with it, although neither *)
(* schedule() nor __wake_up() looks at the signal.                         *)
THEOREM NoLostSignalHolds == Spec => []NoLostSignal
<1>1. SleepInv => NoLostSignal
  BY DEF SleepInv, WakeInv, SigInv, NoLostSignal, Asleep
<1> QED
  BY <1>1, SleepInvAlways, PTL
=============================================================================
