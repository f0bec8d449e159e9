----------------------------- MODULE Semaphore -----------------------------
(***************************************************************************)
(* The i386 kernel semaphore: the inline fast paths of asm/semaphore.h and *)
(* the contention routines of arch/i386/kernel/semaphore.c, together with  *)
(* the exclusive wait queue, __wake_up(), the sleeping half of schedule()  *)
(* and the wake-up half of send_sig_info() they depend on.                 *)
(*                                                                         *)
(* One step is one atomic instruction, one region under a spinlock, or one *)
(* write of tsk->state.  Every access to "sleepers" is made under          *)
(* semaphore_lock and every such region touches "count" once, so a region  *)
(* is one step; only down_trylock() keeps the lock for more (its wake_up). *)
(***************************************************************************)
EXTENDS Integers, Sequences, FiniteSets

CONSTANTS Task,     \* the tasks that use the semaphore
          Val,      \* the count given to sema_init()
          MaxUps,   \* bound on up() calls by a task that holds no permit
          Killable, \* the tasks signals are sent to
          None      \* "no task": the owner of a free spinlock

ASSUME TaskAssumption == IsFiniteSet(Task) /\ Killable \subseteq Task /\ None \notin Task
ASSUME ValAssumption  == Val \in Nat /\ MaxUps \in Nat

VARIABLES count,    \* sem->count
          sleepers, \* sem->sleepers
          wait,     \* sem->wait, the tasks of the queue from head to tail
          semLock,  \* who holds semaphore_lock between two steps
          wqLock,   \* who holds sem->wait.lock between two steps
          pos,      \* the entry __wake_up() looks at next
          pc,       \* where each task is
          kind,     \* which contention routine a task waits in, or "none"
          state,    \* tsk->state; the sleeping ones carry TASK_EXCLUSIVE
          sig,      \* signal_pending(tsk)
          sender,   \* how far send_sig_info() to this task has come
          holding,  \* tasks whose down succeeded and that have not called up
          ups       \* permits given by tasks that held none

semVars  == <<count, sleepers>>
waitVars == <<wait, wqLock, pos>>
sigVars  == <<sig, sender>>
ghosts   == <<holding, ups>>
vars     == <<count, sleepers, wait, semLock, wqLock, pos, pc, kind, state,
              sig, sender, holding, ups>>

Kind == {"none", "down", "interruptible", "trylock"}

(* "slow", "try": the decrement went negative, the contention routine is   *)
(* entered.  "enter", "retry": about to take semaphore_lock, for the first *)
(* time or again.  "sched": about to call schedule().  "leave", "left":    *)
(* the two steps that undo the queueing.  "wake", "scan": in __wake_up().  *)
Pc == {"out", "slow", "try", "enter", "retry", "sched", "asleep", "woken",
       "leave", "left", "wake", "scan"}

(* What a sleeper of either routine stores in tsk->state.                  *)
SleepState(t) == IF kind[t] = "down" THEN "UNINTERRUPTIBLE" ELSE "INTERRUPTIBLE"

(* sema_init(): no sleeper, an empty queue.                                *)
Init ==
    /\ count = Val
    /\ sleepers = 0
    /\ wait = <<>>
    /\ semLock = None
    /\ wqLock = None
    /\ pos = 1
    /\ pc = [t \in Task |-> "out"]
    /\ kind = [t \in Task |-> "none"]
    /\ state = [t \in Task |-> "RUNNING"]
    /\ sig = [t \in Task |-> FALSE]
    /\ sender = [t \in Task |-> "none"]
    /\ holding = {}
    /\ ups = 0

(***************************************************************************)
(* The fast paths.                                                         *)
(***************************************************************************)

(* Mutant: the sign is that of the count before the decrement.             *)
DecrementTestsOld(t, k) ==
    /\ pc[t] = "out"
    /\ t \notin holding
    /\ count' = count - 1
    /\ IF count >= 0
         THEN holding' = holding \union {t} /\ UNCHANGED <<pc, kind>>
         ELSE /\ pc' = [pc EXCEPT ![t] = IF k = "trylock" THEN "try" ELSE "slow"]
              /\ kind' = [kind EXCEPT ![t] = k]
              /\ UNCHANGED holding
    /\ UNCHANGED <<sleepers, waitVars, semLock, state, sigVars, ups>>

(* "decl count; js": the permit is taken unless the count went negative.   *)
Decrement(t, k) ==
    /\ pc[t] = "out"
    /\ t \notin holding
    /\ count' = count - 1
    /\ IF count' >= 0
         THEN holding' = holding \union {t} /\ UNCHANGED <<pc, kind>>
         ELSE /\ pc' = [pc EXCEPT ![t] = IF k = "trylock" THEN "try" ELSE "slow"]
              /\ kind' = [kind EXCEPT ![t] = k]
              /\ UNCHANGED holding
    /\ UNCHANGED <<sleepers, waitVars, semLock, state, sigVars, ups>>

Down(t)              == Decrement(t, "down")
DownInterruptible(t) == Decrement(t, "interruptible")
DownTrylock(t)       == Decrement(t, "trylock")

(* Mutant: "jl" for "jle".                                                 *)
UpBelowZero(t) ==
    /\ pc[t] = "out"
    /\ \/ t \in holding /\ holding' = holding \ {t} /\ UNCHANGED ups
       \/ t \notin holding /\ ups < MaxUps /\ ups' = ups + 1 /\ UNCHANGED holding
    /\ count' = count + 1
    /\ pc' = [pc EXCEPT ![t] = IF count' < 0 THEN "wake" ELSE "out"]
    /\ UNCHANGED <<sleepers, waitVars, semLock, kind, state, sigVars>>

(* "incl count; jle": wake somebody up if the count was negative.          *)
Up(t) ==
    /\ pc[t] = "out"
    /\ \/ t \in holding /\ holding' = holding \ {t} /\ UNCHANGED ups
       \/ t \notin holding /\ ups < MaxUps /\ ups' = ups + 1 /\ UNCHANGED holding
    /\ count' = count + 1
    /\ pc' = [pc EXCEPT ![t] = IF count' <= 0 THEN "wake" ELSE "out"]
    /\ UNCHANGED <<sleepers, waitVars, semLock, kind, state, sigVars>>

(***************************************************************************)
(* __down() and __down_interruptible().                                    *)
(***************************************************************************)

(* tsk->state = ...; add_wait_queue_exclusive(): to the tail of the queue. *)
(* Nobody can tell the new state before the entry is on the queue, except  *)
(* a signal, which is then seen by the test under semaphore_lock.          *)
AddWaitQueue(t) ==
    /\ pc[t] = "slow"
    /\ wqLock = None
    /\ wait' = Append(wait, t)
    /\ state' = [state EXCEPT ![t] = SleepState(t)]
    /\ pc' = [pc EXCEPT ![t] = "enter"]
    /\ UNCHANGED <<semVars, semLock, wqLock, pos, kind, sigVars, ghosts>>

(* The region under semaphore_lock: give up on a signal, take the permit,  *)
(* or stay the one registered sleeper.  "s" is the local sleepers, which   *)
(* the first pass has incremented.                                         *)
Contend(t) ==
    /\ pc[t] \in {"enter", "retry"}
    /\ semLock = None
    /\ LET s == IF pc[t] = "enter" THEN sleepers + 1 ELSE sleepers IN
         \/ /\ kind[t] = "interruptible" /\ sig[t]
            /\ sleepers' = 0
            /\ count' = count + s
            /\ pc' = [pc EXCEPT ![t] = "leave"]
            /\ UNCHANGED holding
         \/ /\ ~(kind[t] = "interruptible" /\ sig[t])
            /\ count' = count + (s - 1)
            /\ IF count' >= 0
                 THEN /\ sleepers' = 0
                      /\ holding' = holding \union {t}
                      /\ pc' = [pc EXCEPT ![t] = "leave"]
                 ELSE /\ sleepers' = 1
                      /\ pc' = [pc EXCEPT ![t] = "sched"]
                      /\ UNCHANGED holding
    /\ UNCHANGED <<waitVars, semLock, kind, state, sigVars, ups>>

(* schedule() under runqueue_lock: off the run queue unless woken already. *)
(* Its "case TASK_INTERRUPTIBLE" does not match TASK_INTERRUPTIBLE with    *)
(* TASK_EXCLUSIVE, so a pending signal does not keep the task running.     *)
Schedule(t) ==
    /\ pc[t] = "sched"
    /\ pc' = [pc EXCEPT ![t] = IF state[t] = "RUNNING" THEN "woken" ELSE "asleep"]
    /\ UNCHANGED <<semVars, waitVars, semLock, kind, state, sigVars, ghosts>>

(* schedule() returned: tsk->state is set again before the next pass.      *)
SetState(t) ==
    /\ pc[t] = "woken"
    /\ state' = [state EXCEPT ![t] = SleepState(t)]
    /\ pc' = [pc EXCEPT ![t] = "retry"]
    /\ UNCHANGED <<semVars, waitVars, semLock, kind, sigVars, ghosts>>

(* remove_wait_queue(): list_del() of the task's entry.                    *)
RemoveWaitQueue(t) ==
    /\ wqLock = None
    /\ \E i \in 1..Len(wait) :
         /\ wait[i] = t
         /\ wait' = SubSeq(wait, 1, i - 1) \o SubSeq(wait, i + 1, Len(wait))
    /\ UNCHANGED <<wqLock, pos, state>>

(* tsk->state = TASK_RUNNING                                               *)
SetRunning(t) ==
    /\ state' = [state EXCEPT ![t] = "RUNNING"]
    /\ UNCHANGED waitVars

(* Off the queue and running again; __down() dequeues before it sets the   *)
(* state, __down_interruptible() sets the state before it dequeues.        *)
Leave(t) ==
    /\ \/ /\ pc[t] = "leave"
          /\ pc' = [pc EXCEPT ![t] = "left"]
          /\ UNCHANGED kind
       \/ /\ pc[t] = "left"
          /\ pc' = [pc EXCEPT ![t] = "wake"]
          /\ kind' = [kind EXCEPT ![t] = "none"]
    /\ IF (pc[t] = "leave") = (kind[t] = "down")
         THEN RemoveWaitQueue(t)
         ELSE SetRunning(t)
    /\ UNCHANGED <<semVars, semLock, sigVars, ghosts>>

(***************************************************************************)
(* __down_trylock(): put back our decrement and the sleepers'; they will   *)
(* register again when they are woken.  The lock is kept over wake_up().   *)
(***************************************************************************)
TrylockForgetsItself(t) == \* mutant: only the sleepers are put back
    /\ pc[t] = "try"
    /\ semLock = None
    /\ count' = count + sleepers
    /\ sleepers' = 0
    /\ IF count' >= 0
         THEN semLock' = t /\ pc' = [pc EXCEPT ![t] = "wake"]
         ELSE pc' = [pc EXCEPT ![t] = "out"] /\ UNCHANGED semLock
    /\ kind' = [kind EXCEPT ![t] = "none"]
    /\ UNCHANGED <<waitVars, state, sigVars, ghosts>>

TrylockNoWake(t) == \* mutant: nobody is woken for the permits put back
    /\ pc[t] = "try"
    /\ semLock = None
    /\ count' = count + sleepers + 1
    /\ sleepers' = 0
    /\ pc' = [pc EXCEPT ![t] = "out"]
    /\ kind' = [kind EXCEPT ![t] = "none"]
    /\ UNCHANGED <<waitVars, semLock, state, sigVars, ghosts>>

TrylockFailed(t) ==
    /\ pc[t] = "try"
    /\ semLock = None
    /\ count' = count + sleepers + 1
    /\ sleepers' = 0
    /\ IF count' >= 0
         THEN semLock' = t /\ pc' = [pc EXCEPT ![t] = "wake"]
         ELSE pc' = [pc EXCEPT ![t] = "out"] /\ UNCHANGED semLock
    /\ kind' = [kind EXCEPT ![t] = "none"]
    /\ UNCHANGED <<waitVars, state, sigVars, ghosts>>

(***************************************************************************)
(* wake_up(): from the head of the queue, wake the first task that is not  *)
(* TASK_RUNNING; being exclusive, it ends the scan.                        *)
(***************************************************************************)

(* wake_up_process(): back on the run queue if it had left it.             *)
WakeUpProcess(u) ==
    /\ state' = [state EXCEPT ![u] = "RUNNING"]
    /\ pc' = [pc EXCEPT ![u] = IF @ = "asleep" THEN "woken" ELSE @]

WakeBegin(t) ==
    /\ pc[t] = "wake"
    /\ wqLock = None
    /\ wqLock' = t
    /\ pos' = 1
    /\ pc' = [pc EXCEPT ![t] = "scan"]
    /\ UNCHANGED <<semVars, wait, semLock, kind, state, sigVars, ghosts>>

WakeSkip(t) ==
    /\ pc[t] = "scan"
    /\ pos <= Len(wait)
    /\ state[wait[pos]] = "RUNNING"
    /\ pos' = pos + 1
    /\ UNCHANGED <<semVars, wait, wqLock, semLock, pc, kind, state, sigVars, ghosts>>

(* The end of the scan returns to the caller: the routine is over, and     *)
(* __down_trylock() drops semaphore_lock.                                  *)
WakeEnd(t) ==
    /\ pc[t] = "scan"
    /\ \/ /\ pos > Len(wait)
          /\ pc' = [pc EXCEPT ![t] = "out"]
          /\ UNCHANGED state
       \/ /\ pos <= Len(wait)
          /\ LET u == wait[pos] IN
               /\ state[u] # "RUNNING"
               /\ state' = [state EXCEPT ![u] = "RUNNING"]
               /\ pc' = [pc EXCEPT ![t] = "out",
                                   ![u] = IF @ = "asleep" THEN "woken" ELSE @]
    /\ wqLock' = None
    /\ pos' = 1
    /\ semLock' = IF semLock = t THEN None ELSE semLock
    /\ UNCHANGED <<semVars, wait, kind, sigVars, ghosts>>

(***************************************************************************)
(* send_sig_info(): sigpending is set, then the state is tested, then the  *)
(* task is woken; the target runs between these steps.  A signal is taken  *)
(* when its target is back in user mode.                                   *)
(***************************************************************************)
SigPending(t) ==
    /\ t \in Killable
    /\ sender[t] = "none"
    /\ ~sig[t]
    /\ sig' = [sig EXCEPT ![t] = TRUE]
    /\ sender' = [sender EXCEPT ![t] = "test"]
    /\ UNCHANGED <<semVars, waitVars, semLock, pc, kind, state, ghosts>>

SigTestExact(t) == \* mutant: "state == TASK_INTERRUPTIBLE", false for exclusive sleepers
    /\ sender[t] = "test"
    /\ sender' = [sender EXCEPT ![t] = "none"]
    /\ UNCHANGED <<semVars, waitVars, semLock, pc, kind, state, sig, ghosts>>

SigTest(t) ==
    /\ sender[t] = "test"
    /\ sender' = [sender EXCEPT ![t] = IF state[t] = "INTERRUPTIBLE" /\ sig[t]
                                         THEN "wake" ELSE "none"]
    /\ UNCHANGED <<semVars, waitVars, semLock, pc, kind, state, sig, ghosts>>

SigWake(t) ==
    /\ sender[t] = "wake"
    /\ sender' = [sender EXCEPT ![t] = "none"]
    /\ WakeUpProcess(t)
    /\ UNCHANGED <<semVars, waitVars, semLock, kind, sig, ghosts>>

(* do_signal() dequeues the signals on the return to user mode.            *)
DeliverSignal(t) ==
    /\ pc[t] = "out"
    /\ sig[t]
    /\ sig' = [sig EXCEPT ![t] = FALSE]
    /\ UNCHANGED <<semVars, waitVars, semLock, pc, kind, state, sender, ghosts>>

(* The steps of a task that is inside a semaphore operation.               *)
Continue(t) ==
    \/ AddWaitQueue(t) \/ Contend(t) \/ Schedule(t) \/ SetState(t) \/ Leave(t)
    \/ TrylockFailed(t) \/ WakeBegin(t) \/ WakeSkip(t) \/ WakeEnd(t)

Next == \E t \in Task :
    \/ Down(t) \/ DownInterruptible(t) \/ DownTrylock(t) \/ Up(t)
    \/ Continue(t)
    \/ SigPending(t) \/ SigTest(t) \/ SigWake(t) \/ DeliverSignal(t)

Spec == Init /\ [][Next]_vars

-----------------------------------------------------------------------------
(***************************************************************************)
(* Properties.                                                             *)
(***************************************************************************)

(* Tasks whose decrement is in "count" but not in "sleepers".              *)
Pending == {t \in Task : pc[t] \in {"slow", "try", "enter"}}

(* Permits nobody holds.                                                   *)
Avail == Val + ups - Cardinality(holding)

Asleep == {t \in Task : pc[t] = "asleep"}

TypeOK ==
    /\ count \in Int
    /\ sleepers \in {0, 1}
    /\ wait \in Seq(Task)
    /\ semLock \in Task \union {None}
    /\ wqLock \in Task \union {None}
    /\ pos \in Nat \ {0}
    /\ pc \in [Task -> Pc]
    /\ kind \in [Task -> Kind]
    /\ state \in [Task -> {"RUNNING", "INTERRUPTIBLE", "UNINTERRUPTIBLE"}]
    /\ sig \in [Task -> BOOLEAN]
    /\ sender \in [Task -> {"none", "test", "wake"}]
    /\ holding \in SUBSET Task
    /\ ups \in 0..MaxUps

(* The two-way counter: whatever the fast paths do while a contention      *)
(* routine runs, "count" is the free permits less one for every task that  *)
(* has decremented and not registered, less the registered sleepers.       *)
Accounting == count = Avail - Cardinality(Pending) - sleepers

(* No more tasks hold a permit than permits were given: with Val = 1 and   *)
(* MaxUps = 0 the critical sections of down()/up() exclude one another.    *)
MutualExclusion == Cardinality(holding) <= Val + ups

(* "we cannot lose wakeup events": once nothing is under way and somebody  *)
(* sleeps, no permit is free, and the count is negative, so that the next  *)
(* up() will take its slow path and wake somebody.                         *)
NoLostWakeup ==
    (Asleep # {} /\ \A t \in Task : pc[t] \in {"out", "asleep"})
        => Avail = 0 /\ count < 0

(* A signal wakes a sleeper of down_interruptible() even though schedule() *)
(* does not look at it: while such a task sleeps with a signal pending,    *)
(* send_sig_info() has not finished with it.                               *)
NoLostSignal ==
    \A t \in Asleep : kind[t] = "interruptible" /\ sig[t] => sender[t] # "none"

(* down() and up() implement atomic counting semaphores: a permit is taken *)
(* in the step whose result on "count" is not negative.                    *)
Abstract == INSTANCE CountingSemaphore
                WITH value <- count + Cardinality(Pending) + sleepers,
                     owners <- holding
ImplementsCountingSemaphore == Abstract!Spec

(* The scheduler runs every runnable task, and send_sig_info() completes.  *)
Fairness == \A t \in Task : /\ WF_vars(Continue(t))
                            /\ WF_vars(SigTest(t) \/ SigWake(t))

FairSpec == Spec /\ Fairness

(* A free permit does not lie about while tasks wait for one: somebody     *)
(* takes it, or the waiters are gone.                                      *)
FreePermitTaken ==
    (Avail > 0 /\ Asleep # {}) ~> (Avail = 0 \/ Asleep = {})
=============================================================================
