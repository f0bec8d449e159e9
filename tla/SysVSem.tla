------------------------------ MODULE SysVSem ------------------------------
(***************************************************************************)
(* System V semaphore sets (ipc/sem.c): processes that create, operate on, *)
(* set and remove one slot of the id table, sleep on it, are interrupted   *)
(* by signals and exit with undo adjustments.                              *)
(*                                                                         *)
(* sem_lock() is one spinlock for the whole table, taken here to exclude   *)
(* (module IpcIds is about the lock itself), so a step is the code between *)
(* taking and dropping it.  Inside a call it is dropped to sleep, to       *)
(* allocate an undo structure and to copy the values of SETALL, and those  *)
(* are where processes interleave.                                         *)
(*                                                                         *)
(* Left out: permissions and IPC_SET, the times, the commands that only    *)
(* read, and sempid, which SemOps treats.                                  *)
(***************************************************************************)
EXTENDS SemOps, FiniteSets, Functions, Lists

CONSTANTS Proc,     \* the processes
          Menu,     \* the arrays of operations they pass to semop()
          SetVals,  \* the values they pass to SETVAL and SETALL
          MaxSeq,   \* bound on the sequence numbers, i.e. on sets created
          Signals,  \* whether sleepers may be sent signals
          Exits     \* whether processes may exit

ASSUME ProcAssumption == IsFiniteSet(Proc)
(* sys_semop() refuses operations on semaphores the set does not have,     *)
(* SETVAL and SETALL values out of range.                                  *)
ASSUME MenuAssumption == Menu \subseteq Seq(Sembuf) /\ SetVals \subseteq 0..SEMVMX /\ MaxSeq \in Nat

NoSet == -1  \* an empty slot; also the semid of an invalidated undo

VARIABLES semid,   \* the id of the set in the slot, or NoSet
          seq,     \* sem_ids.seq, the sequence number of the next set
          val,     \* sma->sem_base[].semval
          pend,    \* sma->sem_pending, from head to tail
          pc,      \* where each process is
          arg,     \* its call: the id and the operations or values
          status,  \* queue.status of a sleeper
          un,      \* the semid of its undo structure
          adj,     \* and its semadj
          sig,     \* signal_pending()
          ledger,  \* what completed calls add up to, for each semaphore
          owed     \* what each process's completed SEM_UNDO calls add up to,
                   \* modulo the width of a semadj

vars == <<semid, seq, val, pend, pc, arg, status, un, adj, sig, ledger, owed>>

Zero  == [s \in Sem |-> 0]
NoArg == [id |-> NoSet, ops |-> <<>>, vals |-> Zero]

(* "user": in user mode.  "alloc": in alloc_undo(), "setall": in SETALL,   *)
(* both with the lock dropped.  "sleep": TASK_INTERRUPTIBLE, in schedule().*)
(* "awake": schedule() returned, about to take the lock.                   *)
Pc == {"user", "alloc", "setall", "sleep", "awake", "dead"}

(* queue.status: "retry" is 1, "ok" is 0.                                  *)
Status == {"none", "EINTR", "retry", "ok", "EAGAIN", "ERANGE", "EIDRM"}

Queued(p) == p \in Range(pend) \* queue.prev != NULL

(***************************************************************************)
(* update_queue(): the part of the state it works on is a record S.        *)
(***************************************************************************)
Try(S, p, ops, doUndo) ==
    TryAtomicSemop([val |-> S.val, pid |-> [s \in Sem |-> <<NoPid, NoPid>>], adj |-> S.adj[p]],
                   ops, p, doUndo)

Commit(S, p, r) == [S EXCEPT !.val = r.val, !.adj[p] = r.adj]

(* One pass of the loop: leave a process that was told to retry to itself, *)
(* tell the first one that could decrease a value to retry, perform the    *)
(* operations of the others.                                               *)
(* Mutant: do_undo is not asked for, a decrease is performed when probed.  *)
ProbePerforms(S, p) == Try(S, p, arg[p].ops, FALSE)

Probe(S, p) == Try(S, p, arg[p].ops, Decrease(arg[p].ops))

Visit(S, p) ==
    LET r == Probe(S, p)
        T == Commit(S, p, r)
    IN  IF S.stop \/ S.status[p] = "retry" THEN [S EXCEPT !.stop = TRUE]
        ELSE IF r.result = "block" THEN T
        ELSE IF r.result = "ok" /\ Decrease(arg[p].ops)
          THEN [T EXCEPT !.status[p] = "retry", !.woken = @ \union {p}, !.stop = TRUE]
          ELSE [T EXCEPT !.status[p] = r.result,
                         !.woken = @ \union {p},
                         !.pend = Without(@, {p})]

UpdateQueue(S) ==
    LET visited[i \in 0..Len(S.pend)] ==
          IF i = 0 THEN S ELSE Visit(visited[i-1], S.pend[i])
    IN  visited[Len(S.pend)]

(* Mutant: the queue is looked at after decreases only.                    *)
FinishDecrease(S, ops) == IF Decrease(ops) THEN UpdateQueue(S) ELSE S

(* "update:", at the end of sys_semop().                                   *)
Finish(S, ops) == IF Alter(ops) THEN UpdateQueue(S) ELSE S

(* Mutant: everybody goes to the tail.                                     *)
EnqueueLast(q, p, ops) == Append(q, p)

(* Processes that only wait for zero go to the head of the queue.          *)
Enqueue(q, p, ops) == IF Alter(ops) THEN Append(q, p) ELSE <<p>> \o q

(* sem_revalidate(), for p that had dropped the lock in its call.          *)
Revalidate(p) == semid = arg[p].id

State == [val |-> val, adj |-> adj, pend |-> pend, status |-> status,
          woken |-> {}, stop |-> FALSE]

(* wake_up_process() for the processes the record says were woken, and the *)
(* new position of the process that takes the step.                        *)
Run(S, p, at) ==
    [q \in Proc |-> IF q = p THEN at
                    ELSE IF q \in S.woken /\ pc[q] = "sleep" THEN "awake" ELSE pc[q]]

Install(S) == /\ val' = S.val
              /\ adj' = S.adj
              /\ pend' = S.pend

(* Back to user mode, where a pending signal is taken.                     *)
Return(S, p) ==
    /\ pc' = Run(S, p, "user")
    /\ status' = [S.status EXCEPT ![p] = "none"]
    /\ arg' = [arg EXCEPT ![p] = NoArg]
    /\ sig' = [sig EXCEPT ![p] = FALSE]

(* A call of p that returned 0, seen from user mode.                       *)
Record(p, ops) ==
    /\ ledger' = [s \in Sem |-> ledger[s] + Delta(ops, s)]
    /\ owed' = [owed EXCEPT ![p] = [s \in Sem |-> Short(@[s] + UndoDelta(ops, s))]]

UNCHANGED_ghosts == UNCHANGED <<ledger, owed>>

-----------------------------------------------------------------------------
(* newary(): a new set of zeros in the free slot.                          *)
Semget(p) ==
    /\ pc[p] = "user"
    /\ semid = NoSet
    /\ seq <= MaxSeq
    /\ semid' = seq
    /\ seq' = seq + 1
    /\ val' = Zero
    /\ pend' = <<>>
    /\ ledger' = Zero
    /\ owed' = [q \in Proc |-> Zero]
    /\ UNCHANGED <<pc, arg, status, un, adj, sig>>

(* sys_semop() from try_atomic_semop() on, with the lock held: S is the    *)
(* state to try it in.                                                     *)
Attempt(S, p, a) ==
    LET r == Try(S, p, a.ops, FALSE)
        T == Commit(S, p, r)
        U == Finish(T, a.ops)
    IN  IF r.result # "block"
          THEN /\ Install(U)
               /\ Return(U, p)
               /\ IF r.result = "ok" THEN Record(p, a.ops) ELSE UNCHANGED_ghosts
          ELSE /\ Install([T EXCEPT !.pend = Enqueue(@, p, a.ops)])
               /\ pc' = [pc EXCEPT ![p] = IF sig[p] THEN "awake" ELSE "sleep"]
               /\ status' = [S.status EXCEPT ![p] = "EINTR"]
               /\ arg' = [arg EXCEPT ![p] = a]
               /\ UNCHANGED <<sig, ledger, owed>>

(* sys_semop() up to there: the id is valid; without the undo structure it *)
(* needs, the lock is dropped to allocate one.  The walk over the list     *)
(* frees the invalidated structure of a removed set.                       *)
SemopOf(p, ops) ==
    /\ pc[p] = "user"
    /\ semid # NoSet
    /\ LET a == [NoArg EXCEPT !.id = semid, !.ops = ops] IN
       IF Undos(ops) /\ un[p] # semid
         THEN /\ pc' = [pc EXCEPT ![p] = "alloc"]
              /\ arg' = [arg EXCEPT ![p] = a]
              /\ un' = [un EXCEPT ![p] = NoSet]
              /\ UNCHANGED <<val, adj, pend, status, sig, ledger, owed>>
         ELSE Attempt(State, p, a) /\ UNCHANGED un
    /\ UNCHANGED <<semid, seq>>

Semop(p) == \E ops \in Menu : SemopOf(p, ops)

(* alloc_undo() after kmalloc(), and the rest of sys_semop(): no memory,   *)
(* the set is gone or another one took its place, or go on.                *)
AllocUndo(p) ==
    /\ pc[p] = "alloc"
    /\ \/ /\ Return(State, p)
          /\ UNCHANGED <<val, adj, pend, un, ledger, owed>>
       \/ /\ Revalidate(p)
          /\ un' = [un EXCEPT ![p] = semid]
          /\ Attempt([State EXCEPT !.adj[p] = Zero], p, arg[p])
    /\ UNCHANGED <<semid, seq>>

(* sys_semop() after schedule().                                           *)
Resume(p) ==
    /\ pc[p] = "awake"
    /\ LET ops == arg[p].ops
           r   == Try(State, p, ops, FALSE)
           gone == [State EXCEPT !.pend = Without(@, {p})]
       IN
       \/ /\ semid = NoSet                    \* BUG() unless the status is EIDRM
          /\ Install(State)
          /\ IF status[p] = "EIDRM" THEN Return(State, p)
             ELSE /\ pc' = [pc EXCEPT ![p] = "dead"]
                  /\ UNCHANGED <<status, arg, sig>>
          /\ UNCHANGED_ghosts
       \/ /\ semid # NoSet
          /\ status[p] = "retry"
          /\ r.result = "block"               \* sleep again
          /\ Install(Commit(State, p, r))
          /\ status' = [status EXCEPT ![p] = "EINTR"]
          /\ pc' = [pc EXCEPT ![p] = IF sig[p] THEN "awake" ELSE "sleep"]
          /\ UNCHANGED <<arg, sig, ledger, owed>>
       \/ /\ semid # NoSet
          /\ status[p] = "retry"
          /\ r.result # "block"
          /\ LET U == Finish(Commit(gone, p, r), ops) IN Install(U) /\ Return(U, p)
          /\ IF r.result = "ok" THEN Record(p, ops) ELSE UNCHANGED_ghosts
       \/ /\ semid # NoSet
          /\ status[p] # "retry"
          /\ Queued(p)                        \* interrupted
          /\ LET U == Finish(gone, ops) IN Install(U) /\ Return(U, p)
          /\ UNCHANGED_ghosts
       \/ /\ semid # NoSet
          /\ status[p] # "retry"
          /\ ~Queued(p)                       \* done by update_queue(), or removed
          /\ Install(State)
          /\ Return(State, p)
          /\ IF status[p] = "ok" /\ semid = arg[p].id
               THEN Record(p, ops) ELSE UNCHANGED_ghosts
    /\ UNCHANGED <<semid, seq, un>>

(* A signal for a process inside semop(): it wakes a sleeper, and          *)
(* schedule() does not sleep with one pending.                             *)
Signal(p) ==
    /\ Signals
    /\ pc[p] \in {"alloc", "sleep", "awake"}
    /\ ~sig[p]
    /\ sig' = [sig EXCEPT ![p] = TRUE]
    /\ pc' = [pc EXCEPT ![p] = IF @ = "sleep" THEN "awake" ELSE @]
    /\ UNCHANGED <<semid, seq, val, pend, arg, status, un, adj, ledger, owed>>

(* Calls that update_queue() performed and that have not returned yet.     *)
Done == {p \in Proc : pc[p] \in {"sleep", "awake"} /\ status[p] = "ok" /\ arg[p].id = semid}

Unreturned(s) == SumFunctionOnSet([p \in Proc |-> Delta(arg[p].ops, s)], Done)

UndoUnreturned(p, s) == IF p \in Done THEN UndoDelta(arg[p].ops, s) ELSE 0

(* Mutant: SETVAL and SETALL leave the adjustments alone.                  *)
ForgetNothing(ss) == adj

(* The values of vals become those of the semaphores in ss: SETVAL and     *)
(* SETALL.  Every undo structure of the set forgets them.                  *)
Forget(ss) == [q \in Proc |-> [s \in Sem |->
                 IF un[q] = semid /\ s \in ss THEN 0 ELSE adj[q][s]]]

SetValues(p, ss, vals) ==
    LET S == [State EXCEPT !.val = [s \in Sem |-> IF s \in ss THEN vals[s] ELSE val[s]],
                           !.adj = Forget(ss)]
        U == UpdateQueue(S)
    IN  /\ Install(U)
        /\ Return(U, p)
        /\ ledger' = [s \in Sem |-> IF s \in ss THEN vals[s] - Unreturned(s) ELSE ledger[s]]
        /\ owed' = [q \in Proc |-> [s \in Sem |->
                      IF s \in ss THEN Short(-UndoUnreturned(q, s)) ELSE owed[q][s]]]

(* semctl_main(), SETVAL.                                                  *)
Setval(p) ==
    /\ pc[p] = "user"
    /\ semid # NoSet
    /\ \E s \in Sem, v \in SetVals : SetValues(p, {s}, [Zero EXCEPT ![s] = v])
    /\ UNCHANGED <<semid, seq, un>>

(* semctl_main(), SETALL: the lock is dropped to copy the values in ...    *)
SetallCopy(p) ==
    /\ pc[p] = "user"
    /\ semid # NoSet
    /\ pc' = [pc EXCEPT ![p] = "setall"]
    /\ \E vals \in [Sem -> SetVals] :
         arg' = [arg EXCEPT ![p] = [NoArg EXCEPT !.id = semid, !.vals = vals]]
    /\ UNCHANGED <<semid, seq, val, pend, status, un, adj, sig, ledger, owed>>

(* ... which may fail, and sem_revalidate() looks whether the set is still *)
(* there.                                                                  *)
SetallStore(p) ==
    /\ pc[p] = "setall"
    /\ \/ /\ Return(State, p)
          /\ UNCHANGED <<val, adj, pend, ledger, owed>>
       \/ /\ Revalidate(p)
          /\ SetValues(p, Sem, arg[p].vals)
    /\ UNCHANGED <<semid, seq, un>>

(* Mutant: only the head of the queue is woken.                            *)
ToldFirst == {pend[i] : i \in DOMAIN pend \intersect {1}}

(* freeary(): the undo structures are invalidated, all sleepers are woken. *)
ToldRemoved == Range(pend)

Rmid(p) ==
    /\ pc[p] = "user"
    /\ semid # NoSet
    /\ semid' = NoSet
    /\ un' = [q \in Proc |-> NoSet]
    /\ status' = [q \in Proc |-> IF q \in ToldRemoved THEN "EIDRM" ELSE status[q]]
    /\ pc' = [q \in Proc |-> IF q \in ToldRemoved /\ pc[q] = "sleep" THEN "awake" ELSE pc[q]]
    /\ pend' = <<>>
    /\ val' = Zero                   \* freed, as are the adjustments
    /\ adj' = [q \in Proc |-> Zero]
    /\ ledger' = Zero
    /\ owed' = [q \in Proc |-> Zero]
    /\ UNCHANGED <<seq, arg, sig>>

(* Mutant: not cut off.                                                    *)
AdjustedRaw(p, s) == val[s] + adj[p][s]

(* sem_exit(): the adjustments are made at once, cut off at zero.          *)
Adjusted(p, s) == IF val[s] + adj[p][s] < 0 THEN 0 ELSE val[s] + adj[p][s]

Exit(p) ==
    /\ Exits
    /\ pc[p] = "user"
    /\ LET adjusted == [s \in Sem |-> Adjusted(p, s)]
           U == UpdateQueue([State EXCEPT !.val = adjusted])
       IN  IF semid # NoSet /\ un[p] = semid
             THEN /\ Install([U EXCEPT !.adj[p] = Zero])
                  /\ status' = U.status
                  /\ pc' = Run(U, p, "dead")
                  /\ ledger' = [s \in Sem |-> ledger[s] + adjusted[s] - val[s]]
             ELSE /\ pc' = [pc EXCEPT ![p] = "dead"]
                  /\ UNCHANGED <<val, adj, pend, status, ledger>>
    /\ un' = [un EXCEPT ![p] = NoSet]
    /\ owed' = [owed EXCEPT ![p] = Zero]
    /\ UNCHANGED <<semid, seq, arg, sig>>

Init ==
    /\ semid = NoSet
    /\ seq = 0
    /\ val = Zero
    /\ pend = <<>>
    /\ pc = [p \in Proc |-> "user"]
    /\ arg = [p \in Proc |-> NoArg]
    /\ status = [p \in Proc |-> "none"]
    /\ un = [p \in Proc |-> NoSet]
    /\ adj = [p \in Proc |-> Zero]
    /\ sig = [p \in Proc |-> FALSE]
    /\ ledger = Zero
    /\ owed = [p \in Proc |-> Zero]

Next == \E p \in Proc :
    \/ Semget(p) \/ Semop(p) \/ AllocUndo(p) \/ Resume(p) \/ Signal(p)
    \/ Setval(p) \/ SetallCopy(p) \/ SetallStore(p) \/ Rmid(p) \/ Exit(p)

Spec == Init /\ [][Next]_vars

-----------------------------------------------------------------------------
TypeOK ==
    /\ semid \in {NoSet} \union 0..MaxSeq
    /\ seq \in 0..(MaxSeq + 1)
    /\ val \in [Sem -> Nat]
    /\ pend \in Seq(Proc) /\ \A i, j \in DOMAIN pend : pend[i] = pend[j] => i = j
    /\ pc \in [Proc -> Pc]
    /\ \A p \in Proc : arg[p].id \in {NoSet} \union 0..MaxSeq
    /\ status \in [Proc -> Status]
    /\ un \in [Proc -> {NoSet} \union 0..MaxSeq]
    /\ adj \in [Proc -> [Sem -> -(SEMVMX + 1)..SEMVMX]]
    /\ sig \in [Proc -> BOOLEAN]

(* A semop() that returns 0 has been performed exactly once, and one that  *)
(* fails not at all, whether update_queue() or the process itself did it:  *)
(* the values are what the completed calls add up to.                      *)
Ledger ==
    semid # NoSet => \A s \in Sem : val[s] = ledger[s] + Unreturned(s)

(* sem_exit() will take back exactly what the process did under SEM_UNDO   *)
(* since the value was last set, as far as a short can say.                *)
UndoLedger ==
    semid # NoSet => \A p \in Proc, s \in Sem :
        IF un[p] = semid
          THEN adj[p][s] = Short(-(owed[p][s] + UndoUnreturned(p, s)))
          ELSE owed[p][s] = 0

(* Whoever sleeps can be found: it is on the queue of the set it waits     *)
(* for, and that set has not been removed or replaced.                     *)
NoForgottenSleeper ==
    \A p \in Proc : pc[p] = "sleep" =>
        /\ semid # NoSet /\ semid = arg[p].id
        /\ Queued(p)
        /\ status[p] = "EINTR"

(* "It processes pending operations in a FIFO manner" (sem.c:10-11): the   *)
(* first process on the queue that would change a value is not passed      *)
(* over.  It has been told to retry, or it could not go on now.  That is   *)
(* true when no array that only increases values also waits for zero:      *)
(* update_queue() performs such an array itself and does not look again at *)
(* the processes before it.                                                *)
OnlyAdds(ops) == Alter(ops) /\ ~Decrease(ops)
FirstServed ==
    (\A ops \in Menu : OnlyAdds(ops) => \A i \in DOMAIN ops : ops[i].op # 0) =>
        \A i \in DOMAIN pend :
            Alter(arg[pend[i]].ops) /\ (\A j \in 1..(i - 1) : ~Alter(arg[pend[j]].ops))
                => \/ status[pend[i]] = "retry"
                   \/ Try(State, pend[i], arg[pend[i]].ops, TRUE).result = "block"

(* Processes that only wait for zero never miss it, not even while another *)
(* process has been told to retry: they are queued ahead of it.            *)
NoStaleZeroWaiter ==
    \A p \in Range(pend) :
        ~Alter(arg[p].ops) => \E i \in DOMAIN arg[p].ops : val[arg[p].ops[i].num] # 0

(* sys_semop() asserts with BUG() that a set which is gone when a sleeper  *)
(* has woken up was removed under it.                                      *)
NoBUG ==
    \A p \in Proc : pc[p] = "awake" /\ semid = NoSet => status[p] = "EIDRM"
=============================================================================
