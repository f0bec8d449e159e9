------------------------------ MODULE MCSemOps ------------------------------
(***************************************************************************)
(* Sequences of calls of try_atomic_semop() on one set, checked against    *)
(* what sys_semop() promises.                                              *)
(***************************************************************************)
EXTENDS SemOps, FiniteSets

CONSTANTS Pid,    \* the callers; a pid is never 0
          Ops     \* the arrays of operations they pass

ASSUME OpsAssumption == Ops \subseteq Seq(Sembuf)

(* Every array of one or two operations on values up to 1.                 *)
SmallOp == [num : Sem, op : -1..1, undo : BOOLEAN, nowait : BOOLEAN]
SmallOps == {<<o>> : o \in SmallOp} \union {<<o1, o2>> : o1, o2 \in SmallOp}

VARIABLE store \* semval and sempid of the set, semadj of every caller

StoreInit ==
    store \in [val : [Sem -> 0..SEMVMX],
               pid : {[s \in Sem |-> <<NoPid, NoPid>>]},
               adj : {[p \in Pid |-> [s \in Sem |-> 0]]}]

Store(p) == [val |-> store.val, pid |-> store.pid, adj |-> store.adj[p]]

Call(ops, p, doUndo) ==
    LET r == TryAtomicSemop(Store(p), ops, p, doUndo) IN
    store' = [val |-> r.val, pid |-> r.pid, adj |-> [store.adj EXCEPT ![p] = r.adj]]

StoreNext == \E ops \in Ops, p \in Pid, doUndo \in BOOLEAN : Call(ops, p, doUndo)

StoreSpec == StoreInit /\ [][StoreNext]_store

-----------------------------------------------------------------------------
(* The reference: from the values v, operation i finds the values left by  *)
(* those before it.                                                        *)
Before(v, ops, i, s) == v[s] + Sums(Adds(ops, s))[i - 1]

Stops(v, ops, i) ==
    LET found == Before(v, ops, i, ops[i].num) IN
    \/ ops[i].op = 0 /\ found # 0
    \/ found + ops[i].op \notin 0..SEMVMX

FirstStop(v, ops, k) == Stops(v, ops, k) /\ \A j \in 1..(k-1) : ~Stops(v, ops, j)

Expected(v, ops) ==
    IF \A i \in DOMAIN ops : ~Stops(v, ops, i) THEN "ok"
    ELSE LET k == CHOOSE i \in DOMAIN ops : FirstStop(v, ops, i)
         IN  IF ops[k].op # 0 /\ Before(v, ops, k, ops[k].num) + ops[k].op > SEMVMX THEN "ERANGE"
             ELSE IF ops[k].nowait THEN "EAGAIN" ELSE "block"

(* "Determine whether a sequence of semaphore operations would succeed all *)
(* at once": try_atomic_semop() changes the values and the adjustments by  *)
(* the whole array or by nothing, and its answer is that of the first      *)
(* operation that cannot be performed after the ones before it.            *)
AllOrNothing ==
    \A ops \in Ops, p \in Pid, doUndo \in BOOLEAN :
        LET r    == TryAtomicSemop(Store(p), ops, p, doUndo)
            done == r.result = "ok" /\ ~doUndo
        IN  /\ r.result = Expected(store.val, ops)
            /\ \A s \in Sem :
                 /\ r.val[s] = store.val[s] + (IF done THEN Delta(ops, s) ELSE 0)
                 /\ r.adj[s] = IF done THEN Short(store.adj[p][s] - UndoDelta(ops, s))
                                       ELSE store.adj[p][s]

(* "pid of last operation" (struct sem): GETPID reports the caller for     *)
(* every semaphore of an array that was performed, and an array that was   *)
(* not performed leaves it alone.  That is true only of semaphores the     *)
(* array names once and whose wait for zero did not fail: sempid has room  *)
(* for two pids, and the failed wait is undone though it was not done.     *)
Named(ops, s) == {i \in DOMAIN ops : ops[i].num = s}

PidOfLastOperation ==
    \A ops \in Ops, p \in Pid, doUndo \in BOOLEAN :
        LET r == TryAtomicSemop(Store(p), ops, p, doUndo)
        IN  \A s \in Sem :
              IF r.result = "ok" /\ ~doUndo /\ Named(ops, s) # {}
                THEN LastPid(r.pid[s]) = p
                ELSE Cardinality(Named(ops, s)) <= 1
                     /\ (\A i \in Named(ops, s) : ops[i].op # 0 \/ store.val[s] = 0)
                        => LastPid(r.pid[s]) = LastPid(store.pid[s])
=============================================================================
