------------------------------- MODULE SemOps -------------------------------
(***************************************************************************)
(* try_atomic_semop() of ipc/sem.c: perform an array of semaphore          *)
(* operations, or undo what was performed of it and say why.               *)
(*                                                                         *)
(* An operation is a record [num, op, undo, nowait]: the semaphore, what   *)
(* is added to it (0: wait for zero), and the flags SEM_UNDO, IPC_NOWAIT.  *)
(* A store is a record [val, pid, adj] of functions on the semaphores of   *)
(* the set: semval, sempid and the caller's undo->semadj.                  *)
(***************************************************************************)
EXTENDS Integers, Sequences

CONSTANTS Sem,    \* the semaphore numbers of a set
          SEMVMX  \* the largest semaphore value

ASSUME SEMVMXAssumption == SEMVMX \in Nat \ {0}

(* struct sembuf                                                           *)
Sembuf == [num : Sem, op : Int, undo : BOOLEAN, nowait : BOOLEAN]

(* semadj is a short and SEMVMX its largest value: adjustments wrap.       *)
Short(n) == ((n + SEMVMX + 1) % (2 * (SEMVMX + 1))) - (SEMVMX + 1)

(* sempid is an int that holds two 16-bit process ids: "<< 16 | pid"       *)
(* pushes one (the older of the two falls out), ">> 16" pops one.          *)
NoPid       == 0
Push(sp, p) == <<sp[2], p>>
Pop(sp)     == <<NoPid, sp[1]>>
LastPid(sp) == sp[2] \* GETPID: sempid & 0xffff

(* One pass of the loop: the operation is performed even if it is then     *)
(* found to block or to overflow; only a failed wait for zero is not.      *)
Perform(st, o, p) ==
    IF o.op = 0 /\ st.val[o.num] # 0
      THEN [st EXCEPT !.result = "block"]
      ELSE LET v == st.val[o.num] + o.op IN
           [st EXCEPT !.val[o.num] = v,
                      !.pid[o.num] = Push(@, p),
                      !.adj[o.num] = IF o.undo THEN Short(@ - o.op) ELSE @,
                      !.result = IF v < 0 THEN "block"
                                 ELSE IF v > SEMVMX THEN "ERANGE" ELSE "ok"]

(* Mutants: the adjustment or the pid is not restored.                     *)
UndoNotAdj(st, o) ==
    [st EXCEPT !.val[o.num] = @ - o.op, !.pid[o.num] = Pop(@)]

UndoNotPid(st, o) ==
    [st EXCEPT !.val[o.num] = @ - o.op,
               !.adj[o.num] = IF o.undo THEN Short(@ + o.op) ELSE @]

(* One pass of the loop at "undo:".                                        *)
Undo(st, o) ==
    [st EXCEPT !.val[o.num] = @ - o.op,
               !.pid[o.num] = Pop(@),
               !.adj[o.num] = IF o.undo THEN Short(@ + o.op) ELSE @]

(* The loops: forth as far as operation i, and the last i operations       *)
(* undone.                                                                 *)
Forth(store, ops, p) ==
    LET forth[i \in 0..Len(ops)] ==
            IF i = 0 THEN [val |-> store.val, pid |-> store.pid, adj |-> store.adj,
                           result |-> "ok", last |-> 0]
            ELSE IF forth[i-1].result # "ok" THEN forth[i-1]
            ELSE [Perform(forth[i-1], ops[i], p) EXCEPT !.last = i]
    IN  forth

Back(end, ops) ==
    LET back[i \in 0..end.last] ==
            IF i = 0 THEN end ELSE Undo(back[i-1], ops[end.last - i + 1])
    IN  back

(* The whole function; "p" is the pid it is given.  The result is "ok",    *)
(* "block" (1: need to sleep), "EAGAIN" or "ERANGE".                       *)
TryAtomicSemop(store, ops, p, doUndo) ==
    LET end == Forth(store, ops, p)[Len(ops)]
        final == IF end.result = "ok" /\ ~doUndo THEN end ELSE Back(end, ops)[end.last]
    IN  [val |-> final.val, pid |-> final.pid, adj |-> final.adj,
         result |-> IF end.result = "block" /\ ops[end.last].nowait
                      THEN "EAGAIN" ELSE end.result]

(* What sys_semop() derives from the array.                                *)
Decrease(ops) == \E i \in DOMAIN ops : ops[i].op < 0
Alter(ops)    == \E i \in DOMAIN ops : ops[i].op # 0
Undos(ops)    == \E i \in DOMAIN ops : ops[i].undo

(* What the first n operations add to semaphore s, and to it under         *)
(* SEM_UNDO; what a successful call adds.                                  *)
Sums(f) == LET sum[i \in 0..Len(f)] == IF i = 0 THEN 0 ELSE sum[i-1] + f[i] IN sum

Adds(ops, s)      == [i \in 1..Len(ops) |-> IF ops[i].num = s THEN ops[i].op ELSE 0]
UndoAdds(ops, s)  == [i \in 1..Len(ops) |-> IF ops[i].num = s /\ ops[i].undo THEN ops[i].op ELSE 0]
Delta(ops, s)     == Sums(Adds(ops, s))[Len(ops)]
UndoDelta(ops, s) == Sums(UndoAdds(ops, s))[Len(ops)]
=============================================================================
