----------------------------- MODULE MCSysVSem -----------------------------
(***************************************************************************)
(* Menus of operations for the runs on System V semaphores.                *)
(***************************************************************************)
EXTENDS SysVSem, TLC

ProcSymmetry == Permutations(Proc)

Op(s, n)     == [num |-> s, op |-> n, undo |-> FALSE, nowait |-> FALSE]
UndoOp(s, n) == [Op(s, n) EXCEPT !.undo = TRUE]
Nowait(s, n) == [Op(s, n) EXCEPT !.nowait = TRUE]

(* Take and give back under SEM_UNDO, try, wait for zero, and an array     *)
(* that takes two one by one, so that it blocks with one operation         *)
(* performed, and while a process that takes one could go on.              *)
OneMenu == {<<UndoOp(0, -1)>>, <<UndoOp(0, 1)>>, <<Nowait(0, -1)>>, <<Op(0, 0)>>,
            <<UndoOp(0, -1), Op(0, -1)>>}
=============================================================================
