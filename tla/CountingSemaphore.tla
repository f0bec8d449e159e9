------------------------- MODULE CountingSemaphore -------------------------
(***************************************************************************)
(* What down() and up() promise: a counting semaphore in which taking a    *)
(* permit is one atomic step that needs a permit to be there.  A task may  *)
(* also give a permit it never took (DECLARE_MUTEX_LOCKED semaphores are   *)
(* used that way, to wait for a completion).                               *)
(***************************************************************************)
EXTENDS Integers

CONSTANTS Task, \* the tasks that use the semaphore
          Val   \* the count given to sema_init()

VARIABLES value,  \* permits nobody holds
          owners  \* tasks that hold a permit

vars == <<value, owners>>

Init == value = Val /\ owners = {}

Acquire(t) ==
    /\ value > 0
    /\ t \notin owners
    /\ value' = value - 1
    /\ owners' = owners \union {t}

Release(t) ==
    /\ value' = value + 1
    /\ owners' = owners \ {t}

Next == \E t \in Task : Acquire(t) \/ Release(t)

Spec == Init /\ [][Next]_vars
=============================================================================
