------------------------------ MODULE MCLocks ------------------------------
(***************************************************************************)
(* Two threads, which share their files, and another process.              *)
(***************************************************************************)
EXTENDS Locks

CONSTANTS t1, t2, p3

MCProc == {t1, t2, p3}
MCFiles == [p \in MCProc |-> IF p = p3 THEN "b" ELSE "a"]

FL(t) == <<"flock", t, 0, 3>>
MCCalls == [p \in MCProc |->
    CASE p = t1 -> {<<"posix", "W", 0, 0>>, <<"posix", "W", 1, 1>>, <<"posix", "R", 0, 2>>, <<"posix", "U", 1, 2>>,
                    FL("R"), FL("W")}
      [] p = t2 -> {<<"posix", "W", 1, 1>>, <<"posix", "W", 2, 2>>, FL("W"), FL("U")}
      [] p = p3 -> {<<"posix", "R", 2, 2>>, <<"io", "W", 0, 2>>, FL("R"), FL("W")}]

(* One process, ranges up to the end of the file.                          *)
EofCalls == [p \in {t1} |-> {<<"posix", "R", 1, 1>>, <<"posix", "R", 0, 3>>, <<"posix", "U", 1, 2>>}]
EofFiles == [p \in {t1} |-> "a"]
=============================================================================
