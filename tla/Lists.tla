------------------------------- MODULE Lists -------------------------------
(***************************************************************************)
(* The doubly linked lists of linux/list.h as sequences.                   *)
(***************************************************************************)
EXTENDS Integers, Sequences

(* list_del() of every entry that is in T, in a walk down the list.        *)
Without(s, T) ==
    LET kept[i \in 0..Len(s)] ==
            IF i = 0 THEN <<>>
            ELSE IF s[i] \in T THEN kept[i-1] ELSE Append(kept[i-1], s[i])
    IN  kept[Len(s)]
=============================================================================
