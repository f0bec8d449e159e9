---------------------------- MODULE MCMsgQueue -----------------------------
(***************************************************************************)
(* Menus for the runs on message queues.                                   *)
(***************************************************************************)
EXTENDS MsgQueue, TLC

ProcSymmetry == Permutations(Proc)

Snd(type, size)   == [type |-> type, size |-> size, nowait |-> FALSE]
Rcv(msgtyp, size) == [msgtyp |-> msgtyp, except |-> FALSE, size |-> size,
                      noerror |-> FALSE, nowait |-> FALSE]

(* Two types and three sizes, an empty message among them; receives of any *)
(* type, of one type, of all but one, of the least; too small or cut off.  *)
SmallSnd == {Snd(1, 1), Snd(2, 2), [Snd(2, 0) EXCEPT !.nowait = TRUE]}
SmallRcv == {Rcv(0, 2), Rcv(2, 1), [Rcv(2, 1) EXCEPT !.except = TRUE, !.nowait = TRUE],
             [Rcv(-2, 0) EXCEPT !.noerror = TRUE]}

(* Three types: what the search finds.                                     *)
TypedSnd == {Snd(1, 1), Snd(2, 1), Snd(3, 1)}
TypedRcv == {Rcv(0, 1), Rcv(2, 1), Rcv(-2, 1), Rcv(-3, 1)}
=============================================================================
