------------------------------- MODULE MCPipe -------------------------------
(***************************************************************************)
(* Symmetry of the processes on a pipe.                                    *)
(***************************************************************************)
EXTENDS Pipe, TLC

ProcSymmetry == Permutations(Proc)
=============================================================================
