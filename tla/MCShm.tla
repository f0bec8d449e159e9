-------------------------------- MODULE MCShm --------------------------------
(***************************************************************************)
(* Symmetry of processes and of the addresses of segments.                 *)
(***************************************************************************)
EXTENDS Shm, TLC

ShmSymmetry == Permutations(Proc) \cup Permutations(Seg)
=============================================================================
