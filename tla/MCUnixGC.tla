------------------------------ MODULE MCUnixGC ------------------------------
(***************************************************************************)
(* Symmetry of sockets and processes.                                      *)
(***************************************************************************)
EXTENDS UnixGC, TLC

SockSymmetry == Permutations(Sock) \cup Permutations(Task)
=============================================================================
