---------------------------- MODULE MCEchoServer ----------------------------
(* The symmetry of the client processes, for the runs without liveness. *)
EXTENDS EchoServer

ClientSymmetry == Permutations(Clients)
=============================================================================
