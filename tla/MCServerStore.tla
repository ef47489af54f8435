---------------------------- MODULE MCServerStore ----------------------------
(* The certificate store with a few names, for TLC. *)
EXTENDS ServerStore, TLC

(* The threads are interchangeable. *)
ThreadSymmetry == Permutations(Threads)
==============================================================================
