---------------------------- MODULE MCDescriptors ----------------------------
(* A small process: two alive threads, the report and the clean thread.    *)
EXTENDS Descriptors, TLC

AliveSymmetry == Permutations(Alive)
==============================================================================
