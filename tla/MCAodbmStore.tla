---------------------------- MODULE MCAodbmStore ----------------------------
(* Instances of AodbmStore for TLC. *)
EXTENDS AodbmStoreInvariant, TLC

(* Threads only ever act through the mutexes and are interchangeable. *)
ThreadSymmetry == Permutations(Thread)
=============================================================================
