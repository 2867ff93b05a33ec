----------------------------- MODULE MCAodbmPython -----------------------------
(* Instances of AodbmPython for TLC. *)
EXTENDS AodbmPython, TLC

(* Nothing tells threads, objects, iterators or keys apart. *)
PythonSymmetry == Permutations(Thread) \cup Permutations(Object)
                  \cup Permutations(Iterator) \cup Permutations(Key)

(* Threads that share objects interleave more, over fewer versions. *)
SharedVersions == shared => Len(map) <= 2
=============================================================================
