------------------------------ MODULE MCAodbmMmap ------------------------------
(* Instances of AodbmMmap for TLC. *)
EXTENDS AodbmMmap

VARIABLE top  \* the size of the file at which a behaviour stops to append

(* The first page fills up, or the second; a call that has taken rw finds  *)
(* room for its block, so that fairness asks for nothing impossible.       *)
TopInit == /\ MmapInit
           /\ \/ file_size = 1 /\ top = 4
              \/ file_size = 4 /\ top = 7
TopNext == /\ MmapNext
           /\ file_size' <= top
           /\ rw' # rw /\ rw' # NULL => file_size < top
           /\ UNCHANGED top
TopSpec == TopInit /\ [][TopNext]_<<mmapVars, top>> /\ MmapFairness
=============================================================================
