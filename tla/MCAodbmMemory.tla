---------------------------- MODULE MCAodbmMemory ----------------------------
(***************************************************************************)
(* Strings, ropes, lists and the bytes of the file for TLC.  A behaviour   *)
(* is about one of the four, which part names; the others stay as they     *)
(* begin.                                                                  *)
(***************************************************************************)
EXTENDS AodbmData, AodbmBlocks, AodbmRope, AodbmList, TLC

VARIABLE part

Signed == -1..1

(* An empty key and value, and bytes that look like blocks. *)
Records == {[key |-> << >>, val |-> << >>], [key |-> <<118>>, val |-> <<100, 0>>]}

MemoryInit == /\ part \in {"strings", "ropes", "lists", "blocks"}
              /\ DataInit /\ RopeInit /\ Init /\ BlocksInit

MemoryNext == /\ \/ /\ part = "strings" /\ DataNext
                    /\ UNCHANGED <<ropeVars, vars, blocksVars>>
                 \/ /\ part = "ropes" /\ RopeNext
                    /\ UNCHANGED <<data, vars, blocksVars>>
                 \/ /\ part = "lists" /\ Next
                    /\ UNCHANGED <<data, ropeVars, blocksVars>>
                 \/ /\ part = "blocks" /\ BlocksNext
                    /\ UNCHANGED <<data, ropeVars, vars>>
              /\ UNCHANGED part

MemorySpec == MemoryInit /\ [][MemoryNext]_<<part, data, ropeVars, vars, blocksVars>>

(* Nothing tells nodes, or ropes, or lists, apart. *)
ChainSymmetry == Permutations(Node) \cup Permutations(Rope) \cup Permutations(List)
=============================================================================
