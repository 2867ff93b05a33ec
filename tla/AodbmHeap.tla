------------------------------- MODULE AodbmHeap -------------------------------
(***************************************************************************)
(* Memory: nodes that malloc gives and free takes back, and structures     *)
(* with fields, one function for each field.                               *)
(***************************************************************************)
EXTENDS FiniteSets

CONSTANTS
    Node,   \* the nodes malloc can give
    NULL

ASSUME HeapAssumption == IsFiniteSet(Node) /\ NULL \notin Node

(* A field of a structure that is allocated, and of one that is freed.     *)
Put(f, x, y) == [z \in DOMAIN f \cup {x} |-> IF z = x THEN y ELSE f[z]]
Drop(f, x)   == [z \in DOMAIN f \ {x} |-> f[z]]
=============================================================================
