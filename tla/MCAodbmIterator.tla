--------------------------- MODULE MCAodbmIterator ---------------------------
(* Instances of AodbmIterator, and with it of AodbmTree, for TLC.          *)
EXTENDS AodbmIterator

VARIABLE scene  \* what a behaviour is for, chosen at its start

(* The keys a scene stores. *)
UpTo == [deep |-> MaxKey, values |-> 5, still |-> 6, writes |-> 4]

OneValue == {CHOOSE val \in Value : TRUE}

(* Deep trees have one value to a key; values are replaced in smaller      *)
(* ones.  Without iterators, over all trees there are; with an iterator    *)
(* over trees that stay as they are; and with one while others write.      *)
Change == \E key \in 0 .. UpTo[scene] :
             \/ Del(key)
             \/ \E val \in IF scene = "values" THEN Value ELSE OneValue : Set(key, val)

SceneInit == IterInit /\ scene \in DOMAIN UpTo
SceneNext ==
    /\ \/ /\ scene = "still" => over = 0
          /\ Change /\ UNCHANGED iter
       \/ /\ scene \in {"still", "writes"}
          /\ Iterate
    /\ UNCHANGED scene
SceneSpec == SceneInit /\ [][SceneNext]_<<ivars, scene>>

(* What a call does depends on the two trees and on the position on every  *)
(* level, not on where in the file the nodes are.                          *)
SceneView == <<scene, Shape(file, ver), want, Shape(file, over), snap,
               [i \in DOMAIN path |-> path[i].n], answer, due, expect>>
=============================================================================
