------------------------------- MODULE AodbmRope -------------------------------
(***************************************************************************)
(* aodbm_rope: strings put together without copying them, a chain of nodes *)
(* with a first and a last.  Every rope has at least one node.  The data   *)
(* objects of the caller are memory too: a function whose name ends in _di *)
(* takes over the one it is given.                                         *)
(***************************************************************************)
EXTENDS AodbmHeap, Naturals, SequencesExt

CONSTANTS
    Rope,     \* the ropes malloc can give
    Datum,    \* the data objects the caller can hold at a time
    Letter,   \* the chars of their strings
    MaxText   \* bound: no longer strings are put together

ASSUME RopeAssumption == MaxText \in Nat \ {0}

VARIABLES
    dat, after,   \* fields dat and next of the allocated nodes, who own the string
    first, last,  \* fields of the allocated ropes
    held,         \* the data objects of the caller: their strings
    text          \* history: the string each rope has been asked to be

ropeVars == <<dat, after, first, last, held, text>>

RopeNodes == DOMAIN after
Ropes == DOMAIN first

-----------------------------------------------------------------------------
(* The caller's own objects: aodbm_construct_data, aodbm_free_data.        *)
NewData(d, s) == /\ d \notin DOMAIN held
                 /\ held' = Put(held, d, s)
                 /\ UNCHANGED <<dat, after, first, last, text>>

FreeData(d) == /\ held' = Drop(held, d)
               /\ UNCHANGED <<dat, after, first, last, text>>

(* The argument d of a function: where the function is a _di, the caller   *)
(* does not have it any more.                                              *)
Given(d, di) == held' = IF di THEN Drop(held, d) ELSE held

(* The string is copied into a node of its own in front of n.              *)
NewNode(node, s, n) == /\ node \notin RopeNodes
                       /\ dat' = Put(dat, node, s)
                       /\ after' = Put(after, node, n)

(* aodbm_data_to_rope and aodbm_data_to_rope_di; aodbm_rope_empty does the *)
(* same with an object of its own.                                         *)
ToRope(r, s) ==
    /\ r \notin Ropes
    /\ \E node \in Node : /\ NewNode(node, s, NULL)
                          /\ first' = Put(first, r, node)
                          /\ last' = Put(last, r, node)
    /\ text' = Put(text, r, s)

RopeEmpty(r) == ToRope(r, << >>) /\ UNCHANGED held

DataToRope(r, d, di) == ToRope(r, held[d]) /\ Given(d, di)

(* aodbm_rope_append, aodbm_rope_append_di.                                *)
RopeAppend(r, d, di) ==
    /\ Len(text[r]) + Len(held[d]) <= MaxText
    /\ \E node \in Node \ RopeNodes :
          /\ dat' = Put(dat, node, held[d])
          /\ after' = Put([after EXCEPT ![last[r]] = node], node, NULL)
          /\ last' = [last EXCEPT ![r] = node]
    /\ text' = [text EXCEPT ![r] = @ \o held[d]]
    /\ Given(d, di)
    /\ UNCHANGED first

(* Mutant: the rope does not learn of its new first node.                  *)
RopePrependBehind(d, r, di) ==
    /\ Len(text[r]) + Len(held[d]) <= MaxText
    /\ \E node \in Node : NewNode(node, held[d], first[r])
    /\ text' = [text EXCEPT ![r] = held[d] \o @]
    /\ Given(d, di)
    /\ UNCHANGED <<first, last>>

(* aodbm_rope_prepend, aodbm_rope_prepend_di.                              *)
RopePrepend(d, r, di) ==
    /\ Len(text[r]) + Len(held[d]) <= MaxText
    /\ \E node \in Node : /\ NewNode(node, held[d], first[r])
                          /\ first' = [first EXCEPT ![r] = node]
    /\ text' = [text EXCEPT ![r] = held[d] \o @]
    /\ Given(d, di)
    /\ UNCHANGED last

(* Mutant: the merged rope keeps the last node of the first one.           *)
RopeMergeKeepLast(a, b) ==
    /\ a # b /\ Len(text[a]) + Len(text[b]) <= MaxText
    /\ after' = [after EXCEPT ![last[a]] = first[b]]
    /\ first' = Drop(first, b) /\ last' = Drop(last, b)
    /\ text' = Drop([text EXCEPT ![a] = @ \o text[b]], b)
    /\ UNCHANGED <<dat, held>>

(* aodbm_rope_merge_di: b is gone, its nodes are a's.                      *)
RopeMerge(a, b) ==
    /\ a # b /\ Len(text[a]) + Len(text[b]) <= MaxText
    /\ after' = [after EXCEPT ![last[a]] = first[b]]
    /\ first' = Drop(first, b)
    /\ last' = Drop([last EXCEPT ![a] = last[b]], b)
    /\ text' = Drop([text EXCEPT ![a] = @ \o text[b]], b)
    /\ UNCHANGED <<dat, held>>

-----------------------------------------------------------------------------
(* The nodes the loop "for (it = rope->first; it != NULL; it = it->next)"  *)
(* meets.                                                                  *)
NodesOf(r) ==
    LET walk[k \in 1..Cardinality(Node)] ==
            IF k = 1 THEN <<first[r]>>
            ELSE LET met == walk[k - 1]
                     n   == after[Last(met)]
                 IN  IF Len(met) < k - 1 \/ n \notin RopeNodes THEN met
                                                              ELSE Append(met, n)
    IN  walk[Cardinality(Node)]

(* aodbm_rope_size adds up the sizes of the nodes.                         *)
RopeSize(r) ==
    LET nodes == NodesOf(r)
        sz[k \in 0..Len(nodes)] == IF k = 0 THEN 0 ELSE sz[k - 1] + Len(dat[nodes[k]])
    IN  sz[Len(nodes)]

(* aodbm_rope_to_data copies each node behind the ones before it, into a   *)
(* result of the size aodbm_rope_size has found.                           *)
RopeString(r) ==
    LET nodes == NodesOf(r)
        result[k \in 0..Len(nodes)] ==
            IF k = 0 THEN << >> ELSE result[k - 1] \o dat[nodes[k]]
    IN  result[Len(nodes)]

ToData(r, d) == /\ d \notin DOMAIN held
                /\ held' = Put(held, d, RopeString(r))
                /\ UNCHANGED <<dat, after, first, last, text>>

(* aodbm_free_rope, and the half of aodbm_rope_to_data_di that calls it.   *)
Freed(r) == LET gone == ToSet(NodesOf(r)) IN
            /\ dat' = [n \in RopeNodes \ gone |-> dat[n]]
            /\ after' = [n \in RopeNodes \ gone |-> after[n]]
            /\ first' = Drop(first, r) /\ last' = Drop(last, r)
            /\ text' = Drop(text, r)

FreeRope(r) == Freed(r) /\ UNCHANGED held

ToDataDi(r, d) == /\ d \notin DOMAIN held
                  /\ held' = Put(held, d, RopeString(r))
                  /\ Freed(r)

RopeInit == /\ dat = << >> /\ after = << >> /\ first = << >> /\ last = << >>
            /\ held = << >> /\ text = << >>

RopeNext ==
    \/ \E d \in Datum : \E c \in Letter : NewData(d, <<c>>)
    \/ \E d \in DOMAIN held : FreeData(d)
    \/ \E r \in Rope : \/ RopeEmpty(r)
                       \/ \E d \in DOMAIN held, di \in BOOLEAN : DataToRope(r, d, di)
    \/ \E r \in Ropes : \/ \E d \in DOMAIN held, di \in BOOLEAN :
                              RopeAppend(r, d, di) \/ RopePrepend(d, r, di)
                        \/ \E b \in Ropes : RopeMerge(r, b)
                        \/ \E d \in Datum : ToData(r, d) \/ ToDataDi(r, d)
                        \/ FreeRope(r)

RopeSpec == RopeInit /\ [][RopeNext]_ropeVars

-----------------------------------------------------------------------------
(* Properties.                                                             *)

(* Allocated nodes and ropes have all their fields; a chain never leads to *)
(* a freed node and ends at last, behind which append and merge write; and *)
(* each node is freed with one rope, once.                                 *)
ChainsSound ==
    /\ RopeNodes \subseteq Node /\ DOMAIN dat = RopeNodes
    /\ Ropes \subseteq Rope /\ DOMAIN last = Ropes /\ DOMAIN text = Ropes
    /\ \A n \in RopeNodes : after[n] \in RopeNodes \cup {NULL} /\ Len(dat[n]) <= MaxText
    /\ \A r \in Ropes : {first[r], last[r]} \subseteq RopeNodes
    /\ DOMAIN held \subseteq Datum
    /\ \A r \in Ropes : Last(NodesOf(r)) = last[r] /\ after[last[r]] = NULL
    /\ \A n \in RopeNodes : Cardinality({r \in Ropes : n \in ToSet(NodesOf(r))}) = 1

(* However it has been appended to, prepended to and merged, a rope gives  *)
(* the string it stands for, and its size is that string's: nodes are      *)
(* written at offsets that were added up from such sizes (aodbm.c:669).    *)
RopeIsItsText ==
    \A r \in Ropes : RopeString(r) = text[r] /\ RopeSize(r) = Len(text[r])
=============================================================================
