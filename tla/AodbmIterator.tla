---------------------------- MODULE AodbmIterator ----------------------------
(***************************************************************************)
(* Iterators over one version of the tree: a stack with a node and a       *)
(* position in it for every level, that aodbm_iterator_next carries from   *)
(* leaf to leaf while other calls append new versions.                     *)
(***************************************************************************)
EXTENDS AodbmTree

VARIABLES
    over,    \* it->ver: the version iterated over
    path,    \* it->path: the node and its n on every level, the leaf last
    answer,  \* what the last aodbm_iterator_next returned, NULL for the end
    snap,    \* history: the map of the version iterated over
    due,     \* history: the keys the iterator is yet to return
    expect   \* history: what the last aodbm_iterator_next had to return

iter  == <<over, path, answer, snap, due, expect>>
ivars == <<tvars, iter>>

Entry(node, n) == [node |-> node, n |-> n]

(* construct_iterator: from node down to the first record of its subtree.  *)
FirstPath(f, node) ==
    LET down[o \in 0 .. node] ==
            <<Entry(o, 0)>> \o IF f[o + 1].type # "b" THEN <<>>
                               ELSE down[f[o + 1].offs[1]]
    IN  down[node]

(* aodbm_iterator_goto_recursive: to the first record not before key, or   *)
(* the end of the leaf it would be in.                                     *)
PathTo(f, node, key) ==
    LET down[o \in 0 .. node] ==
            LET nd == f[o + 1]
                i  == ChildIndex(nd, key)
            IN  IF nd.type # "b"
                THEN <<Entry(o, Min({n \in 0 .. Len(nd.recs) - 1 :
                                       key <= nd.recs[n + 1].key}
                                    \cup {Len(nd.recs)}))>>
                ELSE <<Entry(o, i - 1)>> \o down[nd.offs[i]]
    IN  down[node]

(* Mutant: the branch is put back on the stack as it was.                  *)
NextLeafSame(f, p) ==
    LET more == {i \in 1 .. Len(p) - 1 : p[i].n < Len(f[p[i].node + 1].keys)}
        d    == Max(more)
    IN  IF more = {} THEN <<>>
        ELSE SubSeq(p, 1, d) \o FirstPath(f, f[p[d].node + 1].offs[p[d].n + 2])

(* At the end of a leaf, the deepest branch that has another child moves   *)
(* on to it and the levels below start again; without one the path is gone. *)
NextLeaf(f, p) ==
    LET more == {i \in 1 .. Len(p) - 1 : p[i].n < Len(f[p[i].node + 1].keys)}
        d    == Max(more)
        b    == Entry(p[d].node, p[d].n + 1)
    IN  IF more = {} THEN <<>>
        ELSE SubSeq(p, 1, d - 1) \o <<b>>
             \o FirstPath(f, f[b.node + 1].offs[b.n + 1])

AtLeafEnd(f, p) == Last(p).n = Len(f[Last(p).node + 1].recs)

-----------------------------------------------------------------------------
(* The iterator is at the path p, before the first key not below from.     *)
Start(p, from) ==
    /\ path' = p
    /\ due' = {key \in from .. MaxKey : snap'[key] # NULL}
    /\ answer' = NULL /\ expect' = NULL
    /\ UNCHANGED tvars

NewIterator ==
    /\ over' = ver /\ snap' = want
    /\ Start(IF ver = 0 THEN <<>> ELSE FirstPath(file, ver), 0)

(* aodbm_iterate_from, of a version that is not the empty one.             *)
IterateFrom(key) ==
    /\ ver # 0
    /\ over' = ver /\ snap' = want
    /\ Start(PathTo(file, ver, key), key)

(* aodbm_iterator_goto: the same iterator somewhere else in its version.   *)
IteratorGoto(key) ==
    /\ over # 0
    /\ UNCHANGED <<over, snap>>
    /\ Start(PathTo(file, over, key), key)

(* What is due is the first key left, or NULL at the end.                  *)
Expect ==
    /\ expect' = IF due = {} THEN NULL ELSE Rec(Min(due), snap[Min(due)])
    /\ due' = IF due = {} THEN {} ELSE due \ {Min(due)}

IteratorNext ==
    LET p    == IF path # <<>> /\ AtLeafEnd(file, path) THEN NextLeaf(file, path)
                ELSE path
        leaf == Last(p)
    IN  /\ \/ /\ p = <<>>
              /\ path' = <<>>
              /\ answer' = NULL
           \/ /\ p # <<>>
              /\ path' = [p EXCEPT ![Len(p)].n = @ + 1]
              /\ answer' = file[leaf.node + 1].recs[leaf.n + 1]
        /\ Expect
        /\ UNCHANGED <<tvars, over, snap>>

Iterate == \/ NewIterator
           \/ \E key \in Key : IterateFrom(key) \/ IteratorGoto(key)
           \/ IteratorNext

IterInit == /\ Init
            /\ over = 0 /\ path = <<>> /\ answer = NULL
            /\ snap = want /\ due = {} /\ expect = NULL

(* Other calls make new versions while the iterator stays with its own.    *)
IterNext == (Next /\ UNCHANGED iter) \/ Iterate

IterSpec == IterInit /\ [][IterNext]_ivars

-----------------------------------------------------------------------------
(* aodbm_iterator_next returns every record of its version from where the  *)
(* iterator was put, once, in key order, and then NULL, whatever is        *)
(* written meanwhile and however the leaves were split or emptied before.  *)
IteratorFollowsTheMap == answer = expect
=============================================================================
