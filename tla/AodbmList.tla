------------------------------- MODULE AodbmList -------------------------------
(***************************************************************************)
(* aodbm_list: nodes of a heap that are linked both ways, lists that know  *)
(* their first and last node and a length, and one iterator.  A freed node *)
(* or list is forgotten: LinksSound says that nothing refers to it.        *)
(***************************************************************************)
EXTENDS AodbmHeap, Naturals, SequencesExt

CONSTANTS
    List,        \* the lists malloc can give
    Item,
    TailInsert   \* the application also inserts behind the last item

ASSUME ListAssumption == NULL \notin List

VARIABLES
    next, prev, item,  \* fields of the allocated list_nodes
    head, tail, len,   \* fields of the allocated aodbm_lists
    it                 \* an aodbm_list_iterator; its list is NULL: none

vars == <<next, prev, item, head, tail, len, it>>

Nodes == DOMAIN next
Lists == DOMAIN head

NoIterator == [list |-> NULL, cur |-> NULL]

(* p->field = y, where there is a p.                                       *)
Store(f, p, y) == IF p = NULL THEN f ELSE [f EXCEPT ![p] = y]

(* The application lets go of an iterator whose node or list goes.         *)
Release(p, l) == it' = IF (p # NULL /\ it.cur = p) \/ it.list = l
                          THEN NoIterator ELSE it

-----------------------------------------------------------------------------
ListEmpty(l) ==
    /\ l \notin Lists
    /\ head' = Put(head, l, NULL) /\ tail' = Put(tail, l, NULL)
    /\ len' = Put(len, l, 0)
    /\ UNCHANGED <<next, prev, item, it>>

(* A node between p and n, either of which may be NULL.                    *)
Link(node, p, n, x) ==
    /\ node \notin Nodes
    /\ next' = Put(Store(next, p, node), node, n)
    /\ prev' = Put(Store(prev, n, node), node, p)
    /\ item' = Put(item, node, x)

PushFront(l, x) ==
    \E node \in Node \ Nodes :
        /\ Link(node, NULL, head[l], x)
        /\ head' = [head EXCEPT ![l] = node]
        /\ tail' = IF head[l] = NULL THEN [tail EXCEPT ![l] = node] ELSE tail
        /\ len' = [len EXCEPT ![l] = @ + 1]
        /\ UNCHANGED it

PushBack(l, x) ==
    \E node \in Node \ Nodes :
        /\ Link(node, IF head[l] = NULL THEN NULL ELSE tail[l], NULL, x)
        /\ head' = IF head[l] = NULL THEN [head EXCEPT ![l] = node] ELSE head
        /\ tail' = [tail EXCEPT ![l] = node]
        /\ len' = [len EXCEPT ![l] = @ + 1]
        /\ UNCHANGED it

(* On an empty list both pops return NULL and change nothing.              *)
PopFront(l) ==
    LET node == head[l] IN
    /\ node # NULL
    /\ head' = [head EXCEPT ![l] = next[node]]
    /\ tail' = IF next[node] = NULL THEN [tail EXCEPT ![l] = NULL] ELSE tail
    /\ next' = Drop(next, node)
    /\ prev' = Drop(Store(prev, next[node], NULL), node)
    /\ item' = Drop(item, node)
    /\ len' = [len EXCEPT ![l] = @ - 1]
    /\ Release(node, NULL)

PopBack(l) ==
    LET node == tail[l] IN
    /\ node # NULL
    /\ tail' = [tail EXCEPT ![l] = prev[node]]
    /\ head' = IF prev[node] = NULL THEN [head EXCEPT ![l] = NULL] ELSE head
    /\ prev' = Drop(prev, node)
    /\ next' = Drop(Store(next, prev[node], NULL), node)
    /\ item' = Drop(item, node)
    /\ len' = [len EXCEPT ![l] = @ - 1]
    /\ Release(node, NULL)

(* The nodes from p on, along the links; a chain of allocated nodes ends   *)
(* within their number.                                                    *)
Chain(link, p) ==
    LET walk[k \in 0..Cardinality(Node)] ==
            IF k = 0 THEN << >>
            ELSE LET met == walk[k - 1]
                     n   == IF k = 1 THEN p ELSE link[Last(met)]
                 IN  IF Len(met) < k - 1 \/ n \notin Nodes THEN met
                                                          ELSE Append(met, n)
    IN  walk[Cardinality(Node)]

(* aodbm_free_list pops from the back until there is no head. It frees the *)
(* items, too, which are values here and have no memory to give back.      *)
FreeList(l) ==
    LET gone == ToSet(Chain(prev, tail[l])) IN
    /\ next' = [n \in Nodes \ gone |-> next[n]]
    /\ prev' = [n \in Nodes \ gone |-> prev[n]]
    /\ item' = [n \in Nodes \ gone |-> item[n]]
    /\ head' = Drop(head, l) /\ tail' = Drop(tail, l) /\ len' = Drop(len, l)
    /\ Release(NULL, l)

(* Mutant: the tail of an empty second list is taken over.                 *)
MergeTail(a, b) ==
    /\ a # b
    /\ next' = Store(next, tail[a], head[b])
    /\ prev' = Store(prev, head[b], tail[a])
    /\ head' = Drop(IF head[a] = NULL THEN [head EXCEPT ![a] = head[b]]
                                      ELSE head, b)
    /\ tail' = Drop([tail EXCEPT ![a] = tail[b]], b)
    /\ len' = Drop([len EXCEPT ![a] = @ + len[b]], b)
    /\ Release(NULL, b)
    /\ UNCHANGED item

MergeDi(a, b) ==
    /\ a # b
    /\ next' = Store(next, tail[a], head[b])
    /\ prev' = Store(prev, head[b], tail[a])
    /\ head' = Drop(IF head[a] = NULL THEN [head EXCEPT ![a] = head[b]]
                                      ELSE head, b)
    /\ tail' = Drop(IF tail[b] = NULL THEN tail
                                      ELSE [tail EXCEPT ![a] = tail[b]], b)
    /\ len' = Drop([len EXCEPT ![a] = @ + len[b]], b)
    /\ Release(NULL, b)
    /\ UNCHANGED item

-----------------------------------------------------------------------------
Begin(l) == /\ it' = [list |-> l, cur |-> head[l]]
            /\ UNCHANGED <<next, prev, item, head, tail, len>>
Back(l)  == /\ it' = [list |-> l, cur |-> tail[l]]
            /\ UNCHANGED <<next, prev, item, head, tail, len>>

IteratorNext == /\ it.cur # NULL
                /\ it' = [it EXCEPT !.cur = next[@]]
                /\ UNCHANGED <<next, prev, item, head, tail, len>>
IteratorPrev == /\ it.cur # NULL
                /\ it' = [it EXCEPT !.cur = prev[@]]
                /\ UNCHANGED <<next, prev, item, head, tail, len>>

(* aodbm_list_iterator_is_end.                                             *)
IsEnd == it.cur = tail[it.list]

(* Mutant: the node behind is not told of the new one.                     *)
InsertOneWay(x) ==
    \E node \in Node \ Nodes :
        /\ it.cur # NULL /\ (TailInsert \/ ~IsEnd)
        /\ next' = Put([next EXCEPT ![it.cur] = node], node, next[it.cur])
        /\ prev' = Put(prev, node, it.cur)
        /\ item' = Put(item, node, x)
        /\ len' = [len EXCEPT ![it.list] = @ + 1]
        /\ UNCHANGED <<head, tail, it>>

(* Behind the current node; list->tail stays as it is.  A finished         *)
(* iterator inserts into an empty list only, and does not move.            *)
Insert(x) ==
    /\ \E node \in Node \ Nodes :
          \/ /\ it.cur # NULL /\ (TailInsert \/ ~IsEnd)
             /\ Link(node, it.cur, next[it.cur], x)
             /\ UNCHANGED <<head, tail>>
          \/ /\ it.cur = NULL /\ head[it.list] = NULL
             /\ Link(node, NULL, NULL, x)
             /\ head' = [head EXCEPT ![it.list] = node]
             /\ tail' = [tail EXCEPT ![it.list] = node]
    /\ len' = [len EXCEPT ![it.list] = @ + 1]
    /\ UNCHANGED it

RemoveHere ==
    LET n == next[it.cur]
        p == prev[it.cur]
    IN  /\ it.cur # NULL
        /\ next' = Drop(Store(next, p, n), it.cur)
        /\ prev' = Drop(Store(prev, n, p), it.cur)
        /\ item' = Drop(item, it.cur)
        /\ head' = IF p = NULL THEN [head EXCEPT ![it.list] = n] ELSE head
        /\ tail' = IF n = NULL THEN [tail EXCEPT ![it.list] = p] ELSE tail
        /\ len' = [len EXCEPT ![it.list] = @ - 1]
        /\ it' = [it EXCEPT !.cur = IF n # NULL THEN n ELSE p]

-----------------------------------------------------------------------------
Init == /\ next = << >> /\ prev = << >> /\ item = << >>
        /\ head = << >> /\ tail = << >> /\ len = << >>
        /\ it = NoIterator

Next ==
    \/ \E l \in List : ListEmpty(l)
    \/ \E l \in Lists :
          \/ FreeList(l) \/ PopFront(l) \/ PopBack(l) \/ Begin(l) \/ Back(l)
          \/ \E x \in Item : PushFront(l, x) \/ PushBack(l, x)
          \/ \E b \in Lists : MergeDi(l, b)
    \/ /\ it.list # NULL
       /\ IteratorNext \/ IteratorPrev \/ RemoveHere \/ \E x \in Item : Insert(x)

Spec == Init /\ [][Next]_vars

-----------------------------------------------------------------------------
(* Properties.                                                             *)

Forward(l)  == Chain(next, head[l])
Backward(l) == Chain(prev, tail[l])

(* No pointer of a node, a list or the iterator refers to freed memory;    *)
(* every node is on exactly one list, so that none is lost and none freed  *)
(* twice; and going back from the tail meets the same nodes as going on    *)
(* from the head, as many as the length says.                              *)
LinksSound ==
    /\ DOMAIN prev = Nodes /\ DOMAIN item = Nodes
    /\ DOMAIN tail = Lists /\ DOMAIN len = Lists
    /\ it.list \in Lists \/ it = NoIterator
    /\ \A n \in Nodes : {next[n], prev[n]} \subseteq Nodes \cup {NULL}
    /\ \A l \in Lists : {head[l], tail[l]} \subseteq Nodes \cup {NULL}
    /\ it.cur \in Nodes \cup {NULL}
    /\ \A n \in Nodes : Cardinality({l \in Lists : n \in ToSet(Forward(l))}) = 1
    /\ \A l \in Lists : /\ Backward(l) = Reverse(Forward(l))
                       /\ len[l] = Len(Forward(l))

(* The links are the sequences of the abstract lists, through every        *)
(* operation, and the iterator's node is its place.                        *)
Place(nodes, n) == IF n = NULL THEN 0 ELSE CHOOSE i \in DOMAIN nodes : nodes[i] = n

Items(nodes) == [i \in DOMAIN nodes |-> item[nodes[i]]]

ItemsOf == [l \in Lists |-> Items(Forward(l))]

PlaceOf == [list |-> it.list,
            pos  |-> IF it.list = NULL THEN 0 ELSE Place(Forward(it.list), it.cur)]

Sequences == INSTANCE ItemSequences WITH seq <- ItemsOf, at <- PlaceOf

ImplementsSequences == Sequences!SeqSpec
=============================================================================
