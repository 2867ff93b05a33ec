------------------------------ MODULE AodbmTree ------------------------------
(***************************************************************************)
(* The append-only B+ tree of aodbm: how aodbm_set and aodbm_del rewrite   *)
(* the path from a leaf to the root at the end of the file, and how        *)
(* aodbm_get, aodbm_has and aodbm_search find a key.                       *)
(*                                                                         *)
(* The file is a sequence of cells with offsets from 0, as in AodbmStore:  *)
(* one cell for a header field, one for a tree node; the cell of a root    *)
(* node also holds the 8-byte previous version before it.  Nodes refer to  *)
(* their children by offset, and the offsets are computed before the nodes *)
(* are written, as in the code.  Keys are naturals compared by <, in the   *)
(* place of aodbm_data_lt, and 0 is the empty key.                         *)
(***************************************************************************)
EXTENDS Integers, Sequences, FiniteSetsExt, SequencesExt

CONSTANTS
    MaxKey,        \* the application's keys are 0 .. MaxKey
    Value,         \* and its values
    NULL,          \* no value
    MAX_NODE_SIZE  \* 4 in aodbm.c

Key == 0 .. MaxKey

ASSUME TreeAssumption ==
    /\ MaxKey \in Nat
    /\ NULL \notin Value
    /\ MAX_NODE_SIZE \in Nat /\ MAX_NODE_SIZE >= 4 /\ MAX_NODE_SIZE % 2 = 0

VARIABLES
    file,  \* the cells of the data blocks written so far
    ver,   \* the last version made
    want   \* history: the map the calls that led to ver were asked to make

tvars == <<file, ver, want>>

EmptyKey == 0   \* aodbm_data_empty()

-----------------------------------------------------------------------------
(* Nodes.  A leaf is a sequence of records, a branch an offset followed by  *)
(* keys, each with the offset of the subtree that begins at it.            *)

Leaf(recs)        == [type |-> "l", recs |-> recs, keys |-> <<>>, offs |-> <<>>]
Branch(keys, offs) == [type |-> "b", recs |-> <<>>, keys |-> keys, offs |-> offs]
Header            == [type |-> "header", recs |-> <<>>, keys |-> <<>>, offs |-> <<>>]

(* Mutant: a key equal to a separator is looked for on its left.           *)
ChildIndexLe(node, key) ==
    Min({i \in DOMAIN node.keys : key <= node.keys[i]} \cup {Len(node.offs)})

(* Mutant: the next offset is read before the keys are compared.           *)
ChildIndexLate(node, key) ==
    Min({i + 1 : i \in {j \in DOMAIN node.keys : key < node.keys[j]}}
        \cup {Len(node.offs)})

(* Which child of a branch a key belongs to.                               *)
ChildIndex(node, key) ==
    Min({i \in DOMAIN node.keys : key < node.keys[i]} \cup {Len(node.offs)})

(* aodbm_search_recursive: the leaf below off that key belongs in.         *)
Search(f, off, key) ==
    LET down[o \in 0 .. off] ==
            LET node == f[o + 1]
            IN  IF node.type # "b" THEN o
                ELSE down[node.offs[ChildIndex(node, key)]]
    IN  down[off]

(* aodbm_search_path: the nodes from the root to that leaf, each with the  *)
(* key its subtree begins at.                                              *)
SearchPath(f, off, key) ==
    LET down[step \in [node : 0 .. off, key : Key]] ==
            LET node == f[step.node + 1]
                i    == ChildIndex(node, key)
            IN  <<step>> \o
                IF node.type # "b" THEN <<>>
                ELSE down[[node |-> node.offs[i],
                           key  |-> IF i = 1 THEN step.key ELSE node.keys[i - 1]]]
    IN  down[[node |-> off, key |-> EmptyKey]]

(* aodbm_get; NULL also stands for what aodbm_has answers false to.        *)
Get(f, v, key) ==
    IF v = 0 THEN NULL
    ELSE LET recs == f[Search(f, v, key) + 1].recs
             at   == {i \in DOMAIN recs : recs[i].key = key}
         IN  IF at = {} THEN NULL ELSE recs[Min(at)].val

-----------------------------------------------------------------------------
(* Leaves.  A modification gives the nodes that replace the old one, none,  *)
(* one or two, each with its first key.                                    *)

(* Mutant: the value is written where the key belongs.                     *)
RecSwapped(key, val) == [key |-> val, val |-> key]

Rec(key, val) == [key |-> key, val |-> val]

WithKeys(nodes) == [i \in DOMAIN nodes |->
                      [key |-> nodes[i].recs[1].key, node |-> nodes[i]]]

(* insert_into_leaf_range: before the first key that is not smaller, in the *)
(* place of it if it is equal, and at the end only if told so.             *)
InsertIntoRange(recs, key, val, insert_end) ==
    LET at == {i \in DOMAIN recs : key <= recs[i].key}
        i  == Min(at)
    IN  IF at # {} THEN
            [inserted |-> TRUE,
             recs |-> IF recs[i].key = key THEN [recs EXCEPT ![i] = Rec(key, val)]
                      ELSE InsertAt(recs, i, Rec(key, val))]
        ELSE IF insert_end THEN
            [inserted |-> TRUE, recs |-> Append(recs, Rec(key, val))]
        ELSE [inserted |-> FALSE, recs |-> recs]

(* Mutant: the second half is given the record whether or not the first    *)
(* has it.                                                                 *)
InsertIntoBoth(leaf, key, val) ==
    LET sz   == Len(leaf.recs)
        half == MAX_NODE_SIZE \div 2
    IN  IF sz = MAX_NODE_SIZE
        THEN WithKeys(<<Leaf(InsertIntoRange(SubSeq(leaf.recs, 1, half),
                                             key, val, FALSE).recs),
                        Leaf(InsertIntoRange(SubSeq(leaf.recs, half + 1, sz),
                                             key, val, TRUE).recs)>>)
        ELSE WithKeys(<<Leaf(InsertIntoRange(leaf.recs, key, val, TRUE).recs)>>)

(* A full leaf becomes two, even when the key is already there.            *)
InsertIntoLeaf(leaf, key, val) ==
    LET sz   == Len(leaf.recs)
        half == MAX_NODE_SIZE \div 2
        a    == InsertIntoRange(SubSeq(leaf.recs, 1, half), key, val, FALSE)
        rest == SubSeq(leaf.recs, half + 1, sz)
        b    == IF a.inserted THEN rest
                ELSE InsertIntoRange(rest, key, val, TRUE).recs
    IN  IF sz = MAX_NODE_SIZE
        THEN WithKeys(<<Leaf(a.recs), Leaf(b)>>)
        ELSE WithKeys(<<Leaf(InsertIntoRange(leaf.recs, key, val, TRUE).recs)>>)

(* The first record of the key goes.  The leaf may end up with no record;  *)
(* then it has no first key.                                               *)
RemoveFromLeaf(leaf, key) ==
    LET at   == {i \in DOMAIN leaf.recs : leaf.recs[i].key = key}
        recs == IF at = {} THEN leaf.recs ELSE RemoveAt(leaf.recs, Min(at))
    IN  IF recs = <<>> THEN <<>> ELSE WithKeys(<<Leaf(recs)>>)

(* Whether aodbm_set or aodbm_del changes the leaf; NULL deletes.          *)
ModifyLeaf(leaf, key, val) ==
    IF val = NULL THEN RemoveFromLeaf(leaf, key) ELSE InsertIntoLeaf(leaf, key, val)

-----------------------------------------------------------------------------
(* Branches.                                                               *)

(* The children of a branch whose subtree begins at node_key.              *)
Children(branch, node_key) ==
    [i \in DOMAIN branch.offs |->
        [key |-> IF i = 1 THEN node_key ELSE branch.keys[i - 1],
         off |-> branch.offs[i]]]

(* A new child goes before the first later key, but never before the first *)
(* child.                                                                  *)
Place(kids, kid) ==
    InsertAt(kids,
             Min({i \in 2 .. Len(kids) : kid.key < kids[i].key} \cup {Len(kids) + 1}),
             kid)

(* At most two children are new.                                           *)
PlaceAll(kids, new) ==
    CASE Len(new) = 0 -> kids
      [] Len(new) = 1 -> Place(kids, new[1])
      [] OTHER        -> Place(Place(kids, new[1]), new[2])

(* The children that are not at rm.                                        *)
Without(kids, rm) ==
    LET kept[n \in 0 .. Len(kids)] ==
            IF n = 0 THEN <<>>
            ELSE IF kids[n].off = rm THEN kept[n - 1]
            ELSE Append(kept[n - 1], kids[n])
    IN  kept[Len(kids)]

BranchOf(kids) ==
    [key  |-> kids[1].key,
     node |-> Branch([i \in 1 .. Len(kids) - 1 |-> kids[i + 1].key],
                     [i \in 1 .. Len(kids) |-> kids[i].off])]

(* Mutant: a second branch is begun one child too late.                    *)
ModifyBranchLate(branch, node_key, new, rm) ==
    LET kids == Without(PlaceAll(Children(branch, node_key), new), rm)
        half == MAX_NODE_SIZE \div 2
    IN  IF kids = <<>> THEN <<>>
        ELSE IF Len(kids) <= MAX_NODE_SIZE THEN <<BranchOf(kids)>>
        ELSE <<BranchOf(SubSeq(kids, 1, half)),
               BranchOf(SubSeq(kids, half + 1, Len(kids)))>>

(* modify_branch: the new children take the place of rm; what does not fit *)
(* in one branch goes to a second.                                         *)
ModifyBranch(branch, node_key, new, rm) ==
    LET kids == Without(PlaceAll(Children(branch, node_key), new), rm)
        half == MAX_NODE_SIZE \div 2
    IN  IF kids = <<>> THEN <<>>
        ELSE IF Len(kids) < MAX_NODE_SIZE THEN <<BranchOf(kids)>>
        ELSE <<BranchOf(SubSeq(kids, 1, half)),
               BranchOf(SubSeq(kids, half + 1, Len(kids)))>>

-----------------------------------------------------------------------------
(* Writing a new tree.  data are the nodes to append at pos.               *)

(* The nodes, written after data, as children of the level above.          *)
Placed(pos, data, nodes) ==
    [i \in DOMAIN nodes |->
        [key |-> nodes[i].key, off |-> pos + Len(data) + i - 1]]

NodesOf(nodes) == [i \in DOMAIN nodes |-> nodes[i].node]

(* One iteration of the loop of aodbm_set and aodbm_del up the path.       *)
Climb(f, pos, acc, step) ==
    [data  |-> acc.data \o NodesOf(acc.nodes),
     nodes |-> ModifyBranch(f[step.node + 1], step.key,
                            Placed(pos, acc.data, acc.nodes), acc.prev_node),
     prev_node |-> step.node]

(* construct_root_di: no node, one, or two that need a new root above them. *)
ConstructRoot(pos, data, nodes) ==
    CASE Len(nodes) = 0 -> [dat |-> Append(data, Leaf(<<>>)),
                            root |-> pos + Len(data)]
      [] Len(nodes) = 1 -> [dat |-> Append(data, nodes[1].node),
                            root |-> pos + Len(data)]
      [] OTHER ->
           LET kids == Placed(pos, data, nodes)
           IN  [dat  |-> Append(data \o NodesOf(nodes), BranchOf(kids).node),
                root |-> pos + Len(data) + 2]

(* Mutant: the branch above the leaf is popped with the leaf.              *)
ModifiedSkipping(f, pos, path, key, val) ==
    LET leaf == Last(path).node
        popped[n \in 0 .. Len(path) - 1] ==
            IF n = 0
            THEN [data |-> <<>>, nodes |-> ModifyLeaf(f[leaf + 1], key, val),
                  prev_node |-> leaf]
            ELSE IF n = 1 /\ Len(path) > 2 THEN popped[0]
            ELSE Climb(f, pos, popped[n - 1], path[Len(path) - n])
    IN  popped[Len(path) - 1]

(* The loop of aodbm_set and aodbm_del, that begins with the leaf and pops *)
(* the branches above it from the path.                                    *)
Modified(f, pos, path, key, val) ==
    LET leaf == Last(path).node
        popped[n \in 0 .. Len(path) - 1] ==
            IF n = 0
            THEN [data |-> <<>>, nodes |-> ModifyLeaf(f[leaf + 1], key, val),
                  prev_node |-> leaf]
            ELSE Climb(f, pos, popped[n - 1], path[Len(path) - n])
    IN  popped[Len(path) - 1]

(* The part aodbm_set and aodbm_del share: modify the leaf of key, then    *)
(* every branch on the way up, then the root.                              *)
Rewrite(f, v, pos, key, val) ==
    LET up == Modified(f, pos, SearchPath(f, v, key), key, val)
    IN  ConstructRoot(pos, up.data, up.nodes)

(* Mutant: the block header is counted short.                              *)
AppendPosShort == Len(file) + 1

AppendPos == Len(file) + 2   \* after the type byte and the size

(* aodbm_write_data_block, and the new version is returned.                *)
Write(result) ==
    /\ file' = file \o <<Header, Header>> \o result.dat
    /\ ver' = result.root

Set(key, val) ==
    /\ Write(IF ver = 0
             THEN [dat |-> <<Leaf(<<Rec(key, val)>>)>>, root |-> AppendPos]
             ELSE Rewrite(file, ver, AppendPos, key, val))
    /\ want' = [want EXCEPT ![key] = val]

Del(key) ==
    /\ \/ /\ Get(file, ver, key) = NULL
          /\ UNCHANGED <<file, ver>>
       \/ /\ Get(file, ver, key) # NULL
          /\ Write(Rewrite(file, ver, AppendPos, key, NULL))
    /\ want' = [want EXCEPT ![key] = NULL]

Init == /\ file = <<>>
        /\ ver = 0
        /\ want = [key \in Key |-> NULL]

Next == \E key \in Key : (\E val \in Value : Set(key, val)) \/ Del(key)

Spec == Init /\ [][Next]_tvars

-----------------------------------------------------------------------------
(* The tree of a version, unfolded.                                        *)

(* The offsets of its nodes.                                               *)
Reach(f, v) ==
    LET below[o \in 0 .. v] ==
            {o} \cup UNION {below[f[o + 1].offs[i]] : i \in DOMAIN f[o + 1].offs}
    IN  IF v = 0 THEN {} ELSE below[v]

(* The records of its leaves, from left to right.                          *)
Records(f, v) ==
    LET below[o \in 0 .. v] ==
            LET node == f[o + 1]
            IN  node.recs \o FlattenSeq([i \in DOMAIN node.offs |-> below[node.offs[i]]])
    IN  IF v = 0 THEN <<>> ELSE below[v]

(* Its shape: the same for two trees that differ in offsets only.          *)
Shape(f, v) ==
    LET below[o \in 0 .. v] ==
            LET node == f[o + 1]
            IN  [recs |-> node.recs, keys |-> node.keys,
                 kids |-> [i \in DOMAIN node.offs |-> below[node.offs[i]]]]
    IN  IF v = 0 THEN <<>> ELSE below[v]

(* How many nodes there are on the way from a node down to a leaf.         *)
Heights(f, v) ==
    LET below[o \in 0 .. v] ==
            IF f[o + 1].type = "l" THEN {1}
            ELSE {h + 1 : h \in UNION {below[f[o + 1].offs[i]] :
                                         i \in DOMAIN f[o + 1].offs}}
    IN  IF v = 0 THEN {} ELSE below[v]

-----------------------------------------------------------------------------
(* Properties.                                                             *)

NodeType == [type : {"l", "b", "header"},
             recs : Seq([key : Key, val : Value]),
             keys : Seq(Key), offs : Seq(Nat)]

(* The file, the version and the history have their types.                 *)
TypeOK ==
    /\ file \in Seq(NodeType)
    /\ ver = 0 \/ ver \in 0 .. Len(file) - 1
    /\ want \in [Key -> Value \cup {NULL}]

(* Lookups in the tree aodbm_set and aodbm_del have rewritten answer what  *)
(* a map that was asked the same would: for the key of the call and for    *)
(* every other key, whatever was split, emptied or dropped on the way.     *)
GetIsMapLookup == \A key \in Key : Get(file, ver, key) = want[key]

(* The leaves hold each key of the map once and in order, and no other, so *)
(* that an iterator finds all records and no stale copy. The values are    *)
(* GetIsMapLookup's part.                                                  *)
RecordsAreTheMap ==
    LET recs == Records(file, ver)
    IN  /\ \A i, j \in DOMAIN recs : i < j => recs[i].key < recs[j].key
        /\ {recs[i].key : i \in DOMAIN recs} = {key \in Key : want[key] # NULL}

(* "assert (aodbm_data_le(node_key, key))" in aodbm_search_path_recursive: *)
(* a key is never looked for below a separator that is greater, although   *)
(* separators are not updated when the records they came from are deleted. *)
PathKeysNotGreater ==
    \A key \in Key :
        ver # 0 => LET path == SearchPath(file, ver, key)
                   IN  \A i \in DOMAIN path : path[i].key <= key

(* The new tree is made of nodes of the file and of the block just         *)
(* written, all behind the header and before the end: the offsets worked   *)
(* out beforehand are where the nodes came to stand, and children come     *)
(* before their parents.                                                   *)
OffsetsPointBack ==
    \A o \in Reach(file, ver) :
        /\ file[o + 1].type \in {"l", "b"}
        /\ \A i \in DOMAIN file[o + 1].offs : file[o + 1].offs[i] < o

(* A leaf holds 1 to MAX_NODE_SIZE records, unless it is the root; a       *)
(* branch has 1 to MAX_NODE_SIZE - 1 children.  insert_into_leaf exits on   *)
(* a fuller leaf, and an emptied one would be read as the end.             *)
NodesWithinSize ==
    \A o \in Reach(file, ver) :
        LET node == file[o + 1]
        IN  IF node.type = "l"
            THEN Len(node.recs) \in (IF o = ver THEN 0 ELSE 1) .. MAX_NODE_SIZE
            ELSE /\ Len(node.offs) \in 1 .. MAX_NODE_SIZE - 1
                 /\ Len(node.keys) = Len(node.offs) - 1

(* Every leaf is as deep as every other: a search costs the same for all.  *)
Balanced == \A h, g \in Heights(file, ver) : h = g

(* The file's nodes, where they are, how full, and how deep: what every    *)
(* function that goes through a tree takes for granted of it.              *)
TreeShape == TypeOK /\ OffsetsPointBack /\ NodesWithinSize /\ Balanced
=============================================================================
