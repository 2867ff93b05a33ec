---------------------------- MODULE AodbmTreeProofs ----------------------------
(***************************************************************************)
(* The tree is the map: after any sequence of aodbm_set and aodbm_del a    *)
(* lookup answers what a map would, for every range of keys, all values    *)
(* and every node size.                                                    *)
(*                                                                         *)
(* The invariant labels every node that was ever written with the set of   *)
(* the records below it and its height.  Nodes are never changed, so their *)
(* labels stay; a new node gets the label that its children give it.       *)
(*                                                                         *)
(* aodbm_iterator_next returns what is left of the map of its version,     *)
(* while other calls append versions.  Its invariant says what is left:    *)
(* the records behind the position in the leaf, and on every level above   *)
(* the records of the children behind the one the path goes through.       *)
(***************************************************************************)
EXTENDS AodbmIterator, WellFoundedInduction, TLAPS

Record == [key : Key, val : Value]
Label  == [recs : SUBSET Record, h : Nat]

RecordSet(recs) == {recs[i] : i \in DOMAIN recs}

(* The label of a node whose children are labelled by L.                   *)
LabelOf(L, node) ==
    IF node.type = "l" THEN [recs |-> RecordSet(node.recs), h |-> 1]
    ELSE [recs |-> UNION {L[node.offs[i]].recs : i \in DOMAIN node.offs},
          h    |-> L[node.offs[1]].h + 1]

Sorted(recs) == \A i, j \in DOMAIN recs : i < j => recs[i].key < recs[j].key

LeafOK(node) ==
    /\ node.recs \in Seq(Record) /\ node = Leaf(node.recs)
    /\ Sorted(node.recs) /\ Len(node.recs) <= MAX_NODE_SIZE

(* The keys of a branch keep the records of its children apart, none of    *)
(* which is empty.                                                         *)
BranchOK(L, node) ==
    /\ node.keys \in Seq(Key) /\ node.offs \in Seq(DOMAIN L)
    /\ node = Branch(node.keys, node.offs)
    /\ Len(node.offs) \in 1 .. MAX_NODE_SIZE - 1
    /\ Len(node.keys) = Len(node.offs) - 1
    /\ \A i \in DOMAIN node.offs : /\ L[node.offs[i]].recs # {}
                                   /\ L[node.offs[i]].h = L[node.offs[1]].h
    /\ \A i \in DOMAIN node.keys, j \in DOMAIN node.offs :
         \A r \in L[node.offs[j]].recs :
            IF j <= i THEN r.key < node.keys[i] ELSE node.keys[i] <= r.key

NodeOK(L, node) == LeafOK(node) \/ BranchOK(L, node)

(* L labels the nodes among the cells, each of which is behind its         *)
(* children.                                                               *)
Labelled(L, cells) ==
    /\ cells \in Seq(NodeType)
    /\ L \in [DOMAIN L -> Label]
    /\ DOMAIN L = {o \in 0 .. Len(cells) - 1 : cells[o + 1] # Header}
    /\ \A o \in DOMAIN L :
          /\ NodeOK(L, cells[o + 1]) /\ L[o] = LabelOf(L, cells[o + 1])
          /\ \A i \in DOMAIN cells[o + 1].offs : cells[o + 1].offs[i] < o

RecordsOf(m) == {Rec(key, m[key]) : key \in {k \in Key : m[k] # NULL}}

(* The version v is the map m.                                             *)
Represents(L, v, m) ==
    IF v = 0 THEN \A key \in Key : m[key] = NULL
             ELSE v \in DOMAIN L /\ L[v].recs = RecordsOf(m)

(* The inductive invariant.  The first cell is a header: 0 is no node.     *)
TreeInv ==
    /\ ver \in Nat /\ want \in [Key -> Value \cup {NULL}]
    /\ file # <<>> => file[1] = Header
    /\ \E L : Labelled(L, file) /\ Represents(L, ver, want)

-----------------------------------------------------------------------------
(* Sequences as functions of their places.                                 *)

(* A sequence is the function of its places,                               *)
LEMMA SeqIs ==
    ASSUME NEW S, NEW s \in Seq(S)
    PROVE  s = [k \in 1..Len(s) |-> s[k]]
  OBVIOUS

(* and a function of the places up to n is a sequence.                     *)
LEMMA IsSeq ==
    ASSUME NEW S, NEW n \in Nat, NEW f, f = [k \in 1..n |-> f[k]], \A k \in 1..n : f[k] \in S
    PROVE  f \in Seq(S) /\ Len(f) = n
  <1>1. f \in [1..n -> S]
    OBVIOUS
  <1> QED BY <1>1

(* The sequences of SequencesExt, place by place.                          *)
LEMMA CatIs ==
    ASSUME NEW S, NEW a \in Seq(S), NEW b \in Seq(S)
    PROVE  a \o b = [k \in 1..Len(a) + Len(b) |-> IF k <= Len(a) THEN a[k] ELSE b[k - Len(a)]]
   <1> DEFINE d == a \o b
   <1>1. d \in Seq(S) /\ Len(d) = Len(a) + Len(b) /\ Len(a) \in Nat /\ Len(b) \in Nat
     OBVIOUS
   <1>2. \A k \in 1..Len(a) + Len(b) : d[k] = IF k <= Len(a) THEN a[k] ELSE b[k - Len(a)]
     OBVIOUS
   <1> HIDE DEF d
   <1>3. d = [k \in 1..Len(d) |-> d[k]]
     BY <1>1
   <1>4. d = [k \in 1..Len(a) + Len(b) |-> IF k <= Len(a) THEN a[k] ELSE b[k - Len(a)]]
     BY <1>1, <1>2, <1>3
   <1> QED BY <1>4 DEF d

(* Two sequences, one behind the other, are one.                           *)
LEMMA CatSeq ==
    ASSUME NEW S, NEW a \in Seq(S), NEW b \in Seq(S)
    PROVE  a \o b \in Seq(S) /\ Len(a \o b) = Len(a) + Len(b) /\ Len(a) \in Nat /\ Len(b) \in Nat
  OBVIOUS

(* A part of a sequence.                                                   *)
LEMMA SubSeqIs ==
    ASSUME NEW S, NEW s \in Seq(S), NEW m \in 1..Len(s)+1, NEW n \in m-1..Len(s)
    PROVE  SubSeq(s, m, n) = [k \in 1..n-m+1 |-> s[m+k-1]]
   <1> DEFINE d == SubSeq(s, m, n)
   <1>1. d \in Seq(S) /\ Len(d) = n-m+1 
     OBVIOUS
   <1>2. \A k \in 1..n-m+1 : d[k] = s[m+k-1]
     OBVIOUS
   <1> HIDE DEF d
   <1>3. d = [k \in 1..Len(d) |-> d[k]]
     BY <1>1
   <1>4. d = [k \in 1..n-m+1 |-> s[m+k-1]]
     BY <1>1, <1>2, <1>3
   <1> QED BY <1>4 DEF d

(* InsertAt moves what is at i and behind by one place.                    *)
LEMMA InsertAtIs ==
    ASSUME NEW S, NEW s \in Seq(S), NEW x \in S, NEW i \in 1..Len(s)+1
    PROVE  InsertAt(s,i,x) = [k \in 1..Len(s)+1 |->
               IF k < i THEN s[k] ELSE IF k = i THEN x ELSE s[k-1]]
<1> DEFINE a == SubSeq(s,1,i-1)
           b == SubSeq(s,i,Len(s))
           c == a \o <<x>>
           d == c \o b
<1>1. Len(s) \in Nat 
   OBVIOUS
<1>2. a \in Seq(S) /\ Len(a) = i - 1 /\ \A k \in 1..i-1 : a[k] = s[k]
   BY <1>1
<1>3. b \in Seq(S) /\ Len(b) = Len(s) - i + 1 /\ \A k \in 1..Len(s)-i+1 : b[k] = s[k+i-1]
   BY <1>1
<1> HIDE DEF a, b
<1>4. c \in Seq(S) /\ Len(c) = i /\ \A k \in 1..i : c[k] = IF k < i THEN s[k] ELSE x
  BY <1>2
<1> HIDE DEF c
<1>5. d = [k \in 1..Len(s)+1 |-> IF k <= i THEN c[k] ELSE b[k-i]]
  <2>1. d = [k \in 1..Len(c)+Len(b) |-> IF k <= Len(c) THEN c[k] ELSE b[k-Len(c)]]
    BY <1>3, <1>4, CatIs
  <2>2. Len(c) + Len(b) = Len(s) + 1
    BY <1>1, <1>3, <1>4
  <2> QED BY <1>4, <2>1, <2>2
<1>6. \A k \in 1..Len(s)+1 : (IF k <= i THEN c[k] ELSE b[k-i])
          = (IF k < i THEN s[k] ELSE IF k = i THEN x ELSE s[k-1])
  <2> SUFFICES ASSUME NEW k \in 1..Len(s)+1 PROVE (IF k <= i THEN c[k] ELSE b[k-i])
          = (IF k < i THEN s[k] ELSE IF k = i THEN x ELSE s[k-1])
    OBVIOUS
  <2>1. CASE k <= i
    BY <1>1, <1>4, <2>1
  <2>2. CASE k > i
    BY <1>1, <1>3, <2>2
  <2> QED BY <1>1, <2>1, <2>2
<1> HIDE DEF d
<1>7. d = [k \in 1..Len(s)+1 |-> IF k < i THEN s[k] ELSE IF k = i THEN x ELSE s[k-1]]
  BY <1>5, <1>6
<1> QED BY <1>7 DEF InsertAt, a, b, c, d

(* RemoveAt closes the gap.                                                *)
LEMMA RemoveAtIs ==
    ASSUME NEW S, NEW s \in Seq(S),NEW i \in 1..Len(s)
    PROVE  RemoveAt(s,i) = [k \in 1..Len(s)-1 |-> IF k < i THEN s[k] ELSE s[k+1]]
<1> DEFINE a == SubSeq(s,1,i-1)
           b == SubSeq(s,i+1,Len(s))
           d == a \o b
<1>1. Len(s) \in Nat 
   OBVIOUS
<1>2. a \in Seq(S) /\ Len(a) = i - 1 /\ \A k \in 1..i-1 : a[k] = s[k]
   BY <1>1
<1>3. b \in Seq(S) /\ Len(b) = Len(s) - i /\ \A k \in 1..Len(s)-i : b[k] = s[k+i]
   BY <1>1
<1> HIDE DEF a, b
<1>4. d = [k \in 1..Len(s)-1 |-> IF k <= i - 1 THEN a[k] ELSE b[k-(i-1)]]
  <2>1. d = [k \in 1..Len(a)+Len(b) |-> IF k <= Len(a) THEN a[k] ELSE b[k-Len(a)]]
    BY <1>2, <1>3, CatIs
  <2>2. Len(a) + Len(b) = Len(s) - 1
    BY <1>1, <1>2, <1>3
  <2> QED BY <1>2, <2>1, <2>2
<1>5. \A k \in 1..Len(s)-1 : (IF k <= i-1 THEN a[k] ELSE b[k-(i-1)])
          = (IF k < i THEN s[k] ELSE s[k+1])
  BY <1>1, <1>2, <1>3
<1> HIDE DEF d
<1>6. d = [k \in 1..Len(s)-1 |-> IF k < i THEN s[k] ELSE s[k+1]]
  BY <1>4, <1>5
<1> QED BY <1>6 DEF RemoveAt, a, b, d

(* A set of naturals that is not empty has a least one.                    *)
LEMMA LeastNat ==
    ASSUME NEW S, S \subseteq Nat, S # {}
    PROVE  \E m \in S : \A n \in S : m <= n
<1>1. PICK m \in S : \A n \in S : <<n, m>> \notin OpToRel(<, Nat)
    BY WFMin, NatLessThanWellFounded, Zenon
<1>2. \A n \in S : ~(n < m)
    BY <1>1, Zenon DEF OpToRel
<1>3. \A n \in S : n \in Nat /\ m \in Nat
    OBVIOUS
<1> QED
    BY <1>2, <1>3

(* It is what Min gives.                                                   *)
LEMMA MinIs ==
    ASSUME NEW S \in SUBSET Nat, S # {}
    PROVE  Min(S) \in S /\ \A n \in S : Min(S) <= n
<1>1. PICK m \in S : \A n \in S : m <= n
    BY LeastNat
<1>2. \E x \in S : \A y \in S : x =< y
    BY <1>1
<1> QED
    BY <1>2, Zenon DEF Min

-----------------------------------------------------------------------------
(* Leaves.                                                                 *)

(* What the records are when key is given the value val, or deleted.       *)
Changed(R, key, val) ==
    {r \in R : r.key # key} \cup (IF val = NULL THEN {} ELSE {Rec(key, val)})

(* insert_into_leaf_range keeps the records in order and adds the new one, *)
(* unless they all come before it and it may not be put at the end.        *)
LEMMA RangeInserted ==
    ASSUME NEW recs \in Seq(Record), Sorted(recs), NEW key \in Key, NEW val \in Value,
           NEW e \in BOOLEAN
    PROVE  LET a == InsertIntoRange(recs, key, val, e) IN
           \/ /\ a.inserted /\ a.recs \in Seq(Record) /\ Sorted(a.recs)
              /\ Len(a.recs) \in {Len(recs), Len(recs) + 1} /\ a.recs # <<>>
              /\ RecordSet(a.recs) = Changed(RecordSet(recs), key, val)
              /\ ~e => \E i \in DOMAIN recs : key <= recs[i].key
           \/ /\ ~a.inserted /\ a.recs = recs /\ ~e
              /\ \A i \in DOMAIN recs : recs[i].key < key
<1> DEFINE a  == InsertIntoRange(recs, key, val, e)
           at == {i \in DOMAIN recs : key <= recs[i].key}
           i  == Min(at)
           x  == Rec(key, val)
<1>1. /\ Len(recs) \in Nat /\ DOMAIN recs = 1..Len(recs)
      /\ \A k \in 1..Len(recs) : recs[k] \in Record
    OBVIOUS
<1>2. Key \subseteq Nat /\ \A r \in Record : r.key \in Key
    BY DEF Key, Record
<1>3. x \in Record /\ x.key = key /\ val # NULL
    BY TreeAssumption DEF Rec, Record
<1>4. Changed(RecordSet(recs), key, val) = {recs[k] : k \in {l \in 1..Len(recs) : recs[l].key # key}} \cup {x}
    BY <1>1, <1>3 DEF Changed, RecordSet
<1>5. CASE at = {}
    <2>1. \A k \in 1..Len(recs) : recs[k].key < key
        BY <1>1, <1>2, <1>5
    <2>2. CASE ~e
        BY <1>1, <1>5, <2>1, <2>2 DEF InsertIntoRange
    <2>3. CASE e
        <3>1. a.inserted /\ a.recs = Append(recs, x)
            BY <1>5, <2>3 DEF InsertIntoRange
        <3> DEFINE b == Append(recs, x)
        <3>2. b \in Seq(Record) /\ Len(b) = Len(recs) + 1 /\ b[Len(recs) + 1] = x
              /\ \A k \in 1..Len(recs) : b[k] = recs[k]
            BY <1>1, <1>3
        <3> HIDE DEF b
        <3>3. Sorted(b)
            BY <1>1, <1>3, <2>1, <3>2 DEF Sorted
        <3>4. RecordSet(b) = {recs[k] : k \in 1..Len(recs)} \cup {x}
            BY <1>1, <3>2 DEF RecordSet
        <3>5. {recs[k] : k \in 1..Len(recs)}
                  = {recs[k] : k \in {l \in 1..Len(recs) : recs[l].key # key}}
            BY <1>1, <1>2, <2>1
        <3>6. b # <<>>
            BY <1>1, <3>2
        <3> QED
            BY <1>4, <2>3, <3>1, <3>2, <3>3, <3>4, <3>5, <3>6 DEF b
    <2> QED
        BY <2>2, <2>3
<1>6. CASE at # {}
    <2>1. i \in 1..Len(recs) /\ key <= recs[i].key /\ \A k \in 1..i - 1 : recs[k].key < key
        <3>1. at \in SUBSET Nat
            BY <1>1
        <3>2. i \in at /\ \A k \in at : i <= k
            BY <1>6, <3>1, MinIs
        <3> HIDE DEF i
        <3> QED
            BY <1>1, <1>2, <3>2
    <2> HIDE DEF i
    <2>2. a.inserted /\ a.recs = IF recs[i].key = key THEN [recs EXCEPT ![i] = x]
                                                      ELSE InsertAt(recs, i, x)
        BY <1>6 DEF InsertIntoRange, i
    <2>3. \A k \in i + 1 .. Len(recs) : key < recs[k].key
        <3>1. SUFFICES ASSUME NEW k \in i + 1 .. Len(recs)
                       PROVE  key < recs[k].key
            OBVIOUS
        <3>2. k \in 1..Len(recs) /\ i < k
            BY <1>1, <2>1
        <3>3. recs[i].key < recs[k].key
            BY <1>1, <2>1, <3>2 DEF Sorted
        <3>4. recs[i].key \in Key /\ recs[k].key \in Key
            BY <1>2, <2>1, <3>2
        <3> QED
            BY <2>1, <3>3, <3>4 DEF Key
    <2>4. CASE recs[i].key = key
        <3> DEFINE b == [recs EXCEPT ![i] = x]
        <3>1. b \in Seq(Record) /\ Len(b) = Len(recs) /\ b[i] = x
              /\ \A k \in 1..Len(recs) : k # i => b[k] = recs[k]
            BY <1>1, <1>3, <2>1
        <3> HIDE DEF b
        <3>2. \A k \in 1..Len(recs) : b[k].key = recs[k].key
            BY <1>3, <2>4, <3>1
        <3>3. Sorted(b)
            BY <1>1, <3>1, <3>2 DEF Sorted
        <3>4. RecordSet(b) = {recs[k] : k \in 1..Len(recs) \ {i}} \cup {x}
            BY <1>1, <2>1, <3>1 DEF RecordSet
        <3>5. \A k \in 1..Len(recs) : recs[k].key # key <=> k # i
            BY <1>1, <1>2, <2>1, <2>3, <2>4
        <3>6. RecordSet(b) = Changed(RecordSet(recs), key, val)
            BY <1>4, <3>4, <3>5
        <3>7. b # <<>>
            BY <1>1, <2>1, <3>1
        <3> QED
            BY <1>1, <2>1, <2>2, <2>4, <3>1, <3>3, <3>6, <3>7 DEF b
    <2>5. CASE recs[i].key # key
        <3> DEFINE b == InsertAt(recs, i, x)
        <3>1. b = [k \in 1..Len(recs)+1 |->
                      IF k < i THEN recs[k] ELSE IF k = i THEN x ELSE recs[k-1]]
            BY <1>1, <1>3, <2>1, InsertAtIs
        <3> HIDE DEF b
        <3>2. \A k \in 1..Len(recs)+1 : b[k] = IF k < i THEN recs[k] ELSE IF k = i THEN x ELSE recs[k-1]
            BY <3>1
        <3>3. b \in Seq(Record) /\ Len(b) = Len(recs) + 1
            <4>1. \A k \in 1..Len(recs)+1 : b[k] \in Record
                BY <1>1, <1>3, <2>1, <3>2
            <4>2. b = [k \in 1..Len(recs)+1 |-> b[k]]
                BY <3>1
            <4>3. Len(recs) + 1 \in Nat
                BY <1>1
            <4> QED
                BY <4>1, <4>2, <4>3, IsSeq
        <3> DEFINE K(k) == recs[k].key
        <3>4. key \in Nat /\ i \in Nat /\ Len(recs) \in Nat /\ (\A k \in 1..Len(recs) : K(k) \in Nat)
              /\ key < K(i)
            <4>1. key \in Nat /\ \A k \in 1..Len(recs) : K(k) \in Nat
                BY <1>1, <1>2
            <4>2. K(i) # key /\ key <= K(i)
                BY <2>1, <2>5
            <4> QED
                BY <1>1, <2>1, <4>1, <4>2
        <3>5. Sorted(b)
            <4> SUFFICES ASSUME NEW j \in 1..Len(recs)+1, NEW k \in 1..Len(recs)+1, j < k
                         PROVE  b[j].key < b[k].key
                BY <1>1, <3>3 DEF Sorted
            <4>1. \A m, n \in 1..Len(recs) : m < n => K(m) < K(n)
                BY <1>1 DEF Sorted
            <4>2. \A m \in 1..Len(recs)+1 : b[m].key = IF m < i THEN K(m) ELSE IF m = i THEN key ELSE K(m-1)
                BY <1>3, <3>2
            <4>3. (\A m \in 1..i - 1 : K(m) < key) /\ i \in 1..Len(recs)
                BY <2>1
            <4> HIDE DEF K
            <4>4. CASE k < i
                <5>1. b[k].key = K(k) /\ b[j].key = K(j) /\ k \in 1..Len(recs) /\ j \in 1..Len(recs)
                    BY <3>4, <4>2, <4>3, <4>4
                <5> QED
                    BY <4>1, <5>1
            <4>5. CASE k = i
                BY <3>4, <4>2, <4>3, <4>5
            <4>6. CASE k > i /\ j < i
                <5>1. b[k].key = K(k-1) /\ b[j].key = K(j) /\ j < k-1 /\ k-1 \in 1..Len(recs) /\ j \in 1..Len(recs)
                    BY <3>4, <4>2, <4>3, <4>6
                <5> QED
                    BY <4>1, <5>1
            <4>7. CASE k > i /\ j = i
                <5>1. b[k].key = K(k-1) /\ b[j].key = key /\ k-1 \in i..Len(recs) /\ (k-1 = i \/ i < k-1)
                    BY <3>4, <4>2, <4>3, <4>7
                <5>2. K(k-1) = K(i) \/ K(i) < K(k-1)
                    BY <4>1, <4>3, <5>1
                <5> QED
                    BY <3>4, <4>3, <5>1, <5>2
            <4>8. CASE k > i /\ j > i
                <5>1. b[k].key = K(k-1) /\ b[j].key = K(j-1) /\ j-1 < k-1 /\ k-1 \in 1..Len(recs) /\ j-1 \in 1..Len(recs)
                    BY <3>4, <4>2, <4>3, <4>8
                <5> QED
                    BY <4>1, <5>1
            <4>9. j \in Int /\ k \in Int /\ i \in Int
                BY <3>4
            <4>10. k < i \/ k = i \/ (k > i /\ (j < i \/ j = i \/ j > i))
                BY <4>9
            <4> QED
                BY <4>4, <4>5, <4>6, <4>7, <4>8, <4>10
        <3>6. RecordSet(b) = {recs[k] : k \in 1..Len(recs)} \cup {x}
            <4>1. \A k \in 1..Len(recs)+1 : b[k] \in {recs[l] : l \in 1..Len(recs)} \cup {x}
                BY <1>1, <2>1, <3>2
            <4>2. b[i] = x /\ i \in 1..Len(recs)+1
                BY <1>1, <2>1, <3>2
            <4>3. \A k \in 1..Len(recs) : \E l \in 1..Len(recs)+1 : b[l] = recs[k]
                <5> SUFFICES ASSUME NEW k \in 1..Len(recs)
                             PROVE  \E l \in 1..Len(recs)+1 : b[l] = recs[k]
                    OBVIOUS
                <5>1. CASE k < i
                    BY <1>1, <2>1, <3>2, <5>1
                <5>2. CASE k >= i
                    <6>1. k + 1 \in 1..Len(recs)+1 /\ b[k + 1] = recs[k]
                        BY <1>1, <2>1, <3>2, <5>2
                    <6> QED
                        BY <6>1
                <5> QED
                    BY <1>1, <2>1, <5>1, <5>2
            <4>4. DOMAIN b = 1..Len(recs)+1
                BY <3>1
            <4> QED
                BY <4>1, <4>2, <4>3, <4>4 DEF RecordSet
        <3>7. \A k \in 1..Len(recs) : recs[k].key # key
            BY <1>1, <1>2, <2>1, <2>3, <2>5
        <3>8. RecordSet(b) = Changed(RecordSet(recs), key, val)
            BY <1>4, <3>6, <3>7
        <3>9. b # <<>>
            BY <1>1, <3>3
        <3> QED
            BY <1>1, <2>1, <2>2, <2>5, <3>3, <3>5, <3>8, <3>9 DEF b
    <2> QED
        BY <2>4, <2>5
<1> QED
    BY <1>5, <1>6

(* At the end it is always put.                                            *)
LEMMA RangeInsertedAtEnd ==
    ASSUME NEW recs \in Seq(Record), Sorted(recs), NEW key \in Key, NEW val \in Value
    PROVE  LET a == InsertIntoRange(recs, key, val, TRUE) IN
           /\ a.recs \in Seq(Record) /\ Sorted(a.recs)
           /\ Len(a.recs) \in {Len(recs), Len(recs) + 1} /\ a.recs # <<>>
           /\ RecordSet(a.recs) = Changed(RecordSet(recs), key, val)
<1>1. PICK e \in BOOLEAN : e = TRUE
    OBVIOUS
<1> DEFINE a == InsertIntoRange(recs, key, val, e)
<1>2. \/ /\ a.inserted /\ a.recs \in Seq(Record) /\ Sorted(a.recs)
         /\ Len(a.recs) \in {Len(recs), Len(recs) + 1} /\ a.recs # <<>>
         /\ RecordSet(a.recs) = Changed(RecordSet(recs), key, val)
         /\ ~e => \E i \in DOMAIN recs : key <= recs[i].key
      \/ /\ ~a.inserted /\ a.recs = recs /\ ~e
         /\ \A i \in DOMAIN recs : recs[i].key < key
    BY RangeInserted
<1> HIDE DEF a
<1>3. /\ a.recs \in Seq(Record) /\ Sorted(a.recs)
      /\ Len(a.recs) \in {Len(recs), Len(recs) + 1} /\ a.recs # <<>>
      /\ RecordSet(a.recs) = Changed(RecordSet(recs), key, val)
    BY <1>1, <1>2
<1> QED
    BY <1>1, <1>3 DEF a

(* The two halves of a leaf.                                               *)
LEMMA Halves ==
    ASSUME NEW recs \in Seq(Record), Sorted(recs), NEW half \in 1..Len(recs)-1
    PROVE  LET a == SubSeq(recs, 1, half)
               b == SubSeq(recs, half + 1, Len(recs)) IN
           /\ a \in Seq(Record) /\ Sorted(a) /\ Len(a) = half
           /\ b \in Seq(Record) /\ Sorted(b) /\ Len(b) = Len(recs) - half
           /\ RecordSet(recs) = RecordSet(a) \cup RecordSet(b)
           /\ \A r \in RecordSet(a), q \in RecordSet(b) : r.key < q.key
<1> DEFINE a == SubSeq(recs, 1, half)
           b == SubSeq(recs, half + 1, Len(recs))
<1>1. /\ Len(recs) \in Nat /\ DOMAIN recs = 1..Len(recs)
      /\ \A k \in 1..Len(recs) : recs[k] \in Record
    OBVIOUS
<1>2. a \in Seq(Record) /\ Len(a) = half /\ DOMAIN a = 1..half /\ \A k \in 1..half : a[k] = recs[k]
    BY <1>1
<1>3. /\ b \in Seq(Record) /\ Len(b) = Len(recs) - half /\ DOMAIN b = 1..Len(recs) - half
      /\ \A k \in 1..Len(recs) - half : b[k] = recs[k + half]
    BY <1>1
<1> HIDE DEF a, b
<1>4. \A m, n \in 1..Len(recs) : m < n => recs[m].key < recs[n].key
    BY <1>1 DEF Sorted
<1>5. Sorted(a)
    BY <1>1, <1>2, <1>4 DEF Sorted
<1>6. Sorted(b)
    <2> SUFFICES ASSUME NEW i \in 1..Len(recs) - half, NEW j \in 1..Len(recs) - half, i < j
                 PROVE  b[i].key < b[j].key
        BY <1>3 DEF Sorted
    <2>1. i + half \in 1..Len(recs) /\ j + half \in 1..Len(recs) /\ i + half < j + half
        BY <1>1
    <2> QED
        BY <1>3, <1>4, <2>1
<1>7. \A r \in RecordSet(a), q \in RecordSet(b) : r.key < q.key
    <2> SUFFICES ASSUME NEW i \in 1..half, NEW j \in 1..Len(recs) - half
                 PROVE  a[i].key < b[j].key
        BY <1>2, <1>3 DEF RecordSet
    <2>1. i \in 1..Len(recs) /\ j + half \in 1..Len(recs) /\ i < j + half
        BY <1>1
    <2> QED
        BY <1>2, <1>3, <1>4, <2>1
<1>8. RecordSet(recs) \subseteq RecordSet(a) \cup RecordSet(b)
    <2> SUFFICES ASSUME NEW k \in 1..Len(recs)
                 PROVE  recs[k] \in RecordSet(a) \cup RecordSet(b)
        BY <1>1 DEF RecordSet
    <2>1. CASE k <= half
        BY <1>2, <2>1 DEF RecordSet
    <2>2. CASE k > half
        <3>1. k - half \in 1..Len(recs) - half /\ b[k - half] = recs[k]
            BY <1>1, <1>3, <2>2
        <3> QED
            BY <1>3, <3>1 DEF RecordSet
    <2> QED
        BY <1>1, <2>1, <2>2
<1>9. RecordSet(a) \cup RecordSet(b) \subseteq RecordSet(recs)
    <2>1. \A i \in 1..half : i \in 1..Len(recs) /\ a[i] = recs[i]
        BY <1>1, <1>2
    <2>2. \A i \in 1..Len(recs) - half : i + half \in 1..Len(recs) /\ b[i] = recs[i + half]
        BY <1>1, <1>3
    <2>3. RecordSet(a) \subseteq RecordSet(recs)
        BY <1>1, <1>2, <2>1 DEF RecordSet
    <2>4. RecordSet(b) \subseteq RecordSet(recs)
        BY <1>1, <1>3, <2>2 DEF RecordSet
    <2> QED
        BY <2>3, <2>4
<1> QED
    BY <1>2, <1>3, <1>5, <1>6, <1>7, <1>8, <1>9 DEF a, b

NewNode == [key : Key, node : NodeType]

(* What a node that replaces others keeps: it is not empty, its records do *)
(* not come before its key, nor its key before lo; of two nodes, the       *)
(* second's key comes behind the first's records.                          *)
GoodNodes(L, nodes, lo, h) ==
    /\ nodes \in Seq(NewNode) /\ Len(nodes) \in 0..2
    /\ \A i \in DOMAIN nodes :
          /\ NodeOK(L, nodes[i].node)
          /\ LabelOf(L, nodes[i].node) \in Label
          /\ LabelOf(L, nodes[i].node).recs # {} /\ LabelOf(L, nodes[i].node).h = h
          /\ lo <= nodes[i].key
          /\ \A r \in LabelOf(L, nodes[i].node).recs : nodes[i].key <= r.key
    /\ \A i, j \in DOMAIN nodes : i < j =>
          \A r \in LabelOf(L, nodes[i].node).recs : r.key < nodes[j].key

NodesRecs(L, nodes) == UNION {LabelOf(L, nodes[i].node).recs : i \in DOMAIN nodes}

(* A leaf that may be written.                                             *)
LEMMA LeafGood ==
    ASSUME NEW L, NEW recs \in Seq(Record), Sorted(recs), Len(recs) <= MAX_NODE_SIZE
    PROVE  /\ NodeOK(L, Leaf(recs)) /\ Leaf(recs) \in NodeType
           /\ LabelOf(L, Leaf(recs)) = [recs |-> RecordSet(recs), h |-> 1]
           /\ LabelOf(L, Leaf(recs)) \in Label
           /\ recs # <<>> => /\ recs[1] \in RecordSet(recs) /\ recs[1].key \in Key
                             /\ \A r \in RecordSet(recs) : recs[1].key <= r.key
<1>1. NodeOK(L, Leaf(recs)) /\ Leaf(recs) \in NodeType
    BY DEF NodeOK, LeafOK, Leaf, NodeType, Record
<1>2. LabelOf(L, Leaf(recs)) = [recs |-> RecordSet(recs), h |-> 1]
    BY DEF LabelOf, Leaf
<1>3. LabelOf(L, Leaf(recs)) \in Label
    BY <1>2 DEF Label, RecordSet
<1>4. ASSUME recs # <<>>
      PROVE  /\ recs[1] \in RecordSet(recs) /\ recs[1].key \in Key
             /\ \A r \in RecordSet(recs) : recs[1].key <= r.key
    <2>1. 1 \in DOMAIN recs /\ DOMAIN recs = 1..Len(recs) /\ Len(recs) \in Nat
        BY <1>4
    <2>2. \A i \in DOMAIN recs : recs[i] \in Record
        OBVIOUS
    <2>3. \A i \in DOMAIN recs : recs[i].key \in Nat /\ recs[i].key \in Key
        BY <2>2 DEF Record, Key
    <2>4. \A i \in DOMAIN recs : i = 1 \/ recs[1].key < recs[i].key
        BY <2>1 DEF Sorted
    <2> QED
        BY <2>1, <2>3, <2>4 DEF RecordSet
<1> QED
    BY <1>1, <1>2, <1>3, <1>4

(* One leaf in the place of another,                                       *)
LEMMA OneLeaf ==
    ASSUME NEW L, NEW recs \in Seq(Record), Sorted(recs), Len(recs) <= MAX_NODE_SIZE,
           recs # <<>>, NEW lo \in Key, \A r \in RecordSet(recs) : lo <= r.key
    PROVE  /\ GoodNodes(L, WithKeys(<<Leaf(recs)>>), lo, 1)
           /\ NodesRecs(L, WithKeys(<<Leaf(recs)>>)) = RecordSet(recs)
<1> DEFINE nodes == WithKeys(<<Leaf(recs)>>)
<1>1. nodes = <<[key |-> recs[1].key, node |-> Leaf(recs)]>>
    BY DEF WithKeys, Leaf
<1>2. /\ NodeOK(L, Leaf(recs)) /\ Leaf(recs) \in NodeType
      /\ LabelOf(L, Leaf(recs)) = [recs |-> RecordSet(recs), h |-> 1]
      /\ LabelOf(L, Leaf(recs)) \in Label
      /\ recs[1] \in RecordSet(recs) /\ recs[1].key \in Key
      /\ \A r \in RecordSet(recs) : recs[1].key <= r.key
    BY LeafGood
<1> HIDE DEF nodes
<1>3. /\ nodes \in Seq(NewNode) /\ Len(nodes) = 1 /\ DOMAIN nodes = {1}
      /\ nodes[1].key = recs[1].key /\ nodes[1].node = Leaf(recs)
    BY <1>1, <1>2 DEF NewNode
<1>4. GoodNodes(L, nodes, lo, 1)
    BY <1>2, <1>3 DEF GoodNodes
<1>5. NodesRecs(L, nodes) = RecordSet(recs)
    BY <1>2, <1>3 DEF NodesRecs
<1> QED
    BY <1>4, <1>5 DEF nodes

(* and two.                                                                *)
LEMMA TwoLeaves ==
    ASSUME NEW L,
           NEW a \in Seq(Record), Sorted(a), Len(a) <= MAX_NODE_SIZE, a # <<>>,
           NEW b \in Seq(Record), Sorted(b), Len(b) <= MAX_NODE_SIZE, b # <<>>,
           NEW lo \in Key, \A r \in RecordSet(a) \cup RecordSet(b) : lo <= r.key,
           \A r \in RecordSet(a), q \in RecordSet(b) : r.key < q.key
    PROVE  /\ GoodNodes(L, WithKeys(<<Leaf(a), Leaf(b)>>), lo, 1)
           /\ NodesRecs(L, WithKeys(<<Leaf(a), Leaf(b)>>)) = RecordSet(a) \cup RecordSet(b)
<1> DEFINE nodes == WithKeys(<<Leaf(a), Leaf(b)>>)
<1>1. nodes = <<[key |-> a[1].key, node |-> Leaf(a)], [key |-> b[1].key, node |-> Leaf(b)]>>
    BY DEF WithKeys, Leaf
<1>2. /\ NodeOK(L, Leaf(a)) /\ Leaf(a) \in NodeType
      /\ LabelOf(L, Leaf(a)) = [recs |-> RecordSet(a), h |-> 1]
      /\ LabelOf(L, Leaf(a)) \in Label
      /\ a[1] \in RecordSet(a) /\ a[1].key \in Key
      /\ \A r \in RecordSet(a) : a[1].key <= r.key
    BY LeafGood
<1>3. /\ NodeOK(L, Leaf(b)) /\ Leaf(b) \in NodeType
      /\ LabelOf(L, Leaf(b)) = [recs |-> RecordSet(b), h |-> 1]
      /\ LabelOf(L, Leaf(b)) \in Label
      /\ b[1] \in RecordSet(b) /\ b[1].key \in Key
      /\ \A r \in RecordSet(b) : b[1].key <= r.key
    BY LeafGood
<1> HIDE DEF nodes
<1>4. /\ nodes \in Seq(NewNode) /\ Len(nodes) = 2 /\ DOMAIN nodes = {1, 2}
      /\ nodes[1].key = a[1].key /\ nodes[1].node = Leaf(a)
      /\ nodes[2].key = b[1].key /\ nodes[2].node = Leaf(b)
    BY <1>1, <1>2, <1>3 DEF NewNode
<1>5. GoodNodes(L, nodes, lo, 1)
    <2>1. \A i \in DOMAIN nodes :
              /\ NodeOK(L, nodes[i].node)
              /\ LabelOf(L, nodes[i].node) \in Label
              /\ LabelOf(L, nodes[i].node).recs # {} /\ LabelOf(L, nodes[i].node).h = 1
              /\ lo <= nodes[i].key
              /\ \A r \in LabelOf(L, nodes[i].node).recs : nodes[i].key <= r.key
        BY <1>2, <1>3, <1>4
    <2>2. \A r \in LabelOf(L, nodes[1].node).recs : r.key < nodes[2].key
        BY <1>2, <1>3, <1>4
    <2> QED
        BY <1>4, <2>1, <2>2 DEF GoodNodes
<1>6. NodesRecs(L, nodes) = RecordSet(a) \cup RecordSet(b)
    BY <1>2, <1>3, <1>4 DEF NodesRecs
<1> QED
    BY <1>5, <1>6 DEF nodes

(* remove_from_leaf drops the record of the key.                           *)
LEMMA LeafRemoved ==
    ASSUME NEW L, NEW leaf, LeafOK(leaf), NEW key \in Key, NEW lo \in Key,
           \A r \in RecordSet(leaf.recs) : lo <= r.key
    PROVE  /\ GoodNodes(L, RemoveFromLeaf(leaf, key), lo, 1)
           /\ NodesRecs(L, RemoveFromLeaf(leaf, key)) = Changed(RecordSet(leaf.recs), key, NULL)
<1> DEFINE recs == leaf.recs
           at   == {i \in DOMAIN recs : recs[i].key = key}
           left == IF at = {} THEN recs ELSE RemoveAt(recs, Min(at))
<1>1. /\ recs \in Seq(Record) /\ Len(recs) \in Nat /\ DOMAIN recs = 1..Len(recs)
      /\ Len(recs) <= MAX_NODE_SIZE /\ Sorted(recs)
    BY DEF LeafOK
<1>2. RemoveFromLeaf(leaf, key) = IF left = <<>> THEN <<>> ELSE WithKeys(<<Leaf(left)>>)
    BY DEF RemoveFromLeaf
<1>3. Changed(RecordSet(recs), key, NULL) = {r \in RecordSet(recs) : r.key # key}
    BY DEF Changed
<1> HIDE DEF recs
<1>4. left \in Seq(Record) /\ Sorted(left) /\ Len(left) <= MAX_NODE_SIZE
      /\ RecordSet(left) = {r \in RecordSet(recs) : r.key # key}
    <2>1. CASE at = {}
        <3>1. RecordSet(recs) = {r \in RecordSet(recs) : r.key # key}
            BY <2>1 DEF RecordSet
        <3> QED
            BY <1>1, <2>1, <3>1
    <2>2. CASE at # {}
        <3> DEFINE m == Min(at)
        <3>1. at \in SUBSET Nat
            BY <1>1
        <3>2. m \in at
            BY <2>2, <3>1, MinIs
        <3> HIDE DEF m
        <3>3. m \in 1..Len(recs) /\ recs[m].key = key
            BY <1>1, <3>2
        <3> DEFINE b == RemoveAt(recs, m)
        <3>4. b = [k \in 1..Len(recs)-1 |-> IF k < m THEN recs[k] ELSE recs[k+1]]
            BY <1>1, <3>3, RemoveAtIs
        <3>5. left = b
            BY <2>2 DEF m
        <3> HIDE DEF b, left
        <3>6. \A k \in 1..Len(recs) : recs[k] \in Record /\ recs[k].key \in Nat
            <4>1. \A k \in 1..Len(recs) : recs[k] \in Record
                BY <1>1
            <4>2. \A r \in Record : r.key \in Nat
                BY DEF Record, Key
            <4> QED
                BY <4>1, <4>2
        <3>7. \A k \in 1..Len(recs)-1 : b[k] = IF k < m THEN recs[k] ELSE recs[k+1]
            BY <3>4
        <3>8. b \in Seq(Record) /\ Len(b) = Len(recs) - 1 /\ DOMAIN b = 1..Len(recs)-1
            <4>1. \A k \in 1..Len(recs)-1 : b[k] \in Record
                <5>1. \A k \in 1..Len(recs)-1 : k \in 1..Len(recs) /\ k+1 \in 1..Len(recs)
                    BY <1>1
                <5> QED
                    BY <3>6, <3>7, <5>1
            <4>2. b = [k \in 1..Len(recs)-1 |-> b[k]]
                BY <3>4
            <4>3. Len(recs)-1 \in Nat
                BY <1>1, <3>3
            <4>4. b \in Seq(Record) /\ Len(b) = Len(recs) - 1
                BY <4>1, <4>2, <4>3, IsSeq
            <4> QED
                BY <3>4, <4>4
        <3>9. \A i, j \in 1..Len(recs) : i < j => recs[i].key < recs[j].key
            BY <1>1 DEF Sorted
        <3>10. Sorted(b)
            <4> SUFFICES ASSUME NEW j \in 1..Len(recs)-1, NEW k \in 1..Len(recs)-1, j < k
                         PROVE  b[j].key < b[k].key
                BY <3>8 DEF Sorted
            <4>1. PICK p \in 1..Len(recs) : b[j] = recs[p] /\ p = IF j < m THEN j ELSE j+1
                <5>1. j \in 1..Len(recs) /\ j+1 \in 1..Len(recs)
                    BY <1>1
                <5> QED
                    BY <3>7, <5>1
            <4>2. PICK q \in 1..Len(recs) : b[k] = recs[q] /\ q = IF k < m THEN k ELSE k+1
                <5>1. k \in 1..Len(recs) /\ k+1 \in 1..Len(recs)
                    BY <1>1
                <5> QED
                    BY <3>7, <5>1
            <4>3. p < q
                BY <1>1, <3>3, <4>1, <4>2
            <4> QED
                BY <3>9, <4>1, <4>2, <4>3
        <3>11. \A k \in 1..Len(recs) : recs[k].key # key <=> k # m
            BY <1>1, <3>3, <3>6, <3>9
        <3>12. {r \in RecordSet(recs) : r.key # key} = {recs[k] : k \in 1..Len(recs) \ {m}}
            BY <1>1, <3>11 DEF RecordSet
        <3>13. \A k \in 1..Len(recs)-1 : \E l \in 1..Len(recs) \ {m} : b[k] = recs[l]
            <4> SUFFICES ASSUME NEW k \in 1..Len(recs)-1
                         PROVE  \E l \in 1..Len(recs) \ {m} : b[k] = recs[l]
                OBVIOUS
            <4>1. CASE k < m
                BY <1>1, <3>3, <3>7, <4>1
            <4>2. CASE k >= m
                <5>1. k+1 \in 1..Len(recs) \ {m} /\ b[k] = recs[k+1]
                    BY <1>1, <3>3, <3>7, <4>2
                <5> QED
                    BY <5>1
            <4> QED
                BY <1>1, <3>3, <4>1, <4>2
        <3>14. \A l \in 1..Len(recs) \ {m} : \E k \in 1..Len(recs)-1 : b[k] = recs[l]
            <4> SUFFICES ASSUME NEW l \in 1..Len(recs), l # m
                         PROVE  \E k \in 1..Len(recs)-1 : b[k] = recs[l]
                OBVIOUS
            <4>1. CASE l < m
                BY <1>1, <3>3, <3>7, <4>1
            <4>2. CASE l > m
                <5>1. l-1 \in 1..Len(recs)-1 /\ b[l-1] = recs[l]
                    BY <1>1, <3>3, <3>7, <4>2
                <5> QED
                    BY <5>1
            <4> QED
                BY <1>1, <3>3, <4>1, <4>2
        <3>15. RecordSet(b) = {recs[k] : k \in 1..Len(recs) \ {m}}
            <4>1. RecordSet(b) = {b[k] : k \in 1..Len(recs)-1}
                BY <3>8 DEF RecordSet
            <4>2. {b[k] : k \in 1..Len(recs)-1} \subseteq {recs[k] : k \in 1..Len(recs) \ {m}}
                BY <3>13
            <4>3. {recs[k] : k \in 1..Len(recs) \ {m}} \subseteq {b[k] : k \in 1..Len(recs)-1}
                BY <3>14
            <4> QED
                BY <4>1, <4>2, <4>3
        <3>16. Len(b) <= MAX_NODE_SIZE
            BY <1>1, <3>8, TreeAssumption
        <3> QED
            BY <3>5, <3>8, <3>10, <3>12, <3>15, <3>16
    <2> QED
        BY <2>1, <2>2
<1> HIDE DEF left
<1>5. CASE left = <<>>
    <2>1. RecordSet(left) = {}
        BY <1>5 DEF RecordSet
    <2>2. RemoveFromLeaf(leaf, key) = <<>>
        BY <1>2, <1>5
    <2>3. GoodNodes(L, <<>>, lo, 1) /\ NodesRecs(L, <<>>) = {}
        BY DEF GoodNodes, NodesRecs
    <2> QED
        BY <1>3, <1>4, <2>1, <2>2, <2>3 DEF recs
<1>6. CASE left # <<>>
    <2>1. \A r \in RecordSet(left) : lo <= r.key
        BY <1>4 DEF recs
    <2> QED
        BY <1>2, <1>3, <1>4, <1>6, <2>1, OneLeaf DEF recs
<1> QED
    BY <1>5, <1>6

(* insert_into_leaf adds the record in the place of one with its key; a    *)
(* full leaf is cut in two.                                                *)
LEMMA LeafInserted ==
    ASSUME NEW L, NEW leaf, LeafOK(leaf), NEW key \in Key, NEW val \in Value,
           NEW lo \in Key, lo <= key,
           \A r \in RecordSet(leaf.recs) : lo <= r.key
    PROVE  /\ GoodNodes(L, InsertIntoLeaf(leaf, key, val), lo, 1)
           /\ NodesRecs(L, InsertIntoLeaf(leaf, key, val)) = Changed(RecordSet(leaf.recs), key, val)
<1> DEFINE recs == leaf.recs
           sz   == Len(recs)
           half == MAX_NODE_SIZE \div 2
           C(R) == Changed(R, key, val)
<1>1. /\ recs \in Seq(Record) /\ sz \in Nat /\ DOMAIN recs = 1..sz
      /\ sz <= MAX_NODE_SIZE /\ Sorted(recs)
    BY DEF LeafOK
<1>2. half \in 1..MAX_NODE_SIZE-1 /\ 2 * half = MAX_NODE_SIZE /\ MAX_NODE_SIZE \in Nat /\ half + 1 <= MAX_NODE_SIZE
    BY TreeAssumption
<1>3. \A R : \A r \in C(R) : r \in R \/ r = Rec(key, val)
    BY DEF Changed
<1>4. Rec(key, val).key = key
    BY DEF Rec
<1>5. \A r \in C(RecordSet(recs)) : lo <= r.key
    BY <1>3, <1>4
<1>6. CASE sz # MAX_NODE_SIZE
    <2> DEFINE a == InsertIntoRange(recs, key, val, TRUE)
    <2>1. /\ a.recs \in Seq(Record) /\ Sorted(a.recs) /\ Len(a.recs) \in {sz, sz + 1} /\ a.recs # <<>>
          /\ RecordSet(a.recs) = C(RecordSet(recs))
        <3> HIDE DEF recs
        <3> QED
            BY <1>1, RangeInsertedAtEnd
    <2>2. InsertIntoLeaf(leaf, key, val) = WithKeys(<<Leaf(a.recs)>>)
        BY <1>6 DEF InsertIntoLeaf
    <2>3. Len(a.recs) <= MAX_NODE_SIZE
        <3>1. PICK n : n = Len(a.recs)
            OBVIOUS
        <3>2. n \in {sz, sz + 1}
            BY <2>1, <3>1, Zenon
        <3> HIDE DEF a, recs, sz
        <3>3. n <= MAX_NODE_SIZE
            BY <1>1, <1>2, <1>6, <3>2
        <3> QED
            BY <3>1, <3>3, Zenon
    <2> DEFINE ra == a.recs
    <2>4. \A r \in RecordSet(ra) : lo <= r.key
        BY <1>5, <2>1
    <2> HIDE DEF a, C
    <2>5. /\ ra \in Seq(Record) /\ Sorted(ra) /\ Len(ra) <= MAX_NODE_SIZE /\ ra # <<>>
          /\ RecordSet(ra) = C(RecordSet(recs)) /\ InsertIntoLeaf(leaf, key, val) = WithKeys(<<Leaf(ra)>>)
        BY <2>1, <2>2, <2>3
    <2> HIDE DEF ra, recs
    <2> QED
        BY <2>4, <2>5, OneLeaf DEF C, recs
<1>7. CASE sz = MAX_NODE_SIZE
    <2> DEFINE first == SubSeq(recs, 1, half)
               rest  == SubSeq(recs, half + 1, sz)
               a == InsertIntoRange(first, key, val, FALSE)
               c == InsertIntoRange(rest, key, val, TRUE)
               b == IF a.inserted THEN rest ELSE c.recs
    <2>1. /\ first \in Seq(Record) /\ Sorted(first) /\ Len(first) = half
          /\ rest \in Seq(Record) /\ Sorted(rest) /\ Len(rest) = half
          /\ RecordSet(recs) = RecordSet(first) \cup RecordSet(rest)
          /\ \A r \in RecordSet(first), q \in RecordSet(rest) : r.key < q.key
        <3>1. half \in 1..sz-1 /\ sz - half = half
            BY <1>2, <1>7
        <3> HIDE DEF recs, half
        <3> QED
            BY <1>1, <3>1, Halves
    <2>2. InsertIntoLeaf(leaf, key, val) = WithKeys(<<Leaf(a.recs), Leaf(b)>>)
        BY <1>7 DEF InsertIntoLeaf
    <2>3. \/ /\ a.inserted /\ a.recs \in Seq(Record) /\ Sorted(a.recs)
             /\ Len(a.recs) \in {half, half + 1} /\ a.recs # <<>>
             /\ RecordSet(a.recs) = C(RecordSet(first))
             /\ \E i \in DOMAIN first : key <= first[i].key
          \/ /\ ~a.inserted /\ a.recs = first
             /\ \A i \in DOMAIN first : first[i].key < key
        <3> HIDE DEF first, half, recs
        <3> QED
            BY <2>1, RangeInserted
    <2>4. /\ c.recs \in Seq(Record) /\ Sorted(c.recs) /\ Len(c.recs) \in {half, half + 1} /\ c.recs # <<>>
          /\ RecordSet(c.recs) = C(RecordSet(rest))
        <3> HIDE DEF rest, half, recs
        <3> QED
            BY <2>1, RangeInsertedAtEnd
    <2> HIDE DEF a, c, first, rest, half, recs
    <2>5. first # <<>> /\ rest # <<>>
        BY <1>2, <2>1
    <2>6. \A r \in Record : r.key \in Nat
        BY DEF Record, Key
    <2>7. RecordSet(first) \subseteq Record /\ RecordSet(rest) \subseteq Record
        BY <2>1 DEF RecordSet
    <2>8. key \in Nat
        BY DEF Key
    <2>9. CASE a.inserted
        <3>1. \A q \in RecordSet(rest) : key < q.key
            <4> SUFFICES ASSUME NEW q \in RecordSet(rest)
                         PROVE  key < q.key
                OBVIOUS
            <4>1. PICK i \in DOMAIN first : key <= first[i].key
                BY <2>3, <2>9
            <4>2. first[i] \in RecordSet(first)
                BY DEF RecordSet
            <4>3. first[i].key \in Nat /\ q.key \in Nat /\ first[i].key < q.key
                BY <2>1, <2>6, <2>7, <4>2
            <4> QED
                BY <2>8, <4>1, <4>3
        <3>2. C(RecordSet(recs)) = C(RecordSet(first)) \cup RecordSet(rest)
            <4>1. \A q \in RecordSet(rest) : q.key # key
                BY <2>6, <2>7, <2>8, <3>1
            <4> QED
                BY <2>1, <4>1 DEF Changed
        <3>3. \A r \in RecordSet(a.recs), q \in RecordSet(b) : r.key < q.key
            BY <1>3, <1>4, <2>1, <2>3, <2>9, <3>1
        <3>4. \A r \in RecordSet(a.recs) \cup RecordSet(b) : lo <= r.key
            BY <1>5, <2>3, <2>9, <3>2 DEF recs
        <3>5. /\ b = rest /\ a.recs \in Seq(Record) /\ Sorted(a.recs) /\ Len(a.recs) <= MAX_NODE_SIZE
              /\ a.recs # <<>> /\ Len(b) <= MAX_NODE_SIZE
            BY <1>2, <2>1, <2>3, <2>9
        <3> HIDE DEF b, C
        <3>6. b \in Seq(Record) /\ Sorted(b) /\ b # <<>>
            BY <2>1, <2>5, <3>5
        <3>7. /\ GoodNodes(L, WithKeys(<<Leaf(a.recs), Leaf(b)>>), lo, 1)
              /\ NodesRecs(L, WithKeys(<<Leaf(a.recs), Leaf(b)>>)) = RecordSet(a.recs) \cup RecordSet(b)
            <4> DEFINE ra == a.recs
            <4>1. /\ ra \in Seq(Record) /\ Sorted(ra) /\ Len(ra) <= MAX_NODE_SIZE /\ ra # <<>>
                  /\ \A r \in RecordSet(ra), q \in RecordSet(b) : r.key < q.key
                  /\ \A r \in RecordSet(ra) \cup RecordSet(b) : lo <= r.key
                BY <3>3, <3>4, <3>5, <3>6
            <4> HIDE DEF ra
            <4>2. /\ GoodNodes(L, WithKeys(<<Leaf(ra), Leaf(b)>>), lo, 1)
                  /\ NodesRecs(L, WithKeys(<<Leaf(ra), Leaf(b)>>)) = RecordSet(ra) \cup RecordSet(b)
                <5>1. Len(b) <= MAX_NODE_SIZE
                    BY <3>5
                <5> HIDE DEF sz
                <5> QED
                    BY ONLY <3>6, <4>1, <5>1, lo \in Key, TwoLeaves
            <4> QED
                BY <4>2 DEF ra
        <3> QED
            BY <2>2, <2>3, <2>9, <3>2, <3>5, <3>7 DEF recs, C
    <2>10. CASE ~a.inserted
        <3>1. \A r \in RecordSet(first) : r.key < key
            BY <2>3, <2>10 DEF RecordSet
        <3>2. C(RecordSet(recs)) = RecordSet(first) \cup C(RecordSet(rest))
            <4>1. \A q \in RecordSet(first) : q.key # key
                BY <2>6, <2>7, <2>8, <3>1
            <4> QED
                BY <2>1, <4>1 DEF Changed
        <3>3. \A r \in RecordSet(a.recs), q \in RecordSet(b) : r.key < q.key
            BY <1>3, <1>4, <2>1, <2>3, <2>4, <2>10, <3>1
        <3>4. \A r \in RecordSet(a.recs) \cup RecordSet(b) : lo <= r.key
            BY <1>5, <2>3, <2>4, <2>10, <3>2 DEF recs
        <3>5. /\ b = c.recs /\ a.recs = first /\ Len(a.recs) <= MAX_NODE_SIZE
              /\ Len(b) <= MAX_NODE_SIZE
            BY <1>2, <2>1, <2>3, <2>4, <2>10
        <3> HIDE DEF b, C
        <3>6. /\ a.recs \in Seq(Record) /\ Sorted(a.recs) /\ a.recs # <<>>
              /\ b \in Seq(Record) /\ Sorted(b) /\ b # <<>>
            BY <2>1, <2>4, <2>5, <3>5
        <3>7. /\ GoodNodes(L, WithKeys(<<Leaf(a.recs), Leaf(b)>>), lo, 1)
              /\ NodesRecs(L, WithKeys(<<Leaf(a.recs), Leaf(b)>>)) = RecordSet(a.recs) \cup RecordSet(b)
            <4> DEFINE ra == a.recs
            <4>1. /\ ra \in Seq(Record) /\ Sorted(ra) /\ Len(ra) <= MAX_NODE_SIZE /\ ra # <<>>
                  /\ \A r \in RecordSet(ra), q \in RecordSet(b) : r.key < q.key
                  /\ \A r \in RecordSet(ra) \cup RecordSet(b) : lo <= r.key
                BY <3>3, <3>4, <3>5, <3>6
            <4> HIDE DEF ra
            <4>2. /\ GoodNodes(L, WithKeys(<<Leaf(ra), Leaf(b)>>), lo, 1)
                  /\ NodesRecs(L, WithKeys(<<Leaf(ra), Leaf(b)>>)) = RecordSet(ra) \cup RecordSet(b)
                <5>1. Len(b) <= MAX_NODE_SIZE
                    BY <3>5
                <5> HIDE DEF sz
                <5> QED
                    BY ONLY <3>6, <4>1, <5>1, lo \in Key, TwoLeaves
            <4> QED
                BY <4>2 DEF ra
        <3> QED
            BY <2>2, <2>4, <3>2, <3>5, <3>7 DEF recs, C
    <2> QED
        BY <2>9, <2>10
<1> QED
    BY <1>6, <1>7

(* What aodbm_set and aodbm_del do to the leaf of the key.                 *)
LEMMA LeafModified ==
    ASSUME NEW L, NEW leaf, LeafOK(leaf), NEW key \in Key, NEW val \in Value \cup {NULL},
           NEW lo \in Key, lo <= key,
           \A r \in RecordSet(leaf.recs) : lo <= r.key
    PROVE  /\ GoodNodes(L, ModifyLeaf(leaf, key, val), lo, 1)
           /\ NodesRecs(L, ModifyLeaf(leaf, key, val)) = Changed(RecordSet(leaf.recs), key, val)
<1>1. CASE val = NULL
    BY <1>1, LeafRemoved DEF ModifyLeaf
<1>2. CASE val # NULL
    <2>1. val \in Value
        BY <1>2
    <2> QED
        BY <1>2, <2>1, LeafInserted DEF ModifyLeaf
<1> QED
    BY <1>1, <1>2

-----------------------------------------------------------------------------
(* Branches.                                                               *)

KidOf(L) == [key : Key, off : DOMAIN L]

Labels(L) == L \in [DOMAIN L -> Label] /\ DOMAIN L \subseteq Nat

(* The keys of records are naturals.                                       *)
LEMMA KeysAreNats ==
    /\ Key \subseteq Nat
    /\ \A r \in Record : r.key \in Key /\ r.key \in Nat
    /\ \A L : Labels(L) => \A o \in DOMAIN L :
          /\ L[o].recs \subseteq Record /\ L[o].h \in Nat
          /\ \A r \in L[o].recs : r.key \in Nat
<1>1. Key \subseteq Nat
    BY DEF Key
<1>2. \A r \in Record : r.key \in Key
    BY DEF Record
<1>3. ASSUME NEW L, Labels(L), NEW o \in DOMAIN L
      PROVE  L[o].recs \subseteq Record /\ L[o].h \in Nat
    <2>1. L[o] \in Label
        BY <1>3 DEF Labels
    <2> QED
        BY <2>1 DEF Label
<1> QED
    BY <1>1, <1>2, <1>3

(* The child of a branch that a key belongs to: the keys on its left are   *)
(* not greater, the one on its right is.                                   *)
LEMMA ChildIndexIs ==
    ASSUME NEW L, NEW node, BranchOK(L, node), NEW key \in Key
    PROVE  LET i == ChildIndex(node, key) IN
           /\ i \in 1..Len(node.offs) /\ i \in DOMAIN node.offs
           /\ \A j \in 1..i-1 : node.keys[j] <= key
           /\ i < Len(node.offs) => key < node.keys[i]
<1> DEFINE S == {i \in DOMAIN node.keys : key < node.keys[i]} \cup {Len(node.offs)}
           i == Min(S)
<1>1. /\ node.keys \in Seq(Key) /\ DOMAIN node.keys = 1..Len(node.offs)-1
      /\ Len(node.offs) \in Nat /\ Len(node.offs) >= 1 /\ DOMAIN node.offs = 1..Len(node.offs)
    BY TreeAssumption DEF BranchOK
<1>2. key \in Nat /\ \A j \in DOMAIN node.keys : node.keys[j] \in Nat
    <2>1. \A j \in DOMAIN node.keys : node.keys[j] \in Key
        BY <1>1
    <2> QED
        BY <2>1, KeysAreNats
<1>3. S \in SUBSET Nat /\ S # {}
    BY <1>1
<1>4. i \in S /\ \A j \in S : i <= j
    <2> HIDE DEF S
    <2> QED
        BY <1>3, MinIs
<1>5. i = ChildIndex(node, key)
    BY DEF ChildIndex
<1> HIDE DEF i
<1>6. i \in 1..Len(node.offs)
    BY <1>1, <1>4
<1>7. \A j \in 1..i-1 : node.keys[j] <= key
    BY <1>1, <1>2, <1>4
<1>8. i < Len(node.offs) => key < node.keys[i]
    BY <1>1, <1>4
<1> QED
    BY <1>1, <1>5, <1>6, <1>7, <1>8

(* No other child has a record of the key.                                 *)
LEMMA OnlyChild ==
    ASSUME NEW L, Labels(L), NEW node, BranchOK(L, node), NEW key \in Key,
           NEW j \in DOMAIN node.offs, NEW r \in L[node.offs[j]].recs, r.key = key
    PROVE  j = ChildIndex(node, key)
<1> DEFINE i == ChildIndex(node, key)
<1>1. /\ i \in 1..Len(node.offs)
      /\ \A k \in 1..i-1 : node.keys[k] <= key
      /\ i < Len(node.offs) => key < node.keys[i]
    BY ChildIndexIs
<1> HIDE DEF i
<1>2. /\ node.keys \in Seq(Key) /\ DOMAIN node.keys = 1..Len(node.offs)-1
      /\ Len(node.offs) \in Nat /\ DOMAIN node.offs = 1..Len(node.offs)
      /\ \A k \in DOMAIN node.keys : IF j <= k THEN r.key < node.keys[k] ELSE node.keys[k] <= r.key
    BY TreeAssumption DEF BranchOK
<1>3. key \in Nat /\ \A k \in DOMAIN node.keys : node.keys[k] \in Nat
    <2>1. \A k \in DOMAIN node.keys : node.keys[k] \in Key
        BY <1>2
    <2> QED
        BY <2>1, KeysAreNats
<1>4. CASE j < i
    <2>1. j \in 1..i-1 /\ j \in DOMAIN node.keys
        BY <1>1, <1>2, <1>4
    <2> QED
        BY <1>1, <1>2, <1>3, <2>1
<1>5. CASE i < j
    <2>1. i < Len(node.offs) /\ i \in DOMAIN node.keys /\ ~(j <= i)
        BY <1>1, <1>2, <1>5
    <2> QED
        BY <1>1, <1>2, <1>3, <2>1
<1>6. CASE i = j
    BY <1>6 DEF i
<1>7. i \in Int /\ j \in Int
    BY <1>1, <1>2
<1> QED
    BY <1>4, <1>5, <1>6, <1>7

(* What the children of a branch keep, as nodes do.                        *)
GoodKids(L, kids, lo, h) ==
    /\ kids \in Seq(KidOf(L))
    /\ \A i \in DOMAIN kids :
          /\ L[kids[i].off].recs # {} /\ L[kids[i].off].h = h
          /\ lo <= kids[i].key
          /\ \A r \in L[kids[i].off].recs : kids[i].key <= r.key
    /\ \A i, j \in DOMAIN kids : i < j =>
          \A r \in L[kids[i].off].recs : r.key < kids[j].key

KidsRecs(L, kids) == UNION {L[kids[i].off].recs : i \in DOMAIN kids}

(* Their keys grow, and no child is there twice.                           *)
LEMMA KidsDiffer ==
    ASSUME NEW L, Labels(L), NEW lo, NEW h, NEW kids, GoodKids(L, kids, lo, h),
           NEW i \in DOMAIN kids, NEW j \in DOMAIN kids, i < j
    PROVE  kids[i].key < kids[j].key /\ kids[i].off # kids[j].off
<1>1. kids[i].key \in Key /\ kids[j].key \in Key /\ kids[i].off \in DOMAIN L
    <2>1. kids[i] \in KidOf(L) /\ kids[j] \in KidOf(L)
        BY DEF GoodKids
    <2> QED
        BY <2>1 DEF KidOf
<1>2. PICK r \in L[kids[i].off].recs : kids[i].key <= r.key /\ r.key < kids[j].key
    BY DEF GoodKids
<1>3. \A q \in L[kids[j].off].recs : kids[j].key <= q.key
    BY DEF GoodKids
<1>4. r.key \in Nat /\ kids[i].key \in Nat /\ kids[j].key \in Nat
    BY <1>1, KeysAreNats
<1> QED
    BY <1>2, <1>3, <1>4

(* The children that modify_branch begins with.                            *)
LEMMA ChildrenGood ==
    ASSUME NEW L, Labels(L), NEW node, BranchOK(L, node), NEW lo \in Key,
           \A r \in LabelOf(L, node).recs : lo <= r.key
    PROVE  LET kids == Children(node, lo) IN
           /\ GoodKids(L, kids, lo, L[node.offs[1]].h)
           /\ DOMAIN kids = DOMAIN node.offs /\ Len(kids) = Len(node.offs)
           /\ \A i \in DOMAIN kids :
                /\ kids[i].off = node.offs[i]
                /\ kids[i].key = IF i = 1 THEN lo ELSE node.keys[i-1]
           /\ KidsRecs(L, kids) = LabelOf(L, node).recs
<1> DEFINE kids == Children(node, lo)
           n    == Len(node.offs)
           h    == L[node.offs[1]].h
<1>1. /\ node.keys \in Seq(Key) /\ DOMAIN node.keys = 1..n-1 /\ n \in Nat /\ n >= 1
      /\ node.offs \in Seq(DOMAIN L) /\ DOMAIN node.offs = 1..n
    BY TreeAssumption DEF BranchOK
<1>2. \A i \in 1..n : L[node.offs[i]].recs # {} /\ L[node.offs[i]].h = h
    BY <1>1 DEF BranchOK
<1>3. \A i \in 1..n-1, j \in 1..n : \A r \in L[node.offs[j]].recs :
          IF j <= i THEN r.key < node.keys[i] ELSE node.keys[i] <= r.key
    BY <1>1 DEF BranchOK
<1>4. LabelOf(L, node).recs = UNION {L[node.offs[i]].recs : i \in 1..n}
    BY <1>1 DEF LabelOf, BranchOK, Branch
<1>5. /\ kids = [i \in 1..n |-> [key |-> IF i = 1 THEN lo ELSE node.keys[i-1], off |-> node.offs[i]]]
      /\ DOMAIN kids = 1..n
    BY <1>1 DEF Children
<1>6. \A i \in 1..n : kids[i].off = node.offs[i] /\ kids[i].key = IF i = 1 THEN lo ELSE node.keys[i-1]
    BY <1>5
<1> HIDE DEF kids
<1>7. kids \in Seq(KidOf(L)) /\ Len(kids) = n
    <2>1. \A i \in 1..n : kids[i] \in KidOf(L)
        <3> SUFFICES ASSUME NEW i \in 1..n
                     PROVE  kids[i] \in KidOf(L)
            OBVIOUS
        <3>1. node.offs[i] \in DOMAIN L
            BY <1>1
        <3>2. (IF i = 1 THEN lo ELSE node.keys[i-1]) \in Key
            <4>1. i # 1 => i-1 \in 1..n-1
                BY <1>1
            <4> QED
                BY <1>1, <4>1
        <3> QED
            BY <1>5, <3>1, <3>2 DEF KidOf
    <2>2. kids = [i \in 1..n |-> kids[i]]
        BY <1>5
    <2> HIDE DEF n
    <2> QED
        BY <1>1, <2>1, <2>2, IsSeq
<1>8. \A i \in 1..n : \A r \in L[node.offs[i]].recs : kids[i].key <= r.key
    <2> SUFFICES ASSUME NEW i \in 1..n, NEW r \in L[node.offs[i]].recs
                 PROVE  kids[i].key <= r.key
        OBVIOUS
    <2>1. CASE i = 1
        BY <1>4, <1>6, <2>1
    <2>2. CASE i # 1
        <3>1. i-1 \in 1..n-1 /\ ~(i <= i-1)
            BY <1>1, <2>2
        <3> QED
            BY <1>3, <1>6, <2>2, <3>1
    <2> QED
        BY <2>1, <2>2
<1>9. \A i, j \in 1..n : i < j => \A r \in L[node.offs[i]].recs : r.key < kids[j].key
    <2> SUFFICES ASSUME NEW i \in 1..n, NEW j \in 1..n, i < j, NEW r \in L[node.offs[i]].recs
                 PROVE  r.key < kids[j].key
        OBVIOUS
    <2>1. j # 1 /\ j-1 \in 1..n-1 /\ i <= j-1
        BY <1>1
    <2> QED
        BY <1>3, <1>6, <2>1
<1>10. \A j \in 1..n : lo <= kids[j].key
    <2> SUFFICES ASSUME NEW j \in 1..n
                 PROVE  lo <= kids[j].key
        OBVIOUS
    <2>1. CASE j = 1
        BY <1>6, <2>1, KeysAreNats
    <2>2. CASE j # 1
        <3>1. 1 \in 1..n /\ 1 < j
            BY <1>1, <2>2
        <3>2. PICK r \in L[node.offs[1]].recs : TRUE
            BY <1>2, <3>1
        <3>3. r.key < kids[j].key
            BY <1>9, <3>1
        <3>4. lo <= r.key
            BY <1>4, <3>1
        <3>5. kids[j].key \in Key
            <4>1. kids[j] \in KidOf(L)
                BY <1>7
            <4> QED
                BY <4>1 DEF KidOf
        <3>6. r.key \in Nat /\ lo \in Nat /\ kids[j].key \in Nat
            <4>1. node.offs[1] \in DOMAIN L
                BY <1>1, <3>1
            <4> QED
                BY <3>5, <4>1, KeysAreNats
        <3> QED
            BY <3>3, <3>4, <3>6
    <2> QED
        BY <2>1, <2>2
<1>11. GoodKids(L, kids, lo, h)
    BY <1>2, <1>5, <1>6, <1>7, <1>8, <1>9, <1>10 DEF GoodKids
<1>12. KidsRecs(L, kids) = LabelOf(L, node).recs
    BY <1>4, <1>5, <1>6 DEF KidsRecs
<1> QED
    BY <1>1, <1>5, <1>6, <1>7, <1>11, <1>12 DEF kids

(* Place puts a child before the first later key but not before the first  *)
(* child.                                                                  *)
LEMMA PlaceIs ==
    ASSUME NEW L, Labels(L), NEW kids \in Seq(KidOf(L)), Len(kids) >= 1,
           NEW kid \in KidOf(L), NEW p \in 2..Len(kids)+1,
           \A i \in 2..p-1 : kids[i].key <= kid.key,
           p <= Len(kids) => kid.key < kids[p].key
    PROVE  Place(kids, kid) =
               [k \in 1..Len(kids)+1 |->
                   IF k < p THEN kids[k] ELSE IF k = p THEN kid ELSE kids[k-1]]
<1> DEFINE S == {i \in 2..Len(kids) : kid.key < kids[i].key} \cup {Len(kids)+1}
           m == Min(S)
<1>1. /\ Len(kids) \in Nat /\ DOMAIN kids = 1..Len(kids)
      /\ \A i \in 1..Len(kids) : kids[i] \in KidOf(L)
    OBVIOUS
<1>2. kid.key \in Nat /\ \A i \in 1..Len(kids) : kids[i].key \in Nat
    BY <1>1, KeysAreNats DEF KidOf
<1>3. S \in SUBSET Nat /\ S # {}
    BY <1>1
<1>4. m \in S /\ \A i \in S : m <= i
    <2> HIDE DEF S
    <2> QED
        BY <1>3, MinIs
<1> HIDE DEF m
<1>5. p \in S
    BY <1>1
<1>6. m <= p /\ m \in Nat /\ m >= 2
    BY <1>1, <1>4, <1>5
<1>7. ~(m < p)
    <2> SUFFICES ASSUME m < p
                 PROVE  FALSE
        OBVIOUS
    <2>1. m \in 2..p-1 /\ m \in 1..Len(kids)
        BY <1>1, <1>6
    <2>2. kid.key < kids[m].key
        BY <1>1, <1>4, <2>1
    <2> QED
        BY <1>2, <2>1, <2>2
<1>8. m = p
    BY <1>1, <1>6, <1>7
<1>9. Place(kids, kid) = InsertAt(kids, p, kid)
    BY <1>8 DEF Place, m
<1>10. p \in 1..Len(kids)+1
    BY <1>1
<1> HIDE DEF S
<1> QED
    BY <1>9, <1>10, InsertAtIs

(* Without drops the only child at rm.                                     *)
LEMMA WithoutIs ==
    ASSUME NEW L, NEW kids \in Seq(KidOf(L)), NEW j \in 1..Len(kids),
           NEW rm, kids[j].off = rm, \A i \in 1..Len(kids) : i # j => kids[i].off # rm
    PROVE  Without(kids, rm) = [k \in 1..Len(kids)-1 |-> IF k < j THEN kids[k] ELSE kids[k+1]]
<1> DEFINE len == Len(kids)
           Left(n) == IF n < j THEN [k \in 1..n |-> kids[k]]
                      ELSE [k \in 1..n-1 |-> IF k < j THEN kids[k] ELSE kids[k+1]]
           kept[n \in 0 .. len] ==
               IF n = 0 THEN <<>>
               ELSE IF kids[n].off = rm THEN kept[n - 1]
               ELSE Append(kept[n - 1], kids[n])
           g == [n \in 0..len |-> Left(n)]
<1>1. len \in Nat /\ j \in Nat /\ \A i \in 1..len : kids[i] \in KidOf(L)
    OBVIOUS
<1>2. \A n \in 0..len : Left(n) \in Seq(KidOf(L)) /\ Len(Left(n)) = IF n < j THEN n ELSE n-1
    <2> SUFFICES ASSUME NEW n \in 0..len
                 PROVE  Left(n) \in Seq(KidOf(L)) /\ Len(Left(n)) = IF n < j THEN n ELSE n-1
        OBVIOUS
    <2> HIDE DEF len
    <2>1. CASE n < j
        <3> DEFINE f == [k \in 1..n |-> kids[k]]
        <3>1. f = [k \in 1..n |-> f[k]] /\ n \in Nat /\ \A k \in 1..n : f[k] \in KidOf(L)
            BY <1>1
        <3> HIDE DEF f
        <3>2. f \in Seq(KidOf(L)) /\ Len(f) = n
            BY <3>1, IsSeq
        <3> QED
            BY <2>1, <3>2 DEF f
    <2>2. CASE ~(n < j)
        <3> DEFINE f == [k \in 1..n-1 |-> IF k < j THEN kids[k] ELSE kids[k+1]]
        <3>1. \A k \in 1..n-1 : k \in 1..len /\ k+1 \in 1..len
            BY <1>1
        <3>2. f = [k \in 1..n-1 |-> f[k]] /\ n-1 \in Nat /\ \A k \in 1..n-1 : f[k] \in KidOf(L)
            BY <1>1, <2>2, <3>1
        <3> HIDE DEF f
        <3>3. f \in Seq(KidOf(L)) /\ Len(f) = n-1
            BY <3>2, IsSeq
        <3> QED
            BY <2>2, <3>3 DEF f
    <2> QED
        BY <2>1, <2>2
<1>3. Left(0) = <<>>
    BY <1>1
<1>4. \A n \in 1..len : Left(n) = IF kids[n].off = rm THEN Left(n-1) ELSE Append(Left(n-1), kids[n])
    <2> SUFFICES ASSUME NEW n \in 1..len
                 PROVE  Left(n) = IF kids[n].off = rm THEN Left(n-1) ELSE Append(Left(n-1), kids[n])
        OBVIOUS
    <2>1. n-1 \in 0..len /\ n \in 0..len
        BY <1>1
    <2>2. CASE n = j
        BY <1>1, <2>2
    <2>3. CASE n # j
        <3> DEFINE a == Left(n-1)
                   b == Append(a, kids[n])
        <3>1. a \in Seq(KidOf(L)) /\ Len(a) = (IF n-1 < j THEN n-1 ELSE n-2) /\ Len(a) \in Nat
            BY <1>2, <2>1
        <3>2. \A k \in 1..Len(a) : a[k] = IF k < j THEN kids[k] ELSE kids[k+1]
            BY <1>1, <3>1
        <3> HIDE DEF a
        <3>3. b \in Seq(KidOf(L)) /\ Len(b) = Len(a) + 1
              /\ \A k \in 1..Len(a)+1 : b[k] = IF k <= Len(a) THEN a[k] ELSE kids[n]
            BY <1>1, <3>1
        <3> HIDE DEF b
        <3>4. b = [k \in 1..Len(b) |-> b[k]]
            BY <3>3
        <3>5. b = Left(n)
            <4>1. CASE n < j
                <5>1. Len(b) = n /\ \A k \in 1..n : b[k] = kids[k]
                    BY <1>1, <3>1, <3>2, <3>3, <4>1
                <5> QED
                    BY <3>4, <4>1, <5>1
            <4>2. CASE n > j
                <5>1. Len(b) = n-1 /\ Len(a) = n-2
                    BY <1>1, <3>1, <3>3, <4>2
                <5>2. \A k \in 1..n-1 : b[k] = IF k < j THEN kids[k] ELSE kids[k+1]
                    BY <1>1, <3>2, <3>3, <4>2, <5>1
                <5> QED
                    BY <3>4, <4>2, <5>1, <5>2
            <4> QED
                BY <1>1, <2>3, <4>1, <4>2
        <3> QED
            BY <2>3, <3>5 DEF a, b
    <2> QED
        BY <2>2, <2>3
<1> HIDE DEF Left, len
<1> DEFINE Body(h) == [n \in 0 .. len |->
               IF n = 0 THEN <<>>
               ELSE IF kids[n].off = rm THEN h[n - 1]
               ELSE Append(h[n - 1], kids[n])]
<1>5. g = Body(g)
    <2> SUFFICES ASSUME NEW n \in 0..len
                 PROVE  Left(n) = IF n = 0 THEN <<>>
                                  ELSE IF kids[n].off = rm THEN g[n - 1]
                                  ELSE Append(g[n - 1], kids[n])
        OBVIOUS
    <2>1. CASE n = 0
        BY <1>3, <2>1
    <2>2. CASE n # 0
        <3>1. n \in 1..len /\ n-1 \in 0..len
            BY <1>1, <2>2
        <3>2. g[n-1] = Left(n-1)
            BY <3>1
        <3> QED
            BY <1>4, <2>2, <3>1, <3>2
    <2> QED
        BY <2>1, <2>2
<1>6. kept = Body(kept)
    <2>1. kept = CHOOSE h : h = Body(h)
        BY Zenon
    <2> HIDE DEF kept
    <2>2. \E h : h = Body(h)
        BY <1>5
    <2> HIDE DEF Body
    <2> QED
        BY <2>1, <2>2, Zenon
<1> HIDE DEF kept
<1>7. \A n \in 0..len : kept[n] = Left(n)
    <2> DEFINE Bad == {n \in 0..len : kept[n] # Left(n)}
    <2> SUFFICES ASSUME Bad # {}
                 PROVE  FALSE
        OBVIOUS
    <2>1. PICK n \in Bad : \A m \in Bad : n <= m
        <3>1. Bad \subseteq Nat
            BY <1>1
        <3> HIDE DEF Bad
        <3> QED
            BY <3>1, LeastNat
    <2>2. CASE n = 0
        BY <1>3, <1>6, <2>1, <2>2
    <2>3. CASE n # 0
        <3>1. n \in 1..len /\ n-1 \in 0..len
            BY <1>1, <2>1, <2>3
        <3>2. kept[n-1] = Left(n-1)
            BY <1>1, <2>1, <3>1
        <3>3. kept[n] = IF kids[n].off = rm THEN kept[n - 1] ELSE Append(kept[n - 1], kids[n])
            BY <1>6, <2>3, <3>1
        <3> QED
            BY <1>4, <2>1, <3>1, <3>2, <3>3
    <2> QED
        BY <2>2, <2>3
<1>8. Without(kids, rm) = kept[len]
    BY DEF Without, kept, len
<1>9. Without(kids, rm) = Left(len)
    BY <1>1, <1>7, <1>8
<1> QED
    BY <1>1, <1>9 DEF Left, len

(* New children that may stand in the place of child j: they are not among *)
(* the old ones, their keys are not smaller than its key, and their        *)
(* records come before the next child.                                     *)
Replaces(L, kids, new, j, h) ==
    /\ GoodKids(L, new, kids[j].key, h) /\ Len(new) \in 0..2
    /\ \A i \in DOMAIN new, m \in DOMAIN kids :
          /\ new[i].off # kids[m].off
          /\ m > j => \A r \in L[new[i].off].recs : r.key < kids[m].key

Inserted(kids, new, j) ==
    [k \in 1..Len(kids)+Len(new) |->
        IF k <= j THEN kids[k]
        ELSE IF k <= j+Len(new) THEN new[k-j] ELSE kids[k-Len(new)]]

Spliced(kids, new, j) ==
    [k \in 1..Len(kids)+Len(new)-1 |->
        IF k < j THEN kids[k]
        ELSE IF k < j+Len(new) THEN new[k-j+1] ELSE kids[k-Len(new)+1]]

(* Place puts them right behind it.                                        *)
LEMMA PlacedBehind ==
    ASSUME NEW L, Labels(L), NEW lo, NEW h, NEW kids, GoodKids(L, kids, lo, h),
           NEW j \in DOMAIN kids, NEW new, Replaces(L, kids, new, j, h)
    PROVE  PlaceAll(kids, new) = Inserted(kids, new, j)
<1>1. /\ kids \in Seq(KidOf(L)) /\ Len(kids) \in Nat /\ DOMAIN kids = 1..Len(kids)
      /\ new \in Seq(KidOf(L)) /\ Len(new) \in {0, 1, 2} /\ DOMAIN new = 1..Len(new)
      /\ j \in 1..Len(kids)
    BY DEF Replaces, GoodKids
<1>2. /\ \A i \in 1..Len(kids) : kids[i] \in KidOf(L) /\ kids[i].key \in Nat
      /\ \A i \in 1..Len(new) : new[i] \in KidOf(L) /\ new[i].key \in Nat
    <2>1. \A i \in 1..Len(kids) : kids[i] \in KidOf(L)
        BY <1>1
    <2>2. \A i \in 1..Len(new) : new[i] \in KidOf(L)
        BY <1>1
    <2> QED
        BY <2>1, <2>2, KeysAreNats DEF KidOf
<1>3. \A i \in 2..j : \A m \in 1..Len(new) : kids[i].key <= new[m].key
    <2> SUFFICES ASSUME NEW i \in 2..j, NEW m \in 1..Len(new)
                 PROVE  kids[i].key <= new[m].key
        OBVIOUS
    <2>1. kids[j].key <= new[m].key
        BY <1>1 DEF Replaces, GoodKids
    <2>2. i \in DOMAIN kids
        BY <1>1
    <2>3. CASE i = j
        BY <2>1, <2>3
    <2>4. CASE i # j
        <3>1. i < j
            BY <1>1, <2>4
        <3>2. kids[i].key < kids[j].key
            BY <2>2, <3>1, KidsDiffer
        <3> QED
            BY <1>1, <1>2, <2>1, <2>2, <3>2
    <2> QED
        BY <2>3, <2>4
<1>4. \A i \in j+1..Len(kids) : \A m \in 1..Len(new) : new[m].key < kids[i].key
    <2> SUFFICES ASSUME NEW i \in j+1..Len(kids), NEW m \in 1..Len(new)
                 PROVE  new[m].key < kids[i].key
        OBVIOUS
    <2>1. i \in DOMAIN kids /\ i > j
        BY <1>1
    <2>2. new[m].off \in DOMAIN L /\ L[new[m].off].recs # {}
        BY <1>1, <1>2 DEF KidOf, Replaces, GoodKids
    <2>3. PICK r \in L[new[m].off].recs : TRUE
        BY <2>2
    <2>4. new[m].key <= r.key /\ r.key < kids[i].key
        BY <1>1, <2>1 DEF Replaces, GoodKids
    <2>5. r.key \in Nat
        BY <2>2, KeysAreNats
    <2> QED
        BY <1>1, <1>2, <2>1, <2>4, <2>5
<1>5. CASE Len(new) = 0
    <2>1. PlaceAll(kids, new) = kids
        BY <1>5 DEF PlaceAll
    <2>2. kids = [k \in 1..Len(kids) |-> kids[k]]
        BY <1>1, SeqIs
    <2>3. Inserted(kids, new, j) = [k \in 1..Len(kids) |-> kids[k]]
        BY <1>1, <1>5 DEF Inserted
    <2> QED
        BY <2>1, <2>2, <2>3
<1>6. CASE Len(new) # 0
    <2> DEFINE a == Place(kids, new[1])
    <2>1. a = [k \in 1..Len(kids)+1 |->
                  IF k < j+1 THEN kids[k] ELSE IF k = j+1 THEN new[1] ELSE kids[k-1]]
        <3>1. 1 \in 1..Len(new)
            BY <1>1, <1>6
        <3>x. PICK x \in KidOf(L) : x = new[1]
            BY <1>2, <3>1
        <3>p. PICK p \in 2..Len(kids)+1 : p = j+1
            BY <1>1
        <3>2. /\ x \in KidOf(L) /\ p \in 2..Len(kids)+1 /\ Len(kids) >= 1
              /\ \A i \in 2..p-1 : kids[i].key <= x.key
              /\ p <= Len(kids) => x.key < kids[p].key
            BY <1>1, <1>2, <1>3, <1>4, <3>1, <3>x, <3>p
        <3>3. Place(kids, x) = [k \in 1..Len(kids)+1 |->
                  IF k < p THEN kids[k] ELSE IF k = p THEN x ELSE kids[k-1]]
            <4>1. kids \in Seq(KidOf(L))
                BY <1>1
            <4> QED
                BY ONLY Labels(L), <4>1, <3>2, PlaceIs
        <3> QED
            BY <3>3, <3>x, <3>p
    <2> HIDE DEF a
    <2>2. CASE Len(new) = 1
        <3>1. PlaceAll(kids, new) = a
            BY <2>2 DEF PlaceAll, a
        <3>2. Inserted(kids, new, j) = a
            BY <1>1, <2>1, <2>2 DEF Inserted
        <3> QED
            BY <3>1, <3>2
    <2>3. CASE Len(new) = 2
        <3>1. PlaceAll(kids, new) = Place(a, new[2])
            BY <2>3 DEF PlaceAll, a
        <3> DEFINE len == Len(kids)
        <3>2. 1 \in 1..Len(new) /\ 2 \in 1..Len(new)
            BY <2>3
        <3>3. a \in Seq(KidOf(L)) /\ Len(a) = len+1
            <4>1. \A k \in 1..len+1 : a[k] \in KidOf(L)
                BY <1>1, <1>2, <2>1, <3>2
            <4>2. a = [k \in 1..len+1 |-> a[k]]
                BY <2>1
            <4>3. len+1 \in Nat
                BY <1>1
            <4> HIDE DEF len
            <4> QED
                BY <4>1, <4>2, <4>3, IsSeq
        <3>x. PICK x \in KidOf(L) : x = new[2]
            BY <1>2, <3>2
        <3>p. PICK p \in 2..Len(a)+1 : p = j+2
            BY <1>1, <3>3
        <3>4. new[1].key <= x.key
            <4>1. new[1].key < new[2].key
                BY <1>1, <3>2, KidsDiffer DEF Replaces
            <4> QED
                BY <1>2, <3>2, <3>x, <4>1
        <3>5. \A i \in 2..j+1 : a[i].key <= x.key
            BY <1>1, <1>3, <2>1, <3>2, <3>x, <3>4
        <3>6. p <= len+1 => x.key < a[p].key
            <4>1. ASSUME p <= len+1
                  PROVE  a[p] = kids[j+1] /\ j+1 \in j+1..len
                BY <1>1, <2>1, <3>p, <4>1
            <4> QED
                BY <1>4, <3>2, <3>x, <4>1
        <3>7. /\ Len(a) >= 1
              /\ \A i \in 2..p-1 : a[i].key <= x.key
              /\ p <= Len(a) => x.key < a[p].key
            BY <1>1, <1>2, <3>2, <3>3, <3>p, <3>5, <3>6
        <3> HIDE DEF len
        <3>8. Place(a, x) = [k \in 1..Len(a)+1 |->
                  IF k < p THEN a[k] ELSE IF k = p THEN x ELSE a[k-1]]
            <4>1. a \in Seq(KidOf(L))
                BY <3>3
            <4> QED
                BY ONLY Labels(L), <4>1, <3>7, PlaceIs
        <3>9. Inserted(kids, new, j) = [k \in 1..Len(a)+1 |->
                  IF k < p THEN a[k] ELSE IF k = p THEN x ELSE a[k-1]]
            <4>1. Len(kids)+Len(new) = Len(a)+1
                BY <1>1, <2>3, <3>3 DEF len
            <4>2. ASSUME NEW k \in 1..Len(a)+1
                  PROVE  (IF k < p THEN a[k] ELSE IF k = p THEN x ELSE a[k-1])
                            = (IF k <= j THEN kids[k]
                               ELSE IF k <= j+Len(new) THEN new[k-j] ELSE kids[k-Len(new)])
                <5>1. CASE k <= j
                    BY <1>1, <2>1, <3>3, <3>p, <5>1 DEF len
                <5>2. CASE k = j+1
                    BY <1>1, <2>1, <2>3, <3>3, <3>p, <5>2 DEF len
                <5>3. CASE k = j+2
                    BY <1>1, <2>1, <2>3, <3>3, <3>x, <3>p, <5>3 DEF len
                <5>4. CASE k > j+2
                    <6>1. k-1 \in 1..len+1 /\ ~(k-1 < j+1) /\ k-1 # j+1 /\ k-1-1 = k-2
                        BY <1>1, <3>3, <5>4 DEF len
                    <6>2. a[k-1] = kids[k-2]
                        BY <2>1, <6>1 DEF len
                    <6> QED
                        BY <1>1, <2>3, <3>3, <3>p, <5>4, <6>2 DEF len
                <5> QED
                    BY <1>1, <5>1, <5>2, <5>3, <5>4
            <4> QED
                BY <4>1, <4>2 DEF Inserted
        <3> QED
            BY <3>1, <3>x, <3>8, <3>9
    <2> QED
        BY <1>1, <1>6, <2>2, <2>3
<1> QED
    BY <1>5, <1>6

(* Then the child they replace is dropped.                                 *)
LEMMA ChildReplaced ==
    ASSUME NEW L, Labels(L), NEW lo, NEW h, NEW kids, GoodKids(L, kids, lo, h),
           NEW j \in DOMAIN kids, NEW new, Replaces(L, kids, new, j, h)
    PROVE  Without(PlaceAll(kids, new), kids[j].off) = Spliced(kids, new, j)
<1> DEFINE a == Inserted(kids, new, j)
           len == Len(kids) + Len(new)
           rm == kids[j].off
<1>1. /\ kids \in Seq(KidOf(L)) /\ Len(kids) \in Nat /\ DOMAIN kids = 1..Len(kids)
      /\ new \in Seq(KidOf(L)) /\ Len(new) \in Nat /\ DOMAIN new = 1..Len(new)
      /\ j \in 1..Len(kids)
    BY DEF Replaces, GoodKids
<1>2. /\ \A i \in 1..Len(kids) : kids[i] \in KidOf(L)
      /\ \A i \in 1..Len(new) : new[i] \in KidOf(L)
    BY <1>1
<1>3. \A k \in 1..len : a[k] = IF k <= j THEN kids[k]
                               ELSE IF k <= j+Len(new) THEN new[k-j] ELSE kids[k-Len(new)]
    BY DEF Inserted
<1>4. a = [k \in 1..len |-> a[k]]
    BY DEF Inserted
<1> HIDE DEF a
<1>5. \A k \in 1..len : \/ k <= j /\ k \in 1..Len(kids) /\ a[k] = kids[k]
                        \/ k > j /\ k-j \in 1..Len(new) /\ a[k] = new[k-j]
                        \/ k > j+Len(new) /\ k-Len(new) \in 1..Len(kids) /\ k-Len(new) > j
                           /\ a[k] = kids[k-Len(new)]
    <2> SUFFICES ASSUME NEW k \in 1..len
                 PROVE  \/ k <= j /\ k \in 1..Len(kids) /\ a[k] = kids[k]
                        \/ k > j /\ k-j \in 1..Len(new) /\ a[k] = new[k-j]
                        \/ k > j+Len(new) /\ k-Len(new) \in 1..Len(kids) /\ k-Len(new) > j
                           /\ a[k] = kids[k-Len(new)]
        OBVIOUS
    <2>1. CASE k <= j
        BY <1>1, <1>3, <2>1
    <2>2. CASE k > j /\ k <= j+Len(new)
        BY <1>1, <1>3, <2>2
    <2>3. CASE k > j /\ k > j+Len(new)
        BY <1>1, <1>3, <2>3
    <2> QED
        BY <1>1, <2>1, <2>2, <2>3
<1>6. a \in Seq(KidOf(L)) /\ Len(a) = len
    <2>1. \A k \in 1..len : a[k] \in KidOf(L)
        BY <1>2, <1>5
    <2>2. len \in Nat
        BY <1>1
    <2> HIDE DEF len
    <2> QED
        BY <1>4, <2>1, <2>2, IsSeq
<1>7. j \in 1..len /\ a[j].off = rm
    BY <1>1, <1>3
<1>8. \A k \in 1..len : k # j => a[k].off # rm
    <2> SUFFICES ASSUME NEW k \in 1..len, k # j
                 PROVE  a[k].off # rm
        OBVIOUS
    <2>1. \A i \in DOMAIN kids : i # j => kids[i].off # rm
        <3> SUFFICES ASSUME NEW i \in DOMAIN kids, i # j
                     PROVE  kids[i].off # rm
            OBVIOUS
        <3>1. i < j \/ j < i
            BY <1>1
        <3>2. CASE i < j
            BY <3>2, KidsDiffer
        <3>3. CASE j < i
            BY <3>3, KidsDiffer
        <3> QED
            BY <3>1, <3>2, <3>3
    <2>2. \A i \in DOMAIN new : new[i].off # rm
        BY DEF Replaces
    <2>3. k-Len(new) > j => k-Len(new) # j
        BY <1>1
    <2> QED
        BY <1>1, <1>5, <2>1, <2>2, <2>3
<1>9. Without(a, rm) = [k \in 1..len-1 |-> IF k < j THEN a[k] ELSE a[k+1]]
    <2> HIDE DEF rm, len
    <2> QED
        BY <1>6, <1>7, <1>8, WithoutIs
<1>10. \A k \in 1..len-1 : (IF k < j THEN a[k] ELSE a[k+1]) = Spliced(kids, new, j)[k]
    <2> SUFFICES ASSUME NEW k \in 1..len-1
                 PROVE  (IF k < j THEN a[k] ELSE a[k+1])
                          = IF k < j THEN kids[k]
                            ELSE IF k < j+Len(new) THEN new[k-j+1] ELSE kids[k-Len(new)+1]
        BY DEF Spliced
    <2>1. CASE k < j
        BY <1>1, <1>3, <2>1
    <2>2. CASE k >= j
        <3>1. k+1 \in 1..len /\ ~(k+1 <= j) /\ k+1-j = k-j+1 /\ k+1-Len(new) = k-Len(new)+1
              /\ (k+1 <= j+Len(new) <=> k < j+Len(new))
            BY <1>1, <2>2
        <3>2. a[k+1] = IF k+1 <= j+Len(new) THEN new[k+1-j] ELSE kids[k+1-Len(new)]
            <4>1. PICK q \in 1..len : q = k+1
                BY <3>1
            <4>2. a[q] = IF q <= j+Len(new) THEN new[q-j] ELSE kids[q-Len(new)]
                BY <1>1, <1>3, <3>1, <4>1
            <4> QED
                BY ONLY <4>1, <4>2
        <3> QED
            BY <1>1, <2>2, <3>1, <3>2
    <2> QED
        BY <1>1, <2>1, <2>2
<1>11. Spliced(kids, new, j) = [k \in 1..len-1 |-> Spliced(kids, new, j)[k]]
    BY DEF Spliced
<1>12. Without(a, rm) = Spliced(kids, new, j)
    BY <1>9, <1>10, <1>11
<1> QED
    BY <1>12, PlacedBehind DEF a, rm

OthersRecs(L, kids, j) == UNION {L[kids[i].off].recs : i \in DOMAIN kids \ {j}}

(* The children are as good as they were, and hold the records of the new  *)
(* ones in the place of those of the old one.                              *)
LEMMA SplicedGood ==
    ASSUME NEW L, Labels(L), NEW lo \in Key, NEW h, NEW kids, GoodKids(L, kids, lo, h),
           NEW j \in DOMAIN kids, NEW new, Replaces(L, kids, new, j, h)
    PROVE  LET s == Spliced(kids, new, j) IN
           /\ GoodKids(L, s, lo, h) /\ Len(s) = Len(kids) + Len(new) - 1
           /\ KidsRecs(L, s) = OthersRecs(L, kids, j) \cup KidsRecs(L, new)
<1> DEFINE s == Spliced(kids, new, j)
           n == Len(kids)
           m == Len(new)
<1>1. /\ kids \in Seq(KidOf(L)) /\ n \in Nat /\ DOMAIN kids = 1..n
      /\ new \in Seq(KidOf(L)) /\ m \in Nat /\ DOMAIN new = 1..m
      /\ j \in 1..n
    BY DEF Replaces, GoodKids
<1>2. /\ \A i \in 1..n : kids[i] \in KidOf(L)
      /\ \A i \in 1..m : new[i] \in KidOf(L)
    BY <1>1
<1>3. /\ s = [k \in 1..n+m-1 |-> s[k]]
      /\ \A k \in 1..n+m-1 : s[k] = IF k < j THEN kids[k]
                                    ELSE IF k < j+m THEN new[k-j+1] ELSE kids[k-m+1]
    BY DEF Spliced
<1> HIDE DEF s, n, m
<1>4. \A k \in 1..n+m-1 : \/ k < j /\ k \in 1..n /\ s[k] = kids[k]
                          \/ k >= j /\ k-j+1 \in 1..m /\ s[k] = new[k-j+1]
                          \/ k >= j+m /\ k-m+1 \in j+1..n /\ k-m+1 \in 1..n /\ s[k] = kids[k-m+1]
    <2> SUFFICES ASSUME NEW k \in 1..n+m-1
                 PROVE  \/ k < j /\ k \in 1..n /\ s[k] = kids[k]
                        \/ k >= j /\ k-j+1 \in 1..m /\ s[k] = new[k-j+1]
                        \/ k >= j+m /\ k-m+1 \in j+1..n /\ k-m+1 \in 1..n /\ s[k] = kids[k-m+1]
        OBVIOUS
    <2>1. CASE k < j
        BY <1>1, <1>3, <2>1
    <2>2. CASE k >= j /\ k < j+m
        BY <1>1, <1>3, <2>2
    <2>3. CASE k >= j /\ k >= j+m
        BY <1>1, <1>3, <2>3
    <2> QED
        BY <1>1, <2>1, <2>2, <2>3
<1>5. s \in Seq(KidOf(L)) /\ Len(s) = n+m-1 /\ DOMAIN s = 1..n+m-1
    <2>1. \A k \in 1..n+m-1 : s[k] \in KidOf(L)
        BY <1>2, <1>4
    <2>2. n+m-1 \in Nat
        BY <1>1
    <2> QED
        BY <1>3, <2>1, <2>2, IsSeq
<1>6. /\ \A i \in 1..n : /\ L[kids[i].off].recs # {} /\ L[kids[i].off].h = h
                         /\ lo <= kids[i].key
                         /\ \A r \in L[kids[i].off].recs : kids[i].key <= r.key
      /\ \A i, k \in 1..n : i < k => \A r \in L[kids[i].off].recs : r.key < kids[k].key
    BY <1>1 DEF GoodKids
<1>7. /\ \A i \in 1..m : /\ L[new[i].off].recs # {} /\ L[new[i].off].h = h
                         /\ kids[j].key <= new[i].key
                         /\ \A r \in L[new[i].off].recs : new[i].key <= r.key
      /\ \A i, k \in 1..m : i < k => \A r \in L[new[i].off].recs : r.key < new[k].key
      /\ \A i \in 1..m, k \in 1..n : k > j => \A r \in L[new[i].off].recs : r.key < kids[k].key
    BY <1>1 DEF Replaces, GoodKids
<1>8. /\ \A i \in 1..n : kids[i].key \in Nat /\ kids[i].off \in DOMAIN L
      /\ \A i \in 1..m : new[i].key \in Nat /\ new[i].off \in DOMAIN L
      /\ lo \in Nat
    BY <1>2, KeysAreNats DEF KidOf
<1>9. \A k \in 1..n+m-1 : /\ L[s[k].off].recs # {} /\ L[s[k].off].h = h
                          /\ \A r \in L[s[k].off].recs : s[k].key <= r.key
    BY <1>4, <1>6, <1>7
<1>10. \A k \in 1..n+m-1 : lo <= s[k].key
    <2>1. \A i \in 1..m : lo <= new[i].key
        BY <1>1, <1>6, <1>7, <1>8
    <2> QED
        BY <1>4, <1>6, <2>1
<1>11. \A i, k \in 1..n+m-1 : i < k => \A r \in L[s[i].off].recs : r.key < s[k].key
    <2> SUFFICES ASSUME NEW i \in 1..n+m-1, NEW k \in 1..n+m-1, i < k,
                        NEW r \in L[s[i].off].recs
                 PROVE  r.key < s[k].key
        OBVIOUS
    <2>0. r.key \in Nat
        <3>1. s[i].off \in DOMAIN L
            BY <1>4, <1>8
        <3> QED
            BY <3>1, KeysAreNats
    <2>1. CASE i < j
        <3>1. i \in 1..n /\ s[i] = kids[i]
            BY <1>1, <1>3, <2>1
        <3>2. r.key < kids[j].key
            BY <1>1, <1>6, <2>1, <3>1
        <3>3. CASE k < j
            <4>1. k \in 1..n /\ s[k] = kids[k]
                BY <1>1, <1>4, <3>3
            <4> QED
                BY <1>6, <3>1, <4>1
        <3>4. CASE k-j+1 \in 1..m /\ s[k] = new[k-j+1]
            BY <1>1, <1>7, <1>8, <2>0, <3>2, <3>4
        <3>5. CASE k-m+1 \in j+1..n /\ k-m+1 \in 1..n /\ s[k] = kids[k-m+1]
            <4>1. i < k-m+1
                BY <1>1, <2>1, <3>5
            <4> QED
                BY <1>6, <3>1, <3>5, <4>1
        <3> QED
            BY <1>4, <3>3, <3>4, <3>5
    <2>2. CASE i >= j /\ i-j+1 \in 1..m /\ s[i] = new[i-j+1]
        <3>1. CASE k-j+1 \in 1..m /\ s[k] = new[k-j+1]
            <4>1. i-j+1 < k-j+1
                BY <1>1
            <4> QED
                BY <1>7, <2>2, <3>1, <4>1
        <3>2. CASE k-m+1 \in j+1..n /\ k-m+1 \in 1..n /\ s[k] = kids[k-m+1]
            <4>1. k-m+1 > j
                BY <1>1, <3>2
            <4> QED
                BY <1>7, <2>2, <3>2, <4>1
        <3>3. ~(k < j)
            BY <1>1, <2>2
        <3> QED
            BY <1>4, <3>1, <3>2, <3>3
    <2>3. CASE i >= j+m /\ i-m+1 \in j+1..n /\ i-m+1 \in 1..n /\ s[i] = kids[i-m+1]
        <3>1. ~(k < j) /\ ~(k-j+1 \in 1..m)
            BY <1>1, <2>3
        <3>2. k-m+1 \in 1..n /\ s[k] = kids[k-m+1]
            BY <1>4, <3>1
        <3>3. i-m+1 < k-m+1
            BY <1>1
        <3> QED
            BY <1>6, <2>3, <3>2, <3>3
    <2> QED
        BY <1>4, <2>1, <2>2, <2>3
<1>12. GoodKids(L, s, lo, h)
    BY <1>5, <1>9, <1>10, <1>11 DEF GoodKids
<1>13. KidsRecs(L, s) \subseteq OthersRecs(L, kids, j) \cup KidsRecs(L, new)
    <2> SUFFICES ASSUME NEW k \in 1..n+m-1, NEW r \in L[s[k].off].recs
                 PROVE  r \in OthersRecs(L, kids, j) \cup KidsRecs(L, new)
        BY <1>5 DEF KidsRecs
    <2>1. CASE k < j /\ k \in 1..n /\ s[k] = kids[k]
        <3>1. k \in DOMAIN kids \ {j}
            BY <1>1, <2>1
        <3> QED
            BY <2>1, <3>1 DEF OthersRecs
    <2>2. CASE k-j+1 \in 1..m /\ s[k] = new[k-j+1]
        BY <1>1, <2>2 DEF KidsRecs
    <2>3. CASE k-m+1 \in j+1..n /\ k-m+1 \in 1..n /\ s[k] = kids[k-m+1]
        <3>1. k-m+1 \in DOMAIN kids \ {j}
            BY <1>1, <2>3
        <3> QED
            BY <2>3, <3>1 DEF OthersRecs
    <2> QED
        BY <1>4, <2>1, <2>2, <2>3
<1>14. OthersRecs(L, kids, j) \subseteq KidsRecs(L, s)
    <2> SUFFICES ASSUME NEW i \in 1..n, i # j, NEW r \in L[kids[i].off].recs
                 PROVE  \E k \in 1..n+m-1 : r \in L[s[k].off].recs
        BY <1>1, <1>5 DEF KidsRecs, OthersRecs
    <2>1. CASE i < j
        <3>1. i \in 1..n+m-1 /\ s[i] = kids[i]
            BY <1>1, <1>3, <2>1
        <3> QED
            BY <3>1
    <2>2. CASE i > j
        <3>1. PICK k \in 1..n+m-1 : k = i+m-1
            BY <1>1, <2>2
        <3>2. s[k] = kids[k-m+1] /\ k-m+1 = i
            BY <1>1, <1>3, <2>2, <3>1
        <3> QED
            BY <3>2
    <2> QED
        BY <1>1, <2>1, <2>2
<1>15. KidsRecs(L, new) \subseteq KidsRecs(L, s)
    <2> SUFFICES ASSUME NEW i \in 1..m, NEW r \in L[new[i].off].recs
                 PROVE  \E k \in 1..n+m-1 : r \in L[s[k].off].recs
        BY <1>1, <1>5 DEF KidsRecs
    <2>1. PICK k \in 1..n+m-1 : k = i+j-1
        BY <1>1
    <2>2. s[k] = new[k-j+1] /\ k-j+1 = i
        BY <1>1, <1>3, <2>1
    <2> QED
        BY <2>2
<1>16. KidsRecs(L, s) = OthersRecs(L, kids, j) \cup KidsRecs(L, new)
    BY <1>13, <1>14, <1>15
<1> QED
    BY <1>5, <1>12, <1>16 DEF s, n, m

(* A branch of children that fit.                                          *)
LEMMA BranchGood ==
    ASSUME NEW L, Labels(L), NEW lo \in Key, NEW h \in Nat, NEW kids,
           GoodKids(L, kids, lo, h), Len(kids) \in 1..MAX_NODE_SIZE-1
    PROVE  LET b == BranchOf(kids) IN
           /\ NodeOK(L, b.node) /\ b.node \in NodeType /\ b.key = kids[1].key /\ b.key \in Key
           /\ b \in NewNode
           /\ LabelOf(L, b.node) = [recs |-> KidsRecs(L, kids), h |-> h + 1]
           /\ LabelOf(L, b.node) \in Label
           /\ KidsRecs(L, kids) # {} /\ lo <= b.key /\ \A r \in KidsRecs(L, kids) : b.key <= r.key
<1> DEFINE b    == BranchOf(kids)
           n    == Len(kids)
           keys == [i \in 1..n-1 |-> kids[i+1].key]
           offs == [i \in 1..n |-> kids[i].off]
           node == Branch(keys, offs)
<1>1. /\ kids \in Seq(KidOf(L)) /\ n \in Nat /\ n >= 1 /\ DOMAIN kids = 1..n
      /\ n \in 1..MAX_NODE_SIZE-1
    BY TreeAssumption DEF GoodKids
<1>2. \A i \in 1..n : kids[i].key \in Key /\ kids[i].off \in DOMAIN L
    <2>1. \A i \in 1..n : kids[i] \in KidOf(L)
        BY <1>1
    <2> QED
        BY <2>1 DEF KidOf
<1>3. b = [key |-> kids[1].key, node |-> node]
    BY DEF BranchOf
<1>4. /\ \A i \in 1..n : /\ L[kids[i].off].recs # {} /\ L[kids[i].off].h = h
                         /\ lo <= kids[i].key
                         /\ \A r \in L[kids[i].off].recs : kids[i].key <= r.key
      /\ \A i, k \in 1..n : i < k => \A r \in L[kids[i].off].recs : r.key < kids[k].key
    BY <1>1 DEF GoodKids
<1> HIDE DEF b, n
<1>5. keys \in Seq(Key) /\ Len(keys) = n-1 /\ DOMAIN keys = 1..n-1
      /\ \A i \in 1..n-1 : keys[i] = kids[i+1].key
    <2>1. \A i \in 1..n-1 : i+1 \in 1..n
        BY <1>1
    <2>2. /\ \A i \in 1..n-1 : keys[i] \in Key
          /\ keys = [i \in 1..n-1 |-> keys[i]] /\ n-1 \in Nat
        BY <1>1, <1>2, <2>1
    <2>3. DOMAIN keys = 1..n-1 /\ \A i \in 1..n-1 : keys[i] = kids[i+1].key
        OBVIOUS
    <2> HIDE DEF keys
    <2> QED
        BY <2>2, <2>3, IsSeq
<1>6. offs \in Seq(DOMAIN L) /\ Len(offs) = n /\ DOMAIN offs = 1..n
      /\ \A i \in 1..n : offs[i] = kids[i].off
    <2>1. /\ \A i \in 1..n : offs[i] \in DOMAIN L
          /\ offs = [i \in 1..n |-> offs[i]]
        BY <1>1, <1>2
    <2>2. DOMAIN offs = 1..n /\ \A i \in 1..n : offs[i] = kids[i].off
        OBVIOUS
    <2> HIDE DEF offs
    <2> QED
        BY <1>1, <2>1, <2>2, IsSeq
<1> HIDE DEF keys, offs
<1>7. /\ node.type = "b" /\ node.recs = <<>> /\ node.keys = keys /\ node.offs = offs
      /\ node = [type |-> "b", recs |-> <<>>, keys |-> keys, offs |-> offs]
    BY DEF Branch
<1>8. offs \in Seq(Nat)
    <2>1. \A i \in 1..n : offs[i] \in Nat
        BY <1>2, <1>6 DEF Labels
    <2> QED
        BY <1>1, <1>6, <2>1
<1>9. node \in NodeType
    <2>1. <<>> \in Seq([key : Key, val : Value])
        OBVIOUS
    <2> HIDE DEF node
    <2> QED
        BY <1>5, <1>7, <1>8, <2>1 DEF NodeType
<1>10. \A i \in DOMAIN keys, k \in DOMAIN offs : \A r \in L[offs[k]].recs :
          IF k <= i THEN r.key < keys[i] ELSE keys[i] <= r.key
    <2> SUFFICES ASSUME NEW i \in 1..n-1, NEW k \in 1..n, NEW r \in L[kids[k].off].recs
                 PROVE  IF k <= i THEN r.key < kids[i+1].key ELSE kids[i+1].key <= r.key
        <3>1. ASSUME \A i \in 1..n-1, k \in 1..n : \A r \in L[kids[k].off].recs :
                        IF k <= i THEN r.key < kids[i+1].key ELSE kids[i+1].key <= r.key,
                     NEW i \in 1..n-1, NEW k \in 1..n, NEW r \in L[offs[k]].recs
              PROVE  IF k <= i THEN r.key < keys[i] ELSE keys[i] <= r.key
            <4>1. keys[i] = kids[i+1].key /\ r \in L[kids[k].off].recs
                BY <1>5, <1>6
            <4> QED
                BY <3>1, <4>1
        <3> QED
            BY <1>5, <1>6, <3>1
    <2>1. i+1 \in 1..n
        BY <1>1
    <2>2. CASE k <= i
        <3>1. k < i+1
            BY <1>1, <2>2
        <3> QED
            BY <1>4, <2>1, <2>2, <3>1
    <2>3. CASE ~(k <= i)
        <3>1. k = i+1 \/ i+1 < k
            BY <1>1, <2>3
        <3>2. CASE k = i+1
            BY <1>4, <2>3, <3>2
        <3>3. CASE i+1 < k
            <4>1. PICK p \in 1..n : p = i+1
                BY <2>1
            <4>2. PICK q \in L[kids[p].off].recs : TRUE
                BY <1>4
            <4>3. kids[p].key <= q.key /\ q.key < kids[k].key /\ kids[k].key <= r.key
                BY <1>4, <3>3, <4>1
            <4>4. kids[p].key \in Nat /\ kids[k].key \in Nat /\ q.key \in Nat /\ r.key \in Nat
                BY <1>2, KeysAreNats
            <4> QED
                BY <2>3, <4>1, <4>3, <4>4
        <3> QED
            BY <3>1, <3>2, <3>3
    <2> QED
        BY <2>2, <2>3
<1>11. NodeOK(L, node)
    <2>1. 1 \in 1..n
        BY <1>1
    <2>2. \A i \in DOMAIN offs : L[offs[i]].recs # {} /\ L[offs[i]].h = L[offs[1]].h
        BY <1>4, <1>6, <2>1
    <2>3. node = Branch(node.keys, node.offs)
        BY <1>7
    <2> HIDE DEF node
    <2>4. BranchOK(L, node)
        BY <1>1, <1>5, <1>6, <1>7, <1>10, <2>2, <2>3 DEF BranchOK
    <2> QED
        BY <2>4 DEF NodeOK
<1> HIDE DEF node
<1>12. LabelOf(L, node) = [recs |-> KidsRecs(L, kids), h |-> h + 1]
    <2>1. L[node.offs[1]].h = h
        <3>1. 1 \in 1..n
            BY <1>1
        <3> QED
            BY <1>4, <1>6, <1>7, <3>1
    <2>2. UNION {L[node.offs[i]].recs : i \in DOMAIN node.offs} = KidsRecs(L, kids)
        BY <1>1, <1>6, <1>7 DEF KidsRecs
    <2>3. node.type # "l"
        BY <1>7
    <2> QED
        BY <2>1, <2>2, <2>3 DEF LabelOf
<1>13. KidsRecs(L, kids) \subseteq Record
    <2>1. \A i \in 1..n : L[kids[i].off].recs \subseteq Record
        BY <1>2, KeysAreNats
    <2> QED
        BY <1>1, <2>1 DEF KidsRecs
<1>14. LabelOf(L, node) \in Label
    BY <1>12, <1>13 DEF Label
<1>15. /\ KidsRecs(L, kids) # {}
       /\ \A r \in KidsRecs(L, kids) : kids[1].key <= r.key
    <2>1. 1 \in 1..n
        BY <1>1
    <2>2. KidsRecs(L, kids) # {}
        BY <1>1, <1>4, <2>1 DEF KidsRecs
    <2>3. ASSUME NEW i \in 1..n, NEW r \in L[kids[i].off].recs
          PROVE  kids[1].key <= r.key
        <3>1. CASE i = 1
            BY <1>4, <3>1
        <3>2. CASE i # 1
            <4>1. 1 < i
                BY <1>1, <3>2
            <4>2. kids[1].key < kids[i].key
                BY <1>1, <2>1, <4>1, KidsDiffer
            <4>3. kids[i].key <= r.key
                BY <1>4
            <4>4. kids[1].key \in Nat /\ kids[i].key \in Nat /\ r.key \in Nat
                BY <1>2, <2>1, KeysAreNats
            <4> QED
                BY <4>2, <4>3, <4>4
        <3> QED
            BY <3>1, <3>2
    <2> QED
        BY <1>1, <2>2, <2>3 DEF KidsRecs
<1>16. b.key = kids[1].key /\ b.node = node /\ b.key \in Key /\ lo <= b.key
    BY <1>1, <1>2, <1>3, <1>4
<1>17. b \in NewNode
    BY <1>3, <1>9, <1>16 DEF NewNode
<1> QED
    BY <1>9, <1>11, <1>12, <1>14, <1>15, <1>16, <1>17 DEF b

(* Too many children are cut in two halves.                                *)
LEMMA KidsHalves ==
    ASSUME NEW L, Labels(L), NEW lo \in Key, NEW h, NEW kids, GoodKids(L, kids, lo, h),
           NEW half \in 1..Len(kids)-1
    PROVE  LET a == SubSeq(kids, 1, half)
               b == SubSeq(kids, half + 1, Len(kids)) IN
           /\ GoodKids(L, a, lo, h) /\ Len(a) = half
           /\ GoodKids(L, b, lo, h) /\ Len(b) = Len(kids) - half
           /\ KidsRecs(L, kids) = KidsRecs(L, a) \cup KidsRecs(L, b)
           /\ \A r \in KidsRecs(L, a) : r.key < b[1].key
<1> DEFINE a == SubSeq(kids, 1, half)
           b == SubSeq(kids, half + 1, Len(kids))
           n == Len(kids)
<1>1. /\ kids \in Seq(KidOf(L)) /\ n \in Nat /\ DOMAIN kids = 1..n
    BY DEF GoodKids
<1>2. /\ a \in Seq(KidOf(L)) /\ Len(a) = half /\ DOMAIN a = 1..half
      /\ \A k \in 1..half : a[k] = kids[k] /\ k \in 1..n
    BY <1>1
<1>3. /\ b \in Seq(KidOf(L)) /\ Len(b) = n - half /\ DOMAIN b = 1..n - half
      /\ \A k \in 1..n - half : b[k] = kids[k + half] /\ k + half \in 1..n
    BY <1>1
<1> HIDE DEF a, b, n
<1>4. /\ \A i \in 1..n : /\ L[kids[i].off].recs # {} /\ L[kids[i].off].h = h
                         /\ lo <= kids[i].key
                         /\ \A r \in L[kids[i].off].recs : kids[i].key <= r.key
      /\ \A i, k \in 1..n : i < k => \A r \in L[kids[i].off].recs : r.key < kids[k].key
    BY <1>1 DEF GoodKids
<1>5. GoodKids(L, a, lo, h)
    <2>1. \A i, k \in 1..half : i < k => \A r \in L[a[i].off].recs : r.key < a[k].key
        BY <1>2, <1>4
    <2>2. \A i \in 1..half : /\ L[a[i].off].recs # {} /\ L[a[i].off].h = h
                             /\ lo <= a[i].key
                             /\ \A r \in L[a[i].off].recs : a[i].key <= r.key
        BY <1>2, <1>4
    <2> QED
        BY <1>2, <2>1, <2>2 DEF GoodKids
<1>6. GoodKids(L, b, lo, h)
    <2>1. \A i, k \in 1..n - half : i < k => \A r \in L[b[i].off].recs : r.key < b[k].key
        <3> SUFFICES ASSUME NEW i \in 1..n - half, NEW k \in 1..n - half, i < k,
                            NEW r \in L[b[i].off].recs
                     PROVE  r.key < b[k].key
            OBVIOUS
        <3>1. i + half < k + half
            BY <1>1
        <3> QED
            BY <1>3, <1>4, <3>1
    <2>2. \A i \in 1..n - half : /\ L[b[i].off].recs # {} /\ L[b[i].off].h = h
                                 /\ lo <= b[i].key
                                 /\ \A r \in L[b[i].off].recs : b[i].key <= r.key
        BY <1>3, <1>4
    <2> QED
        BY <1>3, <2>1, <2>2 DEF GoodKids
<1>7. \A r \in KidsRecs(L, a) : r.key < b[1].key
    <2>1. 1 \in 1..n - half /\ 1 + half \in 1..n
        BY <1>1 DEF n
    <2> SUFFICES ASSUME NEW i \in 1..half, NEW r \in L[a[i].off].recs
                 PROVE  r.key < b[1].key
        BY <1>2 DEF KidsRecs
    <2>2. i < 1 + half
        OBVIOUS
    <2> QED
        BY <1>2, <1>3, <1>4, <2>1, <2>2
<1>8. KidsRecs(L, kids) \subseteq KidsRecs(L, a) \cup KidsRecs(L, b)
    <2> SUFFICES ASSUME NEW i \in 1..n, NEW r \in L[kids[i].off].recs
                 PROVE  r \in KidsRecs(L, a) \cup KidsRecs(L, b)
        BY <1>1 DEF KidsRecs
    <2>1. CASE i <= half
        <3>1. i \in 1..half
            BY <1>1, <2>1
        <3> QED
            BY <1>2, <3>1 DEF KidsRecs
    <2>2. CASE i > half
        <3>1. PICK k \in 1..n - half : k = i - half
            BY <1>1, <2>2
        <3>2. b[k] = kids[i]
            BY <1>1, <1>3, <3>1
        <3> QED
            BY <1>3, <3>2 DEF KidsRecs
    <2> QED
        BY <1>1, <2>1, <2>2
<1>9. KidsRecs(L, a) \subseteq KidsRecs(L, kids)
    BY <1>1, <1>2 DEF KidsRecs
<1>10. KidsRecs(L, b) \subseteq KidsRecs(L, kids)
    BY <1>1, <1>3 DEF KidsRecs
<1> QED
    BY <1>2, <1>3, <1>5, <1>6, <1>7, <1>8, <1>9, <1>10 DEF a, b, n

(* modify_branch: the branches in the place of the old one are good, and   *)
(* hold the records that the new children change.                          *)
LEMMA BranchModified ==
    ASSUME NEW L, Labels(L), NEW node, BranchOK(L, node), NEW lo \in Key,
           \A r \in LabelOf(L, node).recs : lo <= r.key,
           NEW key \in Key, NEW val \in Value \cup {NULL}, NEW new, NEW h \in Nat, NEW rm,
           h = L[node.offs[1]].h, rm = node.offs[ChildIndex(node, key)],
           Replaces(L, Children(node, lo), new, ChildIndex(node, key), h),
           KidsRecs(L, new) = Changed(L[rm].recs, key, val)
    PROVE  /\ GoodNodes(L, ModifyBranch(node, lo, new, rm), lo, h + 1)
           /\ NodesRecs(L, ModifyBranch(node, lo, new, rm)) = Changed(LabelOf(L, node).recs, key, val)
<1> DEFINE old  == Children(node, lo)
           j    == ChildIndex(node, key)
           kids == Spliced(old, new, j)
           half == MAX_NODE_SIZE \div 2
           mod  == ModifyBranch(node, lo, new, rm)
<1>1. /\ GoodKids(L, old, lo, h)
      /\ DOMAIN old = DOMAIN node.offs /\ Len(old) = Len(node.offs)
      /\ \A i \in DOMAIN old : old[i].off = node.offs[i]
      /\ KidsRecs(L, old) = LabelOf(L, node).recs
    BY ChildrenGood
<1>2. j \in DOMAIN old /\ old[j].off = rm
    BY <1>1, ChildIndexIs
<1>3. Replaces(L, old, new, j, h)
    OBVIOUS
<1>4. \A i \in DOMAIN old : i # j => \A r \in L[old[i].off].recs : r.key # key
    <2> SUFFICES ASSUME NEW i \in DOMAIN old, NEW r \in L[old[i].off].recs, r.key = key
                 PROVE  i = j
        OBVIOUS
    <2>1. i \in DOMAIN node.offs /\ r \in L[node.offs[i]].recs
        BY <1>1
    <2> HIDE DEF old, j
    <2> QED
        BY <2>1, OnlyChild DEF j
<1>5. Len(node.offs) \in 1..MAX_NODE_SIZE-1
    BY DEF BranchOK
<1>6. DOMAIN new = 1..Len(new) /\ Len(new) \in 0..2
    BY DEF Replaces, GoodKids
<1> HIDE DEF old, j
<1>7. Without(PlaceAll(old, new), rm) = kids
    BY <1>1, <1>2, <1>3, ChildReplaced
<1>8. /\ GoodKids(L, kids, lo, h) /\ Len(kids) = Len(old) + Len(new) - 1
      /\ KidsRecs(L, kids) = OthersRecs(L, old, j) \cup KidsRecs(L, new)
    BY <1>1, <1>2, <1>3, SplicedGood
<1>9. KidsRecs(L, kids) = Changed(LabelOf(L, node).recs, key, val)
    <2>1. KidsRecs(L, old) = OthersRecs(L, old, j) \cup L[rm].recs
        BY <1>2 DEF KidsRecs, OthersRecs
    <2>2. \A r \in OthersRecs(L, old, j) : r.key # key
        BY <1>4 DEF OthersRecs
    <2>3. Changed(KidsRecs(L, old), key, val) = OthersRecs(L, old, j) \cup Changed(L[rm].recs, key, val)
        BY <2>1, <2>2 DEF Changed
    <2> QED
        BY <1>1, <1>8, <2>3
<1>10. mod = IF kids = <<>> THEN <<>>
             ELSE IF Len(kids) < MAX_NODE_SIZE THEN <<BranchOf(kids)>>
             ELSE <<BranchOf(SubSeq(kids, 1, half)), BranchOf(SubSeq(kids, half + 1, Len(kids)))>>
    BY <1>7 DEF ModifyBranch, old
<1>11. /\ kids \in Seq(KidOf(L)) /\ Len(kids) \in Nat /\ Len(kids) <= MAX_NODE_SIZE
       /\ half \in 1..MAX_NODE_SIZE-1 /\ 2 * half = MAX_NODE_SIZE /\ MAX_NODE_SIZE \in Nat
    <2>1. kids \in Seq(KidOf(L))
        BY <1>8 DEF GoodKids
    <2>2. MAX_NODE_SIZE \in Nat /\ half \in 1..MAX_NODE_SIZE-1 /\ 2 * half = MAX_NODE_SIZE
        BY TreeAssumption
    <2>3. Len(kids) <= MAX_NODE_SIZE
        <3> HIDE DEF kids
        <3>1. Len(kids) = Len(node.offs) + Len(new) - 1
            BY <1>1, <1>8
        <3> QED
            BY ONLY <1>5, <1>6, <2>2, <3>1
    <2> QED
        BY <2>1, <2>2, <2>3
<1> HIDE DEF kids, mod, half
<1>12. CASE kids = <<>>
    <2>1. mod = <<>>
        BY <1>10, <1>12
    <2>2. KidsRecs(L, kids) = {}
        BY <1>12 DEF KidsRecs
    <2>3. GoodNodes(L, <<>>, lo, h + 1) /\ NodesRecs(L, <<>>) = {}
        BY DEF GoodNodes, NodesRecs
    <2> QED
        BY <1>9, <2>1, <2>2, <2>3 DEF mod
<1>13. CASE kids # <<>> /\ Len(kids) < MAX_NODE_SIZE
    <2> DEFINE b == BranchOf(kids)
    <2>1. Len(kids) \in 1..MAX_NODE_SIZE-1
        BY <1>11, <1>13
    <2>2. /\ NodeOK(L, b.node) /\ b \in NewNode
          /\ LabelOf(L, b.node) = [recs |-> KidsRecs(L, kids), h |-> h + 1]
          /\ LabelOf(L, b.node) \in Label
          /\ KidsRecs(L, kids) # {} /\ lo <= b.key /\ \A r \in KidsRecs(L, kids) : b.key <= r.key
        <3>1. GoodKids(L, kids, lo, h)
            BY <1>8
        <3> QED
            BY ONLY Labels(L), lo \in Key, h \in Nat, <2>1, <3>1, BranchGood DEF b
    <2>3. mod = <<b>>
        BY <1>10, <1>13
    <2> HIDE DEF b
    <2>4. GoodNodes(L, <<b>>, lo, h + 1) /\ NodesRecs(L, <<b>>) = KidsRecs(L, kids)
        <3> DEFINE nodes == <<b>>
        <3>1. /\ nodes \in Seq(NewNode) /\ Len(nodes) = 1
              /\ DOMAIN nodes = {1} /\ nodes[1] = b
            BY <2>2
        <3> HIDE DEF nodes
        <3>2. GoodNodes(L, nodes, lo, h + 1)
            BY <2>2, <3>1 DEF GoodNodes
        <3>3. NodesRecs(L, nodes) = KidsRecs(L, kids)
            BY <2>2, <3>1 DEF NodesRecs
        <3> QED
            BY <3>2, <3>3 DEF nodes
    <2> QED
        BY <1>9, <2>3, <2>4 DEF mod
<1>14. CASE kids # <<>> /\ Len(kids) >= MAX_NODE_SIZE
    <2> DEFINE k1 == SubSeq(kids, 1, half)
               k2 == SubSeq(kids, half + 1, Len(kids))
               b  == BranchOf(k1)
               c  == BranchOf(k2)
    <2>1. Len(kids) = MAX_NODE_SIZE /\ half \in 1..Len(kids)-1 /\ Len(kids) - half = half
        BY <1>11, <1>14
    <2>2. /\ GoodKids(L, k1, lo, h) /\ Len(k1) = half
          /\ GoodKids(L, k2, lo, h) /\ Len(k2) = Len(kids) - half
          /\ KidsRecs(L, kids) = KidsRecs(L, k1) \cup KidsRecs(L, k2)
          /\ \A r \in KidsRecs(L, k1) : r.key < k2[1].key
        <3>1. GoodKids(L, kids, lo, h) /\ half \in 1..Len(kids)-1
            BY <1>8, <2>1
        <3> QED
            BY ONLY Labels(L), lo \in Key, <3>1, KidsHalves DEF k1, k2
    <2>3. mod = <<b, c>>
        BY <1>10, <1>14, <1>11
    <2> HIDE DEF k1, k2
    <2>4. /\ NodeOK(L, b.node) /\ b \in NewNode
          /\ LabelOf(L, b.node) = [recs |-> KidsRecs(L, k1), h |-> h + 1]
          /\ LabelOf(L, b.node) \in Label
          /\ KidsRecs(L, k1) # {} /\ lo <= b.key /\ \A r \in KidsRecs(L, k1) : b.key <= r.key
        BY <1>11, <2>2, BranchGood
    <2>5. /\ NodeOK(L, c.node) /\ c \in NewNode /\ c.key = k2[1].key
          /\ LabelOf(L, c.node) = [recs |-> KidsRecs(L, k2), h |-> h + 1]
          /\ LabelOf(L, c.node) \in Label
          /\ KidsRecs(L, k2) # {} /\ lo <= c.key /\ \A r \in KidsRecs(L, k2) : c.key <= r.key
        BY <1>11, <2>1, <2>2, BranchGood
    <2> HIDE DEF b, c
    <2>6. GoodNodes(L, <<b, c>>, lo, h + 1) /\ NodesRecs(L, <<b, c>>) = KidsRecs(L, kids)
        <3> DEFINE nodes == <<b, c>>
        <3>1. /\ nodes \in Seq(NewNode) /\ Len(nodes) = 2
              /\ DOMAIN nodes = {1, 2} /\ nodes[1] = b /\ nodes[2] = c
            BY <2>4, <2>5
        <3> HIDE DEF nodes
        <3>2. GoodNodes(L, nodes, lo, h + 1)
            <4>1. \A i \in DOMAIN nodes :
                     /\ NodeOK(L, nodes[i].node)
                     /\ LabelOf(L, nodes[i].node) \in Label
                     /\ LabelOf(L, nodes[i].node).recs # {} /\ LabelOf(L, nodes[i].node).h = h + 1
                     /\ lo <= nodes[i].key
                     /\ \A r \in LabelOf(L, nodes[i].node).recs : nodes[i].key <= r.key
                BY <2>4, <2>5, <3>1
            <4>2. \A r \in LabelOf(L, nodes[1].node).recs : r.key < nodes[2].key
                BY <2>2, <2>4, <2>5, <3>1
            <4> QED
                BY <3>1, <4>1, <4>2 DEF GoodNodes
        <3>3. NodesRecs(L, nodes) = KidsRecs(L, kids)
            BY <2>2, <2>4, <2>5, <3>1 DEF NodesRecs
        <3> QED
            BY <3>2, <3>3 DEF nodes
    <2> QED
        BY <1>9, <2>3, <2>6 DEF mod
<1> QED
    BY <1>11, <1>12, <1>13, <1>14

-----------------------------------------------------------------------------
(* The cells of the file and their labels.                                 *)

(* M has the labels of L, and may have more.                               *)
Extends(M, L) == \A o \in DOMAIN L : o \in DOMAIN M /\ M[o] = L[o]

(* Which of the two a node is.                                             *)
LEMMA NodeIs ==
    ASSUME NEW L, NEW node, NodeOK(L, node)
    PROVE  \/ node.type = "l" /\ LeafOK(node) /\ node.offs = <<>>
           \/ node.type = "b" /\ BranchOK(L, node)
<1>1. CASE LeafOK(node)
    <2>1. Leaf(node.recs).type = "l" /\ Leaf(node.recs).offs = <<>>
        BY DEF Leaf
    <2> QED
        BY <1>1, <2>1 DEF LeafOK
<1>2. CASE BranchOK(L, node)
    <2>1. Branch(node.keys, node.offs).type = "b"
        BY DEF Branch
    <2> QED
        BY <1>2, <2>1 DEF BranchOK
<1> QED
    BY <1>1, <1>2 DEF NodeOK

(* What a label says.                                                      *)
LEMMA LabelledIs ==
    ASSUME NEW L, NEW cells, Labelled(L, cells)
    PROVE  /\ Labels(L) /\ Len(cells) \in Nat
           /\ \A o \in DOMAIN L : /\ o \in Nat /\ o < Len(cells) /\ o+1 \in DOMAIN cells
                                  /\ cells[o+1].type \in {"l", "b"} /\ NodeOK(L, cells[o+1])
                                  /\ L[o] = LabelOf(L, cells[o+1])
                                  /\ \A i \in DOMAIN cells[o+1].offs : cells[o+1].offs[i] < o
           /\ \A o \in 0..Len(cells)-1 : o \notin DOMAIN L
               => cells[o+1] = Header /\ cells[o+1].type = "header"
<1>1. /\ cells \in Seq(NodeType) /\ Len(cells) \in Nat /\ DOMAIN cells = 1..Len(cells)
      /\ L \in [DOMAIN L -> Label]
      /\ DOMAIN L = {o \in 0 .. Len(cells) - 1 : cells[o + 1] # Header}
    BY DEF Labelled
<1>3. \A o \in 0..Len(cells)-1 : o+1 \in 1..Len(cells)
    BY <1>1
<1>4. Labels(L)
    BY <1>1 DEF Labels
<1>5. \A o \in DOMAIN L : o \in Nat /\ o < Len(cells) /\ o+1 \in DOMAIN cells
    BY <1>1, <1>3
<1>6. \A o \in 0..Len(cells)-1 : o \notin DOMAIN L
          => cells[o+1] = Header /\ cells[o+1].type = "header"
    BY <1>1 DEF Header
<1>7. \A o \in DOMAIN L : /\ NodeOK(L, cells[o+1]) /\ L[o] = LabelOf(L, cells[o+1])
                          /\ \A i \in DOMAIN cells[o+1].offs : cells[o+1].offs[i] < o
    BY DEF Labelled
<1>8. \A o \in DOMAIN L : cells[o+1].type \in {"l", "b"}
    BY <1>7, NodeIs
<1> QED
    BY <1>1, <1>4, <1>5, <1>6, <1>7, <1>8

(* More labels change nothing for a node that is written,                  *)
LEMMA LabelKept ==
    ASSUME NEW L, NEW M, Extends(M, L), NEW node, NodeOK(L, node)
    PROVE  NodeOK(M, node) /\ LabelOf(M, node) = LabelOf(L, node)
<1>1. CASE node.type = "l" /\ LeafOK(node)
    BY <1>1 DEF NodeOK, LabelOf
<1>2. CASE node.type = "b" /\ BranchOK(L, node)
    <2>1. /\ node.offs \in Seq(DOMAIN L) /\ Len(node.offs) \in Nat /\ Len(node.offs) >= 1
          /\ DOMAIN node.offs = 1..Len(node.offs)
        BY <1>2, TreeAssumption DEF BranchOK
    <2>2. \A i \in DOMAIN node.offs : node.offs[i] \in DOMAIN M /\ M[node.offs[i]] = L[node.offs[i]]
        BY <2>1 DEF Extends
    <2>3. node.offs \in Seq(DOMAIN M)
        BY <2>1, <2>2
    <2>4. 1 \in DOMAIN node.offs
        BY <2>1
    <2>5. LabelOf(M, node) = LabelOf(L, node)
        <3>1. {M[node.offs[i]].recs : i \in DOMAIN node.offs}
                  = {L[node.offs[i]].recs : i \in DOMAIN node.offs}
            BY <2>2
        <3>2. M[node.offs[1]].h = L[node.offs[1]].h
            BY <2>2, <2>4
        <3>3. node.type # "l"
            BY <1>2
        <3> QED
            BY <3>1, <3>2, <3>3 DEF LabelOf
    <2>6. /\ \A i \in DOMAIN node.offs : /\ M[node.offs[i]].recs # {}
                                         /\ M[node.offs[i]].h = M[node.offs[1]].h
          /\ \A i \in DOMAIN node.keys, j \in DOMAIN node.offs :
                \A r \in M[node.offs[j]].recs :
                    IF j <= i THEN r.key < node.keys[i] ELSE node.keys[i] <= r.key
        BY <1>2, <2>2, <2>4 DEF BranchOK
    <2>7. BranchOK(M, node)
        BY <1>2, <2>3, <2>6 DEF BranchOK
    <2> QED
        BY <2>5, <2>7 DEF NodeOK
<1> QED
    BY <1>1, <1>2, NodeIs

(* nor does a header;                                                      *)
LEMMA HeaderAppended ==
    ASSUME NEW L, NEW cells, Labelled(L, cells)
    PROVE  Labelled(L, Append(cells, Header))
<1> DEFINE d == Append(cells, Header)
<1>1. cells \in Seq(NodeType) /\ Len(cells) \in Nat
    BY DEF Labelled
<1>2. Header \in NodeType /\ Header.type = "header"
    <2>1. <<>> \in Seq([key : Key, val : Value]) /\ <<>> \in Seq(Key) /\ <<>> \in Seq(Nat)
        OBVIOUS
    <2> QED
        BY <2>1 DEF Header, NodeType
<1>3. /\ d \in Seq(NodeType) /\ Len(d) = Len(cells) + 1 /\ d[Len(cells)+1] = Header
      /\ \A i \in 1..Len(cells) : d[i] = cells[i]
    BY <1>1, <1>2
<1> HIDE DEF d
<1>4. \A o \in DOMAIN L : o \in 0..Len(cells)-1 /\ d[o+1] = cells[o+1]
    BY <1>1, <1>3 DEF Labelled
<1>5. DOMAIN L = {o \in 0 .. Len(d) - 1 : d[o + 1] # Header}
    <2>1. ASSUME NEW o \in 0..Len(d)-1, d[o+1] # Header
          PROVE  o \in DOMAIN L
        <3>1. o # Len(cells)
            BY <1>2, <1>3, <2>1
        <3>2. o \in 0..Len(cells)-1 /\ o+1 \in 1..Len(cells)
            BY <1>1, <1>3, <3>1
        <3> QED
            BY <1>3, <2>1, <3>2 DEF Labelled
    <2>2. ASSUME NEW o \in DOMAIN L
          PROVE  o \in 0..Len(d)-1 /\ d[o+1] # Header
        BY <1>1, <1>3, <1>4 DEF Labelled
    <2> QED
        BY <2>1, <2>2
<1>6. \A o \in DOMAIN L : /\ NodeOK(L, d[o+1]) /\ L[o] = LabelOf(L, d[o+1])
                          /\ \A i \in DOMAIN d[o+1].offs : d[o+1].offs[i] < o
    BY <1>4 DEF Labelled
<1> QED
    BY <1>3, <1>5, <1>6 DEF Labelled, d

(* a node that is appended is given a label.                               *)
LEMMA NodeAppended ==
    ASSUME NEW L, NEW cells, Labelled(L, cells),
           NEW node \in NodeType, NodeOK(L, node), LabelOf(L, node) \in Label
    PROVE  \E M : /\ Labelled(M, Append(cells, node)) /\ Extends(M, L)
                  /\ Len(cells) \in DOMAIN M /\ M[Len(cells)] = LabelOf(L, node)
<1> DEFINE d == Append(cells, node)
           n == Len(cells)
           D == DOMAIN L \cup {n}
           M == [o \in D |-> IF o = n THEN LabelOf(L, node) ELSE L[o]]
<1>1. cells \in Seq(NodeType) /\ n \in Nat
    BY DEF Labelled
<1>2. /\ d \in Seq(NodeType) /\ Len(d) = n + 1 /\ d[n+1] = node
      /\ \A i \in 1..n : d[i] = cells[i]
    BY <1>1
<1> HIDE DEF d
<1>3. \A o \in DOMAIN L : o \in 0..n-1 /\ o+1 \in 1..n /\ o # n
    BY <1>1, LabelledIs DEF Labelled
<1>4. DOMAIN M = D /\ n \in D /\ M[n] = LabelOf(L, node) /\ \A o \in DOMAIN L : o \in D /\ M[o] = L[o]
    BY <1>3
<1>5. M \in [D -> Label]
    <2>1. \A o \in DOMAIN L : L[o] \in Label
        BY DEF Labelled
    <2> QED
        BY <2>1
<1> HIDE DEF n, M, D
<1>6. Extends(M, L)
    BY <1>4 DEF Extends
<1>7. node # Header
    BY NodeIs DEF Header
<1>8. D = {o \in 0 .. Len(d) - 1 : d[o + 1] # Header}
    <2>1. ASSUME NEW o \in 0..Len(d)-1, d[o+1] # Header
          PROVE  o \in D
        <3>1. CASE o = n
            BY <3>1, <1>4
        <3>2. CASE o # n
            <4>1. o \in 0..n-1 /\ o+1 \in 1..n
                BY <1>1, <1>2, <3>2
            <4>2. o \in DOMAIN L
                BY <1>2, <2>1, <4>1 DEF Labelled, n
            <4> QED
                BY <1>4, <4>2
        <3> QED
            BY <3>1, <3>2
    <2>2. ASSUME NEW o \in D
          PROVE  o \in 0..Len(d)-1 /\ d[o+1] # Header
        <3>1. CASE o = n
            BY <1>1, <1>2, <1>7, <3>1
        <3>2. CASE o \in DOMAIN L
            BY <1>1, <1>2, <1>3, <3>2 DEF Labelled
        <3> QED
            BY <3>1, <3>2 DEF D
    <2> QED
        BY <2>1, <2>2
<1>9. ASSUME NEW o \in D
      PROVE  /\ NodeOK(M, d[o+1]) /\ M[o] = LabelOf(M, d[o+1])
             /\ \A i \in DOMAIN d[o+1].offs : d[o+1].offs[i] < o
    <2>1. CASE o = n
        <3>1. NodeOK(M, node) /\ LabelOf(M, node) = LabelOf(L, node)
            BY <1>6, LabelKept
        <3>2. \A i \in DOMAIN node.offs : node.offs[i] < n
            <4>1. CASE node.offs = <<>>
                BY <4>1
            <4>2. CASE BranchOK(L, node)
                <5>1. \A i \in DOMAIN node.offs : node.offs[i] \in DOMAIN L
                    BY <4>2 DEF BranchOK
                <5> QED
                    BY <1>1, <1>3, <5>1
            <4> QED
                BY <4>1, <4>2, NodeIs
        <3> QED
            BY <1>2, <1>4, <2>1, <3>1, <3>2
    <2>2. CASE o \in DOMAIN L
        <3>1. d[o+1] = cells[o+1]
            BY <1>2, <1>3, <2>2
        <3>2. /\ NodeOK(L, cells[o+1]) /\ L[o] = LabelOf(L, cells[o+1])
              /\ \A i \in DOMAIN cells[o+1].offs : cells[o+1].offs[i] < o
            BY <2>2 DEF Labelled
        <3> DEFINE c == cells[o+1]
        <3>3. NodeOK(M, c) /\ LabelOf(M, c) = LabelOf(L, c)
            <4>1. NodeOK(L, c)
                BY <3>2
            <4> HIDE DEF c
            <4> QED
                BY <1>6, <4>1, LabelKept
        <3> QED
            BY <1>4, <2>2, <3>1, <3>2, <3>3
    <2> QED
        BY <2>1, <2>2 DEF D
<1>10. Labelled(M, d)
    BY <1>2, <1>4, <1>5, <1>8, <1>9 DEF Labelled
<1>11. n \in DOMAIN M
    BY <1>4
<1> QED
    BY <1>4, <1>6, <1>10, <1>11 DEF d, n

(* The nodes of a level, written one behind the other, get their labels.   *)
LEMMA NodesAppended ==
    ASSUME NEW L, NEW cells, Labelled(L, cells), NEW lo, NEW h, NEW nodes, GoodNodes(L, nodes, lo, h)
    PROVE  \E M : /\ Labelled(M, cells \o NodesOf(nodes)) /\ Extends(M, L)
                  /\ \A i \in DOMAIN nodes : /\ Len(cells)+i-1 \in DOMAIN M
                                             /\ M[Len(cells)+i-1] = LabelOf(L, nodes[i].node)
<1>1. /\ cells \in Seq(NodeType) /\ Len(cells) \in Nat
      /\ nodes \in Seq(NewNode) /\ Len(nodes) \in {0, 1, 2}
      /\ DOMAIN nodes = 1..Len(nodes)
      /\ \A i \in DOMAIN nodes : NodeOK(L, nodes[i].node) /\ LabelOf(L, nodes[i].node) \in Label
    BY DEF Labelled, GoodNodes
<1>2. \A i \in DOMAIN nodes : nodes[i].node \in NodeType
    <2>1. \A i \in DOMAIN nodes : nodes[i] \in NewNode
        BY <1>1
    <2> QED
        BY <2>1 DEF NewNode
<1>3. NodesOf(nodes) = [i \in DOMAIN nodes |-> nodes[i].node]
    BY DEF NodesOf
<1>4. CASE Len(nodes) = 0
    <2>1. NodesOf(nodes) = <<>>
        BY <1>1, <1>3, <1>4
    <2>2. cells \o NodesOf(nodes) = cells
        BY <1>1, <2>1
    <2>3. Extends(L, L)
        BY DEF Extends
    <2>4. DOMAIN nodes = {}
        BY <1>1, <1>4
    <2> QED
        BY <2>2, <2>3, <2>4
<1>5. CASE Len(nodes) # 0
    <2> DEFINE a == nodes[1].node
    <2>1. 1 \in DOMAIN nodes /\ a \in NodeType /\ NodeOK(L, a) /\ LabelOf(L, a) \in Label
        BY <1>1, <1>2, <1>5
    <2> HIDE DEF a
    <2>2. PICK M : /\ Labelled(M, Append(cells, a)) /\ Extends(M, L)
                   /\ Len(cells) \in DOMAIN M /\ M[Len(cells)] = LabelOf(L, a)
        BY <2>1, NodeAppended
    <2>3. CASE Len(nodes) = 1
        <3>1. NodesOf(nodes) = <<a>>
            BY <1>1, <1>3, <2>3 DEF a
        <3>2. cells \o NodesOf(nodes) = Append(cells, a)
            BY <1>1, <2>1, <3>1
        <3>3. \A i \in DOMAIN nodes : i = 1
            BY <1>1, <2>3
        <3>4. Len(cells)+1-1 = Len(cells)
            BY <1>1
        <3> QED
            BY <2>2, <3>2, <3>3, <3>4 DEF a
    <2>4. CASE Len(nodes) = 2
        <3> DEFINE b == nodes[2].node
                   c == Append(cells, a)
        <3>1. 2 \in DOMAIN nodes /\ b \in NodeType /\ NodeOK(L, b) /\ LabelOf(L, b) \in Label
            BY <1>1, <1>2, <2>4
        <3>2. c \in Seq(NodeType) /\ Len(c) = Len(cells) + 1
            BY <1>1, <2>1
        <3>3. NodesOf(nodes) = <<a, b>>
            BY <1>1, <1>3, <2>4 DEF a
        <3> HIDE DEF b
        <3>4. NodeOK(M, b) /\ LabelOf(M, b) = LabelOf(L, b)
            BY <2>2, <3>1, LabelKept
        <3>5. cells \o NodesOf(nodes) = Append(c, b)
            <4> DEFINE d == cells \o <<a, b>>
                       e == Append(c, b)
            <4>1. <<a, b>> \in Seq(NodeType)
                BY <2>1, <3>1
            <4>2. /\ d \in Seq(NodeType) /\ Len(d) = Len(cells) + 2
                  /\ \A k \in 1..Len(cells)+2 : d[k] = IF k <= Len(cells) THEN cells[k]
                                                       ELSE IF k = Len(cells)+1 THEN a ELSE b
                <5> DEFINE t == <<a, b>>
                <5>1. t \in Seq(NodeType) /\ Len(t) = 2 /\ t[1] = a /\ t[2] = b
                    BY <4>1
                <5> HIDE DEF t
                <5>2. cells \o t = [k \in 1..Len(cells)+2 |-> IF k <= Len(cells) THEN cells[k] ELSE t[k-Len(cells)]]
                    BY <1>1, <5>1, CatIs
                <5>3. cells \o t \in Seq(NodeType) /\ Len(cells \o t) = Len(cells) + Len(t)
                    BY <1>1, <5>1, CatSeq
                <5>4. \A k \in 1..Len(cells)+2 : ~(k <= Len(cells)) =>
                         (k = Len(cells)+1 /\ k-Len(cells) = 1) \/ (k # Len(cells)+1 /\ k-Len(cells) = 2)
                    BY <1>1
                <5>5. \A k \in 1..Len(cells)+2 : (cells \o t)[k] = IF k <= Len(cells) THEN cells[k]
                                                       ELSE IF k = Len(cells)+1 THEN a ELSE b
                    BY <5>1, <5>2, <5>4
                <5> QED
                    BY <5>1, <5>3, <5>5 DEF t
            <4>3. /\ e \in Seq(NodeType) /\ Len(e) = Len(cells) + 2
                  /\ \A k \in 1..Len(cells)+2 : e[k] = IF k <= Len(cells) THEN cells[k]
                                                       ELSE IF k = Len(cells)+1 THEN a ELSE b
                <5>1. \A k \in 1..Len(cells)+1 : c[k] = IF k <= Len(cells) THEN cells[k] ELSE a
                    BY <1>1, <2>1
                <5> HIDE DEF c
                <5>2. e \in Seq(NodeType) /\ Len(e) = Len(cells) + 2
                    BY <1>1, <3>1, <3>2
                <5>3. \A k \in 1..Len(cells)+2 : e[k] = IF k <= Len(cells)+1 THEN c[k] ELSE b
                    BY <1>1, <3>1, <3>2
                <5> HIDE DEF e
                <5> QED
                    BY <1>1, <5>1, <5>2, <5>3
            <4> HIDE DEF d, e
            <4>4. d = [k \in 1..Len(d) |-> d[k]] /\ e = [k \in 1..Len(e) |-> e[k]]
                BY <4>2, <4>3, SeqIs
            <4>5. d = e
                BY <4>2, <4>3, <4>4
            <4> QED
                BY <3>3, <4>5 DEF d, e
        <3> HIDE DEF c
        <3>6. PICK P : /\ Labelled(P, Append(c, b)) /\ Extends(P, M)
                       /\ Len(c) \in DOMAIN P /\ P[Len(c)] = LabelOf(M, b)
            BY <2>2, <3>1, <3>4, NodeAppended DEF c
        <3>7. Extends(P, L) /\ Len(cells) \in DOMAIN P /\ P[Len(cells)] = LabelOf(L, a)
            BY <2>2, <3>6 DEF Extends
        <3>8. ASSUME NEW i \in DOMAIN nodes
              PROVE  /\ Len(cells)+i-1 \in DOMAIN P
                     /\ P[Len(cells)+i-1] = LabelOf(L, nodes[i].node)
            <4>1. CASE i = 1
                <5>1. Len(cells)+i-1 = Len(cells)
                    BY <1>1, <4>1
                <5> QED
                    BY <3>7, <4>1, <5>1 DEF a
            <4>2. CASE i = 2
                <5>1. Len(cells)+i-1 = Len(c)
                    BY <1>1, <3>2, <4>2
                <5> QED
                    BY <3>4, <3>6, <4>2, <5>1 DEF b
            <4> QED
                BY <1>1, <2>4, <4>1, <4>2
        <3> QED
            BY <3>5, <3>6, <3>7, <3>8
    <2> QED
        BY <1>1, <1>5, <2>3, <2>4
<1> QED
    BY <1>4, <1>5

(* Once they are written, the nodes are the children of the level above.   *)
LEMMA PlacedGood ==
    ASSUME NEW L, Labels(L), NEW lo, NEW h, NEW nodes, GoodNodes(L, nodes, lo, h),
           NEW M, NEW pos \in Nat, NEW data, Len(data) \in Nat,
           \A i \in DOMAIN nodes : /\ pos + Len(data)+i-1 \in DOMAIN M
                                   /\ M[pos + Len(data)+i-1] = LabelOf(L, nodes[i].node)
    PROVE  LET kids == Placed(pos, data, nodes) IN
           /\ GoodKids(M, kids, lo, h) /\ Len(kids) = Len(nodes) /\ DOMAIN kids = DOMAIN nodes
           /\ KidsRecs(M, kids) = NodesRecs(L, nodes)
           /\ \A i \in DOMAIN kids : kids[i].off >= pos /\ M[kids[i].off] = LabelOf(L, nodes[i].node)
<1> DEFINE kids == Placed(pos, data, nodes)
           n    == Len(nodes)
<1>1. nodes \in Seq(NewNode) /\ n \in Nat /\ DOMAIN nodes = 1..n
    BY DEF GoodNodes
<1>2. \A i \in 1..n : nodes[i].key \in Key
    <2>1. \A i \in 1..n : nodes[i] \in NewNode
        BY <1>1
    <2> QED
        BY <2>1 DEF NewNode
<1>3. kids = [i \in 1..n |-> [key |-> nodes[i].key, off |-> pos + Len(data) + i - 1]]
    BY <1>1 DEF Placed
<1>4. \A i \in 1..n : kids[i].key = nodes[i].key /\ kids[i].off = pos + Len(data) + i - 1
    BY <1>3
<1>5. \A i \in 1..n : /\ kids[i].off \in DOMAIN M /\ kids[i].off >= pos
                      /\ M[kids[i].off] = LabelOf(L, nodes[i].node)
    BY <1>1, <1>4
<1>6. kids \in Seq(KidOf(M)) /\ Len(kids) = n /\ DOMAIN kids = 1..n
    <2>1. \A i \in 1..n : kids[i] \in KidOf(M)
        BY <1>2, <1>3, <1>5 DEF KidOf
    <2>2. kids = [i \in 1..n |-> kids[i]] /\ DOMAIN kids = 1..n
        BY <1>3
    <2> HIDE DEF kids, n
    <2> QED
        BY <1>1, <2>1, <2>2, IsSeq
<1> HIDE DEF kids
<1>7. GoodKids(M, kids, lo, h)
    BY <1>1, <1>4, <1>5, <1>6 DEF GoodKids, GoodNodes
<1>8. KidsRecs(M, kids) = NodesRecs(L, nodes)
    BY <1>1, <1>5, <1>6 DEF KidsRecs, NodesRecs
<1> QED
    BY <1>1, <1>5, <1>6, <1>7, <1>8 DEF kids

-----------------------------------------------------------------------------
(* Searching.                                                              *)

Step(L) == [node : DOMAIN L, key : Key]

StepDown(f, step, key) ==
    LET node == f[step.node + 1]
        i    == ChildIndex(node, key)
    IN  [node |-> node.offs[i], key |-> IF i = 1 THEN step.key ELSE node.keys[i - 1]]

(* One step down keeps to the key: it goes to the child that has it, if    *)
(* any has, and the key of the step is not greater than its records or the *)
(* key itself.                                                             *)
LEMMA StepDownIs ==
    ASSUME NEW L, NEW f, Labelled(L, f), NEW key \in Key, NEW o \in DOMAIN L,
           f[o+1].type = "b", NEW k \in Key, NEW step, step = [node |-> o, key |-> k]
    PROVE  LET t == StepDown(f, step, key) IN
           /\ t \in Step(L) /\ t.node < o /\ t = [node |-> t.node, key |-> t.key]
           /\ t.node = f[o+1].offs[ChildIndex(f[o+1], key)]
           /\ k <= key => t.key <= key
           /\ (\A r \in L[o].recs : k <= r.key) => \A r \in L[t.node].recs : t.key <= r.key
           /\ \A r \in Record : r.key = key => (r \in L[o].recs <=> r \in L[t.node].recs)
<1> DEFINE node == f[o+1]
           i    == ChildIndex(node, key)
           t    == StepDown(f, step, key)
<1>1. /\ Labels(L) /\ BranchOK(L, node) /\ L[o] = LabelOf(L, node)
      /\ \A j \in DOMAIN node.offs : node.offs[j] < o
    <2>1. /\ Labels(L) /\ NodeOK(L, node) /\ L[o] = LabelOf(L, node)
          /\ \A j \in DOMAIN node.offs : node.offs[j] < o
        BY LabelledIs
    <2>2. BranchOK(L, node)
        <3> HIDE DEF node
        <3>1. node.type = "b"
            BY DEF node
        <3> QED
            BY <2>1, <3>1, NodeIs
    <2> QED
        BY <2>1, <2>2
<1>2. t = [node |-> node.offs[i], key |-> IF i = 1 THEN k ELSE node.keys[i-1]]
    BY DEF StepDown
<1>3. L[o].recs = UNION {L[node.offs[j]].recs : j \in DOMAIN node.offs}
    <2>1. node.type # "l"
        OBVIOUS
    <2> HIDE DEF node
    <2> QED
        BY <1>1, <2>1 DEF LabelOf
<1> HIDE DEF node
<1>4. /\ i \in DOMAIN node.offs /\ i \in 1..Len(node.offs)
      /\ \A j \in 1..i-1 : node.keys[j] <= key
    BY <1>1, ChildIndexIs
<1>5. /\ node.keys \in Seq(Key) /\ DOMAIN node.keys = 1..Len(node.offs)-1
      /\ node.offs \in Seq(DOMAIN L) /\ Len(node.offs) \in Nat
      /\ \A m \in DOMAIN node.keys, j \in DOMAIN node.offs :
         \A r \in L[node.offs[j]].recs :
            IF j <= m THEN r.key < node.keys[m] ELSE node.keys[m] <= r.key
    BY <1>1, TreeAssumption DEF BranchOK
<1>6. \A j \in DOMAIN node.offs : \A r \in L[node.offs[j]].recs : r.key = key => j = i
    BY <1>1, OnlyChild
<1> HIDE DEF i
<1>7. node.offs[i] \in DOMAIN L
    BY <1>4, <1>5
<1>8. i # 1 => i-1 \in 1..Len(node.offs)-1 /\ i-1 \in 1..i-1 /\ ~(i <= i-1)
    BY <1>4, <1>5
<1>9. t \in Step(L)
    <2>1. i # 1 => node.keys[i-1] \in Key
        BY <1>5, <1>8
    <2> QED
        BY <1>2, <1>7, <2>1 DEF Step
<1>10. t.node = node.offs[i] /\ t.key = IF i = 1 THEN k ELSE node.keys[i-1]
    BY <1>2
<1>11. t = [node |-> t.node, key |-> t.key]
    BY <1>2
<1> HIDE DEF t
<1>12. t.node < o
    BY <1>1, <1>4, <1>10
<1>13. k <= key => t.key <= key
    BY <1>4, <1>8, <1>10
<1>14. ASSUME \A r \in L[o].recs : k <= r.key, NEW r \in L[t.node].recs
       PROVE  t.key <= r.key
    <2>1. r \in L[node.offs[i]].recs
        BY <1>10, <1>14
    <2>2. CASE i = 1
        BY <1>3, <1>4, <1>10, <1>14, <2>1, <2>2
    <2>3. CASE i # 1
        <3>1. i-1 \in DOMAIN node.keys /\ ~(i <= i-1)
            BY <1>5, <1>8, <2>3
        <3>2. node.keys[i-1] <= r.key
            BY <1>4, <1>5, <2>1, <3>1
        <3> QED
            BY <1>10, <2>3, <3>2
    <2> QED
        BY <2>2, <2>3
<1>15. ASSUME NEW r \in Record, r.key = key
       PROVE  r \in L[o].recs <=> r \in L[t.node].recs
    BY <1>3, <1>4, <1>6, <1>10, <1>15
<1> QED
    BY <1>9, <1>10, <1>11, <1>12, <1>13, <1>14, <1>15 DEF t, i, node

(* aodbm_search_recursive ends at a leaf that has the record of the key,   *)
(* if the tree has.                                                        *)
LEMMA SearchIs ==
    ASSUME NEW L, NEW f, Labelled(L, f), NEW key \in Key, NEW v \in DOMAIN L
    PROVE  LET s == Search(f, v, key) IN
           /\ s \in DOMAIN L /\ f[s+1].type = "l"
           /\ \A r \in Record : r.key = key => (r \in L[v].recs <=> r \in L[s].recs)
<1> DEFINE C(o) == f[o+1].offs[ChildIndex(f[o+1], key)]
           down[o \in 0..v] == IF f[o+1].type # "b" THEN o ELSE down[C(o)]
           Body(n, g) == [o \in 0..n |-> IF f[o+1].type # "b" THEN o ELSE g[C(o)]]
<1>1. v \in Nat /\ v < Len(f) /\ Len(f) \in Nat
    BY LabelledIs
<1>2. \A o \in 0..v : o \in DOMAIN L \/ f[o+1].type = "header"
    BY <1>1, LabelledIs
<1>3. ASSUME NEW o \in DOMAIN L, f[o+1].type = "b"
      PROVE  /\ C(o) \in DOMAIN L /\ C(o) \in Nat /\ o \in Nat /\ C(o) < o
             /\ \A r \in Record : r.key = key => (r \in L[o].recs <=> r \in L[C(o)].recs)
    <2> DEFINE step == [node |-> o, key |-> EmptyKey]
               t == StepDown(f, step, key)
    <2>1. EmptyKey \in Key
        BY TreeAssumption DEF EmptyKey, Key
    <2>2. /\ t \in Step(L) /\ t.node < o /\ t.node = C(o)
          /\ \A r \in Record : r.key = key => (r \in L[o].recs <=> r \in L[t.node].recs)
        BY <1>3, <2>1, StepDownIs
    <2> HIDE DEF t, step, C
    <2>3. t.node \in DOMAIN L
        BY <2>2 DEF Step
    <2> QED
        BY <2>2, <2>3, LabelledIs DEF C
<1> HIDE DEF C
<1>4. \A n \in 0..v : \E g : g = Body(n, g)
    <2> DEFINE Bad == {n \in 0..v : ~\E g : g = Body(n, g)}
    <2> SUFFICES ASSUME Bad # {}
                 PROVE  FALSE
        OBVIOUS
    <2>1. PICK n \in Bad : \A m \in Bad : n <= m
        <3>1. Bad \subseteq Nat
            BY <1>1
        <3> HIDE DEF Bad
        <3> QED
            BY <3>1, LeastNat
    <2>2. n \in 0..v /\ n \in Nat
        BY <1>1, <2>1
    <2>3. PICK g : \A o \in 0..n-1 : g[o] = IF f[o+1].type # "b" THEN o ELSE g[C(o)]
        <3>1. CASE n = 0
            BY <3>1
        <3>2. CASE n # 0
            <4>1. n-1 \in 0..v /\ n-1 \notin Bad
                BY <1>1, <2>1, <2>2, <3>2
            <4>2. \E g : g = Body(n-1, g)
                BY <4>1
            <4> QED
                BY <4>2
        <3> QED
            BY <3>1, <3>2
    <2> DEFINE e == [o \in 0..n |-> IF f[o+1].type # "b" THEN o ELSE g[C(o)]]
    <2>4. ASSUME NEW o \in 0..n, f[o+1].type = "b"
          PROVE  e[C(o)] = g[C(o)]
        <3>1. o \in DOMAIN L
            BY <1>1, <1>2, <2>2, <2>4
        <3>2. C(o) \in 0..n-1 /\ C(o) \in 0..n
            BY <1>3, <2>2, <2>4, <3>1
        <3> DEFINE c == C(o)
        <3>3. g[c] = IF f[c+1].type # "b" THEN c ELSE g[C(c)]
            BY <2>3, <3>2
        <3> HIDE DEF c
        <3>4. e[c] = IF f[c+1].type # "b" THEN c ELSE g[C(c)]
            BY <3>2 DEF c
        <3> QED
            BY <3>3, <3>4 DEF c
    <2>5. e = Body(n, e)
        <3>1. ASSUME NEW o \in 0..n
              PROVE  (IF f[o+1].type # "b" THEN o ELSE g[C(o)])
                  = (IF f[o+1].type # "b" THEN o ELSE e[C(o)])
            <4> HIDE DEF e
            <4>1. CASE f[o+1].type # "b"
                BY <4>1
            <4>2. CASE f[o+1].type = "b"
                BY <2>4, <4>2
            <4> QED
                BY <4>1, <4>2
        <3> QED
            BY <3>1
    <2>6. n \notin Bad
        BY <2>5
    <2> QED
        BY <2>1, <2>6
<1>5. down = Body(v, down)
    <2>1. down = CHOOSE g : g = Body(v, g)
        BY Zenon
    <2> HIDE DEF down
    <2>2. v \in 0..v
        BY <1>1
    <2>3. \E g : g = Body(v, g)
        BY <1>4, <2>2
    <2> HIDE DEF Body
    <2> QED
        BY <2>1, <2>3, Zenon
<1> HIDE DEF down
<1>6. \A o \in 0..v : down[o] = IF f[o+1].type # "b" THEN o ELSE down[C(o)]
    BY <1>5
<1> DEFINE Good(o) == LET s == down[o] IN
                      /\ s \in DOMAIN L /\ f[s+1].type = "l"
                      /\ \A r \in Record : r.key = key => (r \in L[o].recs <=> r \in L[s].recs)
           Worse == {o \in DOMAIN L : o <= v /\ ~Good(o)}
<1>7. Worse = {}
    <2> SUFFICES ASSUME Worse # {}
                 PROVE  FALSE
        OBVIOUS
    <2>1. PICK o \in Worse : \A m \in Worse : o <= m
        <3>1. Worse \subseteq Nat
            BY LabelledIs
        <3> HIDE DEF Worse
        <3> QED
            BY <3>1, LeastNat
    <2>2. o \in DOMAIN L /\ o \in Nat /\ o \in 0..v /\ f[o+1].type \in {"l", "b"}
        BY <1>1, <2>1, LabelledIs
    <2>3. CASE f[o+1].type = "l"
        <3>1. down[o] = o
            BY <1>6, <2>2, <2>3
        <3> QED
            BY <2>1, <2>2, <2>3, <3>1
    <2>4. CASE f[o+1].type = "b"
        <3>1. down[o] = down[C(o)]
            BY <1>6, <2>2, <2>4
        <3>2. /\ C(o) \in DOMAIN L /\ C(o) \in Nat /\ C(o) < o
              /\ \A r \in Record : r.key = key => (r \in L[o].recs <=> r \in L[C(o)].recs)
            BY <1>3, <2>2, <2>4
        <3>3. C(o) <= v /\ ~(o <= C(o))
            BY <1>1, <2>2, <3>2
        <3>4. Good(C(o))
            BY <2>1, <3>2, <3>3
        <3>5. Good(o)
            BY <3>1, <3>2, <3>4
        <3> QED
            BY <2>1, <3>5
    <2> QED
        BY <2>2, <2>3, <2>4
<1>8. Good(v)
    BY <1>1, <1>7
<1>9. Search(f, v, key) = down[v]
    BY DEF Search, down, C
<1> QED
    BY <1>8, <1>9

(* aodbm_get answers what the map says that the version is.                *)
LEMMA GetIs ==
    ASSUME NEW L, NEW f, Labelled(L, f), NEW key \in Key, NEW v,
           NEW m \in [Key -> Value \cup {NULL}], Represents(L, v, m)
    PROVE  Get(f, v, key) = m[key]
<1>1. CASE v = 0
    BY <1>1 DEF Get, Represents
<1>2. CASE v # 0
    <2> DEFINE s    == Search(f, v, key)
               recs == f[s+1].recs
               at   == {i \in DOMAIN recs : recs[i].key = key}
    <2>1. v \in DOMAIN L /\ L[v].recs = RecordsOf(m)
        BY <1>2 DEF Represents
    <2>2. /\ s \in DOMAIN L /\ f[s+1].type = "l"
          /\ \A r \in Record : r.key = key => (r \in L[v].recs <=> r \in L[s].recs)
        BY <2>1, SearchIs
    <2>3. Get(f, v, key) = IF at = {} THEN NULL ELSE recs[Min(at)].val
        BY <1>2 DEF Get
    <2> HIDE DEF s
    <2>4. LeafOK(f[s+1]) /\ L[s].recs = RecordSet(recs)
        <3> DEFINE node == f[s+1]
        <3>1. NodeOK(L, node) /\ L[s] = LabelOf(L, node) /\ node.type = "l"
            BY <2>2, LabelledIs
        <3> HIDE DEF node
        <3>2. LeafOK(node)
            BY <3>1, NodeIs
        <3>3. L[s].recs = RecordSet(node.recs)
            BY <3>1 DEF LabelOf
        <3> QED
            BY <3>2, <3>3 DEF node
    <2>5. recs \in Seq(Record)
        BY <2>4 DEF LeafOK
    <2> HIDE DEF recs
    <2>6. DOMAIN recs \subseteq Nat /\ \A i \in DOMAIN recs : recs[i] \in Record
        BY <2>5
    <2>7. \A r \in RecordsOf(m) : r.key = key => m[key] # NULL /\ r.val = m[key]
        BY DEF RecordsOf, Rec
    <2>8. CASE at = {}
        <3>1. \A r \in Record : r.key = key => r \notin RecordsOf(m)
            BY <2>1, <2>2, <2>4, <2>8 DEF RecordSet, recs
        <3>2. m[key] # NULL => Rec(key, m[key]) \in RecordsOf(m) /\ Rec(key, m[key]) \in Record /\ Rec(key, m[key]).key = key
            BY DEF RecordsOf, Rec, Record
        <3>3. m[key] = NULL
            BY <3>1, <3>2
        <3> QED
            BY <2>3, <2>8, <3>3
    <2>9. CASE at # {}
        <3>1. at \in SUBSET Nat
            BY <2>6
        <3> DEFINE i == Min(at)
        <3>2. i \in at
            BY <2>9, <3>1, MinIs
        <3> HIDE DEF i
        <3>3. i \in DOMAIN recs /\ recs[i].key = key
            BY <3>2
        <3>4. recs[i] \in RecordsOf(m)
            <4>1. recs[i] \in Record /\ recs[i] \in L[s].recs
                BY <2>4, <2>6, <3>3 DEF RecordSet, recs
            <4> QED
                BY <2>1, <2>2, <3>3, <4>1
        <3>5. recs[i].val = m[key]
            BY <2>7, <3>3, <3>4
        <3> QED
            BY <2>3, <2>9, <3>5 DEF i
    <2> QED
        BY <2>8, <2>9
<1> QED
    BY <1>1, <1>2

(* A path from a node down to the leaf that key belongs in: no step's key  *)
(* is greater than the key or than the records below the step.             *)
KeyBelow(L, step, key) == step.key <= key /\ \A r \in L[step.node].recs : step.key <= r.key

PathOK(L, f, way, key) ==
    /\ way \in Seq(Step(L)) /\ Len(way) >= 1
    /\ \A i \in DOMAIN way : KeyBelow(L, way[i], key)
    /\ \A i \in 1..Len(way)-1 : /\ f[way[i].node+1].type = "b"
                                 /\ way[i+1] = StepDown(f, way[i], key)
    /\ f[way[Len(way)].node+1].type = "l"

(* A step above such a path is one more of it.                             *)
LEMMA PathExtended ==
    ASSUME NEW L, NEW f, NEW key, NEW way, PathOK(L, f, way, key),
           NEW x \in Step(L), f[x.node+1].type = "b", KeyBelow(L, x, key),
           way[1] = StepDown(f, x, key)
    PROVE  PathOK(L, f, <<x>> \o way, key) /\ (<<x>> \o way)[1] = x
<1> DEFINE t == <<x>>
           p == t \o way
           n == Len(way)
<1>1. way \in Seq(Step(L)) /\ n \in Nat /\ n >= 1 /\ DOMAIN way = 1..n
    BY DEF PathOK
<1>2. t \in Seq(Step(L)) /\ Len(t) = 1 /\ t[1] = x
    OBVIOUS
<1> HIDE DEF t, n
<1>3. p \in Seq(Step(L)) /\ Len(p) = n+1
    <2>1. way \in Seq(Step(L)) /\ t \in Seq(Step(L))
        BY <1>1, <1>2
    <2>2. p \in Seq(Step(L)) /\ Len(p) = Len(t) + Len(way)
        BY ONLY <2>1, CatSeq DEF p
    <2> HIDE DEF p
    <2> QED
        BY <1>1, <1>2, <2>2 DEF n
<1>4. p = [k \in 1..n+1 |-> IF k <= 1 THEN t[k] ELSE way[k-1]]
    <2>1. p = [k \in 1..Len(t)+Len(way) |-> IF k <= Len(t) THEN t[k] ELSE way[k-Len(t)]]
        BY <1>1, <1>2, CatIs
    <2>2. Len(t)+Len(way) = n+1 /\ Len(t) = 1
        BY <1>1, <1>2 DEF n
    <2> QED
        BY <2>1, <2>2
<1> HIDE DEF p
<1>5. p[1] = x /\ \A k \in 1..n : p[k+1] = way[k]
    <2>1. p[1] = x
        BY <1>1, <1>2, <1>4
    <2>2. ASSUME NEW k \in 1..n
          PROVE  p[k+1] = way[k]
        <3>1. k+1 \in 1..n+1 /\ ~(k+1 <= 1) /\ k+1-1 = k
            BY <1>1
        <3> QED
            BY <1>4, <3>1
    <2> QED
        BY <2>1, <2>2
<1>6. \A i \in 1..n+1 : i = 1 \/ \E k \in 1..n : i = k+1
    <2> SUFFICES ASSUME NEW i \in 1..n+1, i # 1
                 PROVE  \E k \in 1..n : i = k+1
        OBVIOUS
    <2>1. i-1 \in 1..n /\ i = (i-1)+1
        BY <1>1
    <2> QED
        BY <2>1
<1>7. \A i \in DOMAIN p : KeyBelow(L, p[i], key)
    <2>1. DOMAIN p = 1..n+1
        BY <1>4
    <2>2. \A k \in 1..n : KeyBelow(L, way[k], key)
        BY <1>1 DEF PathOK
    <2> QED
        BY <1>5, <1>6, <2>1, <2>2
<1>8. \A i \in 1..n : f[p[i].node+1].type = "b" /\ p[i+1] = StepDown(f, p[i], key)
    <2> SUFFICES ASSUME NEW i \in 1..n
                 PROVE  f[p[i].node+1].type = "b" /\ p[i+1] = StepDown(f, p[i], key)
        OBVIOUS
    <2>1. CASE i = 1
        BY <1>1, <1>5, <2>1
    <2>2. CASE i # 1
        <3>1. i-1 \in 1..n-1 /\ (i-1)+1 = i /\ i-1 \in 1..n
            BY <1>1, <2>2
        <3>2. f[way[i-1].node+1].type = "b" /\ way[(i-1)+1] = StepDown(f, way[i-1], key)
            BY <3>1 DEF PathOK, n
        <3>3. p[i] = way[i-1] /\ p[i+1] = way[i]
            <4>1. p[(i-1)+1] = way[i-1]
                BY <1>5, <3>1
            <4> QED
                BY <1>5, <3>1, <4>1
        <3> QED
            BY <3>1, <3>2, <3>3
    <2> QED
        BY <2>1, <2>2
<1>9. f[p[n+1].node+1].type = "l"
    <2>1. n \in 1..n
        BY <1>1
    <2>2. p[n+1] = way[n]
        BY <1>5, <2>1
    <2>3. f[way[n].node+1].type = "l"
        BY DEF PathOK, n
    <2> QED
        BY <2>2, <2>3
<1>10. Len(p) >= 1 /\ Len(p)-1 = n
    BY <1>1, <1>3
<1>11. PathOK(L, f, p, key)
    BY <1>3, <1>7, <1>8, <1>9, <1>10 DEF PathOK
<1> QED
    BY <1>5, <1>11 DEF p, t

(* aodbm_search_path gives such a path from the root.                      *)
LEMMA SearchPathIs ==
    ASSUME NEW L, NEW f, Labelled(L, f), NEW key \in Key, NEW v \in DOMAIN L
    PROVE  LET way == SearchPath(f, v, key) IN
           PathOK(L, f, way, key) /\ way[1] = [node |-> v, key |-> EmptyKey]
<1> DEFINE D(n) == [node : 0..n, key : Key]
           T(x) == StepDown(f, x, key)
           down[x \in D(v)] == <<x>> \o IF f[x.node+1].type # "b" THEN <<>> ELSE down[T(x)]
           Body(n, g) == [x \in D(n) |-> <<x>> \o IF f[x.node+1].type # "b" THEN <<>> ELSE g[T(x)]]
<1>1. v \in Nat /\ v < Len(f) /\ Len(f) \in Nat
    BY LabelledIs
<1>2. \A o \in 0..v : o \in DOMAIN L \/ f[o+1].type = "header"
    BY <1>1, LabelledIs
<1>3. ASSUME NEW x \in Step(L), f[x.node+1].type = "b"
      PROVE  /\ T(x) \in Step(L) /\ T(x).node \in Nat /\ x.node \in Nat /\ T(x).node < x.node
             /\ KeyBelow(L, x, key) => KeyBelow(L, T(x), key)
    <2> DEFINE o == x.node
               k == x.key
               t == T(x)
    <2>1. x = [node |-> o, key |-> k] /\ o \in DOMAIN L /\ k \in Key
        BY DEF Step
    <2>2. /\ t \in Step(L) /\ t.node < o
          /\ k <= key => t.key <= key
          /\ (\A r \in L[o].recs : k <= r.key) => \A r \in L[t.node].recs : t.key <= r.key
        <3>1. f[o+1].type = "b"
            BY <1>3
        <3> HIDE DEF o, k
        <3> QED
            BY <2>1, <3>1, StepDownIs
    <2> HIDE DEF t
    <2>3. t.node \in DOMAIN L
        BY <2>2 DEF Step
    <2>4. t.node \in Nat /\ o \in Nat
        BY <2>1, <2>3, LabelledIs
    <2> QED
        BY <2>2, <2>4 DEF KeyBelow, t
<1> HIDE DEF T
<1>4. \A n \in 0..v : \A x \in D(n) : /\ x.node \in 0..n /\ x.key \in Key
                                      /\ f[x.node+1].type = "b"
                                          => x \in Step(L) /\ T(x) \in D(n-1) /\ T(x) \in D(n)
    <2> SUFFICES ASSUME NEW n \in 0..v, NEW x \in D(n)
                 PROVE  /\ x.node \in 0..n /\ x.key \in Key
                        /\ f[x.node+1].type = "b"
                            => x \in Step(L) /\ T(x) \in D(n-1) /\ T(x) \in D(n)
        OBVIOUS
    <2>1. x.node \in 0..n /\ x.key \in Key /\ x = [node |-> x.node, key |-> x.key]
        OBVIOUS
    <2>2. ASSUME f[x.node+1].type = "b"
          PROVE  x \in Step(L) /\ T(x) \in D(n-1) /\ T(x) \in D(n)
        <3>1. x.node \in 0..v
            BY <1>1, <2>1
        <3>2. x.node \in DOMAIN L
            BY <1>2, <2>2, <3>1
        <3>3. x \in Step(L)
            BY <2>1, <3>2 DEF Step
        <3> DEFINE t == T(x)
        <3>4. t \in Step(L) /\ t.node \in Nat /\ x.node \in Nat /\ t.node < x.node
            BY <1>3, <2>2, <3>3
        <3> HIDE DEF t
        <3>5. t = [node |-> t.node, key |-> t.key] /\ t.key \in Key
            BY <3>4 DEF Step
        <3>6. t.node \in 0..n-1 /\ t.node \in 0..n
            BY <1>1, <2>1, <3>4
        <3>7. t \in D(n-1) /\ t \in D(n)
            BY <3>5, <3>6
        <3> QED
            BY <3>3, <3>7 DEF t
    <2> QED
        BY <2>1, <2>2
<1> HIDE DEF D
<1>5. \A n \in 0..v : \E g : g = Body(n, g)
    <2> DEFINE Bad == {n \in 0..v : ~\E g : g = Body(n, g)}
    <2> SUFFICES ASSUME Bad # {}
                 PROVE  FALSE
        OBVIOUS
    <2>1. PICK n \in Bad : \A m \in Bad : n <= m
        <3>1. Bad \subseteq Nat
            BY <1>1
        <3> HIDE DEF Bad
        <3> QED
            BY <3>1, LeastNat
    <2>2. n \in 0..v /\ n \in Nat
        BY <1>1, <2>1
    <2>3. PICK g : \A x \in D(n-1) : g[x] = <<x>> \o IF f[x.node+1].type # "b" THEN <<>> ELSE g[T(x)]
        <3>1. CASE n = 0
            <4>1. D(n-1) = {}
                BY <3>1 DEF D
            <4> QED
                BY <4>1
        <3>2. CASE n # 0
            <4>1. n-1 \in 0..v /\ n-1 \notin Bad
                BY <1>1, <2>1, <2>2, <3>2
            <4>2. \E g : g = Body(n-1, g)
                BY <4>1
            <4> QED
                BY <4>2
        <3> QED
            BY <3>1, <3>2
    <2> DEFINE e == [x \in D(n) |-> <<x>> \o IF f[x.node+1].type # "b" THEN <<>> ELSE g[T(x)]]
    <2>4. ASSUME NEW x \in D(n), f[x.node+1].type = "b"
          PROVE  e[T(x)] = g[T(x)]
        <3> DEFINE c == T(x)
        <3>1. c \in D(n-1) /\ c \in D(n)
            BY <1>4, <2>2, <2>4
        <3>2. g[c] = <<c>> \o IF f[c.node+1].type # "b" THEN <<>> ELSE g[T(c)]
            BY <2>3, <3>1
        <3> HIDE DEF c
        <3>3. e[c] = <<c>> \o IF f[c.node+1].type # "b" THEN <<>> ELSE g[T(c)]
            BY <3>1
        <3> QED
            BY <3>2, <3>3 DEF c
    <2>5. e = Body(n, e)
        <3>1. ASSUME NEW x \in D(n)
              PROVE  (<<x>> \o IF f[x.node+1].type # "b" THEN <<>> ELSE g[T(x)])
                        = (<<x>> \o IF f[x.node+1].type # "b" THEN <<>> ELSE e[T(x)])
            <4> HIDE DEF e
            <4>1. CASE f[x.node+1].type # "b"
                BY <4>1
            <4>2. CASE f[x.node+1].type = "b"
                BY <2>4, <4>2
            <4> QED
                BY <4>1, <4>2
        <3> QED
            BY <3>1
    <2>6. n \notin Bad
        BY <2>5
    <2> QED
        BY <2>1, <2>6
<1>6. down = Body(v, down)
    <2>1. down = CHOOSE g : g = Body(v, g)
        BY Zenon
    <2> HIDE DEF down
    <2>2. v \in 0..v
        BY <1>1
    <2>3. \E g : g = Body(v, g)
        BY <1>5, <2>2
    <2> HIDE DEF Body
    <2> QED
        BY <2>1, <2>3, Zenon
<1>7. SearchPath(f, v, key) = down[[node |-> v, key |-> EmptyKey]]
    BY DEF SearchPath, down, D, T, StepDown
<1> HIDE DEF down
<1>8. \A x \in D(v) : down[x] = <<x>> \o IF f[x.node+1].type # "b" THEN <<>> ELSE down[T(x)]
    BY <1>6
<1> DEFINE Good(x) == PathOK(L, f, down[x], key) /\ down[x][1] = x
           Worse == {o \in DOMAIN L : o <= v /\ \E x \in Step(L) : x.node = o /\ KeyBelow(L, x, key) /\ ~Good(x)}
<1>9. Worse = {}
    <2> SUFFICES ASSUME Worse # {}
                 PROVE  FALSE
        OBVIOUS
    <2>1. PICK o \in Worse : \A m \in Worse : o <= m
        <3>1. Worse \subseteq Nat
            BY LabelledIs
        <3> HIDE DEF Worse
        <3> QED
            BY <3>1, LeastNat
    <2>2. PICK x \in Step(L) : x.node = o /\ KeyBelow(L, x, key) /\ ~Good(x)
        BY <2>1
    <2>3. o \in DOMAIN L /\ o \in Nat /\ o \in 0..v /\ f[o+1].type \in {"l", "b"}
        BY <1>1, <2>1, LabelledIs
    <2>4. x \in D(v)
        BY <2>2, <2>3 DEF Step, D
    <2>5. CASE f[o+1].type = "l"
        <3>1. down[x] = <<x>> \o <<>>
            BY <1>8, <2>2, <2>4, <2>5
        <3> DEFINE p == <<x>>
        <3>2. /\ down[x] = p /\ p \in Seq(Step(L)) /\ Len(p) = 1 /\ DOMAIN p = {1} /\ p[1] = x
            BY <3>1
        <3> HIDE DEF p
        <3>3. PathOK(L, f, p, key)
            BY <2>2, <2>5, <3>2 DEF PathOK
        <3> QED
            BY <2>2, <3>2, <3>3
    <2>6. CASE f[o+1].type = "b"
        <3> DEFINE t == T(x)
        <3>1. down[x] = <<x>> \o down[t]
            BY <1>8, <2>2, <2>4, <2>6
        <3>2. /\ t \in Step(L) /\ t.node \in Nat /\ t.node < o /\ KeyBelow(L, t, key)
            BY <1>3, <2>2, <2>6
        <3>3. t = StepDown(f, x, key)
            BY DEF T
        <3> HIDE DEF t
        <3>4. t.node \in DOMAIN L /\ t.node <= v /\ ~(o <= t.node)
            BY <1>1, <2>3, <3>2 DEF Step
        <3>5. Good(t)
            BY <2>1, <3>2, <3>4
        <3> DEFINE p == down[t]
        <3>6. PathOK(L, f, p, key) /\ p[1] = StepDown(f, x, key)
            BY <3>3, <3>5
        <3> HIDE DEF p
        <3>7. PathOK(L, f, <<x>> \o p, key) /\ (<<x>> \o p)[1] = x
            BY <2>2, <2>6, <3>6, PathExtended
        <3> QED
            BY <2>2, <3>1, <3>7 DEF p
    <2> QED
        BY <2>3, <2>5, <2>6
<1>10. Good([node |-> v, key |-> EmptyKey])
    <2> DEFINE x == [node |-> v, key |-> EmptyKey]
    <2>1. EmptyKey \in Key /\ EmptyKey = 0
        BY TreeAssumption DEF EmptyKey, Key
    <2>2. x \in Step(L) /\ x.node = v /\ x.key = 0
        BY <2>1 DEF Step
    <2>3. KeyBelow(L, x, key)
        <3>1. \A r \in L[v].recs : r.key \in Nat
            BY LabelledIs, KeysAreNats
        <3>2. key \in Nat
            BY KeysAreNats
        <3> QED
            BY <2>2, <3>1, <3>2 DEF KeyBelow
    <2> HIDE DEF x
    <2> QED
        BY <1>1, <1>9, <2>2, <2>3 DEF x
<1> QED
    BY <1>7, <1>10

-----------------------------------------------------------------------------
(* Rewriting the way.                                                     *)

(* Three sequences, one behind the other.                                  *)
LEMMA CatAssoc ==
    ASSUME NEW S, NEW a \in Seq(S), NEW b \in Seq(S), NEW c \in Seq(S)
    PROVE  (a \o b) \o c = a \o (b \o c)
<1> DEFINE d == a \o b
           e == b \o c
           x == d \o c
           y == a \o e
<1>1. /\ d \in Seq(S) /\ Len(d) = Len(a) + Len(b)
      /\ e \in Seq(S) /\ Len(e) = Len(b) + Len(c)
      /\ Len(a) \in Nat /\ Len(b) \in Nat /\ Len(c) \in Nat
    BY CatSeq
<1>2. d = [k \in 1..Len(a) + Len(b) |-> IF k <= Len(a) THEN a[k] ELSE b[k - Len(a)]]
    BY CatIs
<1>3. e = [k \in 1..Len(b) + Len(c) |-> IF k <= Len(b) THEN b[k] ELSE c[k - Len(b)]]
    BY CatIs
<1> HIDE DEF d, e
<1>4. x = [k \in 1..Len(d) + Len(c) |-> IF k <= Len(d) THEN d[k] ELSE c[k - Len(d)]]
    BY <1>1, CatIs
<1>5. y = [k \in 1..Len(a) + Len(e) |-> IF k <= Len(a) THEN a[k] ELSE e[k - Len(a)]]
    BY <1>1, CatIs
<1> HIDE DEF x, y
<1> DEFINE n == Len(a) + Len(b) + Len(c)
<1>6. Len(d) + Len(c) = n /\ Len(a) + Len(e) = n
    BY <1>1
<1>7. ASSUME NEW k \in 1..n
      PROVE  (IF k <= Len(d) THEN d[k] ELSE c[k - Len(d)])
          = (IF k <= Len(a) THEN a[k] ELSE e[k - Len(a)])
    <2>1. CASE k <= Len(a)
        <3>1. k <= Len(d) /\ k \in 1..Len(a) + Len(b)
            BY <1>1, <2>1
        <3> QED
            BY <1>2, <2>1, <3>1
    <2>2. CASE k > Len(a) /\ k <= Len(d)
        <3> DEFINE q == k - Len(a)
        <3>1. q \in 1..Len(b) + Len(c) /\ q <= Len(b)
            BY <1>1, <2>2
        <3> HIDE DEF q
        <3>2. e[q] = b[q]
            BY <1>3, <3>1
        <3>3. k \in 1..Len(a) + Len(b) /\ ~(k <= Len(a))
            BY <1>1, <2>2
        <3>4. d[k] = b[k - Len(a)]
            BY <1>2, <3>3
        <3> QED
            BY <2>2, <3>1, <3>2, <3>3, <3>4 DEF q
    <2>3. CASE k > Len(d)
        <3> DEFINE q == k - Len(a)
        <3>1. q \in 1..Len(b) + Len(c) /\ ~(q <= Len(b)) /\ q - Len(b) = k - Len(d)
            BY <1>1, <2>3
        <3> HIDE DEF q
        <3>2. e[q] = c[q - Len(b)]
            BY <1>3, <3>1
        <3>3. ~(k <= Len(a)) /\ ~(k <= Len(d))
            BY <1>1, <2>3
        <3> QED
            BY <3>1, <3>2, <3>3 DEF q
    <2> QED
        BY <1>1, <2>1, <2>2, <2>3
<1> HIDE DEF n
<1> QED
    BY <1>4, <1>5, <1>6, <1>7 DEF x, y, d, e

(* An element behind two sequences is behind the second.                   *)
LEMMA CatAppend ==
    ASSUME NEW S, NEW a \in Seq(S), NEW b \in Seq(S), NEW x \in S
    PROVE  a \o Append(b, x) = Append(a \o b, x)
<1> DEFINE t == <<x>>
           d == a \o b
<1>1. t \in Seq(S)
    OBVIOUS
<1>2. b \o t = Append(b, x)
    OBVIOUS
<1>3. d \in Seq(S)
    BY CatSeq
<1> HIDE DEF d
<1>4. d \o t = Append(d, x)
    BY <1>3
<1> HIDE DEF t
<1>5. d \o t = a \o (b \o t)
    BY <1>1, CatAssoc DEF d
<1> QED
    BY <1>2, <1>4, <1>5 DEF d

(* The nodes that take the place of a node o, and those written for the    *)
(* levels below it: with the labels of these, the new nodes hold the       *)
(* records of o with the change of key to val.                             *)
ClimbOK(L, base, acc, o, lo, key, val) ==
    /\ acc.data \in Seq(NodeType) /\ acc.prev_node = o
    /\ \E M : /\ Labelled(M, base \o acc.data) /\ Extends(M, L)
              /\ GoodNodes(M, acc.nodes, lo, L[o].h)
              /\ NodesRecs(M, acc.nodes) = Changed(L[o].recs, key, val)

(* What is written of a level are its nodes.                               *)
LEMMA NodesOfIs ==
    ASSUME NEW L, NEW nodes, NEW lo, NEW h, GoodNodes(L, nodes, lo, h)
    PROVE  NodesOf(nodes) \in Seq(NodeType) /\ Len(NodesOf(nodes)) = Len(nodes)
<1> DEFINE d == NodesOf(nodes)
           n == Len(nodes)
<1>1. nodes \in Seq(NewNode) /\ n \in Nat /\ DOMAIN nodes = 1..n
    BY DEF GoodNodes
<1>2. \A i \in 1..n : nodes[i].node \in NodeType
    <2>1. \A i \in 1..n : nodes[i] \in NewNode
        BY <1>1
    <2> QED
        BY <2>1 DEF NewNode
<1>3. d = [i \in 1..n |-> nodes[i].node]
    BY <1>1 DEF NodesOf
<1>4. d = [i \in 1..n |-> d[i]] /\ \A i \in 1..n : d[i] \in NodeType
    BY <1>2, <1>3
<1> HIDE DEF d, n
<1>5. d \in Seq(NodeType) /\ Len(d) = n
    BY <1>1, <1>4, IsSeq
<1> QED
    BY <1>5 DEF d, n

(* Climb: one branch up the way.                                          *)
LEMMA ClimbStep ==
    ASSUME NEW L, NEW f, Labelled(L, f), NEW base \in Seq(NodeType), Len(f) <= Len(base),
           NEW key \in Key, NEW val \in Value \cup {NULL},
           NEW x \in Step(L), f[x.node+1].type = "b", KeyBelow(L, x, key),
           NEW t, t = StepDown(f, x, key), NEW acc, ClimbOK(L, base, acc, t.node, t.key, key, val)
    PROVE  ClimbOK(L, base, Climb(f, Len(base), acc, x), x.node, x.key, key, val)
<1> DEFINE o     == x.node
           lo    == x.key
           pos   == Len(base)
           node  == f[o+1]
           i     == ChildIndex(node, key)
           h     == L[t.node].h
           nodes == acc.nodes
           data  == acc.data
           kids  == Placed(pos, data, nodes)
           old   == Children(node, lo)
<1>1. o \in DOMAIN L /\ lo \in Key /\ x = [node |-> o, key |-> lo]
    BY DEF Step
<1>2. /\ Labels(L) /\ BranchOK(L, node) /\ NodeOK(L, node) /\ L[o] = LabelOf(L, node)
      /\ o \in Nat /\ Len(f) \in Nat /\ \A q \in DOMAIN L : q \in Nat /\ q < Len(f)
    <2>1. /\ Labels(L) /\ NodeOK(L, node) /\ L[o] = LabelOf(L, node)
          /\ o \in Nat /\ Len(f) \in Nat /\ \A q \in DOMAIN L : q \in Nat /\ q < Len(f)
        BY <1>1, LabelledIs
    <2>2. node.type = "b"
        OBVIOUS
    <2> HIDE DEF node
    <2>3. BranchOK(L, node)
        BY <2>1, <2>2, NodeIs
    <2> QED
        BY <2>1, <2>3
<1>3. /\ t.node = node.offs[i] /\ t.key = (IF i = 1 THEN lo ELSE node.keys[i-1])
      /\ t.node \in DOMAIN L /\ t.key \in Key
    <2>1. t.node = node.offs[i] /\ t.key = (IF i = 1 THEN lo ELSE node.keys[i-1])
        BY DEF StepDown
    <2>2. t \in Step(L)
        BY <1>1, StepDownIs
    <2> QED
        BY <2>1, <2>2 DEF Step
<1>a. node.type = "b" /\ node = f[o+1]
    OBVIOUS
<1> HIDE DEF node
<1>4. /\ node.keys \in Seq(Key) /\ DOMAIN node.keys = 1..Len(node.offs)-1
      /\ node.offs \in Seq(DOMAIN L) /\ Len(node.offs) \in Nat /\ DOMAIN node.offs = 1..Len(node.offs)
      /\ Len(node.offs) >= 1
      /\ \A j \in DOMAIN node.offs : L[node.offs[j]].h = L[node.offs[1]].h
    <2>1. BranchOK(L, node)
        BY <1>2
    <2> QED
        BY ONLY <2>1, TreeAssumption DEF BranchOK
<1>5. /\ i \in 1..Len(node.offs)
      /\ i < Len(node.offs) => key < node.keys[i]
    BY <1>2, ChildIndexIs
<1> HIDE DEF i
<1>6. h = L[node.offs[1]].h /\ h \in Nat /\ L[o].h = h + 1
    <2>1. h = L[node.offs[1]].h
        BY <1>3, <1>4, <1>5
    <2>2. h \in Nat
        BY <1>2, <1>3, KeysAreNats
    <2>3. node.type # "l"
        BY <1>a
    <2>4. LabelOf(L, node).h = L[node.offs[1]].h + 1
        BY <2>3 DEF LabelOf
    <2> QED
        BY <1>2, <2>1, <2>2, <2>4
<1>7. PICK M : /\ Labelled(M, base \o data) /\ Extends(M, L)
               /\ GoodNodes(M, nodes, t.key, h)
               /\ NodesRecs(M, nodes) = Changed(L[t.node].recs, key, val)
    BY DEF ClimbOK
<1>8. data \in Seq(NodeType) /\ acc.prev_node = t.node
    BY DEF ClimbOK
<1> DEFINE cells == base \o data
<1>9. cells \in Seq(NodeType) /\ Len(cells) = pos + Len(data) /\ pos \in Nat /\ Len(data) \in Nat
    BY <1>8, CatSeq
<1> HIDE DEF data, nodes, cells, h, node
<1>10. PICK P : /\ Labelled(P, cells \o NodesOf(nodes)) /\ Extends(P, M)
                /\ \A q \in DOMAIN nodes : /\ Len(cells)+q-1 \in DOMAIN P
                                           /\ P[Len(cells)+q-1] = LabelOf(M, nodes[q].node)
    <2>1. Labelled(M, cells) /\ GoodNodes(M, nodes, t.key, h)
        BY <1>7 DEF cells
    <2> QED
        BY ONLY <2>1, NodesAppended
<1>11. NodesOf(nodes) \in Seq(NodeType)
    BY <1>7, NodesOfIs
<1>12. Labelled(P, base \o (data \o NodesOf(nodes)))
    <2>1. cells \o NodesOf(nodes) = base \o (data \o NodesOf(nodes))
        BY <1>8, <1>11, CatAssoc DEF cells
    <2> QED
        BY <1>10, <2>1
<1>13. Extends(P, L) /\ Labels(P) /\ Labels(M)
    <2>1. Extends(P, L)
        BY <1>7, <1>10 DEF Extends
    <2> QED
        BY <1>7, <1>10, <2>1, LabelledIs
<1>14. BranchOK(P, node) /\ LabelOf(P, node) = L[o]
    <2>1. NodeOK(P, node) /\ LabelOf(P, node) = LabelOf(L, node)
        BY <1>2, <1>13, LabelKept
    <2> QED
        BY <1>2, <1>a, <2>1, NodeIs
<1>15. /\ GoodKids(P, kids, t.key, h) /\ Len(kids) = Len(nodes) /\ DOMAIN kids = DOMAIN nodes
       /\ KidsRecs(P, kids) = Changed(L[t.node].recs, key, val)
       /\ \A q \in DOMAIN kids : kids[q].off >= pos
    <2>1. \A q \in DOMAIN nodes : /\ pos + Len(data)+q-1 \in DOMAIN P
                                  /\ P[pos + Len(data)+q-1] = LabelOf(M, nodes[q].node)
        BY <1>9, <1>10
    <2> HIDE DEF pos
    <2> QED
        BY <1>7, <1>9, <1>13, <2>1, PlacedGood
<1> HIDE DEF kids
<1>16. \A r \in LabelOf(P, node).recs : lo <= r.key
    BY <1>14 DEF KeyBelow
<1>17. h = P[node.offs[1]].h
    <2>1. node.offs[1] \in DOMAIN L
        BY <1>4
    <2> QED
        BY <1>6, <1>13, <2>1 DEF Extends
<1>18. /\ GoodKids(P, old, lo, h)
       /\ DOMAIN old = DOMAIN node.offs /\ Len(old) = Len(node.offs)
       /\ \A q \in DOMAIN old : /\ old[q].off = node.offs[q]
                                /\ old[q].key = IF q = 1 THEN lo ELSE node.keys[q-1]
    BY <1>1, <1>13, <1>14, <1>16, <1>17, ChildrenGood
<1> HIDE DEF old
<1>19. Replaces(P, old, kids, i, h)
    <2>1. old[i].key = t.key
        <3>1. i \in DOMAIN old
            BY <1>4, <1>5, <1>18
        <3>2. old[i].key = IF i = 1 THEN lo ELSE node.keys[i-1]
            BY <1>18, <3>1
        <3> QED
            BY <1>3, <3>2
    <2>2. Len(kids) \in 0..2
        BY <1>7, <1>15 DEF GoodNodes
    <2>3. ASSUME NEW q \in DOMAIN kids, NEW m \in DOMAIN old
          PROVE  kids[q].off # old[m].off
        <3>1. old[m].off \in DOMAIN L /\ kids[q].off >= pos
            BY <1>4, <1>15, <1>18
        <3>2. old[m].off < Len(f) /\ old[m].off \in Nat
            BY <1>2, <3>1
        <3> QED
            BY <1>2, <1>9, <3>1, <3>2
    <2>4. ASSUME NEW q \in DOMAIN kids, NEW m \in DOMAIN old, m > i, NEW r \in P[kids[q].off].recs
          PROVE  r.key < old[m].key
        <3>1. r \in Changed(L[t.node].recs, key, val)
            BY <1>15 DEF KidsRecs
        <3>2. i \in DOMAIN old /\ i < m /\ i+1 \in DOMAIN old /\ i+1 <= m /\ i < Len(node.offs)
            <4>1. DOMAIN old = 1..Len(node.offs)
                BY <1>4, <1>18
            <4>2. Len(node.offs) \in Nat /\ i \in 1..Len(node.offs)
                BY <1>4, <1>5
            <4> QED
                BY ONLY <2>4, <4>1, <4>2, m \in DOMAIN old
        <3>3. CASE r \in L[t.node].recs
            <4>1. P[old[i].off] = L[t.node]
                BY <1>3, <1>13, <1>18, <3>2 DEF Extends
            <4> QED
                BY <1>18, <3>2, <3>3, <4>1 DEF GoodKids
        <3>4. CASE r.key = key
            <4>1. key < old[i+1].key
                <5>1. i+1 # 1 /\ (i+1)-1 = i
                    <6>1. i \in 1..Len(node.offs)
                        BY <1>5
                    <6> QED
                        BY ONLY <6>1
                <5> QED
                    BY <1>5, <1>18, <3>2, <5>1
            <4>2. CASE m = i+1
                BY <3>4, <4>1, <4>2
            <4>3. CASE i+1 < m
                <5>1. old[i+1].key < old[m].key
                    BY <1>13, <1>18, <3>2, <4>3, KidsDiffer
                <5>2. old[i+1].key \in Nat /\ old[m].key \in Nat /\ key \in Nat
                    <6>1. \A w \in DOMAIN old : old[w] \in KidOf(P)
                        BY <1>18 DEF GoodKids
                    <6> QED
                        BY <3>2, <6>1, KeysAreNats DEF KidOf
                <5> QED
                    BY <3>4, <4>1, <5>1, <5>2
            <4> QED
                BY <1>4, <1>5, <1>18, <3>2, <4>2, <4>3
        <3> QED
            BY <3>1, <3>3, <3>4 DEF Changed, Rec
    <2> QED
        BY <1>15, <2>1, <2>2, <2>3, <2>4 DEF Replaces
<1>20. KidsRecs(P, kids) = Changed(P[t.node].recs, key, val)
    BY <1>3, <1>13, <1>15 DEF Extends
<1> DEFINE mod == ModifyBranch(node, lo, kids, t.node)
<1>21. /\ GoodNodes(P, mod, lo, h + 1)
       /\ NodesRecs(P, mod) = Changed(LabelOf(P, node).recs, key, val)
    <2> DEFINE rm == t.node
    <2>1. rm = node.offs[ChildIndex(node, key)]
        BY <1>3 DEF i
    <2>2. Replaces(P, Children(node, lo), kids, ChildIndex(node, key), h)
        BY <1>19 DEF i, old
    <2>3. h \in Nat /\ lo \in Key
        BY <1>1, <1>6
    <2>4. KidsRecs(P, kids) = Changed(P[rm].recs, key, val)
        BY <1>20
    <2> HIDE DEF rm, lo
    <2>5. /\ GoodNodes(P, ModifyBranch(node, lo, kids, rm), lo, h + 1)
          /\ NodesRecs(P, ModifyBranch(node, lo, kids, rm)) = Changed(LabelOf(P, node).recs, key, val)
        <3>1. Labels(P) /\ BranchOK(P, node)
            BY <1>13, <1>14
        <3>2. \A r \in LabelOf(P, node).recs : lo <= r.key
            BY <1>16 DEF lo
        <3> QED
            BY ONLY <1>17, <2>1, <2>2, <2>3, <2>4, <3>1, <3>2, key \in Key,
                    val \in Value \cup {NULL}, BranchModified
    <2> QED
        BY <2>5 DEF rm, lo
<1> DEFINE up == Climb(f, pos, acc, x)
<1>22. up.data = data \o NodesOf(nodes) /\ up.nodes = mod /\ up.prev_node = o
    BY <1>8 DEF Climb, data, nodes, kids, node
<1>23. data \o NodesOf(nodes) \in Seq(NodeType)
    BY <1>8, <1>11, CatSeq
<1> HIDE DEF up, mod
<1>24. ClimbOK(L, base, up, o, lo, key, val)
    BY <1>6, <1>12, <1>13, <1>14, <1>21, <1>22, <1>23 DEF ClimbOK
<1> QED
    BY <1>24 DEF up

(* The loop ends with what takes the place of the root.                    *)
LEMMA ModifiedIs ==
    ASSUME NEW L, NEW f, Labelled(L, f), NEW base \in Seq(NodeType), Len(f) <= Len(base),
           Labelled(L, base), NEW key \in Key, NEW val \in Value \cup {NULL},
           NEW v \in DOMAIN L, NEW way, PathOK(L, f, way, key),
           way[1] = [node |-> v, key |-> EmptyKey]
    PROVE  ClimbOK(L, base, Modified(f, Len(base), way, key, val), v, EmptyKey, key, val)
<1> DEFINE pos  == Len(base)
           len  == Len(way)
           N    == len - 1
           leaf == Last(way).node
           A    == [data |-> <<>>, nodes |-> ModifyLeaf(f[leaf+1], key, val), prev_node |-> leaf]
           popped[n \in 0..N] ==
               IF n = 0 THEN A ELSE Climb(f, pos, popped[n-1], way[len-n])
           Body(n, g) == [m \in 0..n |-> IF m = 0 THEN A ELSE Climb(f, pos, g[m-1], way[len-m])]
<1>1. /\ way \in Seq(Step(L)) /\ len \in Nat /\ len >= 1 /\ DOMAIN way = 1..len /\ N \in Nat
      /\ \A k \in 1..len : way[k] \in Step(L) /\ KeyBelow(L, way[k], key)
      /\ \A k \in 1..len-1 : /\ f[way[k].node+1].type = "b"
                             /\ way[k+1] = StepDown(f, way[k], key)
      /\ f[way[len].node+1].type = "l"
    BY DEF PathOK
<1>2. Last(way) = way[len]
    BY DEF Last
<1>3. Modified(f, pos, way, key, val) = popped[N]
    BY DEF Modified
<1> HIDE DEF A
<1>4. \A n \in 0..N : \E g : g = Body(n, g)
    <2> DEFINE Bad == {n \in 0..N : ~\E g : g = Body(n, g)}
    <2> SUFFICES ASSUME Bad # {}
                 PROVE  FALSE
        OBVIOUS
    <2>1. PICK n \in Bad : \A m \in Bad : n <= m
        <3>1. Bad \subseteq Nat
            BY <1>1
        <3> HIDE DEF Bad
        <3> QED
            BY <3>1, LeastNat
    <2>2. n \in 0..N /\ n \in Nat
        BY <1>1, <2>1
    <2>3. PICK g : \A m \in 0..n-1 : g[m] = IF m = 0 THEN A ELSE Climb(f, pos, g[m-1], way[len-m])
        <3>1. CASE n = 0
            BY <3>1
        <3>2. CASE n # 0
            <4>1. n-1 \in 0..N /\ n-1 # n
                <5> HIDE DEF N
                <5> QED
                    BY <1>1, <2>2, <3>2
            <4>a. n-1 \notin Bad
                <5>1. ~(n <= n-1)
                    BY ONLY <2>2
                <5> HIDE DEF Bad
                <5> QED
                    BY <2>1, <5>1
            <4>2. \E g : g = Body(n-1, g)
                BY <4>1, <4>a
            <4> QED
                BY <4>2
        <3> QED
            BY <3>1, <3>2
    <2> DEFINE e == [m \in 0..n |-> IF m = 0 THEN A ELSE Climb(f, pos, g[m-1], way[len-m])]
    <2>4. ASSUME NEW m \in 0..n, m # 0
          PROVE  e[m-1] = g[m-1]
        <3> DEFINE c == m-1
        <3>1. c \in 0..n-1 /\ c \in 0..n
            BY <2>2, <2>4
        <3>2. g[c] = IF c = 0 THEN A ELSE Climb(f, pos, g[c-1], way[len-c])
            BY <2>3, <3>1
        <3> HIDE DEF c
        <3>3. e[c] = IF c = 0 THEN A ELSE Climb(f, pos, g[c-1], way[len-c])
            BY <3>1
        <3> QED
            BY <3>2, <3>3 DEF c
    <2>5. e = Body(n, e)
        <3>1. ASSUME NEW m \in 0..n
              PROVE  (IF m = 0 THEN A ELSE Climb(f, pos, g[m-1], way[len-m]))
                        = (IF m = 0 THEN A ELSE Climb(f, pos, e[m-1], way[len-m]))
            <4> HIDE DEF e
            <4>1. CASE m = 0
                BY <4>1
            <4>2. CASE m # 0
                BY <2>4, <4>2
            <4> QED
                BY <4>1, <4>2
        <3> QED
            BY <3>1
    <2>6. n \notin Bad
        BY <2>5
    <2> QED
        BY <2>1, <2>6
<1>5. popped = Body(N, popped)
    <2>1. popped = CHOOSE g : g = Body(N, g)
        BY Zenon
    <2> HIDE DEF popped
    <2>2. N \in 0..N
        BY <1>1
    <2>3. \E g : g = Body(N, g)
        BY <1>4, <2>2
    <2> HIDE DEF Body
    <2> QED
        BY <2>1, <2>3, Zenon
<1> HIDE DEF popped
<1>6. \A n \in 0..N : popped[n] = IF n = 0 THEN A ELSE Climb(f, pos, popped[n-1], way[len-n])
    BY <1>5
<1> DEFINE Good(n) == ClimbOK(L, base, popped[n], way[len-n].node, way[len-n].key, key, val)
<1>7. Good(0)
    <2> DEFINE o    == way[len].node
               lo   == way[len].key
               node == f[o+1]
    <2>1. way[len] \in Step(L) /\ KeyBelow(L, way[len], key) /\ len-0 = len
        BY <1>1
    <2>2. o \in DOMAIN L /\ lo \in Key /\ lo <= key /\ \A r \in L[o].recs : lo <= r.key
        BY <2>1 DEF Step, KeyBelow
    <2>3. NodeOK(L, node) /\ L[o] = LabelOf(L, node) /\ node.type = "l"
        BY <1>1, <2>2, LabelledIs
    <2>4. A = [data |-> <<>>, nodes |-> ModifyLeaf(node, key, val), prev_node |-> o]
        BY <1>2 DEF A
    <2> HIDE DEF node, o, lo
    <2>5. LeafOK(node)
        BY <2>3, NodeIs
    <2>6. L[o].recs = RecordSet(node.recs) /\ L[o].h = 1
        BY <2>3 DEF LabelOf
    <2> DEFINE mod == ModifyLeaf(node, key, val)
    <2>7. GoodNodes(L, mod, lo, 1) /\ NodesRecs(L, mod) = Changed(L[o].recs, key, val)
        <3>1. \A r \in RecordSet(node.recs) : lo <= r.key
            BY <2>2, <2>6
        <3> QED
            BY <2>2, <2>5, <2>6, <3>1, LeafModified
    <2> HIDE DEF mod
    <2>8. popped[0] = A
        <3>1. 0 \in 0..N
            BY <1>1
        <3> QED
            BY <1>6, <3>1, Zenon
    <2>9. popped[0].data = <<>> /\ popped[0].nodes = mod /\ popped[0].prev_node = o
        BY <2>4, <2>8 DEF mod
    <2>10. base \o <<>> = base /\ <<>> \in Seq(NodeType)
        OBVIOUS
    <2>11. Extends(L, L)
        BY DEF Extends
    <2>12. ClimbOK(L, base, popped[0], o, lo, key, val)
        BY <2>6, <2>7, <2>9, <2>10, <2>11 DEF ClimbOK
    <2> QED
        BY <2>1, <2>12 DEF o, lo
<1>8. \A n \in 0..N : Good(n)
    <2> DEFINE Bad == {n \in 0..N : ~Good(n)}
    <2> SUFFICES ASSUME Bad # {}
                 PROVE  FALSE
        OBVIOUS
    <2>1. PICK n \in Bad : \A m \in Bad : n <= m
        <3>1. Bad \subseteq Nat
            BY <1>1
        <3> HIDE DEF Bad
        <3> QED
            BY <3>1, LeastNat
    <2>2. n \in 0..N /\ n # 0
        BY <1>7, <2>1
    <2>3. n-1 \in 0..N /\ ~(n <= n-1)
        <3> HIDE DEF N
        <3> QED
            BY <1>1, <2>2
    <2>a. n-1 \notin Bad
        <3> HIDE DEF Bad
        <3> QED
            BY <2>1, <2>3
    <2>4. Good(n-1)
        BY <2>3, <2>a
    <2>5. len-n \in 1..len-1 /\ len-n \in 1..len /\ len-(n-1) = (len-n)+1
        BY <1>1, <2>2
    <2> DEFINE x   == way[len-n]
               t   == way[len-(n-1)]
               acc == popped[n-1]
    <2>6. x \in Step(L) /\ KeyBelow(L, x, key) /\ f[x.node+1].type = "b" /\ t = StepDown(f, x, key)
        BY <1>1, <2>5
    <2>7. popped[n] = Climb(f, pos, acc, x)
        BY <1>6, <2>2
    <2>8. ClimbOK(L, base, acc, t.node, t.key, key, val)
        BY <2>4
    <2> HIDE DEF x, t, acc, pos
    <2>9. ClimbOK(L, base, Climb(f, Len(base), acc, x), x.node, x.key, key, val)
        BY <2>6, <2>8, ClimbStep
    <2>10. Good(n)
        BY <2>7, <2>9 DEF x, pos
    <2> QED
        BY <2>1, <2>10
<1>9. Good(N)
    BY <1>1, <1>8
<1>10. len-N = 1
    BY <1>1
<1> QED
    BY <1>3, <1>9, <1>10

(* r is a tree for base: the records are those below v, with the one of the *)
(* key changed.                                                            *)
TreeOK(L, base, r, v, key, val) ==
    /\ r.dat \in Seq(NodeType)
    /\ \E M : /\ Labelled(M, base \o r.dat) /\ Extends(M, L) /\ r.root \in DOMAIN M
              /\ M[r.root].recs = Changed(L[v].recs, key, val)

(* A root is put over the nodes, and it holds their records.               *)
LEMMA RootConstructed ==
    ASSUME NEW L, NEW base \in Seq(NodeType), NEW key \in Key, NEW val \in Value \cup {NULL},
           NEW v, L[v].h \in Nat, NEW acc, ClimbOK(L, base, acc, v, EmptyKey, key, val)
    PROVE  TreeOK(L, base, ConstructRoot(Len(base), acc.data, acc.nodes), v, key, val)
<1> DEFINE pos   == Len(base)
           data  == acc.data
           nodes == acc.nodes
           cells == base \o data
           r     == ConstructRoot(pos, data, nodes)
           h     == L[v].h
<1>1. PICK M : /\ Labelled(M, cells) /\ Extends(M, L) /\ GoodNodes(M, nodes, EmptyKey, h)
               /\ NodesRecs(M, nodes) = Changed(L[v].recs, key, val)
    BY DEF ClimbOK
<1>2. data \in Seq(NodeType)
    BY DEF ClimbOK
<1>3. cells \in Seq(NodeType) /\ Len(cells) = pos + Len(data) /\ pos \in Nat /\ Len(data) \in Nat
    BY <1>2, CatSeq
<1>4. /\ Len(nodes) \in {0, 1, 2} /\ DOMAIN nodes = 1..Len(nodes)
      /\ \A i \in DOMAIN nodes : NodeOK(M, nodes[i].node) /\ LabelOf(M, nodes[i].node) \in Label
      /\ \A i \in DOMAIN nodes : nodes[i].node \in NodeType
    <2>1. nodes \in Seq(NewNode)
        BY <1>1 DEF GoodNodes
    <2>2. \A i \in DOMAIN nodes : nodes[i] \in NewNode
        BY <2>1
    <2>3. \A i \in DOMAIN nodes : nodes[i].node \in NodeType
        BY <2>2 DEF NewNode
    <2> QED
        BY <1>1, <2>3 DEF GoodNodes
<1> HIDE DEF data, nodes, cells
<1>5. ASSUME NEW node \in NodeType, NodeOK(M, node), LabelOf(M, node) \in Label,
             r = [dat |-> Append(data, node), root |-> pos + Len(data)],
             LabelOf(M, node).recs = NodesRecs(M, nodes)
      PROVE  TreeOK(L, base, r, v, key, val)
    <2>1. PICK P : /\ Labelled(P, Append(cells, node)) /\ Extends(P, M)
                   /\ Len(cells) \in DOMAIN P /\ P[Len(cells)] = LabelOf(M, node)
        BY <1>1, <1>5, NodeAppended
    <2>a. Extends(P, L)
        BY <1>1, <2>1 DEF Extends
    <2>2. base \o Append(data, node) = Append(cells, node)
        BY <1>2, CatAppend DEF cells
    <2>3. r.dat = Append(data, node) /\ r.root = Len(cells)
        BY <1>3, <1>5
    <2> HIDE DEF r
    <2>4. Append(data, node) \in Seq(NodeType)
        BY <1>2
    <2> QED
        BY <1>1, <1>5, <2>1, <2>2, <2>3, <2>4, <2>a DEF TreeOK
<1>6. CASE Len(nodes) = 0
    <2> DEFINE node == Leaf(<<>>)
    <2>1. r = [dat |-> Append(data, node), root |-> pos + Len(data)]
        BY <1>6 DEF ConstructRoot
    <2>2. <<>> \in Seq(Record) /\ Sorted(<<>>) /\ Len(<<>>) <= MAX_NODE_SIZE /\ RecordSet(<<>>) = {}
        BY TreeAssumption DEF Sorted, RecordSet
    <2>3. /\ NodeOK(M, node) /\ node \in NodeType /\ LabelOf(M, node) \in Label
          /\ LabelOf(M, node) = [recs |-> RecordSet(<<>>), h |-> 1]
        BY <2>2, LeafGood
    <2>4. NodesRecs(M, nodes) = {}
        BY <1>4, <1>6 DEF NodesRecs
    <2> HIDE DEF node, r
    <2>5. LabelOf(M, node).recs = NodesRecs(M, nodes)
        BY <2>2, <2>3, <2>4
    <2> QED
        BY <1>5, <2>1, <2>3, <2>5 DEF r, data, nodes
<1>7. CASE Len(nodes) = 1
    <2> DEFINE node == nodes[1].node
    <2>1. r = [dat |-> Append(data, node), root |-> pos + Len(data)]
        BY <1>7 DEF ConstructRoot
    <2>2. DOMAIN nodes = {1}
        BY <1>4, <1>7
    <2>3. NodeOK(M, node) /\ node \in NodeType /\ LabelOf(M, node) \in Label
        BY <1>4, <2>2
    <2>4. LabelOf(M, node).recs = NodesRecs(M, nodes)
        BY <2>2 DEF NodesRecs
    <2> HIDE DEF node, r
    <2> QED
        BY <1>5, <2>1, <2>3, <2>4 DEF r, data, nodes
<1>8. CASE Len(nodes) = 2
    <2> DEFINE kids == Placed(pos, data, nodes)
               dat  == data \o NodesOf(nodes)
               b    == BranchOf(kids)
               d    == base \o dat
    <2>1. r = [dat |-> Append(dat, b.node), root |-> pos + Len(data) + 2]
        BY <1>8 DEF ConstructRoot
    <2>2. PICK P : /\ Labelled(P, cells \o NodesOf(nodes)) /\ Extends(P, M)
                   /\ \A i \in DOMAIN nodes : /\ Len(cells)+i-1 \in DOMAIN P
                                              /\ P[Len(cells)+i-1] = LabelOf(M, nodes[i].node)
        <3>1. Labelled(M, cells) /\ GoodNodes(M, nodes, EmptyKey, h)
            BY <1>1
        <3> QED
            BY ONLY <3>1, NodesAppended
    <2>3. NodesOf(nodes) \in Seq(NodeType) /\ Len(NodesOf(nodes)) = 2
        BY <1>1, <1>8, NodesOfIs
    <2>4. dat \in Seq(NodeType) /\ Len(dat) = Len(data) + 2
        <3>1. dat \in Seq(NodeType) /\ Len(dat) = Len(data) + Len(NodesOf(nodes))
            BY <1>2, <2>3, CatSeq
        <3> QED
            BY <2>3, <3>1
    <2>5. cells \o NodesOf(nodes) = d
        BY <1>2, <2>3, CatAssoc DEF cells
    <2>6. Labels(M) /\ Labels(P)
        BY <1>1, <2>2, LabelledIs
    <2>7. /\ GoodKids(P, kids, EmptyKey, h) /\ Len(kids) = 2
          /\ KidsRecs(P, kids) = NodesRecs(M, nodes)
        <3>1. \A q \in DOMAIN nodes : /\ pos + Len(data)+q-1 \in DOMAIN P
                                      /\ P[pos + Len(data)+q-1] = LabelOf(M, nodes[q].node)
            BY <1>3, <2>2
        <3> HIDE DEF pos, h
        <3> QED
            BY <1>1, <1>3, <1>8, <2>6, <3>1, PlacedGood
    <2>8. EmptyKey \in Key /\ Len(kids) \in 1..MAX_NODE_SIZE-1
        <3> HIDE DEF kids
        <3> QED
            BY <2>7, TreeAssumption DEF EmptyKey, Key
    <2> HIDE DEF kids, dat, r
    <2>9. /\ NodeOK(P, b.node) /\ b.node \in NodeType
          /\ LabelOf(P, b.node) = [recs |-> KidsRecs(P, kids), h |-> h + 1]
          /\ LabelOf(P, b.node) \in Label
        <3>1. GoodKids(P, kids, EmptyKey, h) /\ h \in Nat
            BY <2>7
        <3> HIDE DEF h
        <3> QED
            BY ONLY <2>6, <2>8, <3>1, BranchGood DEF b
    <2> DEFINE node == b.node
    <2>10. Labelled(P, d)
        BY <2>2, <2>5
    <2> HIDE DEF d, b
    <2>11. PICK Q : /\ Labelled(Q, Append(d, node)) /\ Extends(Q, P) /\ Len(d) \in DOMAIN Q
                    /\ Q[Len(d)] = LabelOf(P, node)
        <3>1. node \in NodeType /\ NodeOK(P, node) /\ LabelOf(P, node) \in Label
            BY <2>9
        <3> HIDE DEF node
        <3> QED
            BY <2>10, <3>1, NodeAppended
    <2>a. Extends(Q, L)
        BY <1>1, <2>2, <2>11 DEF Extends
    <2>12. base \o Append(dat, node) = Append(d, node) /\ Len(d) = pos + Len(dat)
        <3>1. node \in NodeType
            BY <2>9
        <3> HIDE DEF node
        <3>2. base \o Append(dat, node) = Append(base \o dat, node)
            BY ONLY <2>4, <3>1, base \in Seq(NodeType), CatAppend
        <3>3. Len(base \o dat) = Len(base) + Len(dat)
            BY ONLY <2>4, base \in Seq(NodeType), CatSeq
        <3> QED
            BY <3>2, <3>3 DEF d
    <2>13. r.dat = Append(dat, node) /\ r.root = Len(d)
        BY <1>3, <2>1, <2>4, <2>12
    <2>14. Append(dat, node) \in Seq(NodeType)
        BY <2>4, <2>9
    <2>15. Q[r.root].recs = Changed(L[v].recs, key, val)
        BY <1>1, <2>7, <2>9, <2>11, <2>13
    <2> HIDE DEF node
    <2> QED
        BY <2>11, <2>a, <2>12, <2>13, <2>14, <2>15 DEF r, data, nodes, TreeOK
<1> HIDE DEF r
<1> QED
    BY <1>4, <1>6, <1>7, <1>8 DEF r, data, nodes

(* A block begins with two header fields, that leave the labels alone.     *)
LEMMA BlockBegun ==
    ASSUME NEW L, NEW f, Labelled(L, f)
    PROVE  LET base == f \o <<Header, Header>> IN
           /\ base \in Seq(NodeType) /\ Labelled(L, base)
           /\ Len(base) = Len(f) + 2 /\ Len(f) \in Nat
<1>1. Labelled(L, Append(f, Header))
    BY HeaderAppended
<1>2. Labelled(L, Append(Append(f, Header), Header))
    BY <1>1, HeaderAppended
<1>3. f \in Seq(NodeType) /\ Append(f, Header) \in Seq(NodeType)
    BY <1>1 DEF Labelled
<1>4. Header \in NodeType
    BY DEF Header, NodeType
<1>5. f \o <<Header, Header>> = Append(Append(f, Header), Header)
    <2> DEFINE hd == Header
    <2>1. hd \in NodeType
        BY <1>4
    <2> HIDE DEF hd
    <2>2. f \o Append(<<hd>>, hd) = Append(f \o <<hd>>, hd)
        BY ONLY <1>3, <2>1, CatAppend
    <2>3. <<hd, hd>> = Append(<<hd>>, hd) /\ f \o <<hd>> = Append(f, hd)
        BY <1>3, <2>1
    <2> QED
        BY <2>2, <2>3 DEF hd
<1>6. f \o <<Header, Header>> \in Seq(NodeType) /\ Len(f \o <<Header, Header>>) = Len(f) + 2
    <2> DEFINE hd == Header
    <2>1. hd \in NodeType
        BY <1>4
    <2> HIDE DEF hd
    <2> QED
        BY <1>3, <2>1 DEF hd
<1>7. Labelled(L, f \o <<Header, Header>>)
    BY ONLY <1>2, <1>5
<1> DEFINE b == f \o <<Header, Header>>
<1>8. Len(f) \in Nat
    BY <1>3
<1> HIDE DEF b
<1> QED
    BY <1>6, <1>7, <1>8 DEF b

(* What aodbm_set and aodbm_del append is a tree whose records are those   *)
(* of the old one, with the one of the key changed.                        *)
LEMMA RewriteIs ==
    ASSUME NEW L, NEW f, Labelled(L, f), NEW v \in DOMAIN L,
           NEW key \in Key, NEW val \in Value \cup {NULL}
    PROVE  TreeOK(L, f \o <<Header, Header>>, Rewrite(f, v, Len(f) + 2, key, val), v, key, val)
<1> DEFINE base == f \o <<Header, Header>>
           way == SearchPath(f, v, key)
           acc  == Modified(f, Len(base), way, key, val)
<1>1. base \in Seq(NodeType) /\ Labelled(L, base) /\ Len(base) = Len(f) + 2 /\ Len(f) \in Nat
    BY BlockBegun
<1>2. PathOK(L, f, way, key) /\ way[1] = [node |-> v, key |-> EmptyKey]
    BY SearchPathIs
<1>3. Rewrite(f, v, Len(f) + 2, key, val) = ConstructRoot(Len(base), acc.data, acc.nodes)
    <2> HIDE DEF base
    <2> QED
        BY <1>1 DEF Rewrite
<1>4. L[v].h \in Nat
    <2>1. L[v] \in Label
        BY LabelledIs DEF Labels
    <2> QED
        BY <2>1 DEF Label
<1>5. ClimbOK(L, base, acc, v, EmptyKey, key, val)
    <2> HIDE DEF base, way
    <2>1. Len(f) <= Len(base)
        BY <1>1
    <2> QED
        BY <1>1, <1>2, <2>1, ModifiedIs
<1> HIDE DEF base, acc
<1>6. TreeOK(L, base, ConstructRoot(Len(base), acc.data, acc.nodes), v, key, val)
    BY <1>1, <1>4, <1>5, RootConstructed
<1> QED
    BY <1>3, <1>6 DEF base

(* The map after the call has the records that the tree has then.          *)
LEMMA RecordsChanged ==
    ASSUME NEW m \in [Key -> Value \cup {NULL}], NEW key \in Key, NEW val \in Value \cup {NULL}
    PROVE  RecordsOf([m EXCEPT ![key] = val]) = Changed(RecordsOf(m), key, val)
<1> DEFINE n == [m EXCEPT ![key] = val]
<1>1. \A k \in Key : n[k] = IF k = key THEN val ELSE m[k]
    OBVIOUS
<1> HIDE DEF n
<1>2. \A r : r \in RecordsOf(n) <=> \E k \in Key : n[k] # NULL /\ r = Rec(k, n[k])
    BY DEF RecordsOf
<1>3. \A r : r \in RecordsOf(m) <=> \E k \in Key : m[k] # NULL /\ r = Rec(k, m[k])
    BY DEF RecordsOf
<1>4. ASSUME NEW r, r \in RecordsOf(n)
      PROVE  r \in Changed(RecordsOf(m), key, val)
    <2>1. PICK k \in Key : n[k] # NULL /\ r = Rec(k, n[k])
        BY <1>2, <1>4
    <2>2. r.key = k
        BY <2>1 DEF Rec
    <2>3. CASE k = key
        BY <1>1, <2>1, <2>3 DEF Changed
    <2>4. CASE k # key
        BY <1>1, <1>3, <2>1, <2>2, <2>4 DEF Changed
    <2> QED
        BY <2>3, <2>4
<1>5. ASSUME NEW r, r \in Changed(RecordsOf(m), key, val)
      PROVE  r \in RecordsOf(n)
    <2>1. CASE r \in RecordsOf(m) /\ r.key # key
        <3>1. PICK k \in Key : m[k] # NULL /\ r = Rec(k, m[k])
            BY <1>3, <2>1
        <3>2. k # key
            BY <2>1, <3>1 DEF Rec
        <3> QED
            BY <1>1, <1>2, <3>1, <3>2
    <2>2. CASE val # NULL /\ r = Rec(key, val)
        BY <1>1, <1>2, <2>2
    <2> QED
        BY <1>5, <2>1, <2>2 DEF Changed
<1> QED
    BY <1>4, <1>5 DEF n

-----------------------------------------------------------------------------
(* The invariant.                                                          *)

(* Before the first call the file is empty and so is the map.              *)
LEMMA InitTree == Init => TreeInv
<1> SUFFICES ASSUME Init
             PROVE  TreeInv
    OBVIOUS
<1> DEFINE L == [o \in {} |-> 0]
<1>1. Labelled(L, file)
    <2>1. file = <<>> /\ DOMAIN L = {} /\ Len(file) = 0
        BY DEF Init
    <2>2. file \in Seq(NodeType)
        BY <2>1
    <2>3. L \in [DOMAIN L -> Label]
        BY <2>1
    <2>4. {o \in 0..Len(file)-1 : file[o+1] # Header} = {}
        BY <2>1
    <2> HIDE DEF L
    <2> QED
        BY <2>1, <2>2, <2>3, <2>4 DEF Labelled
<1>2. Represents(L, ver, want)
    BY DEF Represents, Init
<1>3. want \in [Key -> Value \cup {NULL}]
    BY DEF Init
<1> HIDE DEF L
<1> QED
    BY <1>1, <1>2, <1>3 DEF Init, TreeInv

(* The labels stay, and so do the cells they are of.                       *)
Kept(L) ==
    \E M : /\ Labelled(M, file') /\ Extends(M, L) /\ Represents(M, ver', want')
           /\ \A o \in DOMAIN L : file'[o+1] = file[o+1]

(* A block whose root holds the records of the new map keeps the invariant. *)
LEMMA WriteKeepsTree ==
    ASSUME TreeInv, NEW L, Labelled(L, file), NEW r, Write(r), r.dat \in Seq(NodeType),
           want' \in [Key -> Value \cup {NULL}],
           NEW M, Labelled(M, (file \o <<Header, Header>>) \o r.dat), Extends(M, L),
           r.root \in DOMAIN M, M[r.root].recs = RecordsOf(want')
    PROVE  TreeInv' /\ Kept(L)
<1> DEFINE base == file \o <<Header, Header>>
<1>1. file' = base \o r.dat /\ ver' = r.root
    BY DEF Write
<1>2. base \in Seq(NodeType) /\ Len(base) = Len(file) + 2 /\ Len(file) \in Nat /\ file \in Seq(NodeType)
    <2>1. file \in Seq(NodeType)
        BY DEF Labelled
    <2> QED
        BY <2>1, BlockBegun
<1>3. base[1] = Header
    <2>1. CASE file = <<>>
        BY <2>1
    <2>2. CASE file # <<>>
        <3>1. Len(file) >= 1 /\ file[1] = Header
            BY <1>2, <2>2 DEF TreeInv
        <3> DEFINE hd == <<Header, Header>>
        <3>2. hd \in Seq(NodeType)
            BY DEF Header, NodeType
        <3> HIDE DEF hd
        <3>3. (file \o hd)[1] = file[1]
            BY <1>2, <3>1, <3>2
        <3> QED
            BY <3>1, <3>3 DEF hd
    <2> QED
        BY <2>1, <2>2
<1> HIDE DEF base
<1>4. file'[1] = Header
    <2>1. (base \o r.dat)[1] = base[1]
        <3> DEFINE d == r.dat
        <3>1. d \in Seq(NodeType) /\ Len(base) >= 1
            BY <1>2
        <3> HIDE DEF d
        <3>2. (base \o d)[1] = base[1]
            BY <1>2, <3>1
        <3> QED
            BY <3>2 DEF d
    <2> QED
        BY <1>1, <1>3, <2>1
<1>5. Labelled(M, file')
    BY <1>1 DEF base
<1>6. r.root \in Nat /\ r.root # 0
    <2>1. r.root \in Nat /\ file'[r.root+1].type \in {"l", "b"}
        BY <1>5, LabelledIs
    <2>2. Header.type = "header"
        BY DEF Header
    <2> QED
        BY <1>4, <2>1, <2>2
<1>7. Represents(M, ver', want')
    BY <1>1, <1>6 DEF Represents
<1>8. \A o \in DOMAIN L : file'[o+1] = file[o+1]
    <2> SUFFICES ASSUME NEW o \in DOMAIN L
                 PROVE  file'[o+1] = file[o+1]
        OBVIOUS
    <2> DEFINE i == o+1
    <2>1. i \in 1..Len(file) /\ i \in 1..Len(base)
        BY <1>2, LabelledIs
    <2> HIDE DEF i
    <2>2. base[i] = file[i]
        <3> DEFINE hd == <<Header, Header>>
        <3>1. hd \in Seq(NodeType)
            BY DEF Header, NodeType
        <3> HIDE DEF hd
        <3>2. (file \o hd)[i] = file[i]
            BY <1>2, <2>1, <3>1
        <3> QED
            BY <3>2 DEF hd, base
    <2>3. (base \o r.dat)[i] = base[i]
        <3> DEFINE d == r.dat
        <3>1. d \in Seq(NodeType)
            OBVIOUS
        <3> HIDE DEF d
        <3>2. (base \o d)[i] = base[i]
            BY <1>2, <2>1, <3>1
        <3> QED
            BY <3>2 DEF d
    <2> QED
        BY <1>1, <2>2, <2>3 DEF i
<1>9. TreeInv'
    BY <1>1, <1>4, <1>5, <1>6, <1>7 DEF TreeInv
<1> QED
    BY <1>5, <1>7, <1>8, <1>9 DEF Kept

(* aodbm_set keeps it,                                                     *)
LEMMA SetKeepsTree ==
    ASSUME TreeInv, NEW L, Labelled(L, file), Represents(L, ver, want),
           NEW key \in Key, NEW val \in Value, Set(key, val)
    PROVE  TreeInv' /\ Kept(L)
<1>1. Labelled(L, file) /\ Represents(L, ver, want)
    OBVIOUS
<1>2. /\ want' = [want EXCEPT ![key] = val] /\ want \in [Key -> Value \cup {NULL}]
      /\ val \in Value \cup {NULL} /\ val # NULL
    BY TreeAssumption DEF Set, TreeInv
<1>3. /\ want' \in [Key -> Value \cup {NULL}]
      /\ RecordsOf(want') = Changed(RecordsOf(want), key, val)
    BY <1>2, RecordsChanged
<1>4. CASE ver = 0
    <2> DEFINE base == file \o <<Header, Header>>
               recs == <<Rec(key, val)>>
               r    == [dat |-> <<Leaf(recs)>>, root |-> AppendPos]
    <2>1. Write(r)
        BY <1>4 DEF Set
    <2>2. base \in Seq(NodeType) /\ Labelled(L, base) /\ Len(base) = AppendPos
        BY <1>1, BlockBegun DEF AppendPos
    <2>3. Rec(key, val) \in Record
        BY <1>2 DEF Rec, Record
    <2>4. /\ recs \in Seq(Record) /\ Sorted(recs) /\ Len(recs) <= MAX_NODE_SIZE
          /\ RecordSet(recs) = {Rec(key, val)}
        <3> DEFINE x == Rec(key, val)
        <3>1. x \in Record
            BY <2>3
        <3> HIDE DEF x
        <3> QED
            BY <3>1, TreeAssumption DEF x, Sorted, RecordSet
    <2> DEFINE node == Leaf(recs)
    <2>5. /\ NodeOK(L, node) /\ node \in NodeType /\ LabelOf(L, node) \in Label
          /\ LabelOf(L, node).recs = {Rec(key, val)}
        <3> HIDE DEF recs
        <3> QED
            BY <2>4, LeafGood
    <2>6. RecordsOf(want) = {}
        BY <1>1, <1>4 DEF Represents, RecordsOf
    <2>7. RecordsOf(want') = {Rec(key, val)}
        BY <1>2, <1>3, <2>6 DEF Changed
    <2> HIDE DEF base
    <2>8. PICK M : /\ Labelled(M, Append(base, node)) /\ Extends(M, L) /\ Len(base) \in DOMAIN M
                   /\ M[Len(base)] = LabelOf(L, node)
        <3> HIDE DEF node
        <3> QED
            BY <2>2, <2>5, NodeAppended
    <2>9. r.dat = <<node>> /\ r.root = Len(base)
        BY <2>2
    <2>10. base \o r.dat = Append(base, node) /\ r.dat \in Seq(NodeType)
        <3>1. node \in NodeType
            BY <2>5
        <3> HIDE DEF node, r
        <3> QED
            BY <2>2, <2>9, <3>1
    <2>11. r.root \in DOMAIN M /\ M[r.root].recs = RecordsOf(want')
        <3> HIDE DEF r, node
        <3> QED
            BY <2>5, <2>7, <2>8, <2>9
    <2>12. Labelled(M, (file \o <<Header, Header>>) \o r.dat)
        <3> HIDE DEF r, node
        <3> QED
            BY <2>8, <2>10 DEF base
    <2> HIDE DEF r, node
    <2> QED
        BY ONLY TreeInv, <1>1, <1>3, <2>1, <2>8, <2>10, <2>11, <2>12, WriteKeepsTree
<1>5. CASE ver # 0
    <2> DEFINE r == Rewrite(file, ver, Len(file) + 2, key, val)
    <2>1. Write(r)
        BY <1>5 DEF Set, AppendPos
    <2>2. ver \in DOMAIN L /\ L[ver].recs = RecordsOf(want)
        BY <1>1, <1>5 DEF Represents
    <2>3. TreeOK(L, file \o <<Header, Header>>, r, ver, key, val)
        BY <1>1, <1>2, <2>2, RewriteIs
    <2> HIDE DEF r
    <2> QED
        BY <1>3, <2>1, <2>2, <2>3, WriteKeepsTree DEF TreeOK
<1> QED
    BY <1>4, <1>5

(* and so does aodbm_del.                                                  *)
LEMMA DelKeepsTree ==
    ASSUME TreeInv, NEW L, Labelled(L, file), Represents(L, ver, want),
           NEW key \in Key, Del(key)
    PROVE  TreeInv' /\ Kept(L)
<1>1. Labelled(L, file) /\ Represents(L, ver, want)
    OBVIOUS
<1>2. /\ want' = [want EXCEPT ![key] = NULL] /\ want \in [Key -> Value \cup {NULL}]
      /\ NULL \in Value \cup {NULL}
    BY DEF Del, TreeInv
<1>3. /\ want' \in [Key -> Value \cup {NULL}]
      /\ RecordsOf(want') = Changed(RecordsOf(want), key, NULL)
    BY <1>2, RecordsChanged
<1>4. CASE Get(file, ver, key) = NULL /\ UNCHANGED <<file, ver>>
    <2>1. want[key] = NULL
        BY <1>1, <1>2, <1>4, GetIs
    <2>2. want' = want
        BY <1>2, <2>1
    <2>3. Extends(L, L)
        BY DEF Extends
    <2> QED
        BY <1>4, <2>2, <2>3 DEF TreeInv, Kept
<1>5. CASE Get(file, ver, key) # NULL /\ Write(Rewrite(file, ver, AppendPos, key, NULL))
    <2> DEFINE r == Rewrite(file, ver, Len(file) + 2, key, NULL)
    <2>1. Write(r)
        BY <1>5 DEF AppendPos
    <2>2. ver # 0
        BY <1>5 DEF Get
    <2>3. ver \in DOMAIN L /\ L[ver].recs = RecordsOf(want)
        BY <1>1, <2>2 DEF Represents
    <2>4. TreeOK(L, file \o <<Header, Header>>, r, ver, key, NULL)
        BY <1>1, <1>2, <2>3, RewriteIs
    <2> HIDE DEF r
    <2> QED
        BY <1>3, <2>1, <2>3, <2>4, WriteKeepsTree DEF TreeOK
<1> QED
    BY <1>4, <1>5 DEF Del

(* Every call keeps it, and the labels.                                    *)
LEMMA NextKeepsTree ==
    ASSUME TreeInv, NEW L, Labelled(L, file), Represents(L, ver, want), [Next]_tvars
    PROVE  TreeInv' /\ Kept(L)
<1>1. ASSUME NEW key \in Key, NEW val \in Value, Set(key, val)
      PROVE  TreeInv' /\ Kept(L)
    BY <1>1, SetKeepsTree
<1>2. ASSUME NEW key \in Key, Del(key)
      PROVE  TreeInv' /\ Kept(L)
    BY <1>2, DelKeepsTree
<1>3. CASE UNCHANGED tvars
    <2>1. Extends(L, L)
        BY DEF Extends
    <2> QED
        BY <1>3, <2>1 DEF tvars, TreeInv, Kept
<1> QED
    BY <1>1, <1>2, <1>3 DEF Next

(* The tree stays labelled and what the calls asked for, over all of them. *)
THEOREM TreeInvInvariant == Spec => []TreeInv
<1>1. TreeInv /\ [Next]_tvars => TreeInv'
    BY NextKeepsTree DEF TreeInv
<1> QED
    BY <1>1, InitTree, PTL DEF Spec

(* GetIsMapLookup: aodbm_get answers what a map that was asked the same     *)
(* would, in every version a sequence of aodbm_set and aodbm_del leads to. *)
THEOREM GetRight == Spec => []GetIsMapLookup
<1>1. TreeInv => GetIsMapLookup
    BY GetIs DEF TreeInv, GetIsMapLookup
<1> QED
    BY <1>1, TreeInvInvariant, PTL

(* PathKeysNotGreater: the assertion of aodbm_search_path_recursive never  *)
(* fails.                                                                  *)
THEOREM PathKeysRight == Spec => []PathKeysNotGreater
<1>1. TreeInv => PathKeysNotGreater
    <2> SUFFICES ASSUME TreeInv, NEW key \in Key, ver # 0
                 PROVE  \A i \in DOMAIN SearchPath(file, ver, key) :
                            SearchPath(file, ver, key)[i].key <= key
        BY DEF PathKeysNotGreater
    <2>1. PICK L : Labelled(L, file) /\ Represents(L, ver, want)
        BY DEF TreeInv
    <2>2. ver \in DOMAIN L
        BY <2>1 DEF Represents
    <2>3. PathOK(L, file, SearchPath(file, ver, key), key)
        BY <2>1, <2>2, SearchPathIs
    <2> QED
        BY <2>3 DEF PathOK, KeyBelow
<1> QED
    BY <1>1, TreeInvInvariant, PTL

(* The children a cell refers to are nodes before it, not empty and one     *)
(* level lower; only a branch has any.                                     *)
LEMMA ChildrenAre ==
    ASSUME NEW L, NEW f, Labelled(L, f), NEW v \in DOMAIN L
    PROVE  \A o \in 0..v : \A i \in DOMAIN f[o+1].offs :
             /\ o \in DOMAIN L /\ f[o+1].type = "b" /\ f[o+1].offs[i] \in DOMAIN L
             /\ f[o+1].offs[i] \in Nat /\ f[o+1].offs[i] < o
             /\ L[f[o+1].offs[i]].recs # {} /\ L[f[o+1].offs[i]].h + 1 = L[o].h
<1> SUFFICES ASSUME NEW o \in 0..v, NEW i \in DOMAIN f[o+1].offs
             PROVE  /\ o \in DOMAIN L /\ f[o+1].type = "b" /\ f[o+1].offs[i] \in DOMAIN L
                    /\ f[o+1].offs[i] \in Nat /\ f[o+1].offs[i] < o
                    /\ L[f[o+1].offs[i]].recs # {} /\ L[f[o+1].offs[i]].h + 1 = L[o].h
    OBVIOUS
<1> DEFINE node == f[o+1]
           c    == node.offs[i]
<1>1. v \in Nat /\ v < Len(f) /\ Len(f) \in Nat
    BY LabelledIs
<1>2. o \in 0..Len(f)-1
    BY <1>1
<1>3. node.offs # <<>>
    OBVIOUS
<1>4. o \in DOMAIN L
    BY <1>2, <1>3, LabelledIs DEF Header
<1>5. NodeOK(L, node) /\ L[o] = LabelOf(L, node) /\ c < o
    BY <1>4, LabelledIs
<1>6. node.type = "b" /\ BranchOK(L, node)
    BY <1>3, <1>5, NodeIs
<1>7. c \in DOMAIN L /\ L[c].recs # {} /\ L[c].h = L[node.offs[1]].h
    <2>1. i \in DOMAIN node.offs
        OBVIOUS
    <2> HIDE DEF node
    <2>2. /\ node.offs \in Seq(DOMAIN L)
          /\ \A k \in DOMAIN node.offs : L[node.offs[k]].recs # {} /\ L[node.offs[k]].h = L[node.offs[1]].h
        BY <1>6 DEF BranchOK
    <2>3. c \in DOMAIN L
        BY ONLY <2>1, <2>2
    <2> QED
        BY ONLY <2>1, <2>2, <2>3
<1>8. c \in Nat
    BY <1>7, LabelledIs
<1>9. L[o].h = L[node.offs[1]].h + 1
    BY <1>5, <1>6 DEF LabelOf
<1> QED
    BY <1>4, <1>5, <1>6, <1>7, <1>8, <1>9

(* What a version reaches are nodes, and only its root may be empty.        *)
LEMMA ReachIs ==
    ASSUME NEW L, NEW f, Labelled(L, f), NEW v \in DOMAIN L
    PROVE  \A o \in Reach(f, v) : o \in DOMAIN L /\ (o = v \/ L[o].recs # {})
<1> DEFINE K(o) == f[o+1].offs
           U(o, g) == UNION {g[K(o)[i]] : i \in DOMAIN K(o)}
           below[o \in 0..v] == {o} \cup U(o, below)
           Body(n, g) == [o \in 0..n |-> {o} \cup U(o, g)]
<1>1. v \in Nat /\ v < Len(f) /\ Len(f) \in Nat
    BY LabelledIs
<1>2. \A o \in 0..v : \A i \in DOMAIN K(o) :
          /\ o \in DOMAIN L /\ f[o+1].type = "b" /\ K(o)[i] \in DOMAIN L
          /\ K(o)[i] \in Nat /\ K(o)[i] < o
          /\ L[K(o)[i]].recs # {} /\ L[K(o)[i]].h + 1 = L[o].h
    BY ChildrenAre
<1> HIDE DEF K
<1>3. ASSUME NEW n \in 0..v, NEW g, NEW e, \A o \in 0..n-1 : g[o] = e[o], NEW o \in 0..n
      PROVE  U(o, g) = U(o, e)
    <2>1. \A i \in DOMAIN K(o) : g[K(o)[i]] = e[K(o)[i]]
        <3>1. ASSUME NEW i \in DOMAIN K(o)
              PROVE  K(o)[i] \in 0..n-1
            <4>1. K(o)[i] \in Nat /\ K(o)[i] < o
                BY <1>1, <1>2, <1>3
            <4> DEFINE c == K(o)[i]
            <4> HIDE DEF c
            <4>2. c \in Nat /\ c < o
                BY <4>1 DEF c
            <4>3. c \in 0..n-1
                BY <1>1, <1>3, <4>2
            <4> QED
                BY <4>3 DEF c
        <3> QED
            BY <1>3, <3>1
    <2>2. \A x : (\E i \in DOMAIN K(o) : x \in g[K(o)[i]]) <=> (\E i \in DOMAIN K(o) : x \in e[K(o)[i]])
        BY <2>1
    <2> QED
        BY <2>2
<1> HIDE DEF U
<1>4. \A n \in 0..v : \E g : g = Body(n, g)
    <2> DEFINE Bad == {n \in 0..v : ~\E g : g = Body(n, g)}
    <2> SUFFICES ASSUME Bad # {}
                 PROVE  FALSE
        OBVIOUS
    <2>1. PICK n \in Bad : \A m \in Bad : n <= m
        <3>1. Bad \subseteq Nat
            BY <1>1
        <3> HIDE DEF Bad
        <3> QED
            BY <3>1, LeastNat
    <2>2. n \in 0..v /\ n \in Nat
        BY <1>1, <2>1
    <2>3. PICK g : \A o \in 0..n-1 : g[o] = {o} \cup U(o, g)
        <3>1. CASE n = 0
            BY <3>1
        <3>2. CASE n # 0
            <4>1. n-1 \in 0..v /\ ~(n <= n-1)
                BY ONLY <1>1, <2>2, <3>2
            <4>2. n-1 \notin Bad
                <5> HIDE DEF Bad
                <5> QED
                    BY <2>1, <4>1
            <4>3. \E g : g = Body(n-1, g)
                BY <4>1, <4>2
            <4> QED
                BY <4>3
        <3> QED
            BY <3>1, <3>2
    <2> DEFINE e == [o \in 0..n |-> {o} \cup U(o, g)]
    <2>4. \A o \in 0..n-1 : g[o] = e[o]
        <3>1. \A o \in 0..n : e[o] = {o} \cup U(o, g)
            OBVIOUS
        <3> HIDE DEF e
        <3>2. \A o \in 0..n-1 : o \in 0..n
            BY <2>2
        <3> QED
            BY <2>3, <3>1, <3>2
    <2>5. \A o \in 0..n : U(o, g) = U(o, e)
        <3> HIDE DEF e
        <3> QED
            BY <1>3, <2>2, <2>4
    <2>6. e = Body(n, e)
        <3>1. \A o \in 0..n : {o} \cup U(o, g) = {o} \cup U(o, e)
            <4> HIDE DEF e
            <4> QED
                BY <2>5
        <3> QED
            BY <3>1
    <2>7. n \notin Bad
        BY <2>6
    <2> QED
        BY <2>1, <2>7
<1>5. below = Body(v, below)
    <2>1. below = CHOOSE g : g = Body(v, g)
        BY Zenon
    <2> HIDE DEF below
    <2>2. v \in 0..v
        BY <1>1
    <2>3. \E g : g = Body(v, g)
        BY <1>4, <2>2
    <2> HIDE DEF Body
    <2> QED
        BY <2>1, <2>3, Zenon
<1> HIDE DEF below
<1>6. \A o \in 0..v : below[o] = {o} \cup U(o, below)
    BY <1>5
<1> DEFINE Good(o) == \A x \in below[o] : x \in DOMAIN L /\ (x = o \/ L[x].recs # {})
           Worse == {o \in DOMAIN L : o <= v /\ ~Good(o)}
<1>7. Worse = {}
    <2> SUFFICES ASSUME Worse # {}
                 PROVE  FALSE
        OBVIOUS
    <2>1. PICK o \in Worse : \A m \in Worse : o <= m
        <3>1. Worse \subseteq Nat
            BY LabelledIs
        <3> HIDE DEF Worse
        <3> QED
            BY <3>1, LeastNat
    <2>2. o \in DOMAIN L /\ o \in Nat /\ o \in 0..v
        BY <1>1, <2>1, LabelledIs
    <2>3. \A i \in DOMAIN K(o) : Good(K(o)[i])
        <3> SUFFICES ASSUME NEW i \in DOMAIN K(o)
                     PROVE  Good(K(o)[i])
            OBVIOUS
        <3> DEFINE c == K(o)[i]
        <3>1. c \in DOMAIN L /\ c \in Nat /\ c < o
            BY <1>2, <2>2
        <3> HIDE DEF c
        <3>2. c <= v /\ ~(o <= c)
            BY <1>1, <2>2, <3>1
        <3>3. Good(c)
            BY <2>1, <3>1, <3>2
        <3> QED
            BY <3>3 DEF c
    <2>4. Good(o)
        <3> SUFFICES ASSUME NEW x \in below[o]
                     PROVE  x \in DOMAIN L /\ (x = o \/ L[x].recs # {})
            OBVIOUS
        <3>1. x = o \/ x \in U(o, below)
            BY <1>6, <2>2
        <3>2. CASE x \in U(o, below)
            <4>1. PICK i \in DOMAIN K(o) : x \in below[K(o)[i]]
                BY <3>2 DEF U
            <4>2. K(o)[i] \in DOMAIN L /\ L[K(o)[i]].recs # {}
                BY <1>2, <2>2
            <4> QED
                BY <2>3, <4>1, <4>2
        <3> QED
            BY <2>2, <3>1, <3>2
    <2> QED
        BY <2>1, <2>4
<1>8. Good(v)
    BY <1>1, <1>7
<1>9. Reach(f, v) = IF v = 0 THEN {} ELSE below[v]
    BY DEF Reach, below, U, K
<1> QED
    BY <1>8, <1>9

(* All of its leaves are as deep as its label says.                        *)
LEMMA HeightsAre ==
    ASSUME NEW L, NEW f, Labelled(L, f), NEW v \in DOMAIN L
    PROVE  Heights(f, v) \subseteq {L[v].h}
<1> DEFINE K(o) == f[o+1].offs
           U(o, g) == UNION {g[K(o)[i]] : i \in DOMAIN K(o)}
           below[o \in 0..v] == (IF f[o+1].type = "l" THEN {1} ELSE {h + 1 : h \in U(o, below)})
           Body(n, g) == [o \in 0..n |-> (IF f[o+1].type = "l" THEN {1} ELSE {h + 1 : h \in U(o, g)})]
<1>1. v \in Nat /\ v < Len(f) /\ Len(f) \in Nat
    BY LabelledIs
<1>2. \A o \in 0..v : \A i \in DOMAIN K(o) :
          /\ o \in DOMAIN L /\ f[o+1].type = "b" /\ K(o)[i] \in DOMAIN L
          /\ K(o)[i] \in Nat /\ K(o)[i] < o
          /\ L[K(o)[i]].recs # {} /\ L[K(o)[i]].h + 1 = L[o].h
    BY ChildrenAre
<1> HIDE DEF K
<1>3. ASSUME NEW n \in 0..v, NEW g, NEW e, \A o \in 0..n-1 : g[o] = e[o], NEW o \in 0..n
      PROVE  U(o, g) = U(o, e)
    <2>1. \A i \in DOMAIN K(o) : g[K(o)[i]] = e[K(o)[i]]
        <3>1. ASSUME NEW i \in DOMAIN K(o)
              PROVE  K(o)[i] \in 0..n-1
            <4>1. K(o)[i] \in Nat /\ K(o)[i] < o
                BY <1>1, <1>2, <1>3
            <4> DEFINE c == K(o)[i]
            <4> HIDE DEF c
            <4>2. c \in Nat /\ c < o
                BY <4>1 DEF c
            <4>3. c \in 0..n-1
                BY <1>1, <1>3, <4>2
            <4> QED
                BY <4>3 DEF c
        <3> QED
            BY <1>3, <3>1
    <2>2. \A x : (\E i \in DOMAIN K(o) : x \in g[K(o)[i]]) <=> (\E i \in DOMAIN K(o) : x \in e[K(o)[i]])
        BY <2>1
    <2> QED
        BY <2>2
<1> HIDE DEF U
<1>4. \A n \in 0..v : \E g : g = Body(n, g)
    <2> DEFINE Bad == {n \in 0..v : ~\E g : g = Body(n, g)}
    <2> SUFFICES ASSUME Bad # {}
                 PROVE  FALSE
        OBVIOUS
    <2>1. PICK n \in Bad : \A m \in Bad : n <= m
        <3>1. Bad \subseteq Nat
            BY <1>1
        <3> HIDE DEF Bad
        <3> QED
            BY <3>1, LeastNat
    <2>2. n \in 0..v /\ n \in Nat
        BY <1>1, <2>1
    <2>3. PICK g : \A o \in 0..n-1 : g[o]
              = (IF f[o+1].type = "l" THEN {1} ELSE {h + 1 : h \in U(o, g)})
        <3>1. CASE n = 0
            BY <3>1
        <3>2. CASE n # 0
            <4>1. n-1 \in 0..v /\ ~(n <= n-1)
                BY ONLY <1>1, <2>2, <3>2
            <4>2. n-1 \notin Bad
                <5> HIDE DEF Bad
                <5> QED
                    BY <2>1, <4>1
            <4>3. \E g : g = Body(n-1, g)
                BY <4>1, <4>2
            <4> QED
                BY <4>3
        <3> QED
            BY <3>1, <3>2
    <2> DEFINE e == [o \in 0..n |-> (IF f[o+1].type = "l" THEN {1} ELSE {h + 1 : h \in U(o, g)})]
    <2>4. \A o \in 0..n-1 : g[o] = e[o]
        <3>1. \A o \in 0..n : e[o] = (IF f[o+1].type = "l" THEN {1} ELSE {h + 1 : h \in U(o, g)})
            OBVIOUS
        <3> HIDE DEF e
        <3>2. \A o \in 0..n-1 : o \in 0..n
            BY <2>2
        <3> QED
            BY <2>3, <3>1, <3>2
    <2>5. \A o \in 0..n : U(o, g) = U(o, e)
        <3> HIDE DEF e
        <3> QED
            BY <1>3, <2>2, <2>4
    <2>6. e = Body(n, e)
        <3>1. \A o \in 0..n : (IF f[o+1].type = "l" THEN {1} ELSE {h + 1 : h \in U(o, g)})
                  = (IF f[o+1].type = "l" THEN {1} ELSE {h + 1 : h \in U(o, e)})
            <4> HIDE DEF e
            <4> QED
                BY <2>5
        <3> QED
            BY <3>1
    <2>7. n \notin Bad
        BY <2>6
    <2> QED
        BY <2>1, <2>7
<1>5. below = Body(v, below)
    <2>1. below = CHOOSE g : g = Body(v, g)
        BY Zenon
    <2> HIDE DEF below
    <2>2. v \in 0..v
        BY <1>1
    <2>3. \E g : g = Body(v, g)
        BY <1>4, <2>2
    <2> HIDE DEF Body
    <2> QED
        BY <2>1, <2>3, Zenon
<1> HIDE DEF below
<1>6. \A o \in 0..v : below[o] = (IF f[o+1].type = "l" THEN {1} ELSE {h + 1 : h \in U(o, below)})
    BY <1>5
<1> DEFINE Good(o) == \A x \in below[o] : x = L[o].h
           Worse == {o \in DOMAIN L : o <= v /\ ~Good(o)}
<1>7. Worse = {}
    <2> SUFFICES ASSUME Worse # {}
                 PROVE  FALSE
        OBVIOUS
    <2>1. PICK o \in Worse : \A m \in Worse : o <= m
        <3>1. Worse \subseteq Nat
            BY LabelledIs
        <3> HIDE DEF Worse
        <3> QED
            BY <3>1, LeastNat
    <2>2. o \in DOMAIN L /\ o \in Nat /\ o \in 0..v
        BY <1>1, <2>1, LabelledIs
    <2>3. \A i \in DOMAIN K(o) : Good(K(o)[i])
        <3> SUFFICES ASSUME NEW i \in DOMAIN K(o)
                     PROVE  Good(K(o)[i])
            OBVIOUS
        <3> DEFINE c == K(o)[i]
        <3>1. c \in DOMAIN L /\ c \in Nat /\ c < o
            BY <1>2, <2>2
        <3> HIDE DEF c
        <3>2. c <= v /\ ~(o <= c)
            BY <1>1, <2>2, <3>1
        <3>3. Good(c)
            BY <2>1, <3>1, <3>2
        <3> QED
            BY <3>3 DEF c
    <2>4. Good(o)
        <3>1. CASE f[o+1].type = "l"
            <4>1. L[o] = LabelOf(L, f[o+1])
                BY <2>2, LabelledIs
            <4>2. L[o].h = 1
                BY <3>1, <4>1 DEF LabelOf
            <4>3. below[o] = {1}
                BY <1>6, <2>2, <3>1
            <4> QED
                BY <4>2, <4>3
        <3>2. CASE f[o+1].type # "l"
            <4>1. below[o] = {h + 1 : h \in U(o, below)}
                BY <1>6, <2>2, <3>2
            <4> SUFFICES ASSUME NEW x \in below[o]
                         PROVE  x = L[o].h
                OBVIOUS
            <4>2. PICK h \in U(o, below) : x = h + 1
                BY <4>1
            <4>3. PICK i \in DOMAIN K(o) : h \in below[K(o)[i]]
                BY DEF U
            <4>4. h = L[K(o)[i]].h
                BY <2>3, <4>3
            <4>5. L[K(o)[i]].h + 1 = L[o].h
                BY <1>2, <2>2
            <4> QED
                BY <4>2, <4>4, <4>5
        <3> QED
            BY <3>1, <3>2
    <2> QED
        BY <2>1, <2>4
<1>8. Good(v)
    BY <1>1, <1>7
<1>9. Heights(f, v) = IF v = 0 THEN {} ELSE below[v]
    BY DEF Heights, below, U, K
<1> QED
    BY <1>8, <1>9

(* TreeShape: the nodes a version reaches are in the file, behind their     *)
(* children, as full as they may be and equally deep on all sides, for     *)
(* every node size.                                                        *)
THEOREM ShapeRight == Spec => []TreeShape
<1>1. TreeInv => TreeShape
    <2> SUFFICES ASSUME TreeInv
                 PROVE  TreeShape
        OBVIOUS
    <2>1. PICK L : Labelled(L, file) /\ Represents(L, ver, want)
        BY DEF TreeInv
    <2>2. ver # 0 => ver \in DOMAIN L
        BY <2>1 DEF Represents
    <2>3. TypeOK
        <3>1. file \in Seq(NodeType)
            BY <2>1 DEF Labelled
        <3>2. ver # 0 => ver \in 0..Len(file)-1
            <4>1. ver \in DOMAIN L => ver \in Nat /\ ver < Len(file) /\ Len(file) \in Nat
                BY <2>1, LabelledIs
            <4> QED
                BY <2>2, <4>1
        <3> QED
            BY <3>1, <3>2 DEF TypeOK, TreeInv
    <2>4. \A o \in Reach(file, ver) : o \in DOMAIN L /\ (o = ver \/ L[o].recs # {})
        <3>1. CASE ver = 0
            BY <3>1 DEF Reach
        <3>2. CASE ver # 0
            BY <2>1, <2>2, <3>2, ReachIs
        <3> QED
            BY <3>1, <3>2
    <2>5. OffsetsPointBack
        BY <2>1, <2>4, LabelledIs DEF OffsetsPointBack
    <2>6. NodesWithinSize
        <3> SUFFICES ASSUME NEW o \in Reach(file, ver)
                     PROVE  LET node == file[o+1]
                            IN  IF node.type = "l"
                                THEN Len(node.recs) \in (IF o = ver THEN 0 ELSE 1)..MAX_NODE_SIZE
                                ELSE /\ Len(node.offs) \in 1..MAX_NODE_SIZE-1
                                     /\ Len(node.keys) = Len(node.offs) - 1
            BY DEF NodesWithinSize
        <3> DEFINE node == file[o+1]
        <3>1. NodeOK(L, node) /\ L[o] = LabelOf(L, node) /\ (o = ver \/ L[o].recs # {})
            BY <2>1, <2>4, LabelledIs
        <3> HIDE DEF node
        <3>2. CASE node.type = "l" /\ LeafOK(node)
            <4>1. node.recs \in Seq(Record) /\ Len(node.recs) <= MAX_NODE_SIZE
                BY <3>2 DEF LeafOK
            <4>2. L[o].recs # {} => Len(node.recs) # 0
                BY <3>1, <3>2, <4>1 DEF LabelOf, RecordSet
            <4>3. Len(node.recs) \in Nat
                BY <4>1
            <4>4. Len(node.recs) \in (IF o = ver THEN 0 ELSE 1)..MAX_NODE_SIZE
                BY <3>1, <4>1, <4>2, <4>3, TreeAssumption
            <4> QED
                BY <3>2, <4>4 DEF node
        <3>3. CASE node.type = "b" /\ BranchOK(L, node)
            <4>1. node.type # "l" /\ Len(node.offs) \in 1..MAX_NODE_SIZE-1 /\ Len(node.keys) = Len(node.offs) - 1
                BY <3>3 DEF BranchOK
            <4> QED
                BY <4>1 DEF node
        <3> QED
            BY <3>1, <3>2, <3>3, NodeIs
    <2>7. Balanced
        <3>1. CASE ver = 0
            BY <3>1 DEF Heights, Balanced
        <3>2. CASE ver # 0
            <4>1. Heights(file, ver) \subseteq {L[ver].h}
                BY <2>1, <2>2, <3>2, HeightsAre
            <4> QED
                BY <4>1 DEF Balanced
        <3> QED
            BY <3>1, <3>2
    <2> QED
        BY <2>3, <2>5, <2>6, <2>7 DEF TreeShape
<1> QED
    BY <1>1, TreeInvInvariant, PTL

-----------------------------------------------------------------------------
(* The records of a version, one behind the other.                         *)

(* Records in order, put behind records that are all before them.          *)
LEMMA CatSorted ==
    ASSUME NEW a \in Seq(Record), Sorted(a), NEW b \in Seq(Record), Sorted(b),
           \A r \in RecordSet(a), s \in RecordSet(b) : r.key < s.key
    PROVE  /\ a \o b \in Seq(Record) /\ Sorted(a \o b)
           /\ RecordSet(a \o b) = RecordSet(a) \cup RecordSet(b)
<1> DEFINE d == a \o b
<1>1. /\ d \in Seq(Record) /\ Len(a) \in Nat /\ Len(b) \in Nat /\ Len(d) = Len(a) + Len(b)
      /\ DOMAIN d = 1..Len(a)+Len(b) /\ DOMAIN a = 1..Len(a) /\ DOMAIN b = 1..Len(b)
      /\ \A k \in 1..Len(a) : d[k] = a[k]
      /\ \A k \in 1..Len(b) : d[Len(a)+k] = b[k]
    OBVIOUS
<1> HIDE DEF d
<1>2. \A k \in DOMAIN d : \/ k \in DOMAIN a /\ d[k] = a[k]
                          \/ k-Len(a) \in DOMAIN b /\ d[k] = b[k-Len(a)]
    <2> SUFFICES ASSUME NEW k \in 1..Len(a)+Len(b), k \notin 1..Len(a)
                 PROVE  k-Len(a) \in 1..Len(b) /\ d[k] = b[k-Len(a)]
        BY <1>1
    <2>1. PICK j \in 1..Len(b) : k = Len(a)+j /\ j = k-Len(a)
        <3>1. k-Len(a) \in 1..Len(b) /\ k = Len(a)+(k-Len(a))
            BY <1>1
        <3> QED
            BY <3>1
    <2> QED
        BY <1>1, <2>1
<1>3. Sorted(d)
    <2> SUFFICES ASSUME NEW i \in DOMAIN d, NEW j \in DOMAIN d, i < j
                 PROVE  d[i].key < d[j].key
        BY DEF Sorted
    <2>1. CASE i \in DOMAIN a /\ j \in DOMAIN a
        BY <1>1, <2>1 DEF Sorted
    <2>2. CASE i \in DOMAIN a /\ d[i] = a[i] /\ j-Len(a) \in DOMAIN b /\ d[j] = b[j-Len(a)]
        BY <2>2 DEF RecordSet
    <2>3. CASE i-Len(a) \in DOMAIN b /\ j-Len(a) \in DOMAIN b /\ d[i] = b[i-Len(a)] /\ d[j] = b[j-Len(a)]
        <3>1. i-Len(a) < j-Len(a)
            BY <1>1
        <3> QED
            BY <2>3, <3>1 DEF Sorted
    <2>4. i \notin DOMAIN a => j \notin DOMAIN a
        BY <1>1
    <2> QED
        BY <1>2, <2>1, <2>2, <2>3, <2>4
<1>4. RecordSet(d) \subseteq RecordSet(a) \cup RecordSet(b)
    BY <1>2 DEF RecordSet
<1>5. RecordSet(a) \subseteq RecordSet(d)
    BY <1>1 DEF RecordSet
<1>6. RecordSet(b) \subseteq RecordSet(d)
    <2> SUFFICES ASSUME NEW k \in DOMAIN b
                 PROVE  b[k] \in RecordSet(d)
        BY DEF RecordSet
    <2>1. k \in 1..Len(b)
        BY <1>1
    <2>2. Len(a)+k \in 1..Len(a)+Len(b)
        BY <1>1, <2>1
    <2> QED
        BY <1>1, <2>1, <2>2 DEF RecordSet
<1> QED
    BY <1>1, <1>3, <1>4, <1>5, <1>6 DEF d

(* Any number of sequences of records, each before the next.               *)
LEMMA FlattenSorted ==
    ASSUME NEW seqs \in Seq(Seq(Record)), \A i \in DOMAIN seqs : Sorted(seqs[i]),
           \A i, j \in DOMAIN seqs : i < j =>
              \A r \in RecordSet(seqs[i]), s \in RecordSet(seqs[j]) : r.key < s.key
    PROVE  /\ FlattenSeq(seqs) \in Seq(Record) /\ Sorted(FlattenSeq(seqs))
           /\ RecordSet(FlattenSeq(seqs)) = UNION {RecordSet(seqs[i]) : i \in DOMAIN seqs}
<1> DEFINE len == Len(seqs)
           flatten[i \in 1..len] == IF i = 1 THEN seqs[i] ELSE flatten[i-1] \o seqs[i]
           Body(n, g) == [i \in 1..n |-> IF i = 1 THEN seqs[i] ELSE g[i-1] \o seqs[i]]
           Upto(n) == UNION {RecordSet(seqs[i]) : i \in 1..n}
<1>1. len \in Nat /\ DOMAIN seqs = 1..len /\ \A i \in 1..len : seqs[i] \in Seq(Record)
    OBVIOUS
<1>2. CASE len = 0
    <2>1. FlattenSeq(seqs) = seqs /\ seqs = <<>> /\ DOMAIN seqs = {}
        BY <1>1, <1>2 DEF FlattenSeq
    <2>2. <<>> \in Seq(Record) /\ Sorted(<<>>) /\ RecordSet(<<>>) = {}
        BY DEF Sorted, RecordSet
    <2> QED
        BY <2>1, <2>2
<1>3. CASE len # 0
    <2>1. FlattenSeq(seqs) = flatten[len]
        BY <1>3 DEF FlattenSeq
    <2> HIDE DEF len
    <2>2. \A n \in 0..len : \E g : g = Body(n, g)
        <3> DEFINE Bad == {n \in 0..len : ~\E g : g = Body(n, g)}
        <3> SUFFICES ASSUME Bad # {}
                     PROVE  FALSE
            OBVIOUS
        <3>1. PICK n \in Bad : \A m \in Bad : n <= m
            <4>1. Bad \subseteq Nat
                <5>1. 0..len \subseteq Nat
                    BY ONLY <1>1
                <5> HIDE DEF Body
                <5> QED
                    BY ONLY <5>1
            <4> HIDE DEF Bad
            <4> QED
                BY <4>1, LeastNat
        <3>2. n \in 0..len /\ n \in Nat
            BY <1>1, <3>1
        <3>3. PICK g : \A i \in 1..n-1 : g[i] = IF i = 1 THEN seqs[i] ELSE g[i-1] \o seqs[i]
            <4>1. CASE n = 0
                BY <4>1
            <4>2. CASE n # 0
                <5>1. n-1 \in 0..len /\ ~(n <= n-1)
                    BY ONLY <1>1, <3>2, <4>2
                <5>2. n-1 \notin Bad
                    <6> HIDE DEF Bad
                    <6> QED
                        BY <3>1, <5>1
                <5>3. \E g : g = Body(n-1, g)
                    BY <5>1, <5>2
                <5> QED
                    BY <5>3
            <4> QED
                BY <4>1, <4>2
        <3> DEFINE e == [i \in 1..n |-> IF i = 1 THEN seqs[i] ELSE g[i-1] \o seqs[i]]
        <3>4. \A i \in 1..n : i # 1 => e[i-1] = g[i-1]
            <4>1. \A i \in 1..n : e[i] = IF i = 1 THEN seqs[i] ELSE g[i-1] \o seqs[i]
                OBVIOUS
            <4> HIDE DEF e
            <4>2. ASSUME NEW i \in 1..n, i # 1
                  PROVE  i-1 \in 1..n-1 /\ i-1 \in 1..n
                BY <3>2, <4>2
            <4> QED
                BY <3>3, <4>1, <4>2
        <3>5. e = Body(n, e)
            <4>1. \A i \in 1..n : (IF i = 1 THEN seqs[i] ELSE g[i-1] \o seqs[i])
                                  = (IF i = 1 THEN seqs[i] ELSE e[i-1] \o seqs[i])
                <5> HIDE DEF e
                <5> QED
                    BY <3>4
            <4> QED
                BY <4>1
        <3>6. n \notin Bad
            BY <3>5
        <3> QED
            BY <3>1, <3>6
    <2>3. flatten = Body(len, flatten)
        <3>1. flatten = CHOOSE g : g = Body(len, g)
            BY Zenon
        <3> HIDE DEF flatten
        <3>2. len \in 0..len
            BY <1>1
        <3>3. \E g : g = Body(len, g)
            BY <2>2, <3>2
        <3> HIDE DEF Body
        <3> QED
            BY <3>1, <3>3, Zenon
    <2> HIDE DEF flatten
    <2>4. \A i \in 1..len : flatten[i] = IF i = 1 THEN seqs[i] ELSE flatten[i-1] \o seqs[i]
        BY <2>3
    <2> DEFINE Good(i) == /\ flatten[i] \in Seq(Record) /\ Sorted(flatten[i])
                          /\ RecordSet(flatten[i]) = Upto(i)
               Bad == {i \in 1..len : ~Good(i)}
    <2>5. Bad = {}
        <3> SUFFICES ASSUME Bad # {}
                     PROVE  FALSE
            OBVIOUS
        <3>1. PICK n \in Bad : \A m \in Bad : n <= m
            <4>1. Bad \subseteq Nat
                <5> HIDE DEF Good
                <5> QED
                    BY <1>1
            <4> HIDE DEF Bad
            <4> QED
                BY <4>1, LeastNat
        <3>2. n \in 1..len
            BY <3>1
        <3>3. CASE n = 1
            <4>1. flatten[1] = seqs[1]
                BY <2>4, <3>2, <3>3
            <4>2. Upto(1) = RecordSet(seqs[1])
                OBVIOUS
            <4> HIDE DEF Upto
            <4> QED
                BY <1>1, <3>1, <3>2, <3>3, <4>1, <4>2
        <3>4. CASE n # 1
            <4> DEFINE a == flatten[n-1]
                       b == seqs[n]
            <4>1. n-1 \in 1..len /\ ~(n <= n-1)
                BY ONLY <1>1, <3>2, <3>4
            <4>2. n-1 \notin Bad
                <5> HIDE DEF Bad
                <5> QED
                    BY <3>1, <4>1
            <4>3. a \in Seq(Record) /\ Sorted(a) /\ RecordSet(a) = Upto(n-1)
                BY <4>1, <4>2
            <4>4. b \in Seq(Record) /\ Sorted(b)
                BY <1>1, <3>2
            <4>5. \A r \in RecordSet(a), s \in RecordSet(b) : r.key < s.key
                <5> SUFFICES ASSUME NEW r \in Upto(n-1), NEW s \in RecordSet(b)
                             PROVE  r.key < s.key
                    BY <4>3
                <5>1. PICK i \in 1..n-1 : r \in RecordSet(seqs[i])
                    OBVIOUS
                <5>2. i \in 1..len /\ i < n
                    BY ONLY <1>1, <3>2, <5>1
                <5> QED
                    BY <1>1, <3>2, <5>1, <5>2
            <4>6. flatten[n] = a \o b
                BY <2>4, <3>2, <3>4
            <4>7. Upto(n) = Upto(n-1) \cup RecordSet(b)
                <5>1. 1..n = (1..n-1) \cup {n}
                    BY ONLY <1>1, <3>2
                <5>2. \A r : r \in Upto(n) <=> \E i \in 1..n : r \in RecordSet(seqs[i])
                    OBVIOUS
                <5>3. \A r : r \in Upto(n-1) <=> \E i \in 1..n-1 : r \in RecordSet(seqs[i])
                    OBVIOUS
                <5> HIDE DEF Upto
                <5> QED
                    BY <5>1, <5>2, <5>3
            <4> HIDE DEF a, b, Upto
            <4>8. Good(n)
                BY <4>3, <4>4, <4>5, <4>6, <4>7, CatSorted
            <4> QED
                BY <3>1, <4>8
        <3> QED
            BY <3>3, <3>4
    <2>6. Good(len)
        <3>1. len \in 1..len
            BY <1>1, <1>3
        <3> QED
            BY <2>5, <3>1
    <2> QED
        BY <1>1, <2>1, <2>6
<1> QED
    BY <1>2, <1>3

(* The records below two children of a branch are apart.                   *)
LEMMA KidsApart ==
    ASSUME NEW L, Labels(L), NEW node, BranchOK(L, node),
           NEW i \in DOMAIN node.offs, NEW j \in DOMAIN node.offs, i < j,
           NEW r \in L[node.offs[i]].recs, NEW s \in L[node.offs[j]].recs
    PROVE  r.key < s.key
<1>1. /\ DOMAIN node.offs = 1..Len(node.offs) /\ Len(node.offs) \in Nat
      /\ DOMAIN node.keys = 1..Len(node.offs)-1 /\ node.offs \in Seq(DOMAIN L)
    BY DEF BranchOK
<1>2. i \in DOMAIN node.keys
    BY <1>1
<1>3. ~(j <= i) /\ i <= i
    BY <1>1
<1>4. r.key < node.keys[i] /\ node.keys[i] <= s.key
    BY <1>2, <1>3 DEF BranchOK
<1>5. r.key \in Nat /\ s.key \in Nat
    <2>1. node.offs[i] \in DOMAIN L /\ node.offs[j] \in DOMAIN L
        BY <1>1
    <2> QED
        BY <2>1, KeysAreNats
<1>6. node.keys[i] \in Nat
    <2>1. node.keys[i] \in Key
        BY <1>2 DEF BranchOK
    <2> QED
        BY <2>1, KeysAreNats
<1> QED
    BY <1>4, <1>5, <1>6

(* The records of a version are those of its label, in key order and once   *)
(* each.                                                                   *)
LEMMA RecordsAre ==
    ASSUME NEW L, NEW f, Labelled(L, f), NEW v \in DOMAIN L
    PROVE  LET recs == Records(f, v) IN
           recs \in Seq(Record) /\ Sorted(recs) /\ (v # 0 => RecordSet(recs) = L[v].recs)
<1> DEFINE K(o) == f[o+1].offs
           U(o, g) == [i \in DOMAIN K(o) |-> g[K(o)[i]]]
           below[o \in 0..v] == f[o+1].recs \o FlattenSeq(U(o, below))
           Body(n, g) == [o \in 0..n |-> f[o+1].recs \o FlattenSeq(U(o, g))]
<1>1. v \in Nat /\ v < Len(f) /\ Len(f) \in Nat
    BY LabelledIs
<1>2. \A o \in 0..v : \A i \in DOMAIN K(o) :
          /\ o \in DOMAIN L /\ f[o+1].type = "b" /\ K(o)[i] \in DOMAIN L
          /\ K(o)[i] \in Nat /\ K(o)[i] < o
          /\ L[K(o)[i]].recs # {} /\ L[K(o)[i]].h + 1 = L[o].h
    BY ChildrenAre
<1> HIDE DEF K
<1>3. ASSUME NEW n \in 0..v, NEW g, NEW e, \A o \in 0..n-1 : g[o] = e[o], NEW o \in 0..n
      PROVE  U(o, g) = U(o, e)
    <2>1. \A i \in DOMAIN K(o) : g[K(o)[i]] = e[K(o)[i]]
        <3>1. ASSUME NEW i \in DOMAIN K(o)
              PROVE  K(o)[i] \in 0..n-1
            <4>1. K(o)[i] \in Nat /\ K(o)[i] < o
                BY <1>1, <1>2, <1>3
            <4> DEFINE c == K(o)[i]
            <4> HIDE DEF c
            <4>2. c \in Nat /\ c < o
                BY <4>1 DEF c
            <4>3. c \in 0..n-1
                BY <1>1, <1>3, <4>2
            <4> QED
                BY <4>3 DEF c
        <3> QED
            BY <1>3, <3>1
    <2> QED
        BY <2>1
<1> HIDE DEF U
<1>4. \A n \in 0..v : \E g : g = Body(n, g)
    <2> DEFINE Bad == {n \in 0..v : ~\E g : g = Body(n, g)}
    <2> SUFFICES ASSUME Bad # {}
                 PROVE  FALSE
        OBVIOUS
    <2>1. PICK n \in Bad : \A m \in Bad : n <= m
        <3>1. Bad \subseteq Nat
            BY <1>1
        <3> HIDE DEF Bad
        <3> QED
            BY <3>1, LeastNat
    <2>2. n \in 0..v /\ n \in Nat
        BY <1>1, <2>1
    <2>3. PICK g : \A o \in 0..n-1 : g[o] = f[o+1].recs \o FlattenSeq(U(o, g))
        <3>1. CASE n = 0
            BY <3>1
        <3>2. CASE n # 0
            <4>1. n-1 \in 0..v /\ ~(n <= n-1)
                BY ONLY <1>1, <2>2, <3>2
            <4>2. n-1 \notin Bad
                <5> HIDE DEF Bad
                <5> QED
                    BY <2>1, <4>1
            <4>3. \E g : g = Body(n-1, g)
                BY <4>1, <4>2
            <4> QED
                BY <4>3
        <3> QED
            BY <3>1, <3>2
    <2> DEFINE e == [o \in 0..n |-> f[o+1].recs \o FlattenSeq(U(o, g))]
    <2>4. \A o \in 0..n-1 : g[o] = e[o]
        <3>1. \A o \in 0..n : e[o] = f[o+1].recs \o FlattenSeq(U(o, g))
            OBVIOUS
        <3> HIDE DEF e
        <3>2. \A o \in 0..n-1 : o \in 0..n
            BY <2>2
        <3> QED
            BY <2>3, <3>1, <3>2
    <2>5. \A o \in 0..n : U(o, g) = U(o, e)
        <3> HIDE DEF e
        <3> QED
            BY <1>3, <2>2, <2>4
    <2>6. e = Body(n, e)
        <3>1. \A o \in 0..n : f[o+1].recs \o FlattenSeq(U(o, g)) = f[o+1].recs \o FlattenSeq(U(o, e))
            <4> HIDE DEF e
            <4> QED
                BY <2>5
        <3> QED
            BY <3>1
    <2>7. n \notin Bad
        BY <2>6
    <2> QED
        BY <2>1, <2>7
<1>5. below = Body(v, below)
    <2>1. below = CHOOSE g : g = Body(v, g)
        BY Zenon
    <2> HIDE DEF below
    <2>2. v \in 0..v
        BY <1>1
    <2>3. \E g : g = Body(v, g)
        BY <1>4, <2>2
    <2> HIDE DEF Body
    <2> QED
        BY <2>1, <2>3, Zenon
<1> HIDE DEF below
<1>6. \A o \in 0..v : below[o] = f[o+1].recs \o FlattenSeq(U(o, below))
    BY <1>5
<1> DEFINE Good(o) == /\ below[o] \in Seq(Record) /\ Sorted(below[o])
                      /\ RecordSet(below[o]) = L[o].recs
           Worse == {o \in DOMAIN L : o <= v /\ ~Good(o)}
<1>7. Worse = {}
    <2> SUFFICES ASSUME Worse # {}
                 PROVE  FALSE
        OBVIOUS
    <2>1. PICK o \in Worse : \A m \in Worse : o <= m
        <3>1. Worse \subseteq Nat
            BY LabelledIs
        <3> HIDE DEF Worse
        <3> QED
            BY <3>1, LeastNat
    <2>2. o \in DOMAIN L /\ o \in Nat /\ o \in 0..v
        BY <1>1, <2>1, LabelledIs
    <2>3. \A i \in DOMAIN K(o) : Good(K(o)[i])
        <3> SUFFICES ASSUME NEW i \in DOMAIN K(o)
                     PROVE  Good(K(o)[i])
            OBVIOUS
        <3> DEFINE c == K(o)[i]
        <3>1. c \in DOMAIN L /\ c \in Nat /\ c < o
            BY <1>2, <2>2
        <3> HIDE DEF c
        <3>2. c <= v /\ ~(o <= c)
            BY <1>1, <2>2, <3>1
        <3>3. Good(c)
            BY <2>1, <3>1, <3>2
        <3> QED
            BY <3>3 DEF c
    <2>4. Good(o)
        <3> DEFINE node == f[o+1]
                   kids == U(o, below)
        <3>1. NodeOK(L, node) /\ L[o] = LabelOf(L, node)
            BY <2>2, LabelledIs
        <3>2. below[o] = node.recs \o FlattenSeq(kids)
            BY <1>6, <2>2
        <3>3. kids = [i \in DOMAIN node.offs |-> below[node.offs[i]]]
            BY DEF U, K
        <3>4. \A i \in DOMAIN node.offs : Good(node.offs[i])
            BY <2>3 DEF K
        <3> HIDE DEF node, kids
        <3>5. CASE node.type = "l" /\ LeafOK(node) /\ node.offs = <<>>
            <4>1. kids = <<>>
                BY <3>3, <3>5
            <4>2. FlattenSeq(kids) = <<>>
                BY <4>1 DEF FlattenSeq
            <4>3. node.recs \in Seq(Record) /\ Sorted(node.recs) /\ RecordSet(node.recs) = L[o].recs
                BY <3>1, <3>5 DEF LeafOK, LabelOf
            <4>4. below[o] = node.recs
                BY <3>2, <4>2, <4>3
            <4> QED
                BY <4>3, <4>4
        <3>6. CASE node.type = "b" /\ BranchOK(L, node)
            <4>1. /\ node.offs \in Seq(DOMAIN L) /\ Len(node.offs) \in Nat /\ DOMAIN node.offs = 1..Len(node.offs)
                  /\ node.recs = <<>> /\ \A i \in DOMAIN node.offs : node.offs[i] \in DOMAIN L
                BY <3>6 DEF BranchOK, Branch
            <4>2. /\ kids \in Seq(Seq(Record)) /\ DOMAIN kids = DOMAIN node.offs
                  /\ \A i \in DOMAIN kids : /\ Sorted(kids[i])
                                            /\ RecordSet(kids[i]) = L[node.offs[i]].recs
                <5>1. \A i \in 1..Len(node.offs) : kids[i] \in Seq(Record)
                    BY <3>3, <3>4, <4>1
                <5>2. kids = [i \in 1..Len(node.offs) |-> kids[i]]
                    BY <3>3, <4>1
                <5>3. kids \in Seq(Seq(Record))
                    BY ONLY <4>1, <5>1, <5>2, IsSeq
                <5> QED
                    BY <3>3, <3>4, <5>3
            <4>3. \A i, j \in DOMAIN kids : i < j =>
                     \A r \in RecordSet(kids[i]), s \in RecordSet(kids[j]) : r.key < s.key
                <5> SUFFICES ASSUME NEW i \in DOMAIN kids, NEW j \in DOMAIN kids, i < j,
                                    NEW r \in RecordSet(kids[i]), NEW s \in RecordSet(kids[j])
                             PROVE  r.key < s.key
                    OBVIOUS
                <5>1. Labels(L) /\ BranchOK(L, node)
                    BY <3>6, LabelledIs
                <5>2. /\ i \in DOMAIN node.offs /\ j \in DOMAIN node.offs
                      /\ r \in L[node.offs[i]].recs /\ s \in L[node.offs[j]].recs
                    BY <4>2
                <5> QED
                    BY ONLY <5>1, <5>2, i < j, KidsApart
            <4>4. /\ FlattenSeq(kids) \in Seq(Record) /\ Sorted(FlattenSeq(kids))
                  /\ RecordSet(FlattenSeq(kids)) = UNION {RecordSet(kids[i]) : i \in DOMAIN kids}
                BY <4>2, <4>3, FlattenSorted
            <4>5. below[o] = FlattenSeq(kids)
                BY <3>2, <4>1, <4>4
            <4>6. L[o].recs = UNION {L[node.offs[i]].recs : i \in DOMAIN node.offs}
                BY <3>1, <3>6 DEF LabelOf
            <4>7. UNION {RecordSet(kids[i]) : i \in DOMAIN kids}
                    = UNION {L[node.offs[i]].recs : i \in DOMAIN node.offs}
                BY <4>2
            <4> QED
                BY <4>4, <4>5, <4>6, <4>7
        <3> QED
            BY <3>1, <3>5, <3>6, NodeIs
    <2> QED
        BY <2>1, <2>4
<1>8. Good(v)
    BY <1>1, <1>7
<1>9. Records(f, v) = IF v = 0 THEN <<>> ELSE below[v]
    BY DEF Records, below, U, K
<1>10. <<>> \in Seq(Record) /\ Sorted(<<>>)
    BY DEF Sorted
<1> QED
    BY <1>8, <1>9, <1>10

(* RecordsAreTheMap: the leaves hold each key of the map once and in order, *)
(* and no other, whatever was split, emptied or dropped.                   *)
THEOREM RecordsRight == Spec => []RecordsAreTheMap
<1>1. TreeInv => RecordsAreTheMap
    <2> SUFFICES ASSUME TreeInv
                 PROVE  RecordsAreTheMap
        OBVIOUS
    <2> DEFINE recs == Records(file, ver)
    <2>1. PICK L : Labelled(L, file) /\ Represents(L, ver, want)
        BY DEF TreeInv
    <2>2. recs \in Seq(Record) /\ Sorted(recs) /\ RecordSet(recs) = RecordsOf(want)
        <3>1. CASE ver = 0
            <4>1. recs = <<>> /\ RecordsOf(want) = {}
                BY <2>1, <3>1 DEF Records, Represents, RecordsOf
            <4> HIDE DEF recs
            <4> QED
                BY <4>1 DEF Sorted, RecordSet
        <3>2. CASE ver # 0
            <4>1. ver \in DOMAIN L /\ L[ver].recs = RecordsOf(want)
                BY <2>1, <3>2 DEF Represents
            <4> QED
                BY <2>1, <3>2, <4>1, RecordsAre
        <3> QED
            BY <3>1, <3>2
    <2> HIDE DEF recs
    <2>3. ASSUME NEW i \in DOMAIN recs
          PROVE  recs[i].key \in {key \in Key : want[key] # NULL}
        <3>1. recs[i] \in RecordsOf(want)
            BY <2>2 DEF RecordSet
        <3> QED
            BY <3>1 DEF RecordsOf, Rec
    <2>4. ASSUME NEW key \in Key, want[key] # NULL
          PROVE  \E i \in DOMAIN recs : recs[i].key = key
        <3>1. Rec(key, want[key]) \in RecordsOf(want)
            BY <2>4 DEF RecordsOf
        <3>2. PICK i \in DOMAIN recs : recs[i] = Rec(key, want[key])
            BY <2>2, <3>1 DEF RecordSet
        <3> QED
            BY <3>2 DEF Rec
    <2>5. {recs[i].key : i \in DOMAIN recs} = {key \in Key : want[key] # NULL}
        BY <2>3, <2>4
    <2> QED
        BY <2>2, <2>5 DEF RecordsAreTheMap, Sorted, recs
<1> QED
    BY <1>1, TreeInvInvariant, PTL

-----------------------------------------------------------------------------
(* Iterators.                                                              *)

EntryOf(L) == [node : DOMAIN L, n : Nat]

(* The records of its subtree that are behind a position.                  *)
After(L, f, e) ==
    LET node == f[e.node + 1]
    IN  IF node.type = "l"
        THEN {node.recs[i] : i \in {j \in DOMAIN node.recs : j > e.n}}
        ELSE UNION {L[node.offs[i]].recs : i \in {j \in DOMAIN node.offs : j > e.n + 1}}

(* What an iterator at p is yet to return.                                 *)
LeftOf(L, f, p) == UNION {After(L, f, p[k]) : k \in DOMAIN p}

(* A path goes from v through branches to a position in a leaf.            *)
Through(f, e, c) ==
    LET node == f[e.node + 1]
    IN  node.type = "b" /\ e.n + 1 \in DOMAIN node.offs /\ c = node.offs[e.n + 1]

PlaceOK(L, f, p, v) ==
    /\ p \in Seq(EntryOf(L)) /\ Len(p) >= 1 /\ p[1].node = v
    /\ \A k \in 1 .. Len(p) - 1 : Through(f, p[k], p[k + 1].node)
    /\ f[p[Len(p)].node + 1].type = "l"
    /\ p[Len(p)].n <= Len(f[p[Len(p)].node + 1].recs)

(* The position is before a record of the leaf.                            *)
BeforeRecord(f, p) == p[Len(p)].n < Len(f[p[Len(p)].node + 1].recs)

(* The iterator is at what is due.                                         *)
IterOK(L) ==
    /\ Represents(L, over, snap)
    /\ \/ path = <<>> /\ due = {}
       \/ /\ over # 0 /\ PlaceOK(L, file, path, over)
          /\ due = {r.key : r \in LeftOf(L, file, path)}

IterInv ==
    /\ TreeInv /\ over \in Nat /\ snap \in [Key -> Value \cup {NULL}] /\ answer = expect
    /\ \E L : Labelled(L, file) /\ Represents(L, ver, want) /\ IterOK(L)

-----------------------------------------------------------------------------
(* Leaves and branches in the file.                                        *)

(* A leaf holds the records of its label in key order.                     *)
LEMMA LeafCell ==
    ASSUME NEW L, NEW f, Labelled(L, f), NEW o \in DOMAIN L, f[o+1].type = "l"
    PROVE  /\ f[o+1].recs \in Seq(Record) /\ Sorted(f[o+1].recs)
           /\ L[o].recs = RecordSet(f[o+1].recs)
<1> DEFINE node == f[o+1]
<1>1. NodeOK(L, node) /\ L[o] = LabelOf(L, node) /\ node.type = "l"
    BY LabelledIs
<1> HIDE DEF node
<1>2. LeafOK(node)
    BY <1>1, NodeIs
<1>3. L[o].recs = RecordSet(node.recs)
    BY <1>1 DEF LabelOf
<1> QED
    BY <1>2, <1>3 DEF LeafOK, node

(* The children of a branch are nodes with records, those of the earlier   *)
(* before those of the later.                                              *)
LEMMA BranchCell ==
    ASSUME NEW L, NEW f, Labelled(L, f), NEW o \in DOMAIN L, f[o+1].type = "b"
    PROVE  LET offs == f[o+1].offs IN
           /\ DOMAIN offs = 1..Len(offs) /\ Len(offs) \in Nat /\ Len(offs) >= 1
           /\ Len(f[o+1].keys) = Len(offs) - 1
           /\ \A i \in DOMAIN offs : /\ offs[i] \in DOMAIN L /\ offs[i] \in Nat /\ offs[i] < o
                                     /\ L[offs[i]].recs # {}
           /\ L[o].recs = UNION {L[offs[i]].recs : i \in DOMAIN offs}
           /\ \A i, j \in DOMAIN offs : i < j =>
                \A r \in L[offs[i]].recs, s \in L[offs[j]].recs : r.key < s.key
<1> DEFINE node == f[o+1]
<1>1. NodeOK(L, node) /\ L[o] = LabelOf(L, node) /\ node.type = "b" /\ Labels(L)
    BY LabelledIs
<1>2. \A i \in DOMAIN node.offs : node.offs[i] < o
    BY LabelledIs
<1> HIDE DEF node
<1>3. BranchOK(L, node)
    BY <1>1, NodeIs
<1>4. /\ node.offs \in Seq(DOMAIN L) /\ Len(node.offs) \in 1..MAX_NODE_SIZE-1
      /\ Len(node.keys) = Len(node.offs) - 1
      /\ \A i \in DOMAIN node.offs : L[node.offs[i]].recs # {}
    BY <1>3 DEF BranchOK
<1>5. DOMAIN node.offs = 1..Len(node.offs) /\ Len(node.offs) \in Nat /\ Len(node.offs) >= 1
    BY <1>4
<1>6. \A i \in DOMAIN node.offs : node.offs[i] \in DOMAIN L /\ node.offs[i] \in Nat
    BY <1>1, <1>4 DEF Labels
<1>7. L[o].recs = UNION {L[node.offs[i]].recs : i \in DOMAIN node.offs}
    BY <1>1 DEF LabelOf
<1>8. \A i, j \in DOMAIN node.offs : i < j =>
         \A r \in L[node.offs[i]].recs, s \in L[node.offs[j]].recs : r.key < s.key
    BY <1>1, <1>3, KidsApart
<1> QED
    BY <1>2, <1>4, <1>5, <1>6, <1>7, <1>8 DEF node

(* What is behind a position is in its subtree.                            *)
LEMMA AfterBelow ==
    ASSUME NEW L, NEW f, Labelled(L, f), NEW e \in EntryOf(L)
    PROVE  After(L, f, e) \subseteq L[e.node].recs
<1> DEFINE o == e.node
<1>1. o \in DOMAIN L
    BY DEF EntryOf
<1>2. f[o+1].type \in {"l", "b"}
    BY <1>1, LabelledIs
<1> HIDE DEF o
<1>3. CASE f[o+1].type = "l"
    <2>1. L[o].recs = RecordSet(f[o+1].recs)
        BY <1>1, <1>3, LeafCell
    <2> QED
        BY <1>3, <2>1 DEF After, RecordSet, o
<1>4. CASE f[o+1].type = "b"
    <2>1. L[o].recs = UNION {L[f[o+1].offs[i]].recs : i \in DOMAIN f[o+1].offs}
        BY <1>1, <1>4, BranchCell
    <2> QED
        BY <1>4, <2>1 DEF After, o
<1> QED
    BY <1>2, <1>3, <1>4 DEF o

(* What is below the child the path goes through is below the branch, and  *)
(* before what is behind the position in the branch.                       *)
LEMMA ThroughIs ==
    ASSUME NEW L, NEW f, Labelled(L, f), NEW e \in EntryOf(L), NEW c, Through(f, e, c)
    PROVE  /\ c \in DOMAIN L /\ c \in Nat /\ c < e.node /\ L[c].recs # {}
           /\ L[c].recs \subseteq L[e.node].recs
           /\ \A r \in L[c].recs, s \in After(L, f, e) : r.key < s.key
<1> DEFINE o    == e.node
           offs == f[o+1].offs
           i    == e.n + 1
<1>1. o \in DOMAIN L /\ i \in Nat
    BY DEF EntryOf
<1>2. f[o+1].type = "b" /\ i \in DOMAIN offs /\ c = offs[i]
    BY DEF Through
<1>3. After(L, f, e) = UNION {L[offs[j]].recs : j \in {m \in DOMAIN offs : m > i}}
    BY <1>2 DEF After
<1>4. /\ \A j \in DOMAIN offs : offs[j] \in DOMAIN L /\ offs[j] \in Nat /\ offs[j] < o /\ L[offs[j]].recs # {}
      /\ L[o].recs = UNION {L[offs[j]].recs : j \in DOMAIN offs}
      /\ DOMAIN offs = 1..Len(offs) /\ Len(offs) \in Nat
      /\ \A j, m \in DOMAIN offs : j < m =>
           \A r \in L[offs[j]].recs, s \in L[offs[m]].recs : r.key < s.key
    <2> HIDE DEF o
    <2> QED
        BY <1>1, <1>2, BranchCell
<1> HIDE DEF offs, i, o
<1>5. ASSUME NEW r \in L[c].recs, NEW s \in After(L, f, e)
      PROVE  r.key < s.key
    <2>1. PICK j \in DOMAIN offs : j > i /\ s \in L[offs[j]].recs
        BY <1>3
    <2>2. i < j
        BY <1>1, <1>4, <2>1
    <2> QED
        BY <1>2, <1>4, <2>1, <2>2
<1> QED
    BY <1>2, <1>4, <1>5 DEF o

(* One more branch above a path.                                           *)
LEMMA PlaceExtended ==
    ASSUME NEW L, NEW f, NEW c, NEW p, PlaceOK(L, f, p, c), NEW e \in EntryOf(L), Through(f, e, c)
    PROVE  LET q == <<e>> \o p IN
           /\ PlaceOK(L, f, q, e.node) /\ LeftOf(L, f, q) = After(L, f, e) \cup LeftOf(L, f, p)
           /\ BeforeRecord(f, p) => BeforeRecord(f, q)
<1> DEFINE q == <<e>> \o p
           n == Len(p)
<1>1. /\ p \in Seq(EntryOf(L)) /\ n \in Nat /\ n >= 1 /\ p[1].node = c /\ DOMAIN p = 1..n
      /\ \A k \in 1..n-1 : Through(f, p[k], p[k+1].node)
      /\ f[p[n].node+1].type = "l" /\ p[n].n <= Len(f[p[n].node+1].recs)
    BY DEF PlaceOK
<1>2. /\ q \in Seq(EntryOf(L)) /\ Len(q) = n+1 /\ q[1] = e /\ DOMAIN q = 1..n+1
      /\ \A k \in 1..n : q[k+1] = p[k]
    BY <1>1
<1> HIDE DEF q, n
<1>3. \A k \in 2..n+1 : k-1 \in 1..n /\ q[k] = p[k-1]
    <2> SUFFICES ASSUME NEW k \in 2..n+1
                 PROVE  k-1 \in 1..n /\ q[k] = p[k-1]
        OBVIOUS
    <2>1. k-1 \in 1..n /\ (k-1)+1 = k
        BY <1>1
    <2> QED
        BY <1>2, <2>1
<1>4. ASSUME NEW k \in 1..(n+1)-1
      PROVE  Through(f, q[k], q[k+1].node)
    <2>1. CASE k = 1
        <3>1. q[1+1] = p[1]
            BY <1>1, <1>2
        <3> QED
            BY <1>1, <1>2, <2>1, <3>1
    <2>2. CASE k # 1
        <3>1. k \in 2..n+1 /\ k+1 \in 2..n+1 /\ k-1 \in 1..n-1 /\ (k+1)-1 = (k-1)+1
            BY <1>1, <2>2
        <3>2. q[k] = p[k-1] /\ q[k+1] = p[(k-1)+1]
            BY <1>3, <3>1
        <3> QED
            BY <1>1, <3>1, <3>2
    <2> QED
        BY <2>1, <2>2
<1>5. q[n+1] = p[n]
    BY <1>1, <1>2
<1>6. PlaceOK(L, f, q, e.node)
    BY <1>1, <1>2, <1>4, <1>5 DEF PlaceOK
<1>7. LeftOf(L, f, q) = After(L, f, e) \cup LeftOf(L, f, p)
    <2>1. ASSUME NEW r \in LeftOf(L, f, q)
          PROVE  r \in After(L, f, e) \cup LeftOf(L, f, p)
        <3>1. PICK k \in 1..n+1 : r \in After(L, f, q[k])
            BY <1>2 DEF LeftOf
        <3>2. CASE k = 1
            BY <1>2, <3>1, <3>2
        <3>3. CASE k # 1
            <4>1. k \in 2..n+1
                BY <1>1, <3>3
            <4> QED
                BY <1>1, <1>3, <3>1, <4>1 DEF LeftOf
        <3> QED
            BY <3>2, <3>3
    <2>2. After(L, f, e) \subseteq LeftOf(L, f, q)
        <3>1. 1 \in DOMAIN q
            BY <1>1, <1>2
        <3> QED
            BY <1>2, <3>1 DEF LeftOf
    <2>3. ASSUME NEW r \in LeftOf(L, f, p)
          PROVE  r \in LeftOf(L, f, q)
        <3>1. PICK k \in 1..n : r \in After(L, f, p[k])
            BY <1>1 DEF LeftOf
        <3>2. k+1 \in DOMAIN q
            BY <1>1, <1>2
        <3> QED
            BY <1>2, <3>1, <3>2 DEF LeftOf
    <2> QED
        BY <2>1, <2>2, <2>3
<1>8. BeforeRecord(f, p) => BeforeRecord(f, q)
    BY <1>2, <1>5 DEF BeforeRecord, n
<1> QED
    BY <1>6, <1>7, <1>8 DEF q

-----------------------------------------------------------------------------
(* Paths from a node down.                                                 *)

(* A position in a leaf is a path by itself.                               *)
LEMMA OneEntry ==
    ASSUME NEW L, NEW f, NEW e \in EntryOf(L), f[e.node+1].type = "l",
           e.n <= Len(f[e.node+1].recs)
    PROVE  /\ PlaceOK(L, f, <<e>>, e.node) /\ LeftOf(L, f, <<e>>) = After(L, f, e)
           /\ BeforeRecord(f, <<e>>) <=> e.n < Len(f[e.node+1].recs)
<1> DEFINE p == <<e>>
<1>1. p \in Seq(EntryOf(L)) /\ Len(p) = 1 /\ p[1] = e /\ DOMAIN p = {1}
    OBVIOUS
<1> HIDE DEF p
<1>2. LeftOf(L, f, p) = After(L, f, e)
    BY <1>1 DEF LeftOf
<1>3. PlaceOK(L, f, p, e.node)
    BY <1>1 DEF PlaceOK
<1> QED
    BY <1>1, <1>2, <1>3 DEF BeforeRecord, p

(* construct_iterator comes to the first record of all that is below.      *)
LEMMA FirstPathIs ==
    ASSUME NEW L, NEW f, Labelled(L, f), NEW v \in DOMAIN L
    PROVE  LET p == FirstPath(f, v) IN
           /\ PlaceOK(L, f, p, v) /\ LeftOf(L, f, p) = L[v].recs
           /\ L[v].recs # {} => BeforeRecord(f, p)
<1> DEFINE E(o) == Entry(o, 0)
           C(o) == f[o+1].offs[1]
           down[o \in 0..v] == <<E(o)>> \o IF f[o+1].type # "b" THEN <<>> ELSE down[C(o)]
           Body(n, g) == [o \in 0..n |-> <<E(o)>> \o IF f[o+1].type # "b" THEN <<>> ELSE g[C(o)]]
<1>1. v \in Nat /\ v < Len(f) /\ Len(f) \in Nat
    BY LabelledIs
<1>2. \A o \in 0..v : o \in DOMAIN L \/ f[o+1].type # "b"
    <2>1. \A o \in 0..v : o \in 0..Len(f)-1
        BY <1>1
    <2> QED
        BY <2>1, LabelledIs
<1>3. ASSUME NEW o \in DOMAIN L
      PROVE  /\ E(o) \in EntryOf(L) /\ E(o).node = o /\ E(o).n = 0
             /\ f[o+1].type = "l" => After(L, f, E(o)) = L[o].recs
             /\ f[o+1].type = "b" => /\ C(o) \in DOMAIN L /\ C(o) \in Nat /\ o \in Nat /\ C(o) < o
                                     /\ Through(f, E(o), C(o)) /\ L[C(o)].recs # {}
                                     /\ After(L, f, E(o)) \cup L[C(o)].recs = L[o].recs
    <2>1. E(o) \in EntryOf(L) /\ E(o).node = o /\ E(o).n = 0
        BY DEF Entry, EntryOf
    <2> HIDE DEF E
    <2>2. ASSUME f[o+1].type = "l"
          PROVE  After(L, f, E(o)) = L[o].recs
        <3>1. f[o+1].recs \in Seq(Record) /\ L[o].recs = RecordSet(f[o+1].recs)
            BY <2>2, LeafCell
        <3> DEFINE recs == f[o+1].recs
        <3>2. After(L, f, E(o)) = {recs[i] : i \in {j \in DOMAIN recs : j > 0}}
            BY <2>1, <2>2 DEF After
        <3> HIDE DEF recs
        <3>3. recs \in Seq(Record)
            BY <3>1 DEF recs
        <3>4. {j \in DOMAIN recs : j > 0} = DOMAIN recs
            <4>1. \A j \in DOMAIN recs : j > 0
                BY <3>3
            <4> QED
                BY <4>1
        <3> QED
            BY <3>1, <3>2, <3>4 DEF RecordSet, recs
    <2>3. ASSUME f[o+1].type = "b"
          PROVE  /\ C(o) \in DOMAIN L /\ C(o) \in Nat /\ o \in Nat /\ C(o) < o
                 /\ Through(f, E(o), C(o)) /\ L[C(o)].recs # {}
                 /\ After(L, f, E(o)) \cup L[C(o)].recs = L[o].recs
        <3> DEFINE offs == f[o+1].offs
        <3>1. /\ DOMAIN offs = 1..Len(offs) /\ Len(offs) \in Nat /\ Len(offs) >= 1
              /\ \A i \in DOMAIN offs : /\ offs[i] \in DOMAIN L /\ offs[i] \in Nat /\ offs[i] < o
                                        /\ L[offs[i]].recs # {}
              /\ L[o].recs = UNION {L[offs[i]].recs : i \in DOMAIN offs}
            BY <2>3, BranchCell
        <3>2. After(L, f, E(o)) = UNION {L[offs[i]].recs : i \in {j \in DOMAIN offs : j > 0+1}}
            BY <2>1, <2>3 DEF After
        <3>3. 0+1 \in DOMAIN offs
            BY <3>1
        <3>4. Through(f, E(o), C(o))
            BY <2>1, <2>3, <3>3 DEF Through
        <3> HIDE DEF offs
        <3>5. C(o) = offs[1] /\ 1 \in DOMAIN offs
            BY <3>3 DEF offs
        <3>6. DOMAIN offs = {j \in DOMAIN offs : j > 0+1} \cup {1}
            BY <3>1
        <3>7. L[o].recs = After(L, f, E(o)) \cup L[offs[1]].recs
            BY <3>1, <3>2, <3>6
        <3>8. o \in Nat
            BY LabelledIs
        <3> QED
            BY <3>1, <3>4, <3>5, <3>7, <3>8
    <2> QED
        BY <2>1, <2>2, <2>3
<1> HIDE DEF C, E
<1>4. \A n \in 0..v : \E g : g = Body(n, g)
    <2> DEFINE Bad == {n \in 0..v : ~\E g : g = Body(n, g)}
    <2> SUFFICES ASSUME Bad # {}
                 PROVE  FALSE
        OBVIOUS
    <2>1. PICK n \in Bad : \A m \in Bad : n <= m
        <3>1. Bad \subseteq Nat
            BY <1>1
        <3> HIDE DEF Bad
        <3> QED
            BY <3>1, LeastNat
    <2>2. n \in 0..v /\ n \in Nat
        BY <1>1, <2>1
    <2>3. PICK g : \A o \in 0..n-1 : g[o] = <<E(o)>> \o IF f[o+1].type # "b" THEN <<>> ELSE g[C(o)]
        <3>1. CASE n = 0
            BY <3>1
        <3>2. CASE n # 0
            <4>1. n-1 \in 0..v /\ ~(n <= n-1)
                BY ONLY <1>1, <2>2, <3>2
            <4>2. n-1 \notin Bad
                <5> HIDE DEF Bad
                <5> QED
                    BY <2>1, <4>1
            <4>3. \E g : g = Body(n-1, g)
                BY <4>1, <4>2
            <4> QED
                BY <4>3
        <3> QED
            BY <3>1, <3>2
    <2> DEFINE e == [o \in 0..n |-> <<E(o)>> \o IF f[o+1].type # "b" THEN <<>> ELSE g[C(o)]]
    <2>4. \A o \in 0..n-1 : g[o] = e[o]
        <3>1. \A o \in 0..n : e[o] = <<E(o)>> \o IF f[o+1].type # "b" THEN <<>> ELSE g[C(o)]
            OBVIOUS
        <3> HIDE DEF e
        <3>2. \A o \in 0..n-1 : o \in 0..n
            BY <2>2
        <3> QED
            BY <2>3, <3>1, <3>2
    <2>5. \A o \in 0..n : f[o+1].type = "b" => g[C(o)] = e[C(o)]
        <3> HIDE DEF e
        <3> SUFFICES ASSUME NEW o \in 0..n, f[o+1].type = "b"
                     PROVE  g[C(o)] = e[C(o)]
            OBVIOUS
        <3>1. o \in DOMAIN L /\ o \in Nat
            BY <1>1, <1>2, <2>2
        <3>2. C(o) \in 0..n-1
            BY <1>3, <2>2, <3>1
        <3> QED
            BY <2>4, <3>2
    <2>6. e = Body(n, e)
        <3>1. \A o \in 0..n : (<<E(o)>> \o IF f[o+1].type # "b" THEN <<>> ELSE g[C(o)])
                  = (<<E(o)>> \o IF f[o+1].type # "b" THEN <<>> ELSE e[C(o)])
            <4> HIDE DEF e
            <4> QED
                BY <2>5
        <3> QED
            BY <3>1
    <2>7. n \notin Bad
        BY <2>6
    <2> QED
        BY <2>1, <2>7
<1>5. down = Body(v, down)
    <2>1. down = CHOOSE g : g = Body(v, g)
        BY Zenon
    <2> HIDE DEF down
    <2>2. v \in 0..v
        BY <1>1
    <2>3. \E g : g = Body(v, g)
        BY <1>4, <2>2
    <2> HIDE DEF Body
    <2> QED
        BY <2>1, <2>3, Zenon
<1> HIDE DEF down
<1>6. \A o \in 0..v : down[o] = <<E(o)>> \o IF f[o+1].type # "b" THEN <<>> ELSE down[C(o)]
    BY <1>5
<1> DEFINE Good(o) == LET p == down[o] IN
                      /\ PlaceOK(L, f, p, o) /\ LeftOf(L, f, p) = L[o].recs
                      /\ L[o].recs # {} => BeforeRecord(f, p)
           Worse == {o \in DOMAIN L : o <= v /\ ~Good(o)}
<1>7. Worse = {}
    <2> SUFFICES ASSUME Worse # {}
                 PROVE  FALSE
        OBVIOUS
    <2>1. PICK o \in Worse : \A m \in Worse : o <= m
        <3>1. Worse \subseteq Nat
            BY LabelledIs
        <3> HIDE DEF Worse
        <3> QED
            BY <3>1, LeastNat
    <2>2. o \in DOMAIN L /\ o \in Nat /\ o \in 0..v /\ f[o+1].type \in {"l", "b"}
        BY <1>1, <2>1, LabelledIs
    <2>3. CASE f[o+1].type = "l"
        <3> DEFINE p == <<E(o)>>
        <3>1. down[o] = p
            <4>1. <<E(o)>> \o <<>> = <<E(o)>>
                OBVIOUS
            <4> QED
                BY <1>6, <2>2, <2>3, <4>1
        <3>2. PlaceOK(L, f, p, o) /\ LeftOf(L, f, p) = After(L, f, E(o)) 
              /\ (BeforeRecord(f, p) <=> E(o).n < Len(f[E(o).node+1].recs))
            <4>1. E(o) \in EntryOf(L) /\ E(o).node = o /\ E(o).n <= Len(f[o+1].recs)
                <5>1. Len(f[o+1].recs) \in Nat
                    BY <2>2, <2>3, LeafCell
                <5> QED
                    BY <1>3, <2>2, <5>1
            <4> QED
                BY <2>3, <4>1, OneEntry
        <3>3. L[o].recs # {} => 0 < Len(f[o+1].recs)
            <4>1. f[o+1].recs \in Seq(Record) /\ L[o].recs = RecordSet(f[o+1].recs)
                BY <2>2, <2>3, LeafCell
            <4> QED
                BY <4>1 DEF RecordSet
        <3>4. Good(o)
            BY <1>3, <2>2, <2>3, <3>1, <3>2, <3>3
        <3> QED
            BY <2>1, <3>4
    <2>4. CASE f[o+1].type = "b"
        <3> DEFINE c == C(o)
                   p == down[c]
        <3>1. c \in DOMAIN L /\ c \in Nat /\ c < o
            BY <1>3, <2>2, <2>4
        <3> HIDE DEF c
        <3>2. c <= v /\ ~(o <= c)
            BY <1>1, <2>2, <3>1
        <3>3. Good(c)
            BY <2>1, <3>1, <3>2
        <3>4. down[o] = <<E(o)>> \o p
            BY <1>6, <2>2, <2>4 DEF c
        <3>5. /\ E(o) \in EntryOf(L) /\ E(o).node = o /\ Through(f, E(o), c)
              /\ L[c].recs # {} /\ After(L, f, E(o)) \cup L[c].recs = L[o].recs
            BY <1>3, <2>2, <2>4 DEF c
        <3>6. PlaceOK(L, f, p, c) /\ LeftOf(L, f, p) = L[c].recs /\ BeforeRecord(f, p)
            BY <3>3, <3>5
        <3> HIDE DEF p
        <3>7. LET q == <<E(o)>> \o p IN
              /\ PlaceOK(L, f, q, E(o).node) /\ LeftOf(L, f, q) = After(L, f, E(o)) \cup LeftOf(L, f, p)
              /\ BeforeRecord(f, p) => BeforeRecord(f, q)
            BY <3>5, <3>6, PlaceExtended
        <3>8. Good(o)
            BY <3>4, <3>5, <3>6, <3>7
        <3> QED
            BY <2>1, <3>8
    <2> QED
        BY <2>1, <2>2, <2>3, <2>4
<1>8. Good(v)
    BY <1>1, <1>7
<1>9. FirstPath(f, v) = down[v]
    BY DEF FirstPath, down, C, E
<1> QED
    BY <1>8, <1>9

(* aodbm_iterator_goto_recursive stops before the first record of the leaf  *)
(* that is not before the key.                                             *)
LEMMA LeafPosition ==
    ASSUME NEW L, NEW f, Labelled(L, f), NEW o \in DOMAIN L, f[o+1].type = "l", NEW key \in Key
    PROVE  LET recs == f[o+1].recs
               e    == Entry(o, Min({n \in 0..Len(recs)-1 : key <= recs[n+1].key} \cup {Len(recs)}))
           IN  /\ e \in EntryOf(L) /\ e.node = o /\ e.n <= Len(recs)
               /\ After(L, f, e) = {r \in L[o].recs : key <= r.key}
<1> DEFINE recs == f[o+1].recs
           S    == {n \in 0..Len(recs)-1 : key <= recs[n+1].key} \cup {Len(recs)}
           m    == Min(S)
           e    == Entry(o, m)
<1>1. recs \in Seq(Record) /\ Sorted(recs) /\ L[o].recs = RecordSet(recs)
    BY LeafCell
<1>2. After(L, f, Entry(o, m)) = {recs[i] : i \in {j \in DOMAIN recs : j > m}}
    <2> HIDE DEF m
    <2> QED
        BY DEF After, Entry
<1> HIDE DEF recs
<1>3. Len(recs) \in Nat /\ DOMAIN recs = 1..Len(recs)
    BY <1>1
<1>4. m \in S /\ \A n \in S : m <= n
    <2>1. S \subseteq Nat
        BY <1>3
    <2> HIDE DEF S
    <2>2. S \in SUBSET Nat
        BY <2>1
    <2>3. S # {}
        BY DEF S
    <2> QED
        BY <2>2, <2>3, MinIs
<1> HIDE DEF m
<1>5. m \in 0..Len(recs) /\ (m < Len(recs) => key <= recs[m+1].key)
    <2> DEFINE l == Len(recs)
               F == {n \in 0..l-1 : key <= recs[n+1].key}
    <2>1. m \in F \/ m = l
        BY <1>4
    <2>2. CASE m \in F
        <3>1. m \in 0..l-1 /\ key <= recs[m+1].key
            BY <2>2
        <3> HIDE DEF l
        <3>2. l \in Nat
            BY <1>3 DEF l
        <3>3. m \in 0..l
            BY <3>1, <3>2
        <3> QED
            BY <3>1, <3>3 DEF l
    <2>3. CASE m = l
        <3> HIDE DEF l
        <3>1. l \in Nat
            BY <1>3 DEF l
        <3>2. m \in 0..l /\ ~(m < l)
            BY <2>3, <3>1
        <3> QED
            BY <3>2 DEF l
    <2> QED
        BY <2>1, <2>2, <2>3
<1>6. \A i \in DOMAIN recs : recs[i].key \in Nat
    <2>1. \A i \in DOMAIN recs : recs[i] \in Record
        BY <1>1
    <2>2. \A r \in Record : r.key \in Nat
        BY KeysAreNats DEF Record
    <2> QED
        BY <2>1, <2>2
<1>7. key \in Nat
    BY KeysAreNats
<1>8. ASSUME NEW i \in DOMAIN recs
      PROVE  i > m <=> key <= recs[i].key
    <2>1. ASSUME i > m
          PROVE  key <= recs[i].key
        <3>1. m+1 \in DOMAIN recs /\ m < Len(recs) /\ (m+1 < i \/ m+1 = i)
            BY <1>3, <1>5, <2>1
        <3>2. key <= recs[m+1].key
            BY <1>5, <3>1
        <3>3. CASE m+1 = i
            BY <3>2, <3>3
        <3>4. CASE m+1 < i
            <4>1. recs[m+1].key < recs[i].key
                BY <1>1, <3>1, <3>4 DEF Sorted
            <4> DEFINE a == recs[m+1].key
                       b == recs[i].key
            <4>2. a \in Nat /\ b \in Nat
                BY <1>6, <3>1
            <4> HIDE DEF a, b
            <4>3. a < b /\ key <= a
                BY <3>2, <4>1 DEF a, b
            <4>4. key <= b
                BY <1>7, <4>2, <4>3
            <4> QED
                BY <4>4 DEF b
        <3> QED
            BY <3>1, <3>3, <3>4
    <2>2. ASSUME key <= recs[i].key
          PROVE  i > m
        <3>1. PICK n \in 0..Len(recs)-1 : i = n+1
            <4>1. i-1 \in 0..Len(recs)-1 /\ i = (i-1)+1
                BY <1>3
            <4> QED
                BY <4>1
        <3>2. n \in S
            BY <2>2, <3>1
        <3>3. m <= n
            BY <1>4, <3>2
        <3> QED
            BY <1>5, <3>1, <3>3
    <2> QED
        BY <2>1, <2>2
<1>9. {recs[i] : i \in {j \in DOMAIN recs : j > m}} = {r \in RecordSet(recs) : key <= r.key}
    BY <1>8 DEF RecordSet
<1>10. e \in EntryOf(L) /\ e.node = o /\ e.n = m
    BY <1>5 DEF Entry, EntryOf
<1>11. After(L, f, e) = {r \in L[o].recs : key <= r.key}
    BY <1>1, <1>2, <1>9
<1>12. m <= Len(recs)
    BY <1>5, <1>3
<1> QED
    BY <1>10, <1>11, <1>12 DEF m, recs

(* In a branch it goes to the child the key belongs in: what is before is   *)
(* before the key, and what is behind is not.                              *)
LEMMA BranchPosition ==
    ASSUME NEW L, NEW f, Labelled(L, f), NEW o \in DOMAIN L, f[o+1].type = "b", NEW key \in Key
    PROVE  LET i == ChildIndex(f[o+1], key)
               c == f[o+1].offs[i]
               e == Entry(o, i-1)
           IN  /\ e \in EntryOf(L) /\ e.node = o /\ Through(f, e, c)
               /\ {r \in L[o].recs : key <= r.key}
                     = After(L, f, e) \cup {r \in L[c].recs : key <= r.key}
<1> DEFINE node == f[o+1]
           offs == node.offs
           i    == ChildIndex(node, key)
           c    == offs[i]
           n    == i-1
           e    == Entry(o, n)
<1>1. BranchOK(L, node)
    BY LabelledIs, NodeIs
<1>2. /\ i \in 1..Len(offs) /\ i \in DOMAIN offs
      /\ \A j \in 1..i-1 : node.keys[j] <= key
      /\ i < Len(offs) => key < node.keys[i]
    <2> HIDE DEF node
    <2> QED
        BY <1>1, ChildIndexIs
<1>3. /\ DOMAIN offs = 1..Len(offs) /\ Len(offs) \in Nat
      /\ \A j \in DOMAIN offs : offs[j] \in DOMAIN L
      /\ L[o].recs = UNION {L[offs[j]].recs : j \in DOMAIN offs}
    BY BranchCell
<1>4. /\ DOMAIN node.keys = 1..Len(offs)-1
      /\ \A j \in DOMAIN node.keys : node.keys[j] \in Key
      /\ \A j \in DOMAIN node.keys, k \in DOMAIN offs :
            \A r \in L[offs[k]].recs :
               IF k <= j THEN r.key < node.keys[j] ELSE node.keys[j] <= r.key
    BY <1>1, <1>3 DEF BranchOK
<1>5. node.type = "b"
    OBVIOUS
<1> HIDE DEF i
<1>6. n \in Nat /\ n+1 = i
    BY <1>2, <1>3
<1> HIDE DEF n, node
<1>7. e \in EntryOf(L) /\ e.node = o /\ e.n = n
    BY <1>6 DEF Entry, EntryOf
<1>8. Through(f, e, c)
    BY <1>2, <1>5, <1>6, <1>7 DEF Through, node
<1>9. After(L, f, e) = UNION {L[offs[j]].recs : j \in {k \in DOMAIN offs : k > i}}
    BY <1>5, <1>6, <1>7 DEF After, node
<1> HIDE DEF e, offs
<1>10. \A j \in DOMAIN offs : \A r \in L[offs[j]].recs : r.key \in Nat
    BY <1>3, LabelledIs, KeysAreNats
<1>11. key \in Nat /\ \A j \in DOMAIN node.keys : node.keys[j] \in Nat
    BY <1>4, KeysAreNats
<1>12. ASSUME NEW j \in DOMAIN offs, NEW r \in L[offs[j]].recs
       PROVE  /\ j > i => key <= r.key
              /\ j < i => ~(key <= r.key)
    <2> DEFINE rk == r.key
    <2>1. rk \in Nat
        BY <1>10
    <2>2. ASSUME j > i
          PROVE  key <= rk
        <3> DEFINE a == node.keys[i]
        <3>1. i \in DOMAIN node.keys /\ i < Len(offs) /\ ~(j <= i)
            BY <1>2, <1>3, <1>4, <2>2
        <3>2. key < a /\ a <= rk /\ a \in Nat
            BY <1>2, <1>4, <1>11, <3>1
        <3> HIDE DEF a, rk
        <3> QED
            BY <1>11, <2>1, <3>2
    <2>3. ASSUME j < i
          PROVE  ~(key <= rk)
        <3> DEFINE a == node.keys[j]
        <3>1. j \in DOMAIN node.keys /\ j \in 1..i-1 /\ j <= j
            BY <1>2, <1>3, <1>4, <2>3
        <3>2. a <= key /\ rk < a /\ a \in Nat
            BY <1>2, <1>4, <1>11, <3>1
        <3> HIDE DEF a, rk
        <3> QED
            BY <1>11, <2>1, <3>2
    <2> QED
        BY <2>2, <2>3
<1>13. \A j \in DOMAIN offs : j > i \/ j < i \/ j = i
    BY <1>2, <1>3
<1>14. {r \in L[o].recs : key <= r.key} = After(L, f, e) \cup {r \in L[c].recs : key <= r.key}
    <2>1. ASSUME NEW r \in L[o].recs, key <= r.key
          PROVE  r \in After(L, f, e) \cup {s \in L[c].recs : key <= s.key}
        <3>1. PICK j \in DOMAIN offs : r \in L[offs[j]].recs
            BY <1>3
        <3> QED
            BY <1>9, <1>12, <1>13, <2>1, <3>1
    <2>2. ASSUME NEW r \in After(L, f, e)
          PROVE  r \in L[o].recs /\ key <= r.key
        <3>1. PICK j \in DOMAIN offs : j > i /\ r \in L[offs[j]].recs
            BY <1>9
        <3> QED
            BY <1>3, <1>12, <3>1
    <2>3. L[c].recs \subseteq L[o].recs
        BY <1>2, <1>3
    <2> QED
        BY <2>1, <2>2, <2>3
<1> QED
    BY <1>7, <1>8, <1>14 DEF e, n, i, node, offs

(* aodbm_iterate_from and aodbm_iterator_goto come to the first record      *)
(* that is not before the key.                                             *)
LEMMA PathToIs ==
    ASSUME NEW L, NEW f, Labelled(L, f), NEW v \in DOMAIN L, NEW key \in Key
    PROVE  LET p == PathTo(f, v, key) IN
           PlaceOK(L, f, p, v) /\ LeftOf(L, f, p) = {r \in L[v].recs : key <= r.key}
<1> DEFINE A(o) == Entry(o, Min({n \in 0..Len(f[o+1].recs)-1 : key <= f[o+1].recs[n+1].key}
                                \cup {Len(f[o+1].recs)}))
           E(o) == Entry(o, ChildIndex(f[o+1], key)-1)
           C(o) == f[o+1].offs[ChildIndex(f[o+1], key)]
           down[o \in 0..v] == IF f[o+1].type # "b" THEN <<A(o)>> ELSE <<E(o)>> \o down[C(o)]
           Body(n, g) == [o \in 0..n |-> IF f[o+1].type # "b" THEN <<A(o)>> ELSE <<E(o)>> \o g[C(o)]]
<1>1. v \in Nat /\ v < Len(f) /\ Len(f) \in Nat
    BY LabelledIs
<1>2. \A o \in 0..v : o \in DOMAIN L \/ f[o+1].type # "b"
    <2>1. \A o \in 0..v : o \in 0..Len(f)-1
        BY <1>1
    <2> QED
        BY <2>1, LabelledIs
<1>3. ASSUME NEW o \in DOMAIN L
      PROVE  /\ f[o+1].type = "l" =>
                  /\ A(o) \in EntryOf(L) /\ A(o).node = o /\ A(o).n <= Len(f[o+1].recs)
                  /\ After(L, f, A(o)) = {r \in L[o].recs : key <= r.key}
             /\ f[o+1].type = "b" =>
                  /\ C(o) \in DOMAIN L /\ C(o) \in Nat /\ o \in Nat /\ C(o) < o
                  /\ E(o) \in EntryOf(L) /\ E(o).node = o /\ Through(f, E(o), C(o))
                  /\ {r \in L[o].recs : key <= r.key}
                       = After(L, f, E(o)) \cup {r \in L[C(o)].recs : key <= r.key}
    <2>1. ASSUME f[o+1].type = "l"
          PROVE  /\ A(o) \in EntryOf(L) /\ A(o).node = o /\ A(o).n <= Len(f[o+1].recs)
                 /\ After(L, f, A(o)) = {r \in L[o].recs : key <= r.key}
        BY <2>1, LeafPosition
    <2>2. ASSUME f[o+1].type = "b"
          PROVE  /\ E(o) \in EntryOf(L) /\ E(o).node = o /\ Through(f, E(o), C(o))
                 /\ {r \in L[o].recs : key <= r.key}
                       = After(L, f, E(o)) \cup {r \in L[C(o)].recs : key <= r.key}
        BY <2>2, BranchPosition
    <2> HIDE DEF A, C, E
    <2>3. ASSUME f[o+1].type = "b"
          PROVE  C(o) \in DOMAIN L /\ C(o) \in Nat /\ C(o) < o
        BY <2>2, <2>3, ThroughIs
    <2>4. o \in Nat
        BY LabelledIs
    <2> QED
        BY <2>1, <2>2, <2>3, <2>4
<1> HIDE DEF A
<1> HIDE DEF C, E
<1>4. \A n \in 0..v : \E g : g = Body(n, g)
    <2> DEFINE Bad == {n \in 0..v : ~\E g : g = Body(n, g)}
    <2> SUFFICES ASSUME Bad # {}
                 PROVE  FALSE
        OBVIOUS
    <2>1. PICK n \in Bad : \A m \in Bad : n <= m
        <3>1. Bad \subseteq Nat
            BY <1>1
        <3> HIDE DEF Bad
        <3> QED
            BY <3>1, LeastNat
    <2>2. n \in 0..v /\ n \in Nat
        BY <1>1, <2>1
    <2>3. PICK g : \A o \in 0..n-1 : g[o] = IF f[o+1].type # "b" THEN <<A(o)>> ELSE <<E(o)>> \o g[C(o)]
        <3>1. CASE n = 0
            BY <3>1
        <3>2. CASE n # 0
            <4>1. n-1 \in 0..v /\ ~(n <= n-1)
                BY ONLY <1>1, <2>2, <3>2
            <4>2. n-1 \notin Bad
                <5> HIDE DEF Bad
                <5> QED
                    BY <2>1, <4>1
            <4>3. \E g : g = Body(n-1, g)
                BY <4>1, <4>2
            <4> QED
                BY <4>3
        <3> QED
            BY <3>1, <3>2
    <2> DEFINE e == [o \in 0..n |-> IF f[o+1].type # "b" THEN <<A(o)>> ELSE <<E(o)>> \o g[C(o)]]
    <2>4. \A o \in 0..n-1 : g[o] = e[o]
        <3>1. \A o \in 0..n : e[o] = IF f[o+1].type # "b" THEN <<A(o)>> ELSE <<E(o)>> \o g[C(o)]
            OBVIOUS
        <3> HIDE DEF e
        <3>2. \A o \in 0..n-1 : o \in 0..n
            BY <2>2
        <3> QED
            BY <2>3, <3>1, <3>2
    <2>5. \A o \in 0..n : f[o+1].type = "b" => g[C(o)] = e[C(o)]
        <3> HIDE DEF e
        <3> SUFFICES ASSUME NEW o \in 0..n, f[o+1].type = "b"
                     PROVE  g[C(o)] = e[C(o)]
            OBVIOUS
        <3>1. o \in DOMAIN L /\ o \in Nat
            BY <1>1, <1>2, <2>2
        <3>2. C(o) \in 0..n-1
            BY <1>3, <2>2, <3>1
        <3> QED
            BY <2>4, <3>2
    <2>6. e = Body(n, e)
        <3>1. \A o \in 0..n : (IF f[o+1].type # "b" THEN <<A(o)>> ELSE <<E(o)>> \o g[C(o)])
                  = (IF f[o+1].type # "b" THEN <<A(o)>> ELSE <<E(o)>> \o e[C(o)])
            <4> HIDE DEF e
            <4> QED
                BY <2>5
        <3> QED
            BY <3>1
    <2>7. n \notin Bad
        BY <2>6
    <2> QED
        BY <2>1, <2>7
<1>5. down = Body(v, down)
    <2>1. down = CHOOSE g : g = Body(v, g)
        BY Zenon
    <2> HIDE DEF down
    <2>2. v \in 0..v
        BY <1>1
    <2>3. \E g : g = Body(v, g)
        BY <1>4, <2>2
    <2> HIDE DEF Body
    <2> QED
        BY <2>1, <2>3, Zenon
<1> HIDE DEF down
<1>6. \A o \in 0..v : down[o] = IF f[o+1].type # "b" THEN <<A(o)>> ELSE <<E(o)>> \o down[C(o)]
    BY <1>5
<1> DEFINE Good(o) == LET p == down[o] IN
                      PlaceOK(L, f, p, o) /\ LeftOf(L, f, p) = {r \in L[o].recs : key <= r.key}
           Worse == {o \in DOMAIN L : o <= v /\ ~Good(o)}
<1>7. Worse = {}
    <2> SUFFICES ASSUME Worse # {}
                 PROVE  FALSE
        OBVIOUS
    <2>1. PICK o \in Worse : \A m \in Worse : o <= m
        <3>1. Worse \subseteq Nat
            BY LabelledIs
        <3> HIDE DEF Worse
        <3> QED
            BY <3>1, LeastNat
    <2>2. o \in DOMAIN L /\ o \in Nat /\ o \in 0..v /\ f[o+1].type \in {"l", "b"}
        BY <1>1, <2>1, LabelledIs
    <2>3. CASE f[o+1].type = "l"
        <3>1. down[o] = <<A(o)>>
            BY <1>6, <2>2, <2>3
        <3>2. A(o) \in EntryOf(L) /\ A(o).node = o /\ A(o).n <= Len(f[o+1].recs)
              /\ After(L, f, A(o)) = {r \in L[o].recs : key <= r.key}
            BY <1>3, <2>2, <2>3
        <3>3. PlaceOK(L, f, <<A(o)>>, o) /\ LeftOf(L, f, <<A(o)>>) = After(L, f, A(o))
            BY <2>3, <3>2, OneEntry
        <3>4. Good(o)
            BY <3>1, <3>2, <3>3
        <3> QED
            BY <2>1, <3>4
    <2>4. CASE f[o+1].type = "b"
        <3> DEFINE c == C(o)
                   p == down[c]
        <3>1. c \in DOMAIN L /\ c \in Nat /\ c < o
            BY <1>3, <2>2, <2>4
        <3> HIDE DEF c
        <3>2. c <= v /\ ~(o <= c)
            BY <1>1, <2>2, <3>1
        <3>3. Good(c)
            BY <2>1, <3>1, <3>2
        <3>4. down[o] = <<E(o)>> \o p
            BY <1>6, <2>2, <2>4 DEF c
        <3>5. /\ E(o) \in EntryOf(L) /\ E(o).node = o /\ Through(f, E(o), c)
              /\ {r \in L[o].recs : key <= r.key}
                    = After(L, f, E(o)) \cup {r \in L[c].recs : key <= r.key}
            BY <1>3, <2>2, <2>4 DEF c
        <3>6. PlaceOK(L, f, p, c) /\ LeftOf(L, f, p) = {r \in L[c].recs : key <= r.key}
            BY <3>3
        <3> HIDE DEF p
        <3>7. LET q == <<E(o)>> \o p IN
              PlaceOK(L, f, q, E(o).node) /\ LeftOf(L, f, q) = After(L, f, E(o)) \cup LeftOf(L, f, p)
            BY <3>5, <3>6, PlaceExtended
        <3>8. Good(o)
            BY <3>4, <3>5, <3>6, <3>7
        <3> QED
            BY <2>1, <3>8
    <2> QED
        BY <2>1, <2>2, <2>3, <2>4
<1>8. Good(v)
    BY <1>1, <1>7
<1>9. PathTo(f, v, key) = down[v]
    BY DEF PathTo, down, C, E, A
<1> QED
    BY <1>8, <1>9

-----------------------------------------------------------------------------
(* Along a path.                                                           *)

(* What is below a node of the path is below every node above it.          *)
LEMMA PathDown ==
    ASSUME NEW L, NEW f, Labelled(L, f), NEW p, NEW v, PlaceOK(L, f, p, v),
           NEW k \in 1..Len(p), NEW m \in k..Len(p)
    PROVE  L[p[m].node].recs \subseteq L[p[k].node].recs
<1> DEFINE n == Len(p)
           Good(j) == L[p[j].node].recs \subseteq L[p[k].node].recs
           Bad == {j \in k..n : ~Good(j)}
<1>1. /\ n \in Nat /\ \A j \in 1..n : p[j] \in EntryOf(L)
      /\ \A j \in 1..n-1 : Through(f, p[j], p[j+1].node)
    BY DEF PlaceOK
<1> HIDE DEF n
<1>2. Bad = {}
    <2> SUFFICES ASSUME Bad # {}
                 PROVE  FALSE
        OBVIOUS
    <2>1. PICK j \in Bad : \A i \in Bad : j <= i
        <3>1. Bad \subseteq Nat
            <4> HIDE DEF Good
            <4> QED
                BY <1>1 DEF n
        <3> HIDE DEF Bad
        <3> QED
            BY <3>1, LeastNat
    <2>2. j \in k..n /\ ~Good(j)
        BY <2>1
    <2>3. Good(k)
        OBVIOUS
    <2>4. j # k
        BY <2>2, <2>3
    <2> HIDE DEF Good
    <2>5. j-1 \in k..n /\ j-1 \in 1..n-1 /\ (j-1)+1 = j /\ ~(j <= j-1)
        <3>1. k \in 1..n
            BY DEF n
        <3> QED
            BY ONLY <1>1, <2>2, <2>4, <3>1
    <2>6. j-1 \notin Bad
        <3> HIDE DEF Bad
        <3> QED
            BY <2>1, <2>5
    <2>7. Good(j-1)
        BY <2>5, <2>6
    <2>8. Through(f, p[j-1], p[j].node) /\ p[j-1] \in EntryOf(L)
        <3>1. j-1 \in 1..n
            BY <1>1, <2>5
        <3> QED
            BY <1>1, <2>5, <3>1
    <2>9. L[p[j].node].recs \subseteq L[p[j-1].node].recs
        BY <2>8, ThroughIs
    <2>10. Good(j)
        BY <2>7, <2>9 DEF Good
    <2> QED
        BY <2>2, <2>10
<1>3. Good(m)
    BY <1>2 DEF n
<1> QED
    BY <1>3

(* What is below a node of the path comes before what is behind the        *)
(* positions above it.                                                     *)
LEMMA PathAhead ==
    ASSUME NEW L, NEW f, Labelled(L, f), NEW p, NEW v, PlaceOK(L, f, p, v),
           NEW k \in 1..Len(p)-1, NEW m \in k+1..Len(p)
    PROVE  \A r \in L[p[m].node].recs, s \in After(L, f, p[k]) : r.key < s.key
<1> DEFINE n == Len(p)
<1>1. /\ n \in Nat /\ \A j \in 1..n : p[j] \in EntryOf(L)
      /\ Through(f, p[k], p[k+1].node)
    BY DEF PlaceOK
<1>2. k \in 1..n /\ k+1 \in 1..n
    <2> HIDE DEF n
    <2>1. k \in 1..n-1
        BY DEF n
    <2> QED
        BY <1>1, <2>1
<1>3. L[p[m].node].recs \subseteq L[p[k+1].node].recs
    BY <1>2, PathDown
<1>4. \A r \in L[p[k+1].node].recs, s \in After(L, f, p[k]) : r.key < s.key
    BY <1>1, <1>2, ThroughIs
<1> QED
    BY <1>3, <1>4

(* An iterator returns records of its version only.                        *)
LEMMA LeftBelow ==
    ASSUME NEW L, NEW f, Labelled(L, f), NEW p, NEW v, PlaceOK(L, f, p, v)
    PROVE  LeftOf(L, f, p) \subseteq L[v].recs
<1>1. /\ Len(p) \in Nat /\ \A j \in 1..Len(p) : p[j] \in EntryOf(L)
      /\ p[1].node = v /\ DOMAIN p = 1..Len(p)
    BY DEF PlaceOK
<1>2. ASSUME NEW k \in DOMAIN p
      PROVE  After(L, f, p[k]) \subseteq L[v].recs
    <2>1. 1 \in 1..Len(p) /\ k \in 1..Len(p) /\ k \in 1..Len(p)
        BY <1>1
    <2>2. L[p[k].node].recs \subseteq L[p[1].node].recs
        BY <2>1, PathDown
    <2>3. After(L, f, p[k]) \subseteq L[p[k].node].recs
        BY <1>1, <2>1, AfterBelow
    <2> QED
        BY <1>1, <2>2, <2>3
<1> QED
    BY <1>2 DEF LeftOf

(* The levels below a node of the path may be replaced by any path from     *)
(* that node.                                                              *)
LEMMA PlaceReplaced ==
    ASSUME NEW L, NEW f, NEW p, NEW v, PlaceOK(L, f, p, v), NEW d \in 1..Len(p),
           NEW t, PlaceOK(L, f, t, p[d].node)
    PROVE  LET q == SubSeq(p, 1, d-1) \o t IN
           /\ PlaceOK(L, f, q, v)
           /\ LeftOf(L, f, q) = (UNION {After(L, f, p[k]) : k \in 1..d-1}) \cup LeftOf(L, f, t)
           /\ BeforeRecord(f, t) => BeforeRecord(f, q)
<1> DEFINE a == SubSeq(p, 1, d-1)
           q == a \o t
           l == Len(t)
           n == (d-1) + l
<1>1. /\ p \in Seq(EntryOf(L)) /\ Len(p) \in Nat /\ p[1].node = v
      /\ \A k \in 1..Len(p)-1 : Through(f, p[k], p[k+1].node)
    BY DEF PlaceOK
<1>2. /\ t \in Seq(EntryOf(L)) /\ l \in Nat /\ l >= 1 /\ t[1].node = p[d].node /\ DOMAIN t = 1..l
      /\ \A k \in 1..l-1 : Through(f, t[k], t[k+1].node)
      /\ f[t[l].node+1].type = "l" /\ t[l].n <= Len(f[t[l].node+1].recs)
    BY DEF PlaceOK
<1>3. /\ a \in Seq(EntryOf(L)) /\ Len(a) = d-1 /\ \A k \in 1..d-1 : a[k] = p[k]
    BY <1>1
<1>4. d \in Nat /\ d >= 1 /\ d <= Len(p)
    BY <1>1
<1> HIDE DEF a, l
<1>5. n \in Nat /\ n >= d /\ n >= 1
    BY <1>2, <1>4
<1>6. /\ q \in Seq(EntryOf(L)) /\ Len(q) = n /\ DOMAIN q = 1..n
      /\ \A k \in 1..d-1 : q[k] = p[k]
      /\ \A k \in 1..l : q[(d-1)+k] = t[k]
    <2> DEFINE S == EntryOf(L)
    <2>0. /\ a \in Seq(S) /\ t \in Seq(S) /\ Len(a) = d-1 /\ Len(t) = l /\ l \in Nat
          /\ d-1 \in Nat /\ n = (d-1) + l
        BY <1>2, <1>3, <1>4 DEF l
    <2> HIDE DEF S
    <2>1. q \in Seq(S) /\ Len(q) = n
        BY ONLY <2>0, CatSeq DEF q
    <2>5. q = [k \in 1..n |-> IF k <= d-1 THEN a[k] ELSE t[k-(d-1)]]
        <3>1. q = [k \in 1..Len(a) + Len(t) |-> IF k <= Len(a) THEN a[k] ELSE t[k-Len(a)]]
            BY ONLY <2>0, CatIs DEF q
        <3> QED
            BY ONLY <3>1, <2>0, Zenon
    <2>2. \A k \in 1..d-1 : q[k] = p[k]
        <3>1. \A k \in 1..d-1 : k \in 1..n /\ k <= d-1
            BY ONLY <2>0
        <3> QED
            BY ONLY <3>1, <2>5, <1>3
    <2>3. \A k \in 1..l : q[(d-1)+k] = t[k]
        <3>1. \A k \in 1..l : (d-1)+k \in 1..n /\ ~((d-1)+k <= d-1) /\ ((d-1)+k)-(d-1) = k
            BY ONLY <2>0
        <3> HIDE DEF n
        <3> QED
            BY ONLY <3>1, <2>5
    <2>4. DOMAIN q = 1..n
        BY <2>5
    <2> QED
        BY <2>1, <2>2, <2>3, <2>4 DEF S
<1> HIDE DEF q
<1>7. \A k \in d..n : k-(d-1) \in 1..l /\ q[k] = t[k-(d-1)]
    <2> SUFFICES ASSUME NEW k \in d..n
                 PROVE  k-(d-1) \in 1..l /\ q[k] = t[k-(d-1)]
        OBVIOUS
    <2>1. k-(d-1) \in 1..l /\ (d-1)+(k-(d-1)) = k
        BY <1>2, <1>4
    <2> QED
        BY <1>6, <2>1
<1>8. ASSUME NEW k \in 1..n-1
      PROVE  Through(f, q[k], q[k+1].node)
    <2>1. CASE k < d-1
        <3>1. k \in 1..d-1 /\ k+1 \in 1..d-1 /\ k \in 1..Len(p)-1
            BY <1>1, <1>4, <2>1
        <3> QED
            BY <1>1, <1>6, <3>1
    <2>2. CASE k = d-1
        <3>1. k \in 1..d-1 /\ k \in 1..Len(p)-1 /\ 1 \in 1..l /\ k+1 = d /\ (d-1)+1 = k+1
            BY <1>1, <1>2, <1>4, <2>2
        <3>2. q[k] = p[k] /\ q[k+1] = t[1]
            BY <1>6, <3>1
        <3> QED
            BY <1>1, <1>2, <3>1, <3>2
    <2>3. CASE k > d-1
        <3>1. k \in d..n /\ k+1 \in d..n /\ (k+1)-(d-1) = (k-(d-1))+1 /\ k-(d-1) \in 1..l-1
            BY <1>2, <1>4, <1>5, <2>3
        <3>2. q[k] = t[k-(d-1)] /\ q[k+1] = t[(k-(d-1))+1]
            BY <1>7, <3>1
        <3> QED
            BY <1>2, <3>1, <3>2
    <2> QED
        BY <1>4, <2>1, <2>2, <2>3
<1>9. q[n] = t[l]
    <2>1. l \in 1..l
        BY <1>2
    <2> QED
        BY <1>6, <2>1
<1>10. q[1].node = v
    <2>1. CASE d = 1
        <3>1. 1 \in 1..l /\ (d-1)+1 = 1
            BY <1>2, <2>1
        <3>2. q[1] = t[1]
            BY <1>6, <3>1
        <3> QED
            BY <1>1, <1>2, <2>1, <3>2
    <2>2. CASE d # 1
        <3>1. 1 \in 1..d-1
            BY <1>4, <2>2
        <3> QED
            BY <1>1, <1>6, <3>1
    <2> QED
        BY <2>1, <2>2
<1>11. PlaceOK(L, f, q, v)
    BY <1>2, <1>5, <1>6, <1>8, <1>9, <1>10 DEF PlaceOK
<1>12. LeftOf(L, f, q) = (UNION {After(L, f, p[k]) : k \in 1..d-1}) \cup LeftOf(L, f, t)
    <2> DEFINE U == UNION {After(L, f, p[k]) : k \in 1..d-1}
    <2>1. ASSUME NEW r \in LeftOf(L, f, q)
          PROVE  r \in U \cup LeftOf(L, f, t)
        <3>1. PICK k \in 1..n : r \in After(L, f, q[k])
            BY <1>6 DEF LeftOf
        <3>2. CASE k < d
            <4>1. k \in 1..d-1
                BY <1>4, <3>2
            <4> QED
                BY <1>6, <3>1, <4>1
        <3>3. CASE k >= d
            <4>1. k \in d..n
                BY <1>4, <1>5, <3>3
            <4> QED
                BY <1>2, <1>7, <3>1, <4>1 DEF LeftOf
        <3> QED
            BY <1>4, <3>2, <3>3
    <2>2. ASSUME NEW r \in U
          PROVE  r \in LeftOf(L, f, q)
        <3>1. PICK k \in 1..d-1 : r \in After(L, f, p[k])
            OBVIOUS
        <3>2. k \in 1..n
            BY <1>4, <1>5
        <3> QED
            BY <1>6, <3>1, <3>2 DEF LeftOf
    <2>3. ASSUME NEW r \in LeftOf(L, f, t)
          PROVE  r \in LeftOf(L, f, q)
        <3>1. PICK k \in 1..l : r \in After(L, f, t[k])
            BY <1>2 DEF LeftOf
        <3>2. (d-1)+k \in 1..n
            BY <1>2, <1>4
        <3> QED
            BY <1>6, <3>1, <3>2 DEF LeftOf
    <2> HIDE DEF U
    <2>4. LeftOf(L, f, q) = U \cup LeftOf(L, f, t)
        BY <2>1, <2>2, <2>3
    <2> QED
        BY <2>4 DEF U
<1>13. BeforeRecord(f, t) => BeforeRecord(f, q)
    BY <1>6, <1>9 DEF BeforeRecord, l
<1> QED
    BY <1>11, <1>12, <1>13 DEF q, a

-----------------------------------------------------------------------------
(* What aodbm_iterator_next does to a path.                                *)

(* Max gives the greatest of a set of naturals with a bound.               *)
LEMMA MaxIs ==
    ASSUME NEW S, NEW n \in Nat, S \subseteq 1..n, S # {}
    PROVE  Max(S) \in S /\ \A i \in S : i <= Max(S)
<1> DEFINE T == {n-i : i \in S}
<1>1. PICK m \in T : \A k \in T : m <= k
    <2>1. \A i \in S : n-i \in Nat
        <3>1. \A i \in 1..n : n-i \in Nat
            OBVIOUS
        <3> QED
            BY <3>1
    <2>2. T \subseteq Nat /\ T # {}
        BY <2>1
    <2> HIDE DEF T
    <2> QED
        BY <2>2, LeastNat
<1>2. PICK x \in S : m = n-x
    BY <1>1
<1>3. \A y \in S : x >= y
    <2> SUFFICES ASSUME NEW y \in S
                 PROVE  x >= y
        OBVIOUS
    <2>1. m <= n-y
        BY <1>1
    <2>2. x \in 1..n /\ y \in 1..n
        BY <1>2
    <2> QED
        BY ONLY <1>2, <2>1, <2>2, n \in Nat
<1>4. \E a \in S : \A b \in S : a >= b
    BY <1>3
<1>5. Max(S) \in S /\ \A b \in S : Max(S) >= b
    BY <1>4, Zenon DEF Max
<1> DEFINE z == Max(S)
<1>6. z \in S /\ \A b \in S : z >= b
    BY <1>5
<1> HIDE DEF z
<1>7. z \in S /\ \A b \in S : b <= z
    BY <1>6
<1> QED
    BY <1>7 DEF z

(* In the last child of a branch, or at the end of a leaf, nothing is behind. *)
LEMMA NothingBehind ==
    ASSUME NEW L, NEW f, Labelled(L, f), NEW e \in EntryOf(L),
           \/ f[e.node+1].type = "l" /\ e.n = Len(f[e.node+1].recs)
           \/ /\ f[e.node+1].type = "b" /\ e.n+1 \in DOMAIN f[e.node+1].offs
              /\ ~(e.n < Len(f[e.node+1].keys))
    PROVE  After(L, f, e) = {}
<1> DEFINE o == e.node
           n == e.n
<1>1. o \in DOMAIN L /\ n \in Nat
    BY DEF EntryOf
<1>2. CASE f[o+1].type = "l" /\ n = Len(f[o+1].recs)
    <2> DEFINE recs == f[o+1].recs
    <2>1. After(L, f, e) = {recs[i] : i \in {j \in DOMAIN recs : j > n}}
        BY <1>2 DEF After
    <2>2. recs \in Seq(Record)
        <3> HIDE DEF o
        <3> QED
            BY <1>1, <1>2, LeafCell
    <2>3. n = Len(recs)
        BY <1>2
    <2> HIDE DEF recs, n
    <2>4. \A j \in DOMAIN recs : ~(j > n)
        BY <2>2, <2>3
    <2> QED
        BY <2>1, <2>4
<1>3. CASE f[o+1].type = "b" /\ n+1 \in DOMAIN f[o+1].offs /\ ~(n < Len(f[o+1].keys))
    <2> DEFINE offs == f[o+1].offs
               l    == Len(offs)
    <2>1. After(L, f, e) = UNION {L[offs[i]].recs : i \in {j \in DOMAIN offs : j > n+1}}
        BY <1>3 DEF After
    <2>2. DOMAIN offs = 1..l /\ l \in Nat /\ Len(f[o+1].keys) = l-1
        <3> HIDE DEF o
        <3> QED
            BY <1>1, <1>3, BranchCell
    <2>3. n+1 \in 1..l /\ ~(n < l-1)
        BY <1>3, <2>2
    <2> HIDE DEF offs, l, n
    <2>4. n+1 = l
        BY ONLY <1>1, <2>2, <2>3
    <2>5. \A j \in DOMAIN offs : ~(j > n+1)
        BY <2>2, <2>4
    <2> QED
        BY <2>1, <2>5
<1> QED
    BY <1>2, <1>3

(* The next position in a node, and the child at a position.               *)
Moved(e)    == Entry(e.node, e.n+1)
Under(f, e) == f[e.node+1].offs[e.n+1]

(* A branch moves on to its next child: what was behind the position is    *)
(* below that child or behind the new one.                                 *)
LEMMA MovedOn ==
    ASSUME NEW L, NEW f, Labelled(L, f), NEW e \in EntryOf(L),
           f[e.node+1].type = "b", e.n < Len(f[e.node+1].keys)
    PROVE  /\ Moved(e) \in EntryOf(L) /\ Moved(e).node = e.node
           /\ Through(f, Moved(e), Under(f, Moved(e)))
           /\ After(L, f, e) = After(L, f, Moved(e)) \cup L[Under(f, Moved(e))].recs
<1> DEFINE o    == e.node
           n    == e.n
           b    == Entry(o, n+1)
           offs == f[o+1].offs
           l    == Len(offs)
           c    == offs[n+2]
<1>1. o \in DOMAIN L /\ n \in Nat /\ f[o+1].type = "b"
    BY DEF EntryOf
<1>2. DOMAIN offs = 1..l /\ l \in Nat /\ Len(f[o+1].keys) = l-1
    <2> HIDE DEF o
    <2> QED
        BY <1>1, BranchCell
<1>3. f[o+1].type = "b" /\ n < l-1
    BY <1>2
<1>4. b \in EntryOf(L) /\ b.node = o /\ b.n = n+1
    <2> HIDE DEF o, n
    <2> QED
        BY <1>1 DEF Entry, EntryOf
<1>5. After(L, f, e) = UNION {L[offs[i]].recs : i \in {j \in DOMAIN offs : j > n+1}}
    BY <1>3 DEF After
<1>6. After(L, f, b) = UNION {L[offs[i]].recs : i \in {j \in DOMAIN offs : j > (n+1)+1}}
    <2> HIDE DEF b
    <2> QED
        BY <1>3, <1>4 DEF After
<1>7. n+2 \in DOMAIN offs /\ (n+1)+1 = n+2
    <2> HIDE DEF offs, l, n, o
    <2> QED
        BY <1>1, <1>2, <1>3
<1>8. Through(f, b, c)
    <2> HIDE DEF b
    <2> QED
        BY <1>3, <1>4, <1>7 DEF Through
<1>9. After(L, f, e) = After(L, f, b) \cup L[c].recs
    <2> HIDE DEF b, offs, l, n, o
    <2>1. \A j \in DOMAIN offs : j > n+1 <=> (j > (n+1)+1 \/ j = n+2)
        BY <1>1, <1>2
    <2> QED
        BY <1>5, <1>6, <1>7, <2>1 DEF c
<1>10. f[b.node+1].offs[b.n+1] = c
    <2> HIDE DEF b
    <2> QED
        BY <1>4, <1>7
<1>11. Moved(e) = b
    BY DEF Moved
<1>12. Under(f, b) = c
    BY <1>10 DEF Under
<1> HIDE DEF b, c, o
<1> QED
    BY <1>4, <1>8, <1>9, <1>11, <1>12 DEF o

(* At the end of a leaf: either nothing is left, or the path goes on to a   *)
(* record of another leaf with the same records left.                      *)
LEMMA NextLeafIs ==
    ASSUME NEW L, NEW f, Labelled(L, f), NEW p, NEW v, PlaceOK(L, f, p, v),
           p[Len(p)].n = Len(f[p[Len(p)].node+1].recs)
    PROVE  LET q == NextLeaf(f, p) IN
           \/ q = <<>> /\ LeftOf(L, f, p) = {}
           \/ /\ PlaceOK(L, f, q, v) /\ LeftOf(L, f, q) = LeftOf(L, f, p)
              /\ BeforeRecord(f, q)
<1> DEFINE n    == Len(p)
           more == {i \in 1..n-1 : p[i].n < Len(f[p[i].node+1].keys)}
           q    == NextLeaf(f, p)
<1>1. /\ p \in Seq(EntryOf(L)) /\ n \in Nat /\ n >= 1 /\ DOMAIN p = 1..n
      /\ \A k \in 1..n : p[k] \in EntryOf(L)
      /\ \A k \in 1..n-1 : Through(f, p[k], p[k+1].node)
      /\ f[p[n].node+1].type = "l"
    BY DEF PlaceOK
<1>2. After(L, f, p[n]) = {}
    <2>1. p[n] \in EntryOf(L)
        BY <1>1
    <2> QED
        BY <1>1, <2>1, NothingBehind
<1>3. \A k \in 1..n-1 : f[p[k].node+1].type = "b" /\ p[k].n+1 \in DOMAIN f[p[k].node+1].offs
    BY <1>1 DEF Through
<1>4. \A k \in 1..n-1 : k \notin more => After(L, f, p[k]) = {}
    <2> SUFFICES ASSUME NEW k \in 1..n-1, k \notin more
                 PROVE  After(L, f, p[k]) = {}
        OBVIOUS
    <2>1. k \in 1..n
        <3> HIDE DEF n
        <3> QED
            BY <1>1
    <2>2. p[k] \in EntryOf(L) /\ ~(p[k].n < Len(f[p[k].node+1].keys))
        BY <1>1, <2>1
    <2> QED
        BY <1>3, <2>2, NothingBehind
<1>5. CASE more = {}
    <2>1. q = <<>>
        BY <1>5 DEF NextLeaf
    <2>2. \A k \in DOMAIN p : k = n \/ (k \in 1..n-1 /\ k \notin more)
        <3> HIDE DEF n
        <3>1. \A k \in DOMAIN p : k = n \/ k \in 1..n-1
            BY <1>1
        <3> QED
            BY <1>5, <3>1
    <2>3. \A k \in DOMAIN p : After(L, f, p[k]) = {}
        <3> HIDE DEF n, more
        <3> QED
            BY <1>2, <1>4, <2>2
    <2>4. LeftOf(L, f, p) = {}
        BY <2>3 DEF LeftOf
    <2> QED
        BY <2>1, <2>4
<1>6. CASE more # {}
    <2> DEFINE d == Max(more)
               b == Entry(p[d].node, p[d].n+1)
               c == f[b.node+1].offs[b.n+1]
               t == FirstPath(f, c)
               a == SubSeq(p, 1, d-1)
    <2>1. d \in more /\ \A i \in more : i <= d
        <3>1. more \subseteq 1..n
            <4> HIDE DEF n
            <4> QED
                BY <1>1
        <3> HIDE DEF more, n
        <3> QED
            BY <1>1, <1>6, <3>1, MaxIs
    <2>2. q = a \o <<b>> \o t
        BY <1>6 DEF NextLeaf
    <2> HIDE DEF d, q
    <2>3. d \in 1..n-1 /\ d \in 1..n /\ d \in Nat /\ p[d].n < Len(f[p[d].node+1].keys)
        <3>1. d \in 1..n-1 /\ p[d].n < Len(f[p[d].node+1].keys)
            BY <2>1
        <3> HIDE DEF n
        <3> QED
            BY <1>1, <3>1
    <2>4. p[d] \in EntryOf(L) /\ f[p[d].node+1].type = "b"
        BY <1>1, <1>3, <2>3
    <2>5. /\ b \in EntryOf(L) /\ b.node = p[d].node /\ Through(f, b, c)
          /\ After(L, f, p[d]) = After(L, f, b) \cup L[c].recs
        <3> DEFINE e == p[d]
        <3>1. e \in EntryOf(L) /\ f[e.node+1].type = "b" /\ e.n < Len(f[e.node+1].keys)
            BY <2>3, <2>4
        <3>2. b = Moved(e) /\ c = Under(f, Moved(e))
            BY DEF Moved, Under
        <3> HIDE DEF e, b, c
        <3>3. /\ Moved(e) \in EntryOf(L) /\ Moved(e).node = e.node
              /\ Through(f, Moved(e), Under(f, Moved(e)))
              /\ After(L, f, e) = After(L, f, Moved(e)) \cup L[Under(f, Moved(e))].recs
            BY <3>1, MovedOn
        <3> QED
            BY <3>2, <3>3 DEF e
    <2> HIDE DEF b, c
    <2>6. c \in DOMAIN L /\ L[c].recs # {}
        BY <2>5, ThroughIs
    <2>7. PlaceOK(L, f, t, c) /\ LeftOf(L, f, t) = L[c].recs /\ BeforeRecord(f, t)
        BY <2>6, FirstPathIs
    <2> HIDE DEF t
    <2> DEFINE u == <<b>> \o t
    <2>8. /\ PlaceOK(L, f, u, b.node) /\ LeftOf(L, f, u) = After(L, f, b) \cup LeftOf(L, f, t)
          /\ BeforeRecord(f, u)
        BY <2>5, <2>7, PlaceExtended
    <2>9. PlaceOK(L, f, u, p[d].node) /\ LeftOf(L, f, u) = After(L, f, p[d])
        BY <2>5, <2>7, <2>8
    <2>10. q = a \o u
        <3> DEFINE S == EntryOf(L)
                   m == <<b>>
        <3>1. a \in Seq(S) /\ m \in Seq(S) /\ t \in Seq(S)
            <4>1. a \in Seq(S)
                BY <1>1, <2>3
            <4>2. m \in Seq(S) /\ t \in Seq(S)
                BY <2>5, <2>7 DEF PlaceOK
            <4> QED
                BY <4>1, <4>2
        <3>2. q = (a \o m) \o t
            BY <2>2
        <3> HIDE DEF S, m, a
        <3>4. (a \o m) \o t = a \o (m \o t)
            BY ONLY <3>1, CatAssoc
        <3>3. q = a \o (m \o t)
            BY ONLY <3>2, <3>4
        <3> QED
            BY <3>3 DEF m
    <2> HIDE DEF u
    <2>11. /\ PlaceOK(L, f, q, v)
           /\ LeftOf(L, f, q) = (UNION {After(L, f, p[k]) : k \in 1..d-1}) \cup LeftOf(L, f, u)
           /\ BeforeRecord(f, q)
        <3>1. PlaceOK(L, f, p, v) /\ d \in 1..Len(p) /\ PlaceOK(L, f, u, p[d].node)
            BY <2>3, <2>9
        <3>2. /\ PlaceOK(L, f, a \o u, v)
              /\ LeftOf(L, f, a \o u) = (UNION {After(L, f, p[k]) : k \in 1..d-1}) \cup LeftOf(L, f, u)
              /\ BeforeRecord(f, u) => BeforeRecord(f, a \o u)
            BY ONLY <3>1, PlaceReplaced
        <3> HIDE DEF a
        <3> QED
            BY <2>8, <2>10, <3>2
    <2>12. \A k \in 1..n : k > d => After(L, f, p[k]) = {}
        <3> SUFFICES ASSUME NEW k \in 1..n, k > d
                     PROVE  After(L, f, p[k]) = {}
            OBVIOUS
        <3>1. k = n \/ (k \in 1..n-1 /\ k \notin more)
            <4>1. k \notin more
                <5>1. ~(k <= d)
                    BY <2>3
                <5> HIDE DEF more
                <5> QED
                    BY <2>1, <5>1
            <4> HIDE DEF n, more
            <4>2. k = n \/ k \in 1..n-1
                BY <1>1
            <4> QED
                BY <4>1, <4>2
        <3> HIDE DEF n, more
        <3> QED
            BY <1>2, <1>4, <3>1
    <2>13. LeftOf(L, f, p) = (UNION {After(L, f, p[k]) : k \in 1..d-1}) \cup After(L, f, p[d])
        <3>1. \A k \in 1..n : k \in 1..d-1 \/ k = d \/ k > d
            BY <2>3
        <3>2. \A k \in 1..d-1 : k \in 1..n
            <4> HIDE DEF n
            <4> QED
                BY <1>1, <2>3
        <3> HIDE DEF n
        <3> QED
            BY <1>1, <2>3, <2>12, <3>1, <3>2 DEF LeftOf
    <2> QED
        BY <2>9, <2>11, <2>13 DEF q
<1> QED
    BY <1>5, <1>6

(* The position moves behind the record it was before, which has the least  *)
(* key of what was left.                                                   *)
LEMMA NextRecord ==
    ASSUME NEW L, NEW f, Labelled(L, f), NEW p, NEW v, PlaceOK(L, f, p, v), BeforeRecord(f, p)
    PROVE  LET q  == [p EXCEPT ![Len(p)].n = @ + 1]
               r0 == f[p[Len(p)].node+1].recs[p[Len(p)].n+1]
           IN  /\ PlaceOK(L, f, q, v)
               /\ LeftOf(L, f, p) = {r0} \cup LeftOf(L, f, q)
               /\ \A s \in LeftOf(L, f, q) : r0.key < s.key
<1> DEFINE n    == Len(p)
           e    == p[n]
           o    == e.node
           x    == e.n
           recs == f[o+1].recs
           q    == [p EXCEPT ![n].n = @ + 1]
           e1   == [e EXCEPT !.n = @ + 1]
           r0   == recs[x+1]
<1>1. /\ p \in Seq(EntryOf(L)) /\ n \in Nat /\ n >= 1 /\ DOMAIN p = 1..n
      /\ \A k \in 1..n : p[k] \in EntryOf(L)
      /\ \A k \in 1..n-1 : Through(f, p[k], p[k+1].node)
      /\ f[o+1].type = "l" /\ x < Len(recs) /\ p[1].node = v
    BY DEF PlaceOK, BeforeRecord
<1> HIDE DEF n
<1>2. e \in EntryOf(L) /\ o \in DOMAIN L /\ x \in Nat
    <2>1. e \in EntryOf(L)
        BY <1>1
    <2> QED
        BY <2>1 DEF EntryOf
<1>3. recs \in Seq(Record) /\ Sorted(recs) /\ L[o].recs = RecordSet(recs)
    <2> HIDE DEF o
    <2> QED
        BY <1>1, <1>2, LeafCell
<1>4. e1 \in EntryOf(L) /\ e1.node = o /\ e1.n = x+1
    <2> HIDE DEF e
    <2> QED
        BY <1>2 DEF EntryOf
<1>5. After(L, f, e) = {recs[i] : i \in {j \in DOMAIN recs : j > x}}
    <2> HIDE DEF e
    <2> QED
        BY <1>1 DEF After
<1>6. After(L, f, e1) = {recs[i] : i \in {j \in DOMAIN recs : j > x+1}}
    <2> HIDE DEF e1, o
    <2> QED
        BY <1>1, <1>4 DEF After
<1>7. /\ q \in Seq(EntryOf(L)) /\ Len(q) = n /\ DOMAIN q = 1..n
      /\ \A k \in 1..n : q[k] = IF k = n THEN e1 ELSE p[k]
    <2> DEFINE S == EntryOf(L)
    <2>1. q = [p EXCEPT ![n] = e1]
        OBVIOUS
    <2>2. p \in Seq(S) /\ e1 \in S /\ n \in 1..n
        BY <1>1, <1>4
    <2>3. n = Len(p)
        BY DEF n
    <2> HIDE DEF S, e1, q
    <2> QED
        <3>1. q \in Seq(S) /\ Len(q) = n /\ DOMAIN q = 1..n
            BY ONLY <2>1, <2>2, <2>3
        <3>2. \A k \in 1..n : q[k] = IF k = n THEN e1 ELSE p[k]
            BY ONLY <1>1, <2>1
        <3> QED
            BY <3>1, <3>2 DEF S
<1> HIDE DEF q, e1
<1>8. PlaceOK(L, f, q, v)
    <2>1. \A k \in 1..n : q[k].node = p[k].node
        <3>1. e1.node = p[n].node
            BY <1>4
        <3> QED
            BY <1>7, <3>1
    <2>2. 1 \in 1..n /\ n \in 1..n
        BY <1>1
    <2>3. q[1].node = v
        BY <1>1, <2>1, <2>2
    <2>4. ASSUME NEW k \in 1..n-1
          PROVE  Through(f, q[k], q[k+1].node)
        <3>1. k \in 1..n /\ k+1 \in 1..n /\ k # n
            BY <1>1
        <3>2. q[k] = p[k] /\ q[k+1].node = p[k+1].node
            BY <1>7, <2>1, <3>1
        <3> QED
            BY <1>1, <3>2
    <2>5. f[q[n].node+1].type = "l"
        BY <1>1, <2>1, <2>2
    <2>6. q[n].n <= Len(f[q[n].node+1].recs)
        <3>1. q[n].n = x+1 /\ q[n].node = o
            BY <1>4, <1>7, <2>2
        <3>2. Len(recs) \in Nat
            BY <1>3
        <3>3. x+1 <= Len(recs)
            <4> DEFINE l == Len(recs)
            <4>1. l \in Nat /\ x < l
                BY <1>1, <3>2
            <4> HIDE DEF l, x
            <4>2. x+1 <= l
                BY <1>2, <4>1
            <4> QED
                BY <4>2 DEF l
        <3> QED
            BY <3>1, <3>3
    <2> QED
        BY <1>1, <1>7, <2>3, <2>4, <2>5, <2>6 DEF PlaceOK
<1>9. x+1 \in DOMAIN recs /\ \A j \in DOMAIN recs : j > x <=> (j = x+1 \/ j > x+1)
    <2> DEFINE l == Len(recs)
    <2>1. DOMAIN recs = 1..l /\ l \in Nat /\ x < l
        BY <1>1, <1>3
    <2> HIDE DEF l, x, recs
    <2> QED
        BY <1>2, <2>1
<1>10. After(L, f, e) = {r0} \cup After(L, f, e1)
    <2> HIDE DEF e, recs, x
    <2> QED
        BY <1>5, <1>6, <1>9
<1>11. LeftOf(L, f, p) = {r0} \cup LeftOf(L, f, q)
    <2> HIDE DEF r0
    <2>1. n \in 1..n /\ q[n] = e1
        BY <1>1, <1>7
    <2> QED
        BY <1>1, <1>7, <1>10, <2>1 DEF LeftOf
<1>12. r0 \in L[o].recs
    <2> HIDE DEF x, recs
    <2> QED
        BY <1>3, <1>9 DEF RecordSet
<1>13. ASSUME NEW s \in LeftOf(L, f, q)
       PROVE  r0.key < s.key
    <2>1. PICK k \in 1..n : s \in After(L, f, q[k])
        BY <1>7 DEF LeftOf
    <2>2. CASE k = n
        <3>1. s \in After(L, f, e1)
            BY <1>7, <2>1, <2>2
        <3> HIDE DEF x, recs
        <3>2. PICK i \in DOMAIN recs : i > x+1 /\ s = recs[i]
            BY <1>6, <3>1
        <3>3. x+1 < i
            BY <1>2, <1>3, <3>2
        <3> QED
            BY <1>3, <1>9, <3>2, <3>3 DEF Sorted
    <2>3. CASE k # n
        <3>1. k \in 1..n-1 /\ n \in k+1..n
            BY <1>1, <2>3
        <3>2. s \in After(L, f, p[k])
            BY <1>7, <2>1, <2>3
        <3>3. \A r \in L[p[n].node].recs, t \in After(L, f, p[k]) : r.key < t.key
            <4>1. k \in 1..Len(p)-1 /\ n \in k+1..Len(p)
                BY <3>1 DEF n
            <4> QED
                BY <4>1, PathAhead
        <3> HIDE DEF r0
        <3> QED
            BY <1>12, <3>2, <3>3
    <2> QED
        BY <2>2, <2>3
<1> QED
    BY <1>8, <1>11, <1>13 DEF q, n

(* New cells behind the old change nothing for a path.                     *)
LEMMA PlaceKept ==
    ASSUME NEW L, NEW f, Labelled(L, f), NEW M, NEW g, Extends(M, L),
           \A o \in DOMAIN L : g[o+1] = f[o+1], NEW p, NEW v, PlaceOK(L, f, p, v)
    PROVE  PlaceOK(M, g, p, v) /\ LeftOf(M, g, p) = LeftOf(L, f, p)
<1> DEFINE n == Len(p)
<1>1. /\ p \in Seq(EntryOf(L)) /\ n \in Nat /\ n >= 1 /\ DOMAIN p = 1..n
      /\ \A k \in 1..n : p[k] \in EntryOf(L)
      /\ \A k \in 1..n-1 : Through(f, p[k], p[k+1].node)
      /\ f[p[n].node+1].type = "l" /\ p[1].node = v
      /\ p[n].n <= Len(f[p[n].node+1].recs)
    BY DEF PlaceOK
<1> HIDE DEF n
<1>2. \A k \in 1..n : p[k].node \in DOMAIN L /\ p[k].n \in Nat /\ g[p[k].node+1] = f[p[k].node+1]
    <2>1. \A e \in EntryOf(L) : e.node \in DOMAIN L /\ e.n \in Nat
        BY DEF EntryOf
    <2> QED
        BY <1>1, <2>1
<1>3. EntryOf(L) \subseteq EntryOf(M)
    BY DEF Extends, EntryOf
<1>4. p \in Seq(EntryOf(M))
    BY <1>1, <1>3
<1>5. \A k \in 1..n-1 : Through(g, p[k], p[k+1].node)
    <2>1. \A k \in 1..n-1 : k \in 1..n
        BY <1>1
    <2> QED
        BY <1>1, <1>2, <2>1 DEF Through
<1>6. PlaceOK(M, g, p, v)
    <2>1. n \in 1..n
        BY <1>1
    <2> QED
        BY <1>1, <1>2, <1>4, <1>5, <2>1 DEF PlaceOK, n
<1>7. \A k \in 1..n : After(M, g, p[k]) = After(L, f, p[k])
    <2> SUFFICES ASSUME NEW k \in 1..n
                 PROVE  After(M, g, p[k]) = After(L, f, p[k])
        OBVIOUS
    <2> DEFINE e    == p[k]
               o    == e.node
               node == f[o+1]
               offs == node.offs
    <2>1. o \in DOMAIN L /\ g[o+1] = node
        BY <1>2
    <2> HIDE DEF e
    <2>2. ASSUME node.type = "l"
          PROVE  After(M, g, e) = After(L, f, e)
        <3>1. After(L, f, e) = {node.recs[i] : i \in {j \in DOMAIN node.recs : j > e.n}}
            BY <2>2 DEF After
        <3>2. After(M, g, e) = {node.recs[i] : i \in {j \in DOMAIN node.recs : j > e.n}}
            BY <2>1, <2>2 DEF After
        <3> QED
            BY <3>1, <3>2
    <2>3. ASSUME node.type # "l"
          PROVE  After(M, g, e) = After(L, f, e)
        <3>1. After(L, f, e) = UNION {L[offs[i]].recs : i \in {j \in DOMAIN offs : j > e.n+1}}
            BY <2>3 DEF After
        <3>2. After(M, g, e) = UNION {M[offs[i]].recs : i \in {j \in DOMAIN offs : j > e.n+1}}
            BY <2>1, <2>3 DEF After
        <3>3. node.type = "b"
            BY <2>1, <2>3, LabelledIs
        <3>4. \A i \in DOMAIN offs : offs[i] \in DOMAIN L
            <4> HIDE DEF o
            <4> QED
                BY <2>1, <3>3, BranchCell
        <3>5. \A i \in DOMAIN offs : M[offs[i]].recs = L[offs[i]].recs
            BY <3>4 DEF Extends
        <3> HIDE DEF offs
        <3> QED
            BY <3>1, <3>2, <3>5
    <2>4. After(M, g, e) = After(L, f, e)
        BY <2>2, <2>3
    <2> QED
        BY <2>4 DEF e
<1>8. LeftOf(M, g, p) = LeftOf(L, f, p)
    BY <1>1, <1>7 DEF LeftOf
<1> QED
    BY <1>6, <1>8

-----------------------------------------------------------------------------
(* The invariant is kept.                                                  *)

(* The keys of the records of a map from a key on.                         *)
LEMMA KeysFrom ==
    ASSUME NEW m \in [Key -> Value \cup {NULL}], NEW from \in Key
    PROVE  {key \in from..MaxKey : m[key] # NULL} = {r.key : r \in {s \in RecordsOf(m) : from <= s.key}}
<1>1. from \in Nat /\ MaxKey \in Nat
    BY KeysAreNats, TreeAssumption
<1>2. \A key \in Key : key \in from..MaxKey <=> from <= key
    BY <1>1 DEF Key
<1>3. \A key \in from..MaxKey : key \in Key
    BY <1>1 DEF Key
<1>4. \A key \in Key : Rec(key, m[key]).key = key
    BY DEF Rec
<1> QED
    BY <1>2, <1>3, <1>4 DEF RecordsOf

(* No iterator.                                                            *)
LEMMA InitIter == IterInit => IterInv
<1> SUFFICES ASSUME IterInit
             PROVE  IterInv
    OBVIOUS
<1>1. TreeInv
    BY InitTree DEF IterInit
<1>2. PICK L : Labelled(L, file) /\ Represents(L, ver, want)
    BY <1>1 DEF TreeInv
<1>3. over = ver /\ snap = want /\ path = <<>> /\ due = {} /\ answer = expect /\ over = 0
    BY DEF IterInit, Init
<1>4. IterOK(L)
    BY <1>2, <1>3 DEF IterOK
<1> QED
    BY <1>1, <1>2, <1>3, <1>4 DEF IterInv, TreeInv

(* The iterator is put before the first key not below from.                *)
LEMMA StartKeeps ==
    ASSUME TreeInv, NEW L, Labelled(L, file), Represents(L, ver, want),
           over' \in Nat, snap' \in [Key -> Value \cup {NULL}], Represents(L, over', snap'),
           NEW p, NEW from \in Key, Start(p, from),
           \/ over' = 0 /\ p = <<>>
           \/ /\ over' # 0 /\ PlaceOK(L, file, p, over')
              /\ LeftOf(L, file, p) = {r \in L[over'].recs : from <= r.key}
    PROVE  IterInv'
<1>1. /\ path' = p /\ answer' = expect'
      /\ due' = {key \in from..MaxKey : snap'[key] # NULL}
      /\ file' = file /\ ver' = ver /\ want' = want
    BY DEF Start, tvars
<1>2. CASE over' = 0 /\ p = <<>>
    <2>1. \A key \in Key : snap'[key] = NULL
        BY <1>2 DEF Represents
    <2>2. \A key \in from..MaxKey : key \in Key
        BY KeysAreNats, TreeAssumption DEF Key
    <2>3. due' = {}
        BY <1>1, <2>1, <2>2
    <2>4. IterOK(L)'
        BY <1>1, <1>2, <2>3 DEF IterOK
    <2> QED
        BY <1>1, <2>4 DEF IterInv, TreeInv
<1>3. CASE /\ over' # 0 /\ PlaceOK(L, file, p, over')
           /\ LeftOf(L, file, p) = {r \in L[over'].recs : from <= r.key}
    <2>1. L[over'].recs = RecordsOf(snap')
        BY <1>3 DEF Represents
    <2>2. due' = {r.key : r \in {s \in RecordsOf(snap') : from <= s.key}}
        BY <1>1, KeysFrom
    <2>3. due' = {r.key : r \in LeftOf(L, file, p)}
        BY <1>3, <2>1, <2>2
    <2>4. IterOK(L)'
        BY <1>1, <1>3, <2>3 DEF IterOK
    <2> QED
        BY <1>1, <2>4 DEF IterInv, TreeInv
<1> QED
    BY <1>2, <1>3

(* aodbm_new_iterator,                                                     *)
LEMMA NewIteratorKeeps ==
    ASSUME TreeInv, NEW L, Labelled(L, file), Represents(L, ver, want), NewIterator
    PROVE  IterInv'
<1> DEFINE p == IF ver = 0 THEN <<>> ELSE FirstPath(file, ver)
<1>1. over' = ver /\ snap' = want /\ Start(p, 0)
    BY DEF NewIterator
<1>2. over' \in Nat /\ snap' \in [Key -> Value \cup {NULL}] /\ Represents(L, over', snap')
    BY <1>1 DEF TreeInv
<1>3. 0 \in Key
    BY TreeAssumption DEF Key
<1>4. CASE ver = 0
    <2>1. p = <<>>
        BY <1>4
    <2> HIDE DEF p
    <2> QED
        BY <1>1, <1>2, <1>3, <1>4, <2>1, StartKeeps
<1>5. CASE ver # 0
    <2>1. p = FirstPath(file, ver) /\ ver \in DOMAIN L
        BY <1>5 DEF Represents
    <2> HIDE DEF p
    <2>2. PlaceOK(L, file, p, ver) /\ LeftOf(L, file, p) = L[ver].recs
        BY <2>1, FirstPathIs
    <2>3. \A r \in L[ver].recs : 0 <= r.key
        <3>1. \A r \in L[ver].recs : r.key \in Nat
            BY <2>1, LabelledIs, KeysAreNats
        <3> QED
            BY <3>1
    <2>4. LeftOf(L, file, p) = {r \in L[ver].recs : 0 <= r.key}
        BY <2>2, <2>3
    <2> QED
        BY <1>1, <1>2, <1>3, <1>5, <2>2, <2>4, StartKeeps
<1> QED
    BY <1>4, <1>5

(* aodbm_iterate_from,                                                     *)
LEMMA IterateFromKeeps ==
    ASSUME TreeInv, NEW L, Labelled(L, file), Represents(L, ver, want),
           NEW key \in Key, IterateFrom(key)
    PROVE  IterInv'
<1> DEFINE p == PathTo(file, ver, key)
<1>1. over' = ver /\ snap' = want /\ Start(p, key) /\ ver # 0
    BY DEF IterateFrom
<1>2. over' \in Nat /\ snap' \in [Key -> Value \cup {NULL}] /\ Represents(L, over', snap')
    BY <1>1 DEF TreeInv
<1>3. ver \in DOMAIN L
    BY <1>1 DEF Represents
<1>4. PlaceOK(L, file, p, ver) /\ LeftOf(L, file, p) = {r \in L[ver].recs : key <= r.key}
    BY <1>3, PathToIs
<1> HIDE DEF p
<1> QED
    BY <1>1, <1>2, <1>4, StartKeeps

(* aodbm_iterator_goto                                                     *)
LEMMA IteratorGotoKeeps ==
    ASSUME TreeInv, NEW L, Labelled(L, file), Represents(L, ver, want),
           over \in Nat, snap \in [Key -> Value \cup {NULL}], Represents(L, over, snap),
           NEW key \in Key, IteratorGoto(key)
    PROVE  IterInv'
<1> DEFINE p == PathTo(file, over, key)
<1>1. over' = over /\ snap' = snap /\ Start(p, key) /\ over # 0
    BY DEF IteratorGoto
<1>2. over' \in Nat /\ snap' \in [Key -> Value \cup {NULL}] /\ Represents(L, over', snap')
    BY <1>1
<1>3. over \in DOMAIN L
    BY <1>1 DEF Represents
<1>4. PlaceOK(L, file, p, over) /\ LeftOf(L, file, p) = {r \in L[over].recs : key <= r.key}
    BY <1>3, PathToIs
<1> HIDE DEF p
<1> QED
    BY <1>1, <1>2, <1>4, StartKeeps

(* The keys of records.                                                    *)
KeySet(R) == {r.key : r \in R}

(* The first key that is due, and the record that is due with it.          *)
LEMMA FirstDue ==
    ASSUME NEW m \in [Key -> Value \cup {NULL}], NEW R, R \subseteq RecordsOf(m),
           NEW r0, NEW S, R = {r0} \cup S, \A s \in S : r0.key < s.key,
           NEW D, D = KeySet(R)
    PROVE  D # {} /\ Rec(Min(D), m[Min(D)]) = r0 /\ D \ {Min(D)} = KeySet(S)
<1>0. D = {r.key : r \in R}
    BY DEF KeySet
<1>1. r0 \in R
    OBVIOUS
<1>2. \A r \in RecordsOf(m) : r.key \in Key /\ r = Rec(r.key, m[r.key])
    BY DEF RecordsOf, Rec
<1>3. \A r \in R : r.key \in Nat
    BY <1>2, KeysAreNats
<1>4. D \in SUBSET Nat /\ D # {} /\ r0.key \in D
    BY <1>0, <1>1, <1>3
<1>5. Min(D) \in D /\ \A k \in D : Min(D) <= k
    BY <1>4, MinIs
<1> DEFINE d == Min(D)
<1>6. d \in D /\ d <= r0.key
    BY <1>4, <1>5
<1> HIDE DEF d
<1>7. d = r0.key
    <2>1. PICK r \in R : d = r.key
        BY <1>0, <1>6
    <2>2. CASE r \in S
        <3> DEFINE a == r0.key
        <3>1. a < d /\ d <= a /\ a \in Nat /\ d \in Nat
            BY <1>1, <1>3, <1>6, <2>1, <2>2
        <3> HIDE DEF a
        <3> QED
            BY ONLY <3>1
    <2> QED
        BY <2>1, <2>2
<1>8. Rec(d, m[d]) = r0
    BY <1>1, <1>2, <1>7
<1>9. \A s \in S : s.key # d
    <2> SUFFICES ASSUME NEW s \in S, s.key = d
                 PROVE  FALSE
        OBVIOUS
    <2>1. d < d /\ d \in Nat
        BY <1>1, <1>3, <1>7
    <2> QED
        BY ONLY <2>1
<1>10. D \ {d} = {r.key : r \in S}
    BY <1>0, <1>7, <1>9
<1> QED
    BY <1>4, <1>8, <1>10 DEF d, KeySet

(* and aodbm_iterator_next,                                                *)
LEMMA IteratorNextKeeps ==
    ASSUME TreeInv, NEW L, Labelled(L, file), Represents(L, ver, want),
           over \in Nat, snap \in [Key -> Value \cup {NULL}], IterOK(L), IteratorNext
    PROVE  IterInv'
<1> DEFINE p    == IF path # <<>> /\ AtLeafEnd(file, path) THEN NextLeaf(file, path) ELSE path
           leaf == Last(p)
<1>1. /\ Expect /\ file' = file /\ ver' = ver /\ want' = want /\ over' = over /\ snap' = snap
      /\ \/ p = <<>> /\ path' = <<>> /\ answer' = NULL
         \/ /\ p # <<>> /\ path' = [p EXCEPT ![Len(p)].n = @ + 1]
            /\ answer' = file[leaf.node + 1].recs[leaf.n + 1]
    BY DEF IteratorNext, tvars
<1>2. \/ p = <<>> /\ due = {}
      \/ /\ over # 0 /\ PlaceOK(L, file, p, over) /\ BeforeRecord(file, p)
         /\ due = {r.key : r \in LeftOf(L, file, p)}
    <2>1. CASE path = <<>> /\ due = {}
        BY <2>1
    <2>2. CASE /\ over # 0 /\ PlaceOK(L, file, path, over)
               /\ due = {r.key : r \in LeftOf(L, file, path)}
        <3> DEFINE n == Len(path)
                   e == path[n]
                   z == Len(file[e.node+1].recs)
        <3>1. path # <<>> /\ Last(path) = e
            BY <2>2 DEF PlaceOK, Last
        <3>2. AtLeafEnd(file, path) <=> e.n = z
            BY <3>1 DEF AtLeafEnd
        <3>3. CASE e.n = z
            <4>1. p = NextLeaf(file, path)
                BY <3>1, <3>2, <3>3
            <4> HIDE DEF p
            <4>2. \/ p = <<>> /\ LeftOf(L, file, path) = {}
                  \/ /\ PlaceOK(L, file, p, over) /\ LeftOf(L, file, p) = LeftOf(L, file, path)
                     /\ BeforeRecord(file, p)
                BY <2>2, <3>3, <4>1, NextLeafIs
            <4> QED
                BY <2>2, <4>2 DEF p
        <3>4. CASE e.n # z
            <4>1. p = path
                BY <3>1, <3>2, <3>4
            <4>2. e \in EntryOf(L) /\ file[e.node+1].type = "l" /\ e.n <= z
                BY <2>2 DEF PlaceOK
            <4>3. e.n \in Nat /\ z \in Nat
                <5>1. e.node \in DOMAIN L /\ e.n \in Nat
                    BY <4>2 DEF EntryOf
                <5> HIDE DEF e
                <5>2. file[e.node+1].recs \in Seq(Record)
                    BY <4>2, <5>1, LeafCell
                <5> QED
                    BY <5>1, <5>2
            <4>4. e.n < z
                <5> DEFINE a == e.n
                <5>1. a \in Nat /\ z \in Nat /\ a <= z /\ a # z
                    BY <3>4, <4>2, <4>3
                <5> HIDE DEF a, z
                <5> QED
                    BY <5>1 DEF a
            <4>5. BeforeRecord(file, path)
                BY <4>4 DEF BeforeRecord
            <4> QED
                BY <2>2, <4>1, <4>5
        <3> QED
            BY <3>3, <3>4
    <2> QED
        BY <2>1, <2>2 DEF IterOK
<1> HIDE DEF p
<1>3. Represents(L, over', snap') /\ over' \in Nat /\ snap' \in [Key -> Value \cup {NULL}] /\ TreeInv'
    <2>1. Represents(L, over, snap)
        BY DEF IterOK
    <2> QED
        BY <1>1, <2>1 DEF TreeInv
<1>4. CASE p = <<>> /\ due = {}
    <2>1. path' = <<>> /\ answer' = NULL /\ expect' = NULL /\ due' = {}
        BY <1>1, <1>4 DEF Expect
    <2>2. IterOK(L)'
        BY <1>3, <2>1 DEF IterOK
    <2> QED
        BY <1>1, <1>3, <2>1, <2>2 DEF IterInv
<1>5. CASE /\ over # 0 /\ PlaceOK(L, file, p, over) /\ BeforeRecord(file, p)
           /\ due = {r.key : r \in LeftOf(L, file, p)}
    <2> DEFINE q  == [p EXCEPT ![Len(p)].n = @ + 1]
               r0 == file[p[Len(p)].node+1].recs[p[Len(p)].n+1]
    <2>1. p # <<>> /\ Last(p) = p[Len(p)]
        BY <1>5 DEF PlaceOK, Last
    <2>2. path' = q /\ answer' = r0
        BY <1>1, <2>1
    <2>3. /\ PlaceOK(L, file, q, over)
          /\ LeftOf(L, file, p) = {r0} \cup LeftOf(L, file, q)
          /\ \A s \in LeftOf(L, file, q) : r0.key < s.key
        BY <1>5, NextRecord
    <2> HIDE DEF q, r0
    <2>4. LeftOf(L, file, p) \subseteq RecordsOf(snap)
        <3>1. LeftOf(L, file, p) \subseteq L[over].recs
            BY <1>5, LeftBelow
        <3>2. L[over].recs = RecordsOf(snap)
            BY <1>5 DEF IterOK, Represents
        <3> QED
            BY <3>1, <3>2
    <2>5. /\ due # {} /\ Rec(Min(due), snap[Min(due)]) = r0
          /\ due \ {Min(due)} = {r.key : r \in LeftOf(L, file, q)}
        <3> DEFINE R == LeftOf(L, file, p)
                   S == LeftOf(L, file, q)
        <3>1. R \subseteq RecordsOf(snap) /\ R = {r0} \cup S /\ due = KeySet(R)
            BY <1>5, <2>3, <2>4 DEF KeySet
        <3>2. \A s \in S : r0.key < s.key
            BY <2>3
        <3>4. snap \in [Key -> Value \cup {NULL}]
            OBVIOUS
        <3> HIDE DEF R, S
        <3>3. due # {} /\ Rec(Min(due), snap[Min(due)]) = r0 /\ due \ {Min(due)} = KeySet(S)
            BY ONLY <3>1, <3>2, <3>4, FirstDue
        <3> QED
            BY <3>3 DEF S, KeySet
    <2>6. expect' = r0 /\ due' = {r.key : r \in LeftOf(L, file, q)}
        BY <1>1, <2>5 DEF Expect
    <2>7. IterOK(L)'
        BY <1>1, <1>3, <1>5, <2>2, <2>3, <2>6 DEF IterOK
    <2> QED
        BY <1>1, <1>3, <2>2, <2>6, <2>7 DEF IterInv
<1> QED
    BY <1>2, <1>4, <1>5

(* and the calls that append other versions.                               *)
LEMMA OthersKeep ==
    ASSUME TreeInv, NEW L, Labelled(L, file), Represents(L, ver, want),
           over \in Nat, snap \in [Key -> Value \cup {NULL}], answer = expect, IterOK(L),
           [Next]_tvars, UNCHANGED iter
    PROVE  IterInv'
<1>1. /\ over' = over /\ path' = path /\ answer' = answer /\ snap' = snap
      /\ due' = due /\ expect' = expect
    BY DEF iter
<1>2. TreeInv' /\ Kept(L)
    BY NextKeepsTree
<1>3. PICK M : /\ Labelled(M, file') /\ Extends(M, L) /\ Represents(M, ver', want')
               /\ \A o \in DOMAIN L : file'[o+1] = file[o+1]
    BY <1>2 DEF Kept
<1>4. Represents(M, over, snap)
    BY <1>3 DEF IterOK, Represents, Extends
<1>5. CASE path = <<>> /\ due = {}
    <2>1. IterOK(M)'
        BY <1>1, <1>4, <1>5 DEF IterOK
    <2> QED
        BY <1>1, <1>2, <1>3, <2>1 DEF IterInv
<1>6. CASE /\ over # 0 /\ PlaceOK(L, file, path, over)
           /\ due = {r.key : r \in LeftOf(L, file, path)}
    <2>1. PlaceOK(M, file', path, over) /\ LeftOf(M, file', path) = LeftOf(L, file, path)
        BY <1>3, <1>6, PlaceKept
    <2>2. IterOK(M)'
        BY <1>1, <1>4, <1>6, <2>1 DEF IterOK
    <2> QED
        BY <1>1, <1>2, <1>3, <2>2 DEF IterInv
<1> QED
    BY <1>5, <1>6 DEF IterOK

-----------------------------------------------------------------------------
(* What is left is what is due, whatever the iterator and other calls do.  *)
THEOREM IterInvInvariant == IterSpec => []IterInv
<1>1. ASSUME IterInv, [IterNext]_ivars
      PROVE  IterInv'
    <2>1. /\ TreeInv /\ over \in Nat /\ snap \in [Key -> Value \cup {NULL}] /\ answer = expect
        BY <1>1 DEF IterInv
    <2>2. PICK L : Labelled(L, file) /\ Represents(L, ver, want) /\ IterOK(L)
        BY <1>1 DEF IterInv
    <2>3. CASE UNCHANGED ivars
        <3>1. UNCHANGED tvars /\ UNCHANGED iter
            BY <2>3 DEF ivars
        <3> QED
            BY <2>1, <2>2, <3>1, OthersKeep
    <2>4. CASE Next /\ UNCHANGED iter
        BY <2>1, <2>2, <2>4, OthersKeep
    <2>5. CASE NewIterator
        BY <2>1, <2>2, <2>5, NewIteratorKeeps
    <2>6. ASSUME NEW key \in Key, IterateFrom(key)
          PROVE  IterInv'
        BY <2>1, <2>2, <2>6, IterateFromKeeps
    <2>7. ASSUME NEW key \in Key, IteratorGoto(key)
          PROVE  IterInv'
        <3>1. Represents(L, over, snap)
            BY <2>2 DEF IterOK
        <3> QED
            BY <2>1, <2>2, <2>7, <3>1, IteratorGotoKeeps
    <2>8. CASE IteratorNext
        BY <2>1, <2>2, <2>8, IteratorNextKeeps
    <2> QED
        BY <1>1, <2>3, <2>4, <2>5, <2>6, <2>7, <2>8 DEF IterNext, Iterate
<1> QED
    BY <1>1, InitIter, PTL DEF IterSpec

(* IteratorFollowsTheMap: aodbm_iterator_next returns every record of its   *)
(* version from where the iterator was put, once, in key order, and then   *)
(* NULL, while aodbm_set and aodbm_del make other versions.                *)
THEOREM IteratorRight == IterSpec => []IteratorFollowsTheMap
<1>1. IterInv => IteratorFollowsTheMap
    BY DEF IterInv, IteratorFollowsTheMap
<1> QED
    BY <1>1, IterInvInvariant, PTL
=============================================================================
