---------------------------- MODULE AodbmListProofs ----------------------------
(***************************************************************************)
(* The links of aodbm_list are sound and implement the sequences of        *)
(* ItemSequences, for any nodes, lists and items, as long as nothing is    *)
(* inserted behind the last item (TailInsert): that leaves list->tail      *)
(* behind.                                                                 *)
(*                                                                         *)
(* The invariant names the nodes of each list: a function S from lists to  *)
(* sequences of nodes, each node on one list at one place, with which the  *)
(* links, the ends, the lengths and the iterator agree.                    *)
(*                                                                         *)
(* The second half does the same for the ropes of aodbm_rope: their chains *)
(* are sound and give the strings they were put together to be, without a  *)
(* condition.                                                              *)
(***************************************************************************)
EXTENDS AodbmList, AodbmRope, FiniteSetTheorems, SequenceTheorems, WellFoundedInduction, TLAPS

(* The element at i, NULL where there is none: in front of the first and   *)
(* behind the last.                                                        *)
At(s, i) == IF i \in 1..Len(s) THEN s[i] ELSE NULL

(* S has the lists, and each node on one of them at one place.             *)
Placed(S) ==
    /\ DOMAIN S = Lists
    /\ \A l \in Lists : S[l] \in Seq(Nodes)
    /\ \A l, m \in Lists : \A i \in 1..Len(S[l]), j \in 1..Len(S[m]) :
           S[l][i] = S[m][j] => l = m /\ i = j
    /\ \A n \in Nodes : \E l \in Lists : \E i \in 1..Len(S[l]) : S[l][i] = n

EndsAgree(S) ==
    \A l \in Lists : /\ head[l] = At(S[l], 1) /\ tail[l] = At(S[l], Len(S[l]))
                     /\ len[l] = Len(S[l])

LinksAgree(S) ==
    \A l \in Lists : \A i \in 1..Len(S[l]) :
        next[S[l][i]] = At(S[l], i+1) /\ prev[S[l][i]] = At(S[l], i-1)

FieldsOK ==
    /\ Nodes \subseteq Node /\ DOMAIN prev = Nodes /\ DOMAIN item = Nodes
    /\ Lists \subseteq List /\ DOMAIN tail = Lists /\ DOMAIN len = Lists

(* The iterator is in place p of its list, 0 when it is finished.          *)
StandsAt(S, p) == p \in 0..Len(S[it.list]) /\ it.cur = At(S[it.list], p)

IteratorOK(S) ==
    \/ it = NoIterator
    \/ /\ it = [list |-> it.list, cur |-> it.cur]
       /\ it.list \in Lists /\ \E p \in Nat : StandsAt(S, p)

Agrees(S) == Placed(S) /\ EndsAgree(S) /\ LinksAgree(S)

ListInv == FieldsOK /\ \E S : Agrees(S) /\ IteratorOK(S)

-----------------------------------------------------------------------------
(* A set of naturals that is not empty has a least one.                    *)
LEMMA LeastNat ==
    ASSUME NEW S, S \subseteq Nat, S # {}
    PROVE  \E m \in S : \A n \in S : m <= n
<1>1. PICK m \in S : \A n \in S : <<n, m>> \notin OpToRel(<, Nat)
    BY WFMin, NatLessThanWellFounded, Zenon
<1>2. \A n \in S : ~(n < m)
    BY <1>1, Zenon DEF OpToRel
<1>3. \A n \in S : n \in Nat /\ m \in Nat
    OBVIOUS
<1> QED
    BY <1>2, <1>3

(* A sequence that repeats nothing is no longer than its set is large.     *)
LEMMA DistinctBound ==
    ASSUME NEW T, IsFiniteSet(T), NEW s \in Seq(T),
           \A i, j \in 1..Len(s) : s[i] = s[j] => i = j
    PROVE  Len(s) <= Cardinality(T) /\ Cardinality(T) \in Nat
<1>1. Len(s) \in Nat /\ Cardinality(1..Len(s)) = Len(s)
    <2>1. Len(s) \in Nat /\ 1 \in Int /\ Len(s) \in Int
        OBVIOUS
    <2>2. Cardinality(1..Len(s)) = IF 1 > Len(s) THEN 0 ELSE Len(s)-1+1
        BY <2>1, FS_Interval
    <2> QED
        BY <2>1, <2>2
<1>2. s \in Injection(1..Len(s), T)
    BY DEF Injection, IsInjective
<1>3. Cardinality(1..Len(s)) <= Cardinality(T)
    BY <1>2, FS_Injection
<1> QED
    BY <1>1, <1>3, FS_CardinalityType

-----------------------------------------------------------------------------
(* Following the links.                                                    *)

WalkBody(link, p, f) ==
    [k \in 0..Cardinality(Node) |->
        IF k = 0 THEN << >>
        ELSE IF \/ Len(f[k-1]) < k-1
                \/ (IF k = 1 THEN p ELSE link[Last(f[k-1])]) \notin Nodes
             THEN f[k-1]
             ELSE Append(f[k-1], IF k = 1 THEN p ELSE link[Last(f[k-1])])]

(* The first k elements of s, or all there are.                            *)
UpTo(s, k) == IF k <= Len(s) THEN SubSeq(s, 1, k) ELSE s

(* One step along the links of s.                                          *)
LEMMA WalkStep ==
    ASSUME NEW T, NULL \notin T, NEW s \in Seq(T), NEW p, p = At(s, 1), NEW link,
           \A i \in 1..Len(s) : link[s[i]] = At(s, i+1), NEW k \in Nat, k > 0
    PROVE  LET met == UpTo(s, k-1)
               n   == IF k = 1 THEN p ELSE link[Last(met)]
           IN  UpTo(s, k) = IF Len(met) < k-1 \/ n \notin T THEN met ELSE Append(met, n)
<1> DEFINE met == UpTo(s, k-1)
           n   == IF k = 1 THEN p ELSE link[Last(met)]
<1>1. Len(s) \in Nat /\ k-1 \in Nat
    OBVIOUS
<1>2. CASE k-1 > Len(s)
    <2>1. met = s /\ UpTo(s, k) = s /\ Len(met) < k-1
        BY <1>1, <1>2 DEF UpTo
    <2> QED
        BY <2>1
<1>3. CASE k-1 <= Len(s)
    <2>1. met = SubSeq(s, 1, k-1) /\ Len(met) = k-1 /\ \A i \in 1..k-1 : met[i] = s[i]
        BY <1>1, <1>3 DEF UpTo
    <2>2. n = At(s, k)
        <3>1. CASE k = 1
            BY <3>1
        <3>2. CASE k # 1
            <4>1. k-1 \in 1..Len(s) /\ k-1 \in 1..k-1
                BY <1>1, <1>3, <3>2
            <4>2. Last(met) = s[k-1]
                BY <2>1, <4>1 DEF Last
            <4>3. n = link[s[k-1]]
                BY <3>2, <4>2
            <4>4. (k-1)+1 = k
                OBVIOUS
            <4> QED
                BY <4>1, <4>3, <4>4
        <3> QED
            BY <3>1, <3>2
    <2>3. CASE k <= Len(s)
        <3>1. k \in 1..Len(s) /\ n = s[k] /\ n \in T
            BY <1>1, <2>2, <2>3 DEF At
        <3>2. UpTo(s, k) = SubSeq(s, 1, k)
            BY <2>3 DEF UpTo
        <3>3. SubSeq(s, 1, k) = Append(SubSeq(s, 1, k-1), s[k])
            BY <1>1, <3>1
        <3> HIDE DEF met, n
        <3> QED
            BY <2>1, <3>1, <3>2, <3>3 DEF met, n
    <2>4. CASE k > Len(s)
        <3>1. k \notin 1..Len(s) /\ n = NULL /\ n \notin T
            BY <1>1, <2>2, <2>4 DEF At
        <3>2. k-1 = Len(s) /\ UpTo(s, k) = s
            BY <1>1, <1>3, <2>4 DEF UpTo
        <3>3. met = s
            BY <1>1, <2>1, <3>2
        <3> HIDE DEF met, n
        <3> QED
            BY <3>1, <3>2, <3>3 DEF met, n
    <2> QED
        BY <1>1, <2>3, <2>4
<1> QED
    BY <1>1, <1>2, <1>3

(* A chain along the links of s is s.                                      *)
LEMMA ChainIs ==
    ASSUME NULL \notin Nodes, NEW s \in Seq(Nodes), NEW p, p = At(s, 1), NEW link,
           \A i \in 1..Len(s) : link[s[i]] = At(s, i+1),
           Cardinality(Node) \in Nat, Len(s) <= Cardinality(Node)
    PROVE  Chain(link, p) = s
<1> DEFINE C == Cardinality(Node)
           T == Nodes
           g == [k \in 0..C |-> UpTo(s, k)]
           walk == CHOOSE f : f = WalkBody(link, p, f)
<1>0. UpTo(s, 0) = << >>
    BY DEF UpTo
<1>1. ASSUME NEW k \in 0..C, k # 0
      PROVE  LET met == UpTo(s, k-1)
                 n   == IF k = 1 THEN p ELSE link[Last(met)]
             IN  UpTo(s, k) = IF Len(met) < k-1 \/ n \notin T THEN met ELSE Append(met, n)
    <2>1. k \in Nat /\ k > 0 /\ NULL \notin T /\ s \in Seq(T)
        BY <1>1
    <2> HIDE DEF T
    <2> QED
        BY <2>1, WalkStep
<1>2. g = WalkBody(link, p, g)
    <2>1. \A k \in 0..C : k # 0 => g[k-1] = UpTo(s, k-1)
        OBVIOUS
    <2> QED
        BY <1>0, <1>1, <2>1 DEF WalkBody
<1> HIDE DEF g
<1>3. walk = WalkBody(link, p, walk)
    BY <1>2, Zenon
<1>4. Chain(link, p) = walk[C]
    BY Zenon DEF Chain, WalkBody
<1> HIDE DEF walk
<1>5. ASSUME walk[C] # s
      PROVE  FALSE
    <2> DEFINE bad == {k \in 0..C : walk[k] # UpTo(s, k)}
    <2>1. UpTo(s, C) = s
        BY DEF UpTo
    <2>2. C \in bad /\ bad \subseteq Nat
        BY <1>5, <2>1
    <2> HIDE DEF bad
    <2>3. PICK m \in bad : \A k \in bad : m <= k
        BY <2>2, LeastNat
    <2>4. m \in 0..C /\ walk[m] # UpTo(s, m)
        BY <2>3 DEF bad
    <2>5. m # 0
        BY <1>0, <1>3, <2>4 DEF WalkBody
    <2>6. m-1 \in 0..C /\ m-1 \notin bad
        BY <2>2, <2>3, <2>4, <2>5
    <2>7. walk[m-1] = UpTo(s, m-1)
        BY <2>6 DEF bad
    <2> DEFINE met == UpTo(s, m-1)
               n   == IF m = 1 THEN p ELSE link[Last(met)]
    <2>8. UpTo(s, m) = IF Len(met) < m-1 \/ n \notin T THEN met ELSE Append(met, n)
        BY <1>1, <2>4, <2>5
    <2>9. walk[m] = IF Len(walk[m-1]) < m-1
                       \/ (IF m = 1 THEN p ELSE link[Last(walk[m-1])]) \notin Nodes
                    THEN walk[m-1]
                    ELSE Append(walk[m-1], IF m = 1 THEN p ELSE link[Last(walk[m-1])])
        <3>1. m \in 0..Cardinality(Node) /\ walk = WalkBody(link, p, walk)
            BY <1>3, <2>4
        <3> QED
            BY ONLY <2>5, <3>1 DEF WalkBody
    <2> QED
        BY <2>4, <2>7, <2>8, <2>9
<1> QED
    BY <1>4, <1>5

-----------------------------------------------------------------------------
(* Sequences with one element more, one less, turned round.                *)

(* t is s with e behind the first p.                                       *)
IsInserted(T, s, p, e, t) ==
    /\ t \in Seq(T) /\ Len(t) = Len(s)+1
    /\ \A i \in 1..p : t[i] = s[i]
    /\ t[p+1] = e
    /\ \A i \in p+2..Len(s)+1 : t[i] = s[i-1]

(* t is s without the one at p.                                            *)
IsRemoved(T, s, p, t) ==
    /\ t \in Seq(T) /\ Len(t) = Len(s)-1
    /\ \A i \in 1..Len(s)-1 : t[i] = IF i < p THEN s[i] ELSE s[i+1]

(* The elements of a sequence with e behind the first p.                   *)
LEMMA InsertedIs ==
    ASSUME NEW T, NEW s \in Seq(T), NEW p \in 0..Len(s), NEW e \in T
    PROVE  IsInserted(T, s, p, e, InsertAt(s, p+1, e))
<1> DEFINE a == SubSeq(s, 1, p)
           b == SubSeq(s, p+1, Len(s))
           c == a \o <<e>>
           t == c \o b
<1>1. Len(s) \in Nat /\ p \in Nat /\ p <= Len(s)
    OBVIOUS
<1>2. a \in Seq(T) /\ Len(a) = p /\ \A i \in 1..p : a[i] = s[i]
    BY <1>1
<1>3. b \in Seq(T) /\ Len(b) = Len(s)-p /\ \A i \in 1..Len(s)-p : b[i] = s[p+i]
    BY <1>1
<1> HIDE DEF a, b
<1>4. c \in Seq(T) /\ Len(c) = p+1 /\ c[p+1] = e /\ \A i \in 1..p : c[i] = s[i]
    BY <1>1, <1>2
<1> HIDE DEF c
<1>5. /\ t \in Seq(T) /\ Len(t) = Len(s)+1
      /\ \A i \in 1..p+1 : t[i] = c[i]
      /\ \A i \in 1..Len(s)+1 : i > p+1 => t[i] = b[i-(p+1)]
    BY <1>1, <1>3, <1>4
<1> HIDE DEF t
<1>6. /\ \A i \in 1..p : t[i] = s[i]
      /\ t[p+1] = e
      /\ \A i \in p+2..Len(s)+1 : t[i] = s[i-1]
    <2>1. ASSUME NEW i \in 1..p
          PROVE  t[i] = s[i]
        <3>1. i \in 1..p+1
            BY <1>1
        <3> QED
            BY <1>4, <1>5, <3>1
    <2>2. t[p+1] = e
        BY <1>1, <1>4, <1>5
    <2>3. ASSUME NEW i \in p+2..Len(s)+1
          PROVE  t[i] = s[i-1]
        <3>1. i \in 1..Len(s)+1 /\ i > p+1
            BY <1>1
        <3>2. i-(p+1) \in 1..Len(s)-p /\ p+(i-(p+1)) = i-1
            BY <1>1, <3>1
        <3> QED
            BY <1>3, <1>5, <3>1, <3>2
    <2> QED
        BY <2>1, <2>2, <2>3
<1>7. InsertAt(s, p+1, e) = t
    <2>1. (p+1)-1 = p
        BY <1>1
    <2> QED
        BY <2>1 DEF InsertAt, t, c, a, b
<1> QED
    BY <1>5, <1>6, <1>7 DEF IsInserted

(* The elements of a sequence without the one at p.                        *)
LEMMA RemovedIs ==
    ASSUME NEW T, NEW s \in Seq(T), NEW p \in 1..Len(s)
    PROVE  IsRemoved(T, s, p, RemoveAt(s, p))
<1> DEFINE a == SubSeq(s, 1, p-1)
           b == SubSeq(s, p+1, Len(s))
           t == a \o b
<1>1. Len(s) \in Nat /\ p \in Nat /\ p <= Len(s) /\ 1 <= p
    OBVIOUS
<1>2. a \in Seq(T) /\ Len(a) = p-1 /\ \A i \in 1..p-1 : a[i] = s[i]
    BY <1>1
<1>3. b \in Seq(T) /\ Len(b) = Len(s)-p /\ \A i \in 1..Len(s)-p : b[i] = s[p+i]
    BY <1>1
<1> HIDE DEF a, b
<1>5. /\ t \in Seq(T) /\ Len(t) = Len(s)-1
      /\ \A i \in 1..p-1 : t[i] = a[i]
      /\ \A i \in 1..Len(s)-1 : i > p-1 => t[i] = b[i-(p-1)]
    <2>1. /\ t \in Seq(T) /\ Len(t) = Len(a) + Len(b)
          /\ \A i \in 1..Len(a)+Len(b) : t[i] = IF i <= Len(a) THEN a[i] ELSE b[i-Len(a)]
        BY <1>2, <1>3, ConcatProperties
    <2>2. Len(a)+Len(b) = Len(s)-1
        BY <1>1, <1>2, <1>3
    <2> HIDE DEF t
    <2>3. \A i \in 1..p-1 : i \in 1..Len(s)-1 /\ i <= Len(a)
        BY <1>1, <1>2
    <2> QED
        BY <1>2, <2>1, <2>2, <2>3
<1> HIDE DEF t
<1>6. ASSUME NEW i \in 1..Len(s)-1
      PROVE  t[i] = IF i < p THEN s[i] ELSE s[i+1]
    <2>1. CASE i < p
        <3>1. i \in 1..p-1
            BY <1>1, <2>1
        <3> QED
            BY <1>2, <1>5, <2>1, <3>1
    <2>2. CASE i >= p
        <3>1. i-(p-1) \in 1..Len(s)-p /\ p+(i-(p-1)) = i+1 /\ i > p-1
            BY <1>1, <2>2
        <3> QED
            BY <1>1, <1>3, <1>5, <2>2, <3>1
    <2> QED
        BY <1>1, <2>1, <2>2
<1>7. RemoveAt(s, p) = t
    BY DEF RemoveAt, t, a, b
<1> QED
    BY <1>5, <1>6, <1>7 DEF IsRemoved

(* Where its elements are.                                                 *)
LEMMA AtInserted ==
    ASSUME NEW T, NEW s \in Seq(T), NEW p \in 0..Len(s), NEW e \in T, NEW j \in Int
    PROVE  At(InsertAt(s, p+1, e), j)
               = IF j <= p THEN At(s, j) ELSE IF j = p+1 THEN e ELSE At(s, j-1)
<1> DEFINE t == InsertAt(s, p+1, e)
<1>1. /\ Len(t) = Len(s)+1
      /\ \A i \in 1..p : t[i] = s[i]
      /\ t[p+1] = e
      /\ \A i \in p+2..Len(s)+1 : t[i] = s[i-1]
    BY InsertedIs DEF IsInserted
<1>2. Len(s) \in Nat /\ p \in Nat /\ p <= Len(s)
    OBVIOUS
<1> HIDE DEF t
<1>3. At(t, j) = IF j <= p THEN At(s, j) ELSE IF j = p+1 THEN e ELSE At(s, j-1)
    BY <1>1, <1>2 DEF At
<1> QED
    BY <1>3 DEF t

(* Where its elements are with one less.                                   *)
LEMMA AtRemoved ==
    ASSUME NEW T, NEW s \in Seq(T), NEW p \in 1..Len(s), NEW j \in Int
    PROVE  At(RemoveAt(s, p), j) = IF j < p THEN At(s, j) ELSE At(s, j+1)
<1> DEFINE t == RemoveAt(s, p)
<1>1. /\ Len(t) = Len(s)-1
      /\ \A i \in 1..Len(s)-1 : t[i] = IF i < p THEN s[i] ELSE s[i+1]
    BY RemovedIs DEF IsRemoved
<1>2. Len(s) \in Nat /\ p \in Nat /\ p <= Len(s) /\ 1 <= p
    OBVIOUS
<1> HIDE DEF t
<1>3. At(t, j) = IF j < p THEN At(s, j) ELSE At(s, j+1)
    BY <1>1, <1>2 DEF At
<1> QED
    BY <1>3 DEF t

(* What is at a place of a sequence, or nothing.                           *)
LEMMA AtType ==
    ASSUME NEW T, NEW s \in Seq(T), NEW i \in Int
    PROVE  At(s, i) \in T \cup {NULL} /\ (i \in 1..Len(s) => At(s, i) = s[i])
    BY DEF At

-----------------------------------------------------------------------------
(* What the invariant says.                                                *)

(* A node has one place.                                                   *)
LEMMA SamePlace ==
    ASSUME NEW S, Placed(S), NEW l \in Lists, NEW m \in Lists,
           NEW i \in 1..Len(S[l]), NEW j \in 1..Len(S[m]), S[l][i] = S[m][j]
    PROVE  l = m /\ i = j
    BY DEF Placed

(* The nodes met from the head are those of S, and back from the tail the  *)
(* same the other way round.                                               *)
LEMMA ForwardIs ==
    ASSUME FieldsOK, NEW S, Agrees(S), NEW l \in Lists
    PROVE  Forward(l) = S[l] /\ Backward(l) = Reverse(S[l])
<1> DEFINE s == S[l]
           r == Reverse(s)
           n == Len(s)
<1>0. \A i, j \in 1..Len(s) : s[i] = s[j] => i = j
    BY SamePlace DEF Agrees
<1>1. /\ s \in Seq(Nodes)
      /\ head[l] = At(s, 1) /\ tail[l] = At(s, Len(s))
      /\ \A i \in 1..Len(s) : next[s[i]] = At(s, i+1) /\ prev[s[i]] = At(s, i-1)
    BY DEF Agrees, Placed, EndsAgree, LinksAgree
<1>2. NULL \notin Nodes /\ IsFiniteSet(Node) /\ s \in Seq(Node)
    BY <1>1, HeapAssumption DEF FieldsOK
<1>3. Cardinality(Node) \in Nat /\ Len(s) <= Cardinality(Node)
    BY <1>0, <1>2, DistinctBound
<1>4. Forward(l) = s
    BY <1>1, <1>2, <1>3, ChainIs DEF Forward
<1>5. /\ r \in Seq(Nodes) /\ Len(r) = n /\ n \in Nat
      /\ \A i \in 1..n : r[i] = s[(n-i)+1]
    BY <1>1 DEF Reverse
<1> HIDE DEF r
<1>6. \A i \in 1..n : /\ (n-i)+1 \in 1..n
                      /\ (n-(i+1))+1 = ((n-i)+1)-1
                      /\ i+1 \in 1..n <=> ((n-i)+1)-1 \in 1..n
    <2>1. n \in Nat
        BY <1>5
    <2> HIDE DEF n
    <2>2. \A i \in 1..n : (n-i)+1 \in 1..n /\ (n-(i+1))+1 = ((n-i)+1)-1
        BY ONLY <2>1
    <2>3. \A i \in 1..n : i+1 \in 1..n <=> ((n-i)+1)-1 \in 1..n
        BY ONLY <2>1
    <2> QED
        BY <2>2, <2>3
<1>7. tail[l] = At(r, 1)
    <2>1. CASE n = 0
        BY <1>1, <1>5, <2>1 DEF At
    <2>2. CASE n # 0
        <3>1. 1 \in 1..n /\ n \in 1..n /\ (n-1)+1 = n
            BY <1>5, <2>2
        <3> QED
            BY <1>1, <1>5, <3>1 DEF At
    <2> QED
        BY <2>1, <2>2
<1>8. ASSUME NEW i \in 1..n
      PROVE  prev[r[i]] = At(r, i+1)
    <2>1. r[i] = s[(n-i)+1] /\ prev[s[(n-i)+1]] = At(s, ((n-i)+1)-1)
        BY <1>1, <1>5, <1>6
    <2>2. At(r, i+1) = At(s, ((n-i)+1)-1)
        <3>1. CASE i+1 \in 1..n
            BY <1>5, <1>6, <3>1 DEF At
        <3>2. CASE i+1 \notin 1..n
            BY <1>5, <1>6, <3>2 DEF At
        <3> QED
            BY <3>1, <3>2
    <2> QED
        BY <2>1, <2>2
<1>9. Backward(l) = r
    <2>1. \A i \in 1..Len(r) : prev[r[i]] = At(r, i+1)
        BY <1>5, <1>8
    <2> QED
        BY <1>2, <1>3, <1>5, <1>7, <2>1, ChainIs DEF Backward
<1> QED
    BY <1>4, <1>9 DEF r

(* No pointer dangles, and no node is lost or shared.                      *)
LEMMA InvSound == ListInv => LinksSound
<1> SUFFICES ASSUME ListInv
             PROVE  LinksSound
    OBVIOUS
<1>1. FieldsOK
    BY DEF ListInv
<1>2. PICK S : Agrees(S) /\ IteratorOK(S)
    BY DEF ListInv
<1>3. \A l \in Lists : Forward(l) = S[l] /\ Backward(l) = Reverse(S[l])
    BY <1>1, <1>2, ForwardIs
<1>4. \A l \in Lists : S[l] \in Seq(Nodes) /\ Len(S[l]) \in Nat
    BY <1>2 DEF Agrees, Placed
<1>5. \A l \in Lists : \A i \in Int : At(S[l], i) \in Nodes \cup {NULL}
    BY <1>4, AtType
<1>6. \A l \in Lists : {head[l], tail[l]} \subseteq Nodes \cup {NULL}
    <2>1. \A l \in Lists : /\ head[l] = At(S[l], 1) /\ tail[l] = At(S[l], Len(S[l]))
                           /\ 1 \in Int /\ Len(S[l]) \in Int
        BY <1>2, <1>4 DEF Agrees, EndsAgree
    <2> QED
        BY <1>5, <2>1
<1>7. ASSUME NEW n \in Nodes
      PROVE  /\ {next[n], prev[n]} \subseteq Nodes \cup {NULL}
             /\ Cardinality({l \in Lists : n \in ToSet(Forward(l))}) = 1
    <2>1. PICK l \in Lists : \E i \in 1..Len(S[l]) : S[l][i] = n
        BY <1>2 DEF Agrees, Placed
    <2>2. PICK i \in 1..Len(S[l]) : S[l][i] = n
        BY <2>1
    <2>3. next[n] = At(S[l], i+1) /\ prev[n] = At(S[l], i-1) /\ i+1 \in Int /\ i-1 \in Int
        BY <1>2, <2>2 DEF Agrees, LinksAgree
    <2>4. \A m \in Lists : n \in ToSet(Forward(m)) <=> \E j \in 1..Len(S[m]) : S[m][j] = n
        BY <1>3, <1>4 DEF ToSet
    <2>5. \A m \in Lists : n \in ToSet(Forward(m)) <=> m = l
        <3>1. \A m \in Lists : \A j \in 1..Len(S[m]) : S[m][j] = n => m = l
            BY <1>2, <2>2, SamePlace DEF Agrees
        <3> QED
            BY <2>1, <2>4, <3>1
    <2>6. {m \in Lists : n \in ToSet(Forward(m))} = {l}
        BY <2>5
    <2>7. {next[n], prev[n]} \subseteq Nodes \cup {NULL}
        BY <1>5, <2>3
    <2>8. Cardinality({l}) = 1
        BY FS_Singleton
    <2> QED
        BY <2>6, <2>7, <2>8
<1>8. \A l \in Lists : Backward(l) = Reverse(Forward(l)) /\ len[l] = Len(Forward(l))
    BY <1>2, <1>3 DEF Agrees, EndsAgree
<1>9. /\ it.list \in Lists \/ it = NoIterator
      /\ it.cur \in Nodes \cup {NULL}
    <2>1. CASE it = NoIterator
        BY <2>1 DEF NoIterator
    <2>2. CASE it.list \in Lists /\ \E p \in Nat : StandsAt(S, p)
        BY <1>5, <2>2 DEF StandsAt
    <2> QED
        BY <1>2, <2>1, <2>2 DEF IteratorOK
<1> QED
    BY <1>1, <1>6, <1>7, <1>8, <1>9 DEF LinksSound, FieldsOK

(* The items of some nodes, and of the lists.                              *)
ItemsIn(s, f) == [i \in 1..Len(s) |-> f[s[i]]]
ItemsAt(S)    == [l \in Lists |-> ItemsIn(S[l], item)]

(* The abstract lists and the abstract iterator are those of S.            *)
Abstracts(S) ==
    /\ ItemsOf = ItemsAt(S)
    /\ it = NoIterator => PlaceOf = [list |-> NULL, pos |-> 0]
    /\ \A p \in Nat : it.list \in Lists /\ StandsAt(S, p)
                         => PlaceOf = [list |-> it.list, pos |-> p]

(* What the abstract lists and the abstract iterator are.                  *)
LEMMA AbstractIs == FieldsOK => \A S : Agrees(S) => Abstracts(S)
<1> SUFFICES ASSUME FieldsOK, NEW S, Agrees(S)
             PROVE  /\ ItemsOf = ItemsAt(S)
                    /\ it = NoIterator => PlaceOf = [list |-> NULL, pos |-> 0]
                    /\ \A p \in Nat : it.list \in Lists /\ StandsAt(S, p)
                                         => PlaceOf = [list |-> it.list, pos |-> p]
    BY DEF Abstracts
<1>1. \A l \in Lists : /\ Forward(l) = S[l] /\ S[l] \in Seq(Nodes)
                       /\ DOMAIN S[l] = 1..Len(S[l])
    <2>1. \A l \in Lists : S[l] \in Seq(Nodes)
        BY DEF Agrees, Placed
    <2>2. \A l \in Lists : DOMAIN S[l] = 1..Len(S[l])
        BY <2>1
    <2>3. \A l \in Lists : Forward(l) = S[l]
        BY ForwardIs
    <2> QED
        BY <2>1, <2>2, <2>3
<1>2. ItemsOf = ItemsAt(S)
    BY <1>1 DEF ItemsOf, ItemsAt, ItemsIn, Items
<1>3. it = NoIterator => PlaceOf = [list |-> NULL, pos |-> 0]
    BY DEF PlaceOf, NoIterator
<1>4. ASSUME NEW p \in Nat, it.list \in Lists, StandsAt(S, p)
      PROVE  PlaceOf = [list |-> it.list, pos |-> p]
    <2> DEFINE s == S[it.list]
    <2>1. it.list # NULL /\ NULL \notin Nodes
        BY <1>4, HeapAssumption, ListAssumption DEF FieldsOK
    <2>2. p \in 0..Len(s) /\ it.cur = At(s, p) /\ DOMAIN s = 1..Len(s) /\ s \in Seq(Nodes)
        BY <1>1, <1>4 DEF StandsAt
    <2>3. CASE p = 0
        <3>1. it.cur = NULL
            BY <2>2, <2>3 DEF At
        <3> QED
            BY <2>1, <2>3, <3>1 DEF PlaceOf, Place
    <2>4. CASE p # 0
        <3>1. p \in 1..Len(s) /\ it.cur = s[p] /\ it.cur # NULL
            BY <2>1, <2>2, <2>4 DEF At
        <3>2. \A i \in 1..Len(s) : s[i] = it.cur => i = p
            BY <1>4, <3>1, SamePlace DEF Agrees
        <3>3. (CHOOSE i \in DOMAIN s : s[i] = it.cur) = p
            BY <2>2, <3>1, <3>2
        <3> QED
            BY <1>1, <1>4, <2>1, <3>1, <3>3 DEF PlaceOf, Place
    <2> QED
        BY <2>3, <2>4
<1> QED
    BY <1>2, <1>3, <1>4

-----------------------------------------------------------------------------
(* One node more.                                                          *)

(* A node between places p and p+1 of a list: with the two neighbours told *)
(* of it, and the ends where it becomes one, the links agree with the      *)
(* sequence that has it behind place p.                                    *)
LEMMA InsertAgrees ==
    ASSUME FieldsOK, NEW S, Agrees(S), NEW l \in Lists, NEW p \in 0..Len(S[l]), NEW x,
           NEW node \in Node \ Nodes, Link(node, At(S[l], p), At(S[l], p+1), x),
           head' = IF p = 0 THEN [head EXCEPT ![l] = node] ELSE head,
           tail' = IF p = Len(S[l]) THEN [tail EXCEPT ![l] = node] ELSE tail,
           len' = [len EXCEPT ![l] = @ + 1]
    PROVE  /\ FieldsOK'
           /\ Agrees([S EXCEPT ![l] = InsertAt(S[l], p+1, node)])'
<1> DEFINE s == S[l]
           n == Len(s)
           t == InsertAt(s, p+1, node)
           R == [S EXCEPT ![l] = t]
           P == At(s, p)
           N == At(s, p+1)
           M == Nodes \cup {node}
<1>1. /\ s \in Seq(Nodes) /\ n \in Nat /\ p \in Nat /\ p <= n
      /\ DOMAIN S = Lists /\ \A m \in Lists : S[m] \in Seq(Nodes) /\ Len(S[m]) \in Nat
    BY DEF Agrees, Placed
<1>2. NULL \notin Nodes /\ node # NULL /\ node \notin Nodes /\ node \in Node
    BY HeapAssumption DEF FieldsOK
<1>3. /\ P \in Nodes \cup {NULL} /\ N \in Nodes \cup {NULL}
      /\ P # node /\ N # node
    BY <1>1, <1>2, AtType
<1>4. /\ Nodes' = M /\ DOMAIN prev' = M /\ DOMAIN item' = M
      /\ Lists' = Lists /\ DOMAIN tail' = Lists /\ DOMAIN len' = Lists
    BY <1>3 DEF Link, Put, Store, FieldsOK, Nodes, Lists
<1>5. /\ \A k \in Nodes : next'[k] = IF k = P THEN node ELSE next[k]
      /\ \A k \in Nodes : prev'[k] = IF k = N THEN node ELSE prev[k]
      /\ next'[node] = N /\ prev'[node] = P
    BY <1>2, <1>3 DEF Link, Put, Store, FieldsOK, Nodes
<1>6. FieldsOK'
    BY <1>2, <1>4 DEF FieldsOK
<1>7. /\ DOMAIN R = Lists /\ R[l] = t /\ \A m \in Lists : m # l => R[m] = S[m]
    BY <1>1
<1>8. /\ t \in Seq(M) /\ Len(t) = n+1
      /\ \A i \in 1..p : t[i] = s[i]
      /\ t[p+1] = node
      /\ \A i \in p+2..n+1 : t[i] = s[i-1]
    <2>1. s \in Seq(M) /\ node \in M /\ p \in 0..Len(s)
        BY <1>1
    <2> HIDE DEF M, s
    <2>2. IsInserted(M, s, p, node, InsertAt(s, p+1, node))
        BY <2>1, InsertedIs
    <2> QED
        BY <2>2 DEF s, IsInserted
<1>9. \A j \in Int : At(t, j) = IF j <= p THEN At(s, j)
                                ELSE IF j = p+1 THEN node ELSE At(s, j-1)
    <2>1. s \in Seq(M) /\ node \in M
        BY <1>1
    <2> HIDE DEF M
    <2> QED
        BY <2>1, AtInserted
<1> HIDE DEF R, t, P, N
<1>10. \A m \in Lists : \A i \in 1..Len(S[m]) : S[m][i] \in Nodes
    BY <1>1
<1>11. \A m \in Lists : \A i \in 1..Len(S[m]) :
          /\ S[m][i] = P => m = l /\ i = p
          /\ S[m][i] = N => m = l /\ i = p+1
    <2>1. p \in 1..n \/ P = NULL
        BY DEF P, At
    <2>2. p \in 1..n => P = s[p]
        BY DEF P, At
    <2>3. p+1 \in 1..n \/ N = NULL
        BY DEF N, At
    <2>4. p+1 \in 1..n => N = s[p+1]
        BY DEF N, At
    <2>5. ASSUME NEW m \in Lists, NEW i \in 1..Len(S[m])
          PROVE  /\ S[m][i] = P => m = l /\ i = p
                 /\ S[m][i] = N => m = l /\ i = p+1
        <3>1. S[m][i] # NULL
            BY <1>2, <1>10
        <3>2. S[m][i] = P => m = l /\ i = p
            BY <2>1, <2>2, <3>1, SamePlace DEF Agrees
        <3>3. S[m][i] = N => m = l /\ i = p+1
            BY <2>3, <2>4, <3>1, SamePlace DEF Agrees
        <3> QED
            BY <3>2, <3>3
    <2> QED
        BY <2>5
<1>12. \A i \in 1..n+1 : i \in 1..p \/ i = p+1 \/ (i \in p+2..n+1 /\ i-1 \in 1..n /\ i-1 > p)
    BY <1>1
<1>13. Placed(R)'
    <2>1. ASSUME NEW m \in Lists
          PROVE  R[m] \in Seq(M)
        <3>1. CASE m = l
            BY <1>1, <1>7, <1>8, <3>1
        <3>2. CASE m # l
            BY <1>1, <1>7, <1>8, <3>2
        <3> QED
            BY <3>1, <3>2
    <2>2. ASSUME NEW i \in 1..n+1, NEW m \in Lists, NEW j \in 1..Len(S[m]), m # l
          PROVE  t[i] # S[m][j]
        <3>1. CASE i \in 1..p
            <4>1. i \in 1..n /\ t[i] = s[i]
                BY <1>1, <1>8, <3>1
            <4> QED
                BY <2>2, <4>1, SamePlace DEF Agrees
        <3>2. CASE i = p+1
            BY <1>2, <1>8, <1>10, <3>2
        <3>3. CASE i \in p+2..n+1
            <4>1. i-1 \in 1..n /\ t[i] = s[i-1]
                BY <1>8, <1>12, <1>1, <3>3
            <4> QED
                BY <2>2, <4>1, SamePlace DEF Agrees
        <3> QED
            BY <1>12, <3>1, <3>2, <3>3
    <2>3. ASSUME NEW i \in 1..n+1, NEW j \in 1..n+1, t[i] = t[j]
          PROVE  i = j
        <3> DEFINE old(k) == IF k <= p THEN k ELSE k-1
        <3>1. \A k \in 1..n+1 : k # p+1 => old(k) \in 1..n /\ t[k] = s[old(k)]
            <4>1. \A k \in 1..p : old(k) = k /\ k \in 1..n
                BY <1>1
            <4>2. \A k \in p+2..n+1 : old(k) = k-1 /\ k-1 \in 1..n
                BY <1>1
            <4> QED
                BY <1>8, <1>12, <4>1, <4>2
        <3>2. \A k \in 1..n+1 : k # p+1 => t[k] # node
            BY <1>2, <1>10, <3>1
        <3>3. CASE i = p+1 \/ j = p+1
            BY <1>8, <2>3, <3>2, <3>3
        <3>4. CASE i # p+1 /\ j # p+1
            <4>1. old(i) = old(j)
                BY <2>3, <3>1, <3>4, SamePlace DEF Agrees
            <4> QED
                BY <1>1, <3>4, <4>1
        <3> QED
            BY <3>3, <3>4
    <2>4. ASSUME NEW k \in Lists, NEW m \in Lists,
                 NEW i \in 1..Len(R[k]), NEW j \in 1..Len(R[m]), R[k][i] = R[m][j]
          PROVE  k = m /\ i = j
        <3>1. CASE k = l /\ m = l
            BY <1>7, <1>8, <2>3, <2>4, <3>1
        <3>2. CASE k = l /\ m # l
            BY <1>7, <1>8, <2>2, <2>4, <3>2
        <3>3. CASE k # l /\ m = l
            BY <1>7, <1>8, <2>2, <2>4, <3>3
        <3>4. CASE k # l /\ m # l
            BY <1>7, <2>4, <3>4, SamePlace DEF Agrees
        <3> QED
            BY <3>1, <3>2, <3>3, <3>4
    <2>5. ASSUME NEW k \in M
          PROVE  \E m \in Lists : \E i \in 1..Len(R[m]) : R[m][i] = k
        <3>1. CASE k = node
            <4>1. p+1 \in 1..Len(R[l]) /\ R[l][p+1] = k
                BY <1>1, <1>7, <1>8, <3>1
            <4> QED
                BY <4>1
        <3>2. CASE k # node
            <4>1. PICK m \in Lists : \E i \in 1..Len(S[m]) : S[m][i] = k
                BY <3>2 DEF Agrees, Placed
            <4>2. PICK i \in 1..Len(S[m]) : S[m][i] = k
                BY <4>1
            <4>3. CASE m # l
                BY <1>7, <4>2, <4>3
            <4>4. CASE m = l /\ i <= p
                <5>1. i \in 1..p /\ i \in 1..n+1
                    BY <1>1, <4>4
                <5>2. R[l][i] = k /\ i \in 1..Len(R[l])
                    BY <1>7, <1>8, <4>2, <4>4, <5>1
                <5> QED
                    BY <5>2
            <4>5. CASE m = l /\ i > p
                <5>1. i+1 \in p+2..n+1 /\ i+1 \in 1..n+1 /\ (i+1)-1 = i
                    BY <1>1, <4>5
                <5>2. R[l][i+1] = k /\ i+1 \in 1..Len(R[l])
                    BY <1>7, <1>8, <4>2, <4>5, <5>1
                <5> QED
                    BY <5>2
            <4> QED
                BY <1>1, <4>3, <4>4, <4>5
        <3> QED
            BY <3>1, <3>2
    <2> HIDE DEF M
    <2> QED
        BY <1>4, <1>7, <2>1, <2>4, <2>5 DEF Placed
<1>14. EndsAgree(R)'
    <2>1. At(t, 1) = IF p = 0 THEN node ELSE At(s, 1)
        BY <1>1, <1>9
    <2>2. At(t, n+1) = IF p = n THEN node ELSE At(s, n)
        BY <1>1, <1>9
    <2>3. head[l] = At(s, 1) /\ tail[l] = At(s, n) /\ len[l] = n
        BY DEF Agrees, EndsAgree
    <2>4. /\ head'[l] = At(t, 1) /\ tail'[l] = At(t, Len(t)) /\ len'[l] = Len(t)
          /\ \A m \in Lists : m # l =>
                head'[m] = head[m] /\ tail'[m] = tail[m] /\ len'[m] = len[m]
        <3>1. head'[l] = IF p = 0 THEN node ELSE head[l]
            BY DEF Lists
        <3>2. tail'[l] = IF p = n THEN node ELSE tail[l]
            BY DEF FieldsOK
        <3>3. len'[l] = len[l] + 1
            BY DEF FieldsOK
        <3>4. \A m \in Lists : m # l =>
                  head'[m] = head[m] /\ tail'[m] = tail[m] /\ len'[m] = len[m]
            BY DEF FieldsOK, Lists
        <3> QED
            BY <1>8, <2>1, <2>2, <2>3, <3>1, <3>2, <3>3, <3>4
    <2>5. \A m \in Lists : m # l =>
              head[m] = At(S[m], 1) /\ tail[m] = At(S[m], Len(S[m])) /\ len[m] = Len(S[m])
        BY DEF Agrees, EndsAgree
    <2> QED
        BY <1>4, <1>7, <2>4, <2>5 DEF EndsAgree
<1>15. LinksAgree(R)'
    <2>0. \A m \in Lists : \A i \in 1..Len(S[m]) :
              next[S[m][i]] = At(S[m], i+1) /\ prev[S[m][i]] = At(S[m], i-1)
        BY DEF Agrees, LinksAgree
    <2>1. ASSUME NEW m \in Lists, m # l, NEW i \in 1..Len(S[m])
          PROVE  next'[S[m][i]] = At(S[m], i+1) /\ prev'[S[m][i]] = At(S[m], i-1)
        <3>1. S[m][i] \in Nodes /\ S[m][i] # P /\ S[m][i] # N
            BY <1>10, <1>11, <2>1
        <3> QED
            BY <1>5, <2>0, <3>1
    <2>2. ASSUME NEW i \in 1..n+1
          PROVE  next'[t[i]] = At(t, i+1) /\ prev'[t[i]] = At(t, i-1)
        <3>1. CASE i \in 1..p
            <4>1. i \in 1..n /\ t[i] = s[i] /\ s[i] \in Nodes
                BY <1>1, <1>8, <1>10, <3>1
            <4>2. s[i] # N
                BY <1>11, <3>1, <4>1
            <4>3. prev'[t[i]] = At(s, i-1)
                BY <1>5, <2>0, <4>1, <4>2
            <4>4. At(t, i-1) = At(s, i-1)
                BY <1>9, <1>1, <3>1
            <4>5. next'[t[i]] = IF i = p THEN node ELSE At(s, i+1)
                <5>1. s[i] = P <=> i = p
                    <6>1. i = p => s[i] = P
                        BY <4>1 DEF P, At
                    <6> QED
                        BY <1>11, <4>1, <6>1
                <5> QED
                    BY <1>5, <2>0, <4>1, <5>1
            <4>6. At(t, i+1) = IF i = p THEN node ELSE At(s, i+1)
                BY <1>9, <1>1, <3>1
            <4> QED
                BY <4>3, <4>4, <4>5, <4>6
        <3>2. CASE i = p+1
            <4>1. t[i] = node
                BY <1>8, <3>2
            <4>2. i+1 \in Int /\ i-1 \in Int /\ ~(i+1 <= p) /\ i+1 # p+1 /\ i-1 <= p
                  /\ (i+1)-1 = p+1 /\ i-1 = p
                BY <1>1, <3>2
            <4>3. At(t, i+1) = N /\ At(t, i-1) = P
                BY <1>9, <4>2 DEF N, P
            <4> QED
                BY <1>5, <4>1, <4>3
        <3>3. CASE i \in p+2..n+1
            <4>1. i-1 \in 1..n /\ t[i] = s[i-1] /\ s[i-1] \in Nodes /\ i-1 > p
                BY <1>1, <1>8, <1>10, <3>3
            <4>2. s[i-1] # P
                BY <1>1, <1>11, <4>1
            <4>3. next'[t[i]] = At(s, (i-1)+1)
                BY <1>5, <2>0, <4>1, <4>2
            <4>4. At(t, i+1) = At(s, (i-1)+1)
                BY <1>9, <1>1, <3>3
            <4>5. prev'[t[i]] = IF i = p+2 THEN node ELSE At(s, (i-1)-1)
                <5>1. s[i-1] = N <=> i-1 = p+1
                    <6>1. i-1 = p+1 => s[i-1] = N
                        BY <4>1 DEF N, At
                    <6> QED
                        BY <1>11, <4>1, <6>1
                <5>2. i-1 = p+1 <=> i = p+2
                    BY <1>1, <3>3
                <5> QED
                    BY <1>5, <2>0, <4>1, <5>1, <5>2
            <4>6. At(t, i-1) = IF i = p+2 THEN node ELSE At(s, (i-1)-1)
                BY <1>9, <1>1, <3>3
            <4> QED
                BY <4>3, <4>4, <4>5, <4>6
        <3> QED
            BY <1>12, <3>1, <3>2, <3>3
    <2>3. \A m \in Lists : \A i \in 1..Len(R[m]) :
              next'[R[m][i]] = At(R[m], i+1) /\ prev'[R[m][i]] = At(R[m], i-1)
        BY <1>7, <1>8, <2>1, <2>2
    <2> QED
        BY <1>4, <2>3 DEF LinksAgree
<1> QED
    BY <1>6, <1>13, <1>14, <1>15 DEF Agrees, R, t

-----------------------------------------------------------------------------
(* One node less.                                                          *)

(* Without the node at place p of a list, with its two neighbours linked   *)
(* to each other and the ends moved where it was one, the links agree with *)
(* the sequence that is left.                                              *)
LEMMA RemoveAgrees ==
    ASSUME FieldsOK, NEW S, Agrees(S), NEW l \in Lists, NEW p \in 1..Len(S[l]),
           next' = Drop(Store(next, At(S[l], p-1), At(S[l], p+1)), S[l][p]),
           prev' = Drop(Store(prev, At(S[l], p+1), At(S[l], p-1)), S[l][p]),
           item' = Drop(item, S[l][p]),
           head' = IF p = 1 THEN [head EXCEPT ![l] = At(S[l], 2)] ELSE head,
           tail' = IF p = Len(S[l]) THEN [tail EXCEPT ![l] = At(S[l], Len(S[l])-1)] ELSE tail,
           len' = [len EXCEPT ![l] = @ - 1]
    PROVE  /\ FieldsOK'
           /\ Agrees([S EXCEPT ![l] = RemoveAt(S[l], p)])'
<1> DEFINE s == S[l]
           n == Len(s)
           t == RemoveAt(s, p)
           R == [S EXCEPT ![l] = t]
           P == At(s, p-1)
           N == At(s, p+1)
           k == s[p]
           M == Nodes \ {k}
<1>1. /\ s \in Seq(Nodes) /\ n \in Nat /\ p \in Nat /\ p <= n /\ 1 <= p
      /\ DOMAIN S = Lists /\ \A m \in Lists : S[m] \in Seq(Nodes) /\ Len(S[m]) \in Nat
    <2>1. DOMAIN S = Lists /\ \A m \in Lists : S[m] \in Seq(Nodes)
        BY DEF Agrees, Placed
    <2>2. n \in Nat /\ p \in 1..n
        BY <2>1
    <2> QED
        BY <2>1, <2>2
<1>2. NULL \notin Nodes /\ k \in Nodes
    BY <1>1, HeapAssumption DEF FieldsOK
<1>3. P \in Nodes \cup {NULL} /\ N \in Nodes \cup {NULL}
    BY <1>1, AtType
<1> HIDE DEF k
<1>4. /\ Nodes' = M /\ DOMAIN prev' = M /\ DOMAIN item' = M
      /\ Lists' = Lists /\ DOMAIN tail' = Lists /\ DOMAIN len' = Lists
    <2>1. /\ DOMAIN Store(next, P, N) = Nodes /\ DOMAIN Store(prev, N, P) = Nodes
        BY DEF Store, FieldsOK, Nodes
    <2>2. DOMAIN next' = M /\ DOMAIN prev' = M /\ DOMAIN item' = M
        BY <2>1 DEF Drop, FieldsOK, k
    <2> QED
        BY <2>2 DEF FieldsOK, Nodes, Lists
<1>5. /\ \A x \in M : next'[x] = IF x = P THEN N ELSE next[x]
      /\ \A x \in M : prev'[x] = IF x = N THEN P ELSE prev[x]
    <2>1. \A x \in Nodes : /\ Store(next, P, N)[x] = IF x = P THEN N ELSE next[x]
                           /\ Store(prev, N, P)[x] = IF x = N THEN P ELSE prev[x]
        BY <1>2 DEF Store, FieldsOK, Nodes
    <2>2. DOMAIN Store(next, P, N) = Nodes /\ DOMAIN Store(prev, N, P) = Nodes
        BY DEF Store, FieldsOK, Nodes
    <2>3. \A x \in M : next'[x] = Store(next, P, N)[x] /\ prev'[x] = Store(prev, N, P)[x]
        BY <2>2 DEF Drop, k
    <2> QED
        BY <2>1, <2>3
<1>6. FieldsOK'
    BY <1>4 DEF FieldsOK
<1>7. /\ DOMAIN R = Lists /\ R[l] = t /\ \A m \in Lists : m # l => R[m] = S[m]
    BY <1>1
<1>8. /\ t \in Seq(Nodes) /\ Len(t) = n-1
      /\ \A i \in 1..n-1 : t[i] = IF i < p THEN s[i] ELSE s[i+1]
    BY <1>1, RemovedIs DEF IsRemoved
<1>9. \A j \in Int : At(t, j) = IF j < p THEN At(s, j) ELSE At(s, j+1)
    BY <1>1, AtRemoved
<1> HIDE DEF R, t, P, N
<1>10. \A m \in Lists : \A i \in 1..Len(S[m]) : S[m][i] \in Nodes
    BY <1>1
<1>11. \A m \in Lists : \A i \in 1..Len(S[m]) :
          /\ S[m][i] = P => m = l /\ i = p-1
          /\ S[m][i] = N => m = l /\ i = p+1
          /\ S[m][i] = k => m = l /\ i = p
    <2>1. p-1 \in 1..n \/ P = NULL
        BY DEF P, At
    <2>2. p-1 \in 1..n => P = s[p-1]
        BY DEF P, At
    <2>3. p+1 \in 1..n \/ N = NULL
        BY DEF N, At
    <2>4. p+1 \in 1..n => N = s[p+1]
        BY DEF N, At
    <2>5. ASSUME NEW m \in Lists, NEW i \in 1..Len(S[m])
          PROVE  /\ S[m][i] = P => m = l /\ i = p-1
                 /\ S[m][i] = N => m = l /\ i = p+1
                 /\ S[m][i] = k => m = l /\ i = p
        <3>1. S[m][i] # NULL
            BY <1>2, <1>10
        <3>2. S[m][i] = P => m = l /\ i = p-1
            BY <2>1, <2>2, <3>1, SamePlace DEF Agrees
        <3>3. S[m][i] = N => m = l /\ i = p+1
            BY <2>3, <2>4, <3>1, SamePlace DEF Agrees
        <3>4. S[m][i] = k => m = l /\ i = p
            BY SamePlace DEF Agrees, k
        <3> QED
            BY <3>2, <3>3, <3>4
    <2> QED
        BY <2>5
<1> DEFINE old(i) == IF i < p THEN i ELSE i+1
<1>12. \A i \in 1..n-1 : old(i) \in 1..n /\ old(i) # p /\ t[i] = s[old(i)] /\ t[i] \in M
    <2>1. \A i \in 1..n-1 : old(i) \in 1..n /\ old(i) # p /\ t[i] = s[old(i)]
        BY <1>1, <1>8
    <2> HIDE DEF old
    <2> QED
        BY <1>10, <1>11, <2>1
<1>13. Placed(R)'
    <2>1. ASSUME NEW m \in Lists
          PROVE  R[m] \in Seq(M)
        <3>1. CASE m = l
            <4>1. t \in Seq(M)
                BY <1>8, <1>12
            <4> QED
                BY <1>7, <3>1, <4>1
        <3>2. CASE m # l
            <4>1. \A i \in 1..Len(S[m]) : S[m][i] \in M
                BY <1>10, <1>11, <3>2
            <4>2. S[m] \in Seq(M)
                BY <1>1, <4>1
            <4> QED
                BY <1>7, <3>2, <4>2
        <3> QED
            BY <3>1, <3>2
    <2>2. ASSUME NEW i \in 1..n-1, NEW m \in Lists, NEW j \in 1..Len(S[m]), m # l
          PROVE  t[i] # S[m][j]
        <3> HIDE DEF old
        <3> QED
            BY <1>12, <2>2, SamePlace DEF Agrees
    <2>3. ASSUME NEW i \in 1..n-1, NEW j \in 1..n-1, t[i] = t[j]
          PROVE  i = j
        <3>1. old(i) = old(j)
            <4> HIDE DEF old
            <4>1. old(i) \in 1..n /\ old(j) \in 1..n /\ s[old(i)] = s[old(j)]
                BY <1>12, <2>3
            <4> HIDE DEF n
            <4> QED
                BY <4>1, SamePlace DEF Agrees, n
        <3> QED
            BY <1>1, <3>1
    <2>4. ASSUME NEW x \in Lists, NEW m \in Lists,
                 NEW i \in 1..Len(R[x]), NEW j \in 1..Len(R[m]), R[x][i] = R[m][j]
          PROVE  x = m /\ i = j
        <3>1. CASE x = l /\ m = l
            BY <1>7, <1>8, <2>3, <2>4, <3>1
        <3>2. CASE x = l /\ m # l
            BY <1>7, <1>8, <2>2, <2>4, <3>2
        <3>3. CASE x # l /\ m = l
            BY <1>7, <1>8, <2>2, <2>4, <3>3
        <3>4. CASE x # l /\ m # l
            BY <1>7, <2>4, <3>4, SamePlace DEF Agrees
        <3> QED
            BY <3>1, <3>2, <3>3, <3>4
    <2>5. ASSUME NEW x \in M
          PROVE  \E m \in Lists : \E i \in 1..Len(R[m]) : R[m][i] = x
        <3>1. PICK m \in Lists : \E i \in 1..Len(S[m]) : S[m][i] = x
            BY DEF Agrees, Placed
        <3>2. PICK i \in 1..Len(S[m]) : S[m][i] = x
            BY <3>1
        <3>3. CASE m # l
            BY <1>7, <3>2, <3>3
        <3>4. CASE m = l /\ i < p
            <4>1. i \in 1..n-1
                BY <1>1, <3>4
            <4>2. R[l][i] = x /\ i \in 1..Len(R[l])
                BY <1>7, <1>8, <3>2, <3>4, <4>1
            <4> QED
                BY <4>2
        <3>5. CASE m = l /\ i > p
            <4>1. i-1 \in 1..n-1 /\ ~(i-1 < p) /\ (i-1)+1 = i
                BY <1>1, <3>5
            <4>2. R[l][i-1] = x /\ i-1 \in 1..Len(R[l])
                BY <1>7, <1>8, <3>2, <3>5, <4>1
            <4> QED
                BY <4>2
        <3>6. ~(m = l /\ i = p)
            BY <3>2 DEF k
        <3> QED
            BY <1>1, <3>3, <3>4, <3>5, <3>6
    <2> HIDE DEF M
    <2> QED
        BY <1>4, <1>7, <2>1, <2>4, <2>5 DEF Placed
<1>14. EndsAgree(R)'
    <2>1. At(t, 1) = IF p = 1 THEN At(s, 2) ELSE At(s, 1)
        BY <1>1, <1>9
    <2>2. At(t, n-1) = IF p = n THEN At(s, n-1) ELSE At(s, n)
        <3>1. n-1 \in Int /\ (n-1)+1 = n /\ (n-1 < p <=> p = n)
            BY <1>1
        <3> QED
            BY <1>9, <3>1
    <2>3. head[l] = At(s, 1) /\ tail[l] = At(s, n) /\ len[l] = n
        BY DEF Agrees, EndsAgree
    <2>4. /\ head'[l] = At(t, 1) /\ tail'[l] = At(t, Len(t)) /\ len'[l] = Len(t)
          /\ \A m \in Lists : m # l =>
                head'[m] = head[m] /\ tail'[m] = tail[m] /\ len'[m] = len[m]
        <3>1. head'[l] = IF p = 1 THEN At(s, 2) ELSE head[l]
            BY DEF Lists
        <3>2. tail'[l] = IF p = n THEN At(s, n-1) ELSE tail[l]
            BY DEF FieldsOK
        <3>3. len'[l] = len[l] - 1
            BY DEF FieldsOK
        <3>4. \A m \in Lists : m # l =>
                  head'[m] = head[m] /\ tail'[m] = tail[m] /\ len'[m] = len[m]
            BY DEF FieldsOK, Lists
        <3> QED
            BY <1>8, <2>1, <2>2, <2>3, <3>1, <3>2, <3>3, <3>4
    <2>5. \A m \in Lists : m # l =>
              head[m] = At(S[m], 1) /\ tail[m] = At(S[m], Len(S[m])) /\ len[m] = Len(S[m])
        BY DEF Agrees, EndsAgree
    <2> QED
        BY <1>4, <1>7, <2>4, <2>5 DEF EndsAgree
<1>15. LinksAgree(R)'
    <2>0. \A m \in Lists : \A i \in 1..Len(S[m]) :
              next[S[m][i]] = At(S[m], i+1) /\ prev[S[m][i]] = At(S[m], i-1)
        BY DEF Agrees, LinksAgree
    <2>1. ASSUME NEW m \in Lists, m # l, NEW i \in 1..Len(S[m])
          PROVE  next'[S[m][i]] = At(S[m], i+1) /\ prev'[S[m][i]] = At(S[m], i-1)
        <3>1. S[m][i] \in M /\ S[m][i] # P /\ S[m][i] # N
            BY <1>10, <1>11, <2>1
        <3> QED
            BY <1>5, <2>0, <3>1
    <2>2. ASSUME NEW i \in 1..n-1
          PROVE  next'[t[i]] = At(t, i+1) /\ prev'[t[i]] = At(t, i-1)
        <3>1. CASE i < p
            <4>1. i \in 1..n /\ t[i] = s[i] /\ s[i] \in M
                BY <1>1, <1>12, <3>1
            <4>2. s[i] # N
                BY <1>1, <1>11, <3>1, <4>1
            <4>3. prev'[t[i]] = At(s, i-1)
                BY <1>5, <2>0, <4>1, <4>2
            <4>4. At(t, i-1) = At(s, i-1)
                BY <1>9, <1>1, <3>1
            <4>5. next'[t[i]] = IF i = p-1 THEN N ELSE At(s, i+1)
                <5>1. s[i] = P <=> i = p-1
                    <6>1. i = p-1 => s[i] = P
                        BY <4>1 DEF P, At
                    <6> QED
                        BY <1>11, <4>1, <6>1
                <5> QED
                    BY <1>5, <2>0, <4>1, <5>1
            <4>6. At(t, i+1) = IF i = p-1 THEN N ELSE At(s, i+1)
                <5>1. CASE i = p-1
                    <6>1. i+1 = p /\ i+1 \in Int
                        BY <1>1, <5>1
                    <6> QED
                        BY <1>1, <1>9, <5>1, <6>1 DEF N
                <5>2. CASE i # p-1
                    <6>1. i+1 < p /\ i+1 \in Int
                        BY <1>1, <3>1, <5>2
                    <6> QED
                        BY <1>9, <5>2, <6>1
                <5> QED
                    BY <5>1, <5>2
            <4> QED
                BY <4>3, <4>4, <4>5, <4>6
        <3>2. CASE ~(i < p)
            <4>1. i+1 \in 1..n /\ t[i] = s[i+1] /\ s[i+1] \in M
                BY <1>1, <1>12, <3>2
            <4>2. s[i+1] # P
                BY <1>1, <1>11, <3>2, <4>1
            <4>3. next'[t[i]] = At(s, (i+1)+1)
                BY <1>5, <2>0, <4>1, <4>2
            <4>4. At(t, i+1) = At(s, (i+1)+1)
                BY <1>9, <1>1, <3>2
            <4>5. prev'[t[i]] = IF i = p THEN P ELSE At(s, (i+1)-1)
                <5>1. s[i+1] = N <=> i+1 = p+1
                    <6>1. i+1 = p+1 => s[i+1] = N
                        BY <4>1 DEF N, At
                    <6> QED
                        BY <1>11, <4>1, <6>1
                <5>2. i+1 = p+1 <=> i = p
                    BY <1>1
                <5> QED
                    BY <1>5, <2>0, <4>1, <5>1, <5>2
            <4>6. At(t, i-1) = IF i = p THEN P ELSE At(s, (i+1)-1)
                <5>1. CASE i = p
                    <6>1. i-1 = p-1 /\ i-1 < p /\ i-1 \in Int
                        BY <1>1, <5>1
                    <6> QED
                        BY <1>9, <5>1, <6>1 DEF P
                <5>2. CASE i # p
                    <6>1. ~(i-1 < p) /\ i-1 \in Int /\ (i-1)+1 = (i+1)-1
                        BY <1>1, <3>2, <5>2
                    <6> QED
                        BY <1>9, <5>2, <6>1
                <5> QED
                    BY <5>1, <5>2
            <4> QED
                BY <4>3, <4>4, <4>5, <4>6
        <3> QED
            BY <3>1, <3>2
    <2>3. \A m \in Lists : \A i \in 1..Len(R[m]) :
              next'[R[m][i]] = At(R[m], i+1) /\ prev'[R[m][i]] = At(R[m], i-1)
        BY <1>7, <1>8, <2>1, <2>2
    <2> QED
        BY <1>4, <2>3 DEF LinksAgree
<1> QED
    BY <1>6, <1>13, <1>14, <1>15 DEF Agrees, R, t

-----------------------------------------------------------------------------
(* One list more, one less, two in one.                                    *)

(* A list with no nodes more.                                              *)
LEMMA EmptyAgrees ==
    ASSUME FieldsOK, NEW S, Agrees(S), NEW l \in List, ListEmpty(l)
    PROVE  /\ FieldsOK'
           /\ Agrees([m \in DOMAIN S \cup {l} |-> IF m = l THEN << >> ELSE S[m]])'
<1> DEFINE R == [m \in DOMAIN S \cup {l} |-> IF m = l THEN << >> ELSE S[m]]
<1>1. /\ l \notin Lists /\ UNCHANGED <<next, prev, item>>
      /\ head' = Put(head, l, NULL) /\ tail' = Put(tail, l, NULL) /\ len' = Put(len, l, 0)
    BY DEF ListEmpty
<1>2. /\ Nodes' = Nodes /\ Lists' = Lists \cup {l}
      /\ DOMAIN tail' = Lists \cup {l} /\ DOMAIN len' = Lists \cup {l}
    BY <1>1 DEF Put, FieldsOK, Nodes, Lists
<1>3. FieldsOK'
    BY <1>1, <1>2 DEF FieldsOK
<1>4. /\ DOMAIN R = Lists \cup {l} /\ R[l] = << >>
      /\ \A m \in Lists : R[m] = S[m] /\ m # l
    BY <1>1 DEF Agrees, Placed
<1>5. /\ head'[l] = NULL /\ tail'[l] = NULL /\ len'[l] = 0
      /\ \A m \in Lists : head'[m] = head[m] /\ tail'[m] = tail[m] /\ len'[m] = len[m]
    BY <1>1 DEF Put, FieldsOK, Lists
<1> HIDE DEF R
<1>6. Placed(R)'
    <2>1. \A m \in Lists \cup {l} : R[m] \in Seq(Nodes)
        <3>1. << >> \in Seq(Nodes) /\ \A m \in Lists : S[m] \in Seq(Nodes)
            BY DEF Agrees, Placed
        <3> QED
            BY <1>4, <3>1
    <2>2. ASSUME NEW x \in Lists \cup {l}, NEW m \in Lists \cup {l},
                 NEW i \in 1..Len(R[x]), NEW j \in 1..Len(R[m]), R[x][i] = R[m][j]
          PROVE  x = m /\ i = j
        <3>1. x \in Lists /\ m \in Lists
            BY <1>4
        <3> QED
            BY <1>4, <2>2, <3>1, SamePlace DEF Agrees
    <2>3. ASSUME NEW n \in Nodes
          PROVE  \E m \in Lists \cup {l} : \E i \in 1..Len(R[m]) : R[m][i] = n
        <3>1. PICK m \in Lists : \E i \in 1..Len(S[m]) : S[m][i] = n
            BY DEF Agrees, Placed
        <3> QED
            BY <1>4, <3>1
    <2> QED
        BY <1>2, <1>4, <2>1, <2>2, <2>3 DEF Placed
<1>7. EndsAgree(R)'
    <2>1. \A j \in Int : At(<< >>, j) = NULL
        BY DEF At
    <2> QED
        BY <1>2, <1>4, <1>5, <2>1 DEF EndsAgree, Agrees
<1>8. LinksAgree(R)'
    <2>1. \A m \in Lists : \A i \in 1..Len(R[m]) :
              next'[R[m][i]] = At(R[m], i+1) /\ prev'[R[m][i]] = At(R[m], i-1)
        BY <1>1, <1>4 DEF LinksAgree, Agrees
    <2>2. 1..Len(R[l]) = {}
        BY <1>4
    <2> QED
        BY <1>2, <2>1, <2>2 DEF LinksAgree
<1> QED
    BY <1>3, <1>6, <1>7, <1>8 DEF Agrees, R

(* The nodes of a list go with it, and no others.                          *)
LEMMA FreeAgrees ==
    ASSUME FieldsOK, NEW S, Agrees(S), NEW l \in Lists, FreeList(l)
    PROVE  /\ FieldsOK'
           /\ Agrees([m \in DOMAIN S \ {l} |-> S[m]])'
           /\ \A m \in Lists \ {l} : \A i \in 1..Len(S[m]) : item'[S[m][i]] = item[S[m][i]]
<1> DEFINE R == [m \in DOMAIN S \ {l} |-> S[m]]
           s == S[l]
           gone == {s[i] : i \in 1..Len(s)}
           L == Lists \ {l}
           M == Nodes \ gone
<1>1. s \in Seq(Nodes) /\ Len(s) \in Nat
    BY DEF Agrees, Placed
<1>2. ToSet(Chain(prev, tail[l])) = gone
    <2>1. Chain(prev, tail[l]) = Reverse(s)
        BY ForwardIs DEF Backward
    <2>2. DOMAIN Reverse(s) = 1..Len(s) /\ \A i \in 1..Len(s) : Reverse(s)[i] = s[(Len(s)-i)+1]
        BY DEF Reverse
    <2>3. \A i \in 1..Len(s) : (Len(s)-i)+1 \in 1..Len(s) /\ (Len(s)-((Len(s)-i)+1))+1 = i
        BY <1>1
    <2>4. ToSet(Reverse(s)) = gone
        <3>1. ASSUME NEW i \in 1..Len(s)
              PROVE  s[i] \in ToSet(Reverse(s))
            <4>1. Reverse(s)[(Len(s)-i)+1] = s[i] /\ (Len(s)-i)+1 \in DOMAIN Reverse(s)
                BY <2>2, <2>3
            <4> QED
                BY <4>1 DEF ToSet
        <3>2. \A x \in ToSet(Reverse(s)) : x \in gone
            BY <2>2, <2>3 DEF ToSet
        <3> QED
            BY <3>1, <3>2
    <2> QED
        BY <2>1, <2>4
<1> HIDE DEF gone
<1>3. /\ next' = [n \in M |-> next[n]] /\ prev' = [n \in M |-> prev[n]]
      /\ item' = [n \in M |-> item[n]]
      /\ head' = Drop(head, l) /\ tail' = Drop(tail, l) /\ len' = Drop(len, l)
    BY <1>2 DEF FreeList
<1>4. /\ Nodes' = M /\ DOMAIN prev' = M /\ DOMAIN item' = M
      /\ Lists' = L /\ DOMAIN tail' = L /\ DOMAIN len' = L
    BY <1>3 DEF Drop, FieldsOK, Nodes, Lists
<1>5. FieldsOK'
    BY <1>4 DEF FieldsOK
<1>6. \A m \in L : head'[m] = head[m] /\ tail'[m] = tail[m] /\ len'[m] = len[m]
    BY <1>3 DEF Drop, FieldsOK, Lists
<1>7. \A m \in L : S[m] \in Seq(Nodes) /\ \A i \in 1..Len(S[m]) : S[m][i] \in M
    <2>1. \A m \in L : S[m] \in Seq(Nodes)
        BY DEF Agrees, Placed
    <2>2. \A m \in L : \A i \in 1..Len(S[m]) : S[m][i] \notin gone
        BY SamePlace DEF Agrees, gone
    <2> QED
        BY <2>1, <2>2
<1>8. DOMAIN R = L /\ \A m \in L : R[m] = S[m]
    BY DEF Agrees, Placed
<1> HIDE DEF R
<1>9. Placed(R)'
    <2>1. \A m \in L : R[m] \in Seq(M)
        BY <1>7, <1>8
    <2>2. ASSUME NEW x \in L, NEW m \in L, NEW i \in 1..Len(R[x]), NEW j \in 1..Len(R[m]),
                 R[x][i] = R[m][j]
          PROVE  x = m /\ i = j
        BY <1>8, <2>2, SamePlace DEF Agrees
    <2>3. ASSUME NEW n \in M
          PROVE  \E m \in L : \E i \in 1..Len(R[m]) : R[m][i] = n
        <3>1. PICK m \in Lists : \E i \in 1..Len(S[m]) : S[m][i] = n
            BY DEF Agrees, Placed
        <3>2. m # l
            BY <3>1 DEF gone
        <3> QED
            BY <1>8, <3>1, <3>2
    <2> HIDE DEF M, L
    <2> QED
        BY <1>4, <1>8, <2>1, <2>2, <2>3 DEF Placed
<1>10. EndsAgree(R)'
    BY <1>4, <1>6, <1>8 DEF EndsAgree, Agrees
<1>11. LinksAgree(R)'
    <2>1. \A m \in L : \A i \in 1..Len(S[m]) :
              next'[S[m][i]] = next[S[m][i]] /\ prev'[S[m][i]] = prev[S[m][i]]
        BY <1>3, <1>7
    <2>2. \A m \in L : \A i \in 1..Len(S[m]) :
              next[S[m][i]] = At(S[m], i+1) /\ prev[S[m][i]] = At(S[m], i-1)
        BY DEF Agrees, LinksAgree
    <2> QED
        BY <1>4, <1>8, <2>1, <2>2 DEF LinksAgree
<1>12. \A m \in L : \A i \in 1..Len(S[m]) : item'[S[m][i]] = item[S[m][i]]
    BY <1>3, <1>7
<1> QED
    BY <1>5, <1>9, <1>10, <1>11, <1>12 DEF Agrees, R

(* Where the elements of two sequences in one are.                         *)
LEMMA AtBoth ==
    ASSUME NEW T, NEW u \in Seq(T), NEW v \in Seq(T), NEW j \in Int
    PROVE  At(u \o v, j) = IF j <= Len(u) THEN At(u, j) ELSE At(v, j-Len(u))
<1> DEFINE t == u \o v
<1>1. /\ Len(t) = Len(u)+Len(v) /\ Len(u) \in Nat /\ Len(v) \in Nat
      /\ \A i \in 1..Len(u)+Len(v) : t[i] = IF i <= Len(u) THEN u[i] ELSE v[i-Len(u)]
    BY ConcatProperties
<1> HIDE DEF t
<1>2. At(t, j) = IF j <= Len(u) THEN At(u, j) ELSE At(v, j-Len(u))
    BY <1>1 DEF At
<1> QED
    BY <1>2 DEF t

(* A list takes over the nodes of another, behind its own.                 *)
LEMMA MergeAgrees ==
    ASSUME FieldsOK, NEW S, Agrees(S), NEW a \in Lists, NEW b \in Lists, MergeDi(a, b)
    PROVE  /\ FieldsOK'
           /\ Agrees([m \in DOMAIN S \ {b} |-> IF m = a THEN S[a] \o S[b] ELSE S[m]])'
<1> DEFINE u == S[a]
           v == S[b]
           c == Len(u)
           t == u \o v
           L == Lists \ {b}
           R == [m \in DOMAIN S \ {b} |-> IF m = a THEN t ELSE S[m]]
           P == At(u, c)
           N == At(v, 1)
<1>1. /\ a # b /\ u \in Seq(Nodes) /\ v \in Seq(Nodes) /\ c \in Nat /\ Len(v) \in Nat
      /\ \A m \in Lists : S[m] \in Seq(Nodes) /\ Len(S[m]) \in Nat
    <2>1. a # b /\ \A m \in Lists : S[m] \in Seq(Nodes)
        BY DEF Agrees, Placed, MergeDi
    <2> QED
        BY <2>1
<1>2. /\ head[a] = At(u, 1) /\ tail[a] = P /\ len[a] = c
      /\ head[b] = N /\ tail[b] = At(v, Len(v)) /\ len[b] = Len(v)
    BY DEF Agrees, EndsAgree
<1>3. NULL \notin Nodes /\ P \in Nodes \cup {NULL} /\ N \in Nodes \cup {NULL}
    BY <1>1, HeapAssumption, AtType DEF FieldsOK
<1>0. Len(t) = c+Len(v) /\ t \in Seq(Nodes)
    BY <1>1, ConcatProperties
<1>17. Len(t) = c+Len(v) /\ c \in Nat /\ Len(v) \in Nat
    BY <1>0, <1>1
<1>4. /\ \A i \in 1..c : i \in 1..Len(t) /\ t[i] = u[i]
      /\ \A i \in 1..Len(v) : c+i \in 1..Len(t) /\ t[c+i] = v[i]
      /\ \A i \in 1..Len(t) : IF i <= c THEN i \in 1..c ELSE i-c \in 1..Len(v) /\ c+(i-c) = i
    <2>1. \A i \in 1..c+Len(v) : t[i] = IF i <= c THEN u[i] ELSE v[i-c]
        BY <1>1, ConcatProperties
    <2> HIDE DEF t, c, v, u
    <2>2. \A i \in 1..c : i \in 1..Len(t) /\ i <= c
        BY ONLY <1>17
    <2>3. \A i \in 1..Len(v) : c+i \in 1..Len(t) /\ ~(c+i <= c) /\ (c+i)-c = i
        BY ONLY <1>17
    <2>4. \A i \in 1..Len(t) : IF i <= c THEN i \in 1..c ELSE i-c \in 1..Len(v) /\ c+(i-c) = i
        BY ONLY <1>17
    <2>5. \A i \in 1..c : t[i] = u[i]
        BY <1>0, <2>1, <2>2
    <2>6. \A i \in 1..Len(v) : t[c+i] = v[i]
        BY <1>0, <2>1, <2>3
    <2> QED
        BY <2>2, <2>3, <2>4, <2>5, <2>6
<1>5. \A j \in Int : At(t, j) = IF j <= c THEN At(u, j) ELSE At(v, j-c)
    BY <1>1, AtBoth
<1> HIDE DEF t
<1>6. /\ next' = Store(next, P, N) /\ prev' = Store(prev, N, P) /\ item' = item
      /\ head' = Drop(IF head[a] = NULL THEN [head EXCEPT ![a] = N] ELSE head, b)
      /\ tail' = Drop(IF tail[b] = NULL THEN tail ELSE [tail EXCEPT ![a] = tail[b]], b)
      /\ len' = Drop([len EXCEPT ![a] = @ + len[b]], b)
    BY <1>2 DEF MergeDi
<1>7. DOMAIN R = L /\ R[a] = t /\ \A m \in L : m # a => R[m] = S[m]
    <2>1. DOMAIN S = Lists
        BY DEF Agrees, Placed
    <2> QED
        BY <1>1, <2>1
<1> HIDE DEF P, N, R
<1>8. /\ Nodes' = Nodes /\ DOMAIN prev' = Nodes /\ DOMAIN item' = Nodes
      /\ Lists' = L /\ DOMAIN tail' = L /\ DOMAIN len' = L
    <2>1. Nodes' = Nodes /\ DOMAIN prev' = Nodes /\ DOMAIN item' = Nodes
        BY <1>6 DEF Store, FieldsOK, Nodes
    <2>2. Lists' = L /\ DOMAIN tail' = L /\ DOMAIN len' = L
        BY <1>6 DEF Drop, FieldsOK, Lists
    <2> QED
        BY <2>1, <2>2
<1>9. \A x \in Nodes : /\ next'[x] = IF x = P THEN N ELSE next[x]
                       /\ prev'[x] = IF x = N THEN P ELSE prev[x]
    BY <1>3, <1>6 DEF Store, FieldsOK, Nodes
<1>10. FieldsOK'
    BY <1>8 DEF FieldsOK
<1>11. \A m \in Lists : \A i \in 1..Len(S[m]) : S[m][i] \in Nodes
    BY <1>1
<1>12. \A m \in Lists : \A i \in 1..Len(S[m]) :
          /\ S[m][i] = P => m = a /\ i = c
          /\ S[m][i] = N => m = b /\ i = 1
    <2>1. c \in 1..c \/ P = NULL
        BY DEF P, At
    <2>2. c \in 1..c => P = u[c]
        BY DEF P, At
    <2>3. 1 \in 1..Len(v) \/ N = NULL
        BY DEF N, At
    <2>4. 1 \in 1..Len(v) => N = v[1]
        BY DEF N, At
    <2>5. ASSUME NEW m \in Lists, NEW i \in 1..Len(S[m])
          PROVE  /\ S[m][i] = P => m = a /\ i = c
                 /\ S[m][i] = N => m = b /\ i = 1
        <3>1. S[m][i] # NULL
            BY <1>3, <1>11
        <3>2. S[m][i] = P => m = a /\ i = c
            BY <2>1, <2>2, <3>1, SamePlace DEF Agrees
        <3>3. S[m][i] = N => m = b /\ i = 1
            BY <2>3, <2>4, <3>1, SamePlace DEF Agrees
        <3> QED
            BY <3>2, <3>3
    <2> QED
        BY <2>5
<1> DEFINE from(i) == IF i <= c THEN a ELSE b
           old(i)  == IF i <= c THEN i ELSE i-c
<1>13. \A i \in 1..Len(t) : old(i) \in 1..Len(S[from(i)]) /\ t[i] = S[from(i)][old(i)]
                            /\ from(i) \in Lists
    <2>1. \A i \in 1..Len(t) : i <= c =>
              old(i) \in 1..Len(S[from(i)]) /\ t[i] = S[from(i)][old(i)] /\ from(i) \in Lists
        BY <1>4
    <2>2. \A i \in 1..Len(t) : ~(i <= c) =>
              old(i) \in 1..Len(S[from(i)]) /\ t[i] = S[from(i)][old(i)] /\ from(i) \in Lists
        BY <1>4
    <2> HIDE DEF from, old
    <2> QED
        BY <2>1, <2>2
<1>14. Placed(R)'
    <2>1. \A m \in L : R[m] \in Seq(Nodes)
        BY <1>0, <1>1, <1>7
    <2>2. ASSUME NEW i \in 1..Len(t), NEW m \in L, NEW j \in 1..Len(S[m]), m # a
          PROVE  t[i] # S[m][j]
        <3>1. from(i) # m
            BY <2>2
        <3> HIDE DEF from, old
        <3> QED
            BY <1>13, <2>2, <3>1, SamePlace DEF Agrees
    <2>3. ASSUME NEW i \in 1..Len(t), NEW j \in 1..Len(t), t[i] = t[j]
          PROVE  i = j
        <3>1. from(i) = from(j) /\ old(i) = old(j)
            <4> HIDE DEF from, old
            <4> QED
                BY <1>13, <2>3, SamePlace DEF Agrees
        <3> QED
            BY <1>1, <3>1
    <2>4. ASSUME NEW x \in L, NEW m \in L,
                 NEW i \in 1..Len(R[x]), NEW j \in 1..Len(R[m]), R[x][i] = R[m][j]
          PROVE  x = m /\ i = j
        <3>1. CASE x = a /\ m = a
            BY <1>7, <2>3, <2>4, <3>1
        <3>2. CASE x = a /\ m # a
            BY <1>7, <2>2, <2>4, <3>2
        <3>3. CASE x # a /\ m = a
            BY <1>7, <2>2, <2>4, <3>3
        <3>4. CASE x # a /\ m # a
            BY <1>7, <2>4, <3>4, SamePlace DEF Agrees
        <3> QED
            BY <3>1, <3>2, <3>3, <3>4
    <2>5. ASSUME NEW x \in Nodes
          PROVE  \E m \in L : \E i \in 1..Len(R[m]) : R[m][i] = x
        <3>1. PICK m \in Lists : \E i \in 1..Len(S[m]) : S[m][i] = x
            BY DEF Agrees, Placed
        <3>2. PICK i \in 1..Len(S[m]) : S[m][i] = x
            BY <3>1
        <3>3. CASE m # a /\ m # b
            BY <1>7, <3>2, <3>3
        <3>4. CASE m = a
            <4>1. i \in 1..Len(t) /\ t[i] = x
                BY <1>4, <3>2, <3>4
            <4> QED
                BY <1>1, <1>7, <4>1
        <3>5. CASE m = b
            <4>2. c+i \in 1..Len(t) /\ t[c+i] = x
                BY <1>4, <3>2, <3>5
            <4> QED
                BY <1>1, <1>7, <4>2
        <3> QED
            BY <3>3, <3>4, <3>5
    <2> HIDE DEF L
    <2> QED
        BY <1>7, <1>8, <2>1, <2>4, <2>5 DEF Placed
<1>15. EndsAgree(R)'
    <2>1. At(u, 1) = NULL <=> c = 0
        <3>1. c # 0 => 1 \in 1..c /\ u[1] \in Nodes
            BY <1>1
        <3> QED
            BY <1>1, <1>3, <3>1 DEF At
    <2>2. At(v, Len(v)) = NULL <=> Len(v) = 0
        <3>1. Len(v) # 0 => Len(v) \in 1..Len(v) /\ v[Len(v)] \in Nodes
            BY <1>1
        <3> QED
            BY <1>1, <1>3, <3>1 DEF At
    <2>3. /\ head'[a] = IF head[a] = NULL THEN N ELSE head[a]
          /\ tail'[a] = IF tail[b] = NULL THEN tail[a] ELSE tail[b]
          /\ len'[a] = len[a] + len[b]
          /\ \A m \in L : m # a =>
                head'[m] = head[m] /\ tail'[m] = tail[m] /\ len'[m] = len[m]
        <3>1. head'[a] = IF head[a] = NULL THEN N ELSE head[a]
            BY <1>1, <1>6 DEF Drop, Lists
        <3>2. tail'[a] = IF tail[b] = NULL THEN tail[a] ELSE tail[b]
            BY <1>1, <1>6 DEF Drop, FieldsOK
        <3>3. len'[a] = len[a] + len[b]
            BY <1>1, <1>6 DEF Drop, FieldsOK
        <3>4. \A m \in L : m # a => head'[m] = head[m]
            BY <1>6 DEF Drop, Lists
        <3>5. \A m \in L : m # a => tail'[m] = tail[m] /\ len'[m] = len[m]
            BY <1>6 DEF Drop, FieldsOK
        <3> QED
            BY <3>1, <3>2, <3>3, <3>4, <3>5
    <2>4. head'[a] = At(t, 1)
        <3>1. At(t, 1) = IF 1 <= c THEN At(u, 1) ELSE At(v, 1-c)
            BY <1>5
        <3> QED
            BY <1>1, <1>2, <2>1, <2>3, <3>1 DEF N
    <2>5. tail'[a] = At(t, Len(t))
        <3>1. At(t, Len(t)) = IF Len(v) = 0 THEN At(u, c) ELSE At(v, Len(v))
            <4> HIDE DEF c, v
            <4>1. Len(t) \in Int /\ (Len(t) <= c <=> Len(v) = 0) /\ Len(t)-c = Len(v)
                BY ONLY <1>17
            <4>2. Len(v) = 0 => Len(t) = c
                BY ONLY <1>17
            <4> QED
                BY <1>5, <4>1, <4>2
        <3> QED
            BY <1>2, <2>2, <2>3, <3>1 DEF P
    <2>6. \A m \in L : m # a =>
              head[m] = At(S[m], 1) /\ tail[m] = At(S[m], Len(S[m])) /\ len[m] = Len(S[m])
        BY DEF Agrees, EndsAgree
    <2>7. \A m \in L : /\ head'[m] = At(R[m], 1) /\ tail'[m] = At(R[m], Len(R[m]))
                       /\ len'[m] = Len(R[m])
        BY <1>0, <1>2, <1>7, <2>3, <2>4, <2>5, <2>6
    <2> QED
        BY <1>8, <2>7 DEF EndsAgree
<1>16. LinksAgree(R)'
    <2>0. \A m \in Lists : \A i \in 1..Len(S[m]) :
              next[S[m][i]] = At(S[m], i+1) /\ prev[S[m][i]] = At(S[m], i-1)
        BY DEF Agrees, LinksAgree
    <2>1. ASSUME NEW m \in L, m # a, NEW i \in 1..Len(S[m])
          PROVE  next'[S[m][i]] = At(S[m], i+1) /\ prev'[S[m][i]] = At(S[m], i-1)
        <3>1. S[m][i] \in Nodes /\ S[m][i] # P /\ S[m][i] # N
            BY <1>11, <1>12, <2>1
        <3> QED
            BY <1>9, <2>0, <3>1
    <2>2. ASSUME NEW i \in 1..Len(t)
          PROVE  next'[t[i]] = At(t, i+1) /\ prev'[t[i]] = At(t, i-1)
        <3>1. CASE i <= c
            <4>1. i \in 1..c /\ t[i] = u[i] /\ u[i] \in Nodes
                BY <1>4, <1>11, <3>1
            <4>2. u[i] # N
                BY <1>1, <1>12, <4>1
            <4>3. prev'[t[i]] = At(u, i-1)
                BY <1>9, <2>0, <4>1, <4>2
            <4>4. At(t, i-1) = At(u, i-1)
                BY <1>1, <1>5, <3>1
            <4>5. next'[t[i]] = IF i = c THEN N ELSE At(u, i+1)
                <5>1. u[i] = P <=> i = c
                    <6>1. i = c => u[i] = P
                        BY <4>1 DEF P, At
                    <6> QED
                        BY <1>12, <4>1, <6>1
                <5> QED
                    BY <1>9, <2>0, <4>1, <5>1
            <4>6. At(t, i+1) = IF i = c THEN N ELSE At(u, i+1)
                <5>1. CASE i = c
                    <6>1. ~(i+1 <= c) /\ (i+1)-c = 1 /\ i+1 \in Int
                        BY <1>1, <5>1
                    <6> QED
                        BY <1>5, <5>1, <6>1 DEF N
                <5>2. CASE i # c
                    <6>1. i+1 <= c /\ i+1 \in Int
                        BY <1>1, <3>1, <5>2
                    <6> QED
                        BY <1>5, <5>2, <6>1
                <5> QED
                    BY <5>1, <5>2
            <4> QED
                BY <4>3, <4>4, <4>5, <4>6
        <3>2. CASE ~(i <= c)
            <4> DEFINE k == i-c
            <4>1. k \in 1..Len(v) /\ t[i] = v[k] /\ v[k] \in Nodes
                BY <1>4, <1>11, <3>2
            <4>2. v[k] # P
                BY <1>1, <1>12, <4>1
            <4>3. next'[t[i]] = At(v, k+1)
                BY <1>9, <2>0, <4>1, <4>2
            <4>4. At(t, i+1) = At(v, k+1)
                <5>1. ~(i+1 <= c) /\ (i+1)-c = k+1 /\ i+1 \in Int
                    BY <1>1, <3>2
                <5> QED
                    BY <1>5, <5>1
            <4>5. prev'[t[i]] = IF k = 1 THEN P ELSE At(v, k-1)
                <5>1. v[k] = N <=> k = 1
                    <6>1. k = 1 => v[k] = N
                        BY <4>1 DEF N, At
                    <6> QED
                        BY <1>12, <4>1, <6>1
                <5> HIDE DEF k
                <5> QED
                    BY <1>9, <2>0, <4>1, <5>1
            <4>6. At(t, i-1) = IF k = 1 THEN P ELSE At(v, k-1)
                <5>1. CASE k = 1
                    <6>1. i-1 = c /\ c \in Int /\ c <= c
                        BY <1>1, <5>1
                    <6> QED
                        BY <1>5, <5>1, <6>1 DEF P
                <5>2. CASE k # 1
                    <6>1. ~(i-1 <= c) /\ (i-1)-c = k-1 /\ i-1 \in Int
                        BY <1>1, <3>2, <5>2
                    <6> QED
                        BY <1>5, <5>2, <6>1
                <5> QED
                    BY <5>1, <5>2
            <4> QED
                BY <4>3, <4>4, <4>5, <4>6
        <3> QED
            BY <3>1, <3>2
    <2>3. \A m \in L : \A i \in 1..Len(R[m]) :
              next'[R[m][i]] = At(R[m], i+1) /\ prev'[R[m][i]] = At(R[m], i-1)
        BY <1>7, <2>1, <2>2
    <2> QED
        BY <1>8, <2>3 DEF LinksAgree
<1> QED
    BY <1>10, <1>14, <1>15, <1>16 DEF Agrees, R, t

-----------------------------------------------------------------------------
(* The items.                                                              *)

(* The items of some nodes are a sequence.                                 *)
LEMMA ItemsInType ==
    ASSUME NEW T, NEW s \in Seq(T), NEW f, NEW V, \A n \in T : f[n] \in V
    PROVE  ItemsIn(s, f) \in Seq(V) /\ Len(ItemsIn(s, f)) = Len(s)
<1>1. Len(s) \in Nat /\ \A i \in 1..Len(s) : s[i] \in T
    OBVIOUS
<1>2. ItemsIn(s, f) = [i \in 1..Len(s) |-> f[s[i]]]
    BY DEF ItemsIn
<1>3. \A i \in 1..Len(s) : f[s[i]] \in V
    BY <1>1
<1> QED
    BY <1>1, <1>2, <1>3

OneMore(s, p, node, f, g, x) ==
    ItemsIn(InsertAt(s, p+1, node), g) = InsertAt(ItemsIn(s, f), p+1, x)

OneLess(s, p, f, g) == ItemsIn(RemoveAt(s, p), g) = RemoveAt(ItemsIn(s, f), p)

(* A node more is an item more, at the same place.                         *)
LEMMA ItemsInserted ==
    ASSUME NEW T, NEW s \in Seq(T), NEW p \in 0..Len(s), NEW node, NEW f, NEW g, NEW x,
           node \notin T, g[node] = x, \A n \in T : g[n] = f[n]
    PROVE  OneMore(s, p, node, f, g, x)
<1> DEFINE V == {f[n] : n \in T} \cup {x}
           M == T \cup {node}
           w == ItemsIn(s, f)
           t == InsertAt(s, p+1, node)
           a == ItemsIn(t, g)
           b == InsertAt(w, p+1, x)
<1>1. Len(s) \in Nat /\ p \in Nat /\ p <= Len(s) /\ \A i \in 1..Len(s) : s[i] \in T
    OBVIOUS
<1>2. /\ \A n \in T : f[n] \in V
      /\ \A n \in M : g[n] \in V
      /\ s \in Seq(M) /\ node \in M /\ x \in V
    OBVIOUS
<1> HIDE DEF V, M
<1>3. w \in Seq(V) /\ Len(w) = Len(s) /\ \A i \in 1..Len(s) : w[i] = f[s[i]]
    <2>1. w \in Seq(V) /\ Len(w) = Len(s)
        BY <1>2, ItemsInType
    <2> QED
        BY <2>1 DEF ItemsIn
<1>4. IsInserted(M, s, p, node, t)
    BY <1>2, InsertedIs
<1> HIDE DEF w, t
<1>5. IsInserted(V, w, p, x, b)
    BY <1>2, <1>3, InsertedIs
<1> HIDE DEF b
<1>6. t \in Seq(M) /\ Len(t) = Len(s)+1
    BY <1>4 DEF IsInserted
<1>7. /\ a \in Seq(V) /\ Len(a) = Len(s)+1
      /\ \A i \in 1..Len(s)+1 : a[i] = g[t[i]]
    <2>1. a \in Seq(V) /\ Len(a) = Len(t)
        BY <1>2, <1>6, ItemsInType
    <2>2. a = [i \in 1..Len(t) |-> g[t[i]]]
        BY DEF ItemsIn
    <2> QED
        BY <1>6, <2>1, <2>2
<1> HIDE DEF a
<1>8. b \in Seq(V) /\ Len(b) = Len(s)+1
    BY <1>3, <1>5 DEF IsInserted
<1>9. ASSUME NEW i \in 1..Len(s)+1
      PROVE  a[i] = b[i]
    <2>1. CASE i <= p
        <3>1. i \in 1..p /\ i \in 1..Len(s)
            BY <1>1, <2>1
        <3>2. t[i] = s[i] /\ b[i] = w[i]
            BY <1>4, <1>5, <3>1 DEF IsInserted
        <3> QED
            BY <1>1, <1>3, <1>7, <3>1, <3>2
    <2>2. CASE i = p+1
        <3>1. t[i] = node /\ b[i] = x
            BY <1>4, <1>5, <2>2 DEF IsInserted
        <3> QED
            BY <1>7, <3>1
    <2>3. CASE i > p+1
        <3>1. i \in p+2..Len(s)+1 /\ i-1 \in 1..Len(s)
            BY <1>1, <2>3
        <3>2. t[i] = s[i-1] /\ b[i] = w[i-1]
            BY <1>3, <1>4, <1>5, <3>1 DEF IsInserted
        <3> QED
            BY <1>1, <1>3, <1>7, <3>1, <3>2
    <2> QED
        BY <1>1, <2>1, <2>2, <2>3
<1>10. a = b
    BY <1>7, <1>8, <1>9, SeqEqual
<1> QED
    BY <1>10 DEF a, b, t, w, OneMore

(* A node less is an item less, at the same place.                         *)
LEMMA ItemsRemoved ==
    ASSUME NEW T, NEW s \in Seq(T), NEW p \in 1..Len(s), NEW f, NEW g,
           \A i \in 1..Len(s) : i # p => g[s[i]] = f[s[i]]
    PROVE  OneLess(s, p, f, g)
<1> DEFINE V == {f[n] : n \in T} \cup {g[n] : n \in T}
           w == ItemsIn(s, f)
           t == RemoveAt(s, p)
           a == ItemsIn(t, g)
           b == RemoveAt(w, p)
<1>1. Len(s) \in Nat /\ p \in Nat /\ p <= Len(s) /\ 1 <= p /\ \A i \in 1..Len(s) : s[i] \in T
    OBVIOUS
<1>2. \A n \in T : f[n] \in V /\ g[n] \in V
    OBVIOUS
<1> HIDE DEF V
<1>3. w \in Seq(V) /\ Len(w) = Len(s) /\ \A i \in 1..Len(s) : w[i] = f[s[i]]
    <2>1. w \in Seq(V) /\ Len(w) = Len(s)
        BY <1>2, ItemsInType
    <2> QED
        BY <2>1 DEF ItemsIn
<1>4. IsRemoved(T, s, p, t)
    BY RemovedIs
<1> HIDE DEF w, t
<1>5. IsRemoved(V, w, p, b)
    BY <1>3, RemovedIs
<1> HIDE DEF b
<1>6. t \in Seq(T) /\ Len(t) = Len(s)-1
    BY <1>4 DEF IsRemoved
<1>7. /\ a \in Seq(V) /\ Len(a) = Len(s)-1
      /\ \A i \in 1..Len(s)-1 : a[i] = g[t[i]]
    <2>1. a \in Seq(V) /\ Len(a) = Len(t)
        BY <1>2, <1>6, ItemsInType
    <2>2. a = [i \in 1..Len(t) |-> g[t[i]]]
        BY DEF ItemsIn
    <2> QED
        BY <1>6, <2>1, <2>2
<1> HIDE DEF a
<1>8. b \in Seq(V) /\ Len(b) = Len(s)-1
    BY <1>3, <1>5 DEF IsRemoved
<1>9. ASSUME NEW i \in 1..Len(s)-1
      PROVE  a[i] = b[i]
    <2>1. i \in 1..Len(s) /\ i+1 \in 1..Len(s)
        BY <1>1
    <2>2. CASE i < p
        <3>1. t[i] = s[i] /\ b[i] = w[i] /\ i # p
            BY <1>1, <1>3, <1>4, <1>5, <2>2 DEF IsRemoved
        <3> QED
            BY <1>3, <1>7, <2>1, <3>1
    <2>3. CASE ~(i < p)
        <3>1. t[i] = s[i+1] /\ b[i] = w[i+1] /\ i+1 # p
            BY <1>1, <1>3, <1>4, <1>5, <2>3 DEF IsRemoved
        <3> QED
            BY <1>3, <1>7, <2>1, <3>1
    <2> QED
        BY <2>2, <2>3
<1>10. a = b
    BY <1>7, <1>8, <1>9, SeqEqual
<1> QED
    BY <1>10 DEF a, b, t, w, OneLess

BothItems(u, v, f) == ItemsIn(u \o v, f) = ItemsIn(u, f) \o ItemsIn(v, f)

(* The items of the nodes of two lists in one.                             *)
LEMMA ItemsBoth ==
    ASSUME NEW T, NEW u \in Seq(T), NEW v \in Seq(T), NEW f
    PROVE  BothItems(u, v, f)
<1> DEFINE V == {f[n] : n \in T}
           t == u \o v
           y == ItemsIn(u, f)
           z == ItemsIn(v, f)
           a == ItemsIn(t, f)
           b == y \o z
<1>1. /\ t \in Seq(T) /\ Len(t) = Len(u)+Len(v) /\ Len(u) \in Nat /\ Len(v) \in Nat
      /\ \A i \in 1..Len(u)+Len(v) : t[i] = IF i <= Len(u) THEN u[i] ELSE v[i-Len(u)]
    BY ConcatProperties
<1>2. \A n \in T : f[n] \in V
    OBVIOUS
<1> HIDE DEF V, t
<1>3. /\ y \in Seq(V) /\ z \in Seq(V) /\ a \in Seq(V)
      /\ Len(y) = Len(u) /\ Len(z) = Len(v) /\ Len(a) = Len(t)
    BY <1>1, <1>2, ItemsInType
<1>4. /\ \A i \in 1..Len(u) : y[i] = f[u[i]]
      /\ \A i \in 1..Len(v) : z[i] = f[v[i]]
      /\ \A i \in 1..Len(t) : a[i] = f[t[i]]
    BY DEF ItemsIn
<1> HIDE DEF y, z, a
<1>5. /\ b \in Seq(V) /\ Len(b) = Len(u)+Len(v)
      /\ \A i \in 1..Len(u)+Len(v) : b[i] = IF i <= Len(u) THEN y[i] ELSE z[i-Len(u)]
    <2>1. y \in Seq(V) /\ z \in Seq(V)
        BY <1>3
    <2>2. /\ b \in Seq(V) /\ Len(b) = Len(y)+Len(z)
          /\ \A i \in 1..Len(y)+Len(z) : b[i] = IF i <= Len(y) THEN y[i] ELSE z[i-Len(y)]
        BY <2>1, ConcatProperties
    <2> HIDE DEF b
    <2> QED
        BY <1>3, <2>2
<1> HIDE DEF b
<1>6. ASSUME NEW i \in 1..Len(u)+Len(v)
      PROVE  a[i] = b[i]
    <2>1. CASE i <= Len(u)
        <3>1. i \in 1..Len(u) /\ i \in 1..Len(t)
            BY <1>1, <2>1
        <3>2. a[i] = f[t[i]] /\ t[i] = u[i]
            BY <1>1, <1>4, <2>1, <3>1
        <3>3. b[i] = y[i] /\ y[i] = f[u[i]]
            BY <1>4, <1>5, <2>1, <3>1
        <3> QED
            BY <3>2, <3>3
    <2>2. CASE ~(i <= Len(u))
        <3>1. i-Len(u) \in 1..Len(v)
            BY <1>1, <2>2
        <3> QED
            BY <1>1, <1>4, <1>5, <2>2, <3>1
    <2> QED
        BY <2>1, <2>2
<1>7. a = b
    BY <1>1, <1>3, <1>5, <1>6, SeqEqual
<1> QED
    BY <1>7 DEF a, b, t, y, z, BothItems

(* In front of the first, behind the last.                                 *)
LEMMA InsertEnds ==
    ASSUME NEW T, NEW s \in Seq(T), NEW x
    PROVE  /\ InsertAt(s, 1, x) = <<x>> \o s
           /\ InsertAt(s, Len(s)+1, x) = Append(s, x)
<1> DEFINE U == T \cup {x}
<1>1. s \in Seq(U) /\ x \in U /\ Len(s) \in Nat
    OBVIOUS
<1>2. InsertAt(s, 1, x) = <<x>> \o s
    <2>1. SubSeq(s, 1, 1-1) = << >> /\ SubSeq(s, 1, Len(s)) = s
        BY <1>1
    <2>2. << >> \o <<x>> = <<x>>
        BY <1>1
    <2> QED
        BY <2>1, <2>2 DEF InsertAt
<1>3. InsertAt(s, Len(s)+1, x) = Append(s, x)
    <2>1. (Len(s)+1)-1 = Len(s)
        BY <1>1
    <2>2. SubSeq(s, 1, Len(s)) = s /\ SubSeq(s, Len(s)+1, Len(s)) = << >>
        BY <1>1
    <2>3. s \o <<x>> = Append(s, x) /\ Append(s, x) \in Seq(U)
        BY <1>1
    <2>4. Append(s, x) \o << >> = Append(s, x)
        BY <2>3, ConcatEmptySeq
    <2> QED
        BY <2>1, <2>2, <2>3, <2>4 DEF InsertAt
<1> QED
    BY <1>2, <1>3

(* The first, the last.                                                    *)
LEMMA RemoveEnds ==
    ASSUME NEW T, NEW s \in Seq(T), s # << >>
    PROVE  /\ RemoveAt(s, 1) = Tail(s)
           /\ RemoveAt(s, Len(s)) = Front(s)
<1>1. Len(s) \in Nat /\ Len(s) > 0
    OBVIOUS
<1>2. RemoveAt(s, 1) = Tail(s)
    <2>1. SubSeq(s, 1, 1-1) = << >> /\ SubSeq(s, 1+1, Len(s)) = Tail(s) /\ Tail(s) \in Seq(T)
        BY <1>1
    <2>2. << >> \o Tail(s) = Tail(s)
        BY <2>1, ConcatEmptySeq
    <2> QED
        BY <2>1, <2>2 DEF RemoveAt
<1>3. RemoveAt(s, Len(s)) = Front(s)
    <2>1. /\ SubSeq(s, 1, Len(s)-1) = Front(s) /\ Front(s) \in Seq(T)
          /\ SubSeq(s, Len(s)+1, Len(s)) = << >>
        BY <1>1 DEF Front
    <2>2. Front(s) \o << >> = Front(s)
        BY <2>1, ConcatEmptySeq
    <2> QED
        BY <2>1, <2>2 DEF RemoveAt
<1> QED
    BY <1>2, <1>3

(* The same nodes with the same items.                                     *)
LEMMA ItemsSame ==
    ASSUME NEW T, NEW s \in Seq(T), NEW f, NEW g, \A n \in T : g[n] = f[n]
    PROVE  ItemsIn(s, g) = ItemsIn(s, f)
<1>1. \A i \in 1..Len(s) : s[i] \in T
    OBVIOUS
<1> QED
    BY <1>1 DEF ItemsIn

-----------------------------------------------------------------------------
(* The abstract state, before a step and after it.                         *)

(* The lists are S, and the iterator is in place p of list m, or there is  *)
(* none: m is NULL.                                                        *)
IsIn(S, m, p) ==
    \/ m = NULL /\ p = 0 /\ it = NoIterator
    \/ m \in Lists /\ p \in 0..Len(S[m]) /\ it = [list |-> m, cur |-> At(S[m], p)]

Stands(S, m, p) ==
    ListInv /\ ItemsOf = ItemsAt(S) /\ PlaceOf = [list |-> m, pos |-> p]

StandsWhereItIs ==
    FieldsOK => \A S, m, p : Agrees(S) /\ IsIn(S, m, p) => Stands(S, m, p)

(* The abstract lists are the items of S, the abstract iterator is in the  *)
(* place of the iterator.                                                  *)
LEMMA StandsIs == StandsWhereItIs
<1> SUFFICES ASSUME FieldsOK, NEW S, NEW m, NEW p, Agrees(S), IsIn(S, m, p)
             PROVE  Stands(S, m, p)
    BY DEF StandsWhereItIs
<1>1. Abstracts(S)
    BY AbstractIs
<1>2. ItemsOf = ItemsAt(S)
    BY <1>1 DEF Abstracts
<1>3. CASE m = NULL /\ p = 0 /\ it = NoIterator
    <2>1. PlaceOf = [list |-> m, pos |-> p]
        BY <1>1, <1>3 DEF Abstracts
    <2>2. ListInv
        BY <1>3 DEF ListInv, IteratorOK
    <2> QED
        BY <1>2, <2>1, <2>2 DEF Stands
<1>4. CASE m \in Lists /\ p \in 0..Len(S[m]) /\ it = [list |-> m, cur |-> At(S[m], p)]
    <2>1. p \in Nat /\ it.list = m /\ it.cur = At(S[m], p)
        BY <1>4
    <2>2. StandsAt(S, p)
        BY <1>4, <2>1 DEF StandsAt
    <2>3. PlaceOf = [list |-> m, pos |-> p]
        BY <1>1, <1>4, <2>1, <2>2 DEF Abstracts
    <2>4. IteratorOK(S)
        BY <1>4, <2>1, <2>2 DEF IteratorOK
    <2> QED
        BY <1>2, <2>3, <2>4 DEF Stands, ListInv
<1> QED
    BY <1>3, <1>4 DEF IsIn

(* So after a step, too.                                                   *)
LEMMA StandsNext ==
    ASSUME FieldsOK', NEW R, Agrees(R)', NEW m, NEW p, IsIn(R, m, p)'
    PROVE  Stands(R, m, p)'
<1>1. StandsWhereItIs'
    BY StandsIs, PTL
<1> QED
    BY <1>1 DEF StandsWhereItIs

(* Where the iterator is.                                                  *)
LEMMA SomePlace ==
    ASSUME NEW S, IteratorOK(S)
    PROVE  \E m, p : IsIn(S, m, p)
<1>1. CASE it = NoIterator
    BY <1>1 DEF IsIn
<1>2. CASE /\ it = [list |-> it.list, cur |-> it.cur]
           /\ it.list \in Lists /\ \E p \in Nat : StandsAt(S, p)
    <2>1. PICK p \in Nat : StandsAt(S, p)
        BY <1>2
    <2>2. IsIn(S, it.list, p)
        BY <1>2, <2>1 DEF IsIn, StandsAt
    <2> QED
        BY <2>2
<1> QED
    BY <1>1, <1>2 DEF IteratorOK

-----------------------------------------------------------------------------
(* The steps of the list are steps of the sequences.                       *)

(* The ends of a list, and its items.                                      *)
LEMMA ListIs ==
    ASSUME FieldsOK, NEW S, Agrees(S), NEW l \in Lists
    PROVE  /\ S[l] \in Seq(Nodes) /\ Len(S[l]) \in Nat
           /\ head[l] = At(S[l], 1) /\ tail[l] = At(S[l], Len(S[l])) /\ len[l] = Len(S[l])
           /\ At(S[l], 0) = NULL /\ At(S[l], Len(S[l])+1) = NULL
           /\ \A i \in 1..Len(S[l]) : S[l][i] \in Nodes /\ S[l][i] # NULL
           /\ head[l] = NULL <=> Len(S[l]) = 0
           /\ tail[l] = NULL <=> Len(S[l]) = 0
           /\ DOMAIN ItemsAt(S) = Lists
           /\ ItemsAt(S)[l] = ItemsIn(S[l], item)
           /\ ItemsAt(S)[l] \in Seq({item[k] : k \in Nodes})
           /\ Len(ItemsAt(S)[l]) = Len(S[l])
<1> DEFINE s == S[l]
<1>1. /\ s \in Seq(Nodes) /\ head[l] = At(s, 1) /\ tail[l] = At(s, Len(s)) /\ len[l] = Len(s)
    BY DEF Agrees, Placed, EndsAgree
<1>2. NULL \notin Nodes
    BY HeapAssumption DEF FieldsOK
<1>3. DOMAIN ItemsAt(S) = Lists /\ ItemsAt(S)[l] = ItemsIn(s, item)
    BY DEF ItemsAt
<1> HIDE DEF s
<1>4. Len(s) \in Nat /\ \A i \in 1..Len(s) : s[i] \in Nodes /\ s[i] # NULL
    BY <1>1, <1>2
<1>5. At(s, 0) = NULL /\ At(s, Len(s)+1) = NULL
    BY <1>4 DEF At
<1>6. (At(s, 1) = NULL <=> Len(s) = 0) /\ (At(s, Len(s)) = NULL <=> Len(s) = 0)
    BY <1>4 DEF At
<1>7. ItemsIn(s, item) \in Seq({item[k] : k \in Nodes}) /\ Len(ItemsIn(s, item)) = Len(s)
    BY <1>1, ItemsInType
<1> QED
    BY <1>1, <1>3, <1>4, <1>5, <1>6, <1>7 DEF s

ItemInserted(S, l, p, x, m, q) ==
    /\ ListInv'
    /\ ItemsOf' = [ItemsAt(S) EXCEPT ![l] = InsertAt(ItemsAt(S)[l], p+1, x)]
    /\ PlaceOf' = [list |-> m, pos |-> IF m = l /\ q > p THEN q+1 ELSE q]

(* A node more behind place p of a list: an item more there, and the       *)
(* iterator stays with its item.                                           *)
LEMMA InsertStep ==
    ASSUME FieldsOK, NEW S, Agrees(S), NEW m, NEW q, IsIn(S, m, q),
           NEW l \in Lists, NEW p \in 0..Len(S[l]), NEW x,
           NEW node \in Node \ Nodes, Link(node, At(S[l], p), At(S[l], p+1), x),
           head' = IF p = 0 THEN [head EXCEPT ![l] = node] ELSE head,
           tail' = IF p = Len(S[l]) THEN [tail EXCEPT ![l] = node] ELSE tail,
           len' = [len EXCEPT ![l] = @ + 1], UNCHANGED it
    PROVE  ItemInserted(S, l, p, x, m, q)
<1> DEFINE s == S[l]
           t == InsertAt(s, p+1, node)
           R == [S EXCEPT ![l] = InsertAt(S[l], p+1, node)]
           r == IF m = l /\ q > p THEN q+1 ELSE q
<1>1. FieldsOK' /\ Agrees(R)'
    BY InsertAgrees
<1>2. /\ s \in Seq(Nodes) /\ Len(s) \in Nat /\ p \in Nat /\ p <= Len(s)
      /\ DOMAIN S = Lists /\ \A k \in Lists : S[k] \in Seq(Nodes)
    BY DEF Agrees, Placed
<1>3. Lists' = Lists
    BY DEF Lists
<1>4. R[l] = t /\ \A k \in Lists : k # l => R[k] = S[k]
    BY <1>2
<1>5. item'[node] = x /\ \A n \in Nodes : item'[n] = item[n]
    BY DEF Link, Put, FieldsOK, Nodes
<1>6. Len(t) = Len(s)+1
    <2>1. s \in Seq(Nodes \cup {node})
        BY <1>2
    <2> HIDE DEF s
    <2>2. IsInserted(Nodes \cup {node}, s, p, node, InsertAt(s, p+1, node))
        BY <2>1, InsertedIs DEF s
    <2> QED
        BY <2>2 DEF IsInserted
<1>7. \A j \in Int : At(t, j) = IF j <= p THEN At(s, j)
                                ELSE IF j = p+1 THEN node ELSE At(s, j-1)
    <2> DEFINE M == Nodes \cup {node}
    <2>1. s \in Seq(M) /\ node \in M /\ p \in 0..Len(s)
        BY <1>2
    <2> HIDE DEF M, s
    <2> QED
        BY <2>1, AtInserted
<1>8. IsIn(R, m, r)'
    <2>1. CASE m = NULL /\ q = 0 /\ it = NoIterator
        <3>1. r = 0
            BY <1>2, <2>1
        <3> QED
            BY <2>1, <3>1 DEF IsIn, NoIterator
    <2>2. CASE m \in Lists /\ q \in 0..Len(S[m]) /\ it = [list |-> m, cur |-> At(S[m], q)]
        <3>1. CASE m # l
            BY <1>3, <1>4, <2>2, <3>1 DEF IsIn
        <3>2. CASE m = l
            <4>1. q \in 0..Len(s) /\ r = (IF q > p THEN q+1 ELSE q)
                BY <2>2, <3>2
            <4> HIDE DEF s, t, R
            <4>2. r \in 0..Len(s)+1 /\ q \in Nat
                BY <1>2, <4>1
            <4>3. At(t, r) = At(s, q)
                <5>1. CASE q > p
                    <6>1. r = q+1 /\ r \in Int /\ r-1 = q /\ ~(r <= p) /\ r # p+1
                        BY <1>2, <4>1, <4>2, <5>1
                    <6> QED
                        BY <1>7, <6>1
                <5>2. CASE ~(q > p)
                    <6>1. r = q /\ r \in Int /\ r <= p
                        BY <1>2, <4>1, <4>2, <5>2
                    <6> QED
                        BY <1>7, <6>1
                <5> QED
                    BY <5>1, <5>2
            <4>4. it' = [list |-> m, cur |-> At(R[m], r)]
                BY <1>4, <2>2, <3>2, <4>3 DEF s
            <4> QED
                BY <1>3, <1>4, <1>6, <2>2, <3>2, <4>2, <4>4 DEF IsIn
        <3> QED
            BY <3>1, <3>2
    <2> QED
        BY <2>1, <2>2 DEF IsIn
<1>9. Stands(R, m, r)'
    <2> HIDE DEF R, r
    <2> QED
        BY <1>1, <1>8, StandsNext
<1>10. ItemsAt(R)' = [ItemsAt(S) EXCEPT ![l] = InsertAt(ItemsAt(S)[l], p+1, x)]
    <2>1. ItemsIn(t, item') = InsertAt(ItemsIn(s, item), p+1, x)
        <3> DEFINE T == Nodes
                   f == item
                   g == item'
        <3>1. /\ s \in Seq(T) /\ p \in 0..Len(s) /\ node \notin T
              /\ g[node] = x /\ \A n \in T : g[n] = f[n]
            BY <1>2, <1>5
        <3> HIDE DEF s, T, f, g
        <3>2. OneMore(s, p, node, f, g, x)
            BY <3>1, ItemsInserted
        <3> QED
            BY <3>2 DEF f, g, OneMore
    <2>2. ASSUME NEW k \in Lists
          PROVE  ItemsIn(S[k], item') = ItemsIn(S[k], item)
        BY <1>2, <1>5, ItemsSame
    <2>3. ItemsAt(R)' = [k \in Lists |-> ItemsIn(R[k], item')]
        BY <1>3 DEF ItemsAt
    <2> HIDE DEF R, t
    <2> QED
        BY <1>4, <2>1, <2>2, <2>3 DEF ItemsAt
<1> HIDE DEF R, r
<1> QED
    BY <1>9, <1>10 DEF Stands, r, ItemInserted

(* A list without the node at place p.                                     *)
Without(S, l, p) == [S EXCEPT ![l] = RemoveAt(S[l], p)]

(* What is in it, and where.                                               *)
LEMMA WithoutIs ==
    ASSUME NEW S, Placed(S), NEW l \in Lists, NEW p \in 1..Len(S[l])
    PROVE  /\ \A k \in Lists : k # l => Without(S, l, p)[k] = S[k]
           /\ Without(S, l, p)[l] = RemoveAt(S[l], p)
           /\ Len(Without(S, l, p)[l]) = Len(S[l])-1
           /\ \A j \in Int : At(Without(S, l, p)[l], j)
                                 = IF j < p THEN At(S[l], j) ELSE At(S[l], j+1)
<1> DEFINE s == S[l]
           t == RemoveAt(s, p)
<1>1. s \in Seq(Nodes) /\ DOMAIN S = Lists /\ p \in 1..Len(s)
    BY DEF Placed
<1>2. Without(S, l, p)[l] = t /\ \A k \in Lists : k # l => Without(S, l, p)[k] = S[k]
    BY <1>1 DEF Without
<1> HIDE DEF s
<1>3. IsRemoved(Nodes, s, p, RemoveAt(s, p))
    BY <1>1, RemovedIs
<1>4. \A j \in Int : At(RemoveAt(s, p), j) = IF j < p THEN At(s, j) ELSE At(s, j+1)
    BY <1>1, AtRemoved
<1>5. Len(t) = Len(s)-1
    BY <1>3 DEF IsRemoved
<1> QED
    BY <1>2, <1>4, <1>5 DEF s

ItemRemoved(S, l, p, m, r) ==
    /\ ListInv'
    /\ ItemsOf' = [ItemsAt(S) EXCEPT ![l] = RemoveAt(ItemsAt(S)[l], p)]
    /\ PlaceOf' = [list |-> m, pos |-> r]

(* A node less is an item less.                                            *)
LEMMA RemoveStep ==
    ASSUME FieldsOK, NEW S, Agrees(S), NEW l \in Lists, NEW p \in 1..Len(S[l]),
           next' = Drop(Store(next, At(S[l], p-1), At(S[l], p+1)), S[l][p]),
           prev' = Drop(Store(prev, At(S[l], p+1), At(S[l], p-1)), S[l][p]),
           item' = Drop(item, S[l][p]),
           head' = IF p = 1 THEN [head EXCEPT ![l] = At(S[l], 2)] ELSE head,
           tail' = IF p = Len(S[l]) THEN [tail EXCEPT ![l] = At(S[l], Len(S[l])-1)] ELSE tail,
           len' = [len EXCEPT ![l] = @ - 1],
           NEW m, NEW r, IsIn(Without(S, l, p), m, r)'
    PROVE  ItemRemoved(S, l, p, m, r)
<1> DEFINE s == S[l]
           t == RemoveAt(s, p)
           R == Without(S, l, p)
<1>0. IsIn(R, m, r)'
    OBVIOUS
<1>1. FieldsOK' /\ Agrees(R)'
    BY RemoveAgrees DEF Without
<1>2. /\ s \in Seq(Nodes) /\ p \in 1..Len(s) /\ DOMAIN item = Nodes
      /\ DOMAIN S = Lists /\ \A k \in Lists : S[k] \in Seq(Nodes)
    BY DEF Agrees, Placed, FieldsOK
<1>3. Lists' = Lists
    BY DEF Lists
<1>4. R[l] = t /\ \A k \in Lists : k # l => R[k] = S[k]
    BY <1>2 DEF Without
<1>5. \A n \in Nodes : n # S[l][p] => item'[n] = item[n]
    BY <1>2 DEF Drop
<1>6. \A k \in Lists : \A i \in 1..Len(S[k]) :
          S[k][i] \in Nodes /\ (S[k][i] = S[l][p] => k = l /\ i = p)
    BY <1>2, SamePlace DEF Agrees
<1>7. Stands(R, m, r)'
    <2> HIDE DEF R
    <2> QED
        BY <1>0, <1>1, StandsNext
<1>8. ItemsAt(R)' = [ItemsAt(S) EXCEPT ![l] = RemoveAt(ItemsAt(S)[l], p)]
    <2>1. ItemsIn(t, item') = RemoveAt(ItemsIn(s, item), p)
        <3> DEFINE T == Nodes
                   f == item
                   g == item'
        <3>1. /\ s \in Seq(T) /\ p \in 1..Len(s)
              /\ \A i \in 1..Len(s) : i # p => g[s[i]] = f[s[i]]
            BY <1>2, <1>5, <1>6
        <3> HIDE DEF s, T, f, g
        <3>2. OneLess(s, p, f, g)
            BY <3>1, ItemsRemoved
        <3> QED
            BY <3>2 DEF f, g, OneLess
    <2>2. ASSUME NEW k \in Lists, k # l
          PROVE  ItemsIn(S[k], item') = ItemsIn(S[k], item)
        <3>1. \A i \in 1..Len(S[k]) : item'[S[k][i]] = item[S[k][i]]
            BY <1>5, <1>6, <2>2
        <3> QED
            BY <3>1 DEF ItemsIn
    <2>3. ItemsAt(R)' = [k \in Lists |-> ItemsIn(R[k], item')]
        BY <1>3 DEF ItemsAt
    <2> HIDE DEF R, t
    <2> QED
        BY <1>4, <2>1, <2>2, <2>3 DEF ItemsAt
<1> HIDE DEF R
<1> QED
    BY <1>7, <1>8 DEF Stands, ItemRemoved

(* An iterator at the node that goes is let go of; one behind it is a      *)
(* place nearer to the front.                                              *)
LEMMA ReleasedIs ==
    ASSUME NEW S, Placed(S), NULL \notin Nodes, NULL \notin Lists,
           NEW l \in Lists, NEW p \in 1..Len(S[l]), Lists' = Lists,
           NEW m, NEW q, IsIn(S, m, q), Release(S[l][p], NULL)
    PROVE  IF m = l /\ q = p THEN IsIn(Without(S, l, p), NULL, 0)'
           ELSE IsIn(Without(S, l, p), m, IF m = l /\ q > p THEN q-1 ELSE q)'
<1> DEFINE s == S[l]
           R == Without(S, l, p)
           r == IF m = l /\ q > p THEN q-1 ELSE q
<1>1. /\ s \in Seq(Nodes) /\ Len(s) \in Nat /\ p \in Nat /\ 1 <= p /\ p <= Len(s)
      /\ s[p] \in Nodes /\ s[p] # NULL
    <2>1. s \in Seq(Nodes) /\ p \in 1..Len(s)
        BY DEF Placed
    <2> HIDE DEF s
    <2> QED
        BY <2>1
<1>2. it' = IF it.cur = s[p] \/ it.list = NULL THEN NoIterator ELSE it
    BY <1>1 DEF Release
<1>3. CASE m = NULL /\ q = 0 /\ it = NoIterator
    <2>1. it' = NoIterator /\ r = 0 /\ m # l
        BY <1>1, <1>2, <1>3
    <2> QED
        BY <1>3, <2>1 DEF IsIn, NoIterator
<1>4. CASE m \in Lists /\ q \in 0..Len(S[m]) /\ it = [list |-> m, cur |-> At(S[m], q)]
    <2>1. it.list = m /\ m # NULL /\ it.cur = At(S[m], q) /\ q \in Nat
        BY <1>4
    <2>2. it.cur = s[p] <=> m = l /\ q = p
        <3>1. CASE q \in 1..Len(S[m])
            <4>1. it.cur = S[m][q]
                BY <2>1, <3>1 DEF At
            <4> QED
                BY <1>4, <3>1, <4>1, SamePlace
        <3>2. CASE q \notin 1..Len(S[m])
            <4>1. it.cur = NULL
                BY <2>1, <3>2 DEF At
            <4> QED
                BY <1>1, <3>2, <4>1
        <3> QED
            BY <3>1, <3>2
    <2>3. CASE m = l /\ q = p
        BY <1>2, <2>2, <2>3 DEF IsIn, NoIterator
    <2>4. CASE m = l /\ q # p
        <3>1. it' = it /\ q \in 0..Len(s)
            BY <1>2, <1>4, <2>1, <2>2, <2>4
        <3>2. /\ Len(R[l]) = Len(s)-1
              /\ \A j \in Int : At(R[l], j) = IF j < p THEN At(s, j) ELSE At(s, j+1)
            BY WithoutIs
        <3>3. r = IF q > p THEN q-1 ELSE q
            BY <2>4
        <3> HIDE DEF s, R, r
        <3>4. r \in 0..Len(s)-1 /\ At(R[l], r) = At(s, q)
            <4>1. CASE q > p
                <5>1. r = q-1 /\ r \in Int /\ ~(r < p) /\ r+1 = q /\ r \in 0..Len(s)-1
                    BY <1>1, <3>1, <3>3, <4>1
                <5> QED
                    BY <3>2, <5>1
            <4>2. CASE ~(q > p)
                <5>1. r = q /\ r \in Int /\ r < p /\ r \in 0..Len(s)-1
                    BY <1>1, <2>1, <2>4, <3>1, <3>3, <4>2
                <5> QED
                    BY <3>2, <5>1
            <4> QED
                BY <4>1, <4>2
        <3>5. it' = [list |-> l, cur |-> At(R[l], r)]
            BY <1>4, <2>4, <3>1, <3>4 DEF s
        <3>6. IsIn(R, l, r)'
            BY <3>2, <3>4, <3>5 DEF IsIn
        <3> QED
            BY <2>4, <3>6 DEF R, r
    <2>5. CASE m # l
        <3>1. it' = it /\ r = q /\ R[m] = S[m]
            BY <1>2, <1>4, <2>1, <2>2, <2>5, WithoutIs
        <3> HIDE DEF R
        <3>2. IsIn(R, m, q)'
            BY <1>4, <3>1 DEF IsIn
        <3> QED
            BY <2>5, <3>2 DEF R
    <2> QED
        BY <2>3, <2>4, <2>5
<1> QED
    BY <1>3, <1>4 DEF IsIn

(* What the abstract state is before a step.                               *)
LEMMA Before ==
    ASSUME FieldsOK, NEW S, Agrees(S), NEW m, NEW q, IsIn(S, m, q)
    PROVE  /\ ItemsOf = ItemsAt(S) /\ DOMAIN ItemsOf = Lists
           /\ PlaceOf = [list |-> m, pos |-> q] /\ q \in Nat
           /\ NULL \notin Nodes /\ NULL \notin Lists
<1>1. Stands(S, m, q)
    BY StandsIs DEF StandsWhereItIs
<1>2. ItemsOf = ItemsAt(S) /\ PlaceOf = [list |-> m, pos |-> q]
    BY <1>1 DEF Stands
<1>3. NULL \notin Nodes /\ NULL \notin Lists
    BY HeapAssumption, ListAssumption DEF FieldsOK
<1>4. q \in Nat
    BY DEF IsIn
<1> QED
    BY <1>2, <1>3, <1>4 DEF ItemsAt

(* A node in front of the others.                                          *)
LEMMA PushFrontStep ==
    ASSUME FieldsOK, NEW S, Agrees(S), NEW m, NEW q, IsIn(S, m, q),
           NEW l \in Lists, NEW x, PushFront(l, x)
    PROVE  ListInv' /\ Sequences!PushFront(l, x)
<1>1. PICK node \in Node \ Nodes :
          /\ Link(node, NULL, head[l], x)
          /\ head' = [head EXCEPT ![l] = node]
          /\ tail' = IF head[l] = NULL THEN [tail EXCEPT ![l] = node] ELSE tail
          /\ len' = [len EXCEPT ![l] = @ + 1]
          /\ UNCHANGED it
    BY DEF PushFront
<1>2. /\ Link(node, At(S[l], 0), At(S[l], 0+1), x)
      /\ head' = IF 0 = 0 THEN [head EXCEPT ![l] = node] ELSE head
      /\ tail' = IF 0 = Len(S[l]) THEN [tail EXCEPT ![l] = node] ELSE tail
      /\ 0 \in 0..Len(S[l])
    <2>1. /\ Len(S[l]) \in Nat /\ head[l] = At(S[l], 1) /\ At(S[l], 0) = NULL
          /\ head[l] = NULL <=> Len(S[l]) = 0
        BY ListIs
    <2>2. 0+1 = 1
        OBVIOUS
    <2> QED
        BY <1>1, <2>1, <2>2
<1>3. /\ ListInv'
      /\ ItemsOf' = [ItemsAt(S) EXCEPT ![l] = InsertAt(ItemsAt(S)[l], 0+1, x)]
      /\ PlaceOf' = [list |-> m, pos |-> IF m = l /\ q > 0 THEN q+1 ELSE q]
    <2>1. ItemInserted(S, l, 0, x, m, q)
        BY <1>1, <1>2, InsertStep
    <2> QED
        BY <2>1 DEF ItemInserted
<1>4. InsertAt(ItemsAt(S)[l], 0+1, x) = <<x>> \o ItemsAt(S)[l]
    <2>1. ItemsAt(S)[l] \in Seq({item[k] : k \in Nodes}) /\ 0+1 = 1
        BY ListIs
    <2> QED
        BY <2>1, InsertEnds
<1>5. /\ ItemsOf = ItemsAt(S) /\ PlaceOf = [list |-> m, pos |-> q]
    BY Before
<1>6. ItemsOf' = [ItemsOf EXCEPT ![l] = <<x>> \o ItemsOf[l]]
    BY <1>3, <1>4, <1>5
<1>7. PlaceOf' = Sequences!Shifted(l, 1)
    BY <1>3, <1>5 DEF Sequences!Shifted
<1> QED
    BY <1>3, <1>6, <1>7 DEF Sequences!PushFront

(* A node behind the others.                                               *)
LEMMA PushBackStep ==
    ASSUME FieldsOK, NEW S, Agrees(S), NEW m, NEW q, IsIn(S, m, q),
           NEW l \in Lists, NEW x, PushBack(l, x)
    PROVE  ListInv' /\ Sequences!PushBack(l, x)
<1> DEFINE n == Len(S[l])
<1>1. PICK node \in Node \ Nodes :
          /\ Link(node, IF head[l] = NULL THEN NULL ELSE tail[l], NULL, x)
          /\ head' = IF head[l] = NULL THEN [head EXCEPT ![l] = node] ELSE head
          /\ tail' = [tail EXCEPT ![l] = node]
          /\ len' = [len EXCEPT ![l] = @ + 1]
          /\ UNCHANGED it
    BY DEF PushBack
<1>2. /\ n \in Nat /\ head[l] = NULL <=> n = 0
      /\ tail[l] = At(S[l], n) /\ At(S[l], 0) = NULL /\ At(S[l], n+1) = NULL
      /\ ItemsAt(S)[l] \in Seq({item[k] : k \in Nodes}) /\ Len(ItemsAt(S)[l]) = n
    BY ListIs
<1>3. /\ Link(node, At(S[l], n), At(S[l], n+1), x)
      /\ head' = IF n = 0 THEN [head EXCEPT ![l] = node] ELSE head
      /\ tail' = IF n = Len(S[l]) THEN [tail EXCEPT ![l] = node] ELSE tail
      /\ n \in 0..Len(S[l])
    <2>1. At(S[l], n) = IF head[l] = NULL THEN NULL ELSE tail[l]
        BY <1>2
    <2> QED
        BY <1>1, <1>2, <2>1
<1>4. /\ ListInv'
      /\ ItemsOf' = [ItemsAt(S) EXCEPT ![l] = InsertAt(ItemsAt(S)[l], n+1, x)]
      /\ PlaceOf' = [list |-> m, pos |-> IF m = l /\ q > n THEN q+1 ELSE q]
    <2> HIDE DEF n
    <2>1. ItemInserted(S, l, n, x, m, q)
        BY <1>1, <1>3, InsertStep
    <2> QED
        BY <2>1 DEF ItemInserted
<1>5. InsertAt(ItemsAt(S)[l], n+1, x) = Append(ItemsAt(S)[l], x)
    <2> DEFINE w == ItemsAt(S)[l]
    <2>1. InsertAt(w, Len(w)+1, x) = Append(w, x)
        BY <1>2, InsertEnds
    <2> HIDE DEF w, n
    <2> QED
        BY <1>2, <2>1 DEF w
<1>6. /\ ItemsOf = ItemsAt(S) /\ PlaceOf = [list |-> m, pos |-> q]
    BY Before
<1>7. ItemsOf' = [ItemsOf EXCEPT ![l] = Append(ItemsOf[l], x)]
    BY <1>4, <1>5, <1>6
<1>8. PlaceOf' = PlaceOf
    <2>1. ~(m = l /\ q > n)
        BY <1>2 DEF IsIn
    <2> QED
        BY <1>4, <1>6, <2>1
<1> QED
    BY <1>4, <1>7, <1>8 DEF Sequences!PushBack

(* A node and its neighbours.                                              *)
LEMMA NodeIs ==
    ASSUME FieldsOK, NEW S, Agrees(S), NEW l \in Lists, NEW p \in 1..Len(S[l])
    PROVE  /\ next[S[l][p]] = At(S[l], p+1) /\ prev[S[l][p]] = At(S[l], p-1)
           /\ At(S[l], p) = S[l][p] /\ S[l][p] # NULL
           /\ At(S[l], p+1) = NULL <=> p = Len(S[l])
           /\ At(S[l], p-1) = NULL <=> p = 1
           /\ p \in Nat /\ Len(S[l]) \in Nat /\ 1 <= p /\ p <= Len(S[l])
<1> DEFINE s == S[l]
<1>1. next[s[p]] = At(s, p+1) /\ prev[s[p]] = At(s, p-1)
    BY DEF Agrees, LinksAgree
<1>2. Len(s) \in Nat /\ p \in 1..Len(s) /\ \A i \in 1..Len(s) : s[i] # NULL
    BY ListIs
<1> HIDE DEF s
<1>3. /\ At(s, p) = s[p] /\ s[p] # NULL
      /\ At(s, p+1) = NULL <=> p = Len(s)
      /\ At(s, p-1) = NULL <=> p = 1
    BY <1>2 DEF At
<1> QED
    BY <1>1, <1>2, <1>3 DEF s

(* The first node goes.                                                    *)
LEMMA PopFrontStep ==
    ASSUME FieldsOK, NEW S, Agrees(S), NEW m, NEW q, IsIn(S, m, q),
           NEW l \in Lists, PopFront(l)
    PROVE  ListInv' /\ Sequences!PopFront(l)
<1> DEFINE w == ItemsAt(S)[l]
<1>1. /\ head[l] # NULL /\ Lists' = Lists
      /\ head' = [head EXCEPT ![l] = next[head[l]]]
      /\ tail' = IF next[head[l]] = NULL THEN [tail EXCEPT ![l] = NULL] ELSE tail
      /\ next' = Drop(next, head[l])
      /\ prev' = Drop(Store(prev, next[head[l]], NULL), head[l])
      /\ item' = Drop(item, head[l])
      /\ len' = [len EXCEPT ![l] = @ - 1]
      /\ Release(head[l], NULL)
    BY DEF PopFront, Lists
<1>2. /\ Len(S[l]) \in Nat /\ Len(S[l]) # 0 /\ 1 \in 1..Len(S[l])
      /\ head[l] = At(S[l], 1) /\ At(S[l], 0) = NULL
      /\ w \in Seq({item[k] : k \in Nodes}) /\ Len(w) = Len(S[l])
    <2>1. /\ Len(S[l]) \in Nat /\ Len(S[l]) # 0
          /\ head[l] = At(S[l], 1) /\ At(S[l], 0) = NULL
          /\ w \in Seq({item[k] : k \in Nodes}) /\ Len(w) = Len(S[l])
        BY <1>1, ListIs
    <2> QED
        BY <2>1
<1>3. /\ next[S[l][1]] = At(S[l], 1+1) /\ At(S[l], 1) = S[l][1]
      /\ At(S[l], 1+1) = NULL <=> 1 = Len(S[l])
    BY <1>2, NodeIs
<1>4. 1+1 = 2 /\ 1-1 = 0
    OBVIOUS
<1>5. /\ next' = Drop(Store(next, At(S[l], 1-1), At(S[l], 1+1)), S[l][1])
      /\ prev' = Drop(Store(prev, At(S[l], 1+1), At(S[l], 1-1)), S[l][1])
      /\ item' = Drop(item, S[l][1])
      /\ head' = IF 1 = 1 THEN [head EXCEPT ![l] = At(S[l], 2)] ELSE head
    BY <1>1, <1>2, <1>3, <1>4 DEF Store
<1>6. tail' = IF 1 = Len(S[l]) THEN [tail EXCEPT ![l] = At(S[l], Len(S[l])-1)] ELSE tail
    BY <1>1, <1>2, <1>3, <1>4
<1>7. /\ ItemsOf = ItemsAt(S) /\ DOMAIN ItemsOf = Lists
      /\ PlaceOf = [list |-> m, pos |-> q] /\ q \in Nat
      /\ NULL \notin Nodes /\ NULL \notin Lists
    BY Before
<1>8. Release(S[l][1], NULL)
    BY <1>1, <1>2, <1>3
<1>9. IF m = l /\ q = 1 THEN IsIn(Without(S, l, 1), NULL, 0)'
      ELSE IsIn(Without(S, l, 1), m, IF m = l /\ q > 1 THEN q-1 ELSE q)'
    BY <1>1, <1>2, <1>7, <1>8, ReleasedIs DEF Agrees
<1>10. RemoveAt(w, 1) = Tail(w) /\ w # << >>
    <2> HIDE DEF w
    <2>1. w # << >>
        BY <1>2
    <2> QED
        BY <1>2, <2>1, RemoveEnds
<1>11. CASE m = l /\ q = 1
    <2>1. ItemRemoved(S, l, 1, NULL, 0)
        BY <1>1, <1>2, <1>5, <1>6, <1>9, <1>11, RemoveStep
    <2> QED
        BY <1>7, <1>10, <1>11, <2>1
           DEF ItemRemoved, Sequences!PopFront, Sequences!Dropped
<1>12. CASE ~(m = l /\ q = 1)
    <2> DEFINE r == IF m = l /\ q > 1 THEN q-1 ELSE q
    <2>1. ItemRemoved(S, l, 1, m, r)
        BY <1>1, <1>2, <1>5, <1>6, <1>9, <1>12, RemoveStep
    <2>2. PlaceOf' = IF PlaceOf.list = l /\ PlaceOf.pos > 1
                     THEN [PlaceOf EXCEPT !.pos = @ - 1] ELSE PlaceOf
        BY <1>7, <2>1 DEF ItemRemoved
    <2> HIDE DEF r
    <2> QED
        BY <1>7, <1>10, <1>12, <2>1, <2>2 DEF ItemRemoved, Sequences!PopFront
<1> QED
    BY <1>11, <1>12

(* The last node goes.                                                     *)
LEMMA PopBackStep ==
    ASSUME FieldsOK, NEW S, Agrees(S), NEW m, NEW q, IsIn(S, m, q),
           NEW l \in Lists, PopBack(l)
    PROVE  ListInv' /\ Sequences!PopBack(l)
<1> DEFINE w == ItemsAt(S)[l]
           n == Len(S[l])
<1>1. /\ tail[l] # NULL /\ Lists' = Lists
      /\ tail' = [tail EXCEPT ![l] = prev[tail[l]]]
      /\ head' = IF prev[tail[l]] = NULL THEN [head EXCEPT ![l] = NULL] ELSE head
      /\ prev' = Drop(prev, tail[l])
      /\ next' = Drop(Store(next, prev[tail[l]], NULL), tail[l])
      /\ item' = Drop(item, tail[l])
      /\ len' = [len EXCEPT ![l] = @ - 1]
      /\ Release(tail[l], NULL)
    BY DEF PopBack, Lists
<1>2. /\ n \in Nat /\ n # 0 /\ n \in 1..Len(S[l])
      /\ tail[l] = At(S[l], n) /\ At(S[l], n+1) = NULL
      /\ w \in Seq({item[k] : k \in Nodes}) /\ Len(w) = n
    <2>1. /\ n \in Nat /\ n # 0
          /\ tail[l] = At(S[l], n) /\ At(S[l], n+1) = NULL
          /\ w \in Seq({item[k] : k \in Nodes}) /\ Len(w) = n
        BY <1>1, ListIs
    <2> QED
        BY <2>1
<1>3. /\ prev[S[l][n]] = At(S[l], n-1) /\ At(S[l], n) = S[l][n]
      /\ At(S[l], n-1) = NULL <=> n = 1
    BY <1>2, NodeIs
<1>4. n = 1 => At(S[l], 2) = NULL
    <2>1. 1+1 = 2
        OBVIOUS
    <2> QED
        BY <1>2, <2>1
<1>5. /\ next' = Drop(Store(next, At(S[l], n-1), At(S[l], n+1)), S[l][n])
      /\ prev' = Drop(Store(prev, At(S[l], n+1), At(S[l], n-1)), S[l][n])
      /\ item' = Drop(item, S[l][n])
      /\ head' = IF n = 1 THEN [head EXCEPT ![l] = At(S[l], 2)] ELSE head
      /\ tail' = IF n = Len(S[l]) THEN [tail EXCEPT ![l] = At(S[l], Len(S[l])-1)] ELSE tail
    BY <1>1, <1>2, <1>3, <1>4 DEF Store
<1>6. /\ ItemsOf = ItemsAt(S) /\ DOMAIN ItemsOf = Lists
      /\ PlaceOf = [list |-> m, pos |-> q] /\ q \in Nat
      /\ NULL \notin Nodes /\ NULL \notin Lists
    BY Before
<1>7. Release(S[l][n], NULL)
    BY <1>1, <1>2, <1>3
<1>8. ~(m = l /\ q > n)
    BY <1>2 DEF IsIn
<1> HIDE DEF n
<1>9. IF m = l /\ q = n THEN IsIn(Without(S, l, n), NULL, 0)'
      ELSE IsIn(Without(S, l, n), m, IF m = l /\ q > n THEN q-1 ELSE q)'
    BY <1>1, <1>2, <1>6, <1>7, ReleasedIs DEF Agrees
<1>10. RemoveAt(w, n) = Front(w) /\ w # << >>
    <2> HIDE DEF w
    <2>1. w # << >>
        BY <1>2
    <2> QED
        BY <1>2, <2>1, RemoveEnds
<1>11. CASE m = l /\ q = n
    <2>1. ItemRemoved(S, l, n, NULL, 0)
        BY <1>1, <1>2, <1>5, <1>9, <1>11, RemoveStep
    <2>2. ListInv' /\ ItemsOf[l] # << >> /\ ItemsOf' = [ItemsOf EXCEPT ![l] = Front(ItemsOf[l])]
        BY <1>6, <1>10, <2>1 DEF ItemRemoved
    <2>3. PlaceOf' = Sequences!Dropped(PlaceOf.list = l /\ PlaceOf.pos = Len(ItemsOf[l]))
        BY <1>2, <1>6, <1>11, <2>1 DEF ItemRemoved, Sequences!Dropped
    <2> QED
        BY <2>2, <2>3 DEF Sequences!PopBack, Sequences!Front, Front
<1>12. CASE ~(m = l /\ q = n)
    <2>1. IsIn(Without(S, l, n), m, q)'
        BY <1>8, <1>9, <1>12
    <2>2. ItemRemoved(S, l, n, m, q)
        BY <1>1, <1>2, <1>5, <2>1, RemoveStep
    <2>3. ListInv' /\ ItemsOf[l] # << >> /\ ItemsOf' = [ItemsOf EXCEPT ![l] = Front(ItemsOf[l])]
        BY <1>6, <1>10, <2>2 DEF ItemRemoved
    <2>4. PlaceOf' = Sequences!Dropped(PlaceOf.list = l /\ PlaceOf.pos = Len(ItemsOf[l]))
        BY <1>2, <1>6, <1>12, <2>2 DEF ItemRemoved, Sequences!Dropped
    <2> QED
        BY <2>3, <2>4 DEF Sequences!PopBack, Sequences!Front, Front
<1> QED
    BY <1>11, <1>12

-----------------------------------------------------------------------------
(* The steps of the iterator.                                              *)

(* Nothing but the iterator changes.                                       *)
LEMMA IteratorStep ==
    ASSUME FieldsOK, NEW S, Agrees(S), NEW m, NEW q, IsIn(S, m, q),
           UNCHANGED <<next, prev, item, head, tail, len>>, NEW k, NEW r, IsIn(S, k, r)'
    PROVE  ListInv' /\ ItemsOf' = ItemsOf /\ PlaceOf' = [list |-> k, pos |-> r]
<1>1. Nodes' = Nodes /\ Lists' = Lists
    BY DEF Nodes, Lists
<1>2. FieldsOK'
    BY <1>1 DEF FieldsOK
<1>3. Placed(S)' /\ EndsAgree(S)' /\ LinksAgree(S)'
    BY <1>1 DEF Agrees, Placed, EndsAgree, LinksAgree
<1>4. Stands(S, k, r)'
    BY <1>2, <1>3, StandsNext DEF Agrees
<1>5. ItemsAt(S)' = ItemsAt(S)
    BY <1>1 DEF ItemsAt
<1>6. ItemsOf = ItemsAt(S)
    BY Before
<1> QED
    BY <1>4, <1>5, <1>6 DEF Stands

(* An iterator that is on a list.                                          *)
LEMMA OnList ==
    ASSUME FieldsOK, NEW S, Agrees(S), NEW m, NEW q, IsIn(S, m, q), it.list # NULL
    PROVE  /\ m \in Lists /\ q \in 0..Len(S[m]) /\ Len(S[m]) \in Nat /\ q \in Nat
           /\ it = [list |-> m, cur |-> At(S[m], q)]
           /\ it.cur # NULL <=> q \in 1..Len(S[m])
           /\ it.cur # NULL <=> q > 0
<1>1. m \in Lists /\ q \in 0..Len(S[m]) /\ it = [list |-> m, cur |-> At(S[m], q)]
    BY DEF IsIn, NoIterator
<1>2. Len(S[m]) \in Nat /\ \A i \in 1..Len(S[m]) : S[m][i] # NULL
    BY <1>1, ListIs
<1>3. q \in Nat /\ it.cur = At(S[m], q)
    BY <1>1
<1>4. it.cur # NULL <=> q \in 1..Len(S[m])
    BY <1>2, <1>3 DEF At
<1> QED
    BY <1>1, <1>2, <1>3, <1>4

(* An iterator at the first item of a list, if it has one.                 *)
LEMMA BeginStep ==
    ASSUME FieldsOK, NEW S, Agrees(S), NEW m, NEW q, IsIn(S, m, q),
           NEW l \in Lists, Begin(l)
    PROVE  ListInv' /\ Sequences!Begin(l)
<1> DEFINE r == IF ItemsOf[l] = << >> THEN 0 ELSE 1
<1>1. /\ UNCHANGED <<next, prev, item, head, tail, len>>
      /\ it' = [list |-> l, cur |-> head[l]] /\ Lists' = Lists
    BY DEF Begin, Lists
<1>2. /\ Len(S[l]) \in Nat /\ head[l] = At(S[l], 1) /\ At(S[l], 0) = NULL
      /\ head[l] = NULL <=> Len(S[l]) = 0
      /\ Len(ItemsAt(S)[l]) = Len(S[l])
      /\ ItemsAt(S)[l] \in Seq({item[k] : k \in Nodes})
    BY ListIs
<1>3. ItemsOf = ItemsAt(S)
    BY Before
<1>4. ItemsOf[l] = << >> <=> Len(S[l]) = 0
    BY <1>2, <1>3
<1> DEFINE k == IF Len(S[l]) = 0 THEN 0 ELSE 1
<1>5. IsIn(S, l, k)'
    <2>1. head[l] = At(S[l], k) /\ k \in 0..Len(S[l])
        BY <1>2
    <2> HIDE DEF k
    <2> QED
        BY <1>1, <2>1 DEF IsIn
<1>6. ListInv' /\ ItemsOf' = ItemsOf /\ PlaceOf' = [list |-> l, pos |-> k]
    <2> HIDE DEF k
    <2> QED
        BY <1>1, <1>5, IteratorStep
<1> QED
    BY <1>4, <1>6 DEF Sequences!Begin

(* An iterator at the last one.                                            *)
LEMMA BackStep ==
    ASSUME FieldsOK, NEW S, Agrees(S), NEW m, NEW q, IsIn(S, m, q),
           NEW l \in Lists, Back(l)
    PROVE  ListInv' /\ Sequences!Back(l)
<1> DEFINE n == Len(S[l])
<1>1. /\ UNCHANGED <<next, prev, item, head, tail, len>>
      /\ it' = [list |-> l, cur |-> tail[l]] /\ Lists' = Lists
    BY DEF Back, Lists
<1>2. n \in Nat /\ tail[l] = At(S[l], n) /\ Len(ItemsAt(S)[l]) = n
    BY ListIs
<1>3. ItemsOf = ItemsAt(S)
    BY Before
<1>4. IsIn(S, l, n)'
    BY <1>1, <1>2 DEF IsIn
<1>5. ListInv' /\ ItemsOf' = ItemsOf /\ PlaceOf' = [list |-> l, pos |-> n]
    <2> HIDE DEF n
    <2> QED
        BY <1>1, <1>4, IteratorStep
<1> QED
    BY <1>2, <1>3, <1>5 DEF Sequences!Back

(* On to the next item, or past the last.                                  *)
LEMMA NextStep ==
    ASSUME FieldsOK, NEW S, Agrees(S), NEW m, NEW q, IsIn(S, m, q),
           it.list # NULL, IteratorNext
    PROVE  ListInv' /\ Sequences!NextItem
<1>1. /\ UNCHANGED <<next, prev, item, head, tail, len>> /\ Lists' = Lists
      /\ it.cur # NULL /\ it' = [it EXCEPT !.cur = next[@]]
    BY DEF IteratorNext, Lists
<1>2. /\ m \in Lists /\ q \in 1..Len(S[m]) /\ Len(S[m]) \in Nat
      /\ it = [list |-> m, cur |-> At(S[m], q)]
    BY <1>1, OnList
<1>3. /\ next[S[m][q]] = At(S[m], q+1) /\ At(S[m], q) = S[m][q] /\ q \in Nat
      /\ At(S[m], 0) = NULL /\ At(S[m], Len(S[m])+1) = NULL
      /\ Len(ItemsAt(S)[m]) = Len(S[m])
    <2>1. next[S[m][q]] = At(S[m], q+1) /\ At(S[m], q) = S[m][q] /\ q \in Nat
        BY <1>2, NodeIs
    <2>2. /\ At(S[m], 0) = NULL /\ At(S[m], Len(S[m])+1) = NULL
          /\ Len(ItemsAt(S)[m]) = Len(S[m])
        BY <1>2, ListIs
    <2> QED
        BY <2>1, <2>2
<1> DEFINE n == Len(S[m])
           r == IF q = n THEN 0 ELSE q+1
<1>4. it' = [list |-> m, cur |-> At(S[m], q+1)]
    BY <1>1, <1>2, <1>3
<1>5. At(S[m], q+1) = At(S[m], r) /\ r \in 0..Len(S[m])
    BY <1>2, <1>3
<1>6. IsIn(S, m, r)'
    <2> HIDE DEF r
    <2> QED
        BY <1>1, <1>2, <1>4, <1>5 DEF IsIn
<1>7. ListInv' /\ ItemsOf' = ItemsOf /\ PlaceOf' = [list |-> m, pos |-> r]
    <2> HIDE DEF r
    <2> QED
        BY <1>1, <1>6, IteratorStep
<1>8. ItemsOf = ItemsAt(S) /\ PlaceOf = [list |-> m, pos |-> q] /\ q > 0
    <2>1. ItemsOf = ItemsAt(S) /\ PlaceOf = [list |-> m, pos |-> q]
        BY Before
    <2> QED
        BY <1>2, <2>1
<1>9. Len(Sequences!Here) = n
    BY <1>3, <1>8 DEF Sequences!Here
<1> QED
    BY <1>7, <1>8, <1>9 DEF Sequences!NextItem

(* Back to the item before, or past the first.                             *)
LEMMA PrevStep ==
    ASSUME FieldsOK, NEW S, Agrees(S), NEW m, NEW q, IsIn(S, m, q),
           it.list # NULL, IteratorPrev
    PROVE  ListInv' /\ Sequences!PrevItem
<1>1. /\ UNCHANGED <<next, prev, item, head, tail, len>> /\ Lists' = Lists
      /\ it.cur # NULL /\ it' = [it EXCEPT !.cur = prev[@]]
    BY DEF IteratorPrev, Lists
<1>2. /\ m \in Lists /\ q \in 1..Len(S[m]) /\ Len(S[m]) \in Nat
      /\ it = [list |-> m, cur |-> At(S[m], q)]
    BY <1>1, OnList
<1>3. prev[S[m][q]] = At(S[m], q-1) /\ At(S[m], q) = S[m][q] /\ q \in Nat
    BY <1>2, NodeIs
<1> DEFINE r == q-1
<1>4. it' = [list |-> m, cur |-> At(S[m], r)]
    BY <1>1, <1>2, <1>3
<1>5. r \in 0..Len(S[m]) /\ q > 0
    BY <1>2, <1>3
<1>6. IsIn(S, m, r)'
    <2> HIDE DEF r
    <2> QED
        BY <1>1, <1>2, <1>4, <1>5 DEF IsIn
<1>7. ListInv' /\ ItemsOf' = ItemsOf /\ PlaceOf' = [list |-> m, pos |-> r]
    <2> HIDE DEF r
    <2> QED
        BY <1>1, <1>6, IteratorStep
<1>8. PlaceOf = [list |-> m, pos |-> q]
    BY Before
<1> QED
    BY <1>5, <1>7, <1>8 DEF Sequences!PrevItem

(* An item behind the iterator's, which is not the last, or the only item  *)
(* of a list that is empty.                                                *)
LEMMA InsertHereStep ==
    ASSUME FieldsOK, NEW S, Agrees(S), NEW m, NEW q, IsIn(S, m, q),
           ~TailInsert, it.list # NULL, NEW x, Insert(x)
    PROVE  ListInv' /\ Sequences!Insert(x)
<1> DEFINE n == Len(S[m])
<1>1. PICK node \in Node \ Nodes :
          \/ /\ it.cur # NULL /\ (TailInsert \/ ~IsEnd)
             /\ Link(node, it.cur, next[it.cur], x)
             /\ UNCHANGED <<head, tail>>
          \/ /\ it.cur = NULL /\ head[it.list] = NULL
             /\ Link(node, NULL, NULL, x)
             /\ head' = [head EXCEPT ![it.list] = node]
             /\ tail' = [tail EXCEPT ![it.list] = node]
    BY DEF Insert
<1>2. len' = [len EXCEPT ![it.list] = @ + 1] /\ UNCHANGED it
    BY DEF Insert
<1>3. /\ m \in Lists /\ q \in 0..Len(S[m]) /\ n \in Nat /\ q \in Nat
      /\ it = [list |-> m, cur |-> At(S[m], q)]
      /\ it.cur # NULL <=> q \in 1..Len(S[m])
      /\ it.cur # NULL <=> q > 0
    BY OnList
<1>4. /\ head[m] = At(S[m], 1) /\ tail[m] = At(S[m], n)
      /\ head[m] = NULL <=> n = 0
      /\ At(S[m], 0) = NULL /\ At(S[m], n+1) = NULL
      /\ DOMAIN ItemsAt(S) = Lists
      /\ Len(ItemsAt(S)[m]) = n
      /\ ItemsAt(S)[m] \in Seq({item[k] : k \in Nodes})
    BY <1>3, ListIs
<1>5. ItemsOf = ItemsAt(S) /\ PlaceOf = [list |-> m, pos |-> q]
    BY Before
<1>6. q > 0 \/ ItemsOf[m] = << >>
    BY <1>1, <1>3, <1>4, <1>5
<1>7. it.list = m /\ it.cur = At(S[m], q)
    BY <1>3
<1> HIDE DEF n
<1>8. /\ Link(node, At(S[m], q), At(S[m], q+1), x)
      /\ head' = IF q = 0 THEN [head EXCEPT ![m] = node] ELSE head
      /\ tail' = IF q = Len(S[m]) THEN [tail EXCEPT ![m] = node] ELSE tail
    <2>1. CASE it.cur # NULL
        <3>1. q \in 1..Len(S[m]) /\ q # 0
            BY <1>3, <2>1
        <3>2. next[S[m][q]] = At(S[m], q+1) /\ At(S[m], q) = S[m][q]
            BY <1>3, <3>1, NodeIs
        <3>3. q # Len(S[m])
            BY <1>1, <1>4, <1>7, <2>1 DEF IsEnd, n
        <3> QED
            BY <1>1, <1>7, <2>1, <3>1, <3>2, <3>3
    <2>2. CASE it.cur = NULL
        <3>1. q = 0 /\ head[m] = NULL /\ n = 0 /\ q+1 = n+1
            BY <1>1, <1>3, <1>4, <1>7, <2>2
        <3>2. At(S[m], q) = NULL /\ At(S[m], q+1) = NULL /\ q = Len(S[m])
            BY <1>4, <3>1 DEF n
        <3> QED
            BY <1>1, <1>7, <2>2, <3>1, <3>2
    <2> QED
        BY <2>1, <2>2
<1>9. ItemInserted(S, m, q, x, m, q)
    BY <1>2, <1>3, <1>7, <1>8, InsertStep
<1>10. /\ ListInv'
       /\ ItemsOf' = [ItemsOf EXCEPT ![m] = InsertAt(ItemsOf[m], q+1, x)]
       /\ PlaceOf' = PlaceOf
    BY <1>3, <1>5, <1>9 DEF ItemInserted
<1> QED
    BY <1>5, <1>6, <1>10 DEF Sequences!Insert, Sequences!Here, Sequences!InsertAt, InsertAt

(* The iterator's item goes; it moves to the one behind, or, at the end,   *)
(* to the one before.                                                      *)
LEMMA RemoveHereStep ==
    ASSUME FieldsOK, NEW S, Agrees(S), NEW m, NEW q, IsIn(S, m, q),
           it.list # NULL, RemoveHere
    PROVE  ListInv' /\ Sequences!RemoveHere
<1> DEFINE c == it.cur
           n == Len(S[m])
           r == IF q = n THEN q-1 ELSE q
<1>1. /\ c # NULL /\ Lists' = Lists
      /\ next' = Drop(Store(next, prev[c], next[c]), c)
      /\ prev' = Drop(Store(prev, next[c], prev[c]), c)
      /\ item' = Drop(item, c)
      /\ head' = IF prev[c] = NULL THEN [head EXCEPT ![it.list] = next[c]] ELSE head
      /\ tail' = IF next[c] = NULL THEN [tail EXCEPT ![it.list] = prev[c]] ELSE tail
      /\ len' = [len EXCEPT ![it.list] = @ - 1]
      /\ it' = [it EXCEPT !.cur = IF next[c] # NULL THEN next[c] ELSE prev[c]]
    BY DEF RemoveHere, Lists
<1>2. /\ m \in Lists /\ q \in 1..Len(S[m]) /\ n \in Nat /\ q > 0
      /\ it = [list |-> m, cur |-> At(S[m], q)]
    BY <1>1, OnList
<1>3. /\ next[S[m][q]] = At(S[m], q+1) /\ prev[S[m][q]] = At(S[m], q-1)
      /\ At(S[m], q) = S[m][q] /\ q \in Nat
      /\ At(S[m], q+1) = NULL <=> q = Len(S[m])
      /\ At(S[m], q-1) = NULL <=> q = 1
    BY <1>2, NodeIs
<1>4. c = S[m][q] /\ it.list = m /\ next[c] = At(S[m], q+1) /\ prev[c] = At(S[m], q-1)
    BY <1>2, <1>3
<1>5. (q = 1 => q+1 = 2) /\ (q = Len(S[m]) => q-1 = Len(S[m])-1)
    BY <1>3
<1> HIDE DEF c, n
<1>6. /\ next' = Drop(Store(next, At(S[m], q-1), At(S[m], q+1)), S[m][q])
      /\ prev' = Drop(Store(prev, At(S[m], q+1), At(S[m], q-1)), S[m][q])
      /\ item' = Drop(item, S[m][q])
      /\ len' = [len EXCEPT ![m] = @ - 1]
    BY <1>1, <1>4
<1>7. /\ head' = IF q = 1 THEN [head EXCEPT ![m] = At(S[m], 2)] ELSE head
      /\ tail' = IF q = Len(S[m]) THEN [tail EXCEPT ![m] = At(S[m], Len(S[m])-1)] ELSE tail
    <2>1. head' = IF q = 1 THEN [head EXCEPT ![m] = At(S[m], q+1)] ELSE head
        BY <1>1, <1>3, <1>4
    <2>2. tail' = IF q = Len(S[m]) THEN [tail EXCEPT ![m] = At(S[m], q-1)] ELSE tail
        BY <1>1, <1>3, <1>4
    <2> QED
        BY <1>5, <2>1, <2>2
<1>8. it' = [list |-> m, cur |-> IF q = n THEN At(S[m], q-1) ELSE At(S[m], q+1)]
    BY <1>1, <1>2, <1>3, <1>4 DEF n
<1>9. IsIn(Without(S, m, q), m, r)'
    <2>1. /\ Len(Without(S, m, q)[m]) = n-1
          /\ \A j \in Int : At(Without(S, m, q)[m], j)
                                = IF j < q THEN At(S[m], j) ELSE At(S[m], j+1)
        BY <1>2, WithoutIs DEF Agrees, n
    <2>2. q <= n
        BY <1>2 DEF n
    <2>3. r \in 0..n-1 /\ r \in Int
        BY <1>2, <1>3, <2>2
    <2>4. At(Without(S, m, q)[m], r) = IF q = n THEN At(S[m], q-1) ELSE At(S[m], q+1)
        <3>1. CASE q = n
            <4>1. r = q-1 /\ r < q
                BY <1>3, <3>1
            <4> HIDE DEF r
            <4> QED
                BY <2>1, <2>3, <3>1, <4>1
        <3>2. CASE q # n
            <4>1. r = q /\ ~(r < q)
                BY <1>3, <3>2
            <4> HIDE DEF r
            <4> QED
                BY <2>1, <2>3, <3>2, <4>1
        <3> QED
            BY <3>1, <3>2
    <2> HIDE DEF r
    <2> QED
        BY <1>1, <1>2, <1>8, <2>1, <2>3, <2>4 DEF IsIn
<1>10. ItemRemoved(S, m, q, m, r)
    <2> HIDE DEF r
    <2> QED
        BY <1>2, <1>6, <1>7, <1>9, RemoveStep
<1>11. ItemsOf = ItemsAt(S) /\ PlaceOf = [list |-> m, pos |-> q]
    BY Before
<1>12. Len(ItemsOf[m]) = n
    BY <1>2, <1>11, ListIs DEF n
<1>13. /\ ListInv'
       /\ ItemsOf' = [ItemsOf EXCEPT ![m] = RemoveAt(ItemsOf[m], q)]
    BY <1>10, <1>11 DEF ItemRemoved
<1>14. PlaceOf' = [PlaceOf EXCEPT !.pos = IF @ = Len(Sequences!Here) THEN @ - 1 ELSE @]
    BY <1>10, <1>11, <1>12 DEF ItemRemoved, Sequences!Here
<1> QED
    BY <1>2, <1>11, <1>13, <1>14 DEF Sequences!RemoveHere, Sequences!RemoveAt, RemoveAt

-----------------------------------------------------------------------------
(* The steps of whole lists.                                               *)

(* A list with no items more.                                              *)
LEMMA EmptyStep ==
    ASSUME FieldsOK, NEW S, Agrees(S), NEW m, NEW q, IsIn(S, m, q),
           NEW l \in List, ListEmpty(l)
    PROVE  ListInv' /\ Sequences!Empty(l)
<1> DEFINE R == [k \in DOMAIN S \cup {l} |-> IF k = l THEN << >> ELSE S[k]]
<1>1. FieldsOK' /\ Agrees(R)'
    BY EmptyAgrees
<1>2. /\ l \notin Lists /\ Lists' = Lists \cup {l} /\ DOMAIN S = Lists
      /\ item' = item /\ it' = it
    BY DEF ListEmpty, Put, Lists, Agrees, Placed
<1>3. /\ DOMAIN R = Lists \cup {l} /\ R[l] = << >>
      /\ \A k \in Lists : R[k] = S[k]
    BY <1>2
<1>4. /\ ItemsOf = ItemsAt(S) /\ DOMAIN ItemsOf = Lists
      /\ PlaceOf = [list |-> m, pos |-> q]
    BY Before
<1> HIDE DEF R
<1>5. IsIn(R, m, q)'
    BY <1>2, <1>3 DEF IsIn, NoIterator
<1>6. Stands(R, m, q)'
    BY <1>1, <1>5, StandsNext
<1>7. ItemsIn(<< >>, item) = << >>
    BY DEF ItemsIn
<1>8. ItemsAt(R)' = [k \in Lists \cup {l} |-> ItemsIn(R[k], item)]
    BY <1>2 DEF ItemsAt
<1>9. ItemsAt(R)' = [k \in Lists \cup {l} |-> IF k = l THEN << >> ELSE ItemsOf[k]]
    BY <1>2, <1>3, <1>4, <1>7, <1>8 DEF ItemsAt
<1> QED
    BY <1>2, <1>4, <1>6, <1>9 DEF Stands, Sequences!Empty

(* An iterator of a list that goes is let go of.                           *)
LEMMA ListGone ==
    ASSUME NEW S, NEW m, NEW q, IsIn(S, m, q), NULL \notin Lists,
           NEW l \in Lists, Release(NULL, l), Lists' = Lists \ {l},
           NEW R, m \in Lists \ {l} /\ q \in 0..Len(S[m])
                      => At(R[m], q) = At(S[m], q) /\ q \in 0..Len(R[m])
    PROVE  IF m = l THEN IsIn(R, NULL, 0)' ELSE IsIn(R, m, q)'
<1>1. it' = IF it.list = l THEN NoIterator ELSE it
    BY DEF Release
<1>2. CASE m = NULL /\ q = 0 /\ it = NoIterator
    BY <1>1, <1>2 DEF IsIn, NoIterator
<1>3. CASE m \in Lists /\ q \in 0..Len(S[m]) /\ it = [list |-> m, cur |-> At(S[m], q)]
    <2>1. CASE m = l
        BY <1>1, <1>3, <2>1 DEF IsIn
    <2>2. CASE m # l
        <3>1. q \in 0..Len(R[m]) /\ At(R[m], q) = At(S[m], q)
            BY <1>3, <2>2
        <3> QED
            BY <1>1, <1>3, <2>2, <3>1 DEF IsIn
    <2> QED
        BY <2>1, <2>2
<1> QED
    BY <1>2, <1>3 DEF IsIn

(* A list goes with its items.                                             *)
LEMMA FreeStep ==
    ASSUME FieldsOK, NEW S, Agrees(S), NEW m, NEW q, IsIn(S, m, q),
           NEW l \in Lists, FreeList(l)
    PROVE  ListInv' /\ Sequences!Free(l)
<1> DEFINE R == [k \in DOMAIN S \ {l} |-> S[k]]
<1>1. /\ FieldsOK' /\ Agrees(R)'
      /\ \A k \in Lists \ {l} : \A i \in 1..Len(S[k]) : item'[S[k][i]] = item[S[k][i]]
    BY FreeAgrees
<1>2. Lists' = Lists \ {l} /\ DOMAIN S = Lists /\ Release(NULL, l)
    BY DEF FreeList, Drop, Lists, Agrees, Placed
<1>3. /\ ItemsOf = ItemsAt(S) /\ DOMAIN ItemsOf = Lists
      /\ PlaceOf = [list |-> m, pos |-> q] /\ NULL \notin Lists
    BY Before
<1>4. \A k \in Lists \ {l} : R[k] = S[k]
    BY <1>2
<1> HIDE DEF R
<1>5. IF m = l THEN IsIn(R, NULL, 0)' ELSE IsIn(R, m, q)'
    <2>1. m \in Lists \ {l} /\ q \in 0..Len(S[m])
              => At(R[m], q) = At(S[m], q) /\ q \in 0..Len(R[m])
        BY <1>4
    <2> QED
        BY <1>2, <1>3, <2>1, ListGone
<1>6. ItemsAt(R)' = [k \in Lists \ {l} |-> ItemsOf[k]]
    <2>1. \A k \in Lists \ {l} : ItemsIn(S[k], item') = ItemsIn(S[k], item)
        BY <1>1 DEF ItemsIn
    <2>2. ItemsAt(R)' = [k \in Lists \ {l} |-> ItemsIn(R[k], item')]
        BY <1>2 DEF ItemsAt
    <2> QED
        BY <1>3, <1>4, <2>1, <2>2 DEF ItemsAt
<1>7. CASE m = l
    <2>1. Stands(R, NULL, 0)'
        BY <1>1, <1>5, <1>7, StandsNext
    <2> QED
        BY <1>3, <1>6, <1>7, <2>1 DEF Stands, Sequences!Free, Sequences!Dropped
<1>8. CASE m # l
    <2>1. Stands(R, m, q)'
        BY <1>1, <1>5, <1>8, StandsNext
    <2> QED
        BY <1>3, <1>6, <1>8, <2>1 DEF Stands, Sequences!Free, Sequences!Dropped
<1> QED
    BY <1>7, <1>8

(* The items of a list go to the end of another.                           *)
LEMMA MergeStep ==
    ASSUME FieldsOK, NEW S, Agrees(S), NEW m, NEW q, IsIn(S, m, q),
           NEW a \in Lists, NEW b \in Lists, MergeDi(a, b)
    PROVE  ListInv' /\ Sequences!Merge(a, b)
<1> DEFINE R == [k \in DOMAIN S \ {b} |-> IF k = a THEN S[a] \o S[b] ELSE S[k]]
<1>1. FieldsOK' /\ Agrees(R)'
    BY MergeAgrees
<1>2. a # b /\ Lists' = Lists \ {b} /\ DOMAIN S = Lists /\ Release(NULL, b) /\ item' = item
    <2>1. a # b /\ DOMAIN head' = Lists \ {b} /\ Release(NULL, b) /\ item' = item
        BY DEF MergeDi, Drop, Lists
    <2> QED
        BY <2>1 DEF Lists, Agrees, Placed
<1>3. /\ ItemsOf = ItemsAt(S) /\ DOMAIN ItemsOf = Lists
      /\ PlaceOf = [list |-> m, pos |-> q] /\ NULL \notin Lists /\ q \in Nat
    BY Before
<1>4. R[a] = S[a] \o S[b] /\ \A k \in Lists \ {b} : k # a => R[k] = S[k]
    BY <1>2
<1>5. S[a] \in Seq(Nodes) /\ S[b] \in Seq(Nodes)
    BY DEF Agrees, Placed
<1> HIDE DEF R
<1>6. m = a => At(R[a], q) = At(S[a], q) /\ q \in 0..Len(R[a])
    <2> DEFINE u == S[a]
               v == S[b]
    <2>1. m = a => q \in 0..Len(u)
        BY <1>3 DEF IsIn
    <2>2. u \in Seq(Nodes) /\ v \in Seq(Nodes)
        BY <1>5
    <2>3. R[a] = u \o v
        BY <1>4
    <2> HIDE DEF u, v
    <2>4. Len(u) \in Nat /\ Len(v) \in Nat /\ Len(u \o v) = Len(u)+Len(v)
        BY <2>2, ConcatProperties
    <2>5. At(u \o v, q) = IF q <= Len(u) THEN At(u, q) ELSE At(v, q-Len(u))
        BY <1>3, <2>2, AtBoth
    <2>6. m = a => q \in 0..Len(u)+Len(v) /\ q <= Len(u)
        BY <2>1, <2>4
    <2>7. m = a => At(R[a], q) = At(u, q) /\ q \in 0..Len(R[a])
        BY <2>3, <2>4, <2>5, <2>6
    <2> QED
        BY <2>7 DEF u
<1>7. IF m = b THEN IsIn(R, NULL, 0)' ELSE IsIn(R, m, q)'
    <2>1. m \in Lists \ {b} /\ q \in 0..Len(S[m])
              => At(R[m], q) = At(S[m], q) /\ q \in 0..Len(R[m])
        BY <1>4, <1>6
    <2> QED
        BY <1>2, <1>3, <2>1, ListGone
<1>8. ItemsAt(R)' = [k \in Lists \ {b} |-> IF k = a THEN ItemsOf[a] \o ItemsOf[b]
                                                    ELSE ItemsOf[k]]
    <2>1. ItemsIn(S[a] \o S[b], item) = ItemsIn(S[a], item) \o ItemsIn(S[b], item)
        <3> DEFINE u == S[a]
                   v == S[b]
        <3>1. u \in Seq(Nodes) /\ v \in Seq(Nodes)
            BY <1>5
        <3> HIDE DEF u, v
        <3>2. BothItems(u, v, item)
            BY <3>1, ItemsBoth
        <3> QED
            BY <3>2 DEF BothItems, u, v
    <2>2. ItemsAt(R)' = [k \in Lists \ {b} |-> ItemsIn(R[k], item)]
        BY <1>2 DEF ItemsAt
    <2> QED
        BY <1>3, <1>4, <2>1, <2>2 DEF ItemsAt
<1>9. CASE m = b
    <2>1. Stands(R, NULL, 0)'
        BY <1>1, <1>7, <1>9, StandsNext
    <2> QED
        BY <1>2, <1>3, <1>8, <1>9, <2>1 DEF Stands, Sequences!Merge, Sequences!Dropped
<1>10. CASE m # b
    <2>1. Stands(R, m, q)'
        BY <1>1, <1>7, <1>10, StandsNext
    <2> QED
        BY <1>2, <1>3, <1>8, <1>10, <2>1 DEF Stands, Sequences!Merge, Sequences!Dropped
<1> QED
    BY <1>9, <1>10

-----------------------------------------------------------------------------
(* There are no lists to begin with.                                       *)
LEMMA InitIs == Init => ListInv /\ Sequences!SeqInit
<1> SUFFICES ASSUME Init
             PROVE  ListInv /\ Sequences!SeqInit
    OBVIOUS
<1> DEFINE S == << >>
<1>1. Nodes = {} /\ Lists = {} /\ DOMAIN prev = {} /\ DOMAIN item = {}
      /\ DOMAIN tail = {} /\ DOMAIN len = {} /\ DOMAIN S = {} /\ it = NoIterator
    BY DEF Init, Nodes, Lists
<1>2. FieldsOK
    BY <1>1 DEF FieldsOK
<1> HIDE DEF S
<1>3. Agrees(S) /\ IsIn(S, NULL, 0)
    BY <1>1 DEF Agrees, Placed, EndsAgree, LinksAgree, IsIn
<1>4. Stands(S, NULL, 0)
    BY <1>2, <1>3, StandsIs DEF StandsWhereItIs
<1>5. ItemsOf = << >>
    BY <1>1 DEF ItemsOf
<1> QED
    BY <1>4, <1>5 DEF Stands, Sequences!SeqInit

(* Every step keeps the invariant and is a step of the sequences.          *)
LEMMA ListStep ==
    ~TailInsert => (ListInv /\ Next => ListInv' /\ Sequences!SeqNext)
<1> SUFFICES ASSUME ~TailInsert, ListInv, Next
             PROVE  ListInv' /\ Sequences!SeqNext
    OBVIOUS
<1>1. FieldsOK
    BY DEF ListInv
<1>2. PICK S : Agrees(S) /\ IteratorOK(S)
    BY DEF ListInv
<1>3. PICK m, q : IsIn(S, m, q)
    BY <1>2, SomePlace
<1>4. DOMAIN ItemsOf = Lists /\ PlaceOf.list = it.list
    <2>1. ItemsOf = ItemsAt(S) /\ DOMAIN ItemsOf = Lists /\ PlaceOf = [list |-> m, pos |-> q]
        BY <1>1, <1>2, <1>3, Before
    <2>2. it.list = m
        BY <1>3 DEF IsIn, NoIterator
    <2> QED
        BY <2>1, <2>2
<1>5. ASSUME NEW l \in List, ListEmpty(l)
      PROVE  ListInv' /\ Sequences!SeqNext
    <2>1. ListInv' /\ Sequences!Empty(l)
        BY <1>1, <1>2, <1>3, <1>5, EmptyStep
    <2> QED
        BY <2>1 DEF Sequences!SeqNext
<1>6. ASSUME NEW l \in Lists,
             FreeList(l) \/ PopFront(l) \/ PopBack(l) \/ Begin(l) \/ Back(l)
      PROVE  ListInv' /\ Sequences!SeqNext
    <2>1. /\ ListInv'
          /\ \/ Sequences!Free(l) \/ Sequences!PopFront(l) \/ Sequences!PopBack(l)
             \/ Sequences!Begin(l) \/ Sequences!Back(l)
        BY <1>1, <1>2, <1>3, <1>6, FreeStep, PopFrontStep, PopBackStep, BeginStep, BackStep
    <2> QED
        BY <1>4, <2>1 DEF Sequences!SeqNext
<1>7. ASSUME NEW l \in Lists, NEW x \in Item, PushFront(l, x) \/ PushBack(l, x)
      PROVE  ListInv' /\ Sequences!SeqNext
    <2>1. ListInv' /\ (Sequences!PushFront(l, x) \/ Sequences!PushBack(l, x))
        BY <1>1, <1>2, <1>3, <1>7, PushFrontStep, PushBackStep
    <2> QED
        BY <1>4, <2>1 DEF Sequences!SeqNext
<1>8. ASSUME NEW l \in Lists, NEW b \in Lists, MergeDi(l, b)
      PROVE  ListInv' /\ Sequences!SeqNext
    <2>1. ListInv' /\ Sequences!Merge(l, b)
        BY <1>1, <1>2, <1>3, <1>8, MergeStep
    <2> QED
        BY <1>4, <2>1 DEF Sequences!SeqNext
<1>9. ASSUME it.list # NULL, IteratorNext \/ IteratorPrev \/ RemoveHere
      PROVE  ListInv' /\ Sequences!SeqNext
    <2>1. /\ ListInv'
          /\ Sequences!NextItem \/ Sequences!PrevItem \/ Sequences!RemoveHere
        BY <1>1, <1>2, <1>3, <1>9, NextStep, PrevStep, RemoveHereStep
    <2> QED
        BY <1>4, <1>9, <2>1 DEF Sequences!SeqNext
<1>10. ASSUME it.list # NULL, NEW x \in Item, Insert(x)
       PROVE  ListInv' /\ Sequences!SeqNext
    <2>1. ListInv' /\ Sequences!Insert(x)
        BY <1>1, <1>2, <1>3, <1>10, InsertHereStep
    <2> QED
        BY <1>4, <1>10, <2>1 DEF Sequences!SeqNext
<1> QED
    BY <1>5, <1>6, <1>7, <1>8, <1>9, <1>10 DEF Next

(* Nothing happens.                                                        *)
LEMMA ListStutter ==
    UNCHANGED vars => (ListInv => ListInv') /\ UNCHANGED Sequences!seqVars
<1> SUFFICES ASSUME UNCHANGED vars
             PROVE  (ListInv => ListInv') /\ UNCHANGED Sequences!seqVars
    OBVIOUS
<1>1. Nodes' = Nodes /\ Lists' = Lists /\ UNCHANGED <<next, prev, item, head, tail, len, it>>
    BY DEF vars, Nodes, Lists
<1>2. ListInv => ListInv'
    <2> SUFFICES ASSUME FieldsOK, NEW S, Agrees(S), IteratorOK(S)
                 PROVE  ListInv'
        BY DEF ListInv
    <2>1. FieldsOK'
        BY <1>1 DEF FieldsOK
    <2>2. Placed(S)' /\ EndsAgree(S)' /\ LinksAgree(S)'
        BY <1>1 DEF Agrees, Placed, EndsAgree, LinksAgree
    <2>3. \A p : StandsAt(S, p) => StandsAt(S, p)'
        BY <1>1 DEF StandsAt
    <2>4. IteratorOK(S)'
        BY <1>1, <2>3 DEF IteratorOK
    <2> QED
        BY <2>1, <2>2, <2>4 DEF ListInv, Agrees
<1>3. ItemsOf' = ItemsOf /\ PlaceOf' = PlaceOf
    BY <1>1 DEF ItemsOf, PlaceOf, Items, Forward, Chain
<1> QED
    BY <1>2, <1>3 DEF Sequences!seqVars

(* Where nothing is inserted behind the last item, the links of every list *)
(* and its ends, length and iterator agree with one sequence of nodes.     *)
THEOREM ListInvInvariant == ~TailInsert => (Spec => []ListInv)
<1> SUFFICES ASSUME ~TailInsert
             PROVE  Spec => []ListInv
    OBVIOUS
<1>1. Init => ListInv
    BY InitIs
<1>2. ListInv /\ [Next]_vars => ListInv'
    BY ListStep, ListStutter
<1> QED
    BY <1>1, <1>2, PTL DEF Spec

(* There, no pointer dangles, no node is lost, shared or freed twice, and  *)
(* the way back meets the same nodes as the way on.                        *)
THEOREM LinksRight == ~TailInsert => (Spec => []LinksSound)
<1> SUFFICES ASSUME ~TailInsert
             PROVE  Spec => []LinksSound
    OBVIOUS
<1>1. Spec => []ListInv
    BY ListInvInvariant
<1> QED
    BY <1>1, InvSound, PTL

(* There, aodbm_list implements the sequences of ItemSequences.            *)
THEOREM ListImplements == ~TailInsert => (Spec => ImplementsSequences)
<1> SUFFICES ASSUME ~TailInsert
             PROVE  Spec => ImplementsSequences
    OBVIOUS
<1>1. Init => Sequences!SeqInit
    BY InitIs
<1>2. ListInv /\ [Next]_vars => [Sequences!SeqNext]_Sequences!seqVars
    BY ListStep, ListStutter
<1>3. Spec => []ListInv
    BY ListInvInvariant
<1> QED
    BY <1>1, <1>2, <1>3, PTL DEF Spec, ImplementsSequences, Sequences!SeqSpec

-----------------------------------------------------------------------------
(* Ropes.                                                                  *)

(* S has the nodes of each rope: each node is on one of them at one place, *)
(* and nx leads from it to the one behind it.                              *)
Strung(S, nx) ==
    /\ \A r \in DOMAIN S : S[r] \in Seq(DOMAIN nx) /\ Len(S[r]) >= 1
    /\ \A r, q \in DOMAIN S : \A i \in 1..Len(S[r]), j \in 1..Len(S[q]) :
           S[r][i] = S[q][j] => r = q /\ i = j
    /\ \A n \in DOMAIN nx : \E r \in DOMAIN S : \E i \in 1..Len(S[r]) : S[r][i] = n
    /\ \A r \in DOMAIN S : \A i \in 1..Len(S[r]) : nx[S[r][i]] = At(S[r], i+1)

(* t is what the strings d of the nodes s give one behind the other.       *)
Spells(d, s, t) ==
    \E f : /\ f[0] = << >> /\ f[Len(s)] = t
           /\ \A k \in 0..Len(s) : f[k] \in Seq(Letter)
           /\ \A k \in 1..Len(s) : f[k] = f[k-1] \o d[s[k]]

Texts == {s \in Seq(Letter) : Len(s) <= MaxText}

HeldOK == DOMAIN held \subseteq Datum /\ \A d \in DOMAIN held : held[d] \in Texts

RopeFieldsOK ==
    /\ RopeNodes \subseteq Node /\ DOMAIN dat = RopeNodes
    /\ \A n \in RopeNodes : dat[n] \in Texts
    /\ Ropes \subseteq Rope /\ DOMAIN last = Ropes /\ DOMAIN text = Ropes
    /\ \A r \in Ropes : text[r] \in Texts
    /\ HeldOK

RopeEndsAgree(S) ==
    \A r \in Ropes : /\ first[r] = S[r][1] /\ last[r] = S[r][Len(S[r])]
                     /\ Spells(dat, S[r], text[r])

RopesAgree(S) == DOMAIN S = Ropes /\ Strung(S, after) /\ RopeEndsAgree(S)

RopeInv == RopeFieldsOK /\ \E S : RopesAgree(S)

-----------------------------------------------------------------------------
(* What nodes spell.                                                       *)

(* It depends on their strings only.                                       *)
LEMMA SpellsKeep ==
    ASSUME NEW d, NEW s, NEW t, Spells(d, s, t), NEW e, \A i \in 1..Len(s) : e[s[i]] = d[s[i]]
    PROVE  Spells(e, s, t)
BY DEF Spells

(* The library's fact, for the strings of nodes.                           *)
LEMMA TextsAssociate ==
    ASSUME NEW x \in Seq(Letter), NEW y \in Seq(Letter), NEW z \in Seq(Letter)
    PROVE  x \o (y \o z) = (x \o y) \o z
<1>1. (x \o y) \o z = x \o (y \o z)
    BY ConcatAssociative
<1> QED
    BY <1>1

(* One node spells its string.                                             *)
LEMMA SpellsOne ==
    ASSUME NEW d, NEW n, d[n] \in Seq(Letter)
    PROVE  Spells(d, <<n>>, d[n])
<1> DEFINE f == [k \in 0..1 |-> IF k = 0 THEN << >> ELSE d[n]]
<1>1. f[0] = << >> /\ f[1] = d[n]
    OBVIOUS
<1>2. << >> \o d[n] = d[n] /\ << >> \in Seq(Letter)
    OBVIOUS
<1> HIDE DEF f
<1>3. f[1] = f[0] \o d[n]
    BY <1>1, <1>2
<1>4. \A k \in 0..1 : f[k] \in Seq(Letter)
    <2>1. \A k \in 0..1 : k = 0 \/ k = 1
        OBVIOUS
    <2> QED
        BY <1>1, <1>2, <2>1, Zenon
<1>5. Len(<<n>>) = 1 /\ <<n>>[1] = n
    OBVIOUS
<1>6. \A k \in 1..1 : f[k] = f[k-1] \o d[<<n>>[k]]
    <2>1. ASSUME NEW k \in 1..1
          PROVE  k = 1 /\ k-1 = 0
        OBVIOUS
    <2> QED
        BY <1>3, <1>5, <2>1, Zenon
<1> QED
    BY <1>1, <1>4, <1>5, <1>6 DEF Spells

(* The nodes of two ropes one behind the other spell both strings.         *)
LEMMA SpellsBoth ==
    ASSUME NEW T, NEW d, NEW a \in Seq(T), NEW b \in Seq(T), NEW t, NEW u,
           \A n \in T : d[n] \in Seq(Letter), Spells(d, a, t), Spells(d, b, u)
    PROVE  Spells(d, a \o b, t \o u)
<1> DEFINE C == a \o b
           A == Len(a)
           B == Len(b)
<1>1. /\ A \in Nat /\ B \in Nat /\ Len(C) = A + B
      /\ \A k \in 1..A + B : C[k] = IF k <= A THEN a[k] ELSE b[k-A]
    BY ConcatProperties
<1>2. \A k \in 1..B : b[k] \in T
    OBVIOUS
<1> HIDE DEF C
<1>3. PICK f : /\ f[0] = << >> /\ f[A] = t
               /\ \A k \in 0..A : f[k] \in Seq(Letter)
               /\ \A k \in 1..A : f[k] = f[k-1] \o d[a[k]]
    BY DEF Spells
<1>4. PICK g : /\ g[0] = << >> /\ g[B] = u
               /\ \A k \in 0..B : g[k] \in Seq(Letter)
               /\ \A k \in 1..B : g[k] = g[k-1] \o d[b[k]]
    BY DEF Spells
<1> HIDE DEF A, B
<1> DEFINE h == [k \in 0..A + B |-> IF k <= A THEN f[k] ELSE t \o g[k-A]]
<1>5. \A k \in 0..A + B : h[k] = IF k <= A THEN f[k] ELSE t \o g[k-A]
    OBVIOUS
<1> HIDE DEF h
<1>6. t \in Seq(Letter) /\ t \o << >> = t /\ u \in Seq(Letter)
    <2>1. A \in 0..A /\ B \in 0..B
        BY <1>1
    <2>2. t \in Seq(Letter) /\ u \in Seq(Letter)
        BY <1>3, <1>4, <2>1
    <2> QED
        BY <2>2
<1>7. \A k \in A..A + B : h[k] = t \o g[k-A]
    <2>1. SUFFICES ASSUME NEW k \in A..A + B
                   PROVE  h[k] = t \o g[k-A]
        OBVIOUS
    <2>2. k \in 0..A + B /\ k \in Nat
        BY <1>1
    <2>3. CASE k = A
        <3>1. h[k] = t /\ k - A = 0
            BY <1>1, <1>3, <1>5, <2>2, <2>3
        <3> QED
            BY <1>4, <1>6, <3>1
    <2>4. CASE k # A
        <3>1. ~(k <= A)
            BY <1>1, <2>4
        <3> QED
            BY <1>5, <2>2, <3>1
    <2> QED
        BY <2>3, <2>4
<1>8. h[0] = << >> /\ h[A + B] = t \o u
    <2>1. 0 \in 0..A + B /\ 0 <= A /\ A + B \in A..A + B /\ (A + B) - A = B
        BY <1>1
    <2> QED
        BY <1>3, <1>4, <1>5, <1>7, <2>1
<1>9. \A k \in 0..A + B : h[k] \in Seq(Letter)
    <2>1. SUFFICES ASSUME NEW k \in 0..A + B
                   PROVE  h[k] \in Seq(Letter)
        OBVIOUS
    <2>2. CASE k <= A
        <3>1. k \in 0..A
            BY <1>1, <2>2
        <3> QED
            BY <1>3, <1>5, <2>2, <3>1
    <2>3. CASE ~(k <= A)
        <3>1. k - A \in 0..B
            BY <1>1, <2>3
        <3>2. g[k-A] \in Seq(Letter)
            BY <1>4, <3>1
        <3>3. t \o g[k-A] \in Seq(Letter)
            BY <1>6, <3>2
        <3> QED
            BY <1>5, <2>3, <3>3
    <2> QED
        BY <2>2, <2>3
<1>10. \A k \in 1..A + B : h[k] = h[k-1] \o d[C[k]]
    <2>1. SUFFICES ASSUME NEW k \in 1..A + B
                   PROVE  h[k] = h[k-1] \o d[C[k]]
        OBVIOUS
    <2>2. CASE k <= A
        <3>1. k \in 1..A /\ k - 1 \in 0..A + B /\ k - 1 <= A /\ k \in 0..A + B
            BY <1>1, <2>2
        <3>2. h[k] = f[k] /\ h[k-1] = f[k-1] /\ C[k] = a[k]
            BY <1>1, <1>5, <2>2, <3>1
        <3> QED
            BY <1>3, <3>1, <3>2
    <2>3. CASE ~(k <= A)
        <3>1. /\ k - A \in 1..B /\ k - 1 \in A..A + B /\ k \in A..A + B
              /\ (k - 1) - A = (k - A) - 1 /\ (k - A) - 1 \in 0..B
            BY <1>1, <2>3
        <3>2. h[k] = t \o g[k-A] /\ h[k-1] = t \o g[(k-A)-1] /\ C[k] = b[k-A]
            BY <1>1, <1>7, <2>3, <3>1
        <3>3. g[k-A] = g[(k-A)-1] \o d[b[k-A]]
            BY <1>4, <3>1
        <3>4. g[(k-A)-1] \in Seq(Letter) /\ d[b[k-A]] \in Seq(Letter)
            BY <1>2, <1>4, <3>1
        <3>5. t \o (g[(k-A)-1] \o d[b[k-A]]) = (t \o g[(k-A)-1]) \o d[b[k-A]]
            BY <1>6, <3>4, TextsAssociate, Zenon
        <3> QED
            BY <3>2, <3>3, <3>5
    <2> QED
        BY <2>2, <2>3
<1> QED
    BY <1>1, <1>8, <1>9, <1>10 DEF Spells, C


TextBody(s, f) == [k \in 0..Len(s) |-> IF k = 0 THEN << >> ELSE f[k-1] \o dat[s[k]]]
SizeBody(s, f) == [k \in 0..Len(s) |-> IF k = 0 THEN 0 ELSE f[k-1] + Len(dat[s[k]])]
TextOf(s) == (CHOOSE f : f = TextBody(s, f))[Len(s)]
SizeOf(s) == (CHOOSE f : f = SizeBody(s, f))[Len(s)]

(* What aodbm_rope_to_data puts together from the nodes s, and the size    *)
(* aodbm_rope_size adds up.                                                *)
LEMMA SpelledIs ==
    ASSUME NEW s, Len(s) \in Nat, NEW t, Spells(dat, s, t),
           \A i \in 1..Len(s) : dat[s[i]] \in Seq(Letter)
    PROVE  TextOf(s) = t /\ SizeOf(s) = Len(t)
<1> DEFINE N == Len(s)
           result == CHOOSE f : f = TextBody(s, f)
           sz == CHOOSE f : f = SizeBody(s, f)
<1>1. PICK f : /\ f[0] = << >> /\ f[N] = t
               /\ \A k \in 0..N : f[k] \in Seq(Letter)
               /\ \A k \in 1..N : f[k] = f[k-1] \o dat[s[k]]
    BY DEF Spells
<1> DEFINE g == [k \in 0..N |-> f[k]]
           h == [k \in 0..N |-> Len(f[k])]
<1>2. \A k \in 0..N : k # 0 => k \in 1..N /\ k-1 \in 0..N
    OBVIOUS
<1>3. \A k \in 1..N : Len(f[k]) = Len(f[k-1]) + Len(dat[s[k]])
    <2>1. ASSUME NEW k \in 1..N
          PROVE  Len(f[k]) = Len(f[k-1]) + Len(dat[s[k]])
        <3>1. k-1 \in 0..N
            OBVIOUS
        <3>2. f[k-1] \in Seq(Letter) /\ dat[s[k]] \in Seq(Letter) /\ f[k] = f[k-1] \o dat[s[k]]
            BY <1>1, <3>1
        <3> QED
            BY <3>2, ConcatProperties
    <2> QED
        BY <2>1
<1>4. Len(f[0]) = 0
    BY <1>1
<1>5. g = TextBody(s, g)
    <2>1. \A k \in 0..N : k # 0 => g[k-1] = f[k-1]
        BY <1>2
    <2> QED
        BY <1>1, <1>2, <2>1 DEF TextBody
<1>6. h = SizeBody(s, h)
    <2>1. \A k \in 0..N : k # 0 => h[k-1] = Len(f[k-1])
        BY <1>2
    <2> QED
        BY <1>2, <1>3, <1>4, <2>1 DEF SizeBody
<1> HIDE DEF g, h
<1>7. result = TextBody(s, result) /\ sz = SizeBody(s, sz)
    BY <1>5, <1>6, Zenon
<1> HIDE DEF result, sz
<1>8. /\ result[0] = << >> /\ \A k \in 1..N : result[k] = result[k-1] \o dat[s[k]]
      /\ sz[0] = 0 /\ \A k \in 1..N : sz[k] = sz[k-1] + Len(dat[s[k]])
    <2>1. 0 \in 0..N /\ \A k \in 1..N : k \in 0..N /\ k # 0
        OBVIOUS
    <2>2. \A k \in 0..N : /\ result[k] = IF k = 0 THEN << >> ELSE result[k-1] \o dat[s[k]]
                          /\ sz[k] = IF k = 0 THEN 0 ELSE sz[k-1] + Len(dat[s[k]])
        BY <1>7 DEF TextBody, SizeBody
    <2> QED
        BY <2>1, <2>2
<1>9. ASSUME result[N] # f[N] \/ sz[N] # Len(f[N])
      PROVE  FALSE
    <2> DEFINE bad == {k \in 0..N : result[k] # f[k] \/ sz[k] # Len(f[k])}
    <2>1. N \in bad /\ bad \subseteq Nat
        BY <1>9
    <2> HIDE DEF bad
    <2>2. PICK m \in bad : \A k \in bad : m <= k
        BY <2>1, LeastNat
    <2>3. m \in 0..N /\ (result[m] # f[m] \/ sz[m] # Len(f[m]))
        BY <2>2 DEF bad
    <2>4. m # 0
        BY <1>1, <1>4, <1>8, <2>3
    <2>5. m-1 \in 0..N /\ m-1 \notin bad /\ m \in 1..N
        BY <2>1, <2>2, <2>3, <2>4
    <2>6. result[m-1] = f[m-1] /\ sz[m-1] = Len(f[m-1])
        BY <2>5 DEF bad
    <2> QED
        BY <1>1, <1>3, <1>8, <2>3, <2>5, <2>6
<1>10. TextOf(s) = result[N] /\ SizeOf(s) = sz[N]
    BY Zenon DEF TextOf, SizeOf, result, sz
<1> QED
    BY <1>1, <1>9, <1>10

(* A rope gives what its nodes spell.                                      *)
LEMMA SpellsIs ==
    ASSUME NEW r, Len(NodesOf(r)) \in Nat, NEW t, Spells(dat, NodesOf(r), t),
           \A i \in 1..Len(NodesOf(r)) : dat[NodesOf(r)[i]] \in Seq(Letter)
    PROVE  RopeString(r) = t /\ RopeSize(r) = Len(t)
<1> DEFINE s == NodesOf(r)
<1>0. /\ Len(s) \in Nat /\ Spells(dat, s, t)
      /\ \A i \in 1..Len(s) : dat[s[i]] \in Seq(Letter)
    OBVIOUS
<1>1. RopeString(r) = TextOf(s)
    BY Zenon DEF RopeString, TextBody, TextOf
<1>2. RopeSize(r) = SizeOf(s)
    BY Zenon DEF RopeSize, SizeBody, SizeOf
<1> HIDE DEF s
<1> QED
    BY <1>0, <1>1, <1>2, SpelledIs

-----------------------------------------------------------------------------
(* The loop over the nodes.                                                *)

LoopBody(r, f) ==
    [k \in 1..Cardinality(Node) |->
        IF k = 1 THEN <<first[r]>>
        ELSE IF Len(f[k-1]) < k-1 \/ after[Last(f[k-1])] \notin RopeNodes
             THEN f[k-1] ELSE Append(f[k-1], after[Last(f[k-1])])]

(* The loop along the nodes s meets them and no more.                      *)
LEMMA LoopIs ==
    ASSUME NULL \notin RopeNodes, NEW r, NEW s \in Seq(RopeNodes), Len(s) >= 1,
           first[r] = s[1], \A i \in 1..Len(s) : after[s[i]] = At(s, i+1),
           Cardinality(Node) \in Nat, Len(s) <= Cardinality(Node)
    PROVE  NodesOf(r) = s
<1> DEFINE C == Cardinality(Node)
           T == RopeNodes
           p == At(s, 1)
           g == [k \in 1..C |-> UpTo(s, k)]
           walk == CHOOSE f : f = LoopBody(r, f)
<1>0. UpTo(s, 1) = <<first[r]>> /\ p = s[1] /\ Len(s) \in Nat
    <2>1. Len(s) \in Nat /\ 1 \in 1..Len(s) /\ 1 <= Len(s)
        OBVIOUS
    <2>2. SubSeq(s, 1, 1) = <<s[1]>>
        <3> DEFINE b == SubSeq(s, 1, 1)
        <3>1. b \in Seq(T) /\ Len(b) = 1 /\ b[1] = s[1] /\ s[1] \in T
            BY <2>1
        <3> HIDE DEF b, T
        <3>2. b = <<s[1]>>
            <4> DEFINE e == s[1]
                       c == <<e>>
            <4> HIDE DEF e
            <4>1. c \in Seq(T) /\ Len(c) = 1 /\ c[1] = e
                BY <3>1 DEF e
            <4> HIDE DEF c
            <4>2. \A i \in 1..1 : i = 1
                OBVIOUS
            <4>3. b = c
                BY <3>1, <4>1, <4>2, SeqEqual DEF e
            <4> QED
                BY <4>3 DEF c, e
        <3> QED
            BY <3>2 DEF b
    <2> QED
        BY <2>1, <2>2 DEF UpTo, At
<1>1. ASSUME NEW k \in 1..C, k # 1
      PROVE  LET met == UpTo(s, k-1)
                 n   == after[Last(met)]
             IN  UpTo(s, k) = IF Len(met) < k-1 \/ n \notin T THEN met ELSE Append(met, n)
    <2>1. k \in Nat /\ k > 0 /\ NULL \notin T /\ s \in Seq(T)
        BY <1>1
    <2> HIDE DEF T
    <2>2. LET met == UpTo(s, k-1)
              n   == IF k = 1 THEN p ELSE after[Last(met)]
          IN  UpTo(s, k) = IF Len(met) < k-1 \/ n \notin T THEN met ELSE Append(met, n)
        BY <2>1, WalkStep
    <2> QED
        BY <1>1, <2>2
<1>2. g = LoopBody(r, g)
    <2>1. \A k \in 1..C : k # 1 => g[k-1] = UpTo(s, k-1)
        OBVIOUS
    <2> QED
        BY <1>0, <1>1, <2>1 DEF LoopBody
<1> HIDE DEF g
<1>3. walk = LoopBody(r, walk)
    BY <1>2, Zenon
<1>4. NodesOf(r) = walk[C]
    BY Zenon DEF NodesOf, LoopBody
<1> HIDE DEF walk
<1>5. ASSUME walk[C] # s
      PROVE  FALSE
    <2> DEFINE bad == {k \in 1..C : walk[k] # UpTo(s, k)}
    <2>1. UpTo(s, C) = s
        BY DEF UpTo
    <2>2. C \in bad /\ bad \subseteq Nat
        BY <1>0, <1>5, <2>1
    <2> HIDE DEF bad
    <2>3. PICK m \in bad : \A k \in bad : m <= k
        BY <2>2, LeastNat
    <2>4. m \in 1..C /\ walk[m] # UpTo(s, m)
        BY <2>3 DEF bad
    <2>5. m # 1
        BY <1>0, <1>3, <2>4 DEF LoopBody
    <2>6. m-1 \in 1..C /\ m-1 \notin bad
        BY <2>2, <2>3, <2>4, <2>5
    <2>7. walk[m-1] = UpTo(s, m-1)
        BY <2>6 DEF bad
    <2> DEFINE met == UpTo(s, m-1)
               n   == after[Last(met)]
    <2>8. UpTo(s, m) = IF Len(met) < m-1 \/ n \notin T THEN met ELSE Append(met, n)
        BY <1>1, <2>4, <2>5
    <2>9. walk[m] = IF Len(walk[m-1]) < m-1 \/ after[Last(walk[m-1])] \notin RopeNodes
                    THEN walk[m-1] ELSE Append(walk[m-1], after[Last(walk[m-1])])
        <3>1. m \in 1..Cardinality(Node) /\ walk = LoopBody(r, walk)
            BY <1>3, <2>4
        <3> QED
            BY ONLY <2>5, <3>1 DEF LoopBody
    <2> QED
        BY <2>4, <2>7, <2>8, <2>9
<1> QED
    BY <1>4, <1>5

(* The nodes of a rope are those the invariant says.                       *)
LEMMA NodesOfIs ==
    ASSUME RopeFieldsOK, NEW S, RopesAgree(S), NEW r \in Ropes
    PROVE  NodesOf(r) = S[r]
<1> DEFINE s == S[r]
<1>1. /\ s \in Seq(RopeNodes) /\ Len(s) >= 1 /\ first[r] = s[1]
      /\ \A i, j \in 1..Len(s) : s[i] = s[j] => i = j
      /\ \A i \in 1..Len(s) : after[s[i]] = At(s, i+1)
    <2>1. r \in DOMAIN S /\ Strung(S, after) /\ RopeEndsAgree(S)
        BY DEF RopesAgree
    <2>2. s \in Seq(RopeNodes) /\ Len(s) >= 1
        BY <2>1 DEF Strung, RopeNodes
    <2>3. \A i, j \in 1..Len(s) : s[i] = s[j] => i = j
        BY <2>1 DEF Strung
    <2>4. \A i \in 1..Len(s) : after[s[i]] = At(s, i+1)
        BY <2>1 DEF Strung
    <2>5. first[r] = s[1]
        BY <2>1 DEF RopeEndsAgree
    <2> QED
        BY <2>2, <2>3, <2>4, <2>5
<1> HIDE DEF s
<1>2. RopeNodes \subseteq Node /\ NULL \notin RopeNodes /\ IsFiniteSet(Node)
    BY HeapAssumption DEF RopeFieldsOK
<1>3. s \in Seq(Node)
    BY <1>1, <1>2
<1>4. Len(s) <= Cardinality(Node) /\ Cardinality(Node) \in Nat
    BY <1>1, <1>2, <1>3, DistinctBound
<1>5. NodesOf(r) = s
    BY <1>1, <1>2, <1>4, LoopIs
<1> QED
    BY <1>5 DEF s

-----------------------------------------------------------------------------
(* One rope more, two that become one, one less.                           *)

(* The nodes of a and b one behind the other, under the name c.            *)
Joined(S, a, b, c) ==
    [r \in (DOMAIN S \ {a, b}) \cup {c} |-> IF r = c THEN S[a] \o S[b] ELSE S[r]]

(* A node is on one rope, at one place.                                    *)
LEMMA SameNode ==
    ASSUME NEW S, NEW nx, Strung(S, nx), NEW r \in DOMAIN S, NEW q \in DOMAIN S,
           NEW i \in 1..Len(S[r]), NEW j \in 1..Len(S[q]), S[r][i] = S[q][j]
    PROVE  r = q /\ i = j
BY DEF Strung

(* A node of its own is one rope more.                                     *)
LEMMA StrungNew ==
    ASSUME NEW S, NEW nx, Strung(S, nx), NEW x, x \notin DOMAIN S, NEW n, n \notin DOMAIN nx
    PROVE  Strung(Put(S, x, <<n>>), Put(nx, n, NULL))
<1> DEFINE R == Put(S, x, <<n>>)
           ny == Put(nx, n, NULL)
           one == <<n>>
<1>1. one \in Seq({n}) /\ Len(one) = 1 /\ one[1] = n
    OBVIOUS
<1>2. \A i \in 1..1 : i = 1
    OBVIOUS
<1> HIDE DEF one
<1>3. /\ DOMAIN R = DOMAIN S \cup {x} /\ R[x] = one
      /\ \A r \in DOMAIN S : R[r] = S[r] /\ r # x
    BY DEF Put, one
<1>4. /\ DOMAIN ny = DOMAIN nx \cup {n} /\ ny[n] = NULL
      /\ \A y \in DOMAIN nx : ny[y] = nx[y] /\ y # n
    BY DEF Put
<1> HIDE DEF R, ny
<1>5. /\ \A r \in DOMAIN S : S[r] \in Seq(DOMAIN nx) /\ Len(S[r]) >= 1
      /\ \A r \in DOMAIN S : \A i \in 1..Len(S[r]) : S[r][i] \in DOMAIN nx
    <2>1. \A r \in DOMAIN S : S[r] \in Seq(DOMAIN nx) /\ Len(S[r]) >= 1
        BY DEF Strung
    <2> QED
        BY <2>1
<1>6. \A r \in DOMAIN R : R[r] \in Seq(DOMAIN ny) /\ Len(R[r]) >= 1
    <2>1. \A r \in DOMAIN S : S[r] \in Seq(DOMAIN ny)
        BY <1>4, <1>5
    <2>2. one \in Seq(DOMAIN ny)
        BY <1>1, <1>4
    <2>3. R[x] \in Seq(DOMAIN ny) /\ Len(R[x]) >= 1
        BY <1>1, <1>3, <2>2
    <2>4. \A r \in DOMAIN S : R[r] \in Seq(DOMAIN ny) /\ Len(R[r]) >= 1
        BY <1>3, <1>5, <2>1
    <2> QED
        BY <1>3, <2>3, <2>4
<1>7. ASSUME NEW r \in DOMAIN R, NEW q \in DOMAIN R,
             NEW i \in 1..Len(R[r]), NEW j \in 1..Len(R[q]), R[r][i] = R[q][j]
      PROVE  r = q /\ i = j
    <2>1. CASE r = x /\ q = x
        BY <1>1, <1>2, <1>3, <2>1
    <2>2. CASE r = x /\ q # x
        <3>1. R[r][i] = n /\ R[q][j] \in DOMAIN nx
            BY <1>1, <1>2, <1>3, <1>5, <2>2
        <3> QED
            BY <1>4, <1>7, <3>1
    <2>3. CASE r # x /\ q = x
        <3>1. R[q][j] = n /\ R[r][i] \in DOMAIN nx
            BY <1>1, <1>2, <1>3, <1>5, <2>3
        <3> QED
            BY <1>4, <1>7, <3>1
    <2>4. CASE r # x /\ q # x
        <3>1. r \in DOMAIN S /\ q \in DOMAIN S /\ R[r] = S[r] /\ R[q] = S[q]
            BY <1>3, <2>4
        <3>2. i \in 1..Len(S[r]) /\ j \in 1..Len(S[q]) /\ S[r][i] = S[q][j]
            BY <1>7, <3>1
        <3> QED
            BY <3>1, <3>2, SameNode
    <2> QED
        BY <2>1, <2>2, <2>3, <2>4
<1>8. ASSUME NEW y \in DOMAIN ny
      PROVE  \E r \in DOMAIN R : \E i \in 1..Len(R[r]) : R[r][i] = y
    <2>1. CASE y = n
        <3>1. 1 \in 1..Len(R[x]) /\ R[x][1] = y
            BY <1>1, <1>3, <2>1
        <3> QED
            BY <1>3, <3>1
    <2>2. CASE y # n
        <3>1. \E r \in DOMAIN S : \E i \in 1..Len(S[r]) : S[r][i] = y
            BY <1>4, <2>2 DEF Strung
        <3> QED
            BY <1>3, <3>1
    <2> QED
        BY <2>1, <2>2
<1>9. ASSUME NEW r \in DOMAIN R, NEW i \in 1..Len(R[r])
      PROVE  ny[R[r][i]] = At(R[r], i+1)
    <2>1. CASE r = x
        <3>1. i = 1 /\ R[r][i] = n /\ Len(R[r]) = 1
            BY <1>1, <1>2, <1>3, <2>1
        <3>2. i+1 \notin 1..Len(R[r])
            BY <3>1
        <3> QED
            BY <1>4, <3>1, <3>2 DEF At
    <2>2. CASE r # x
        <3>1. r \in DOMAIN S /\ R[r] = S[r] /\ S[r][i] \in DOMAIN nx
            BY <1>3, <1>5, <2>2
        <3>2. nx[S[r][i]] = At(S[r], i+1)
            BY <1>9, <3>1 DEF Strung
        <3> QED
            BY <1>4, <3>1, <3>2
    <2> QED
        BY <2>1, <2>2
<1>10. Strung(R, ny)
    BY <1>6, <1>7, <1>8, <1>9 DEF Strung
<1> QED
    BY <1>10 DEF R, ny, one

(* The last node of one rope leads to the first of another.                *)
LEMMA StrungBoth ==
    ASSUME NEW S, NEW nx, Strung(S, nx), NULL \notin DOMAIN nx,
           NEW a \in DOMAIN S, NEW b \in DOMAIN S, a # b, NEW c, c \in {a, b}
    PROVE  Strung(Joined(S, a, b, c), [nx EXCEPT ![S[a][Len(S[a])]] = S[b][1]])
<1> DEFINE u == S[a]
           v == S[b]
           A == Len(u)
           B == Len(v)
           t == u \o v
           D == DOMAIN nx
           P == u[A]
           N == v[1]
           R == Joined(S, a, b, c)
           ny == [nx EXCEPT ![P] = N]
<1>1. /\ \A r \in DOMAIN S : S[r] \in Seq(D) /\ Len(S[r]) \in Nat /\ Len(S[r]) >= 1
      /\ \A r \in DOMAIN S : \A i \in 1..Len(S[r]) : S[r][i] \in D
    <2>1. \A r \in DOMAIN S : S[r] \in Seq(DOMAIN nx) /\ Len(S[r]) >= 1
        BY DEF Strung
    <2> QED
        BY <2>1
<1>2. u \in Seq(D) /\ v \in Seq(D) /\ A \in Nat /\ B \in Nat /\ A >= 1 /\ B >= 1
    BY <1>1
<1>3. t \in Seq(D) /\ Len(t) = A+B /\ \A i \in 1..A+B : t[i] = IF i <= A THEN u[i] ELSE v[i-A]
    BY <1>2, ConcatProperties
<1>4. \A j \in Int : At(t, j) = IF j <= A THEN At(u, j) ELSE At(v, j-A)
    BY <1>2, AtBoth
<1>5. /\ DOMAIN R = (DOMAIN S \ {a, b}) \cup {c} /\ R[c] = t
      /\ \A r \in DOMAIN R : r # c => R[r] = S[r] /\ r \in DOMAIN S /\ r # a /\ r # b
    BY DEF Joined
<1> HIDE DEF t, R
<1>6. P \in D /\ N \in D
    BY <1>1, <1>2
<1>7. DOMAIN ny = D /\ \A y \in D : ny[y] = IF y = P THEN N ELSE nx[y]
    BY <1>6
<1>8. \A r, q \in DOMAIN S : \A i \in 1..Len(S[r]), j \in 1..Len(S[q]) :
          S[r][i] = S[q][j] => r = q /\ i = j
    BY DEF Strung
<1>9. \A r \in DOMAIN S : \A i \in 1..Len(S[r]) : nx[S[r][i]] = At(S[r], i+1)
    BY DEF Strung
<1> DEFINE from(i) == IF i <= A THEN a ELSE b
           old(i)  == IF i <= A THEN i ELSE i-A
<1> HIDE DEF ny
<1>10. \A i \in 1..A+B : /\ old(i) \in 1..Len(S[from(i)]) /\ from(i) \in DOMAIN S
                         /\ t[i] = S[from(i)][old(i)] /\ from(i) \in {a, b}
    <2>1. \A i \in 1..A+B : IF i <= A THEN i \in 1..A ELSE i-A \in 1..B
        BY <1>2
    <2>2. ASSUME NEW i \in 1..A+B
          PROVE  /\ old(i) \in 1..Len(S[from(i)]) /\ from(i) \in DOMAIN S
                 /\ t[i] = S[from(i)][old(i)] /\ from(i) \in {a, b}
        <3>1. CASE i <= A
            BY <1>3, <2>1, <3>1
        <3>2. CASE ~(i <= A)
            BY <1>3, <2>1, <3>2
        <3> QED
            BY <3>1, <3>2
    <2> HIDE DEF from, old
    <2> QED
        BY <2>2
<1>11. \A r \in DOMAIN R : R[r] \in Seq(DOMAIN ny) /\ Len(R[r]) >= 1
    <2>1. Len(t) >= 1
        BY <1>2, <1>3
    <2> QED
        BY <1>1, <1>3, <1>5, <1>7, <2>1
<1>12. ASSUME NEW i \in 1..A+B, NEW j \in 1..A+B, t[i] = t[j]
       PROVE  i = j
    <2>1. from(i) = from(j) /\ old(i) = old(j)
        <3> HIDE DEF from, old
        <3> QED
            BY <1>8, <1>10, <1>12
    <2> QED
        BY <1>2, <2>1
<1>13. ASSUME NEW i \in 1..A+B, NEW r \in DOMAIN S, r # a, r # b, NEW j \in 1..Len(S[r])
       PROVE  t[i] # S[r][j]
    <2> HIDE DEF from, old
    <2> QED
        BY <1>8, <1>10, <1>13
<1>14. ASSUME NEW r \in DOMAIN R, NEW q \in DOMAIN R,
              NEW i \in 1..Len(R[r]), NEW j \in 1..Len(R[q]), R[r][i] = R[q][j]
       PROVE  r = q /\ i = j
    <2>1. CASE r = c /\ q = c
        <3>1. i \in 1..A+B /\ j \in 1..A+B /\ t[i] = t[j]
            BY <1>3, <1>5, <1>14, <2>1
        <3> QED
            BY <1>12, <2>1, <3>1
    <2>2. CASE r = c /\ q # c
        <3>1. i \in 1..A+B /\ q \in DOMAIN S /\ q # a /\ q # b /\ j \in 1..Len(S[q])
              /\ t[i] = S[q][j]
            BY <1>3, <1>5, <1>14, <2>2
        <3> QED
            BY <1>13, <3>1
    <2>3. CASE r # c /\ q = c
        <3>1. j \in 1..A+B /\ r \in DOMAIN S /\ r # a /\ r # b /\ i \in 1..Len(S[r])
              /\ t[j] = S[r][i]
            BY <1>3, <1>5, <1>14, <2>3
        <3> QED
            BY <1>13, <3>1
    <2>4. CASE r # c /\ q # c
        BY <1>5, <1>8, <1>14, <2>4
    <2> QED
        BY <2>1, <2>2, <2>3, <2>4
<1>15. ASSUME NEW y \in DOMAIN ny
       PROVE  \E r \in DOMAIN R : \E i \in 1..Len(R[r]) : R[r][i] = y
    <2>1. PICK r \in DOMAIN S : \E i \in 1..Len(S[r]) : S[r][i] = y
        BY <1>7 DEF Strung
    <2>2. PICK i \in 1..Len(S[r]) : S[r][i] = y
        BY <2>1
    <2>3. CASE r # a /\ r # b
        <3>1. r \in DOMAIN R /\ R[r] = S[r]
            BY <1>5, <2>3
        <3> QED
            BY <2>2, <3>1
    <2>4. CASE r = a
        <3>1. i \in 1..A+B /\ i <= A
            BY <1>2, <2>4
        <3>2. i \in 1..Len(R[c]) /\ R[c][i] = y /\ c \in DOMAIN R
            BY <1>3, <1>5, <2>2, <2>4, <3>1
        <3> QED
            BY <3>2
    <2>5. CASE r = b
        <3>1. A+i \in 1..A+B /\ ~(A+i <= A) /\ (A+i)-A = i
            BY <1>2, <2>5
        <3>2. A+i \in 1..Len(R[c]) /\ R[c][A+i] = y /\ c \in DOMAIN R
            BY <1>3, <1>5, <2>2, <2>5, <3>1
        <3> QED
            BY <3>2
    <2> QED
        BY <2>3, <2>4, <2>5
<1>16. \A r \in DOMAIN S : \A i \in 1..Len(S[r]) : S[r][i] = P => r = a /\ i = A
    <2>1. A \in 1..Len(S[a])
        BY <1>2
    <2> QED
        BY <1>8, <2>1
<1>17. ASSUME NEW r \in DOMAIN S, r # a, NEW i \in 1..Len(S[r])
       PROVE  ny[S[r][i]] = At(S[r], i+1)
    <2>1. S[r][i] \in D /\ S[r][i] # P
        BY <1>1, <1>16, <1>17
    <2> QED
        BY <1>7, <1>9, <2>1
<1>18. ASSUME NEW i \in 1..A+B
       PROVE  ny[t[i]] = At(t, i+1)
    <2>1. CASE i <= A
        <3>1. i \in 1..A /\ t[i] = u[i] /\ u[i] \in D
            BY <1>1, <1>2, <1>3, <2>1
        <3>2. CASE i = A
            <4>1. ny[t[i]] = N
                BY <1>7, <3>1, <3>2
            <4>2. i+1 \in Int /\ ~(i+1 <= A) /\ (i+1)-A = 1 /\ 1 \in 1..B
                BY <1>2, <3>2
            <4>3. At(t, i+1) = At(v, 1)
                BY <1>4, <4>2
            <4> QED
                BY <4>1, <4>2, <4>3 DEF At
        <3>3. CASE i # A
            <4>1. u[i] # P
                BY <1>16, <3>1, <3>3
            <4>2. ny[t[i]] = At(u, i+1)
                BY <1>7, <1>9, <3>1, <4>1
            <4>3. i+1 \in Int /\ i+1 <= A
                BY <1>2, <3>1, <3>3
            <4> QED
                BY <1>4, <4>2, <4>3
        <3> QED
            BY <3>2, <3>3
    <2>2. CASE ~(i <= A)
        <3>1. i-A \in 1..B /\ t[i] = v[i-A]
            BY <1>2, <1>3, <2>2
        <3>2. ny[t[i]] = At(v, (i-A)+1)
            BY <1>17, <3>1
        <3>3. i+1 \in Int /\ ~(i+1 <= A) /\ (i+1)-A = (i-A)+1
            BY <1>2, <2>2
        <3> QED
            BY <1>4, <3>2, <3>3
    <2> QED
        BY <2>1, <2>2
<1>19. \A r \in DOMAIN R : \A i \in 1..Len(R[r]) : ny[R[r][i]] = At(R[r], i+1)
    BY <1>3, <1>5, <1>17, <1>18
<1>20. Strung(R, ny)
    BY <1>11, <1>14, <1>15, <1>19 DEF Strung
<1> QED
    BY <1>20 DEF R, ny

(* The nodes of a rope are gone with it.                                   *)
LEMMA StrungFreed ==
    ASSUME NEW S, NEW nx, Strung(S, nx), NEW r \in DOMAIN S
    PROVE  Strung(Drop(S, r), [n \in DOMAIN nx \ ToSet(S[r]) |-> nx[n]])
<1> DEFINE R == Drop(S, r)
           D == DOMAIN nx
           E == D \ ToSet(S[r])
           ny == [n \in E |-> nx[n]]
<1>1. DOMAIN R = DOMAIN S \ {r} /\ \A q \in DOMAIN R : R[q] = S[q] /\ q \in DOMAIN S /\ q # r
    BY DEF Drop
<1>2. DOMAIN ny = E /\ \A n \in E : ny[n] = nx[n]
    OBVIOUS
<1>3. \A q \in DOMAIN S : S[q] \in Seq(D) /\ Len(S[q]) >= 1
    BY DEF Strung
<1>4. \A p, q \in DOMAIN S : \A i \in 1..Len(S[p]), j \in 1..Len(S[q]) :
          S[p][i] = S[q][j] => p = q /\ i = j
    BY DEF Strung
<1>5. \A n : n \in ToSet(S[r]) <=> \E i \in 1..Len(S[r]) : S[r][i] = n
    <2>1. DOMAIN S[r] = 1..Len(S[r])
        BY <1>3
    <2> QED
        BY <2>1 DEF ToSet
<1> HIDE DEF R, ny, E
<1>6. \A q \in DOMAIN R : \A i \in 1..Len(S[q]) : S[q][i] \in E
    <2>1. \A q \in DOMAIN S : \A i \in 1..Len(S[q]) : S[q][i] \in D
        BY <1>3
    <2> QED
        BY <1>1, <1>4, <1>5, <2>1 DEF E
<1>7. ASSUME NEW q \in DOMAIN R
      PROVE  R[q] \in Seq(E) /\ Len(R[q]) >= 1
    <2> DEFINE s == S[q]
    <2>1. s \in Seq(D) /\ Len(s) >= 1 /\ R[q] = s /\ \A i \in 1..Len(s) : s[i] \in E
        BY <1>1, <1>3, <1>6, <1>7
    <2> HIDE DEF s
    <2>2. s \in Seq(E)
        BY <2>1
    <2> QED
        BY <2>1, <2>2
<1>8. ASSUME NEW n \in E
      PROVE  \E q \in DOMAIN R : \E i \in 1..Len(R[q]) : R[q][i] = n
    <2>1. n \in D /\ n \notin ToSet(S[r])
        BY <1>8 DEF E
    <2>2. PICK q \in DOMAIN S : \E i \in 1..Len(S[q]) : S[q][i] = n
        BY <2>1 DEF Strung
    <2>3. q # r
        BY <1>5, <2>1, <2>2
    <2> QED
        BY <1>1, <2>2, <2>3
<1>9. \A q \in DOMAIN S : \A i \in 1..Len(S[q]) : nx[S[q][i]] = At(S[q], i+1)
    BY DEF Strung
<1>10. \A q \in DOMAIN R : \A i \in 1..Len(R[q]) : ny[R[q][i]] = At(R[q], i+1)
    BY <1>1, <1>2, <1>6, <1>9
<1>11. \A p, q \in DOMAIN R : \A i \in 1..Len(R[p]), j \in 1..Len(R[q]) :
          R[p][i] = R[q][j] => p = q /\ i = j
    BY <1>1, <1>4
<1>12. Strung(R, ny)
    BY <1>2, <1>7, <1>8, <1>10, <1>11 DEF Strung
<1> QED
    BY <1>12 DEF R, ny, E

-----------------------------------------------------------------------------
(* What the invariant says of the properties.                              *)

(* The parts of the invariant one rope at a time.                          *)
LEMMA RopeIs ==
    ASSUME RopeFieldsOK, NEW S, RopesAgree(S), NEW r \in Ropes
    PROVE  /\ S[r] \in Seq(RopeNodes) /\ Len(S[r]) \in Nat /\ Len(S[r]) >= 1
           /\ \A i \in 1..Len(S[r]) : S[r][i] \in RopeNodes /\ after[S[r][i]] = At(S[r], i+1)
           /\ first[r] = S[r][1] /\ last[r] = S[r][Len(S[r])]
           /\ first[r] \in RopeNodes /\ last[r] \in RopeNodes
           /\ Spells(dat, S[r], text[r])
           /\ text[r] \in Seq(Letter) /\ Len(text[r]) <= MaxText
<1>1. r \in DOMAIN S /\ Strung(S, after) /\ RopeEndsAgree(S)
    BY DEF RopesAgree
<1>2. S[r] \in Seq(RopeNodes) /\ Len(S[r]) >= 1
    BY <1>1 DEF Strung, RopeNodes
<1>3. \A i \in 1..Len(S[r]) : S[r][i] \in RopeNodes
    BY <1>2
<1>4. \A i \in 1..Len(S[r]) : after[S[r][i]] = At(S[r], i+1)
    BY <1>1 DEF Strung
<1>5. /\ first[r] = S[r][1] /\ last[r] = S[r][Len(S[r])]
      /\ Spells(dat, S[r], text[r])
    BY <1>1 DEF RopeEndsAgree
<1>6. 1 \in 1..Len(S[r]) /\ Len(S[r]) \in 1..Len(S[r]) /\ Len(S[r]) \in Nat
    BY <1>2
<1>7. text[r] \in Seq(Letter) /\ Len(text[r]) <= MaxText
    BY DEF RopeFieldsOK, Texts
<1> QED
    BY <1>2, <1>3, <1>4, <1>5, <1>6, <1>7

(* Each node is on one rope.                                               *)
LEMMA OneRope ==
    ASSUME RopeFieldsOK, NEW S, RopesAgree(S), NEW n \in RopeNodes
    PROVE  Cardinality({r \in Ropes : n \in ToSet(NodesOf(r))}) = 1
<1>1. \A r \in Ropes : n \in ToSet(NodesOf(r)) <=> \E i \in 1..Len(S[r]) : S[r][i] = n
    <2>1. ASSUME NEW r \in Ropes
          PROVE  n \in ToSet(NodesOf(r)) <=> \E i \in 1..Len(S[r]) : S[r][i] = n
        <3>1. NodesOf(r) = S[r] /\ S[r] \in Seq(RopeNodes)
            BY NodesOfIs, RopeIs
        <3>2. DOMAIN S[r] = 1..Len(S[r])
            BY <3>1
        <3> QED
            BY <3>1, <3>2 DEF ToSet
    <2> QED
        BY <2>1
<1>2. DOMAIN S = Ropes /\ Strung(S, after)
    BY DEF RopesAgree
<1>3. PICK q \in Ropes : \E i \in 1..Len(S[q]) : S[q][i] = n
    BY <1>2 DEF Strung, RopeNodes
<1>4. ASSUME NEW r \in Ropes, \E i \in 1..Len(S[r]) : S[r][i] = n
      PROVE  r = q
    <2>1. PICK i \in 1..Len(S[r]) : S[r][i] = n
        BY <1>4
    <2>2. PICK j \in 1..Len(S[q]) : S[q][j] = n
        BY <1>3
    <2> QED
        BY <1>2, <2>1, <2>2, SameNode
<1>5. {r \in Ropes : n \in ToSet(NodesOf(r))} = {q}
    BY <1>1, <1>3, <1>4
<1> QED
    BY <1>5, FS_Singleton

(* The invariant implies that chains are sound.                            *)
LEMMA InvChains == RopeInv => ChainsSound
<1> SUFFICES ASSUME RopeInv
             PROVE  ChainsSound
    OBVIOUS
<1>1. RopeFieldsOK
    BY DEF RopeInv
<1>2. PICK S : RopesAgree(S)
    BY DEF RopeInv
<1>3. \A n \in RopeNodes : after[n] \in RopeNodes \cup {NULL} /\ Len(dat[n]) <= MaxText
    <2>1. ASSUME NEW n \in RopeNodes
          PROVE  after[n] \in RopeNodes \cup {NULL}
        <3>1. PICK r \in Ropes : \E i \in 1..Len(S[r]) : S[r][i] = n
            BY <1>2 DEF RopesAgree, Strung, RopeNodes
        <3>2. PICK i \in 1..Len(S[r]) : S[r][i] = n
            BY <3>1
        <3>3. after[n] = At(S[r], i+1) /\ \A j \in 1..Len(S[r]) : S[r][j] \in RopeNodes
            BY <1>1, <1>2, <3>2, RopeIs
        <3> QED
            BY <3>3 DEF At
    <2>2. \A n \in RopeNodes : Len(dat[n]) <= MaxText
        BY <1>1 DEF RopeFieldsOK, Texts
    <2> QED
        BY <2>1, <2>2
<1>4. ASSUME NEW r \in Ropes
      PROVE  /\ {first[r], last[r]} \subseteq RopeNodes
             /\ Last(NodesOf(r)) = last[r] /\ after[last[r]] = NULL
    <2>1. /\ NodesOf(r) = S[r] /\ last[r] = S[r][Len(S[r])]
          /\ first[r] \in RopeNodes /\ last[r] \in RopeNodes
          /\ Len(S[r]) \in Nat /\ Len(S[r]) >= 1
          /\ \A i \in 1..Len(S[r]) : after[S[r][i]] = At(S[r], i+1)
        BY <1>1, <1>2, NodesOfIs, RopeIs
    <2>2. Len(S[r]) \in 1..Len(S[r]) /\ Len(S[r])+1 \notin 1..Len(S[r])
        BY <2>1
    <2>3. after[last[r]] = NULL
        BY <2>1, <2>2 DEF At
    <2>4. Last(NodesOf(r)) = last[r]
        BY <2>1 DEF Last
    <2> QED
        BY <2>1, <2>3, <2>4
<1>5. \A n \in RopeNodes : Cardinality({r \in Ropes : n \in ToSet(NodesOf(r))}) = 1
    BY <1>1, <1>2, OneRope
<1>6. /\ RopeNodes \subseteq Node /\ DOMAIN dat = RopeNodes /\ DOMAIN held \subseteq Datum
      /\ Ropes \subseteq Rope /\ DOMAIN last = Ropes /\ DOMAIN text = Ropes
    BY <1>1 DEF RopeFieldsOK, HeldOK
<1> QED
    BY <1>3, <1>4, <1>5, <1>6 DEF ChainsSound

(* A rope gives the string it stands for.                                  *)
LEMMA GivesText ==
    ASSUME RopeFieldsOK, NEW S, RopesAgree(S), NEW r \in Ropes
    PROVE  RopeString(r) = text[r] /\ RopeSize(r) = Len(text[r])
<1>1. /\ NodesOf(r) = S[r] /\ Len(S[r]) \in Nat /\ Spells(dat, S[r], text[r])
      /\ \A i \in 1..Len(S[r]) : S[r][i] \in RopeNodes
    BY NodesOfIs, RopeIs
<1>2. \A n \in RopeNodes : dat[n] \in Seq(Letter)
    BY DEF RopeFieldsOK, Texts
<1>3. /\ Len(NodesOf(r)) \in Nat /\ Spells(dat, NodesOf(r), text[r])
      /\ \A i \in 1..Len(NodesOf(r)) : dat[NodesOf(r)[i]] \in Seq(Letter)
    BY <1>1, <1>2
<1> QED
    BY <1>3, SpellsIs

(* The invariant implies that ropes give their strings.                    *)
LEMMA InvText == RopeInv => RopeIsItsText
BY GivesText DEF RopeInv, RopeIsItsText

-----------------------------------------------------------------------------
(* The steps of ropes.                                                     *)

(* There is a name no set has.                                             *)
LEMMA NotIn ==
    ASSUME NEW T
    PROVE  \E x : x \notin T
<1> DEFINE x == {y \in T : y \notin y}
<1>1. x \notin T
    OBVIOUS
<1> QED
    BY <1>1

(* The ends of one sequence behind another.                                *)
LEMMA EndsBoth ==
    ASSUME NEW T, NEW u \in Seq(T), NEW v \in Seq(T), Len(u) >= 1, Len(v) >= 1
    PROVE  (u \o v)[1] = u[1] /\ (u \o v)[Len(u \o v)] = v[Len(v)]
<1> DEFINE t == u \o v
<1>1. /\ Len(t) = Len(u)+Len(v) /\ Len(u) \in Nat /\ Len(v) \in Nat
      /\ \A i \in 1..Len(u)+Len(v) : t[i] = IF i <= Len(u) THEN u[i] ELSE v[i-Len(u)]
    BY ConcatProperties
<1> HIDE DEF t
<1>2. 1 \in 1..Len(u)+Len(v) /\ 1 <= Len(u)
    BY <1>1
<1>3. /\ Len(u)+Len(v) \in 1..Len(u)+Len(v) /\ ~(Len(u)+Len(v) <= Len(u))
      /\ (Len(u)+Len(v))-Len(u) = Len(v)
    BY <1>1
<1>4. t[1] = u[1] /\ t[Len(t)] = v[Len(v)]
    BY <1>1, <1>2, <1>3
<1> QED
    BY <1>4 DEF t

(* Strings put together within the bound.                                  *)
LEMMA TextBoth ==
    ASSUME NEW s \in Texts, NEW t \in Texts, Len(s)+Len(t) <= MaxText
    PROVE  s \o t \in Texts
<1>1. s \in Seq(Letter) /\ t \in Seq(Letter)
    BY DEF Texts
<1>2. s \o t \in Seq(Letter) /\ Len(s \o t) = Len(s)+Len(t)
    BY <1>1, ConcatProperties
<1> QED
    BY <1>2 DEF Texts

(* The caller's objects behind a call that may take one over.              *)
LEMMA GivenHeld ==
    ASSUME HeldOK, NEW d, NEW di, Given(d, di)
    PROVE  HeldOK'
<1>1. held' = Drop(held, d) \/ held' = held
    BY DEF Given
<1>2. CASE held' = held
    BY <1>2 DEF HeldOK
<1>3. CASE held' = Drop(held, d)
    BY <1>3 DEF HeldOK, Drop
<1> QED
    BY <1>1, <1>2, <1>3

(* Ropes do not change when their fields do not.                           *)
LEMMA RopesSame ==
    ASSUME RopeInv, UNCHANGED <<dat, after, first, last, text>>, HeldOK'
    PROVE  RopeInv'
<1>1. PICK S : RopesAgree(S)
    BY DEF RopeInv
<1>2. RopesAgree(S)'
    BY <1>1 DEF RopesAgree, RopeEndsAgree, Ropes
<1>3. RopeFieldsOK'
    BY DEF RopeInv, RopeFieldsOK, RopeNodes, Ropes
<1> QED
    BY <1>2, <1>3 DEF RopeInv

(* The nodes there were spell what they did.                               *)
LEMMA StillSpells ==
    ASSUME RopeFieldsOK, NEW S, RopesAgree(S), NEW r \in Ropes,
           NEW e, \A i \in 1..Len(S[r]) : e[S[r][i]] = dat[S[r][i]]
    PROVE  Spells(e, S[r], text[r])
<1>1. Spells(dat, S[r], text[r])
    BY RopeIs
<1> QED
    BY <1>1, SpellsKeep

(* What a step has to show for the nodes R of the ropes behind it.         *)
LEMMA AgreesNext ==
    ASSUME NEW R, DOMAIN R = Ropes', Strung(R, after'),
           \A r \in Ropes' : /\ first'[r] = R[r][1] /\ last'[r] = R[r][Len(R[r])]
                             /\ Spells(dat', R[r], text'[r])
    PROVE  RopesAgree(R)'
BY DEF RopesAgree, RopeEndsAgree

(* aodbm_data_to_rope: a rope with one node.                               *)
LEMMA ToRopeStep ==
    ASSUME RopeInv, NEW r \in Rope, NEW s \in Texts, ToRope(r, s), HeldOK'
    PROVE  RopeInv'
<1>1. RopeFieldsOK
    BY DEF RopeInv
<1>2. PICK S : RopesAgree(S)
    BY DEF RopeInv
<1>3. PICK n \in Node : /\ NewNode(n, s, NULL) /\ first' = Put(first, r, n)
                        /\ last' = Put(last, r, n)
    BY DEF ToRope
<1>4. r \notin Ropes /\ n \notin RopeNodes /\ text' = Put(text, r, s)
      /\ dat' = Put(dat, n, s) /\ after' = Put(after, n, NULL)
    BY <1>3 DEF ToRope, NewNode
<1> DEFINE R == Put(S, r, <<n>>)
           one == <<n>>
<1>5. Len(one) = 1 /\ one[1] = n
    OBVIOUS
<1>6. /\ DOMAIN R = Ropes \cup {r} /\ R[r] = one
      /\ \A q \in Ropes : R[q] = S[q] /\ q # r
    BY <1>2, <1>4 DEF Put, RopesAgree
<1>7. Strung(R, after')
    BY <1>2, <1>4, StrungNew DEF RopesAgree, RopeNodes
<1> HIDE DEF R, one
<1>8. /\ RopeNodes' = RopeNodes \cup {n} /\ DOMAIN dat' = RopeNodes \cup {n}
      /\ dat'[n] = s /\ \A m \in RopeNodes : dat'[m] = dat[m]
    BY <1>1, <1>4 DEF Put, RopeFieldsOK, RopeNodes
<1>9. /\ Ropes' = Ropes \cup {r} /\ DOMAIN last' = Ropes \cup {r} /\ DOMAIN text' = Ropes \cup {r}
      /\ first'[r] = n /\ last'[r] = n /\ text'[r] = s
      /\ \A q \in Ropes : first'[q] = first[q] /\ last'[q] = last[q] /\ text'[q] = text[q]
    BY <1>1, <1>3, <1>4 DEF Put, RopeFieldsOK, Ropes
<1>10. RopeFieldsOK'
    <2>1. \A m \in RopeNodes \cup {n} : dat'[m] \in Texts
        BY <1>1, <1>8 DEF RopeFieldsOK
    <2>2. \A q \in Ropes \cup {r} : text'[q] \in Texts
        BY <1>1, <1>9 DEF RopeFieldsOK
    <2>3. RopeNodes \cup {n} \subseteq Node /\ Ropes \cup {r} \subseteq Rope
        BY <1>1 DEF RopeFieldsOK
    <2> QED
        BY <1>8, <1>9, <2>1, <2>2, <2>3 DEF RopeFieldsOK
<1>11. ASSUME NEW q \in Ropes
       PROVE  first'[q] = R[q][1] /\ last'[q] = R[q][Len(R[q])] /\ Spells(dat', R[q], text'[q])
    <2>1. /\ first[q] = S[q][1] /\ last[q] = S[q][Len(S[q])]
          /\ \A i \in 1..Len(S[q]) : S[q][i] \in RopeNodes
        BY <1>1, <1>2, RopeIs
    <2>2. Spells(dat', S[q], text[q])
        BY <1>1, <1>2, <1>8, <2>1, StillSpells
    <2> QED
        BY <1>6, <1>9, <2>1, <2>2
<1>12. first'[r] = R[r][1] /\ last'[r] = R[r][Len(R[r])] /\ Spells(dat', R[r], text'[r])
    <2>1. dat'[n] \in Seq(Letter)
        BY <1>8 DEF Texts
    <2>2. Spells(dat', <<n>>, dat'[n])
        BY <2>1, SpellsOne
    <2> QED
        BY <1>5, <1>6, <1>8, <1>9, <2>2 DEF one
<1>13. RopesAgree(R)'
    <2>1. DOMAIN R = Ropes'
        BY <1>6, <1>9
    <2>2. \A q \in Ropes' : /\ first'[q] = R[q][1] /\ last'[q] = R[q][Len(R[q])]
                            /\ Spells(dat', R[q], text'[q])
        BY <1>9, <1>11, <1>12
    <2> QED
        BY <1>7, <2>1, <2>2, AgreesNext
<1> QED
    BY <1>10, <1>13 DEF RopeInv

(* aodbm_rope_append: a rope of its own for the node, merged behind r.     *)
LEMMA RopeAppendStep ==
    ASSUME RopeInv, NEW r \in Ropes, NEW d \in DOMAIN held, NEW di, RopeAppend(r, d, di)
    PROVE  RopeInv'
<1> DEFINE s == held[d]
<1>1. RopeFieldsOK /\ HeldOK /\ s \in Texts
    BY DEF RopeInv, RopeFieldsOK, HeldOK
<1>2. PICK S : RopesAgree(S)
    BY DEF RopeInv
<1>3. PICK n \in Node \ RopeNodes :
          /\ dat' = Put(dat, n, s)
          /\ after' = Put([after EXCEPT ![last[r]] = n], n, NULL)
          /\ last' = [last EXCEPT ![r] = n]
    BY DEF RopeAppend
<1>4. /\ Len(text[r]) + Len(s) <= MaxText /\ first' = first
      /\ text' = [text EXCEPT ![r] = @ \o s] /\ HeldOK'
    BY <1>1, GivenHeld DEF RopeAppend
<1> HIDE DEF s
<1>5. PICK x : x \notin Ropes
    BY NotIn
<1>6. /\ S[r] \in Seq(RopeNodes) /\ Len(S[r]) \in Nat /\ Len(S[r]) >= 1
      /\ last[r] = S[r][Len(S[r])] /\ last[r] \in RopeNodes /\ first[r] = S[r][1]
      /\ text[r] \in Seq(Letter)
    BY <1>1, <1>2, RopeIs
<1>7. PICK one : one = <<n>> /\ one \in Seq({n}) /\ Len(one) = 1 /\ one[1] = n
    <2>1. <<n>> \in Seq({n}) /\ Len(<<n>>) = 1 /\ <<n>>[1] = n
        OBVIOUS
    <2> QED
        BY <2>1
<1> DEFINE M == Put(S, x, <<n>>)
           nx == Put(after, n, NULL)
           R == Joined(M, r, x, r)
<1>8. /\ DOMAIN M = Ropes \cup {x} /\ M[x] = one
      /\ \A q \in Ropes : M[q] = S[q] /\ q # x
    BY <1>2, <1>5, <1>7 DEF Put, RopesAgree
<1>9. Strung(M, nx)
    BY <1>2, <1>3, <1>5, StrungNew DEF RopesAgree, RopeNodes
<1>10. DOMAIN nx = RopeNodes \cup {n} /\ NULL \notin DOMAIN nx
    BY <1>1, HeapAssumption DEF Put, RopeFieldsOK, RopeNodes
<1>11. after' = [nx EXCEPT ![last[r]] = n]
    <2>1. last[r] \in DOMAIN after /\ last[r] # n
        BY <1>6 DEF RopeNodes
    <2> QED
        BY <1>3, <2>1 DEF Put
<1> HIDE DEF M, nx
<1>12. Strung(R, after')
    <2>1. r \in DOMAIN M /\ x \in DOMAIN M /\ r # x /\ r \in {r, x}
        BY <1>5, <1>8
    <2>2. Strung(R, [nx EXCEPT ![M[r][Len(M[r])]] = M[x][1]])
        BY <1>9, <1>10, <2>1, StrungBoth
    <2> HIDE DEF R
    <2>3. M[r][Len(M[r])] = last[r] /\ M[x][1] = n
        BY <1>6, <1>7, <1>8
    <2> QED
        BY <1>11, <2>2, <2>3
<1>13. /\ DOMAIN R = Ropes /\ R[r] = S[r] \o one
       /\ \A q \in Ropes : q # r => R[q] = S[q]
    BY <1>5, <1>8 DEF Joined
<1> HIDE DEF R
<1>14. /\ RopeNodes' = RopeNodes \cup {n} /\ DOMAIN dat' = RopeNodes \cup {n}
       /\ dat'[n] = s /\ \A m \in RopeNodes : dat'[m] = dat[m]
    <2>1. RopeNodes' = RopeNodes \cup {n}
        BY <1>10, <1>11 DEF RopeNodes
    <2> QED
        BY <1>1, <1>3, <2>1 DEF Put, RopeFieldsOK
<1>15. /\ Ropes' = Ropes /\ DOMAIN last' = Ropes /\ DOMAIN text' = Ropes
       /\ last'[r] = n /\ text'[r] = text[r] \o s
       /\ \A q \in Ropes : q # r => last'[q] = last[q] /\ text'[q] = text[q]
    BY <1>1, <1>3, <1>4 DEF RopeFieldsOK, Ropes
<1>16. RopeFieldsOK'
    <2>1. \A m \in RopeNodes \cup {n} : dat'[m] \in Texts
        BY <1>1, <1>14 DEF RopeFieldsOK
    <2>2. text[r] \o s \in Texts
        BY <1>1, <1>4, TextBoth DEF RopeFieldsOK
    <2>3. \A q \in Ropes : text'[q] \in Texts
        BY <1>1, <1>15, <2>2 DEF RopeFieldsOK
    <2>4. RopeNodes \cup {n} \subseteq Node /\ Ropes \subseteq Rope
        BY <1>1 DEF RopeFieldsOK
    <2> QED
        BY <1>4, <1>14, <1>15, <2>1, <2>3, <2>4 DEF RopeFieldsOK
<1>17. \A q \in Ropes : Spells(dat', S[q], text[q])
    <2>1. \A q \in Ropes : \A i \in 1..Len(S[q]) : S[q][i] \in RopeNodes
        BY <1>1, <1>2, RopeIs
    <2> QED
        BY <1>1, <1>2, <1>14, <2>1, StillSpells
<1>18. ASSUME NEW q \in Ropes, q # r
       PROVE  first'[q] = R[q][1] /\ last'[q] = R[q][Len(R[q])] /\ Spells(dat', R[q], text'[q])
    <2>1. first[q] = S[q][1] /\ last[q] = S[q][Len(S[q])]
        BY <1>1, <1>2, RopeIs
    <2> QED
        BY <1>4, <1>13, <1>15, <1>17, <1>18, <2>1
<1>19. first'[r] = R[r][1] /\ last'[r] = R[r][Len(R[r])] /\ Spells(dat', R[r], text'[r])
    <2> DEFINE T == RopeNodes \cup {n}
    <2>1. /\ S[r] \in Seq(T) /\ one \in Seq(T)
          /\ \A m \in T : dat'[m] \in Seq(Letter)
        BY <1>1, <1>6, <1>7, <1>14 DEF RopeFieldsOK, Texts
    <2> HIDE DEF T
    <2>2. R[r][1] = S[r][1] /\ R[r][Len(R[r])] = n
        BY <1>6, <1>7, <1>13, <2>1, EndsBoth
    <2>3. Spells(dat', one, s)
        <3>1. dat'[n] \in Seq(Letter)
            BY <1>1, <1>14 DEF Texts
        <3> QED
            BY <1>7, <1>14, <3>1, SpellsOne
    <2>4. Spells(dat', S[r] \o one, text[r] \o s)
        BY <1>17, <2>1, <2>3, SpellsBoth
    <2> QED
        BY <1>4, <1>6, <1>13, <1>15, <2>2, <2>4
<1>20. RopesAgree(R)'
    BY <1>12, <1>13, <1>15, <1>18, <1>19, AgreesNext
<1> QED
    BY <1>16, <1>20 DEF RopeInv

(* aodbm_rope_prepend: a rope of its own for the node, and r behind it.    *)
LEMMA RopePrependStep ==
    ASSUME RopeInv, NEW r \in Ropes, NEW d \in DOMAIN held, NEW di, RopePrepend(d, r, di)
    PROVE  RopeInv'
<1> DEFINE s == held[d]
<1>1. RopeFieldsOK /\ HeldOK /\ s \in Texts
    BY DEF RopeInv, RopeFieldsOK, HeldOK
<1>2. PICK S : RopesAgree(S)
    BY DEF RopeInv
<1>3. PICK n \in Node : /\ n \notin RopeNodes /\ dat' = Put(dat, n, s)
                        /\ after' = Put(after, n, first[r])
                        /\ first' = [first EXCEPT ![r] = n]
    BY DEF RopePrepend, NewNode
<1>4. /\ Len(text[r]) + Len(s) <= MaxText /\ last' = last
      /\ text' = [text EXCEPT ![r] = s \o @] /\ HeldOK'
    BY <1>1, GivenHeld DEF RopePrepend
<1> HIDE DEF s
<1>5. PICK x : x \notin Ropes
    BY NotIn
<1>6. /\ S[r] \in Seq(RopeNodes) /\ Len(S[r]) \in Nat /\ Len(S[r]) >= 1
      /\ first[r] = S[r][1] /\ first[r] \in RopeNodes /\ last[r] = S[r][Len(S[r])]
      /\ text[r] \in Seq(Letter)
    BY <1>1, <1>2, RopeIs
<1>7. PICK one : one = <<n>> /\ one \in Seq({n}) /\ Len(one) = 1 /\ one[1] = n
    <2>1. <<n>> \in Seq({n}) /\ Len(<<n>>) = 1 /\ <<n>>[1] = n
        OBVIOUS
    <2> QED
        BY <2>1
<1> DEFINE M == Put(S, x, <<n>>)
           nx == Put(after, n, NULL)
           R == Joined(M, x, r, r)
<1>8. /\ DOMAIN M = Ropes \cup {x} /\ M[x] = one
      /\ \A q \in Ropes : M[q] = S[q] /\ q # x
    BY <1>2, <1>5, <1>7 DEF Put, RopesAgree
<1>9. Strung(M, nx)
    BY <1>2, <1>3, <1>5, StrungNew DEF RopesAgree, RopeNodes
<1>10. DOMAIN nx = RopeNodes \cup {n} /\ NULL \notin DOMAIN nx
    BY <1>1, HeapAssumption DEF Put, RopeFieldsOK, RopeNodes
<1>11. after' = [nx EXCEPT ![n] = first[r]]
    BY <1>3 DEF Put
<1> HIDE DEF M, nx
<1>12. Strung(R, after')
    <2>1. r \in DOMAIN M /\ x \in DOMAIN M /\ r # x /\ r \in {x, r}
        BY <1>5, <1>8
    <2>2. Strung(R, [nx EXCEPT ![M[x][Len(M[x])]] = M[r][1]])
        BY <1>9, <1>10, <2>1, StrungBoth
    <2> HIDE DEF R
    <2>3. M[x][Len(M[x])] = n /\ M[r][1] = first[r]
        BY <1>6, <1>7, <1>8
    <2> QED
        BY <1>11, <2>2, <2>3
<1>13. /\ DOMAIN R = Ropes /\ R[r] = one \o S[r]
       /\ \A q \in Ropes : q # r => R[q] = S[q]
    BY <1>5, <1>8 DEF Joined
<1> HIDE DEF R
<1>14. /\ RopeNodes' = RopeNodes \cup {n} /\ DOMAIN dat' = RopeNodes \cup {n}
       /\ dat'[n] = s /\ \A m \in RopeNodes : dat'[m] = dat[m]
    <2>1. RopeNodes' = RopeNodes \cup {n}
        BY <1>10, <1>11 DEF RopeNodes
    <2> QED
        BY <1>1, <1>3, <2>1 DEF Put, RopeFieldsOK
<1>15. /\ Ropes' = Ropes /\ DOMAIN last' = Ropes /\ DOMAIN text' = Ropes
       /\ first'[r] = n /\ text'[r] = s \o text[r]
       /\ \A q \in Ropes : q # r => first'[q] = first[q] /\ text'[q] = text[q]
    BY <1>1, <1>3, <1>4 DEF RopeFieldsOK, Ropes
<1>16. RopeFieldsOK'
    <2>1. \A m \in RopeNodes \cup {n} : dat'[m] \in Texts
        BY <1>1, <1>14 DEF RopeFieldsOK
    <2>2. s \o text[r] \in Texts
        BY <1>1, <1>4, TextBoth DEF RopeFieldsOK
    <2>3. \A q \in Ropes : text'[q] \in Texts
        BY <1>1, <1>15, <2>2 DEF RopeFieldsOK
    <2>4. RopeNodes \cup {n} \subseteq Node /\ Ropes \subseteq Rope
        BY <1>1 DEF RopeFieldsOK
    <2> QED
        BY <1>4, <1>14, <1>15, <2>1, <2>3, <2>4 DEF RopeFieldsOK
<1>17. \A q \in Ropes : Spells(dat', S[q], text[q])
    <2>1. \A q \in Ropes : \A i \in 1..Len(S[q]) : S[q][i] \in RopeNodes
        BY <1>1, <1>2, RopeIs
    <2> QED
        BY <1>1, <1>2, <1>14, <2>1, StillSpells
<1>18. ASSUME NEW q \in Ropes, q # r
       PROVE  first'[q] = R[q][1] /\ last'[q] = R[q][Len(R[q])] /\ Spells(dat', R[q], text'[q])
    <2>1. first[q] = S[q][1] /\ last[q] = S[q][Len(S[q])]
        BY <1>1, <1>2, RopeIs
    <2> QED
        BY <1>4, <1>13, <1>15, <1>17, <1>18, <2>1
<1>19. first'[r] = R[r][1] /\ last'[r] = R[r][Len(R[r])] /\ Spells(dat', R[r], text'[r])
    <2> DEFINE T == RopeNodes \cup {n}
    <2>1. /\ S[r] \in Seq(T) /\ one \in Seq(T)
          /\ \A m \in T : dat'[m] \in Seq(Letter)
        BY <1>1, <1>6, <1>7, <1>14 DEF RopeFieldsOK, Texts
    <2> HIDE DEF T
    <2>2. R[r][1] = n /\ R[r][Len(R[r])] = S[r][Len(S[r])]
        BY <1>6, <1>7, <1>13, <2>1, EndsBoth
    <2>3. Spells(dat', one, s)
        <3>1. dat'[n] \in Seq(Letter)
            BY <1>1, <1>14 DEF Texts
        <3> QED
            BY <1>7, <1>14, <3>1, SpellsOne
    <2>4. Spells(dat', one \o S[r], s \o text[r])
        BY <1>17, <2>1, <2>3, SpellsBoth
    <2> QED
        BY <1>4, <1>6, <1>13, <1>15, <2>2, <2>4
<1>20. RopesAgree(R)'
    BY <1>12, <1>13, <1>15, <1>18, <1>19, AgreesNext
<1> QED
    BY <1>16, <1>20 DEF RopeInv

(* aodbm_rope_merge_di: the nodes of b behind those of a.                  *)
LEMMA RopeMergeStep ==
    ASSUME RopeInv, NEW a \in Ropes, NEW b \in Ropes, RopeMerge(a, b)
    PROVE  RopeInv'
<1>1. RopeFieldsOK
    BY DEF RopeInv
<1>2. PICK S : RopesAgree(S)
    BY DEF RopeInv
<1>3. /\ a # b /\ Len(text[a]) + Len(text[b]) <= MaxText
      /\ after' = [after EXCEPT ![last[a]] = first[b]]
      /\ first' = Drop(first, b) /\ last' = Drop([last EXCEPT ![a] = last[b]], b)
      /\ text' = Drop([text EXCEPT ![a] = @ \o text[b]], b)
      /\ dat' = dat /\ held' = held
    BY DEF RopeMerge
<1> DEFINE R == Joined(S, a, b, a)
           K == Ropes \ {b}
<1>4. \A q \in Ropes :
          /\ S[q] \in Seq(RopeNodes) /\ Len(S[q]) >= 1
          /\ first[q] = S[q][1] /\ last[q] = S[q][Len(S[q])] /\ Spells(dat, S[q], text[q])
    BY <1>1, <1>2, RopeIs
<1>5. Strung(R, after')
    <2>1. DOMAIN S = Ropes /\ Strung(S, after) /\ NULL \notin DOMAIN after
        BY <1>1, <1>2, HeapAssumption DEF RopesAgree, RopeFieldsOK, RopeNodes
    <2>2. a \in {a, b} /\ a \in DOMAIN S /\ b \in DOMAIN S
        BY <2>1
    <2>3. Strung(R, [after EXCEPT ![S[a][Len(S[a])]] = S[b][1]])
        BY <1>3, <2>1, <2>2, StrungBoth
    <2> HIDE DEF R
    <2> QED
        BY <1>3, <1>4, <2>3
<1>6. /\ DOMAIN R = K /\ R[a] = S[a] \o S[b]
      /\ \A q \in K : q # a => R[q] = S[q]
    BY <1>2, <1>3 DEF Joined, RopesAgree
<1> HIDE DEF R
<1>7. RopeNodes' = RopeNodes
    BY <1>3 DEF RopeNodes
<1>8. Ropes' = K /\ first'[a] = first[a] /\ \A q \in K : first'[q] = first[q]
    BY <1>3 DEF Drop, Ropes
<1>9. /\ DOMAIN last' = K /\ last'[a] = last[b]
      /\ \A q \in K : q # a => last'[q] = last[q]
    BY <1>1, <1>3 DEF Drop, RopeFieldsOK
<1>10. /\ DOMAIN text' = K /\ text'[a] = text[a] \o text[b]
       /\ \A q \in K : q # a => text'[q] = text[q]
    BY <1>1, <1>3 DEF Drop, RopeFieldsOK
<1>11. RopeFieldsOK'
    <2>1. text[a] \o text[b] \in Texts
        BY <1>1, <1>3, TextBoth DEF RopeFieldsOK
    <2>2. \A q \in K : text'[q] \in Texts
        BY <1>1, <1>10, <2>1 DEF RopeFieldsOK
    <2>3. HeldOK'
        BY <1>1, <1>3 DEF RopeFieldsOK, HeldOK
    <2>4. \A m \in RopeNodes : dat'[m] \in Texts
        BY <1>1, <1>3 DEF RopeFieldsOK
    <2>5. RopeNodes \subseteq Node /\ K \subseteq Rope /\ DOMAIN dat' = RopeNodes
        BY <1>1, <1>3 DEF RopeFieldsOK
    <2> QED
        BY <1>7, <1>8, <1>9, <1>10, <2>2, <2>3, <2>4, <2>5 DEF RopeFieldsOK
<1>12. ASSUME NEW q \in K, q # a
       PROVE  first'[q] = R[q][1] /\ last'[q] = R[q][Len(R[q])] /\ Spells(dat', R[q], text'[q])
    BY <1>3, <1>4, <1>6, <1>8, <1>9, <1>10, <1>12
<1>13. first'[a] = R[a][1] /\ last'[a] = R[a][Len(R[a])] /\ Spells(dat', R[a], text'[a])
    <2>1. \A m \in RopeNodes : dat[m] \in Seq(Letter)
        BY <1>1 DEF RopeFieldsOK, Texts
    <2>2. R[a][1] = S[a][1] /\ R[a][Len(R[a])] = S[b][Len(S[b])]
        <3>1. PICK u, v : u = S[a] /\ v = S[b]
            OBVIOUS
        <3>2. u \in Seq(RopeNodes) /\ v \in Seq(RopeNodes) /\ Len(u) >= 1 /\ Len(v) >= 1
            BY <1>4, <3>1
        <3>3. (u \o v)[1] = u[1] /\ (u \o v)[Len(u \o v)] = v[Len(v)]
            BY <3>2, EndsBoth
        <3> QED
            BY <1>6, <3>1, <3>3
    <2>3. Spells(dat, S[a] \o S[b], text[a] \o text[b])
        BY <1>4, <2>1, SpellsBoth
    <2> QED
        BY <1>3, <1>4, <1>6, <1>8, <1>9, <1>10, <2>2, <2>3
<1>14. RopesAgree(R)'
    BY <1>5, <1>6, <1>8, <1>12, <1>13, AgreesNext
<1> QED
    BY <1>11, <1>14 DEF RopeInv

(* aodbm_free_rope: its nodes are no longer on any.                        *)
LEMMA FreedStep ==
    ASSUME RopeInv, NEW r \in Ropes, Freed(r), HeldOK'
    PROVE  RopeInv'
<1>1. RopeFieldsOK
    BY DEF RopeInv
<1>2. PICK S : RopesAgree(S)
    BY DEF RopeInv
<1> DEFINE R == Drop(S, r)
           K == Ropes \ {r}
           E == RopeNodes \ ToSet(S[r])
<1>3. /\ dat' = [n \in E |-> dat[n]] /\ after' = [n \in E |-> after[n]]
      /\ first' = Drop(first, r) /\ last' = Drop(last, r) /\ text' = Drop(text, r)
    <2>1. NodesOf(r) = S[r]
        BY <1>1, <1>2, NodesOfIs
    <2> QED
        BY <2>1 DEF Freed
<1>4. Strung(R, after')
    <2>1. DOMAIN S = Ropes /\ Strung(S, after)
        BY <1>2 DEF RopesAgree
    <2>2. Strung(R, [n \in DOMAIN after \ ToSet(S[r]) |-> after[n]])
        BY <2>1, StrungFreed
    <2> QED
        BY <1>3, <2>2 DEF RopeNodes
<1>5. DOMAIN R = K /\ \A q \in K : R[q] = S[q]
    BY <1>2 DEF Drop, RopesAgree
<1> HIDE DEF R
<1>6. RopeNodes' = E /\ DOMAIN dat' = E /\ \A n \in E : dat'[n] = dat[n] /\ n \in RopeNodes
    BY <1>3 DEF RopeNodes
<1> HIDE DEF E
<1>7. /\ Ropes' = K /\ DOMAIN last' = K /\ DOMAIN text' = K
      /\ \A q \in K : first'[q] = first[q] /\ last'[q] = last[q] /\ text'[q] = text[q]
    BY <1>1, <1>3 DEF Drop, RopeFieldsOK, Ropes
<1>8. RopeFieldsOK'
    <2>1. \A m \in E : dat'[m] \in Texts
        BY <1>1, <1>6 DEF RopeFieldsOK
    <2>2. \A q \in K : text'[q] \in Texts
        BY <1>1, <1>7 DEF RopeFieldsOK
    <2>3. E \subseteq Node /\ K \subseteq Rope
        BY <1>1, <1>6 DEF RopeFieldsOK
    <2> QED
        BY <1>6, <1>7, <2>1, <2>2, <2>3 DEF RopeFieldsOK
<1>9. ASSUME NEW q \in K
      PROVE  first'[q] = R[q][1] /\ last'[q] = R[q][Len(R[q])] /\ Spells(dat', R[q], text'[q])
    <2>1. first[q] = S[q][1] /\ last[q] = S[q][Len(S[q])]
        BY <1>1, <1>2, RopeIs
    <2>2. \A i \in 1..Len(S[q]) : S[q][i] \in E
        <3>1. R[q] \in Seq(DOMAIN after')
            BY <1>4, <1>5 DEF Strung
        <3> QED
            BY <1>5, <1>6, <3>1 DEF RopeNodes
    <2>3. Spells(dat', S[q], text[q])
        BY <1>1, <1>2, <1>6, <2>2, StillSpells
    <2> QED
        BY <1>5, <1>7, <2>1, <2>3
<1>10. RopesAgree(R)'
    BY <1>4, <1>5, <1>7, <1>9, AgreesNext
<1> QED
    BY <1>8, <1>10 DEF RopeInv

(* The caller's objects when one more is made.                             *)
LEMMA PutHeld ==
    ASSUME HeldOK, NEW d \in Datum, NEW s \in Texts, held' = Put(held, d, s)
    PROVE  HeldOK'
BY DEF HeldOK, Put

(* Each step keeps the invariant.                                          *)
LEMMA RopeStep == RopeInv /\ [RopeNext]_ropeVars => RopeInv'
<1> SUFFICES ASSUME RopeInv, [RopeNext]_ropeVars
             PROVE  RopeInv'
    OBVIOUS
<1>1. HeldOK /\ RopeFieldsOK
    BY DEF RopeInv, RopeFieldsOK
<1>2. \A r \in Ropes : RopeString(r) \in Texts
    <2>1. \A r \in Ropes : RopeString(r) = text[r]
        BY InvText DEF RopeIsItsText
    <2> QED
        BY <1>1, <2>1 DEF RopeFieldsOK
<1>3. ASSUME NEW d \in Datum, NEW c \in Letter, NewData(d, <<c>>)
      PROVE  RopeInv'
    <2>1. <<c>> \in Texts
        <3>1. <<c>> \in Seq(Letter) /\ Len(<<c>>) = 1 /\ 1 <= MaxText
            BY RopeAssumption
        <3> QED
            BY <3>1 DEF Texts
    <2>2. held' = Put(held, d, <<c>>) /\ UNCHANGED <<dat, after, first, last, text>>
        BY <1>3 DEF NewData
    <2>3. HeldOK'
        BY <1>1, <2>1, <2>2, PutHeld
    <2> QED
        BY <2>2, <2>3, RopesSame
<1>4. ASSUME NEW d \in DOMAIN held, FreeData(d)
      PROVE  RopeInv'
    <2>1. HeldOK'
        BY <1>1, <1>4 DEF FreeData, HeldOK, Drop
    <2> QED
        BY <1>4, <2>1, RopesSame DEF FreeData
<1>5. ASSUME NEW r \in Rope, RopeEmpty(r)
      PROVE  RopeInv'
    <2>1. << >> \in Texts
        BY RopeAssumption DEF Texts
    <2>2. HeldOK' /\ ToRope(r, << >>)
        BY <1>1, <1>5 DEF RopeEmpty, HeldOK
    <2> QED
        BY <2>1, <2>2, ToRopeStep
<1>6. ASSUME NEW r \in Rope, NEW d \in DOMAIN held, NEW di \in BOOLEAN, DataToRope(r, d, di)
      PROVE  RopeInv'
    <2>1. held[d] \in Texts
        BY <1>1 DEF HeldOK
    <2>2. HeldOK' /\ ToRope(r, held[d])
        BY <1>1, <1>6, GivenHeld DEF DataToRope
    <2> QED
        BY <2>1, <2>2, ToRopeStep
<1>7. ASSUME NEW r \in Ropes, NEW d \in DOMAIN held, NEW di \in BOOLEAN,
             RopeAppend(r, d, di) \/ RopePrepend(d, r, di)
      PROVE  RopeInv'
    BY <1>7, RopeAppendStep, RopePrependStep
<1>8. ASSUME NEW r \in Ropes, NEW b \in Ropes, RopeMerge(r, b)
      PROVE  RopeInv'
    BY <1>8, RopeMergeStep
<1>9. ASSUME NEW r \in Ropes, NEW d \in Datum, ToData(r, d)
      PROVE  RopeInv'
    <2>1. HeldOK'
        BY <1>1, <1>2, <1>9, PutHeld DEF ToData
    <2> QED
        BY <1>9, <2>1, RopesSame DEF ToData
<1>10. ASSUME NEW r \in Ropes, NEW d \in Datum, ToDataDi(r, d)
       PROVE  RopeInv'
    <2>1. HeldOK'
        BY <1>1, <1>2, <1>10, PutHeld DEF ToDataDi
    <2> QED
        BY <1>10, <2>1, FreedStep DEF ToDataDi
<1>11. ASSUME NEW r \in Ropes, FreeRope(r)
       PROVE  RopeInv'
    <2>1. HeldOK'
        BY <1>1, <1>11 DEF FreeRope, HeldOK
    <2> QED
        BY <1>11, <2>1, FreedStep DEF FreeRope
<1>12. CASE UNCHANGED ropeVars
    <2>1. UNCHANGED <<dat, after, first, last, text>> /\ HeldOK'
        BY <1>1, <1>12 DEF ropeVars, HeldOK
    <2> QED
        BY <2>1, RopesSame
<1> QED
    BY <1>3, <1>4, <1>5, <1>6, <1>7, <1>8, <1>9, <1>10, <1>11, <1>12 DEF RopeNext

(* There are no ropes at first.                                            *)
LEMMA RopeStart == RopeInit => RopeInv
<1> SUFFICES ASSUME RopeInit
             PROVE  RopeInv
    OBVIOUS
<1>1. /\ dat = << >> /\ after = << >> /\ first = << >> /\ last = << >>
      /\ held = << >> /\ text = << >> /\ DOMAIN << >> = {}
    BY DEF RopeInit
<1>2. RopeFieldsOK
    BY <1>1 DEF RopeFieldsOK, HeldOK, RopeNodes, Ropes
<1>3. RopesAgree(<< >>)
    BY <1>1 DEF RopesAgree, Strung, RopeEndsAgree, Ropes
<1> QED
    BY <1>2, <1>3 DEF RopeInv

(* Whatever the caller does with ropes (src/aodbm_rope.c), each has its    *)
(* nodes to itself, linked in order up to last, and they spell its string. *)
THEOREM RopeInvInvariant == RopeSpec => []RopeInv
<1>1. RopeInit => RopeInv
    BY RopeStart
<1>2. RopeInv /\ [RopeNext]_ropeVars => RopeInv'
    BY RopeStep
<1> QED
    BY <1>1, <1>2, PTL DEF RopeSpec

(* A chain never leads to a freed node and ends at last, and each node is  *)
(* freed with one rope, once (aodbm_free_rope).                            *)
THEOREM ChainsRight == RopeSpec => []ChainsSound
<1>1. RopeInv => ChainsSound
    BY InvChains
<1> QED
    BY <1>1, RopeInvInvariant, PTL

(* aodbm_rope_to_data gives the string the rope was put together to be,    *)
(* and aodbm_rope_size its length.                                         *)
THEOREM RopeRight == RopeSpec => []RopeIsItsText
<1>1. RopeInv => RopeIsItsText
    BY InvText
<1> QED
    BY <1>1, RopeInvInvariant, PTL
=============================================================================
