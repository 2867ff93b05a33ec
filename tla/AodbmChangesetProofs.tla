-------------------------- MODULE AodbmChangesetProofs --------------------------
(***************************************************************************)
(* aodbm_apply gives the sum of the changes, for any threads, changesets,  *)
(* keys and values, whatever other threads apply meanwhile.                *)
(*                                                                         *)
(* The invariant says, for every call, which map its version is: that of   *)
(* the version it began from with the changes it has come past.            *)
(*                                                                         *)
(* The second half is about the tables of aodbm_hash: what is in one is    *)
(* found, for any hash function, values and sizes.                         *)
(***************************************************************************)
EXTENDS AodbmChangeset, AodbmHash, FiniteSetTheorems, SequenceTheorems, WellFoundedInduction,
        TLAPS

ChangeType  == [key : Key, val : Value \cup {NULL}]
MapType     == [Key -> Value \cup {NULL}]
Effect      == [Key -> Value \cup {NULL, "same"}]
VersionType == [prev : Nat, map : MapType]

(* e is what the first n changes of s come to: for each key the last of     *)
(* them.                                                                   *)
SumUpTo(s, n, e) ==
    \A k \in Key :
        \/ e[k] = "same" /\ \A i \in 1..n : s[i].key # k
        \/ \E i \in 1..n : /\ s[i].key = k /\ e[k] = s[i].val
                           /\ \A j \in 1..n : j > i => s[j].key # k

(* The versions from v down to w.                                          *)
Linked(vs, v, w) ==
    \E S \in SUBSET Nat :
        /\ v \in S
        /\ \A x \in S : x = w \/ (x > w /\ x <= Len(vs) /\ vs[x].prev \in S)

(* versions only refer back. *)
VersionsOK(vs) ==
    vs \in Seq(VersionType) /\ \A x \in 1..Len(vs) : vs[x].prev < x

MapIn(vs, v) == IF v = 0 THEN [k \in Key |-> NULL] ELSE vs[v].map

CallType == [set : Changeset, di : BOOLEAN, at : Nat, start : Nat, ver : Nat]

(* A call has come to the map it began from with the changes it is past.   *)
CallOK(c, vs, l) ==
    /\ c \in CallType /\ c.set \in DOMAIN l
    /\ c.at \in 1..Len(l[c.set])+1 /\ c.start \in 0..Len(vs) /\ c.ver \in 0..Len(vs)
    /\ Linked(vs, c.ver, c.start)
    /\ \E e \in Effect : /\ SumUpTo(l[c.set], c.at-1, e)
                         /\ MapIn(vs, c.ver) = Overlay(MapIn(vs, c.start), e)

SetsOK ==
    /\ Sets \subseteq Changeset /\ DOMAIN effect = Sets
    /\ \A c \in Sets : /\ list[c] \in Seq(ChangeType) /\ effect[c] \in Effect
                       /\ SumUpTo(list[c], Len(list[c]), effect[c])

CallsOK ==
    /\ DOMAIN call = Thread
    /\ \A t \in Thread : call[t] # NoCall => CallOK(call[t], versions, list)
    /\ \A t, u \in Thread : t # u /\ call[t] # NoCall /\ call[u].set = call[t].set
                              => ~call[t].di

ApplyInv == VersionsOK(versions) /\ SetsOK /\ CallsOK

-----------------------------------------------------------------------------
(* A set of naturals that is not empty has a least one.                    *)
LEMMA LeastNat ==
    ASSUME NEW S, S \subseteq Nat, S # {}
    PROVE  \E m \in S : \A n \in S : m <= n
<1>1. PICK m \in S : \A n \in S : <<n, m>> \notin OpToRel(<, Nat)
    BY WFMin, NatLessThanWellFounded, Zenon
<1>2. \A n \in S : ~(n < m)
    BY <1>1, Zenon DEF OpToRel
<1>3. \A n \in S : n \in Nat /\ m \in Nat
    OBVIOUS
<1> QED
    BY <1>2, <1>3

-----------------------------------------------------------------------------
(* What changes come to.                                                   *)

(* No change leaves everything as it is.                                   *)
LEMMA SumOfNone ==
    ASSUME NEW s
    PROVE  /\ [k \in Key |-> "same"] \in Effect
           /\ SumUpTo(s, 0, [k \in Key |-> "same"])
    BY DEF Effect, SumUpTo

(* One more change decides on its key.                                     *)
LEMMA SumOfOneMore ==
    ASSUME NEW s, NEW n \in Nat, NEW e \in Effect, SumUpTo(s, n, e), s[n+1] \in ChangeType
    PROVE  LET g == [e EXCEPT ![s[n+1].key] = s[n+1].val]
           IN  g \in Effect /\ SumUpTo(s, n+1, g)
<1> DEFINE c == s[n+1]
           g == [e EXCEPT ![c.key] = c.val]
<1>1. c.key \in Key /\ c.val \in Value \cup {NULL}
    BY DEF ChangeType
<1>2. g \in Effect
    BY <1>1 DEF Effect
<1>3. ASSUME NEW k \in Key
      PROVE  \/ g[k] = "same" /\ \A i \in 1..n+1 : s[i].key # k
             \/ \E i \in 1..n+1 : /\ s[i].key = k /\ g[k] = s[i].val
                                  /\ \A j \in 1..n+1 : j > i => s[j].key # k
    <2>1. CASE k = c.key
        <3>1. n+1 \in 1..n+1 /\ \A j \in 1..n+1 : ~(j > n+1)
            OBVIOUS
        <3>2. g[k] = c.val
            BY <1>1, <2>1 DEF Effect
        <3> QED
            BY <2>1, <3>1, <3>2
    <2>2. CASE k # c.key
        <3>1. g[k] = e[k]
            BY <2>2 DEF Effect
        <3>2. \A i \in 1..n+1 : i \in 1..n \/ i = n+1
            OBVIOUS
        <3>3. \A i \in 1..n : i \in 1..n+1
            OBVIOUS
        <3>4. CASE e[k] = "same" /\ \A i \in 1..n : s[i].key # k
            BY <2>2, <3>1, <3>2, <3>4
        <3>5. CASE \E i \in 1..n : /\ s[i].key = k /\ e[k] = s[i].val
                                   /\ \A j \in 1..n : j > i => s[j].key # k
            BY <2>2, <3>1, <3>2, <3>3, <3>5
        <3> QED
            BY <3>4, <3>5 DEF SumUpTo
    <2> QED
        BY <2>1, <2>2
<1>4. SumUpTo(s, n+1, g)
    BY <1>3 DEF SumUpTo
<1> QED
    BY <1>2, <1>4

(* Only the changes up to n matter.                                        *)
LEMMA SumOfSame ==
    ASSUME NEW s, NEW t, NEW n, NEW e, SumUpTo(s, n, e), \A i \in 1..n : t[i] = s[i]
    PROVE  SumUpTo(t, n, e)
    BY DEF SumUpTo

(* Changes come to one thing only.                                         *)
LEMMA SumIsOne ==
    ASSUME NEW s, NEW n \in Nat, NEW e \in Effect, NEW g \in Effect,
           SumUpTo(s, n, e), SumUpTo(s, n, g)
    PROVE  e = g
<1>1. ASSUME NEW k \in Key
      PROVE  e[k] = g[k]
    <2>1. CASE \A i \in 1..n : s[i].key # k
        BY <2>1 DEF SumUpTo
    <2>2. CASE \E i \in 1..n : s[i].key = k
        <3>1. PICK i \in 1..n : /\ s[i].key = k /\ e[k] = s[i].val
                                /\ \A j \in 1..n : j > i => s[j].key # k
            BY <2>2 DEF SumUpTo
        <3>2. PICK j \in 1..n : /\ s[j].key = k /\ g[k] = s[j].val
                                /\ \A m \in 1..n : m > j => s[m].key # k
            BY <2>2 DEF SumUpTo
        <3>3. i = j
            <4>1. ~(j > i) /\ ~(i > j)
                BY <3>1, <3>2
            <4> QED
                BY <4>1
        <3> QED
            BY <3>1, <3>2, <3>3
    <2> QED
        BY <2>1, <2>2
<1> QED
    BY <1>1 DEF Effect

(* Two lists of changes, one behind the other.                             *)
LEMMA SumOfBoth ==
    ASSUME NEW s \in Seq(ChangeType), NEW t \in Seq(ChangeType), NEW e \in Effect, NEW g \in Effect,
           SumUpTo(s, Len(s), e), SumUpTo(t, Len(t), g)
    PROVE  /\ Overlay(e, g) \in Effect
           /\ SumUpTo(s \o t, Len(s \o t), Overlay(e, g))
<1> DEFINE m == Len(s)
           n == Len(t)
           b == s \o t
           h == Overlay(e, g)
<1>1. m \in Nat /\ n \in Nat /\ Len(b) = m+n
    OBVIOUS
<1>2. /\ \A i \in 1..m : b[i] = s[i]
      /\ \A i \in 1..n : b[m+i] = t[i]
    OBVIOUS
<1>3. h \in Effect /\ \A k \in Key : h[k] = IF g[k] = "same" THEN e[k] ELSE g[k]
    BY DEF Overlay, Effect
<1>4. \A i \in 1..n : t[i].val # "same"
    <2>1. \A i \in 1..n : t[i] \in ChangeType
        OBVIOUS
    <2>2. \A c \in ChangeType : c.val # "same"
        BY ChangesetAssumption DEF ChangeType
    <2> QED
        BY <2>1, <2>2
<1>0. SumUpTo(s, m, e) /\ SumUpTo(t, n, g)
    OBVIOUS
<1> HIDE DEF b, h, m, n
<1>5. \A i \in 1..m+n : i \in 1..m \/ (i-m \in 1..n /\ i = m+(i-m) /\ i > m)
    BY <1>1
<1>6. ASSUME NEW k \in Key
      PROVE  \/ h[k] = "same" /\ \A i \in 1..m+n : b[i].key # k
             \/ \E i \in 1..m+n : /\ b[i].key = k /\ h[k] = b[i].val
                                  /\ \A j \in 1..m+n : j > i => b[j].key # k
    <2>1. CASE g[k] = "same"
        <3>1. \A i \in 1..n : t[i].key # k
            BY <1>0, <1>4, <2>1 DEF SumUpTo
        <3>2. \A i \in 1..m+n : i \notin 1..m => b[i].key # k
            BY <1>2, <1>5, <3>1
        <3>3. h[k] = e[k]
            BY <1>3, <2>1
        <3>4. \A i \in 1..m : i \in 1..m+n
            BY <1>1
        <3>5. CASE e[k] = "same" /\ \A i \in 1..m : s[i].key # k
            BY <1>2, <3>2, <3>3, <3>5
        <3>6. CASE \E i \in 1..m : /\ s[i].key = k /\ e[k] = s[i].val
                                   /\ \A j \in 1..m : j > i => s[j].key # k
            BY <1>2, <3>2, <3>3, <3>4, <3>6
        <3> QED
            BY <1>0, <3>5, <3>6 DEF SumUpTo
    <2>2. CASE g[k] # "same"
        <3>1. PICK i \in 1..n : /\ t[i].key = k /\ g[k] = t[i].val
                                /\ \A j \in 1..n : j > i => t[j].key # k
            BY <1>0, <2>2 DEF SumUpTo
        <3>2. h[k] = t[i].val
            BY <1>3, <2>2, <3>1
        <3>3. m+i \in 1..m+n /\ b[m+i] = t[i]
            BY <1>1, <1>2
        <3>4. \A j \in 1..m+n : j > m+i => j-m \in 1..n /\ j = m+(j-m) /\ j-m > i
            BY <1>1
        <3>5. \A j \in 1..m+n : j > m+i => b[j].key # k
            BY <1>2, <3>1, <3>4
        <3> QED
            BY <3>1, <3>2, <3>3, <3>5
    <2> QED
        BY <2>1, <2>2
<1>7. SumUpTo(b, m+n, h)
    BY <1>6 DEF SumUpTo
<1> QED
    BY <1>1, <1>3, <1>7 DEF b, h

Changed(f, k, v) == [f EXCEPT ![k] = v]

(* One more change on top of a map.                                        *)
LEMMA OverlayOneMore ==
    ASSUME NEW m, NEW e \in Effect, NEW k \in Key, NEW v \in Value \cup {NULL}
    PROVE  Overlay(m, Changed(e, k, v)) = Changed(Overlay(m, e), k, v)
<1>1. v # "same"
    BY ChangesetAssumption
<1>2. DOMAIN e = Key
    BY DEF Effect
<1> DEFINE g == [e EXCEPT ![k] = v]
<1>3. \A x \in Key : g[x] = IF x = k THEN v ELSE e[x]
    BY <1>2
<1> HIDE DEF g
<1>4. Overlay(m, g) = [Overlay(m, e) EXCEPT ![k] = v]
    BY <1>1, <1>3 DEF Overlay
<1> QED
    BY <1>4 DEF g, Changed

(* No change on top of a map.                                              *)
LEMMA OverlayOfNone ==
    ASSUME NEW m \in MapType
    PROVE  Overlay(m, [k \in Key |-> "same"]) = m
    BY DEF Overlay, MapType

-----------------------------------------------------------------------------
(* Versions.                                                               *)

(* A version has a map.                                                    *)
LEMMA MapInType ==
    ASSUME NEW vs, VersionsOK(vs), NEW v \in 0..Len(vs)
    PROVE  MapIn(vs, v) \in MapType
<1>1. CASE v = 0
    BY <1>1 DEF MapIn, MapType
<1>2. CASE v # 0
    <2>1. v \in 1..Len(vs) /\ vs \in Seq(VersionType)
        BY <1>2 DEF VersionsOK
    <2>2. vs[v] \in VersionType
        BY <2>1
    <2> QED
        BY <1>2, <2>2 DEF MapIn, VersionType
<1> QED
    BY <1>1, <1>2

(* vs with more versions behind it.                                        *)
Extends(vs, vt) ==
    Len(vs) <= Len(vt) /\ \A x \in 1..Len(vs) : vt[x] = vs[x]

(* A version is based on itself.                                           *)
LEMMA LinkedSelf ==
    ASSUME NEW vs, NEW v \in Nat
    PROVE  Linked(vs, v, v)
<1>1. {v} \in SUBSET Nat /\ v \in {v}
    OBVIOUS
<1>2. \A x \in {v} : x = v
    OBVIOUS
<1> QED
    BY <1>1, <1>2 DEF Linked

(* Versions that are made leave the ones there are as they were.           *)
LEMMA LinkedStays ==
    ASSUME NEW vs, NEW vt, Len(vs) \in Nat, Len(vt) \in Nat, Extends(vs, vt),
           NEW v \in Nat, NEW w \in Nat, Linked(vs, v, w)
    PROVE  Linked(vt, v, w)
<1>1. PICK S \in SUBSET Nat :
          /\ v \in S
          /\ \A x \in S : x = w \/ (x > w /\ x <= Len(vs) /\ vs[x].prev \in S)
    BY DEF Linked
<1>2. ASSUME NEW x \in S, x # w
      PROVE  x > w /\ x <= Len(vt) /\ vt[x].prev \in S
    <2>1. x \in Nat /\ x > w /\ x <= Len(vs) /\ vs[x].prev \in S
        BY <1>1, <1>2
    <2>2. x \in 1..Len(vs)
        BY <2>1
    <2> QED
        BY <2>1, <2>2 DEF Extends
<1> QED
    BY <1>1, <1>2 DEF Linked

(* A version made from one that is based on w is based on w.               *)
LEMMA LinkedOneMore ==
    ASSUME NEW vs, VersionsOK(vs), NEW v \in 0..Len(vs), NEW w \in 0..Len(vs), Linked(vs, v, w),
           NEW r \in VersionType, r.prev = v
    PROVE  LET vt == Append(vs, r)
           IN  /\ VersionsOK(vt) /\ Extends(vs, vt) /\ Len(vt) = Len(vs)+1
               /\ vt[Len(vs)+1] = r
               /\ Linked(vt, Len(vs)+1, w)
<1> DEFINE vt == Append(vs, r)
           n == Len(vs)
<1>1. vs \in Seq(VersionType) /\ \A x \in 1..n : vs[x].prev < x
    BY DEF VersionsOK
<1>2. /\ vt \in Seq(VersionType) /\ n \in Nat /\ Len(vt) = n+1
      /\ \A x \in 1..n : vt[x] = vs[x]
    BY <1>1
<1>3. vt[n+1] = r
    BY <1>1
<1> HIDE DEF vt
<1>4. VersionsOK(vt)
    <2>1. ASSUME NEW x \in 1..n+1
          PROVE  vt[x].prev < x
        <3>1. CASE x \in 1..n
            BY <1>1, <1>2, <3>1
        <3>2. CASE x = n+1
            BY <1>2, <1>3, <3>2
        <3> QED
            BY <1>2, <3>1, <3>2
    <2> QED
        BY <1>2, <2>1 DEF VersionsOK
<1>5. Extends(vs, vt)
    BY <1>2 DEF Extends
<1>6. Linked(vt, v, w)
    BY <1>2, <1>5, LinkedStays
<1>7. PICK S \in SUBSET Nat :
          /\ v \in S
          /\ \A x \in S : x = w \/ (x > w /\ x <= Len(vt) /\ vt[x].prev \in S)
    BY <1>6 DEF Linked
<1>8. Linked(vt, n+1, w)
    <2> DEFINE T == S \cup {n+1}
    <2>1. T \in SUBSET Nat /\ n+1 \in T
        <3>1. n+1 \in Nat
            BY <1>2
        <3> HIDE DEF n
        <3> QED
            BY <3>1
    <2>2. ASSUME NEW x \in T
          PROVE  x = w \/ (x > w /\ x <= Len(vt) /\ vt[x].prev \in T)
        <3>1. CASE x \in S
            BY <1>7, <3>1
        <3>2. CASE x = n+1
            BY <1>2, <1>3, <1>7, <3>2
        <3> QED
            BY <3>1, <3>2
    <2> QED
        BY <2>1, <2>2 DEF Linked
<1> QED
    BY <1>2, <1>3, <1>4, <1>5, <1>8 DEF vt

-----------------------------------------------------------------------------
(* Calls.                                                                  *)

(* A call goes on as it was when others make versions and other changesets *)
(* change.                                                                 *)
LEMMA CallStays ==
    ASSUME NEW c, NEW vs, NEW vt, NEW l, NEW m, CallOK(c, vs, l),
           VersionsOK(vs), VersionsOK(vt), Extends(vs, vt),
           c.set \in DOMAIN m, m[c.set] = l[c.set]
    PROVE  CallOK(c, vt, m)
<1>1. Len(vs) \in Nat /\ Len(vt) \in Nat /\ Len(vs) <= Len(vt)
    BY DEF VersionsOK, Extends
<1>2. /\ c \in CallType /\ c.at \in 1..Len(l[c.set])+1
      /\ c.start \in 0..Len(vs) /\ c.ver \in 0..Len(vs) /\ Linked(vs, c.ver, c.start)
    BY DEF CallOK
<1>3. c.start \in 0..Len(vt) /\ c.ver \in 0..Len(vt)
    BY <1>1, <1>2
<1>4. Linked(vt, c.ver, c.start)
    BY <1>1, <1>2, LinkedStays
<1>5. \A v \in 0..Len(vs) : MapIn(vt, v) = MapIn(vs, v)
    <2>1. \A v \in 0..Len(vs) : v # 0 => v \in 1..Len(vs)
        BY <1>1
    <2> QED
        BY <2>1 DEF MapIn, Extends
<1>6. PICK e \in Effect : /\ SumUpTo(l[c.set], c.at-1, e)
                          /\ MapIn(vs, c.ver) = Overlay(MapIn(vs, c.start), e)
    BY DEF CallOK
<1>7. /\ SumUpTo(m[c.set], c.at-1, e)
      /\ MapIn(vt, c.ver) = Overlay(MapIn(vt, c.start), e)
    BY <1>2, <1>5, <1>6
<1> QED
    BY <1>2, <1>3, <1>4, <1>7 DEF CallOK

(* A call begins at the version it is given.                               *)
LEMMA CallBegins ==
    ASSUME NEW vs, VersionsOK(vs), NEW l, NEW x \in DOMAIN l, x \in Changeset,
           l[x] \in Seq(ChangeType), NEW v \in 0..Len(vs), NEW di \in BOOLEAN
    PROVE  CallOK([set |-> x, di |-> di, at |-> 1, start |-> v, ver |-> v], vs, l)
<1> DEFINE c == [set |-> x, di |-> di, at |-> 1, start |-> v, ver |-> v]
           e == [k \in Key |-> "same"]
<1>1. Len(vs) \in Nat /\ Len(l[x]) \in Nat
    BY DEF VersionsOK
<1>2. c \in CallType /\ c.at \in 1..Len(l[x])+1
    BY <1>1 DEF CallType
<1>3. Linked(vs, v, v)
    BY <1>1, LinkedSelf
<1>4. e \in Effect /\ SumUpTo(l[x], 0, e)
    BY SumOfNone
<1>5. MapIn(vs, v) = Overlay(MapIn(vs, v), e)
    BY MapInType, OverlayOfNone
<1> HIDE DEF e
<1>6. c.set = x /\ c.at - 1 = 0 /\ c.start = v /\ c.ver = v
    OBVIOUS
<1> HIDE DEF c
<1>7. CallOK(c, vs, l)
    BY <1>2, <1>3, <1>4, <1>5, <1>6 DEF CallOK
<1> QED
    BY <1>7 DEF c

(* The next change makes a version.                                        *)
LEMMA CallMakes ==
    ASSUME NEW c, NEW vs, VersionsOK(vs), NEW l, CallOK(c, vs, l),
           l[c.set] \in Seq(ChangeType), c.at <= Len(l[c.set])
    PROVE  LET ch == l[c.set][c.at]
               r  == [prev |-> c.ver, map |-> [MapIn(vs, c.ver) EXCEPT ![ch.key] = ch.val]]
               vt == Append(vs, r)
           IN  /\ VersionsOK(vt) /\ Extends(vs, vt)
               /\ CallOK([c EXCEPT !.at = @ + 1, !.ver = Len(vt)], vt, l)
<1> DEFINE s  == l[c.set]
           n  == c.at
           ch == s[n]
           r  == [prev |-> c.ver, map |-> [MapIn(vs, c.ver) EXCEPT ![ch.key] = ch.val]]
           vt == Append(vs, r)
           d  == [c EXCEPT !.at = @ + 1, !.ver = Len(vt)]
<1>1. /\ c \in CallType /\ c.set \in DOMAIN l /\ n \in 1..Len(s)+1
      /\ c.start \in 0..Len(vs) /\ c.ver \in 0..Len(vs) /\ Linked(vs, c.ver, c.start)
    BY DEF CallOK
<1>2. Len(vs) \in Nat /\ Len(s) \in Nat /\ n \in 1..Len(s)
    BY <1>1 DEF VersionsOK
<1>3. ch \in ChangeType
    BY <1>2
<1>4. ch.key \in Key /\ ch.val \in Value \cup {NULL}
    BY <1>3 DEF ChangeType
<1>5. r \in VersionType /\ r.prev = c.ver
    BY <1>1, <1>2, <1>4, MapInType DEF VersionType, MapType
<1>6. /\ VersionsOK(vt) /\ Extends(vs, vt) /\ Len(vt) = Len(vs)+1
      /\ vt[Len(vs)+1] = r /\ Linked(vt, Len(vs)+1, c.start)
    <2> HIDE DEF r
    <2> QED
        BY <1>1, <1>5, LinkedOneMore
<1>7. PICK e \in Effect : /\ SumUpTo(s, n-1, e)
                          /\ MapIn(vs, c.ver) = Overlay(MapIn(vs, c.start), e)
    BY DEF CallOK
<1> DEFINE g == [e EXCEPT ![ch.key] = ch.val]
<1>8. g \in Effect /\ SumUpTo(s, n, g)
    <2>1. n-1 \in Nat /\ (n-1)+1 = n
        BY <1>2
    <2>2. s[(n-1)+1] \in ChangeType
        BY <1>3, <2>1
    <2> HIDE DEF n, s
    <2> QED
        BY <1>7, <2>1, <2>2, SumOfOneMore
<1>9. MapIn(vt, Len(vs)+1) = Overlay(MapIn(vs, c.start), g)
    <2>1. MapIn(vt, Len(vs)+1) = r.map
        BY <1>2, <1>6 DEF MapIn
    <2>2. r.map = [MapIn(vs, c.ver) EXCEPT ![ch.key] = ch.val]
        OBVIOUS
    <2>3. Overlay(MapIn(vs, c.start), g)
              = [Overlay(MapIn(vs, c.start), e) EXCEPT ![ch.key] = ch.val]
        <3> HIDE DEF ch
        <3>1. Overlay(MapIn(vs, c.start), Changed(e, ch.key, ch.val))
                  = Changed(Overlay(MapIn(vs, c.start), e), ch.key, ch.val)
            BY <1>4, OverlayOneMore
        <3> QED
            BY <3>1 DEF Changed
    <2> QED
        BY <1>7, <2>1, <2>2, <2>3
<1>10. MapIn(vt, c.start) = MapIn(vs, c.start)
    <2>1. c.start # 0 => c.start \in 1..Len(vs)
        BY <1>1
    <2> QED
        BY <1>6, <2>1 DEF MapIn, Extends
<1>11. /\ d \in CallType /\ d.set = c.set /\ d.start = c.start /\ d.at = n+1
       /\ d.ver = Len(vs)+1
    <2>1. Len(vt) = Len(vs)+1 /\ Len(vs) \in Nat /\ c \in CallType
        BY <1>1, <1>2, <1>6
    <2>2. c.at + 1 \in Nat /\ Len(vt) \in Nat
        BY <2>1 DEF CallType
    <2> HIDE DEF vt
    <2>3. d \in CallType
        BY ONLY <2>1, <2>2 DEF CallType
    <2>4. d.set = c.set /\ d.start = c.start /\ d.at = n+1 /\ d.ver = Len(vt)
        BY ONLY <2>1 DEF CallType
    <2> QED
        BY <2>1, <2>3, <2>4
<1>12. /\ d.at \in 1..Len(l[d.set])+1 /\ d.start \in 0..Len(vt) /\ d.ver \in 0..Len(vt)
       /\ d.at - 1 = n
    <2> HIDE DEF vt, d
    <2> QED
        BY <1>1, <1>2, <1>6, <1>11
<1> HIDE DEF vt, d, g, r, s, n
<1>13. SumUpTo(l[d.set], d.at-1, g) /\ MapIn(vt, d.ver) = Overlay(MapIn(vt, d.start), g)
    BY <1>8, <1>9, <1>10, <1>11, <1>12 DEF s
<1>14. CallOK(d, vt, l)
    BY <1>1, <1>6, <1>8, <1>11, <1>12, <1>13 DEF CallOK
<1> QED
    BY <1>6, <1>14 DEF vt, d, r, s, n

(* The next change removes what is not there.                              *)
LEMMA CallPasses ==
    ASSUME NEW c, NEW vs, VersionsOK(vs), NEW l, CallOK(c, vs, l),
           l[c.set] \in Seq(ChangeType), c.at <= Len(l[c.set]),
           l[c.set][c.at].val = NULL, MapIn(vs, c.ver)[l[c.set][c.at].key] = NULL
    PROVE  CallOK([c EXCEPT !.at = @ + 1], vs, l)
<1> DEFINE s  == l[c.set]
           n  == c.at
           ch == s[n]
           d  == [c EXCEPT !.at = @ + 1]
<1>1. /\ c \in CallType /\ c.set \in DOMAIN l /\ n \in 1..Len(s)+1
      /\ c.start \in 0..Len(vs) /\ c.ver \in 0..Len(vs) /\ Linked(vs, c.ver, c.start)
    BY DEF CallOK
<1>2. Len(vs) \in Nat /\ Len(s) \in Nat /\ n \in 1..Len(s)
    BY <1>1 DEF VersionsOK
<1>3. ch \in ChangeType
    BY <1>2
<1>4. ch.key \in Key /\ ch.val \in Value \cup {NULL}
    BY <1>3 DEF ChangeType
<1>7. PICK e \in Effect : /\ SumUpTo(s, n-1, e)
                          /\ MapIn(vs, c.ver) = Overlay(MapIn(vs, c.start), e)
    BY DEF CallOK
<1> DEFINE g == [e EXCEPT ![ch.key] = ch.val]
<1>8. g \in Effect /\ SumUpTo(s, n, g)
    <2>1. n-1 \in Nat /\ (n-1)+1 = n
        BY <1>2
    <2>2. s[(n-1)+1] \in ChangeType
        BY <1>3, <2>1
    <2> HIDE DEF n, s
    <2> QED
        BY <1>7, <2>1, <2>2, SumOfOneMore
<1>9. MapIn(vs, c.ver) = Overlay(MapIn(vs, c.start), g)
    <2>1. Overlay(MapIn(vs, c.start), g)
              = [MapIn(vs, c.ver) EXCEPT ![ch.key] = ch.val]
        <3>1. Overlay(MapIn(vs, c.start), g)
                  = [Overlay(MapIn(vs, c.start), e) EXCEPT ![ch.key] = ch.val]
            <4> HIDE DEF ch
            <4>1. Overlay(MapIn(vs, c.start), Changed(e, ch.key, ch.val))
                      = Changed(Overlay(MapIn(vs, c.start), e), ch.key, ch.val)
                BY <1>4, OverlayOneMore
            <4> QED
                BY <4>1 DEF Changed
        <3> QED
            BY <1>7, <3>1
    <2>2. MapIn(vs, c.ver) \in MapType
        BY <1>1, MapInType
    <2>3. MapIn(vs, c.ver)[ch.key] = ch.val
        OBVIOUS
    <2> QED
        BY <1>4, <2>1, <2>2, <2>3 DEF MapType
<1>11. /\ d \in CallType /\ d.set = c.set /\ d.start = c.start /\ d.at = n+1
       /\ d.ver = c.ver
    BY <1>1, <1>2 DEF CallType
<1>12. d.at \in 1..Len(l[d.set])+1 /\ d.at - 1 = n
    <2> HIDE DEF d
    <2> QED
        BY <1>1, <1>2, <1>11
<1> HIDE DEF d, g, s, n
<1>13. SumUpTo(l[d.set], d.at-1, g) /\ MapIn(vs, d.ver) = Overlay(MapIn(vs, d.start), g)
    BY <1>8, <1>9, <1>11, <1>12 DEF s
<1>14. CallOK(d, vs, l)
    BY <1>1, <1>8, <1>11, <1>12, <1>13 DEF CallOK
<1> QED
    BY <1>14 DEF d, s, n

-----------------------------------------------------------------------------
(* The steps keep the invariant.                                           *)

(* Where no changeset that a call uses goes or changes, and no version     *)
(* either, the calls are as they were.                                     *)
LEMMA CallsStay ==
    ASSUME ApplyInv, UNCHANGED <<versions, call>>,
           \A t \in Thread : call[t] # NoCall =>
              call[t].set \in DOMAIN list' /\ list'[call[t].set] = list[call[t].set]
    PROVE  CallsOK'
<1>1. VersionsOK(versions) /\ Extends(versions, versions)
    BY DEF ApplyInv, VersionsOK, Extends
<1>2. ASSUME NEW t \in Thread, call[t] # NoCall
      PROVE  CallOK(call[t], versions, list')
    <2>1. CallOK(call[t], versions, list)
        BY <1>2 DEF ApplyInv, CallsOK
    <2> QED
        BY <1>1, <1>2, <2>1, CallStays
<1> QED
    BY <1>2 DEF ApplyInv, CallsOK

(* A new changeset is empty.                                               *)
LEMMA EmptySetKeeps ==
    ASSUME ApplyInv, NEW c \in Changeset, EmptySet(c)
    PROVE  ApplyInv'
<1>1. /\ list' = [d \in Sets \cup {c} |-> IF d = c THEN << >> ELSE list[d]]
      /\ effect' = [d \in Sets \cup {c} |-> IF d = c THEN [k \in Key |-> "same"] ELSE effect[d]]
      /\ UNCHANGED <<versions, call>> /\ c \notin Sets
    BY DEF EmptySet
<1>2. SetsOK'
    <2>1. Sets' = Sets \cup {c} /\ DOMAIN effect' = Sets'
        BY <1>1 DEF Sets
    <2>2. ASSUME NEW d \in Sets \cup {c}
          PROVE  /\ list'[d] \in Seq(ChangeType) /\ effect'[d] \in Effect
                 /\ SumUpTo(list'[d], Len(list'[d]), effect'[d])
        <3>1. CASE d = c
            <4>1. list'[d] = << >> /\ effect'[d] = [k \in Key |-> "same"]
                BY <1>1, <3>1
            <4> QED
                BY <4>1, SumOfNone
        <3>2. CASE d # c
            <4>1. list'[d] = list[d] /\ effect'[d] = effect[d] /\ d \in Sets
                BY <1>1, <3>2
            <4> QED
                BY <4>1 DEF ApplyInv, SetsOK
        <3> QED
            BY <3>1, <3>2
    <2> QED
        BY <2>1, <2>2 DEF ApplyInv, SetsOK
<1>3. \A t \in Thread : call[t] # NoCall =>
          call[t].set \in DOMAIN list' /\ list'[call[t].set] = list[call[t].set]
    BY <1>1 DEF ApplyInv, CallsOK, CallOK, Sets
<1>4. CallsOK'
    BY <1>1, <1>3, CallsStay
<1> QED
    BY <1>1, <1>2, <1>4 DEF ApplyInv

(* A change is put behind the others.                                      *)
LEMMA AddKeeps ==
    ASSUME ApplyInv, NEW c \in Sets, NEW k \in Key, NEW v \in Value \cup {NULL}, Add(c, k, v)
    PROVE  ApplyInv'
<1> DEFINE ch == [key |-> k, val |-> v]
<1>1. /\ ~Using(c) /\ list' = [list EXCEPT ![c] = Append(@, ch)]
      /\ effect' = [effect EXCEPT ![c][k] = v] /\ UNCHANGED <<versions, call>>
    BY DEF Add
<1>2. /\ list[c] \in Seq(ChangeType) /\ effect[c] \in Effect
      /\ SumUpTo(list[c], Len(list[c]), effect[c]) /\ DOMAIN effect = Sets
      /\ c \in DOMAIN list
    BY DEF ApplyInv, SetsOK, Sets
<1>3. /\ Sets' = Sets /\ DOMAIN effect' = Sets
      /\ list'[c] = Append(list[c], ch) /\ effect'[c] = [effect[c] EXCEPT ![k] = v]
      /\ \A d \in Sets : d # c => list'[d] = list[d] /\ effect'[d] = effect[d]
    BY <1>1, <1>2 DEF Sets
<1>4. SetsOK'
    <2> DEFINE s == list[c]
               n == Len(s)
               t == Append(s, ch)
               g == [effect[c] EXCEPT ![k] = v]
    <2>1. ch \in ChangeType /\ ch.key = k /\ ch.val = v
        BY DEF ChangeType
    <2> HIDE DEF ch
    <2>2. /\ n \in Nat /\ t \in Seq(ChangeType) /\ Len(t) = n+1 /\ t[n+1] = ch
          /\ \A i \in 1..n : t[i] = s[i]
        BY <1>2, <2>1
    <2>3. SumUpTo(t, n, effect[c])
        <3> HIDE DEF t, s, n
        <3>1. SumUpTo(s, n, effect[c])
            BY <1>2 DEF s, n
        <3> QED
            BY <2>2, <3>1, SumOfSame
    <2>4. g \in Effect /\ SumUpTo(t, n+1, g)
        <3> HIDE DEF t, n
        <3>1. t[n+1] \in ChangeType
            BY <2>1, <2>2
        <3>2. LET h == [effect[c] EXCEPT ![t[n+1].key] = t[n+1].val]
              IN  h \in Effect /\ SumUpTo(t, n+1, h)
            BY <1>2, <2>2, <2>3, <3>1, SumOfOneMore
        <3> QED
            BY <2>1, <2>2, <3>2
    <2>5. ASSUME NEW d \in Sets
          PROVE  /\ list'[d] \in Seq(ChangeType) /\ effect'[d] \in Effect
                 /\ SumUpTo(list'[d], Len(list'[d]), effect'[d])
        <3>1. CASE d = c
            <4>1. list'[d] = t /\ effect'[d] = g /\ Len(t) = n+1
                BY <1>3, <2>2, <3>1
            <4> HIDE DEF t, g, n
            <4> QED
                BY <2>2, <2>4, <4>1
        <3>2. CASE d # c
            BY <1>3, <3>2 DEF ApplyInv, SetsOK
        <3> QED
            BY <3>1, <3>2
    <2> QED
        BY <1>3, <2>5 DEF ApplyInv, SetsOK
<1>5. \A t \in Thread : call[t] # NoCall =>
          call[t].set \in DOMAIN list' /\ list'[call[t].set] = list[call[t].set]
    BY <1>1, <1>3 DEF ApplyInv, CallsOK, CallOK, Sets, Using
<1>6. CallsOK'
    BY <1>1, <1>5, CallsStay
<1> QED
    BY <1>1, <1>4, <1>6 DEF ApplyInv

(* Two changesets become one, in their order.                              *)
LEMMA MergeDiKeeps ==
    ASSUME ApplyInv, NEW a \in Sets, NEW b \in Sets, MergeDi(a, b)
    PROVE  ApplyInv'
<1>1. /\ a # b /\ ~Using(a) /\ ~Using(b)
      /\ list' = [c \in Sets \ {b} |-> IF c = a THEN list[a] \o list[b] ELSE list[c]]
      /\ effect' = [c \in Sets \ {b} |->
                       IF c = a THEN Overlay(effect[a], effect[b]) ELSE effect[c]]
      /\ UNCHANGED <<versions, call>>
    BY DEF MergeDi
<1>2. /\ Sets' = Sets \ {b} /\ DOMAIN effect' = Sets \ {b}
      /\ list'[a] = list[a] \o list[b] /\ effect'[a] = Overlay(effect[a], effect[b])
      /\ \A d \in Sets \ {b} : d # a => list'[d] = list[d] /\ effect'[d] = effect[d]
    BY <1>1 DEF Sets
<1>3. \A d \in Sets : /\ list[d] \in Seq(ChangeType) /\ effect[d] \in Effect
                      /\ SumUpTo(list[d], Len(list[d]), effect[d])
    BY DEF ApplyInv, SetsOK
<1>4. SetsOK'
    <2>1. list'[a] \in Seq(ChangeType)
        BY <1>2, <1>3
    <2>2. effect'[a] \in Effect /\ SumUpTo(list'[a], Len(list'[a]), effect'[a])
        <3>1. /\ Overlay(effect[a], effect[b]) \in Effect
              /\ SumUpTo(list[a] \o list[b], Len(list[a] \o list[b]),
                         Overlay(effect[a], effect[b]))
            BY <1>3, SumOfBoth
        <3> QED
            BY <1>2, <3>1
    <2> QED
        BY <1>2, <1>3, <2>1, <2>2 DEF ApplyInv, SetsOK
<1>5. \A t \in Thread : call[t] # NoCall =>
          call[t].set \in DOMAIN list' /\ list'[call[t].set] = list[call[t].set]
    BY <1>1, <1>2 DEF ApplyInv, CallsOK, CallOK, Sets, Using
<1>6. CallsOK'
    BY <1>1, <1>5, CallsStay
<1> QED
    BY <1>1, <1>4, <1>6 DEF ApplyInv

(* Without one of them the changesets are as they were.                    *)
LEMMA DiscardKeepsSets ==
    ASSUME SetsOK, NEW c, Discard(c)
    PROVE  /\ SetsOK' /\ Sets' = Sets \ {c}
           /\ \A d \in Sets \ {c} : list'[d] = list[d]
<1>1. /\ list' = [d \in Sets \ {c} |-> list[d]] /\ effect' = [d \in Sets \ {c} |-> effect[d]]
    BY DEF Discard
<1>2. /\ Sets' = Sets \ {c} /\ DOMAIN effect' = Sets \ {c}
      /\ \A d \in Sets \ {c} : list'[d] = list[d] /\ effect'[d] = effect[d]
    BY <1>1 DEF Sets
<1> QED
    BY <1>2 DEF SetsOK

(* A changeset that no call uses is freed.                                 *)
LEMMA FreeSetKeeps ==
    ASSUME ApplyInv, NEW c \in Sets, FreeSet(c)
    PROVE  ApplyInv'
<1>1. ~Using(c) /\ Discard(c) /\ UNCHANGED <<versions, call>>
    BY DEF FreeSet
<1>2. /\ SetsOK' /\ Sets' = Sets \ {c}
      /\ \A d \in Sets \ {c} : list'[d] = list[d]
    BY <1>1, DiscardKeepsSets DEF ApplyInv
<1>3. \A t \in Thread : call[t] # NoCall =>
          call[t].set \in DOMAIN list' /\ list'[call[t].set] = list[call[t].set]
    BY <1>1, <1>2 DEF ApplyInv, CallsOK, CallOK, Sets, Using
<1>4. CallsOK'
    BY <1>1, <1>3, CallsStay
<1> QED
    BY <1>1, <1>2, <1>4 DEF ApplyInv

(* A call begins; nobody gives away a changeset that another applies.      *)
LEMMA ApplyStartKeeps ==
    ASSUME ApplyInv, NEW t \in Thread, NEW v \in Version, NEW c \in Sets, NEW di \in BOOLEAN,
           ApplyStart(t, v, c, di)
    PROVE  ApplyInv'
<1> DEFINE d == [set |-> c, di |-> di, at |-> 1, start |-> v, ver |-> v]
<1>1. /\ call[t] = NoCall /\ call' = [call EXCEPT ![t] = d]
      /\ \A u \in Thread : call[u].set = c => ~di /\ ~call[u].di
      /\ UNCHANGED <<list, effect, versions>>
    BY DEF ApplyStart
<1>2. DOMAIN call' = Thread /\ call'[t] = d /\ \A u \in Thread : u # t => call'[u] = call[u]
    BY <1>1 DEF ApplyInv, CallsOK
<1>3. CallOK(d, versions, list)
    BY CallBegins DEF ApplyInv, SetsOK, Sets, Version
<1>4. d.set = c /\ d.di = di
    OBVIOUS
<1> HIDE DEF d
<1>5. CallsOK'
    <2>1. ASSUME NEW u \in Thread, call'[u] # NoCall
          PROVE  CallOK(call'[u], versions, list)
        BY <1>2, <1>3, <2>1 DEF ApplyInv, CallsOK
    <2>2. ASSUME NEW u \in Thread, NEW w \in Thread, u # w, call'[u] # NoCall,
                 call'[w].set = call'[u].set
          PROVE  ~call'[u].di
        <3>1. CASE u = t
            BY <1>1, <1>2, <1>4, <2>2, <3>1
        <3>2. CASE w = t
            BY <1>1, <1>2, <1>4, <2>2, <3>2
        <3>3. CASE u # t /\ w # t
            BY <1>2, <2>2, <3>3 DEF ApplyInv, CallsOK
        <3> QED
            BY <3>1, <3>2, <3>3
    <2> QED
        BY <1>1, <1>2, <2>1, <2>2 DEF CallsOK
<1> QED
    BY <1>1, <1>5 DEF ApplyInv, SetsOK, Sets

(* A call goes on, and may make a version.                                 *)
LEMMA CallGoesOn ==
    ASSUME ApplyInv, NEW t \in Thread, call[t] # NoCall, NEW d,
           VersionsOK(versions'), Extends(versions, versions'), CallOK(d, versions', list),
           d.set = call[t].set, d.di = call[t].di,
           call' = [call EXCEPT ![t] = d], UNCHANGED <<list, effect>>
    PROVE  ApplyInv'
<1>1. DOMAIN call' = Thread /\ call'[t] = d /\ \A u \in Thread : u # t => call'[u] = call[u]
    BY DEF ApplyInv, CallsOK
<1>2. ASSUME NEW u \in Thread, call'[u] # NoCall
      PROVE  CallOK(call'[u], versions', list)
    <2>1. CASE u = t
        BY <1>1, <2>1
    <2>2. CASE u # t
        <3>1. call'[u] = call[u] /\ CallOK(call[u], versions, list)
            BY <1>1, <1>2, <2>2 DEF ApplyInv, CallsOK
        <3>2. VersionsOK(versions) /\ call[u].set \in DOMAIN list
            BY <3>1 DEF ApplyInv, CallOK
        <3> QED
            BY <3>1, <3>2, CallStays
    <2> QED
        BY <2>1, <2>2
<1>3. \A u \in Thread : call'[u].set = call[u].set /\ call'[u].di = call[u].di
    BY <1>1
<1>4. ASSUME NEW u \in Thread, NEW w \in Thread, u # w, call'[u] # NoCall,
             call'[w].set = call'[u].set
      PROVE  ~call'[u].di
    <2>1. call[u] # NoCall
        BY <1>1, <1>4
    <2> QED
        BY <1>3, <1>4, <2>1 DEF ApplyInv, CallsOK
<1>5. CallsOK'
    BY <1>1, <1>2, <1>4 DEF CallsOK
<1> QED
    BY <1>5 DEF ApplyInv, SetsOK, Sets

(* A change is made.                                                       *)
LEMMA ApplyStepKeeps ==
    ASSUME ApplyInv, NEW t \in Thread, ApplyStep(t)
    PROVE  ApplyInv'
<1> DEFINE c == call[t]
           s == list[c.set]
           ch == s[c.at]
           r == [prev |-> c.ver, map |-> [MapIn(versions, c.ver) EXCEPT ![ch.key] = ch.val]]
           vt == Append(versions, r)
<1>1. /\ c # NoCall /\ c.at <= Len(s) /\ UNCHANGED <<list, effect>>
    BY DEF ApplyStep
<1>2. /\ VersionsOK(versions) /\ CallOK(c, versions, list) /\ s \in Seq(ChangeType)
    BY <1>1 DEF ApplyInv, CallsOK, SetsOK, CallOK, Sets
<1>3. c \in CallType
    BY <1>2 DEF CallOK
<1>4. DOMAIN call = Thread
    BY DEF ApplyInv, CallsOK
<1>5. CASE Makes(c.ver, ch)
    <2> DEFINE d == [c EXCEPT !.at = @ + 1, !.ver = Len(vt)]
    <2>1. versions' = vt /\ call' = [call EXCEPT ![t].at = @ + 1, ![t].ver = Len(vt)]
        BY <1>5 DEF ApplyStep, MapIn, MapOf, Change
    <2>2. call' = [call EXCEPT ![t] = d]
        <3> HIDE DEF vt
        <3> QED
            BY <1>4, <2>1
    <2>3. VersionsOK(vt) /\ Extends(versions, vt) /\ CallOK(d, vt, list)
        BY <1>1, <1>2, CallMakes
    <2>4. d.set = c.set /\ d.di = c.di
        <3> HIDE DEF vt
        <3> QED
            BY <1>3 DEF CallType
    <2> HIDE DEF d, vt
    <2> QED
        BY <1>1, <2>1, <2>2, <2>3, <2>4, CallGoesOn
<1>6. CASE ~Makes(c.ver, ch)
    <2> DEFINE d == [c EXCEPT !.at = @ + 1]
    <2>1. UNCHANGED versions /\ call' = [call EXCEPT ![t].at = @ + 1]
        BY <1>6 DEF ApplyStep, Change
    <2>2. call' = [call EXCEPT ![t] = d]
        BY <1>4, <2>1
    <2>3. ch.val = NULL /\ MapIn(versions, c.ver)[ch.key] = NULL
        BY <1>6 DEF Makes, MapIn, MapOf
    <2>4. CallOK(d, versions, list)
        BY <1>1, <1>2, <2>3, CallPasses
    <2>5. d.set = c.set /\ d.di = c.di
        BY <1>3 DEF CallType
    <2>6. Extends(versions, versions) /\ VersionsOK(versions')
        BY <1>2, <2>1 DEF Extends, VersionsOK
    <2> HIDE DEF d
    <2> QED
        BY <1>1, <2>1, <2>2, <2>4, <2>5, <2>6, CallGoesOn
<1> QED
    BY <1>5, <1>6

(* A call returns; a changeset given away goes with it, and no other call  *)
(* uses it.                                                                *)
LEMMA ApplyEndKeeps ==
    ASSUME ApplyInv, NEW t \in Thread, ApplyEnd(t)
    PROVE  ApplyInv'
<1> DEFINE c == call[t].set
<1>1. /\ call[t] # NoCall /\ call' = [call EXCEPT ![t] = NoCall] /\ UNCHANGED versions
      /\ IF call[t].di THEN Discard(c) ELSE UNCHANGED <<list, effect>>
    BY DEF ApplyEnd, Finished
<1>2. /\ DOMAIN call' = Thread /\ call'[t] = NoCall
      /\ \A u \in Thread : u # t => call'[u] = call[u]
    BY <1>1 DEF ApplyInv, CallsOK
<1>3. /\ SetsOK'
      /\ \A u \in Thread : u # t /\ call[u] # NoCall
            => call[u].set \in DOMAIN list' /\ list'[call[u].set] = list[call[u].set]
    <2>1. \A u \in Thread : call[u] # NoCall => call[u].set \in Sets
        BY DEF ApplyInv, CallsOK, CallOK, Sets
    <2>2. CASE call[t].di
        <3>1. /\ SetsOK' /\ Sets' = Sets \ {c}
              /\ \A d \in Sets \ {c} : list'[d] = list[d]
            BY <1>1, <2>2, DiscardKeepsSets DEF ApplyInv
        <3>2. \A u \in Thread : u # t => call[u].set # c
            BY <1>1, <2>2 DEF ApplyInv, CallsOK
        <3> QED
            BY <2>1, <3>1, <3>2 DEF Sets
    <2>3. CASE ~call[t].di
        BY <1>1, <2>1, <2>3 DEF ApplyInv, SetsOK, Sets
    <2> QED
        BY <2>2, <2>3
<1>4. VersionsOK(versions) /\ Extends(versions, versions)
    BY DEF ApplyInv, VersionsOK, Extends
<1>5. ASSUME NEW u \in Thread, call'[u] # NoCall
      PROVE  CallOK(call'[u], versions, list')
    <2>1. u # t /\ call'[u] = call[u] /\ call[u] # NoCall
        BY <1>2, <1>5
    <2>2. CallOK(call[u], versions, list)
        BY <2>1 DEF ApplyInv, CallsOK
    <2> QED
        BY <1>3, <1>4, <2>1, <2>2, CallStays
<1>6. ASSUME NEW u \in Thread, NEW w \in Thread, u # w, call'[u] # NoCall,
             call'[w].set = call'[u].set
      PROVE  ~call'[u].di
    <2>1. u # t /\ call'[u] = call[u] /\ call[u] # NoCall
        BY <1>2, <1>6
    <2>2. call[u].set \in Changeset
        BY <2>1 DEF ApplyInv, CallsOK, CallOK, CallType
    <2>3. w # t
        <3>1. NoCall.set = NULL
            BY DEF NoCall
        <3> QED
            BY <1>2, <1>6, <2>1, <2>2, <3>1, ChangesetAssumption
    <2> QED
        BY <1>2, <1>6, <2>1, <2>3 DEF ApplyInv, CallsOK
<1>7. CallsOK'
    BY <1>1, <1>2, <1>5, <1>6 DEF CallsOK
<1> QED
    BY <1>1, <1>3, <1>4, <1>7 DEF ApplyInv

(* Every call has come to the map it began from with the changes it is     *)
(* past, for any number of threads, changesets and versions.               *)
THEOREM ApplyInvInvariant == Spec => []ApplyInv
<1>1. Init => ApplyInv
    <2> SUFFICES ASSUME Init
                 PROVE  ApplyInv
        OBVIOUS
    <2>1. /\ list = << >> /\ effect = << >> /\ versions = << >>
          /\ call = [t \in Thread |-> NoCall]
        BY DEF Init
    <2>2. Sets = {} /\ DOMAIN effect = {}
        BY <2>1 DEF Sets
    <2>3. VersionsOK(versions)
        BY <2>1 DEF VersionsOK
    <2>4. SetsOK
        BY <2>2 DEF SetsOK
    <2>5. CallsOK
        BY <2>1 DEF CallsOK
    <2> QED
        BY <2>3, <2>4, <2>5 DEF ApplyInv
<1>2. ApplyInv /\ [Next]_vars => ApplyInv'
    <2> SUFFICES ASSUME ApplyInv, [Next]_vars
                 PROVE  ApplyInv'
        OBVIOUS
    <2>1. ASSUME NEW c \in Changeset, EmptySet(c)
          PROVE  ApplyInv'
        BY <2>1, EmptySetKeeps
    <2>2. ASSUME NEW c \in Sets, FreeSet(c)
          PROVE  ApplyInv'
        BY <2>2, FreeSetKeeps
    <2>3. ASSUME NEW c \in Sets, NEW k \in Key, NEW v \in Value \cup {NULL}, Add(c, k, v)
          PROVE  ApplyInv'
        BY <2>3, AddKeeps
    <2>4. ASSUME NEW c \in Sets, NEW b \in Sets, MergeDi(c, b)
          PROVE  ApplyInv'
        BY <2>4, MergeDiKeeps
    <2>5. ASSUME NEW c \in Sets, NEW t \in Thread, NEW v \in Version, NEW di \in BOOLEAN,
                 ApplyStart(t, v, c, di)
          PROVE  ApplyInv'
        BY <2>5, ApplyStartKeeps
    <2>6. ASSUME NEW t \in Thread, ApplyStep(t)
          PROVE  ApplyInv'
        BY <2>6, ApplyStepKeeps
    <2>7. ASSUME NEW t \in Thread, ApplyEnd(t)
          PROVE  ApplyInv'
        BY <2>7, ApplyEndKeeps
    <2>8. CASE UNCHANGED vars
        BY <2>8 DEF vars, ApplyInv, SetsOK, Sets, CallsOK
    <2> QED
        BY <2>1, <2>2, <2>3, <2>4, <2>5, <2>6, <2>7, <2>8 DEF Next
<1> QED
    BY <1>1, <1>2, PTL DEF Spec

-----------------------------------------------------------------------------
(* The recursion of BasedOn.                                               *)

BasedBody(v, w, f) == [x \in 0..v |-> x = w \/ (x > w /\ f[versions[x].prev])]

(* A version that is linked to another is based on it.                     *)
LEMMA LinkedIsBased ==
    ASSUME VersionsOK(versions), NEW v \in 0..Len(versions), NEW w \in 0..Len(versions),
           Linked(versions, v, w)
    PROVE  BasedOn(v, w)
<1>1. Len(versions) \in Nat /\ versions \in Seq(VersionType)
    BY DEF VersionsOK
<1>2. \A x \in 1..v : versions[x].prev \in 0..v /\ versions[x].prev < x
    <2>1. \A x \in 1..Len(versions) : versions[x] \in VersionType /\ versions[x].prev < x
        BY <1>1 DEF VersionsOK
    <2>2. \A x \in 1..v : versions[x].prev \in Nat /\ versions[x].prev < x
        BY <1>1, <2>1 DEF VersionType
    <2> QED
        BY <1>1, <2>2
<1>3. ASSUME NEW x \in 1..v
      PROVE  Linked(versions, x, w)
                <=> x = w \/ (x > w /\ Linked(versions, versions[x].prev, w))
    <2> DEFINE p == versions[x].prev
    <2>1. ASSUME Linked(versions, x, w), x # w
          PROVE  x > w /\ Linked(versions, p, w)
        BY <2>1 DEF Linked
    <2>2. ASSUME x = w
          PROVE  Linked(versions, x, w)
        BY <2>2, LinkedSelf
    <2>3. ASSUME x > w, Linked(versions, p, w)
          PROVE  Linked(versions, x, w)
        <3>1. PICK S \in SUBSET Nat :
                  /\ p \in S
                  /\ \A y \in S : y = w \/ (y > w /\ y <= Len(versions)
                                            /\ versions[y].prev \in S)
            BY <2>3 DEF Linked
        <3>2. S \cup {x} \in SUBSET Nat /\ x <= Len(versions)
            BY <1>1
        <3>3. \A y \in S \cup {x} : y = w \/ (y > w /\ y <= Len(versions)
                                               /\ versions[y].prev \in S \cup {x})
            BY <2>3, <3>1, <3>2
        <3> QED
            BY <3>2, <3>3 DEF Linked
    <2> QED
        BY <2>1, <2>2, <2>3
<1>4. Linked(versions, 0, w) <=> 0 = w
    <2>1. ASSUME Linked(versions, 0, w)
          PROVE  0 = w
        BY <1>1, <2>1 DEF Linked
    <2> QED
        BY <2>1, LinkedSelf
<1> DEFINE g == [x \in 0..v |-> Linked(versions, x, w)]
<1>5. g = BasedBody(v, w, g)
    <2>1. ASSUME NEW x \in 0..v
          PROVE  Linked(versions, x, w)
                    <=> x = w \/ (x > w /\ g[versions[x].prev])
        <3>1. CASE x = 0
            BY <1>4, <3>1
        <3>2. CASE x \in 1..v
            <4>1. g[versions[x].prev] = Linked(versions, versions[x].prev, w)
                BY <1>2, <3>2
            <4> QED
                BY <1>3, <3>2, <4>1
        <3> QED
            BY <1>1, <3>1, <3>2
    <2> QED
        BY <2>1 DEF BasedBody
<1> HIDE DEF g
<1> DEFINE h == CHOOSE f : f = BasedBody(v, w, f)
<1>6. h = BasedBody(v, w, h)
    BY <1>5, Zenon
<1>7. BasedOn(v, w) = h[v]
    BY Zenon DEF BasedOn, BasedBody
<1> HIDE DEF h
<1>8. \A x \in 0..v : h[x] <=> x = w \/ (x > w /\ h[versions[x].prev])
    BY <1>6 DEF BasedBody
<1>9. PICK S \in SUBSET Nat :
          /\ v \in S
          /\ \A x \in S : x = w \/ (x > w /\ x <= Len(versions) /\ versions[x].prev \in S)
    BY DEF Linked
<1>10. ASSUME ~h[v]
       PROVE  FALSE
    <2> DEFINE T == {x \in S : x <= v /\ ~h[x]}
    <2>1. T \subseteq Nat /\ v \in T
        <3>1. v \in S /\ v <= v
            BY <1>1, <1>9
        <3> QED
            BY <1>10, <3>1
    <2> HIDE DEF T
    <2>2. PICK m \in T : \A x \in T : m <= x
        BY <2>1, LeastNat
    <2>3. m \in S /\ m \in 0..v /\ ~h[m] /\ m # w
        BY <1>1, <1>8, <2>1, <2>2 DEF T
    <2>4. m > w /\ versions[m].prev \in S
        BY <1>9, <2>3
    <2>5. m \in 1..v
        BY <1>1, <2>3, <2>4
    <2>6. versions[m].prev < m /\ versions[m].prev \in 0..v
        BY <1>2, <2>5
    <2>7. versions[m].prev \notin T
        BY <1>1, <2>2, <2>3, <2>6
    <2>8. h[versions[m].prev]
        BY <1>1, <2>4, <2>6, <2>7 DEF T
    <2> QED
        BY <1>8, <2>3, <2>4, <2>8
<1> QED
    BY <1>7, <1>10

(* What a finished call answers.                                           *)
LEMMA InvFold == ApplyInv => ApplyIsFold
<1> SUFFICES ASSUME ApplyInv, NEW t \in Thread, Finished(t)
             PROVE  /\ MapOf(call[t].ver)
                           = Overlay(MapOf(call[t].start), effect[call[t].set])
                    /\ BasedOn(call[t].ver, call[t].start)
    BY DEF ApplyIsFold
<1> DEFINE c == call[t]
           s == list[c.set]
<1>1. CallOK(c, versions, list) /\ c.at > Len(s)
    BY DEF Finished, ApplyInv, CallsOK
<1>2. /\ s \in Seq(ChangeType) /\ effect[c.set] \in Effect
      /\ SumUpTo(s, Len(s), effect[c.set])
    BY <1>1 DEF ApplyInv, SetsOK, Sets, CallOK
<1>3. c.at - 1 = Len(s) /\ Len(s) \in Nat
    <2>1. Len(s) \in Nat /\ c.at \in 1..Len(s)+1
        BY <1>1, <1>2 DEF CallOK
    <2> QED
        BY <1>1, <2>1
<1>4. PICK e \in Effect : /\ SumUpTo(s, c.at-1, e)
                          /\ MapIn(versions, c.ver) = Overlay(MapIn(versions, c.start), e)
    BY <1>1 DEF CallOK
<1>5. e = effect[c.set]
    BY <1>2, <1>3, <1>4, SumIsOne
<1>6. BasedOn(c.ver, c.start)
    BY <1>1, LinkedIsBased DEF CallOK, ApplyInv
<1> QED
    BY <1>4, <1>5, <1>6 DEF MapIn, MapOf

(* aodbm_apply answers a version with the sum of the changes on top of the *)
(* version it was given, and based on it.                                  *)
THEOREM ApplyRight == Spec => []ApplyIsFold
    BY ApplyInvInvariant, InvFold, PTL

-----------------------------------------------------------------------------
(* Hash tables.                                                            *)

Slot == Item \cup {Empty}

(* Every value is at a slot it leads to.                                   *)
TableOK(t) ==
    /\ t \in Seq(Slot) /\ Len(t) >= 1
    /\ \A s \in 1..Len(t) :
           t[s] # Empty => \E i \in 1..Buckets : Probes(t[s], Len(t))[i] = s

HashInv == mix \in [HashKey -> HashKey] /\ TableOK(data)

(* What applying f up to n times to x gives.                               *)
Iterated(D, f, x, n) ==
    {g \in [0..n -> D] : g[0] = x /\ \A k \in 1..n : g[k] = f[g[k-1]]}

(* A function can be applied again and again.                              *)
LEMMA Iterates ==
    ASSUME NEW D, NEW f \in [D -> D], NEW x \in D, NEW n \in Nat
    PROVE  Iterated(D, f, x, n) # {}
<1> DEFINE P(m) == \E g \in [0..m -> D] : g[0] = x /\ \A k \in 1..m : g[k] = f[g[k-1]]
           bad  == {m \in Nat : ~P(m)}
<1>1. ASSUME bad # {}
      PROVE  FALSE
    <2>1. PICK m \in bad : \A k \in bad : m <= k
        BY <1>1, LeastNat
    <2>2. m # 0
        <3> DEFINE g == [k \in 0..0 |-> x]
        <3>1. g \in [0..0 -> D] /\ g[0] = x /\ \A k \in 1..0 : g[k] = f[g[k-1]]
            OBVIOUS
        <3> HIDE DEF g
        <3>2. P(0)
            BY <3>1
        <3> QED
            BY <2>1, <3>2
    <2>3. m \in Nat /\ m-1 \in Nat /\ m-1 \notin bad
        <3>1. m \in Nat
            OBVIOUS
        <3> HIDE DEF bad
        <3> QED
            BY <2>1, <2>2, <3>1
    <2>4. PICK g \in [0..m-1 -> D] : g[0] = x /\ \A k \in 1..m-1 : g[k] = f[g[k-1]]
        BY <2>3
    <2> DEFINE h == [k \in 0..m |-> IF k = m THEN f[g[m-1]] ELSE g[k]]
    <2>5. \A k \in 0..m : k # m => k \in 0..m-1
        BY <2>3
    <2>6. m-1 \in 0..m-1 /\ g[m-1] \in D /\ f[g[m-1]] \in D
        BY <2>3
    <2>7. h \in [0..m -> D] /\ h[0] = x
        BY <2>2, <2>3, <2>4, <2>5, <2>6
    <2>8. ASSUME NEW k \in 1..m
          PROVE  h[k] = f[h[k-1]]
        <3>1. k-1 \in 0..m-1 /\ k-1 \in 0..m /\ k-1 # m /\ k \in 0..m
            BY <2>3
        <3>2. h[k-1] = g[k-1]
            BY <3>1
        <3>3. CASE k = m
            BY <3>1, <3>2, <3>3
        <3>4. CASE k # m
            <4>1. k \in 1..m-1 /\ h[k] = g[k]
                BY <2>3, <3>1, <3>4
            <4> QED
                BY <2>4, <3>2, <4>1
        <3> QED
            BY <3>3, <3>4
    <2> HIDE DEF h
    <2>9. P(m)
        BY <2>7, <2>8
    <2> QED
        BY <2>1, <2>9
<1>2. n \notin bad
    BY <1>1
<1>3. P(n)
    BY <1>2
<1> QED
    BY <1>3 DEF Iterated

KeyBody(v, f) == [i \in 1..Buckets |-> IF i = 1 THEN v ELSE mix[f[i-1]]]

(* Probes are slots of the table.                                          *)
LEMMA ProbesType ==
    ASSUME mix \in [HashKey -> HashKey], NEW v \in HashKey, NEW sz \in Nat, sz >= 1
    PROVE  /\ Probes(v, sz) \in Seq(1..sz) /\ Len(Probes(v, sz)) = Buckets
           /\ \A i \in 1..Buckets : Probes(v, sz)[i] \in 1..sz
<1> DEFINE key == CHOOSE f : f = KeyBody(v, f)
           ps  == [i \in 1..Buckets |-> 1 + (key[i] % sz)]
<1>1. Buckets \in Nat /\ Buckets >= 1 /\ HashKey \subseteq Nat
    BY HashAssumption
<1>2. PICK g \in [0..Buckets -> HashKey] :
          g[0] = v /\ \A k \in 1..Buckets : g[k] = mix[g[k-1]]
    <2>1. Iterated(HashKey, mix, v, Buckets) # {}
        BY <1>1, Iterates
    <2> QED
        BY <2>1 DEF Iterated
<1> DEFINE h == [i \in 1..Buckets |-> g[i-1]]
<1>3. h = KeyBody(v, h)
    <2>1. ASSUME NEW i \in 1..Buckets
          PROVE  g[i-1] = IF i = 1 THEN v ELSE mix[h[i-1]]
        <3>1. CASE i = 1
            BY <1>2, <3>1
        <3>2. CASE i # 1
            <4>1. i-1 \in 1..Buckets
                BY <1>1, <3>2
            <4>2. h[i-1] = g[(i-1)-1]
                BY <4>1
            <4> QED
                BY <1>2, <3>2, <4>1, <4>2
        <3> QED
            BY <3>1, <3>2
    <2> QED
        BY <2>1 DEF KeyBody
<1> HIDE DEF h
<1>4. key = KeyBody(v, key)
    BY <1>3, Zenon
<1>5. Probes(v, sz) = ps
    BY Zenon DEF Probes, KeyBody
<1> HIDE DEF key
<1>6. \A i \in 1..Buckets : key[i] = IF i = 1 THEN v ELSE mix[key[i-1]]
    BY <1>4 DEF KeyBody
<1>7. ASSUME NEW j \in 1..Buckets, key[j] \notin HashKey
      PROVE  FALSE
    <2> DEFINE bad == {i \in 1..Buckets : key[i] \notin HashKey}
    <2>1. j \in bad /\ bad \subseteq Nat
        BY <1>7
    <2> HIDE DEF bad
    <2>2. PICK m \in bad : \A k \in bad : m <= k
        BY <2>1, LeastNat
    <2>3. m \in 1..Buckets /\ key[m] \notin HashKey
        BY <2>2 DEF bad
    <2>4. m # 1
        BY <1>6, <2>3
    <2>5. m-1 \in 1..Buckets /\ m-1 \notin bad
        BY <1>1, <2>2, <2>3, <2>4
    <2>6. key[m-1] \in HashKey
        BY <2>5 DEF bad
    <2> QED
        BY <1>6, <2>3, <2>4, <2>6
<1>8. \A i \in 1..Buckets : 1 + (key[i] % sz) \in 1..sz
    <2>1. ASSUME NEW i \in 1..Buckets
          PROVE  1 + (key[i] % sz) \in 1..sz
        <3>1. key[i] \in Nat
            BY <1>1, <1>7
        <3>2. PICK e : e = key[i]
            OBVIOUS
        <3>3. e \in Nat
            BY <3>1, <3>2
        <3>4. e % sz \in 0..sz-1
            BY <3>3
        <3>5. 1 + (e % sz) \in 1..sz
            BY <3>4
        <3> QED
            BY <3>2, <3>5
    <2> QED
        BY <2>1
<1>9. ps \in Seq(1..sz) /\ Len(ps) = Buckets /\ \A i \in 1..Buckets : ps[i] \in 1..sz
    <2>1. ps \in [1..Buckets -> 1..sz]
        BY <1>8
    <2> HIDE DEF ps
    <2> QED
        BY <1>1, <2>1
<1> QED
    BY <1>5, <1>9

(* The first slot on the way with some content, if there is one.           *)
LEMMA FirstWithIs ==
    ASSUME mix \in [HashKey -> HashKey], NEW v \in HashKey, NEW t, Len(t) \in Nat, Len(t) >= 1,
           NEW x
    PROVE  \/ FirstWith(t, v, x) = 0 /\ \A i \in 1..Buckets : t[Probes(v, Len(t))[i]] # x
           \/ /\ FirstWith(t, v, x) \in 1..Buckets
              /\ SlotOf(t, v, FirstWith(t, v, x)) \in 1..Len(t)
              /\ t[SlotOf(t, v, FirstWith(t, v, x))] = x
<1> DEFINE ps == Probes(v, Len(t))
           I  == {i \in 1..Len(ps) : t[ps[i]] = x}
<1>1. Len(ps) = Buckets /\ Buckets \in Nat /\ \A i \in 1..Buckets : ps[i] \in 1..Len(t)
    BY ProbesType, HashAssumption
<1>2. FirstWith(t, v, x) = IF I # {} THEN Min(I) ELSE 0
    BY DEF FirstWith, SelectInSeq
<1> HIDE DEF ps
<1>3. CASE I = {}
    BY <1>1, <1>2, <1>3 DEF ps
<1>4. CASE I # {}
    <2>1. I \subseteq Nat
        OBVIOUS
    <2>2. Min(I) \in I
        <3> HIDE DEF I
        <3>1. PICK m \in I : \A n \in I : m <= n
            BY <1>4, <2>1, LeastNat
        <3> QED
            BY <3>1 DEF Min
    <2> QED
        BY <1>1, <1>2, <1>4, <2>2 DEF ps, SlotOf
<1> QED
    BY <1>3, <1>4

(* A free slot on the way of a value takes it.                             *)
LEMMA FilledOK ==
    ASSUME mix \in [HashKey -> HashKey], NEW t, TableOK(t), NEW v \in Item,
           NEW i, i = FirstWith(t, v, Empty), i # 0
    PROVE  LET s == SlotOf(t, v, i)
           IN  /\ s \in 1..Len(t) /\ t[s] = Empty
               /\ TableOK([t EXCEPT ![s] = v]) /\ Len([t EXCEPT ![s] = v]) = Len(t)
<1> DEFINE s == SlotOf(t, v, i)
           u == [t EXCEPT ![s] = v]
<1>1. t \in Seq(Slot) /\ Len(t) \in Nat /\ Len(t) >= 1 /\ v \in HashKey
    <2>1. t \in Seq(Slot) /\ Len(t) >= 1
        BY DEF TableOK
    <2> QED
        BY <2>1, HashAssumption
<1>2. i \in 1..Buckets /\ s \in 1..Len(t) /\ t[s] = Empty
    BY <1>1, FirstWithIs
<1>3. Probes(v, Len(t))[i] = s
    BY DEF SlotOf
<1> HIDE DEF s
<1>4. v \in Slot
    BY DEF Slot
<1>5. /\ u \in Seq(Slot) /\ Len(u) = Len(t)
      /\ \A j \in 1..Len(t) : u[j] = IF j = s THEN v ELSE t[j]
    BY <1>1, <1>2, <1>4, ExceptSeq
<1> HIDE DEF u
<1>6. ASSUME NEW j \in 1..Len(u), u[j] # Empty
      PROVE  \E k \in 1..Buckets : Probes(u[j], Len(u))[k] = j
    <2>1. CASE j = s
        BY <1>2, <1>3, <1>5, <2>1
    <2>2. CASE j # s
        BY <1>5, <1>6, <2>2 DEF TableOK
    <2> QED
        BY <2>1, <2>2
<1>7. TableOK(u)
    BY <1>1, <1>5, <1>6 DEF TableOK
<1> QED
    BY <1>2, <1>5, <1>7 DEF s, u

(* A slot that is cleared leaves the others where they are.                *)
LEMMA ClearedOK ==
    ASSUME NEW t, TableOK(t), NEW s \in 1..Len(t)
    PROVE  /\ TableOK([t EXCEPT ![s] = Empty]) /\ Len([t EXCEPT ![s] = Empty]) = Len(t)
<1> DEFINE u == [t EXCEPT ![s] = Empty]
<1>1. t \in Seq(Slot) /\ Len(t) >= 1 /\ Empty \in Slot
    BY DEF TableOK, Slot
<1>2. /\ u \in Seq(Slot) /\ Len(u) = Len(t)
      /\ \A j \in 1..Len(t) : u[j] = IF j = s THEN Empty ELSE t[j]
    BY <1>1, ExceptSeq
<1> HIDE DEF u
<1>3. ASSUME NEW j \in 1..Len(u), u[j] # Empty
      PROVE  \E k \in 1..Buckets : Probes(u[j], Len(u))[k] = j
    BY <1>2, <1>3 DEF TableOK
<1>4. TableOK(u)
    BY <1>1, <1>2, <1>3 DEF TableOK
<1> QED
    BY <1>2, <1>4 DEF u

(* A new table has nothing in it.                                          *)
LEMMA NewOK ==
    ASSUME NEW n \in Nat, n >= 1
    PROVE  TableOK(NewTable(n)) /\ Len(NewTable(n)) = n
<1>1. /\ NewTable(n) \in Seq(Slot) /\ Len(NewTable(n)) = n
      /\ \A j \in 1..n : NewTable(n)[j] = Empty
    BY DEF NewTable, Slot
<1> QED
    BY <1>1 DEF TableOK

(* A table that is filled again, of more than n slots.                     *)
Work(n) ==
    {w \in [table : Seq(Slot), todo : Seq(Slot)] : TableOK(w.table) /\ Len(w.table) > n}

(* A round of the loop keeps every value where it is found.                *)
LEMMA RoundOK ==
    ASSUME mix \in [HashKey -> HashKey], NEW n \in Nat, NEW w \in Work(n)
    PROVE  Round(w) \in Work(n)
<1>1. /\ w = [table |-> w.table, todo |-> w.todo]
      /\ w.table \in Seq(Slot) /\ w.todo \in Seq(Slot)
      /\ TableOK(w.table) /\ Len(w.table) > n
    BY DEF Work
<1> DEFINE b == Head(w.todo)
           i == FirstWith(w.table, b, Empty)
<1>2. CASE w.todo = << >>
    BY <1>2 DEF Round
<1>3. CASE w.todo # << >> /\ b = Empty
    <2>1. Round(w) = [table |-> w.table, todo |-> Tail(w.todo)]
        BY <1>1, <1>3 DEF Round
    <2>2. Tail(w.todo) \in Seq(Slot)
        BY <1>1, <1>3
    <2> QED
        BY <1>1, <2>1, <2>2 DEF Work
<1>4. CASE w.todo # << >> /\ b # Empty /\ i # 0
    <2> DEFINE u == [w.table EXCEPT ![SlotOf(w.table, b, i)] = b]
    <2>1. Round(w) = [table |-> u, todo |-> Tail(w.todo)]
        BY <1>4 DEF Round
    <2>2. Tail(w.todo) \in Seq(Slot) /\ b \in Item
        BY <1>1, <1>4 DEF Slot
    <2>3. TableOK(u) /\ Len(u) = Len(w.table)
        BY <1>1, <1>4, <2>2, FilledOK
    <2> HIDE DEF u
    <2>4. u \in Seq(Slot)
        BY <2>3 DEF TableOK
    <2> QED
        BY <1>1, <2>1, <2>2, <2>3, <2>4 DEF Work
<1>5. CASE w.todo # << >> /\ b # Empty /\ i = 0
    <2> DEFINE m == 2 * Len(w.table)
               u == NewTable(m)
    <2>1. Round(w) = [table |-> u, todo |-> w.table \o Tail(w.todo)]
        BY <1>5 DEF Round
    <2>2. m \in Nat /\ m >= 1 /\ m > n
        BY <1>1
    <2> HIDE DEF m
    <2>3. TableOK(u) /\ Len(u) = m
        BY <2>2, NewOK
    <2>4. w.table \o Tail(w.todo) \in Seq(Slot)
        BY <1>1, <1>5
    <2> HIDE DEF u
    <2>5. u \in Seq(Slot)
        BY <2>3 DEF TableOK
    <2> QED
        BY <2>1, <2>2, <2>3, <2>4, <2>5 DEF Work
<1> QED
    BY <1>2, <1>3, <1>4, <1>5

RefillBody(t, f) ==
    [k \in 0..MaxRounds |->
        IF k = 0 THEN [table |-> NewTable(2 * Len(t)), todo |-> t] ELSE Round(f[k-1])]

(* So does the loop.                                                       *)
LEMMA RefillOK ==
    ASSUME mix \in [HashKey -> HashKey], NEW t, TableOK(t)
    PROVE  Refill(t) \in Work(Len(t))
<1> DEFINE n == Len(t)
           W == Work(n)
           x == [table |-> NewTable(2 * n), todo |-> t]
           f == [w \in W |-> Round(w)]
           round == CHOOSE h : h = RefillBody(t, h)
<1>1. t \in Seq(Slot) /\ n \in Nat /\ n >= 1 /\ MaxRounds \in Nat
    <2>1. t \in Seq(Slot) /\ Len(t) >= 1
        BY DEF TableOK
    <2> QED
        BY <2>1, HashAssumption
<1>2. x \in W
    <2>1. 2 * n \in Nat /\ 2 * n >= 1 /\ 2 * n > n
        BY <1>1
    <2>2. TableOK(NewTable(2 * n)) /\ Len(NewTable(2 * n)) = 2 * n
        BY <2>1, NewOK
    <2>3. NewTable(2 * n) \in Seq(Slot)
        BY <2>2 DEF TableOK
    <2> QED
        BY <1>1, <2>1, <2>2, <2>3 DEF Work
<1>3. f \in [W -> W]
    BY <1>1, RoundOK
<1> HIDE DEF W, f, x, n
<1>4. PICK g \in [0..MaxRounds -> W] : g[0] = x /\ \A k \in 1..MaxRounds : g[k] = f[g[k-1]]
    <2>1. Iterated(W, f, x, MaxRounds) # {}
        BY <1>1, <1>2, <1>3, Iterates
    <2> QED
        BY <2>1 DEF Iterated
<1>5. \A k \in 1..MaxRounds : g[k] = Round(g[k-1])
    <2>1. ASSUME NEW k \in 1..MaxRounds
          PROVE  g[k] = Round(g[k-1])
        <3>1. g[k-1] \in W
            BY <1>1
        <3> QED
            BY <1>4, <3>1 DEF f
    <2> QED
        BY <2>1
<1>6. g = RefillBody(t, g)
    <2>1. \A k \in 0..MaxRounds :
              g[k] = IF k = 0 THEN [table |-> NewTable(2 * Len(t)), todo |-> t]
                              ELSE Round(g[k-1])
        BY <1>4, <1>5 DEF x, n
    <2> QED
        BY <2>1 DEF RefillBody
<1>7. round = RefillBody(t, round)
    BY <1>6, Zenon
<1>8. Refill(t) = round[MaxRounds]
    BY Zenon DEF Refill, RefillBody
<1> HIDE DEF round
<1>9. /\ round[0] = x
      /\ \A k \in 1..MaxRounds : round[k] = Round(round[k-1])
    <2>1. 0 \in 0..MaxRounds /\ \A k \in 1..MaxRounds : k \in 0..MaxRounds /\ k # 0
        BY <1>1
    <2> QED
        BY <1>7, <2>1 DEF RefillBody, x, n
<1>10. ASSUME round[MaxRounds] \notin W
       PROVE  FALSE
    <2> DEFINE bad == {k \in 0..MaxRounds : round[k] \notin W}
    <2>1. MaxRounds \in bad /\ bad \subseteq Nat
        BY <1>1, <1>10
    <2> HIDE DEF bad
    <2>2. PICK m \in bad : \A k \in bad : m <= k
        BY <2>1, LeastNat
    <2>3. m \in 0..MaxRounds /\ round[m] \notin W
        BY <2>2 DEF bad
    <2>4. m # 0
        BY <1>2, <1>9, <2>3
    <2>5. m-1 \in 0..MaxRounds /\ m-1 \notin bad /\ m \in 1..MaxRounds
        BY <1>1, <2>2, <2>3, <2>4
    <2>6. round[m-1] \in W
        BY <2>5 DEF bad
    <2>7. Round(round[m-1]) \in W
        BY <1>1, <2>6, RoundOK DEF W
    <2> QED
        BY <1>9, <2>3, <2>5, <2>7
<1> QED
    BY <1>8, <1>10 DEF W, n

(* How many copies there are when one slot changes.                        *)
LEMMA CopiesPut ==
    ASSUME NEW t \in Seq(Slot), NEW s \in 1..Len(t), NEW b \in Slot, t[s] # b, NEW v
    PROVE  /\ Copies(t, v) \in Nat
           /\ t[s] = v => Copies(t, v) > 0
           /\ Copies([t EXCEPT ![s] = b], v) =
                  IF v = b THEN Copies(t, v) + 1
                  ELSE IF v = t[s] THEN Copies(t, v) - 1 ELSE Copies(t, v)
<1> DEFINE u == [t EXCEPT ![s] = b]
           C == {j \in DOMAIN t : t[j] = v}
           D == {j \in DOMAIN u : u[j] = v}
<1>1. /\ DOMAIN t = 1..Len(t) /\ Len(t) \in Nat /\ DOMAIN u = 1..Len(t)
      /\ \A j \in 1..Len(t) : u[j] = IF j = s THEN b ELSE t[j]
    OBVIOUS
<1>2. IsFiniteSet(C) /\ Cardinality(C) \in Nat
    <2>1. IsFiniteSet(1..Len(t))
        BY <1>1, FS_Interval
    <2>2. C \in SUBSET (1..Len(t))
        BY <1>1
    <2> HIDE DEF C
    <2>3. IsFiniteSet(C)
        BY <2>1, <2>2, FS_Subset
    <2> QED
        BY <2>3, FS_CardinalityType
<1> HIDE DEF u
<1>3. CASE v = b
    <2>1. D = C \cup {s} /\ s \notin C
        BY <1>1, <1>3
    <2> HIDE DEF C, D
    <2>2. Cardinality(D) = Cardinality(C) + 1
        BY <1>2, <2>1, FS_AddElement
    <2> QED
        BY <1>2, <1>3, <2>2 DEF Copies, C, D, u
<1>4. CASE v # b /\ v = t[s]
    <2>1. D = C \ {s} /\ s \in C
        BY <1>1, <1>4
    <2> HIDE DEF C, D
    <2>2. Cardinality(D) = Cardinality(C) - 1
        BY <1>2, <2>1, FS_RemoveElement
    <2>3. Cardinality(C) # 0
        BY <1>2, <2>1, FS_EmptySet
    <2>4. Cardinality(C) > 0
        BY <1>2, <2>3
    <2> QED
        BY <1>2, <1>4, <2>2, <2>4 DEF Copies, C, D, u
<1>5. CASE v # b /\ v # t[s]
    <2>1. D = C
        BY <1>1, <1>5
    <2> QED
        BY <1>2, <1>5, <2>1 DEF Copies, u
<1> QED
    BY <1>3, <1>4, <1>5

(* What stands on its way is found.                                        *)
LEMMA InvFound == HashInv => StoredIsFound
<1> SUFFICES ASSUME HashInv, NEW s \in DOMAIN data, data[s] # Empty
             PROVE  Get(data[s]) = data[s]
    BY DEF StoredIsFound
<1>1. /\ mix \in [HashKey -> HashKey] /\ data \in Seq(Slot) /\ Len(data) >= 1
      /\ \A j \in 1..Len(data) :
             data[j] # Empty => \E i \in 1..Buckets : Probes(data[j], Len(data))[i] = j
    BY DEF HashInv, TableOK
<1>2. s \in 1..Len(data) /\ Len(data) \in Nat
    BY <1>1
<1>3. PICK v : v = data[s]
    OBVIOUS
<1>4. v \in Item /\ v \in HashKey
    <2>1. data[s] \in Slot
        BY <1>1, <1>2
    <2>2. v \in Item
        BY <1>3, <2>1 DEF Slot
    <2> QED
        BY <2>2, HashAssumption
<1>5. PICK i \in 1..Buckets : Probes(v, Len(data))[i] = s
    BY <1>1, <1>2, <1>3
<1>6. FirstWith(data, v, v) # 0
    BY <1>1, <1>2, <1>3, <1>4, <1>5, FirstWithIs
<1> QED
    BY <1>3, <1>6 DEF Get

(* A call changes the copies of its own value only, as it should.          *)
CopiesRight ==
    Len(data') = Len(data) =>
        \A v \in Item : Copies(data', v) = Copies(data, v) + Difference(v)

(* aodbm_hash_insert.                                                      *)
LEMMA InsertStep ==
    ASSUME HashInv, NEW v \in Item, Insert(v)
    PROVE  HashInv' /\ CopiesRight
<1> DEFINE i == FirstWith(data, v, Empty)
           s == SlotOf(data, v, i)
           w == Refill(data)
<1>1. /\ mix \in [HashKey -> HashKey] /\ TableOK(data) /\ data \in Seq(Slot)
      /\ Len(data) \in Nat /\ Empty \notin Item /\ v \in Slot
    <2>1. mix \in [HashKey -> HashKey] /\ TableOK(data) /\ data \in Seq(Slot)
        BY DEF HashInv, TableOK
    <2> QED
        BY <2>1, HashAssumption DEF Slot
<1>2. /\ mix' = mix /\ did' = [call |-> "insert", val |-> v]
      /\ \/ i # 0 /\ data' = [data EXCEPT ![s] = v]
         \/ i = 0 /\ w.todo = << >> /\ data' = w.table
    BY DEF Insert
<1>3. \A t : TableOK(t) /\ data' = t => HashInv'
    <2>1. ASSUME NEW t, TableOK(t), data' = t
          PROVE  HashInv'
        <3>1. \A p, n : Probes(p, n)' = Probes(p, n)
            BY <1>2 DEF Probes
        <3> QED
            BY <1>1, <1>2, <2>1, <3>1 DEF HashInv, TableOK
    <2> QED
        BY <2>1
<1>4. CASE i # 0 /\ data' = [data EXCEPT ![s] = v]
    <2> DEFINE u == [data EXCEPT ![s] = v]
    <2>1. s \in 1..Len(data) /\ data[s] = Empty /\ TableOK(u)
        BY <1>1, <1>4, FilledOK
    <2>2. HashInv'
        BY <1>3, <1>4, <2>1
    <2>3. ASSUME NEW x \in Item
          PROVE  Copies(data', x) = Copies(data, x) + Difference(x)
        <3>1. Copies(u, x) = IF x = v THEN Copies(data, x) + 1 ELSE Copies(data, x)
            <4>1. data[s] # v /\ x # Empty
                BY <1>1, <2>1
            <4> HIDE DEF s, i
            <4>2. Copies(u, x) = IF x = v THEN Copies(data, x) + 1
                                 ELSE IF x = data[s] THEN Copies(data, x) - 1 ELSE Copies(data, x)
                BY <1>1, <2>1, <4>1, CopiesPut
            <4> QED
                BY <2>1, <4>1, <4>2
        <3>2. Copies(data, x) \in Nat
            BY <1>1, <2>1, CopiesPut
        <3>3. Difference(x) = IF x = v THEN 1 ELSE 0
            BY <1>2 DEF Difference
        <3> QED
            BY <1>4, <3>1, <3>2, <3>3
    <2> QED
        BY <2>2, <2>3 DEF CopiesRight
<1>5. CASE i = 0 /\ w.todo = << >> /\ data' = w.table
    <2>1. w \in Work(Len(data))
        BY <1>1, RefillOK
    <2> HIDE DEF w
    <2>2. TableOK(w.table) /\ Len(w.table) > Len(data) /\ w.table \in Seq(Slot)
        BY <2>1 DEF Work
    <2>3. HashInv'
        BY <1>3, <1>5, <2>2
    <2>4. Len(w.table) # Len(data)
        BY <1>1, <2>2
    <2> QED
        BY <1>5, <2>3, <2>4 DEF CopiesRight
<1> QED
    BY <1>2, <1>4, <1>5

(* aodbm_hash_del.                                                         *)
LEMMA DelStep ==
    ASSUME HashInv, NEW v \in Item, Del(v)
    PROVE  HashInv' /\ CopiesRight
<1> DEFINE i == FirstWith(data, v, v)
           s == SlotOf(data, v, i)
<1>1. /\ mix \in [HashKey -> HashKey] /\ TableOK(data) /\ data \in Seq(Slot)
      /\ Len(data) \in Nat /\ Len(data) >= 1
      /\ Empty \notin Item /\ v \in HashKey /\ Empty \in Slot
    <2>1. mix \in [HashKey -> HashKey] /\ TableOK(data) /\ data \in Seq(Slot) /\ Len(data) >= 1
        BY DEF HashInv, TableOK
    <2> QED
        BY <2>1, HashAssumption DEF Slot
<1>2. /\ mix' = mix /\ did' = [call |-> "del", val |-> v]
      /\ data' = IF i = 0 THEN data ELSE [data EXCEPT ![s] = Empty]
    BY DEF Del
<1>3. \A p, n : Probes(p, n)' = Probes(p, n)
    BY <1>2 DEF Probes
<1>4. CASE i = 0
    <2>1. \A j \in 1..Buckets : data[Probes(v, Len(data))[j]] # v
        BY <1>1, <1>4, FirstWithIs
    <2>2. \A j \in 1..Len(data) : data[j] # v
        <3>1. ASSUME NEW j \in 1..Len(data), data[j] = v
              PROVE  FALSE
            <4>1. data[j] # Empty
                BY <1>1, <3>1
            <4>2. PICK k \in 1..Buckets : Probes(data[j], Len(data))[k] = j
                BY <1>1, <4>1 DEF TableOK
            <4> QED
                BY <2>1, <3>1, <4>2
        <3> QED
            BY <3>1
    <2>3. Copies(data, v) = 0
        <3>1. {j \in DOMAIN data : data[j] = v} = {}
            BY <1>1, <2>2
        <3> QED
            BY <3>1, FS_EmptySet DEF Copies
    <2>4. data' = data
        BY <1>2, <1>4
    <2>5. HashInv'
        BY <1>1, <1>2, <1>3, <2>4 DEF HashInv, TableOK
    <2>6. ASSUME NEW x \in Item
          PROVE  Copies(data', x) = Copies(data, x) + Difference(x)
        <3>1. Copies(data, x) \in Nat
            <4>1. 1 \in 1..Len(data)
                BY <1>1
            <4>2. PICK b \in Slot : data[1] # b
                <5>1. data[1] # v /\ v \in Slot
                    BY <2>2, <4>1 DEF Slot
                <5> QED
                    BY <5>1
            <4> QED
                BY <1>1, <4>1, <4>2, CopiesPut
        <3>2. Difference(x) = 0
            BY <1>2, <2>3 DEF Difference
        <3> QED
            BY <2>4, <3>1, <3>2
    <2> QED
        BY <2>5, <2>6 DEF CopiesRight
<1>5. CASE i # 0
    <2> DEFINE u == [data EXCEPT ![s] = Empty]
    <2>1. s \in 1..Len(data) /\ data[s] = v
        BY <1>1, <1>5, FirstWithIs
    <2>2. data' = u
        BY <1>2, <1>5
    <2> HIDE DEF s, i
    <2>3. TableOK(u)
        BY <1>1, <2>1, ClearedOK
    <2>4. HashInv'
        <3>1. PICK t : t = u /\ TableOK(t)
            BY <2>3
        <3> QED
            BY <1>1, <1>2, <1>3, <2>2, <3>1 DEF HashInv, TableOK
    <2>5. ASSUME NEW x \in Item
          PROVE  Copies(data', x) = Copies(data, x) + Difference(x)
        <3>1. x # Empty /\ data[s] # Empty
            BY <1>1, <2>1
        <3>2. /\ Copies(data, x) \in Nat /\ (x = v => Copies(data, x) > 0)
              /\ Copies(u, x) = IF x = v THEN Copies(data, x) - 1 ELSE Copies(data, x)
            BY <1>1, <2>1, <3>1, CopiesPut
        <3>3. Difference(x) = IF x = v THEN -1 ELSE 0
            <4>1. CASE x # v
                BY <1>2, <4>1 DEF Difference
            <4>2. CASE x = v
                BY <1>2, <3>2, <4>2 DEF Difference
            <4> QED
                BY <4>1, <4>2
        <3> QED
            BY <2>2, <3>2, <3>3
    <2> QED
        BY <2>4, <2>5 DEF CopiesRight
<1> QED
    BY <1>4, <1>5

(* aodbm_new_hash.                                                         *)
LEMMA HashStart == HashInit => HashInv
<1> SUFFICES ASSUME HashInit
             PROVE  HashInv
    OBVIOUS
<1>1. mix \in [HashKey -> HashKey]
    BY HashAssumption DEF HashInit
<1>2. PICK sz \in FirstSizes : data = NewTable(sz)
    BY DEF HashInit
<1>3. sz \in Nat /\ sz >= 1
    BY HashAssumption
<1> QED
    BY <1>1, <1>2, <1>3, NewOK DEF HashInv

(* Nothing changes when no call is made.                                   *)
LEMMA HashStutter == HashInv /\ UNCHANGED hashVars => HashInv'
<1> SUFFICES ASSUME HashInv, UNCHANGED hashVars
             PROVE  HashInv'
    OBVIOUS
<1>1. mix' = mix /\ data' = data
    BY DEF hashVars
<1>2. \A p, n : Probes(p, n)' = Probes(p, n)
    BY <1>1 DEF Probes
<1> QED
    BY <1>1, <1>2 DEF HashInv, TableOK

(* Each value in a table of src/aodbm_hash.c is at a slot that its own     *)
(* probes lead to, also after deletions and doublings.                     *)
THEOREM HashInvInvariant == HashSpec => []HashInv
<1>1. HashInit => HashInv
    BY HashStart
<1>2. HashInv /\ [HashNext]_hashVars => HashInv'
    BY InsertStep, DelStep, HashStutter DEF HashNext
<1> QED
    BY <1>1, <1>2, PTL DEF HashSpec

(* aodbm_hash_get finds what is in the table, aodbm_hash_del takes away    *)
(* one copy of its value if there is one, and aodbm_hash_insert adds one   *)
(* where it finds a slot.                                                  *)
THEOREM TableRight == HashSpec => TableIsBag
<1> DEFINE A == /\ StoredIsFound'
                /\ Len(data') = Len(data) =>
                      \A v \in Item : Copies(data', v) = Copies(data, v) + Difference(v)
<1>1. HashInv' => StoredIsFound'
    BY InvFound, PTL
<1>2. HashInv /\ HashInv' /\ [HashNext]_hashVars => [A]_hashVars
    <2> SUFFICES ASSUME HashInv, HashInv', HashNext
                 PROVE  A
        OBVIOUS
    <2>1. CopiesRight
        BY InsertStep, DelStep DEF HashNext
    <2> QED
        BY <1>1, <2>1 DEF CopiesRight
<1>3. HashSpec => [][A]_hashVars
    BY <1>2, HashInvInvariant, PTL DEF HashSpec
<1> QED
    BY <1>3 DEF TableIsBag
=============================================================================
