---------------------------- MODULE AodbmPythonProofs ----------------------------
(***************************************************************************)
(* What the reference counts of the Python wrapper are good for: nothing a *)
(* thread refers to goes, the handle is open as long as anything uses it,  *)
(* and a Version object that one thread has keeps every change made to it  *)
(* in place, however many threads, objects, keys and versions there are.   *)
(***************************************************************************)
EXTENDS AodbmPython, TLAPS

Change == [obj : Object, op : Ops, key : Key, ver : Nat, done : BOOLEAN]

(* The versions in the library: a version and the one before it are there. *)
MapTypes ==
    /\ map \in Seq(SUBSET Key) /\ prev \in Seq(Nat) /\ Len(prev) = Len(map)
    /\ \A i \in 1..Len(map) : prev[i] \in 0..Len(map)
    /\ cur \in 0..Len(map)

(* The objects of the program: each has its version, an iterator its       *)
(* Version object, a change in place its Version object and its version.   *)
ObjectTypes ==
    /\ DOMAIN ver \subseteq Object /\ ver \in [DOMAIN ver -> 0..Len(map)]
    /\ want = [o \in DOMAIN ver |-> want[o]]
    /\ DOMAIN its \subseteq Iterator /\ its \in [DOMAIN its -> DOMAIN ver]
    /\ held \in [Thread -> SUBSET ({Db} \cup Object \cup Iterator)]
    /\ call \in [Thread -> {<< >>} \cup {<<c>> : c \in Change}]
    /\ shared \in BOOLEAN

InCall(t) == call[t] # << >>

CallTypes ==
    \A t \in Thread : InCall(t) =>
        /\ Head(call[t]).obj \in DOMAIN ver
        /\ Head(call[t]).ver \in 0..Len(map)

(* What is referred to is there, and the handle is open for it.            *)
HeldInv ==
    /\ \A t \in Thread : held[t] \subseteq {Db} \cup DOMAIN ver \cup DOMAIN its
    /\ (DOMAIN ver # {} \/ \E t \in Thread : Db \in held[t]) => handle = "open"

(* Threads that do not share have each their own Version objects.          *)
Refers(t, o) == o \in held[t] \/ (InCall(t) /\ Head(call[t]).obj = o)

OwnInv ==
    ~shared => \A t, u \in Thread, o \in Object :
                   Refers(t, o) /\ Refers(u, o) => t = u

(* The keys that op makes of keys.                                         *)
Applied(op, keys, k) == IF op = "set" THEN keys \cup {k} ELSE keys \ {k}

(* A change in place is of a version that has every earlier one, and has   *)
(* its own once it is made.                                                *)
CallKept ==
    ~shared => \A t \in Thread : InCall(t) =>
        LET c == Head(call[t]) IN
        Keys(c.ver) = IF c.done THEN Applied(c.op, want[c.obj], c.key)
                                ELSE want[c.obj]

PyTypes == MapTypes /\ ObjectTypes /\ CallTypes

PyInv == PyTypes /\ HeldInv /\ OwnInv /\ InPlaceKept /\ CallKept

-----------------------------------------------------------------------------
(* What a call makes.                                                      *)

(* A version keeps its keys while others are made: map only grows at its   *)
(* end.                                                                    *)
LEMMA KeysStay ==
    ASSUME MapTypes, NEW x, NEW v \in 0..Len(map),
           map' = map \/ map' = Append(map, x)
    PROVE  Keys(v)' = Keys(v)
<1>1. v # 0 => v \in 1..Len(map)
    OBVIOUS
<1>2. v # 0 => map'[v] = map[v]
    <2>1. map \in Seq(SUBSET Key)
        BY DEF MapTypes
    <2>2. CASE map' = map
        BY <2>2
    <2>3. CASE map' = Append(map, x)
        BY <1>1, <2>1, <2>3
    <2> QED
        BY <2>2, <2>3
<1> QED
    BY <1>2 DEF Keys

(* The keys of a version are keys.                                         *)
LEMMA KeysAreKeys ==
    ASSUME MapTypes, NEW v \in 0..Len(map)
    PROVE  Keys(v) \subseteq Key
<1>1. v # 0 => map[v] \in SUBSET Key
    <2>1. map \in Seq(SUBSET Key)
        BY DEF MapTypes
    <2> QED
        BY <2>1
<1> QED
    BY <1>1 DEF Keys

(* aodbm_set and aodbm_del answer a version that is there and has the keys *)
(* of the one they were given, changed; every older version is as it was.  *)
LEMMA MakeMakes ==
    ASSUME MapTypes, NEW t, NEW op \in Ops, NEW k \in Key,
           NEW v \in 0..Len(map), Make(t, op, v, k), cur' = cur
    PROVE  /\ MapTypes'
           /\ Len(map) \in Nat /\ Len(map)' \in Nat /\ Len(map) <= Len(map)'
           /\ Made(op, v, k) \in 0..Len(map)'
           /\ (IF Made(op, v, k) = 0 THEN {} ELSE map'[Made(op, v, k)])
                 = Applied(op, Keys(v), k)
           /\ \A w \in 0..Len(map) : (IF w = 0 THEN {} ELSE map'[w]) = Keys(w)
<1> DEFINE new == After(op, v, k)
<1>1. /\ map \in Seq(SUBSET Key) /\ prev \in Seq(Nat) /\ Len(prev) = Len(map)
      /\ Len(map) \in Nat
    BY DEF MapTypes
<1>2. new = Applied(op, Keys(v), k)
    BY DEF After, Applied
<1>3. new \in SUBSET Key
    BY KeysAreKeys DEF After
<1>4. map' = map \/ map' = Append(map, new)
    BY DEF Make
<1>5. \A w \in 0..Len(map) : (IF w = 0 THEN {} ELSE map'[w]) = Keys(w)
    <2> SUFFICES ASSUME NEW w \in 0..Len(map)
                 PROVE  Keys(w)' = Keys(w)
        BY DEF Keys
    <2> QED
        BY <1>4, KeysStay
<1>6. CASE op = "del" /\ k \notin Keys(v)
    <2>1. map' = map /\ prev' = prev /\ Made(op, v, k) = v
        BY <1>6 DEF Make, Made
    <2>2. MapTypes'
        BY <2>1 DEF MapTypes
    <2>3. Applied(op, Keys(v), k) = Keys(v)
        BY <1>6 DEF Applied
    <2> QED
        BY <1>1, <1>5, <2>1, <2>2, <2>3
<1>7. CASE ~(op = "del" /\ k \notin Keys(v))
    <2>1. /\ map' = Append(map, new) /\ prev' = Append(prev, v)
          /\ Made(op, v, k) = Len(map) + 1
        BY <1>7 DEF Make, Made
    <2>2. /\ map' \in Seq(SUBSET Key) /\ prev' \in Seq(Nat)
          /\ Len(map') = Len(map) + 1 /\ Len(prev') = Len(map) + 1
          /\ map'[Len(map) + 1] = new
        BY <1>1, <1>3, <2>1
    <2>3. \A i \in 1..Len(map') : prev'[i] \in 0..Len(map')
        <3> SUFFICES ASSUME NEW i \in 1..Len(map')
                     PROVE  prev'[i] \in 0..Len(map')
            OBVIOUS
        <3>1. CASE i = Len(map) + 1
            BY <1>1, <2>1, <2>2, <3>1
        <3>2. CASE i \in 1..Len(map)
            <4>1. prev'[i] = prev[i]
                BY <1>1, <2>1, <3>2
            <4>2. prev[i] \in 0..Len(map)
                BY <3>2 DEF MapTypes
            <4> QED
                BY <1>1, <2>2, <4>1, <4>2
        <3> QED
            BY <1>1, <2>2, <3>1, <3>2
    <2>4. MapTypes'
        <3>1. cur' \in 0..Len(map')
            BY <1>1, <2>2 DEF MapTypes
        <3> QED
            BY <2>2, <2>3, <3>1 DEF MapTypes
    <2> QED
        BY <1>1, <1>2, <1>5, <2>1, <2>2, <2>4
<1> QED
    BY <1>6, <1>7

-----------------------------------------------------------------------------
(* Steps that make an object, drop one, or do neither.                     *)

(* A change in place is a record of its object, key and version.           *)
LEMMA CallsAre ==
    ASSUME ObjectTypes, NEW t \in Thread, InCall(t)
    PROVE  /\ Head(call[t]) \in Change
           /\ call[t] = <<Head(call[t])>>
<1>1. call[t] \in {<<c>> : c \in Change}
    BY DEF ObjectTypes, InCall
<1>2. PICK c \in Change : call[t] = <<c>>
    BY <1>1
<1>3. Head(<<c>>) = c
    OBVIOUS
<1> QED
    BY <1>2, <1>3

(* The Version objects that changes in place are of.                       *)
LEMMA FramesAre ==
    Frames = {Head(call[t]).obj : t \in {u \in Thread : InCall(u)}}
BY DEF Frames, InCall

(* A step that leaves the objects and what refers to them alone, and only  *)
(* adds versions, keeps the invariant.                                     *)
LEMMA SameObjects ==
    ASSUME PyInv, UNCHANGED <<handle, ver, its, held, call, want, shared>>,
           MapTypes', Len(map) \in Nat, Len(map)' \in Nat, Len(map) <= Len(map)',
           \A w \in 0..Len(map) : (IF w = 0 THEN {} ELSE map'[w]) = Keys(w)
    PROVE  PyInv'
<1> USE DEF PyInv, PyTypes
<1>1. ObjectTypes'
    <2>1. ver \in [DOMAIN ver -> 0..Len(map)'] 
        <3>1. \A o \in DOMAIN ver : ver[o] \in 0..Len(map)'
            BY DEF ObjectTypes
        <3> QED
            BY <3>1 DEF ObjectTypes
    <2> QED
        BY <2>1 DEF ObjectTypes
<1>2. CallTypes'
    BY DEF CallTypes, InCall
<1>3. HeldInv' /\ OwnInv'
    BY DEF HeldInv, OwnInv, Refers, InCall
<1>4. InPlaceKept'
    <2>1. Frames' = Frames
        BY DEF Frames
    <2>2. \A o \in DOMAIN ver : ver[o] \in 0..Len(map)
        BY DEF ObjectTypes
    <2>3. \A o \in DOMAIN ver : Keys(ver[o])' = Keys(ver[o])
        BY <2>2 DEF Keys
    <2> QED
        BY <2>1, <2>3 DEF InPlaceKept
<1>5. CallKept'
    <2>1. \A t \in Thread : InCall(t) => Keys(Head(call[t]).ver)' = Keys(Head(call[t]).ver)
        BY DEF CallTypes, Keys
    <2> QED
        BY <2>1 DEF CallKept, InCall
<1> QED
    BY <1>1, <1>2, <1>3, <1>4, <1>5

(* A step that makes a Version object of a version that is there, and      *)
(* gives it to the thread that asked, keeps the invariant.                 *)
LEMMA ObjectMade ==
    ASSUME PyInv, UNCHANGED <<handle, shared>>, handle = "open",
           MapTypes', Len(map) \in Nat, Len(map)' \in Nat, Len(map) <= Len(map)',
           \A w \in 0..Len(map) : (IF w = 0 THEN {} ELSE map'[w]) = Keys(w),
           NEW t \in Thread, NEW o \in Object,
           NEW v \in 0..Len(map)', NEW keys, NewVersion(t, o, v, keys),
           (IF v = 0 THEN {} ELSE map'[v]) = keys
    PROVE  PyInv'
<1> USE DEF PyInv, PyTypes
<1>1. /\ o \notin DOMAIN ver /\ UNCHANGED <<its, call>>
      /\ DOMAIN ver' = DOMAIN ver \cup {o} /\ DOMAIN want' = DOMAIN want \cup {o}
      /\ ver'[o] = v /\ want'[o] = keys
      /\ \A p \in DOMAIN ver : ver'[p] = ver[p] /\ want'[p] = want[p]
    BY DEF NewVersion, Put, ObjectTypes
<1>2. ver' = [p \in DOMAIN ver' |-> ver'[p]] /\ want' = [p \in DOMAIN ver' |-> want'[p]]
    <2>1. DOMAIN want = DOMAIN ver
        BY DEF ObjectTypes
    <2> QED
        BY <1>1, <2>1 DEF NewVersion, Put
<1>3. /\ held' \in [Thread -> SUBSET ({Db} \cup Object \cup Iterator)]
      /\ held'[t] = held[t] \cup {o}
      /\ \A u \in Thread : u # t => held'[u] = held[u]
    BY DEF NewVersion, ObjectTypes
<1>4. o \notin Iterator /\ o # Db
    BY PythonAssumption
<1>5. \A u \in Thread : o \notin held[u]
    BY <1>1, <1>4 DEF HeldInv, ObjectTypes
<1>6. \A u \in Thread : InCall(u) => Head(call[u]).obj # o
    BY <1>1 DEF CallTypes
<1>7. ObjectTypes'
    <2>1. \A p \in DOMAIN ver' : ver'[p] \in 0..Len(map)'
        BY <1>1 DEF ObjectTypes
    <2>2. ver' \in [DOMAIN ver' -> 0..Len(map)']
        BY <1>2, <2>1
    <2>3. its' \in [DOMAIN its' -> DOMAIN ver']
        BY <1>1 DEF ObjectTypes
    <2> QED
        BY <1>1, <1>2, <1>3, <2>2, <2>3 DEF ObjectTypes
<1>8. CallTypes'
    BY <1>1 DEF CallTypes, InCall
<1>9. HeldInv'
    <2>1. \A u \in Thread : held'[u] \subseteq {Db} \cup DOMAIN ver' \cup DOMAIN its'
        BY <1>1, <1>3 DEF HeldInv
    <2> QED
        BY <2>1 DEF HeldInv
<1>10. OwnInv'
    <2> SUFFICES ASSUME ~shared, NEW u \in Thread, NEW w \in Thread, NEW p \in Object,
                        Refers(u, p)', Refers(w, p)'
                 PROVE  u = w
        BY DEF OwnInv
    <2>1. CASE p = o
        BY <1>1, <1>3, <1>5, <1>6, <2>1 DEF Refers, InCall
    <2>2. CASE p # o
        <3>1. Refers(u, p) /\ Refers(w, p)
            BY <1>1, <1>3, <2>2 DEF Refers, InCall
        <3> QED
            BY <3>1 DEF OwnInv
    <2> QED
        BY <2>1, <2>2
<1>11. InPlaceKept'
    <2> SUFFICES ASSUME ~shared, NEW p \in DOMAIN ver' \ Frames'
                 PROVE  Keys(ver[p])' = want'[p]
        BY DEF InPlaceKept
    <2>1. Frames' = Frames
        BY <1>1 DEF Frames
    <2>2. CASE p = o
        BY <1>1, <2>2 DEF Keys
    <2>3. CASE p \in DOMAIN ver
        <3>1. Keys(ver[p]) = want[p]
            BY <2>1, <2>3 DEF InPlaceKept
        <3>2. ver[p] \in 0..Len(map)
            BY <2>3 DEF ObjectTypes
        <3>3. Keys(ver[p])' = Keys(ver[p])
            BY <1>1, <2>3, <3>2 DEF Keys
        <3> QED
            BY <1>1, <2>3, <3>1, <3>3
    <2> QED
        BY <1>1, <2>2, <2>3
<1>12. CallKept'
    <2>1. \A u \in Thread : InCall(u) => Keys(Head(call[u]).ver)' = Keys(Head(call[u]).ver)
        BY <1>1 DEF CallTypes, Keys
    <2>2. \A u \in Thread : InCall(u) => want'[Head(call[u]).obj] = want[Head(call[u]).obj]
        BY <1>1 DEF CallTypes
    <2> QED
        BY <1>1, <2>1, <2>2 DEF CallKept, InCall
<1> QED
    BY <1>7, <1>8, <1>9, <1>10, <1>11, <1>12

(* What a thread refers to of the Version objects is there, and the handle *)
(* is open.                                                                *)
LEMMA ReferredIsThere ==
    ASSUME PyInv, NEW t \in Thread, NEW o \in Object, o \in held[t]
    PROVE  o \in DOMAIN ver /\ ver[o] \in 0..Len(map) /\ handle = "open"
<1> USE DEF PyInv, PyTypes
<1>1. o \notin Iterator /\ o # Db
    BY PythonAssumption
<1>2. o \in DOMAIN ver
    BY <1>1 DEF HeldInv, ObjectTypes
<1> QED
    BY <1>2 DEF HeldInv, ObjectTypes

(* A step that makes no version leaves the library as it was.              *)
LEMMA SameMap ==
    ASSUME MapTypes, UNCHANGED <<map, prev>>, cur' \in 0..Len(map)
    PROVE  /\ MapTypes' /\ Len(map) \in Nat /\ Len(map)' \in Nat
           /\ Len(map) <= Len(map)'
           /\ \A w \in 0..Len(map) : (IF w = 0 THEN {} ELSE map'[w]) = Keys(w)
BY DEF MapTypes, Keys

(* db.current_version, previous_version, set_record and del_key.           *)
LEMMA NewObjectsKeep ==
    ASSUME PyInv, shared' = shared, NEW t \in Thread, NEW o \in Object,
           \/ CurrentVersion(t, o)
           \/ \E new \in Object : Previous(t, o, new)
           \/ \E new \in Object, op \in Ops, k \in Key : Changed(t, o, op, k, new)
    PROVE  PyInv'
<1>0. MapTypes
    BY DEF PyInv, PyTypes
<1>1. CASE CurrentVersion(t, o)
    <2>1. UNCHANGED store /\ NewVersion(t, o, cur, Keys(cur)) /\ handle = "open"
        BY <1>1 DEF CurrentVersion, PyInv, HeldInv
    <2>2. cur \in 0..Len(map) /\ UNCHANGED <<map, prev, cur, handle>>
        BY <1>0, <2>1 DEF MapTypes, store
    <2>3. (IF cur = 0 THEN {} ELSE map'[cur]) = Keys(cur) /\ cur \in 0..Len(map)'
        BY <2>2 DEF Keys
    <2> QED
        BY <1>0, <2>1, <2>2, <2>3, SameMap, ObjectMade
<1>2. ASSUME NEW new \in Object, Previous(t, o, new)
      PROVE  PyInv'
    <2> DEFINE p == prev[ver[o]]
    <2>1. /\ UNCHANGED store /\ NewVersion(t, new, p, Keys(p))
          /\ o \in held[t] /\ ver[o] # 0
        BY <1>2 DEF Previous
    <2>2. ver[o] \in 0..Len(map) /\ handle = "open"
        BY <2>1, ReferredIsThere
    <2>3. p \in 0..Len(map) /\ cur \in 0..Len(map)
        BY <1>0, <2>1, <2>2 DEF MapTypes
    <2>4. UNCHANGED <<map, prev, cur, handle>>
        BY <2>1 DEF store
    <2>5. (IF p = 0 THEN {} ELSE map'[p]) = Keys(p) /\ p \in 0..Len(map)'
        BY <2>3, <2>4 DEF Keys
    <2> HIDE DEF p
    <2> QED
        BY <1>0, <2>1, <2>2, <2>3, <2>4, <2>5, SameMap, ObjectMade
<1>3. ASSUME NEW new \in Object, NEW op \in Ops, NEW k \in Key,
             Changed(t, o, op, k, new)
      PROVE  PyInv'
    <2> DEFINE v == ver[o]
               m == Made(op, v, k)
    <2>1. /\ o \in held[t] /\ Make(t, op, v, k)
          /\ NewVersion(t, new, m, After(op, v, k)) /\ UNCHANGED <<cur, handle>>
        BY <1>3 DEF Changed
    <2>2. v \in 0..Len(map) /\ handle = "open"
        BY <2>1, ReferredIsThere
    <2> HIDE DEF v
    <2>3. After(op, v, k) = Applied(op, Keys(v), k)
        BY DEF After, Applied
    <2>4. /\ MapTypes' /\ Len(map) \in Nat /\ Len(map)' \in Nat /\ Len(map) <= Len(map)'
          /\ m \in 0..Len(map)'
          /\ (IF m = 0 THEN {} ELSE map'[m]) = After(op, v, k)
          /\ \A w \in 0..Len(map) : (IF w = 0 THEN {} ELSE map'[w]) = Keys(w)
        BY <1>0, <2>1, <2>2, <2>3, MakeMakes
    <2> HIDE DEF m
    <2> QED
        BY <2>1, <2>2, <2>4, ObjectMade
<1> QED
    BY <1>1, <1>2, <1>3

-----------------------------------------------------------------------------
(* The three steps of a change in place.                                   *)

(* Reading self.version begins the call: the object is this thread's alone *)
(* unless they share, so no other change of it is under way.               *)
LEMMA InPlaceKeeps ==
    ASSUME PyInv, shared' = shared, NEW t \in Thread, NEW o \in Object,
           NEW op \in Ops, NEW k \in Key, InPlace(t, o, op, k)
    PROVE  PyInv'
<1> DEFINE c == [obj |-> o, op |-> op, key |-> k, ver |-> ver[o], done |-> FALSE]
<1>1. /\ o \in held[t] /\ call[t] = << >>
      /\ call' = [call EXCEPT ![t] = <<c>>]
      /\ UNCHANGED <<map, prev, cur, handle, ver, its, held, want>>
    BY DEF InPlace
<1>2. o \in DOMAIN ver /\ ver[o] \in 0..Len(map)
    BY <1>1, ReferredIsThere
<1> USE DEF PyInv, PyTypes
<1>3. MapTypes' /\ Len(map) \in Nat
    BY <1>1 DEF MapTypes
<1>4. c \in Change
    BY <1>2, <1>3 DEF Change
<1>6. c.obj = o /\ c.ver = ver[o] /\ c.done = FALSE
    OBVIOUS
<1> HIDE DEF c
<1>5. /\ call' \in [Thread -> {<< >>} \cup {<<d>> : d \in Change}]
      /\ call'[t] = <<c>> /\ Head(call'[t]) = c
      /\ \A u \in Thread : u # t => call'[u] = call[u]
    <2>1. call' \in [Thread -> {<< >>} \cup {<<d>> : d \in Change}]
        BY <1>1, <1>4 DEF ObjectTypes
    <2>2. call'[t] = <<c>> /\ \A u \in Thread : u # t => call'[u] = call[u]
        BY <1>1 DEF ObjectTypes
    <2> QED
        BY <2>1, <2>2
<1>7. InCall(t)' /\ ~InCall(t) /\ \A u \in Thread : u # t => (InCall(u)' <=> InCall(u))
    BY <1>1, <1>5 DEF InCall
<1>8. ObjectTypes'
    BY <1>1, <1>5 DEF ObjectTypes
<1>9. CallTypes'
    <2> SUFFICES ASSUME NEW u \in Thread, InCall(u)'
                 PROVE  /\ Head(call[u])'.obj \in DOMAIN ver
                        /\ Head(call[u])'.ver \in 0..Len(map)
        BY <1>1 DEF CallTypes
    <2>1. CASE u = t
        BY <1>2, <1>5, <1>6, <2>1
    <2>2. CASE u # t
        BY <1>5, <1>7, <2>2 DEF CallTypes
    <2> QED
        BY <2>1, <2>2
<1>10. HeldInv'
    BY <1>1 DEF HeldInv
<1>11. \A u \in Thread, p \in Object : Refers(u, p)' <=> Refers(u, p)
    BY <1>1, <1>5, <1>6, <1>7 DEF Refers
<1>12. OwnInv'
    BY <1>1, <1>11 DEF OwnInv
<1>13. ~shared => o \notin Frames
    <2> SUFFICES ASSUME ~shared, NEW u \in Thread, InCall(u), Head(call[u]).obj = o
                 PROVE  FALSE
        BY FramesAre
    <2> QED
        BY <1>1, <1>7 DEF OwnInv, Refers
<1>14. InPlaceKept'
    <2>1. Frames \subseteq Frames'
        <3> SUFFICES ASSUME NEW u \in Thread, InCall(u)
                     PROVE  Head(call[u]).obj \in Frames'
            BY FramesAre
        <3>1. u # t
            BY <1>7
        <3>2. InCall(u)' /\ Head(call[u])' = Head(call[u])
            BY <1>5, <1>7, <3>1
        <3> QED
            BY <3>2 DEF Frames, InCall
    <2> QED
        BY <1>1, <2>1 DEF InPlaceKept, Keys
<1>15. CallKept'
    <2> SUFFICES ASSUME ~shared, NEW u \in Thread, InCall(u)'
                 PROVE  LET d == Head(call[u])' IN
                        Keys(d.ver) = IF d.done THEN Applied(d.op, want[d.obj], d.key)
                                                ELSE want[d.obj]
        BY <1>1 DEF CallKept, Keys
    <2>1. CASE u = t
        <3>1. Keys(ver[o]) = want[o]
            BY <1>2, <1>13 DEF InPlaceKept
        <3> QED
            BY <1>5, <1>6, <2>1, <3>1
    <2>2. CASE u # t
        BY <1>5, <1>7, <2>2 DEF CallKept
    <2> QED
        BY <2>1, <2>2
<1> QED
    BY <1>3, <1>8, <1>9, <1>10, <1>12, <1>14, <1>15

(* The call makes the changed version.                                     *)
LEMMA InPlaceMakeKeeps ==
    ASSUME PyInv, shared' = shared, NEW t \in Thread, InPlaceMake(t)
    PROVE  PyInv'
<1> DEFINE c == Head(call[t])
           v == c.ver
           m == Made(c.op, v, c.key)
           d == [c EXCEPT !.ver = m, !.done = TRUE]
<1> USE DEF PyInv, PyTypes
<1>1. /\ InCall(t) /\ ~c.done /\ Make(t, c.op, v, c.key)
      /\ call' = [call EXCEPT ![t] = <<d>>]
      /\ UNCHANGED <<cur, handle, ver, its, held, want>>
    BY DEF InPlaceMake, InCall
<1>2. c \in Change
    BY <1>1, CallsAre
<1>3. c.obj \in DOMAIN ver /\ v \in 0..Len(map) /\ c.op \in Ops /\ c.key \in Key
    BY <1>1, <1>2 DEF CallTypes, Change
<1>4. /\ MapTypes' /\ Len(map) \in Nat /\ Len(map)' \in Nat /\ Len(map) <= Len(map)'
      /\ m \in 0..Len(map)'
      /\ (IF m = 0 THEN {} ELSE map'[m]) = Applied(c.op, Keys(v), c.key)
      /\ \A w \in 0..Len(map) : (IF w = 0 THEN {} ELSE map'[w]) = Keys(w)
    <2>1. MapTypes /\ cur' = cur /\ Make(t, c.op, v, c.key)
        BY <1>1
    <2>2. c.op \in Ops /\ c.key \in Key /\ v \in 0..Len(map)
        BY <1>3
    <2> HIDE DEF v, c, PyInv, PyTypes
    <2>3. PICK op \in Ops, k \in Key, w \in 0..Len(map) :
              op = c.op /\ k = c.key /\ w = v
        BY <2>2
    <2>4. Make(t, op, w, k)
        BY <2>1, <2>3 DEF Make
    <2>5. /\ MapTypes' /\ Len(map) \in Nat /\ Len(map)' \in Nat /\ Len(map) <= Len(map)'
          /\ Made(op, w, k) \in 0..Len(map)'
          /\ (IF Made(op, w, k) = 0 THEN {} ELSE map'[Made(op, w, k)])
                = Applied(op, Keys(w), k)
          /\ \A x \in 0..Len(map) : (IF x = 0 THEN {} ELSE map'[x]) = Keys(x)
        BY <2>1, <2>4, MakeMakes
    <2>6. m = Made(op, w, k) /\ Applied(c.op, Keys(v), c.key) = Applied(op, Keys(w), k)
        BY <2>3
    <2> QED
        BY <2>5, <2>6
<1>5. /\ d.obj = c.obj /\ d.op = c.op /\ d.key = c.key
      /\ d.ver = m /\ d.done = TRUE /\ d \in Change
    <2>1. m \in Nat
        BY <1>4
    <2> HIDE DEF m
    <2> QED
        BY <1>2, <2>1 DEF Change
<1>6. c = Head(call[t])
    OBVIOUS
<1>7. ~shared => Keys(v) = want[c.obj]
    BY <1>1 DEF CallKept
<1> HIDE DEF d, c, v, m
<1>8. /\ call' \in [Thread -> {<< >>} \cup {<<e>> : e \in Change}]
      /\ Head(call'[t]) = d
      /\ \A u \in Thread : u # t => call'[u] = call[u]
      /\ \A u \in Thread : InCall(u)' <=> InCall(u)
    <2>1. call' \in [Thread -> {<< >>} \cup {<<e>> : e \in Change}]
        BY <1>1, <1>5 DEF ObjectTypes
    <2>2. call'[t] = <<d>> /\ \A u \in Thread : u # t => call'[u] = call[u]
        BY <1>1 DEF ObjectTypes
    <2>3. InCall(t)'
        BY <2>2 DEF InCall
    <2> QED
        BY <1>1, <2>1, <2>2, <2>3 DEF InCall
<1>9. \A u \in Thread : InCall(u) => Head(call[u])'.obj = Head(call[u]).obj
    BY <1>5, <1>6, <1>8
<1>10. ObjectTypes'
    <2>1. \A o \in DOMAIN ver : ver[o] \in 0..Len(map)'
        BY <1>4 DEF ObjectTypes
    <2>2. ver \in [DOMAIN ver -> 0..Len(map)']
        BY <2>1 DEF ObjectTypes
    <2> QED
        BY <1>1, <1>8, <2>2 DEF ObjectTypes
<1>11. CallTypes'
    <2> SUFFICES ASSUME NEW u \in Thread, InCall(u)
                 PROVE  /\ Head(call[u])'.obj \in DOMAIN ver
                        /\ Head(call[u])'.ver \in 0..Len(map)'
        BY <1>1, <1>8 DEF CallTypes
    <2>1. CASE u = t
        BY <1>3, <1>4, <1>5, <1>8, <2>1
    <2>2. CASE u # t
        BY <1>4, <1>8, <2>2 DEF CallTypes
    <2> QED
        BY <2>1, <2>2
<1>12. HeldInv'
    BY <1>1 DEF HeldInv
<1>13. OwnInv'
    <2>1. \A u \in Thread, p \in Object : Refers(u, p)' <=> Refers(u, p)
        BY <1>1, <1>8, <1>9 DEF Refers
    <2> QED
        BY <2>1 DEF OwnInv
<1>14. InPlaceKept'
    <2>1. Frames' = Frames
        <3>1. Frames' = {Head(call[u])'.obj : u \in {w \in Thread : InCall(w)}}
            BY <1>8 DEF Frames, InCall
        <3> QED
            BY <1>9, <3>1, FramesAre
    <2>2. \A o \in DOMAIN ver : Keys(ver[o])' = Keys(ver[o])
        BY <1>1, <1>4 DEF Keys, ObjectTypes
    <2> QED
        BY <1>1, <2>1, <2>2 DEF InPlaceKept
<1>15. CallKept'
    <2> SUFFICES ASSUME ~shared, NEW u \in Thread, InCall(u)
                 PROVE  LET e == Head(call[u])' IN
                        (IF e.ver = 0 THEN {} ELSE map'[e.ver])
                           = IF e.done THEN Applied(e.op, want[e.obj], e.key)
                                       ELSE want[e.obj]
        BY <1>1, <1>8 DEF CallKept, Keys
    <2>1. CASE u = t
        BY <1>4, <1>5, <1>7, <1>8, <2>1
    <2>2. CASE u # t
        <3>1. Head(call[u])' = Head(call[u])
            BY <1>8, <2>2
        <3>2. Head(call[u]).ver \in 0..Len(map)
            BY DEF CallTypes
        <3> QED
            BY <1>4, <3>1, <3>2 DEF CallKept
    <2> QED
        BY <2>1, <2>2
<1> QED
    BY <1>4, <1>10, <1>11, <1>12, <1>13, <1>14, <1>15

(* What it answers goes into self.version.                                 *)
LEMMA InPlaceAssignKeeps ==
    ASSUME PyInv, shared' = shared, NEW t \in Thread, InPlaceAssign(t)
    PROVE  PyInv'
<1> DEFINE c == Head(call[t])
           o == c.obj
           keys == Applied(c.op, want[o], c.key)
<1> USE DEF PyInv, PyTypes
<1>1. /\ InCall(t) /\ c.done
      /\ ver' = [ver EXCEPT ![o] = c.ver] /\ want' = [want EXCEPT ![o] = keys]
      /\ call' = [call EXCEPT ![t] = << >>]
      /\ UNCHANGED <<map, prev, cur, handle, its, held>>
    BY DEF InPlaceAssign, InCall, Applied
<1>2. o \in DOMAIN ver /\ c.ver \in 0..Len(map)
    BY <1>1 DEF CallTypes
<1>3. ~shared => Keys(c.ver) = keys
    BY <1>1 DEF CallKept
<1>4. c = Head(call[t]) /\ o = c.obj
    OBVIOUS
<1> HIDE DEF c, o, keys
<1>5. MapTypes'
    BY <1>1 DEF MapTypes
<1>6. /\ call' \in [Thread -> {<< >>} \cup {<<e>> : e \in Change}]
      /\ ~InCall(t)'
      /\ \A u \in Thread : u # t => call'[u] = call[u]
    BY <1>1 DEF ObjectTypes, InCall
<1>7. \A u \in Thread : InCall(u)' => u # t /\ InCall(u) /\ Head(call[u])' = Head(call[u])
    BY <1>6 DEF InCall
<1>8. /\ DOMAIN ver' = DOMAIN ver /\ ver'[o] = c.ver
      /\ \A p \in DOMAIN ver : p # o => ver'[p] = ver[p]
      /\ want' = [p \in DOMAIN ver |-> want'[p]] /\ want'[o] = keys
      /\ \A p \in DOMAIN ver : p # o => want'[p] = want[p]
    BY <1>1, <1>2 DEF ObjectTypes
<1>9. ObjectTypes'
    <2>1. ver' \in [DOMAIN ver' -> 0..Len(map)']
        BY <1>1, <1>2, <1>8 DEF ObjectTypes
    <2> QED
        BY <1>1, <1>6, <1>8, <2>1 DEF ObjectTypes
<1>10. CallTypes'
    BY <1>1, <1>7, <1>8 DEF CallTypes
<1>11. HeldInv'
    BY <1>1, <1>8 DEF HeldInv
<1>12. OwnInv'
    <2>1. \A u \in Thread, p \in Object : Refers(u, p)' => Refers(u, p)
        BY <1>1, <1>7 DEF Refers
    <2> QED
        BY <2>1 DEF OwnInv
<1>13. InPlaceKept'
    <2> SUFFICES ASSUME ~shared, NEW p \in DOMAIN ver, p \notin Frames'
                 PROVE  Keys(ver'[p]) = want'[p]
        BY <1>1, <1>8 DEF InPlaceKept, Keys
    <2>1. CASE p = o
        BY <1>3, <1>8, <2>1
    <2>2. CASE p # o
        <3>1. p \notin Frames
            <4> SUFFICES ASSUME NEW u \in Thread, InCall(u), p = Head(call[u]).obj
                         PROVE  FALSE
                BY FramesAre
            <4>1. u # t
                BY <1>4, <2>2
            <4>2. InCall(u)' /\ Head(call[u])' = Head(call[u])
                BY <1>6, <4>1 DEF InCall
            <4> QED
                BY <4>2 DEF Frames, InCall
        <3> QED
            BY <1>8, <2>2, <3>1 DEF InPlaceKept
    <2> QED
        BY <2>1, <2>2
<1>14. CallKept'
    <2> SUFFICES ASSUME ~shared, NEW u \in Thread, InCall(u)'
                 PROVE  LET e == Head(call[u]) IN
                        Keys(e.ver) = IF e.done THEN Applied(e.op, want'[e.obj], e.key)
                                                ELSE want'[e.obj]
        BY <1>1, <1>7 DEF CallKept, Keys
    <2>1. u # t /\ InCall(u) /\ Head(call[u]).obj \in DOMAIN ver
        BY <1>7 DEF CallTypes
    <2>2. Head(call[u]).obj # o
        <3>1. Head(call[u]).obj \in Object
            BY <2>1 DEF ObjectTypes
        <3> QED
            BY <1>1, <1>4, <2>1, <3>1 DEF OwnInv, Refers
    <2>3. want'[Head(call[u]).obj] = want[Head(call[u]).obj]
        BY <1>8, <2>1, <2>2
    <2> QED
        BY <2>1, <2>3 DEF CallKept
<1> QED
    BY <1>5, <1>9, <1>10, <1>11, <1>12, <1>13, <1>14

-----------------------------------------------------------------------------
(* References made and forgotten.                                          *)

(* The parts of the invariant that no step that leaves map, ver, call and  *)
(* want alone can disturb.                                                 *)
LEMMA SameVersions ==
    ASSUME PyInv, UNCHANGED <<map, prev, ver, call, want, shared>>, cur' \in 0..Len(map)
    PROVE  MapTypes' /\ CallTypes' /\ InPlaceKept' /\ CallKept'
BY DEF PyInv, PyTypes, MapTypes, CallTypes, InCall, InPlaceKept, Frames, Keys, CallKept

(* commit moves db->cur to a version that is there.                        *)
LEMMA CommitKeeps ==
    ASSUME PyInv, shared' = shared, NEW t \in Thread, NEW o \in Object, Commit(t, o)
    PROVE  PyInv'
<1>1. /\ cur' = ver[o] /\ o \in held[t]
      /\ UNCHANGED <<map, prev, handle, ver, its, held, call, want>>
    BY DEF Commit
<1>2. cur' \in 0..Len(map)
    BY <1>1, ReferredIsThere
<1>3. MapTypes
    BY DEF PyInv, PyTypes
<1> QED
    BY <1>1, <1>2, <1>3, SameMap, SameObjects

(* An iterator refers to the Version object it is of.                      *)
LEMMA IterateKeeps ==
    ASSUME PyInv, shared' = shared, NEW t \in Thread, NEW o \in Object,
           NEW i \in Iterator, Iterate(t, o, i)
    PROVE  PyInv'
<1> USE DEF PyInv, PyTypes
<1>1. /\ o \in held[t] /\ i \notin DOMAIN its
      /\ its' = Put(its, i, o) /\ held' = [held EXCEPT ![t] = @ \cup {i}]
      /\ UNCHANGED <<map, prev, cur, handle, ver, call, want>>
    BY DEF Iterate
<1>2. o \in DOMAIN ver
    BY <1>1, ReferredIsThere
<1>3. /\ DOMAIN its' = DOMAIN its \cup {i}
      /\ its' \in [DOMAIN its' -> DOMAIN ver]
    BY <1>1, <1>2 DEF Put, ObjectTypes
<1>4. /\ held' \in [Thread -> SUBSET ({Db} \cup Object \cup Iterator)]
      /\ \A u \in Thread : held'[u] \subseteq held[u] \cup {i}
    BY <1>1 DEF ObjectTypes
<1>5. i \notin Object /\ i # Db
    BY PythonAssumption
<1>6. cur' \in 0..Len(map)
    BY <1>1 DEF MapTypes
<1>7. ObjectTypes'
    BY <1>1, <1>3, <1>4 DEF ObjectTypes
<1>8. HeldInv'
    BY <1>1, <1>3, <1>4, <1>5 DEF HeldInv
<1>9. OwnInv'
    <2>1. \A u \in Thread, p \in Object : Refers(u, p)' => Refers(u, p)
        BY <1>1, <1>4, <1>5 DEF Refers, InCall
    <2> QED
        BY <2>1 DEF OwnInv
<1> QED
    BY <1>1, <1>6, <1>7, <1>8, <1>9, SameVersions

(* One thread hands a Version object to another, where they share them.    *)
LEMMA GiveKeeps ==
    ASSUME PyInv, shared' = shared, NEW t \in Thread, NEW u \in Thread,
           NEW o \in Object, Give(t, u, o)
    PROVE  PyInv'
<1> USE DEF PyInv, PyTypes
<1>1. /\ shared /\ o \in held[t] /\ held' = [held EXCEPT ![u] = @ \cup {o}]
      /\ UNCHANGED <<map, prev, cur, handle, ver, its, call, want>>
    BY DEF Give
<1>2. o \in DOMAIN ver /\ o # Db
    BY <1>1, ReferredIsThere, PythonAssumption
<1>3. /\ held' \in [Thread -> SUBSET ({Db} \cup Object \cup Iterator)]
      /\ \A w \in Thread : held'[w] \subseteq held[w] \cup {o}
    BY <1>1 DEF ObjectTypes
<1>4. cur' \in 0..Len(map)
    BY <1>1 DEF MapTypes
<1>5. ObjectTypes'
    BY <1>1, <1>3 DEF ObjectTypes
<1>6. HeldInv'
    BY <1>1, <1>2, <1>3 DEF HeldInv
<1>7. OwnInv'
    BY <1>1 DEF OwnInv
<1> QED
    BY <1>1, <1>4, <1>5, <1>6, <1>7, SameVersions

(* What goes with a forgotten reference is what nothing refers to any      *)
(* more: an iterator keeps its Version object, a call the one it changes,  *)
(* and any Version object the handle.                                      *)
LEMMA ForgetKeeps ==
    ASSUME PyInv, shared' = shared, NEW t \in Thread, NEW x, Forget(t, x)
    PROVE  PyInv'
<1> DEFINE refs == UNION {held'[u] : u \in Thread}
           live == LiveObjects(refs)
<1> USE DEF PyInv, PyTypes
<1>1. /\ held' = [held EXCEPT ![t] = @ \ {x}]
      /\ its' = Keep(its, refs) /\ ver' = Keep(ver, live) /\ want' = Keep(want, live)
      /\ handle' = IF Db \in refs \/ live # {} THEN handle ELSE "closed"
      /\ UNCHANGED <<map, prev, cur, call>>
    BY DEF Forget
<1>2. /\ held' \in [Thread -> SUBSET ({Db} \cup Object \cup Iterator)]
      /\ \A u \in Thread : held'[u] \subseteq held[u]
    BY <1>1 DEF ObjectTypes
<1>3. \A u \in Thread : held'[u] \subseteq refs
    OBVIOUS
<1>4. refs \cap Object \subseteq live /\ Frames \subseteq live
    BY DEF LiveObjects
<1>5. \A i \in refs \cap Iterator : its[i] \in live
    BY DEF LiveObjects
<1> HIDE DEF refs, live
<1>6. DOMAIN want = DOMAIN ver
    BY DEF ObjectTypes
<1>7. /\ DOMAIN ver' = DOMAIN ver \cap live
      /\ \A o \in DOMAIN ver' : ver'[o] = ver[o] /\ want'[o] = want[o]
      /\ want' = [o \in DOMAIN ver' |-> want'[o]]
      /\ ver' = [o \in DOMAIN ver' |-> ver'[o]]
    BY <1>1, <1>6 DEF Keep
<1>8. /\ DOMAIN its' = DOMAIN its \cap refs
      /\ its' \in [DOMAIN its' -> DOMAIN ver']
    <2>1. DOMAIN its' = DOMAIN its \cap refs /\ its' = [i \in DOMAIN its' |-> its[i]]
        BY <1>1 DEF Keep
    <2>2. \A i \in DOMAIN its' : its[i] \in DOMAIN ver'
        BY <1>5, <1>7, <2>1 DEF ObjectTypes
    <2> QED
        BY <2>1, <2>2
<1>9. MapTypes' /\ UNCHANGED <<map, call>>
    BY <1>1 DEF MapTypes
<1>10. ObjectTypes'
    <2>1. \A o \in DOMAIN ver' : ver'[o] \in 0..Len(map)'
        BY <1>7, <1>9 DEF ObjectTypes
    <2>2. ver' \in [DOMAIN ver' -> 0..Len(map)']
        BY <1>7, <2>1
    <2>3. DOMAIN ver' \subseteq Object /\ DOMAIN its' \subseteq Iterator
        BY <1>7, <1>8 DEF ObjectTypes
    <2>4. call' \in [Thread -> {<< >>} \cup {<<c>> : c \in Change}]
        BY <1>9 DEF ObjectTypes
    <2> QED
        BY <1>2, <1>7, <1>8, <2>2, <2>3, <2>4 DEF ObjectTypes
<1>11. Frames \subseteq DOMAIN ver' /\ Frames' = Frames
    <2>1. Frames \subseteq DOMAIN ver
        BY FramesAre DEF CallTypes
    <2> QED
        BY <1>4, <1>7, <1>9, <2>1 DEF Frames
<1>12. CallTypes'
    <2>1. \A u \in Thread : InCall(u) => Head(call[u]).obj \in Frames
        BY FramesAre
    <2> QED
        BY <1>9, <1>11, <2>1 DEF CallTypes, InCall
<1>13. HeldInv'
    <2>1. \A u \in Thread : held'[u] \subseteq {Db} \cup DOMAIN ver' \cup DOMAIN its'
        <3> SUFFICES ASSUME NEW u \in Thread, NEW y \in held'[u], y # Db
                     PROVE  y \in DOMAIN ver' \cup DOMAIN its'
            OBVIOUS
        <3>1. y \in DOMAIN ver \cup DOMAIN its /\ y \in refs
            BY <1>2, <1>3 DEF HeldInv
        <3>2. CASE y \in DOMAIN ver
            BY <1>4, <1>7, <3>1, <3>2 DEF ObjectTypes
        <3>3. CASE y \in DOMAIN its
            BY <1>8, <3>1, <3>3
        <3> QED
            BY <3>1, <3>2, <3>3
    <2>2. DOMAIN ver' # {} => handle' = "open"
        <3>1. DOMAIN ver' # {} => DOMAIN ver # {} /\ live # {}
            BY <1>7
        <3> QED
            BY <1>1, <3>1 DEF HeldInv
    <2>3. ASSUME NEW u \in Thread, Db \in held'[u]
          PROVE  handle' = "open"
        <3>1. Db \in refs /\ Db \in held[u]
            BY <1>2, <1>3, <2>3
        <3> QED
            BY <1>1, <3>1 DEF HeldInv
    <2> QED
        BY <2>1, <2>2, <2>3 DEF HeldInv
<1>14. OwnInv'
    <2>1. \A u \in Thread, p \in Object : Refers(u, p)' => Refers(u, p)
        BY <1>2, <1>9 DEF Refers, InCall
    <2> QED
        BY <2>1 DEF OwnInv
<1>15. InPlaceKept'
    BY <1>7, <1>9, <1>11 DEF InPlaceKept, Keys
<1>16. CallKept'
    <2>1. \A u \in Thread : InCall(u) => want'[Head(call[u]).obj] = want[Head(call[u]).obj]
        BY <1>7, <1>11, FramesAre
    <2> QED
        BY <1>9, <2>1 DEF CallKept, InCall, Keys
<1> QED
    BY <1>9, <1>10, <1>12, <1>13, <1>14, <1>15, <1>16

(* The AODBM object is made, and every thread may refer to it.             *)
LEMMA OpenKeeps ==
    ASSUME PyInv, shared' = shared, Open
    PROVE  PyInv'
<1> USE DEF PyInv, PyTypes
<1>1. /\ handle = "none" /\ handle' = "open" /\ held' = [t \in Thread |-> {Db}]
      /\ UNCHANGED <<map, prev, cur, ver, its, call, want>>
    BY DEF Open
<1>2. cur' \in 0..Len(map)
    BY <1>1 DEF MapTypes
<1>3. DOMAIN ver = {}
    BY <1>1 DEF HeldInv
<1>4. ObjectTypes'
    BY <1>1 DEF ObjectTypes
<1>5. HeldInv'
    BY <1>1 DEF HeldInv
<1>6. OwnInv'
    <2>1. \A t \in Thread : ~InCall(t)
        BY <1>3 DEF CallTypes
    <2>2. \A t \in Thread, o \in Object : ~Refers(t, o)'
        BY <1>1, <2>1, PythonAssumption DEF Refers, InCall
    <2> QED
        BY <2>2 DEF OwnInv
<1> QED
    BY <1>1, <1>2, <1>4, <1>5, <1>6, SameVersions

-----------------------------------------------------------------------------
(* The program starts without objects.                                     *)
LEMMA PyInit == Init => PyInv
<1> SUFFICES ASSUME Init PROVE PyInv
    OBVIOUS
<1>1. /\ map = <<Key>> /\ prev = <<0>> /\ cur = 1 /\ handle = "none"
      /\ ver = << >> /\ its = << >> /\ want = << >>
      /\ held = [t \in Thread |-> {}] /\ call = [t \in Thread |-> << >>]
      /\ shared \in BOOLEAN
    BY DEF Init
<1>2. DOMAIN ver = {} /\ DOMAIN its = {} /\ DOMAIN want = {}
    BY <1>1
<1>3. MapTypes
    <2>1. map \in Seq(SUBSET Key) /\ Len(map) = 1
        BY <1>1
    <2>2. prev \in Seq(Nat) /\ Len(prev) = 1 /\ prev[1] = 0
        BY <1>1
    <2> QED
        BY <1>1, <2>1, <2>2 DEF MapTypes
<1>4. ObjectTypes
    <2>1. ver \in [DOMAIN ver -> 0..Len(map)] /\ its \in [DOMAIN its -> DOMAIN ver]
        BY <1>1, <1>2
    <2>2. want = [o \in DOMAIN ver |-> want[o]]
        BY <1>1, <1>2
    <2>3. /\ held \in [Thread -> SUBSET ({Db} \cup Object \cup Iterator)]
          /\ call \in [Thread -> {<< >>} \cup {<<c>> : c \in Change}]
        BY <1>1
    <2> QED
        BY <1>1, <1>2, <2>1, <2>2, <2>3 DEF ObjectTypes
<1>5. \A t \in Thread : ~InCall(t) /\ held[t] = {}
    BY <1>1 DEF InCall
<1> QED
    BY <1>2, <1>3, <1>4, <1>5 DEF PyInv, PyTypes, CallTypes, HeldInv, OwnInv,
       Refers, InPlaceKept, CallKept

(* Every step of the program keeps the invariant.                          *)
LEMMA PyNext == PyInv /\ [Next]_vars => PyInv'
<1> SUFFICES ASSUME PyInv, [Next]_vars PROVE PyInv'
    OBVIOUS
<1>1. CASE UNCHANGED vars
    BY <1>1 DEF vars, PyInv, PyTypes, MapTypes, ObjectTypes, CallTypes, InCall, HeldInv,
       OwnInv, Refers, InPlaceKept, Frames, Keys, CallKept
<1>2. ASSUME Step, shared' = shared PROVE PyInv'
    <2>1. CASE Open
        BY <1>2, <2>1, OpenKeeps
    <2>2. ASSUME NEW t \in Thread, NEW o \in Object,
                 \/ CurrentVersion(t, o) \/ Commit(t, o)
                 \/ \E op \in Ops, k \in Key : InPlace(t, o, op, k)
                 \/ \E new \in Object : Previous(t, o, new)
                 \/ \E new \in Object, op \in Ops, k \in Key : Changed(t, o, op, k, new)
                 \/ \E i \in Iterator : Iterate(t, o, i)
                 \/ \E u \in Thread : Give(t, u, o)
          PROVE  PyInv'
        BY <1>2, <2>2, NewObjectsKeep, CommitKeeps, InPlaceKeeps, IterateKeeps, GiveKeeps
    <2>3. ASSUME NEW t \in Thread,
                 InPlaceMake(t) \/ InPlaceAssign(t) \/ \E x \in held[t] : Forget(t, x)
          PROVE  PyInv'
        BY <1>2, <2>3, InPlaceMakeKeeps, InPlaceAssignKeeps, ForgetKeeps
    <2> QED
        BY <1>2, <2>1, <2>2, <2>3 DEF Step
<1> QED
    BY <1>1, <1>2 DEF Next

(* The invariant holds of every run of the program.                        *)
THEOREM PyInvInvariant == Spec => []PyInv
BY PyInit, PyNext, PTL DEF Spec

(* Whatever a thread refers to is there: __del__ closes the handle and     *)
(* frees the C iterators only when nothing is used with them any more.     *)
THEOREM HandleOpenWhileUsed == Spec => []HandleOpenInUse
<1>1. PyInv => HandleOpenInUse
    <2> SUFFICES ASSUME PyInv PROVE HandleOpenInUse
        OBVIOUS
    <2>1. Frames \subseteq DOMAIN ver
        BY FramesAre DEF PyInv, PyTypes, CallTypes
    <2>2. \A i \in DOMAIN its : its[i] \in DOMAIN ver
        BY DEF PyInv, PyTypes, ObjectTypes
    <2> QED
        BY <2>1, <2>2 DEF PyInv, HeldInv, HandleOpenInUse
<1> QED
    BY <1>1, PyInvInvariant, PTL

(* __setitem__ and __delitem__: a Version object that one thread has loses *)
(* no change made to it in place, whatever the threads do with theirs.     *)
THEOREM ChangesInPlaceKept == Spec => []InPlaceKept
<1>1. PyInv => InPlaceKept
    BY DEF PyInv
<1> QED
    BY <1>1, PyInvInvariant, PTL
=============================================================================
