------------------------------ MODULE AodbmPython ------------------------------
(***************************************************************************)
(* aodbm.py: the AODBM object, Version objects that are changed in place,  *)
(* VersionIterators, and the C memory they stand for, which goes when      *)
(* CPython has counted the last reference to them.  ctypes lets other      *)
(* threads run while a call is in the library, so that a change in place   *)
(* is three steps: read self.version, call, assign self.version.  A        *)
(* version is the place in map where its keys are, 0 the empty one.        *)
(***************************************************************************)
EXTENDS Naturals, Sequences

CONSTANTS
    Thread,
    Object,      \* the Version objects there may be
    Iterator,    \* the VersionIterator objects there may be
    Db,          \* the AODBM object
    Key,
    NULL,
    MaxVersions  \* bound: versions made

ASSUME PythonAssumption ==
    /\ MaxVersions \in Nat /\ NULL \notin Thread
    /\ Db \notin Object \cup Iterator /\ Object \cap Iterator = {}

VARIABLES
    map, prev,  \* of every version made: its keys, and the one before it
    cur,        \* db->cur
    rw,         \* the thread that aodbm_set has left with db->rw, or NULL
    handle,     \* the aodbm *: "none" yet, "open", "closed"
    ver,        \* self.version of the Version objects that are there
    its,        \* self.version of the VersionIterators that are there
    held,       \* the objects each thread has a reference to
    call,       \* the change in place each thread is in, a sequence of 0 or 1
    want,       \* history: the keys each Version object should have by now
    shared      \* the application: its threads hand each other Version objects

store == <<map, prev, cur, rw, handle>>
vars  == <<map, prev, cur, rw, handle, ver, its, held, call, want, shared>>

Put(f, x, y) == [z \in DOMAIN f \cup {x} |-> IF z = x THEN y ELSE f[z]]
Keep(f, S)   == [z \in DOMAIN f \cap S |-> f[z]]

Keys(version) == IF version = 0 THEN {} ELSE map[version]

(* What aodbm_set and aodbm_del answer: a new version, or the one given    *)
(* where there is nothing to delete.                                       *)
After(op, version, k) == IF op = "set" THEN Keys(version) \cup {k}
                                       ELSE Keys(version) \ {k}

(* A thread other than the one aodbm_set has left with rw waits for good.  *)
MayCall(t) == rw \in {NULL, t}

Make(t, op, version, k) ==
    /\ MayCall(t) \/ (op = "del" /\ version = 0)
    /\ IF op = "del" /\ k \notin Keys(version)
       THEN UNCHANGED <<map, prev>>
       ELSE /\ Len(map) < MaxVersions
            /\ map' = Append(map, After(op, version, k))
            /\ prev' = Append(prev, version)
    /\ rw' = IF op = "set" THEN t ELSE rw

Made(op, version, k) == IF op = "del" /\ k \notin Keys(version) THEN version
                                                              ELSE Len(map) + 1

Based[a \in 0..MaxVersions] == {a} \cup (IF a = 0 THEN {} ELSE Based[prev[a]])

-----------------------------------------------------------------------------
Open == /\ handle = "none" /\ handle' = "open"
        /\ held' = [t \in Thread |-> {Db}]
        /\ UNCHANGED <<map, prev, cur, rw, ver, its, call, want>>

(* Version(self.db, version): a new object, and t's reference to it.       *)
NewVersion(t, o, version, keys) ==
    /\ o \notin DOMAIN ver
    /\ ver' = Put(ver, o, version) /\ want' = Put(want, o, keys)
    /\ held' = [held EXCEPT ![t] = @ \cup {o}]
    /\ UNCHANGED <<its, call>>

CurrentVersion(t, o) ==
    /\ Db \in held[t]
    /\ NewVersion(t, o, cur, Keys(cur))
    /\ UNCHANGED store

(* set_record, del_key.                                                    *)
Changed(t, o, op, k, new) ==
    /\ o \in held[t]
    /\ Make(t, op, ver[o], k)
    /\ NewVersion(t, new, Made(op, ver[o], k), After(op, ver[o], k))
    /\ UNCHANGED <<cur, handle>>

(* The previous version of 0 is read from the inside of a block.           *)
Previous(t, o, new) ==
    /\ o \in held[t] /\ ver[o] # 0 /\ MayCall(t)
    /\ NewVersion(t, new, prev[ver[o]], Keys(prev[ver[o]]))
    /\ UNCHANGED store

(* commit: db->cur moves only to a version that is based on it.            *)
Commit(t, o) ==
    /\ {Db, o} \subseteq held[t] /\ MayCall(t)
    /\ cur \in Based[ver[o]]
    /\ cur' = ver[o]
    /\ UNCHANGED <<map, prev, rw, handle, ver, its, held, call, want>>

(* __setitem__ and __delitem__: self.version goes into the call,           *)
InPlace(t, o, op, k) ==
    /\ o \in held[t] /\ call[t] = << >>
    /\ call' = [call EXCEPT ![t] = <<[obj |-> o, op |-> op, key |-> k,
                                      ver |-> ver[o], done |-> FALSE]>>]
    /\ UNCHANGED <<map, prev, cur, rw, handle, ver, its, held, want>>

InPlaceMake(t) ==
    LET c == Head(call[t]) IN
    /\ call[t] # << >> /\ ~c.done
    /\ Make(t, c.op, c.ver, c.key)
    /\ call' = [call EXCEPT ![t] = <<[c EXCEPT !.ver = Made(c.op, c.ver, c.key),
                                               !.done = TRUE]>>]
    /\ UNCHANGED <<cur, handle, ver, its, held, want>>

(* Mutant: the new version is only returned.                               *)
InPlaceReturn(t) ==
    LET c == Head(call[t]) IN
    /\ call[t] # << >> /\ c.done
    /\ want' = [want EXCEPT ![c.obj] = IF c.op = "set" THEN @ \cup {c.key}
                                                       ELSE @ \ {c.key}]
    /\ call' = [call EXCEPT ![t] = << >>]
    /\ UNCHANGED <<map, prev, cur, rw, handle, ver, its, held>>

(* and what it answers goes into self.version.                             *)
InPlaceAssign(t) ==
    LET c == Head(call[t]) IN
    /\ call[t] # << >> /\ c.done
    /\ ver' = [ver EXCEPT ![c.obj] = c.ver]
    /\ want' = [want EXCEPT ![c.obj] = IF c.op = "set" THEN @ \cup {c.key}
                                                       ELSE @ \ {c.key}]
    /\ call' = [call EXCEPT ![t] = << >>]
    /\ UNCHANGED <<map, prev, cur, rw, handle, its, held>>

(* __iter__, iterate_from.                                                 *)
Iterate(t, o, i) ==
    /\ o \in held[t] /\ i \notin DOMAIN its /\ (MayCall(t) \/ ver[o] = 0)
    /\ its' = Put(its, i, o)
    /\ held' = [held EXCEPT ![t] = @ \cup {i}]
    /\ UNCHANGED <<map, prev, cur, rw, handle, ver, call, want>>

Give(t, u, o) ==
    /\ shared /\ o \in held[t]
    /\ held' = [held EXCEPT ![u] = @ \cup {o}]
    /\ UNCHANGED <<map, prev, cur, rw, handle, ver, its, call, want>>

(* What there still is when refs are the references of the threads: an     *)
(* iterator refers to its Version, a frame and a Version refer to theirs.  *)
Frames == {Head(call[t]).obj : t \in {u \in Thread : call[u] # << >>}}

(* Mutant: a VersionIterator keeps the C iterator only.                    *)
LiveObjectsHeld(refs) == (refs \cap Object) \cup Frames

LiveObjects(refs) ==
    (refs \cap Object) \cup Frames \cup {its[i] : i \in refs \cap Iterator}

(* A thread forgets a reference; __del__ of what no one refers to any more *)
(* frees the C iterator and closes the handle.                             *)
Forget(t, x) ==
    LET refs == UNION {held'[u] : u \in Thread} IN
    /\ x \in held[t]
    /\ held' = [held EXCEPT ![t] = @ \ {x}]
    /\ its' = Keep(its, refs)
    /\ ver' = Keep(ver, LiveObjects(refs)) /\ want' = Keep(want, LiveObjects(refs))
    /\ handle' = IF Db \in refs \/ LiveObjects(refs) # {} THEN handle ELSE "closed"
    /\ UNCHANGED <<map, prev, cur, rw, call>>

Init == /\ map = <<Key>> /\ prev = <<0>> /\ cur = 1 /\ rw = NULL /\ handle = "none"
        /\ ver = << >> /\ its = << >> /\ want = << >>
        /\ held = [t \in Thread |-> {}] /\ call = [t \in Thread |-> << >>]
        /\ shared \in BOOLEAN

Ops == {"set", "del"}

Step ==
    \/ Open
    \/ \E t \in Thread, o \in Object :
          \/ CurrentVersion(t, o) \/ Commit(t, o)
          \/ \E op \in Ops, k \in Key : InPlace(t, o, op, k)
          \/ \E new \in Object : Previous(t, o, new)
          \/ \E new \in Object, op \in Ops, k \in Key : Changed(t, o, op, k, new)
          \/ \E i \in Iterator : Iterate(t, o, i)
          \/ \E u \in Thread : Give(t, u, o)
    \/ \E t \in Thread : \/ InPlaceMake(t) \/ InPlaceAssign(t)
                         \/ \E x \in held[t] : Forget(t, x)

Next == Step /\ UNCHANGED shared

Spec == Init /\ [][Next]_vars

-----------------------------------------------------------------------------
(* Properties.                                                             *)

(* Whatever a thread refers to is there.  The handle is not closed while  *)
(* an object that is used with it is, and neither an iterator nor a call   *)
(* has lost its Version: __del__ runs when the last reference goes, from   *)
(* whatever thread.                                                        *)
HandleOpenInUse ==
    /\ \A t \in Thread : held[t] \subseteq {Db} \cup DOMAIN ver \cup DOMAIN its
    /\ (DOMAIN ver # {} \/ DOMAIN its # {} \/ Frames # {}) =>
          /\ handle = "open"
          /\ {its[i] : i \in DOMAIN its} \cup Frames \subseteq DOMAIN ver

(* "Set a record, changing the version in place": a Version object that    *)
(* one thread has has every change that was made to it in place, whatever  *)
(* that thread does with it and others with theirs.                        *)
InPlaceKept ==
    ~shared => \A o \in DOMAIN ver \ Frames : Keys(ver[o]) = want[o]
=============================================================================
