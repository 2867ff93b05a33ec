------------------------------ MODULE AodbmStore ------------------------------
(***************************************************************************)
(* The database handle of aodbm: the append-only file, the two mutexes of  *)
(* struct aodbm, the operations that create, compare and commit versions,  *)
(* process crashes, and the scan aodbm_open makes to recover.              *)
(*                                                                         *)
(* The file is a sequence of cells.  A cell stands for one field of the    *)
(* file format: the type byte of a block, the 4-byte size of a data block, *)
(* the 8-byte offset of a version block, one tree node of a data block, or *)
(* its last part, the 8-byte previous version followed by the root node.   *)
(* A field cut short by a crash is read like a missing field, so cutting   *)
(* between cells loses nothing.  Offsets count cells and start at 0; a     *)
(* version is the offset of its root cell and 0 is the empty database.     *)
(* The tree below a root is abstracted to the key-value map it stores.     *)
(***************************************************************************)
EXTENDS Integers, Sequences

CONSTANTS
    Thread,      \* threads of the process that shares the handle
    Key, Value,  \* aodbm_data used as keys and as values
    NULL,        \* the null pointer: no owner, no key, no value
    Calls,       \* the API functions the application calls
    NodeCounts,  \* how many nodes below the root one operation may rewrite
    MaxFile,     \* bound: no set, del or commit starts at or beyond this size
    PowerLoss    \* TRUE: a crash may also lose what only the kernel holds

CallNames == {"set", "del", "get", "current", "prev", "commit", "init",
              "based", "ancestor", "merge"}

ASSUME ConstantsAssumption ==
    /\ NULL \notin Thread \cup Key \cup Value
    /\ Calls \subseteq CallNames
    /\ NodeCounts \subseteq Nat
    /\ MaxFile \in Nat
    /\ PowerLoss \in BOOLEAN

Map      == [Key -> Value \cup {NULL}]
EmptyMap == [k \in Key |-> NULL]
Cell     == [kind : {"d", "v", "size", "off", "node", "root"},
             num : Nat, map : Map]

VARIABLES
    mode,       \* "closed", "opening", "open", or "error": assert(0) in open
    file,       \* the cells written so far, stdio buffer included
    flushed,    \* how many of them are known to have reached the kernel
    file_size,  \* db->file_size
    cur,        \* db->cur, the head
    rw,         \* db->rw, a recursive mutex: its owner and its count
    version,    \* db->version, a plain mutex: its owner
    pc, loc,    \* where each thread is, and its arguments and locals
    hist,       \* history: version -> what the call that made it was asked for
    known,      \* history: the versions the application holds
    acked       \* history: the last version whose commit returned true

handle == <<mode, file_size, cur, rw, version>>
ghost  == <<hist, known, acked>>
vars   == <<mode, file, flushed, file_size, cur, rw, version, pc, loc,
            hist, known, acked>>

NoCall == [op |-> "none", ver |-> 0, other |-> 0, key |-> NULL, val |-> NULL,
           a |-> 0, b |-> 0, ok |-> FALSE, pos |-> 0, nodes |-> 0,
           map |-> EmptyMap]

(* The map and the ancestors (itself included) of a version. *)
HistMap(v) == IF v = 0 THEN EmptyMap ELSE hist[v].map
Anc(v)     == IF v = 0 THEN {} ELSE hist[v].anc

-----------------------------------------------------------------------------
(* The file.                                                               *)

At(off) == file[off + 1]

MkCell(kind, num, map) == [kind |-> kind, num |-> num, map |-> map]

(* 'd', the size, n nodes, and the root with the version it comes from. *)
DataBlock(n, prev, map) ==
    [i \in 1 .. n + 3 |->
        IF i = 1 THEN MkCell("d", 0, EmptyMap)
        ELSE IF i = 2 THEN MkCell("size", n + 1, EmptyMap)
        ELSE IF i = n + 3 THEN MkCell("root", prev, map)
        ELSE MkCell("node", 0, EmptyMap)]

(* Mutant: the version block points at the root node, not at its version.  *)
VersionBlockAtNode(ver) ==
    <<MkCell("v", 0, EmptyMap), MkCell("off", ver + 1, EmptyMap)>>

VersionBlock(ver) == <<MkCell("v", 0, EmptyMap), MkCell("off", ver, EmptyMap)>>

(* What is left of the history once the file has k cells. *)
HistUpTo(k) == [v \in {w \in DOMAIN hist : w < k} |-> hist[v]]

-----------------------------------------------------------------------------
(* The recursive mutex rw, and reads, which take it and make stdio flush.   *)

RwFree(t)  == rw.owner \in {NULL, t}
RwLock(t)  == [owner |-> t, count |-> rw.count + 1]
(* Mutant: rw is released once more than it was taken.                     *)
RwUnlockTwice == IF rw.count = 1 THEN [owner |-> NULL, count |-> -1]
                 ELSE [owner |-> rw.owner, count |-> rw.count - 2]

RwUnlock   == IF rw.count = 1 THEN [owner |-> NULL, count |-> 0]
              ELSE [owner |-> rw.owner, count |-> rw.count - 1]

Read(t) == RwFree(t) /\ flushed' = Len(file)

Goto(t, l, where) == /\ pc'  = [pc EXCEPT ![t] = where]
                     /\ loc' = [loc EXCEPT ![t] = l]

(* The call returns; the application may have learnt of the versions vs. *)
Return(t, vs) == /\ Goto(t, NoCall, "idle")
                 /\ known' = known \cup vs

-----------------------------------------------------------------------------
(* The application calls a function with versions it holds.                *)

Call(t, l, where) ==
    /\ mode = "open"
    /\ pc[t] = "idle"
    /\ l.op \in Calls
    /\ Goto(t, l, where)
    /\ UNCHANGED <<handle, file, flushed, ghost>>

CallSet(t) ==
    \E v \in known, k \in Key, x \in Value :
        /\ Len(file) < MaxFile
        /\ Call(t, [NoCall EXCEPT !.op = "set", !.ver = v, !.key = k, !.val = x],
                "set_lock")

CallDel(t) ==
    \E v \in known, k \in Key :
        /\ Len(file) < MaxFile
        /\ Call(t, [NoCall EXCEPT !.op = "del", !.ver = v, !.key = k], "del_has")

CallGet(t) ==
    \E v \in known, k \in Key :
        Call(t, [NoCall EXCEPT !.op = "get", !.ver = v, !.key = k], "get")

CallCurrent(t) == Call(t, [NoCall EXCEPT !.op = "current"], "current")

CallPrev(t) ==
    \E v \in known \ {0} :
        Call(t, [NoCall EXCEPT !.op = "prev", !.ver = v], "prev")

CallCommit(t) ==
    \E v \in known, f \in {"commit", "init"} :
        /\ Len(file) < MaxFile
        /\ Call(t, [NoCall EXCEPT !.op = f, !.ver = v], "commit_lock")

CallBased(t) ==
    \E v, w \in known :
        Call(t, [NoCall EXCEPT !.op = "based", !.ver = v, !.other = w,
                               !.a = v, !.b = w], "walk")

CallAncestor(t) ==
    \E v, w \in known, f \in {"ancestor", "merge"} :
        Call(t, [NoCall EXCEPT !.op = f, !.ver = v, !.other = w,
                               !.a = v, !.b = w], "join")

-----------------------------------------------------------------------------
(* aodbm_set and aodbm_del.                                                *)

(* Mutant: append_pos is fixed before rw is taken.                         *)
PrepareUnlocked(t, val, where) ==
    /\ \E n \in NodeCounts :
         Goto(t, [loc[t] EXCEPT
                    !.pos = file_size + 2,
                    !.nodes = n,
                    !.map = [HistMap(loc[t].ver) EXCEPT ![loc[t].key] = val]],
              where)
    /\ UNCHANGED <<handle, file, flushed, ghost>>

(* Take rw, fix append_pos and build the new tree from the one at ver.     *)
Prepare(t, val, where) ==
    /\ RwFree(t)
    /\ rw' = RwLock(t)
    /\ flushed' = IF loc[t].ver = 0 THEN flushed ELSE Len(file)
    /\ \E n \in IF loc[t].ver = 0 THEN {0} ELSE NodeCounts :
         Goto(t, [loc[t] EXCEPT
                    !.pos = file_size + 2,
                    !.nodes = n,
                    !.map = [IF loc[t].ver = 0 THEN EmptyMap
                             ELSE At(loc[t].ver).map EXCEPT ![loc[t].key] = val]],
              where)
    /\ UNCHANGED <<mode, file, file_size, cur, version, ghost>>

(* aodbm_write_data_block, then return the version append_pos + data_sz.   *)
(* The history records what was asked for, not what was read or written.   *)
WriteVersion(t, val) ==
    LET l    == loc[t]
        root == l.pos + l.nodes
    IN  /\ file' = file \o DataBlock(l.nodes, l.ver, l.map)
        /\ file_size' = file_size + l.nodes + 3
        /\ hist' = [v \in DOMAIN hist \cup {root} |->
                      IF v = root
                      THEN [prev |-> l.ver,
                            map  |-> [HistMap(l.ver) EXCEPT ![l.key] = val],
                            anc  |-> Anc(l.ver) \cup {root}]
                      ELSE hist[v]]
        /\ Return(t, {root})
        /\ UNCHANGED <<mode, flushed, cur, version, acked>>

SetLock(t) == pc[t] = "set_lock" /\ Prepare(t, loc[t].val, "set_write")

(* The last statement of aodbm_set locks rw again where aodbm_del unlocks. *)
SetWrite(t) ==
    /\ pc[t] = "set_write"
    /\ rw' = RwLock(t)
    /\ WriteVersion(t, loc[t].val)

(* aodbm_has decides whether there is anything to delete.                  *)
DelHas(t) ==
    /\ pc[t] = "del_has"
    /\ \/ /\ loc[t].ver = 0
          /\ Return(t, {0})
          /\ UNCHANGED flushed
       \/ /\ loc[t].ver # 0
          /\ Read(t)
          /\ At(loc[t].ver).map[loc[t].key] = NULL
          /\ Return(t, {loc[t].ver})
       \/ /\ loc[t].ver # 0
          /\ Read(t)
          /\ At(loc[t].ver).map[loc[t].key] # NULL
          /\ Goto(t, loc[t], "del_lock")
          /\ UNCHANGED known
    /\ UNCHANGED <<handle, file, hist, acked>>

DelLock(t) == pc[t] = "del_lock" /\ Prepare(t, NULL, "del_write")

DelWrite(t) ==
    /\ pc[t] = "del_write"
    /\ rw' = RwUnlock
    /\ WriteVersion(t, NULL)

-----------------------------------------------------------------------------
(* Reading: aodbm_get and aodbm_has, aodbm_current, aodbm_previous_version. *)

Get(t) ==
    /\ pc[t] = "get"
    /\ \/ loc[t].ver = 0 /\ UNCHANGED flushed
       \/ loc[t].ver # 0 /\ Read(t)
    /\ Return(t, {})
    /\ UNCHANGED <<handle, file, hist, acked>>

Current(t) ==
    /\ pc[t] = "current"
    /\ version = NULL
    /\ Return(t, {cur})
    /\ UNCHANGED <<handle, file, flushed, hist, acked>>

Prev(t) ==
    /\ pc[t] = "prev"
    /\ Read(t)
    /\ Return(t, {At(loc[t].ver).num})
    /\ UNCHANGED <<handle, file, hist, acked>>

-----------------------------------------------------------------------------
(* aodbm_is_based_on: is a based on b?  Each level of the recursion reads   *)
(* one previous version and gives up rw before the next.                   *)

WalkStep(t) ==
    /\ pc[t] = "walk"
    /\ loc[t].b # 0 /\ loc[t].a > loc[t].b
    /\ Read(t)
    /\ Goto(t, [loc[t] EXCEPT !.a = At(loc[t].a).num], "walk")
    /\ UNCHANGED <<handle, file, ghost>>

(* Mutant: a version later in the file counts as an ancestor.              *)
WalkEndLoose(t) ==
    /\ pc[t] = "walk"
    /\ loc[t].b = 0 \/ loc[t].a <= loc[t].b
    /\ Goto(t, [loc[t] EXCEPT !.ok = TRUE], "decided")
    /\ UNCHANGED <<handle, file, flushed, ghost>>

WalkEnd(t) ==
    /\ pc[t] = "walk"
    /\ loc[t].b = 0 \/ loc[t].a <= loc[t].b
    /\ Goto(t, [loc[t] EXCEPT !.ok = loc[t].b = 0 \/ loc[t].a = loc[t].b],
            "decided")
    /\ UNCHANGED <<handle, file, flushed, ghost>>

BasedReturn(t) ==
    /\ pc[t] = "decided" /\ loc[t].op = "based"
    /\ Return(t, {})
    /\ UNCHANGED <<handle, file, flushed, hist, acked>>

-----------------------------------------------------------------------------
(* aodbm_commit; aodbm_commit_init, _finish and _abort are its two halves.  *)

(* Mutant: the head is read without taking the mutex version.              *)
CommitUnlocked(t) ==
    /\ pc[t] = "commit_lock"
    /\ Goto(t, [loc[t] EXCEPT !.a = loc[t].ver, !.b = cur], "walk")
    /\ UNCHANGED <<handle, file, flushed, ghost>>

CommitLock(t) ==
    /\ pc[t] = "commit_lock"
    /\ version = NULL
    /\ version' = t
    /\ Goto(t, [loc[t] EXCEPT !.a = loc[t].ver, !.b = cur], "walk")
    /\ UNCHANGED <<mode, file, flushed, file_size, cur, rw, ghost>>

(* Mutant: a refused commit keeps the mutex version.                       *)
CommitAbortLocked(t) ==
    /\ pc[t] = "decided"
    /\ loc[t].op = "init" \/ (loc[t].op = "commit" /\ ~loc[t].ok)
    /\ Return(t, {})
    /\ UNCHANGED <<handle, file, flushed, hist, acked>>

(* Not based on the head (commit returns false), or the application gives  *)
(* up after aodbm_commit_init.                                             *)
CommitAbort(t) ==
    /\ pc[t] = "decided"
    /\ loc[t].op = "init" \/ (loc[t].op = "commit" /\ ~loc[t].ok)
    /\ version' = NULL
    /\ Return(t, {})
    /\ UNCHANGED <<mode, file, flushed, file_size, cur, rw, hist, acked>>

(* aodbm_write_version takes rw and writes the block ...                   *)
CommitWrite(t) ==
    /\ pc[t] = "decided" /\ loc[t].op \in {"commit", "init"} /\ loc[t].ok
    /\ RwFree(t)
    /\ rw' = RwLock(t)
    /\ file' = file \o VersionBlock(loc[t].ver)
    /\ file_size' = file_size + 2
    /\ Goto(t, loc[t], "commit_flush")
    /\ UNCHANGED <<mode, flushed, cur, version, ghost>>

(* Mutant: aodbm_write_version does not flush.                             *)
CommitNoFlush(t) ==
    /\ pc[t] = "commit_flush"
    /\ rw' = RwUnlock
    /\ Goto(t, loc[t], "commit_head")
    /\ UNCHANGED <<mode, file, flushed, file_size, cur, version, ghost>>

(* ... hands it to the kernel and releases rw.                             *)
CommitFlush(t) ==
    /\ pc[t] = "commit_flush"
    /\ flushed' = Len(file)
    /\ rw' = RwUnlock
    /\ Goto(t, loc[t], "commit_head")
    /\ UNCHANGED <<mode, file, file_size, cur, version, ghost>>

CommitHead(t) ==
    /\ pc[t] = "commit_head"
    /\ cur' = loc[t].ver
    /\ version' = NULL
    /\ acked' = loc[t].ver
    /\ Return(t, {})
    /\ UNCHANGED <<mode, file, flushed, file_size, rw, hist>>

-----------------------------------------------------------------------------
(* aodbm_common_ancestor, and aodbm_merge, which is built on it.           *)

JoinStep(t) ==
    LET a == loc[t].a
        b == loc[t].b
    IN  /\ pc[t] = "join"
        /\ a # b /\ a # 0 /\ b # 0
        /\ Read(t)
        /\ \/ a > b /\ Goto(t, [loc[t] EXCEPT !.a = At(a).num], "join")
           \/ b > a /\ Goto(t, [loc[t] EXCEPT !.b = At(b).num], "join")
        /\ UNCHANGED <<handle, file, ghost>>

(* Mutant: reaching version 0 on one side answers with the other side.     *)
JoinEndEither(t) ==
    /\ pc[t] = "join"
    /\ loc[t].a = loc[t].b \/ loc[t].a = 0 \/ loc[t].b = 0
    /\ Goto(t, [loc[t] EXCEPT !.a = IF @ = 0 THEN loc[t].b ELSE @], "joined")
    /\ UNCHANGED <<handle, file, flushed, ghost>>

JoinEnd(t) ==
    LET a == loc[t].a
        b == loc[t].b
    IN  /\ pc[t] = "join"
        /\ a = b \/ a = 0 \/ b = 0
        /\ Goto(t, [loc[t] EXCEPT !.a = IF a = b THEN a ELSE 0], "joined")
        /\ UNCHANGED <<handle, file, flushed, ghost>>

(* aodbm_merge answers only when one version contains the other.           *)
JoinReturn(t) ==
    LET l == loc[t]
    IN  /\ pc[t] = "joined"
        /\ \/ l.op = "ancestor" /\ Return(t, {l.a})
           \/ l.op = "merge" /\ l.a = l.ver /\ Return(t, {l.other})
           \/ l.op = "merge" /\ l.a # l.ver /\ l.a = l.other /\ Return(t, {l.ver})
        /\ UNCHANGED <<handle, file, flushed, hist, acked>>

-----------------------------------------------------------------------------
(* The life of the handle: open with its scan, close, crash.               *)

NoLocks == /\ rw' = [owner |-> NULL, count |-> 0]
           /\ version' = NULL

(* The file keeps everything flushed and a prefix of the rest; the process *)
(* and what it knew are gone.                                              *)
CrashAt(k) ==
    /\ mode' = "closed"
    /\ file' = SubSeq(file, 1, k)
    /\ flushed' = k
    /\ hist' = HistUpTo(k)
    /\ known' = {0}
    /\ pc' = [t \in Thread |-> "idle"]
    /\ loc' = [t \in Thread |-> NoCall]
    /\ NoLocks
    /\ UNCHANGED <<file_size, cur, acked>>

Crash ==
    /\ mode \in {"opening", "open"}
    /\ \E k \in (IF PowerLoss THEN 0 ELSE flushed) .. Len(file) : CrashAt(k)

(* aodbm_merge of diverged versions ends in assert(0) in aodbm_diff_prev,  *)
(* after aodbm_diff has walked back to their common ancestor once more,    *)
(* which it has to read for unless that is 0.                              *)
MergeAbort(t) ==
    /\ pc[t] = "joined" /\ loc[t].op = "merge"
    /\ loc[t].a \notin {loc[t].ver, loc[t].other}
    /\ loc[t].a = 0 \/ RwFree(t)
    /\ \E k \in flushed .. Len(file) : CrashAt(k)

Close ==
    /\ mode = "open"
    /\ \A t \in Thread : pc[t] = "idle"
    /\ mode' = "closed"
    /\ flushed' = Len(file)
    /\ known' = {0}
    /\ NoLocks
    /\ UNCHANGED <<file, file_size, cur, pc, loc, hist, acked>>

OpenStart ==
    /\ mode = "closed"
    /\ mode' = "opening"
    /\ file_size' = 0
    /\ cur' = 0
    /\ NoLocks
    /\ UNCHANGED <<file, flushed, pc, loc, ghost>>

(* Mutant: a data block that ends where the file ends is taken for torn.   *)
TornOrLast ==
    \/ At(file_size).kind \in {"v", "d"} /\ file_size + 1 = Len(file)
    \/ /\ At(file_size).kind = "d"
       /\ file_size + 1 < Len(file)
       /\ file_size + 2 + At(file_size + 1).num >= Len(file)

(* The block at file_size is cut short: its offset, its size or its data.  *)
Torn ==
    \/ At(file_size).kind \in {"v", "d"} /\ file_size + 1 = Len(file)
    \/ /\ At(file_size).kind = "d"
       /\ file_size + 1 < Len(file)
       /\ file_size + 2 + At(file_size + 1).num > Len(file)

OpenBlock ==
    /\ mode = "opening"
    /\ file_size < Len(file)
    /\ ~Torn
    /\ mode' = IF At(file_size).kind \in {"v", "d"} THEN "opening" ELSE "error"
    /\ cur' = IF At(file_size).kind = "v" THEN At(file_size + 1).num ELSE cur
    /\ file_size' = CASE At(file_size).kind = "v" -> file_size + 2
                      [] At(file_size).kind = "d" ->
                           file_size + 2 + At(file_size + 1).num
                      [] OTHER -> file_size + 1
    /\ UNCHANGED <<file, flushed, rw, version, pc, loc, ghost>>

(* Mutant: the scan stops at a torn block and leaves it in the file.       *)
OpenTornKept ==
    /\ mode = "opening"
    /\ file_size < Len(file)
    /\ Torn
    /\ mode' = "open"
    /\ UNCHANGED <<file, flushed, file_size, cur, rw, version, pc, loc, ghost>>

(* aodbm_truncate to the beginning of the block ends the scan.             *)
OpenTorn ==
    /\ mode = "opening"
    /\ file_size < Len(file)
    /\ Torn
    /\ mode' = "open"
    /\ file' = SubSeq(file, 1, file_size)
    /\ flushed' = file_size
    /\ hist' = HistUpTo(file_size)
    /\ UNCHANGED <<file_size, cur, rw, version, pc, loc, known, acked>>

OpenEof ==
    /\ mode = "opening"
    /\ file_size >= Len(file)
    /\ mode' = "open"
    /\ UNCHANGED <<file, flushed, file_size, cur, rw, version, pc, loc, ghost>>

-----------------------------------------------------------------------------
Init ==
    /\ mode = "closed"
    /\ file = <<>> /\ flushed = 0 /\ file_size = 0 /\ cur = 0
    /\ rw = [owner |-> NULL, count |-> 0] /\ version = NULL
    /\ pc = [t \in Thread |-> "idle"]
    /\ loc = [t \in Thread |-> NoCall]
    /\ hist = [v \in {} |-> [prev |-> 0, map |-> EmptyMap, anc |-> {}]]
    /\ known = {0} /\ acked = 0

Invoke(t) == \/ CallSet(t) \/ CallDel(t) \/ CallGet(t) \/ CallCurrent(t)
             \/ CallPrev(t) \/ CallCommit(t) \/ CallBased(t) \/ CallAncestor(t)

Step(t) == \/ SetLock(t) \/ SetWrite(t)
           \/ DelHas(t) \/ DelLock(t) \/ DelWrite(t)
           \/ Get(t) \/ Current(t) \/ Prev(t)
           \/ WalkStep(t) \/ WalkEnd(t) \/ BasedReturn(t)
           \/ CommitLock(t) \/ CommitAbort(t) \/ CommitWrite(t)
           \/ CommitFlush(t) \/ CommitHead(t)
           \/ JoinStep(t) \/ JoinEnd(t) \/ JoinReturn(t)
           \/ MergeAbort(t)

Scan == OpenBlock \/ OpenTorn \/ OpenEof

Next == \/ \E t \in Thread : Invoke(t) \/ Step(t)
        \/ OpenStart \/ Scan \/ Close \/ Crash

Spec == Init /\ [][Next]_vars

(* A thread inside a call, or between aodbm_commit_init and its second     *)
(* half, goes on when it can, and a mutex that is released again and again *)
(* is not denied to it forever; the scan of aodbm_open goes on.            *)
Fairness == WF_vars(Scan) /\ \A t \in Thread : SF_vars(Step(t))

FairSpec == Spec /\ Fairness

-----------------------------------------------------------------------------
(* Properties.                                                             *)

PcNames == {"idle", "set_lock", "set_write", "del_has", "del_lock",
            "del_write", "get", "current", "prev", "commit_lock", "walk",
            "decided", "commit_flush", "commit_head", "join", "joined"}

Locals == [op : CallNames \cup {"none"}, ver : Nat, other : Nat,
           key : Key \cup {NULL}, val : Value \cup {NULL},
           a : Nat, b : Nat, ok : BOOLEAN, pos : Nat, nodes : Nat, map : Map]

HistEntry == [prev : Nat, map : Map, anc : SUBSET Nat]

(* Every variable of the handle, the threads and the history has its type. *)
TypeOK ==
    /\ mode \in {"closed", "opening", "open", "error"}
    /\ file \in Seq(Cell)
    /\ flushed \in Nat /\ file_size \in Nat /\ cur \in Nat
    /\ rw \in [owner : Thread \cup {NULL}, count : Nat]
    /\ version \in Thread \cup {NULL}
    /\ pc \in [Thread -> PcNames]
    /\ loc \in [Thread -> Locals]
    /\ DOMAIN hist \subseteq Nat
    /\ hist \in [DOMAIN hist -> HistEntry]
    /\ known \subseteq Nat
    /\ acked \in Nat

(* A version is a snapshot: at the offset aodbm_set or aodbm_del returned   *)
(* there is, for as long as the version exists, the previous version and   *)
(* the map that call was asked to make, whatever other threads append.     *)
VersionsImmutable ==
    \A v \in DOMAIN hist :
        /\ v < Len(file)
        /\ At(v) = MkCell("root", hist[v].prev, hist[v].map)

(* "it has to be locked to prevent the append_pos going astray": between   *)
(* computing append_pos and writing its block, the file does not grow.     *)
AppendPosInPlace ==
    \A t \in Thread :
        pc[t] \in {"set_write", "del_write"} => loc[t].pos = Len(file) + 2

(* aodbm_is_based_on answers true exactly when its first argument descends *)
(* from, or is, the second: stopping at a smaller offset loses no answer.  *)
BasedOnExact ==
    \A t \in Thread :
        pc[t] = "decided" =>
            (loc[t].ok <=> loc[t].b = 0 \/ loc[t].b \in Anc(loc[t].ver))

(* aodbm_common_ancestor finds the latest version both arguments descend   *)
(* from, and 0 when there is none.                                         *)
AncestorExact ==
    \A t \in Thread :
        pc[t] = "joined" =>
            LET common == Anc(loc[t].ver) \cap Anc(loc[t].other)
            IN  /\ loc[t].a \in common \cup {0}
                /\ \A c \in common : c <= loc[t].a

(* The head a commit was checked against is still the head when it is      *)
(* replaced, however long the check takes and whatever it waits for.       *)
CheckedHeadIsCurrent ==
    \A t \in Thread :
        /\ loc[t].op \in {"commit", "init"}
        /\ pc[t] \in {"walk", "decided", "commit_flush", "commit_head"}
        => loc[t].b = cur

(* No committed update is lost: in an open database the head is only ever  *)
(* replaced by a version that descends from it.                            *)
HeadAdvances ==
    [][mode = "open" /\ mode' = "open" /\ cur' # cur
       => cur = 0 \/ (cur' # 0 /\ cur \in hist'[cur'].anc)]_vars

(* The head of an open database is 0 or the offset of a complete version,  *)
(* also right after recovery from any crash.                               *)
HeadIsVersion == mode = "open" => cur \in DOMAIN hist \cup {0}

(* What aodbm_commit reported as committed is still part of the head after *)
(* every crash and recovery.                                               *)
CommittedSurvives ==
    mode = "open" => acked = 0 \/ (cur # 0 /\ acked \in Anc(cur))

(* The scan of aodbm_open stays on block boundaries: it never takes the    *)
(* inside of a block for a block of unknown type.                          *)
NoUnknownBlock == mode # "error"

(* aodbm_open truncates torn blocks only: every version that reached the   *)
(* file completely is still there when the database is open again.         *)
ScanKeepsVersions == [][mode = "opening" /\ mode' = "open" => hist' = hist]_vars

(* db->file_size, from which append_pos is computed, is the size of the    *)
(* file, also after aodbm_open has found its way to the end and truncated. *)
FileSizeExact == mode = "open" => file_size = Len(file)

(* What the file says, read without any history: every root cell is a      *)
(* version; the head is db->cur while the database is open, and otherwise  *)
(* the last complete version block.                                        *)
Roots == {v \in 0 .. Len(file) - 1 : At(v).kind = "root"}

Heads == {i \in 1 .. Len(file) - 1 : file[i].kind = "v"}

FileHead ==
    IF mode = "open" THEN cur
    ELSE IF Heads = {} THEN 0
    ELSE file[1 + CHOOSE i \in Heads : \A j \in Heads : j <= i].num

History == INSTANCE VersionHistory WITH
    up       <- mode = "open",
    versions <- [v \in Roots |-> [prev |-> At(v).num, map |-> At(v).map]],
    head     <- FileHead

(* The file, the locks and the recovery scan implement the abstract        *)
(* history of versions, through every crash and every interleaving.        *)
ImplementsHistory == History!HSpec

(* rw is held by a thread that is not writing: aodbm_set has left it so.   *)
Leaked == /\ rw.owner # NULL
          /\ pc[rw.owner] \notin {"set_write", "del_write", "commit_flush"}

(* Every call returns, unless a finished aodbm_set has kept rw: no order   *)
(* of the two mutexes, and no path that gives one up, blocks a thread.     *)
CallsReturnUnlessLeaked ==
    \A t \in Thread : pc[t] # "idle" ~> pc[t] = "idle" \/ Leaked

(* Every call returns, whatever the other threads do.                      *)
EveryCallReturns == \A t \in Thread : pc[t] # "idle" ~> pc[t] = "idle"
=============================================================================
