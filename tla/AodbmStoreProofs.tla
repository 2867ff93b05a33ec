--------------------------- MODULE AodbmStoreProofs ---------------------------
(***************************************************************************)
(* Proofs about AodbmStore, for every set of threads, keys and values and  *)
(* files of any size, in three parts.                                      *)
(*                                                                         *)
(* IInv is an invariant, and with it the types, the immutability of        *)
(* versions, the place of append_pos, the exactness of aodbm_is_based_on   *)
(* and aodbm_common_ancestor, and the head that only moves to its own      *)
(* descendants.                                                            *)
(*                                                                         *)
(* RInv is an invariant, and with it the scan never leaves the blocks,     *)
(* loses no version and finds every commit that was reported.              *)
(*                                                                         *)
(* The database implements VersionHistory, step by step: the file with its *)
(* locks, flushes, crashes and scans is a tree of immutable versions with  *)
(* a head that only advances.                                              *)
(***************************************************************************)
EXTENDS AodbmRecovery, SequenceTheorems, WellFoundedInduction, TLAPS

-----------------------------------------------------------------------------
(* Part one: the handle and the file.                                      *)

-----------------------------------------------------------------------------
(* The blocks.                                                             *)

(* A cell has a type, whatever field it stands for.                        *)
LEMMA CellType ==
    ASSUME NEW kind \in {"d", "v", "size", "off", "node", "root"},
           NEW num \in Nat, NEW map \in Map
    PROVE  /\ MkCell(kind, num, map) \in Cell
           /\ MkCell(kind, num, map).kind = kind
           /\ MkCell(kind, num, map).num = num
           /\ MkCell(kind, num, map).map = map
  BY DEF MkCell, Cell

(* The map of the empty database is a map.                                 *)
LEMMA EmptyMapType == EmptyMap \in Map
  BY DEF EmptyMap, Map

(* A thread that is in no call has locals of the right types.              *)
LEMMA NoCallType == NoCall \in Locals
  BY EmptyMapType, ConstantsAssumption DEF NoCall, Locals, CallNames

(* A data block has n nodes between its header and its root.               *)
LEMMA DataBlockProps ==
    ASSUME NEW n \in Nat, NEW prev \in Nat, NEW map \in Map
    PROVE  /\ DataBlock(n, prev, map) \in Seq(Cell)
           /\ Len(DataBlock(n, prev, map)) = n + 3
           /\ DataBlock(n, prev, map)[1].num = 0
           /\ DataBlock(n, prev, map)[n + 3] = MkCell("root", prev, map)
           /\ \A i \in 1 .. n + 3 : DataBlock(n, prev, map)[i].kind # "v"
  <1> DEFINE b == DataBlock(n, prev, map)
  <1>1. \A i \in 1 .. n + 3 : b[i] \in Cell /\ b[i].kind # "v"
    BY EmptyMapType, CellType DEF DataBlock
  <1>2. b = [i \in 1 .. n + 3 |-> b[i]]
    BY DEF DataBlock
  <1>3. b \in Seq(Cell) /\ Len(b) = n + 3
    BY <1>1, <1>2
  <1>4. b[n + 3] = MkCell("root", prev, map)
    BY DEF DataBlock
  <1>5. b[1].num = 0
    BY EmptyMapType, CellType DEF DataBlock
  <1> QED BY <1>1, <1>3, <1>4, <1>5

(* A version block is two cells, the second with the offset it commits.    *)
LEMMA VersionBlockProps ==
    ASSUME NEW v \in Nat
    PROVE  /\ VersionBlock(v) \in Seq(Cell)
           /\ Len(VersionBlock(v)) = 2
           /\ VersionBlock(v)[1].kind = "v" /\ VersionBlock(v)[1].num = 0
           /\ VersionBlock(v)[2].kind = "off" /\ VersionBlock(v)[2].num = v
  BY EmptyMapType, CellType DEF VersionBlock

-----------------------------------------------------------------------------
(* Versions.                                                               *)

(* What there is to know of a version other than 0: its cell holds its map *)
(* and the version before it, and its ancestors are that one's and itself. *)
LEMMA VersionFacts ==
    ASSUME IInv, NEW v \in Refs, v # 0
    PROVE  /\ v \in DOMAIN hist /\ v \in Nat /\ v + 1 \in 1 .. Len(file)
           /\ At(v) \in Cell
           /\ At(v).num = hist[v].prev /\ At(v).map = HistMap(v)
           /\ At(v).num \in Refs /\ At(v).num < v /\ At(v).num \in Nat
           /\ Anc(v) = Anc(At(v).num) \cup {v}
           /\ \A w \in Anc(v) : w \in DOMAIN hist /\ w \in Nat /\ w > 0 /\ w <= v
  <1>1. v \in DOMAIN hist /\ v \in Nat /\ v < Len(file) /\ hist[v] \in HistEntry
    BY DEF IInv, TypeOK, Refs, HistInv
  <1>2. file \in Seq(Cell) /\ At(v) \in Cell
    BY <1>1 DEF IInv, TypeOK, At
  <1>3. At(v) = MkCell("root", hist[v].prev, hist[v].map)
    BY <1>1 DEF IInv, HistInv, At
  <1>4. At(v).num = hist[v].prev /\ At(v).map = hist[v].map
    BY <1>1, <1>3, CellType DEF HistEntry
  <1>5. Anc(v) = hist[v].anc /\ HistMap(v) = hist[v].map
    BY DEF Anc, HistMap
  <1>6. hist[v].prev \in Refs /\ hist[v].prev < v /\ hist[v].prev \in Nat
    BY <1>1 DEF IInv, HistInv, HistEntry
  <1>7. hist[v].anc = Anc(hist[v].prev) \cup {v}
    BY <1>1 DEF IInv, HistInv
  <1>8. \A w \in hist[v].anc : w \in DOMAIN hist /\ w <= v
    BY <1>1 DEF IInv, HistInv
  <1>9. \A w \in DOMAIN hist : w \in Nat /\ w > 0
    BY DEF IInv, TypeOK, HistInv
  <1> QED BY <1>1, <1>2, <1>4, <1>5, <1>6, <1>7, <1>8, <1>9

(* References are natural numbers, and every version has a map.            *)
LEMMA RefsType ==
    ASSUME IInv
    PROVE  Refs \subseteq Nat /\ \A v \in Refs : HistMap(v) \in Map
  BY EmptyMapType DEF IInv, TypeOK, Refs, HistMap, HistEntry

-----------------------------------------------------------------------------
(* The empty file satisfies the invariant.                                 *)
THEOREM InitIInv == Init => IInv
  <1> SUFFICES ASSUME Init PROVE IInv OBVIOUS
  <1> USE DEF Init
  <1>1. TypeOK
    BY NoCallType, EmptyMapType DEF TypeOK, PcNames
  <1>2. (rw.owner = NULL <=> rw.count = 0) /\ SizeInv /\ HistInv /\ OffInv /\ RefInv
    BY DEF SizeInv, HistInv, OffInv, RefInv, Refs
  <1>3. \A t \in Thread : ThreadInv(t)
    BY DEF ThreadInv, LocksHeld, RefsKnown, BlockReady, LoopKeeps, Writing,
           Committing, NoCall, Refs
  <1> QED BY <1>1, <1>2, <1>3 DEF IInv

-----------------------------------------------------------------------------
(* One thread moves.                                                       *)

(* A thread that does not move keeps its part of the invariant if versions *)
(* stay as they are, its mutexes stay its own, and the file and the head   *)
(* only change under a mutex it does not hold.                             *)
LEMMA OthersKeep ==
    ASSUME IInv, NEW u \in Thread,
           pc'[u] = pc[u], loc'[u] = loc[u], mode' = mode,
           Refs \subseteq Refs',
           \A v \in Refs : Anc(v)' = Anc(v) /\ HistMap(v)' = HistMap(v),
           rw.owner = u => rw'.owner = u,
           version = u => version' = u,
           cur' = cur \/ version # u,
           Len(file') = Len(file) \/ rw.owner # u
    PROVE  ThreadInv(u)'
  <1>1. ThreadInv(u) BY DEF IInv
  <1>2. LocksHeld(u)'
    BY <1>1 DEF ThreadInv, LocksHeld, Writing, Committing
  <1>3. RefsKnown(u)'
    BY <1>1 DEF ThreadInv, RefsKnown
  <1>4. BlockReady(u)'
    BY <1>1 DEF ThreadInv, LocksHeld, BlockReady, RefsKnown, Writing
  <1>5. LoopKeeps(u)'
    BY <1>1 DEF ThreadInv, LocksHeld, LoopKeeps, RefsKnown, Committing
  <1> QED BY <1>2, <1>3, <1>4, <1>5 DEF ThreadInv

(* A thread moves in an open database, and writes no block.                *)
LEMMA QuietMove ==
    ASSUME IInv, NEW t \in Thread, NEW l \in Locals, NEW where \in PcNames,
           mode = "open", Goto(t, l, where),
           UNCHANGED <<mode, file, file_size, hist>>,
           flushed' \in Nat, cur' \in Refs, acked' \in Nat, known' \subseteq Refs,
           rw' \in [owner : Thread \cup {NULL}, count : Nat],
           rw'.owner = NULL <=> rw'.count = 0,
           version' \in Thread \cup {NULL},
           \A u \in Thread \ {t} : rw.owner = u => rw'.owner = u,
           \A u \in Thread \ {t} : version = u => version' = u,
           cur' = cur \/ version = t,
           ThreadInv(t)'
    PROVE  IInv'
  <1>1. /\ Refs' = Refs
        /\ \A v : Anc(v)' = Anc(v) /\ HistMap(v)' = HistMap(v)
    BY DEF Refs, Anc, HistMap
  <1>2. TypeOK'
    BY RefsType DEF IInv, TypeOK, Goto
  <1>3. SizeInv' /\ HistInv' /\ OffInv' /\ RefInv'
    BY <1>1 DEF IInv, SizeInv, HistInv, OffInv, RefInv
  <1>4. \A u \in Thread \ {t} : ThreadInv(u)'
    BY <1>1, OthersKeep, ConstantsAssumption DEF IInv, TypeOK, Goto
  <1> QED BY <1>2, <1>3, <1>4 DEF IInv

(* Where a thread is once it has moved.                                    *)
LEMMA GotoFacts ==
    ASSUME IInv, NEW t \in Thread, NEW l, NEW where, Goto(t, l, where)
    PROVE  pc'[t] = where /\ loc'[t] = l
  BY DEF IInv, TypeOK, Goto

(* The unfolded parts of what holds of every thread.                       *)
LEMMA ThreadFacts ==
    ASSUME IInv, NEW t \in Thread
    PROVE  /\ loc[t] \in Locals /\ pc[t] \in PcNames
           /\ loc[t].ver \in Refs /\ loc[t].other \in Refs
           /\ loc[t].a \in Refs /\ loc[t].b \in Refs
           /\ Refs \subseteq Nat
           /\ pc[t] # "idle" => mode = "open"
           /\ ThreadInv(t)
  BY RefsType DEF IInv, TypeOK, ThreadInv, LocksHeld, RefsKnown

(* An application calls with versions it knows: the call begins well.      *)
LEMMA CallKeeps ==
    ASSUME IInv, NEW t \in Thread, NEW l \in Locals, NEW where \in PcNames,
           Call(t, l, where),
           l.ver \in Refs, l.other \in Refs, l.a \in Refs, l.b \in Refs,
           where \in {"set_lock", "del_has", "get", "current", "prev",
                      "commit_lock", "walk", "join"},
           where = "prev" => l.ver # 0,
           where = "commit_lock" => l.op \in {"commit", "init"},
           where = "walk" => l.op = "based" /\ l.a = l.ver,
           where = "join" => l.a = l.ver /\ l.b = l.other
    PROVE  IInv'
  <1> USE DEF Call, handle, ghost
  <1>1. pc'[t] = where /\ loc'[t] = l
    BY GotoFacts
  <1>2. \A v : Anc(v)' = Anc(v) /\ HistMap(v)' = HistMap(v)
    BY DEF Anc, HistMap
  <1>3. LocksHeld(t)' /\ RefsKnown(t)' /\ BlockReady(t)'
    BY <1>1 DEF LocksHeld, RefsKnown, BlockReady, Writing, Committing, Refs
  <1>4. LoopKeeps(t)'
    BY <1>1, <1>2 DEF LoopKeeps, Committing
  <1> QED BY <1>3, <1>4, QuietMove DEF IInv, TypeOK, RefInv, ThreadInv

(* Every function of the API is called with what it may be called with.    *)
LEMMA InvokeKeeps ==
    ASSUME IInv, NEW t \in Thread, Invoke(t)
    PROVE  IInv'
  <1>1. /\ NoCall \in Locals /\ NoCall.ver = 0 /\ NoCall.other = 0
        /\ NoCall.a = 0 /\ NoCall.b = 0
    BY NoCallType DEF NoCall
  <1>2. known \subseteq Refs /\ Refs \subseteq Nat /\ 0 \in Refs
    BY RefsType DEF IInv, RefInv, Refs
  <1>3. CASE CallSet(t)
    <2>1. PICK v \in known, k \in Key, x \in Value :
            Call(t, [NoCall EXCEPT !.op = "set", !.ver = v, !.key = k, !.val = x],
                 "set_lock")
      BY <1>3 DEF CallSet
    <2>2. LET l == [NoCall EXCEPT !.op = "set", !.ver = v, !.key = k, !.val = x]
          IN  /\ l \in Locals /\ l.ver \in Refs /\ l.other \in Refs
              /\ l.a \in Refs /\ l.b \in Refs
      BY <1>1, <1>2 DEF Locals, CallNames
    <2> QED BY <1>1, <1>2, <2>1, <2>2, CallKeeps DEF PcNames
  <1>4. CASE CallDel(t)
    <2>1. PICK v \in known, k \in Key :
            Call(t, [NoCall EXCEPT !.op = "del", !.ver = v, !.key = k], "del_has")
      BY <1>4 DEF CallDel
    <2>2. LET l == [NoCall EXCEPT !.op = "del", !.ver = v, !.key = k]
          IN  /\ l \in Locals /\ l.ver \in Refs /\ l.other \in Refs
              /\ l.a \in Refs /\ l.b \in Refs
      BY <1>1, <1>2 DEF Locals, CallNames
    <2> QED BY <1>1, <1>2, <2>1, <2>2, CallKeeps DEF PcNames
  <1>5. CASE CallGet(t)
    <2>1. PICK v \in known, k \in Key :
            Call(t, [NoCall EXCEPT !.op = "get", !.ver = v, !.key = k], "get")
      BY <1>5 DEF CallGet
    <2>2. LET l == [NoCall EXCEPT !.op = "get", !.ver = v, !.key = k]
          IN  /\ l \in Locals /\ l.ver \in Refs /\ l.other \in Refs
              /\ l.a \in Refs /\ l.b \in Refs
      BY <1>1, <1>2 DEF Locals, CallNames
    <2> QED BY <1>1, <1>2, <2>1, <2>2, CallKeeps DEF PcNames
  <1>6. CASE CallCurrent(t)
    <2>1. LET l == [NoCall EXCEPT !.op = "current"]
          IN  /\ l \in Locals /\ l.ver \in Refs /\ l.other \in Refs
              /\ l.a \in Refs /\ l.b \in Refs
      BY <1>1, <1>2 DEF Locals, CallNames
    <2> QED BY <1>1, <1>2, <1>6, <2>1, CallKeeps DEF CallCurrent, PcNames
  <1>7. CASE CallPrev(t)
    <2>1. PICK v \in known \ {0} :
            Call(t, [NoCall EXCEPT !.op = "prev", !.ver = v], "prev")
      BY <1>7 DEF CallPrev
    <2>2. LET l == [NoCall EXCEPT !.op = "prev", !.ver = v]
          IN  /\ l \in Locals /\ l.ver \in Refs /\ l.other \in Refs
              /\ l.a \in Refs /\ l.b \in Refs
              /\ l.ver # 0
      BY <1>1, <1>2 DEF Locals, CallNames
    <2> QED BY <1>1, <1>2, <2>1, <2>2, CallKeeps DEF PcNames
  <1>8. CASE CallCommit(t)
    <2>1. PICK v \in known, f \in {"commit", "init"} :
            Call(t, [NoCall EXCEPT !.op = f, !.ver = v], "commit_lock")
      BY <1>8 DEF CallCommit
    <2>2. LET l == [NoCall EXCEPT !.op = f, !.ver = v]
          IN  /\ l \in Locals /\ l.ver \in Refs /\ l.other \in Refs
              /\ l.a \in Refs /\ l.b \in Refs
              /\ l.op \in {"commit", "init"}
      BY <1>1, <1>2 DEF Locals, CallNames
    <2> QED BY <1>1, <1>2, <2>1, <2>2, CallKeeps DEF PcNames
  <1>9. CASE CallBased(t)
    <2>1. PICK v \in known, w \in known :
            Call(t, [NoCall EXCEPT !.op = "based", !.ver = v, !.other = w,
                                   !.a = v, !.b = w], "walk")
      BY <1>9 DEF CallBased
    <2>2. LET l == [NoCall EXCEPT !.op = "based", !.ver = v, !.other = w,
                         !.a = v, !.b = w]
          IN  /\ l \in Locals /\ l.ver \in Refs /\ l.other \in Refs
              /\ l.a \in Refs /\ l.b \in Refs
              /\ l.op = "based" /\ l.a = l.ver
      BY <1>1, <1>2 DEF Locals, CallNames
    <2> QED BY <1>1, <1>2, <2>1, <2>2, CallKeeps DEF PcNames
  <1>10. CASE CallAncestor(t)
    <2>1. PICK v \in known, w \in known, f \in {"ancestor", "merge"} :
            Call(t, [NoCall EXCEPT !.op = f, !.ver = v, !.other = w,
                                   !.a = v, !.b = w], "join")
      BY <1>10 DEF CallAncestor
    <2>2. LET l == [NoCall EXCEPT !.op = f, !.ver = v, !.other = w,
                         !.a = v, !.b = w]
          IN  /\ l \in Locals /\ l.ver \in Refs /\ l.other \in Refs
              /\ l.a \in Refs /\ l.b \in Refs
              /\ l.a = l.ver /\ l.b = l.other
      BY <1>1, <1>2 DEF Locals, CallNames
    <2> QED BY <1>1, <1>2, <2>1, <2>2, CallKeeps DEF PcNames
  <1> QED BY <1>3, <1>4, <1>5, <1>6, <1>7, <1>8, <1>9, <1>10 DEF Invoke

-----------------------------------------------------------------------------
(* The steps of a call that write no block.                                *)

(* A call returns, telling the application of versions there are.          *)
LEMMA ReturnKeeps ==
    ASSUME IInv, NEW t \in Thread, NEW vs \in SUBSET Refs,
           pc[t] # "idle", Return(t, vs),
           UNCHANGED <<mode, file, file_size, hist, rw>>,
           flushed' \in Nat, cur' \in Refs, acked' \in Nat,
           version' = version \/ (version = t /\ version' = NULL),
           cur' = cur \/ version = t
    PROVE  IInv'
  <1>1. Goto(t, NoCall, "idle") /\ known' = known \cup vs /\ mode = "open"
    BY ThreadFacts DEF Return
  <1>2. pc'[t] = "idle" /\ loc'[t] = NoCall
    BY <1>1, GotoFacts
  <1>3. ThreadInv(t)'
    BY <1>1, <1>2 DEF ThreadInv, LocksHeld, RefsKnown, BlockReady, LoopKeeps,
                      Writing, Committing, NoCall, Refs
  <1>4. /\ rw' \in [owner : Thread \cup {NULL}, count : Nat]
        /\ rw'.owner = NULL <=> rw'.count = 0
        /\ version' \in Thread \cup {NULL}
        /\ known' \subseteq Refs
        /\ "idle" \in PcNames
    BY <1>1 DEF IInv, TypeOK, RefInv, PcNames
  <1> QED BY <1>1, <1>3, <1>4, NoCallType, QuietMove

(* Locking and unlocking rw keep it a recursive mutex.                     *)
LEMMA RwKeeps ==
    ASSUME IInv, NEW t \in Thread,
           \/ RwFree(t) /\ rw' = RwLock(t)
           \/ rw.owner = t /\ rw' = RwUnlock
    PROVE  /\ rw' \in [owner : Thread \cup {NULL}, count : Nat]
           /\ rw'.owner = NULL <=> rw'.count = 0
           /\ \A u \in Thread \ {t} : rw.owner # u /\ rw'.owner # u
  BY ConstantsAssumption DEF IInv, TypeOK, RwFree, RwLock, RwUnlock

(* aodbm_get and aodbm_current and aodbm_previous_version.                 *)
LEMMA ReadsKeep ==
    ASSUME IInv, NEW t \in Thread, Get(t) \/ Current(t) \/ Prev(t)
    PROVE  IInv'
  <1> USE DEF handle, Read
  <1>1. /\ flushed \in Nat /\ Len(file) \in Nat /\ acked \in Nat
        /\ pc[t] # "idle" => cur \in Refs
    BY ThreadFacts DEF IInv, TypeOK, RefInv
  <1>2. CASE Get(t)
    BY <1>1, <1>2, ReturnKeeps DEF Get
  <1>3. CASE Current(t)
    BY <1>1, <1>3, ReturnKeeps DEF Current
  <1>4. CASE Prev(t)
    <2>1. loc[t].ver \in Refs /\ loc[t].ver # 0
      BY <1>4, ThreadFacts DEF Prev, ThreadInv, RefsKnown
    <2>2. At(loc[t].ver).num \in Refs
      BY <2>1, VersionFacts
    <2> QED BY <1>1, <1>4, <2>2, ReturnKeeps DEF Prev
  <1> QED BY <1>2, <1>3, <1>4

(* aodbm_has, before aodbm_del takes rw.                                   *)
LEMMA DelHasKeeps ==
    ASSUME IInv, NEW t \in Thread, DelHas(t)
    PROVE  IInv'
  <1> USE DEF handle, Read
  <1>1. /\ flushed \in Nat /\ Len(file) \in Nat /\ acked \in Nat
        /\ mode = "open" /\ cur \in Refs /\ loc[t].ver \in Refs /\ 0 \in Refs
    BY ThreadFacts DEF IInv, TypeOK, RefInv, DelHas, Refs
  <1>2. CASE Goto(t, loc[t], "del_lock") /\ UNCHANGED known
    <2>1. pc'[t] = "del_lock" /\ loc'[t] = loc[t]
      BY <1>2, GotoFacts
    <2>2. /\ UNCHANGED <<mode, file, file_size, cur, rw, version, hist, acked>>
          /\ flushed' \in Nat
      BY <1>1 DEF DelHas
    <2>3. LocksHeld(t)' /\ RefsKnown(t)' /\ BlockReady(t)' /\ LoopKeeps(t)'
      BY <1>1, <2>1, <2>2, ThreadFacts
         DEF LocksHeld, RefsKnown, BlockReady, LoopKeeps, Writing, Committing, Refs
    <2>4. /\ rw \in [owner : Thread \cup {NULL}, count : Nat]
          /\ rw.owner = NULL <=> rw.count = 0
          /\ version \in Thread \cup {NULL}
          /\ known \subseteq Refs /\ loc[t] \in Locals /\ "del_lock" \in PcNames
      BY ThreadFacts DEF IInv, TypeOK, RefInv, PcNames
    <2> QED BY <1>1, <1>2, <2>2, <2>3, <2>4, QuietMove DEF ThreadInv
  <1>3. CASE \E vs \in {{0}, {loc[t].ver}} : Return(t, vs)
    BY <1>1, <1>3, ReturnKeeps DEF DelHas
  <1> QED BY <1>2, <1>3 DEF DelHas

(* aodbm_set and aodbm_del fix append_pos and the new map under rw.        *)
LEMMA PrepareKeeps ==
    ASSUME IInv, NEW t \in Thread, NEW val \in Value \cup {NULL},
           NEW where \in {"set_write", "del_write"}, pc[t] \in {"set_lock", "del_lock"},
           where = "set_write" => val = loc[t].val,
           where = "del_write" => val = NULL,
           Prepare(t, val, where)
    PROVE  IInv'
  <1> USE DEF ghost
  <1> DEFINE base == IF loc[t].ver = 0 THEN EmptyMap ELSE At(loc[t].ver).map
             l(n) == [loc[t] EXCEPT !.pos = file_size + 2, !.nodes = n,
                                    !.map = [base EXCEPT ![loc[t].key] = val]]
  <1>1. PICK n \in Nat : Goto(t, l(n), where)
    BY ConstantsAssumption DEF Prepare
  <1>2. mode = "open" /\ loc[t].ver \in Refs /\ loc[t] \in Locals
    BY ThreadFacts
  <1>3. base = HistMap(loc[t].ver) /\ base \in Map
    BY <1>2, VersionFacts, RefsType DEF HistMap
  <1>4. [base EXCEPT ![loc[t].key] = val] \in Map
    BY <1>3 DEF Map
  <1> HIDE DEF base
  <1>5. /\ l(n) \in Locals
        /\ l(n).pos = file_size + 2
        /\ l(n).map = [base EXCEPT ![loc[t].key] = val]
        /\ l(n).ver = loc[t].ver /\ l(n).other = loc[t].other
        /\ l(n).a = loc[t].a /\ l(n).b = loc[t].b
        /\ l(n).key = loc[t].key /\ l(n).val = loc[t].val
    <2>1. file_size + 2 \in Nat
      BY DEF IInv, TypeOK
    <2> QED BY <1>2, <1>4, <2>1 DEF Locals
  <1> HIDE DEF l
  <1>6. pc'[t] = where /\ loc'[t] = l(n)
    BY <1>1, GotoFacts
  <1>7. rw'.owner = t
    BY DEF Prepare, RwLock
  <1>8. LocksHeld(t)' /\ RefsKnown(t)'
    BY <1>2, <1>5, <1>6, <1>7, ThreadFacts
       DEF Prepare, LocksHeld, RefsKnown, Writing, Committing, Refs
  <1>9. BlockReady(t)'
    BY <1>2, <1>3, <1>5, <1>6
       DEF Prepare, BlockReady, IInv, SizeInv, HistMap
  <1>10. LoopKeeps(t)'
    BY <1>6 DEF LoopKeeps, Committing
  <1>11. /\ flushed' \in Nat /\ where \in PcNames
         /\ UNCHANGED <<mode, file, file_size, hist, cur, acked, known, version>>
    BY DEF Prepare, IInv, TypeOK, PcNames
  <1>12. RwFree(t) /\ rw' = RwLock(t)
    BY DEF Prepare
  <1> QED BY <1>1, <1>2, <1>5, <1>8, <1>9, <1>10, <1>11, <1>12, RwKeeps, QuietMove
          DEF IInv, TypeOK, RefInv, ThreadInv

-----------------------------------------------------------------------------
(* The loops over previous versions.                                       *)

(* A step of a loop reads, at most: what it has to show is LoopKeeps.      *)
LEMMA LoopMove ==
    ASSUME IInv, NEW t \in Thread, NEW l \in Locals, NEW where,
           \/ pc[t] = "walk" /\ where \in {"walk", "decided"}
           \/ pc[t] = "join" /\ where \in {"join", "joined"},
           Goto(t, l, where),
           l.op = loc[t].op, l.ver = loc[t].ver, l.other = loc[t].other,
           l.a \in Refs, l.b \in Refs,
           UNCHANGED <<handle, file, ghost>>, flushed' \in Nat,
           LoopKeeps(t)'
    PROVE  IInv'
  <1>1. mode = "open" /\ ThreadInv(t) /\ loc[t].ver \in Refs /\ loc[t].other \in Refs
    BY ThreadFacts
  <1>2. /\ UNCHANGED <<mode, file, file_size, cur, rw, version, hist, known, acked>>
        /\ Refs' = Refs
    BY DEF handle, ghost, Refs
  <1>3. /\ rw \in [owner : Thread \cup {NULL}, count : Nat]
        /\ rw.owner = NULL <=> rw.count = 0
        /\ version \in Thread \cup {NULL}
        /\ cur \in Refs /\ acked \in Nat /\ known \subseteq Refs /\ where \in PcNames
    BY <1>1 DEF IInv, TypeOK, RefInv, PcNames
  <1>4. pc'[t] = where /\ loc'[t] = l
    BY GotoFacts
  <1>5. LocksHeld(t)'
    BY <1>1, <1>2, <1>4 DEF ThreadInv, LocksHeld, Writing, Committing
  <1>6. RefsKnown(t)' /\ BlockReady(t)'
    BY <1>1, <1>2, <1>4 DEF RefsKnown, BlockReady
  <1> QED BY <1>1, <1>2, <1>3, <1>5, <1>6, QuietMove DEF ThreadInv

(* One previous version further, b is an ancestor exactly if it was.       *)
LEMMA WalkStepKeeps ==
    ASSUME IInv, NEW t \in Thread, WalkStep(t)
    PROVE  IInv'
  <1> USE DEF handle, ghost
  <1> DEFINE p == At(loc[t].a).num
             l == [loc[t] EXCEPT !.a = p]
  <1>1. /\ pc[t] = "walk" /\ loc[t].b # 0 /\ loc[t].a > loc[t].b
        /\ Goto(t, l, "walk") /\ flushed' \in Nat
        /\ UNCHANGED <<handle, file, ghost>>
    BY DEF WalkStep, Read, IInv, TypeOK
  <1>2. loc[t] \in Locals /\ loc[t].a \in Refs /\ loc[t].b \in Nat /\ loc[t].a # 0
    BY <1>1, ThreadFacts
  <1>3. /\ p \in Refs /\ p \in Nat
        /\ Anc(loc[t].a) = Anc(p) \cup {loc[t].a}
    BY <1>2, VersionFacts
  <1> HIDE DEF p
  <1>4. /\ l \in Locals
        /\ l.a = p /\ l.op = loc[t].op /\ l.ver = loc[t].ver
        /\ l.other = loc[t].other /\ l.b = loc[t].b
    BY <1>2, <1>3 DEF Locals
  <1> HIDE DEF l
  <1>5. pc'[t] = "walk" /\ loc'[t] = l
    BY <1>1, GotoFacts
  <1>6. \A v : Anc(v)' = Anc(v)
    BY <1>1 DEF Anc
  <1>7. LoopKeeps(t)'
    BY <1>1, <1>2, <1>3, <1>4, <1>5, <1>6, ThreadFacts
       DEF ThreadInv, LoopKeeps, Committing
  <1> QED BY <1>1, <1>2, <1>3, <1>4, <1>7, ThreadFacts, LoopMove

(* Where a is b, b is an ancestor; where a is before b, it cannot be.      *)
LEMMA WalkEndKeeps ==
    ASSUME IInv, NEW t \in Thread, WalkEnd(t)
    PROVE  IInv'
  <1> USE DEF handle, ghost
  <1> DEFINE l == [loc[t] EXCEPT !.ok = loc[t].b = 0 \/ loc[t].a = loc[t].b]
  <1>1. /\ pc[t] = "walk" /\ (loc[t].b = 0 \/ loc[t].a <= loc[t].b)
        /\ Goto(t, l, "decided") /\ flushed' \in Nat
        /\ UNCHANGED <<handle, file, ghost>>
    BY DEF WalkEnd, IInv, TypeOK
  <1>2. loc[t] \in Locals /\ loc[t].a \in Refs /\ loc[t].b \in Nat /\ loc[t].a \in Nat
    BY <1>1, ThreadFacts
  <1>3. /\ l \in Locals
        /\ l.a = loc[t].a /\ l.op = loc[t].op /\ l.ver = loc[t].ver
        /\ l.other = loc[t].other /\ l.b = loc[t].b
        /\ l.ok <=> (loc[t].b = 0 \/ loc[t].a = loc[t].b)
    BY <1>2 DEF Locals
  <1> HIDE DEF l
  <1>4. pc'[t] = "decided" /\ loc'[t] = l
    BY <1>1, GotoFacts
  <1>5. \A v : Anc(v)' = Anc(v)
    BY <1>1 DEF Anc
  <1>6. loc[t].b # 0 => (loc[t].b \in Anc(loc[t].a) <=> loc[t].a = loc[t].b)
    <2>1. CASE loc[t].a = 0
      BY <1>1, <2>1 DEF Anc
    <2>2. CASE loc[t].a # 0
      <3>1. /\ loc[t].a \in Anc(loc[t].a)
            /\ \A w \in Anc(loc[t].a) : w \in Nat /\ w <= loc[t].a
        BY <1>2, <2>2, VersionFacts
      <3> QED BY <1>1, <1>2, <3>1
    <2> QED BY <2>1, <2>2
  <1>7. LoopKeeps(t)'
    BY <1>1, <1>3, <1>4, <1>5, <1>6, ThreadFacts
       DEF ThreadInv, LoopKeeps, Committing
  <1> QED BY <1>1, <1>2, <1>3, <1>7, ThreadFacts, LoopMove

(* Going back from the later of two versions keeps what they share.        *)
LEMMA JoinStepKeeps ==
    ASSUME IInv, NEW t \in Thread, JoinStep(t)
    PROVE  IInv'
  <1> USE DEF handle, ghost
  <1> DEFINE a == loc[t].a
             b == loc[t].b
  <1>1. /\ pc[t] = "join" /\ a # b /\ a # 0 /\ b # 0 /\ flushed' \in Nat
        /\ UNCHANGED <<handle, file, ghost>>
        /\ \/ a > b /\ Goto(t, [loc[t] EXCEPT !.a = At(a).num], "join")
           \/ b > a /\ Goto(t, [loc[t] EXCEPT !.b = At(b).num], "join")
    BY DEF JoinStep, Read, IInv, TypeOK
  <1>2. loc[t] \in Locals /\ a \in Refs /\ b \in Refs /\ a \in Nat /\ b \in Nat
    BY ThreadFacts
  <1>3. /\ \A v \in {a, b} : /\ At(v).num \in Refs /\ At(v).num \in Nat
                            /\ Anc(v) = Anc(At(v).num) \cup {v}
        /\ \A w \in Anc(a) : w <= a /\ w \in Nat
        /\ \A w \in Anc(b) : w <= b /\ w \in Nat
    BY <1>1, <1>2, VersionFacts
  <1>4. \A v : Anc(v)' = Anc(v)
    BY <1>1 DEF Anc
  <1>5. Anc(loc[t].ver) \cap Anc(loc[t].other) = Anc(a) \cap Anc(b)
    BY <1>1, ThreadFacts DEF ThreadInv, LoopKeeps
  <1>6. SUFFICES ASSUME NEW l \in Locals, NEW x \in Refs, NEW y \in Refs,
                        Goto(t, l, "join"),
                        l.op = loc[t].op, l.ver = loc[t].ver, l.other = loc[t].other,
                        l.a = x, l.b = y,
                        Anc(x) \cap Anc(y) = Anc(a) \cap Anc(b)
                 PROVE  IInv'
    <2>1. CASE a > b /\ Goto(t, [loc[t] EXCEPT !.a = At(a).num], "join")
      <3> DEFINE l == [loc[t] EXCEPT !.a = At(a).num]
      <3>1. /\ l \in Locals /\ l.a = At(a).num /\ l.b = b
            /\ l.op = loc[t].op /\ l.ver = loc[t].ver /\ l.other = loc[t].other
        BY <1>2, <1>3 DEF Locals
      <3>2. Anc(At(a).num) \cap Anc(b) = Anc(a) \cap Anc(b)
        BY <1>2, <1>3, <2>1
      <3> QED BY <1>2, <1>3, <2>1, <3>1, <3>2, <1>6
    <2>2. CASE b > a /\ Goto(t, [loc[t] EXCEPT !.b = At(b).num], "join")
      <3> DEFINE l == [loc[t] EXCEPT !.b = At(b).num]
      <3>1. /\ l \in Locals /\ l.a = a /\ l.b = At(b).num
            /\ l.op = loc[t].op /\ l.ver = loc[t].ver /\ l.other = loc[t].other
        BY <1>2, <1>3 DEF Locals
      <3>2. Anc(a) \cap Anc(At(b).num) = Anc(a) \cap Anc(b)
        BY <1>2, <1>3, <2>2
      <3> QED BY <1>2, <1>3, <2>2, <3>1, <3>2, <1>6
    <2> QED BY <1>1, <2>1, <2>2
  <1>7. pc'[t] = "join" /\ loc'[t] = l
    BY <1>6, GotoFacts
  <1>8. LoopKeeps(t)'
    BY <1>4, <1>5, <1>6, <1>7 DEF LoopKeeps, Committing
  <1> QED BY <1>1, <1>6, <1>8, LoopMove

(* Where the two meet is the latest version they share; where one ends at  *)
(* 0 they share none.                                                      *)
LEMMA JoinEndKeeps ==
    ASSUME IInv, NEW t \in Thread, JoinEnd(t)
    PROVE  IInv'
  <1> USE DEF handle, ghost
  <1> DEFINE a == loc[t].a
             b == loc[t].b
             c == IF a = b THEN a ELSE 0
             l == [loc[t] EXCEPT !.a = c]
  <1>1. /\ pc[t] = "join" /\ (a = b \/ a = 0 \/ b = 0) /\ flushed' \in Nat
        /\ UNCHANGED <<handle, file, ghost>> /\ Goto(t, l, "joined")
    BY DEF JoinEnd, IInv, TypeOK
  <1>2. loc[t] \in Locals /\ a \in Refs /\ b \in Refs /\ a \in Nat /\ c \in Refs /\ c \in Nat
    BY ThreadFacts DEF Refs
  <1>3. /\ c \in (Anc(a) \cap Anc(b)) \cup {0}
        /\ \A w \in Anc(a) \cap Anc(b) : w <= c
    <2>1. CASE a # b \/ a = 0
      BY <1>1, <2>1 DEF Anc
    <2>2. CASE a = b /\ a # 0
      <3>1. a \in Anc(a) /\ \A w \in Anc(a) : w \in Nat /\ w <= a
        BY <1>2, <2>2, VersionFacts
      <3> QED BY <2>2, <3>1
    <2> QED BY <2>1, <2>2
  <1> HIDE DEF c
  <1>4. /\ l \in Locals
        /\ l.a = c /\ l.op = loc[t].op /\ l.ver = loc[t].ver
        /\ l.other = loc[t].other /\ l.b = loc[t].b
    BY <1>2 DEF Locals
  <1> HIDE DEF l
  <1>5. pc'[t] = "joined" /\ loc'[t] = l
    BY <1>1, GotoFacts
  <1>6. \A v : Anc(v)' = Anc(v)
    BY <1>1 DEF Anc
  <1>7. LoopKeeps(t)'
    BY <1>1, <1>3, <1>4, <1>5, <1>6, ThreadFacts
       DEF ThreadInv, LoopKeeps, Committing
  <1> QED BY <1>1, <1>2, <1>3, <1>4, <1>7, ThreadFacts, LoopMove

(* aodbm_is_based_on, aodbm_common_ancestor and aodbm_merge return.        *)
LEMMA LoopReturnKeeps ==
    ASSUME IInv, NEW t \in Thread, BasedReturn(t) \/ JoinReturn(t)
    PROVE  IInv'
  <1> USE DEF handle
  <1>1. pc[t] # "idle" /\ mode = "open"
    BY ThreadFacts DEF BasedReturn, JoinReturn
  <1>2. /\ flushed \in Nat /\ acked \in Nat /\ cur \in Refs
        /\ loc[t].a \in Refs /\ loc[t].ver \in Refs /\ loc[t].other \in Refs
    BY <1>1, ThreadFacts DEF IInv, TypeOK, RefInv
  <1>3. CASE BasedReturn(t)
    BY <1>1, <1>2, <1>3, ReturnKeeps DEF BasedReturn
  <1>4. CASE JoinReturn(t)
    BY <1>1, <1>2, <1>4, ReturnKeeps DEF JoinReturn
  <1> QED BY <1>3, <1>4

-----------------------------------------------------------------------------
(* Writing a block.                                                        *)

(* What is in the file stays there when a block is appended.               *)
LEMMA Appended ==
    ASSUME NEW f \in Seq(Cell), NEW b \in Seq(Cell)
    PROVE  /\ f \o b \in Seq(Cell)
           /\ Len(f \o b) = Len(f) + Len(b)
           /\ \A i \in 1 .. Len(f) : (f \o b)[i] = f[i]
           /\ \A i \in 1 .. Len(b) : (f \o b)[Len(f) + i] = b[i]
  OBVIOUS

(* aodbm_set and aodbm_del write their block where they said they would:   *)
(* the new version is made from loc.ver, and no other version moves.       *)
LEMMA WriteVersionKeeps ==
    ASSUME IInv, NEW t \in Thread, NEW val \in Value \cup {NULL},
           pc[t] \in {"set_write", "del_write"},
           loc[t].map = [HistMap(loc[t].ver) EXCEPT ![loc[t].key] = val],
           \/ RwFree(t) /\ rw' = RwLock(t)
           \/ rw.owner = t /\ rw' = RwUnlock,
           WriteVersion(t, val)
    PROVE  IInv'
  <1>0. PICK n, ver, m, v, b :
          /\ n = loc[t].nodes /\ ver = loc[t].ver /\ m = loc[t].map
          /\ v = loc[t].pos + n /\ b = DataBlock(n, ver, m)
    OBVIOUS
  <1>1. /\ loc[t] \in Locals /\ ver \in Refs /\ Refs \subseteq Nat /\ mode = "open"
        /\ rw.owner = t /\ loc[t].pos = Len(file) + 2
    BY <1>0, ThreadFacts DEF ThreadInv, LocksHeld, BlockReady, Writing
  <1>2. n \in Nat /\ m \in Map /\ ver \in Nat
    BY <1>0, <1>1 DEF Locals
  <1>3. file \in Seq(Cell) /\ Len(file) \in Nat /\ file_size = Len(file)
    BY <1>1 DEF IInv, TypeOK, SizeInv
  <1>4. /\ b \in Seq(Cell) /\ Len(b) = n + 3 /\ b[1].num = 0
        /\ b[n + 3] = MkCell("root", ver, m)
        /\ \A i \in 1 .. n + 3 : b[i].kind # "v"
    <2>1. b \in Seq(Cell) /\ Len(b) = n + 3
      BY ONLY <1>0, <1>2, DataBlockProps
    <2>2. b[1].num = 0 /\ b[n + 3] = MkCell("root", ver, m)
      BY ONLY <1>0, <1>2, DataBlockProps
    <2>3. \A i \in 1 .. n + 3 : b[i].kind # "v"
      BY ONLY <1>0, <1>2, DataBlockProps
    <2> QED BY <2>1, <2>2, <2>3
  <1>5. /\ file' = file \o b /\ file_size' = file_size + n + 3
        /\ UNCHANGED <<mode, flushed, cur, version, acked>>
        /\ Goto(t, NoCall, "idle") /\ known' = known \cup {v}
        /\ hist' = [w \in DOMAIN hist \cup {v} |->
                      IF w = v THEN [prev |-> ver, map |-> m, anc |-> Anc(ver) \cup {v}]
                      ELSE hist[w]]
    BY <1>0 DEF WriteVersion, Return
  <1>6. /\ file' \in Seq(Cell) /\ Len(file') = Len(file) + n + 3
        /\ \A i \in 1 .. Len(file) : file'[i] = file[i]
        /\ \A i \in 1 .. n + 3 : file'[Len(file) + i] = b[i]
    <2>1. /\ file \o b \in Seq(Cell)
          /\ Len(file \o b) = Len(file) + Len(b)
          /\ \A i \in 1 .. Len(file) : (file \o b)[i] = file[i]
          /\ \A i \in 1 .. Len(b) : (file \o b)[Len(file) + i] = b[i]
      BY <1>3, <1>4, Appended
    <2> QED BY <1>2, <1>3, <1>4, <1>5, <2>1
  <1>7. /\ v = Len(file) + 2 + n /\ v \in Nat
        /\ DOMAIN hist' = DOMAIN hist \cup {v}
        /\ \A w \in DOMAIN hist : w < v /\ w + 1 \in 1 .. Len(file) /\ hist'[w] = hist[w]
        /\ hist'[v] = [prev |-> ver, map |-> m, anc |-> Anc(ver) \cup {v}]
    <2>1. \A w \in DOMAIN hist : w \in Nat /\ w < Len(file)
      BY DEF IInv, TypeOK, HistInv
    <2>2. v = Len(file) + 2 + n
      BY <1>0, <1>1, <1>2, <1>3
    <2> QED BY <1>2, <1>3, <1>5, <2>1, <2>2
  <1>8. /\ Refs' = Refs \cup {v}
        /\ \A w \in Refs : Anc(w)' = Anc(w) /\ HistMap(w)' = HistMap(w)
    BY <1>7 DEF Refs, Anc, HistMap
  <1>9. \A w \in Anc(ver) : w \in DOMAIN hist /\ w \in Nat /\ w <= ver
    BY <1>1, VersionFacts DEF Anc
  <1>10. ver < Len(file) \/ ver = 0
    BY <1>1 DEF IInv, HistInv, Refs
  <1>11. TypeOK'
    <2>1. hist'[v] \in HistEntry
      BY <1>2, <1>7, <1>9 DEF HistEntry
    <2>2. DOMAIN hist' \subseteq Nat /\ hist' \in [DOMAIN hist' -> HistEntry]
      BY <1>5, <1>7, <2>1 DEF IInv, TypeOK
    <2>3. rw' \in [owner : Thread \cup {NULL}, count : Nat]
      BY RwKeeps
    <2>4. file_size' \in Nat /\ known' \subseteq Nat
      BY <1>2, <1>3, <1>5, <1>7 DEF IInv, TypeOK
    <2>5. pc' \in [Thread -> PcNames] /\ loc' \in [Thread -> Locals]
      BY <1>5, NoCallType DEF IInv, TypeOK, Goto, PcNames
    <2> QED BY <1>5, <1>6, <2>2, <2>3, <2>4, <2>5 DEF IInv, TypeOK
  <1>12. SizeInv'
    BY <1>1, <1>2, <1>3, <1>5, <1>6 DEF SizeInv
  <1>13. HistInv'
    <2> SUFFICES ASSUME NEW w \in DOMAIN hist'
                 PROVE  /\ w > 0 /\ w < Len(file')
                        /\ file'[w + 1] = MkCell("root", hist'[w].prev, hist'[w].map)
                        /\ hist'[w].prev \in Refs' /\ hist'[w].prev < w
                        /\ hist'[w].anc = Anc(hist[w].prev)' \cup {w}
                        /\ \A x \in hist'[w].anc : x \in DOMAIN hist' /\ x <= w
      BY DEF HistInv
    <2>1. CASE w \in DOMAIN hist
      <3>1. /\ w \in Nat /\ w > 0 /\ w < Len(file)
            /\ file[w + 1] = MkCell("root", hist[w].prev, hist[w].map)
            /\ hist[w].prev \in Refs /\ hist[w].prev < w
            /\ hist[w].anc = Anc(hist[w].prev) \cup {w}
            /\ \A x \in hist[w].anc : x \in DOMAIN hist /\ x <= w
        BY <2>1 DEF IInv, TypeOK, HistInv
      <3> QED BY <1>2, <1>3, <1>6, <1>7, <1>8, <2>1, <3>1
    <2>2. CASE w = v
      <3>1. file'[v + 1] = b[n + 3]
        BY <1>2, <1>3, <1>6, <1>7
      <3>2. v > 0 /\ v < Len(file') /\ ver < v
        BY <1>2, <1>3, <1>6, <1>7, <1>10
      <3>3. \A x \in Anc(ver) \cup {v} : x \in DOMAIN hist' /\ x <= v
        BY <1>2, <1>7, <1>9, <3>2
      <3> QED BY <1>1, <1>4, <1>7, <1>8, <2>2, <3>1, <3>2, <3>3
    <2> QED BY <1>7, <2>1, <2>2
  <1>14. OffInv'
    <2> SUFFICES ASSUME NEW i \in 1 .. Len(file') - 1, file'[i].kind = "v"
                 PROVE  file'[i + 1].num \in Refs' /\ file'[i + 1].num < i
      BY DEF OffInv
    <2>1. i \in 1 .. Len(file)
      <3>1. CASE i > Len(file)
        <4> DEFINE j == i - Len(file)
        <4>1. j \in 1 .. n + 3 /\ i = Len(file) + j
          BY <1>2, <1>3, <1>6, <3>1
        <4> HIDE DEF j
        <4>2. file'[i] = b[j]
          BY <1>6, <4>1
        <4> QED BY <1>4, <4>1, <4>2
      <3> QED BY <1>3, <3>1
    <2>2. CASE i = Len(file)
      <3>1. file'[i + 1] = b[1]
        BY <1>2, <1>6, <2>2
      <3> QED BY <1>3, <1>4, <2>1, <3>1 DEF Refs
    <2>3. CASE i < Len(file)
      <3>1. i \in 1 .. Len(file) - 1 /\ file'[i] = file[i] /\ file'[i + 1] = file[i + 1]
        BY <1>3, <1>6, <2>1, <2>3
      <3> QED BY <1>8, <3>1 DEF IInv, OffInv
    <2> QED BY <1>3, <2>1, <2>2, <2>3
  <1>15. RefInv'
    BY <1>1, <1>5, <1>8 DEF IInv, RefInv
  <1>16. ThreadInv(t)'
    <2>1. pc'[t] = "idle" /\ loc'[t] = NoCall
      BY <1>5, GotoFacts
    <2> QED BY <1>1, <1>5, <2>1
            DEF ThreadInv, LocksHeld, RefsKnown, BlockReady, LoopKeeps, Writing,
                Committing, NoCall, Refs
  <1>17. \A u \in Thread \ {t} : ThreadInv(u)'
    <2> SUFFICES ASSUME NEW u \in Thread \ {t} PROVE ThreadInv(u)'
      OBVIOUS
    <2>1. pc'[u] = pc[u] /\ loc'[u] = loc[u]
      BY <1>5 DEF Goto, IInv, TypeOK
    <2>2. rw.owner # u
      BY <1>1
    <2> QED BY <1>5, <1>8, <2>1, <2>2, OthersKeep
  <1>18. rw'.owner = NULL <=> rw'.count = 0
    BY RwKeeps
  <1> QED BY <1>11, <1>12, <1>13, <1>14, <1>15, <1>16, <1>17, <1>18 DEF IInv

(* Both halves of aodbm_set, and of aodbm_del.                             *)
LEMMA SetDelKeep ==
    ASSUME IInv, NEW t \in Thread,
           SetLock(t) \/ SetWrite(t) \/ DelLock(t) \/ DelWrite(t)
    PROVE  IInv'
  <1>1. loc[t] \in Locals /\ BlockReady(t) /\ LocksHeld(t)
    BY ThreadFacts DEF ThreadInv
  <1>2. loc[t].val \in Value \cup {NULL}
    BY <1>1 DEF Locals
  <1>3. CASE SetLock(t)
    BY <1>2, <1>3, PrepareKeeps DEF SetLock
  <1>4. CASE DelLock(t)
    BY <1>4, PrepareKeeps DEF DelLock
  <1>5. CASE SetWrite(t)
    <2>1. pc[t] = "set_write" /\ rw' = RwLock(t) /\ WriteVersion(t, loc[t].val)
      BY <1>5 DEF SetWrite
    <2>2. loc[t].map = [HistMap(loc[t].ver) EXCEPT ![loc[t].key] = loc[t].val]
      BY <1>1, <2>1 DEF BlockReady
    <2>3. RwFree(t)
      BY <1>1, <2>1 DEF LocksHeld, Writing, RwFree
    <2> QED BY <1>2, <2>1, <2>2, <2>3, WriteVersionKeeps
  <1>6. CASE DelWrite(t)
    <2>1. pc[t] = "del_write" /\ rw' = RwUnlock /\ WriteVersion(t, NULL)
      BY <1>6 DEF DelWrite
    <2>2. loc[t].map = [HistMap(loc[t].ver) EXCEPT ![loc[t].key] = NULL]
      BY <1>1, <2>1 DEF BlockReady
    <2>3. rw.owner = t
      BY <1>1, <2>1 DEF LocksHeld, Writing
    <2> QED BY <2>1, <2>2, <2>3, WriteVersionKeeps
  <1> QED BY <1>3, <1>4, <1>5, <1>6

-----------------------------------------------------------------------------
(* Commits.                                                                *)

(* A commit that moves on without writing keeps the head it was checked    *)
(* against, under the mutex version.                                       *)
LEMMA CommitMove ==
    ASSUME IInv, NEW t \in Thread, NEW l \in Locals,
           NEW where \in {"walk", "commit_head"},
           pc[t] # "idle", Goto(t, l, where),
           l.op \in {"commit", "init"}, l.ver = loc[t].ver, l.other = loc[t].other,
           l.a \in Refs, l.b = cur,
           where = "walk" => l.a = l.ver,
           where = "commit_head" => l.b = 0 \/ l.b \in Anc(l.ver),
           UNCHANGED <<mode, file, file_size, cur, ghost>>, flushed' \in Nat,
           rw' = rw \/ (rw.owner = t /\ rw' = RwUnlock),
           version \in {NULL, t}, version' = t
    PROVE  IInv'
  <1>1. /\ mode = "open" /\ loc[t].ver \in Refs /\ loc[t].other \in Refs
        /\ ThreadInv(t)
    BY ThreadFacts
  <1>2. /\ cur \in Refs /\ acked \in Nat /\ known \subseteq Refs /\ where \in PcNames
        /\ UNCHANGED <<hist, known, acked>>
    BY <1>1 DEF IInv, TypeOK, RefInv, PcNames, ghost
  <1>3. /\ rw' \in [owner : Thread \cup {NULL}, count : Nat]
        /\ rw'.owner = NULL <=> rw'.count = 0
        /\ \A u \in Thread \ {t} : rw.owner = u => rw'.owner = u
    BY RwKeeps DEF IInv, TypeOK
  <1>4. Refs' = Refs /\ \A w : Anc(w)' = Anc(w)
    BY <1>2 DEF Refs, Anc
  <1>5. pc'[t] = where /\ loc'[t] = l
    BY GotoFacts
  <1>6. LocksHeld(t)' /\ RefsKnown(t)' /\ BlockReady(t)'
    BY <1>1, <1>2, <1>4, <1>5
       DEF LocksHeld, RefsKnown, BlockReady, Writing, Committing
  <1>7. LoopKeeps(t)'
    BY <1>4, <1>5 DEF LoopKeeps, Committing
  <1>8. \A u \in Thread \ {t} : version # u
    BY ConstantsAssumption
  <1> QED BY <1>1, <1>2, <1>3, <1>6, <1>7, <1>8, QuietMove DEF ThreadInv

(* Taking version, giving a commit up, flushing the block and replacing    *)
(* the head.                                                               *)
LEMMA CommitStepsKeep ==
    ASSUME IInv, NEW t \in Thread,
           CommitLock(t) \/ CommitAbort(t) \/ CommitFlush(t) \/ CommitHead(t)
    PROVE  IInv'
  <1> USE DEF ghost
  <1>1. /\ loc[t] \in Locals /\ mode = "open" /\ cur \in Refs /\ cur \in Nat
        /\ loc[t].ver \in Refs /\ loc[t].a \in Refs
        /\ LocksHeld(t) /\ LoopKeeps(t)
    BY ThreadFacts DEF IInv, TypeOK, RefInv, ThreadInv, CommitLock, CommitAbort,
                       CommitFlush, CommitHead
  <1>2. flushed \in Nat /\ acked \in Nat /\ Len(file) \in Nat /\ loc[t].ver \in Nat
    BY <1>1, ThreadFacts DEF IInv, TypeOK
  <1>3. CASE CommitLock(t)
    <2> DEFINE l == [loc[t] EXCEPT !.a = loc[t].ver, !.b = cur]
    <2>1. /\ l \in Locals /\ l.op = loc[t].op /\ l.ver = loc[t].ver
          /\ l.other = loc[t].other /\ l.a = loc[t].ver /\ l.b = cur
      BY <1>1, <1>2 DEF Locals
    <2>2. /\ pc[t] # "idle" /\ Goto(t, l, "walk") /\ loc[t].op \in {"commit", "init"}
          /\ version = NULL /\ version' = t
          /\ UNCHANGED <<mode, file, flushed, file_size, cur, rw, ghost>>
      BY <1>1, <1>3 DEF CommitLock, LocksHeld
    <2> HIDE DEF l
    <2> QED BY <1>1, <1>2, <2>1, <2>2, CommitMove
  <1>4. CASE CommitAbort(t)
    <2>1. version = t
      BY <1>1, <1>4 DEF CommitAbort, LocksHeld, Committing
    <2> QED BY <1>1, <1>2, <1>4, <2>1, ReturnKeeps DEF CommitAbort
  <1>5. CASE CommitFlush(t)
    <2>1. /\ pc[t] = "commit_flush" /\ Goto(t, loc[t], "commit_head")
          /\ flushed' \in Nat /\ rw' = RwUnlock
          /\ UNCHANGED <<mode, file, file_size, cur, version, ghost>>
      BY <1>2, <1>5 DEF CommitFlush
    <2>2. /\ rw.owner = t /\ version = t /\ loc[t].op \in {"commit", "init"}
          /\ loc[t].b = cur /\ (loc[t].b = 0 \/ loc[t].b \in Anc(loc[t].ver))
      BY <1>1, <2>1 DEF LocksHeld, LoopKeeps, Writing, Committing
    <2> QED BY <1>1, <2>1, <2>2, CommitMove
  <1>6. CASE CommitHead(t)
    <2>1. version = t
      BY <1>1, <1>6 DEF CommitHead, LocksHeld, Committing
    <2> QED BY <1>1, <1>2, <1>6, <2>1, ReturnKeeps DEF CommitHead
  <1> QED BY <1>3, <1>4, <1>5, <1>6

(* The version block points to a version before it, and it is the only     *)
(* block that is written.                                                  *)
LEMMA CommitWriteKeeps ==
    ASSUME IInv, NEW t \in Thread, CommitWrite(t)
    PROVE  IInv'
  <1>0. PICK ver, b : ver = loc[t].ver /\ b = VersionBlock(ver)
    OBVIOUS
  <1>1. /\ pc[t] = "decided" /\ loc[t].op \in {"commit", "init"} /\ loc[t].ok
        /\ RwFree(t) /\ rw' = RwLock(t)
        /\ file' = file \o b /\ file_size' = file_size + 2
        /\ Goto(t, loc[t], "commit_flush")
        /\ UNCHANGED <<mode, flushed, cur, version, hist, known, acked>>
    BY <1>0 DEF CommitWrite, ghost
  <1>2. /\ ver \in Refs /\ ver \in Nat /\ mode = "open" /\ loc[t] \in Locals
        /\ LocksHeld(t) /\ RefsKnown(t) /\ LoopKeeps(t)
    BY <1>0, <1>1, ThreadFacts DEF ThreadInv
  <1>3. file \in Seq(Cell) /\ Len(file) \in Nat /\ file_size = Len(file)
    BY <1>2 DEF IInv, TypeOK, SizeInv
  <1>4. /\ b \in Seq(Cell) /\ Len(b) = 2
        /\ b[1].num = 0 /\ b[2].kind = "off" /\ b[2].num = ver
    BY <1>0, <1>2, VersionBlockProps
  <1>5. /\ file' \in Seq(Cell) /\ Len(file') = Len(file) + 2
        /\ \A i \in 1 .. Len(file) : file'[i] = file[i]
        /\ file'[Len(file) + 1] = b[1] /\ file'[Len(file) + 2] = b[2]
    <2>1. /\ file \o b \in Seq(Cell)
          /\ Len(file \o b) = Len(file) + Len(b)
          /\ \A i \in 1 .. Len(file) : (file \o b)[i] = file[i]
          /\ \A i \in 1 .. Len(b) : (file \o b)[Len(file) + i] = b[i]
      BY <1>3, <1>4, Appended
    <2> QED BY <1>1, <1>3, <1>4, <2>1
  <1>6. Refs' = Refs /\ \A w : Anc(w)' = Anc(w) /\ HistMap(w)' = HistMap(w)
    BY <1>1 DEF Refs, Anc, HistMap
  <1>7. /\ rw' \in [owner : Thread \cup {NULL}, count : Nat]
        /\ rw'.owner = NULL <=> rw'.count = 0
        /\ \A u \in Thread \ {t} : rw.owner # u
    BY <1>1, RwKeeps
  <1>8. pc'[t] = "commit_flush" /\ loc'[t] = loc[t] /\ rw'.owner = t
    BY <1>1, GotoFacts DEF RwLock
  <1>9. TypeOK'
    BY <1>1, <1>2, <1>3, <1>5, <1>7 DEF IInv, TypeOK, Goto, PcNames
  <1>10. SizeInv' /\ RefInv'
    BY <1>1, <1>2, <1>3, <1>5, <1>6 DEF IInv, SizeInv, RefInv
  <1>11. HistInv'
    <2> SUFFICES ASSUME NEW w \in DOMAIN hist
                 PROVE  /\ w > 0 /\ w < Len(file')
                        /\ file'[w + 1] = MkCell("root", hist[w].prev, hist[w].map)
                        /\ hist[w].prev \in Refs /\ hist[w].prev < w
                        /\ hist[w].anc = Anc(hist[w].prev) \cup {w}
                        /\ \A x \in hist[w].anc : x \in DOMAIN hist /\ x <= w
      BY <1>1, <1>6 DEF HistInv
    <2>1. /\ w \in Nat /\ w > 0 /\ w < Len(file)
          /\ file[w + 1] = MkCell("root", hist[w].prev, hist[w].map)
          /\ hist[w].prev \in Refs /\ hist[w].prev < w
          /\ hist[w].anc = Anc(hist[w].prev) \cup {w}
          /\ \A x \in hist[w].anc : x \in DOMAIN hist /\ x <= w
      BY DEF IInv, TypeOK, HistInv
    <2> QED BY <1>3, <1>5, <2>1
  <1>12. OffInv'
    <2> SUFFICES ASSUME NEW i \in 1 .. Len(file') - 1, file'[i].kind = "v"
                 PROVE  file'[i + 1].num \in Refs /\ file'[i + 1].num < i
      BY <1>6 DEF OffInv
    <2>1. CASE i = Len(file) + 1
      <3>1. ver < i
        <4>1. CASE ver \in DOMAIN hist
          <5>1. ver < Len(file)
            BY <4>1 DEF IInv, HistInv
          <5> QED BY <1>2, <1>3, <2>1, <5>1
        <4> QED BY <1>2, <1>3, <2>1, <4>1 DEF Refs
      <3> QED BY <1>2, <1>3, <1>4, <1>5, <2>1, <3>1
    <2>2. CASE i = Len(file)
      BY <1>3, <1>4, <1>5, <2>2 DEF Refs
    <2>3. CASE i < Len(file)
      <3>1. i \in 1 .. Len(file) - 1 /\ file'[i] = file[i] /\ file'[i + 1] = file[i + 1]
        BY <1>3, <1>5, <2>3
      <3> QED BY <3>1 DEF IInv, OffInv
    <2> QED BY <1>3, <1>5, <2>1, <2>2, <2>3
  <1>13. ThreadInv(t)'
    <2>1. LocksHeld(t)' /\ RefsKnown(t)' /\ BlockReady(t)'
      BY <1>1, <1>2, <1>6, <1>8
         DEF LocksHeld, RefsKnown, BlockReady, Writing, Committing
    <2>2. LoopKeeps(t)'
      BY <1>1, <1>2, <1>6, <1>8 DEF LoopKeeps, Committing
    <2> QED BY <2>1, <2>2 DEF ThreadInv
  <1>14. \A u \in Thread \ {t} : ThreadInv(u)'
    <2> SUFFICES ASSUME NEW u \in Thread \ {t} PROVE ThreadInv(u)'
      OBVIOUS
    <2>1. pc'[u] = pc[u] /\ loc'[u] = loc[u]
      BY <1>1 DEF Goto, IInv, TypeOK
    <2> QED BY <1>1, <1>6, <1>7, <2>1, OthersKeep
  <1> QED BY <1>7, <1>9, <1>10, <1>11, <1>12, <1>13, <1>14 DEF IInv

-----------------------------------------------------------------------------
(* The life of the handle.                                                 *)

(* Cutting the file leaves a file that satisfies the invariant: whatever a *)
(* version or a version block refers to is before it.                      *)
LEMMA CutKeeps ==
    ASSUME IInv, NEW k \in 0 .. Len(file),
           file' = SubSeq(file, 1, k), hist' = HistUpTo(k), flushed' = k
    PROVE  /\ file' \in Seq(Cell) /\ Len(file') = k /\ flushed' \in Nat
           /\ DOMAIN hist' \subseteq Nat /\ hist' \in [DOMAIN hist' -> HistEntry]
           /\ \A v \in Refs : v < k \/ v = 0 => v \in Refs'
           /\ HistInv' /\ OffInv'
  <1>1. file \in Seq(Cell) /\ Len(file) \in Nat /\ k \in Nat /\ k <= Len(file)
    BY DEF IInv, TypeOK
  <1>2. /\ file' \in Seq(Cell) /\ Len(file') = k
        /\ \A i \in 1 .. k : file'[i] = file[i]
    BY <1>1
  <1>3. /\ \A v \in DOMAIN hist' : v \in DOMAIN hist /\ v < k /\ hist'[v] = hist[v]
        /\ \A v \in DOMAIN hist : v < k => v \in DOMAIN hist'
    BY DEF HistUpTo
  <1>4. DOMAIN hist' \subseteq Nat /\ hist' \in [DOMAIN hist' -> HistEntry]
    BY DEF HistUpTo, IInv, TypeOK
  <1>5. \A v \in Refs : v < k \/ v = 0 => v \in Refs' /\ Anc(v)' = Anc(v)
    BY <1>3 DEF Refs, Anc
  <1>6. HistInv'
    <2> SUFFICES ASSUME NEW w \in DOMAIN hist'
                 PROVE  /\ w > 0 /\ w < Len(file')
                        /\ file'[w + 1] = MkCell("root", hist'[w].prev, hist'[w].map)
                        /\ hist'[w].prev \in Refs' /\ hist'[w].prev < w
                        /\ hist'[w].anc = Anc(hist[w].prev)' \cup {w}
                        /\ \A x \in hist'[w].anc : x \in DOMAIN hist' /\ x <= w
      BY DEF HistInv
    <2>1. w \in DOMAIN hist /\ w < k /\ hist'[w] = hist[w] /\ w \in Nat
      BY <1>3 DEF IInv, TypeOK
    <2>2. /\ w > 0
          /\ file[w + 1] = MkCell("root", hist[w].prev, hist[w].map)
          /\ hist[w].prev \in Refs /\ hist[w].prev < w
          /\ hist[w].anc = Anc(hist[w].prev) \cup {w}
          /\ \A x \in hist[w].anc : x \in DOMAIN hist /\ x <= w
      BY <2>1 DEF IInv, HistInv
    <2>3. file'[w + 1] = file[w + 1] /\ w < Len(file')
      BY <1>1, <1>2, <2>1
    <2>4. \A x \in DOMAIN hist : x \in Nat
      BY DEF IInv, TypeOK
    <2>5. hist[w].prev \in Nat /\ hist[w].prev < k
      BY <1>1, <2>1, <2>2, RefsType
    <2>6. \A x \in hist[w].anc : x \in DOMAIN hist' /\ x <= w
      BY <1>1, <1>3, <2>1, <2>2, <2>4
    <2>7. PICK p : p = hist[w].prev
      OBVIOUS
    <2>8. p \in Refs' /\ Anc(p)' = Anc(p)
      BY <1>5, <2>2, <2>5, <2>7
    <2>9. hist'[w].prev = p /\ hist'[w].anc = Anc(p)' \cup {w}
      BY <2>1, <2>2, <2>7, <2>8
    <2>10. Anc(hist[w].prev)' = Anc(p)'
      BY <2>9 DEF Anc
    <2> QED BY <2>1, <2>2, <2>3, <2>6, <2>7, <2>8, <2>9, <2>10
  <1>7. OffInv'
    <2> SUFFICES ASSUME NEW i \in 1 .. k - 1, file'[i].kind = "v"
                 PROVE  file'[i + 1].num \in Refs' /\ file'[i + 1].num < i
      BY <1>2 DEF OffInv
    <2>1. /\ i \in 1 .. Len(file) - 1
          /\ file'[i] = file[i] /\ file'[i + 1] = file[i + 1]
      BY <1>1, <1>2
    <2>2. file[i + 1].num \in Refs /\ file[i + 1].num < i
      BY <2>1 DEF IInv, OffInv
    <2>3. file[i + 1].num \in Nat /\ file[i + 1].num < k
      BY <1>1, <2>1, <2>2, RefsType
    <2> QED BY <1>5, <2>1, <2>2, <2>3
  <1> QED BY <1>1, <1>2, <1>4, <1>5, <1>6, <1>7

(* What holds of a thread in no call.                                      *)
LEMMA IdleKeeps ==
    ASSUME NEW t \in Thread, pc'[t] = "idle", loc'[t] = NoCall
    PROVE  ThreadInv(t)'
  BY DEF ThreadInv, LocksHeld, RefsKnown, BlockReady, LoopKeeps, Writing,
         Committing, NoCall, Refs

(* While the database is not open no thread is in a call.                  *)
LEMMA ClosedIdle ==
    ASSUME IInv, mode # "open", NEW t \in Thread
    PROVE  pc[t] = "idle" /\ loc[t] = NoCall
  BY DEF IInv, ThreadInv, LocksHeld

(* A crash anywhere, and the assert in aodbm_merge.                        *)
LEMMA CrashKeeps ==
    ASSUME IInv, Crash \/ (\E t \in Thread : MergeAbort(t))
    PROVE  IInv'
  <1>1. PICK k \in 0 .. Len(file) : CrashAt(k)
    BY DEF Crash, MergeAbort, IInv, TypeOK
  <1>2. /\ file' \in Seq(Cell) /\ Len(file') = k /\ flushed' \in Nat
        /\ DOMAIN hist' \subseteq Nat /\ hist' \in [DOMAIN hist' -> HistEntry]
        /\ HistInv' /\ OffInv'
    BY <1>1, CutKeeps DEF CrashAt
  <1>3. /\ mode' = "closed" /\ known' = {0}
        /\ rw' = [owner |-> NULL, count |-> 0] /\ version' = NULL
        /\ pc' = [t \in Thread |-> "idle"] /\ loc' = [t \in Thread |-> NoCall]
        /\ UNCHANGED <<file_size, cur, acked>>
    BY <1>1 DEF CrashAt, NoLocks
  <1>4. TypeOK'
    BY <1>2, <1>3, NoCallType DEF IInv, TypeOK, PcNames
  <1>5. SizeInv' /\ RefInv' /\ (rw'.owner = NULL <=> rw'.count = 0)
    BY <1>3 DEF SizeInv, RefInv, Refs
  <1>6. \A t \in Thread : ThreadInv(t)'
    BY <1>3, IdleKeeps
  <1> QED BY <1>2, <1>4, <1>5, <1>6 DEF IInv

(* aodbm_close, the beginning of aodbm_open and the end of its scan at the *)
(* end of the file.                                                        *)
LEMMA HandleKeeps ==
    ASSUME IInv, Close \/ OpenStart \/ OpenEof
    PROVE  IInv'
  <1>1. /\ UNCHANGED <<file, hist, pc, loc, acked>>
        /\ mode' \in {"closed", "opening", "open"}
        /\ \A t \in Thread : pc[t] = "idle" /\ loc[t] = NoCall
    BY ClosedIdle DEF Close, OpenStart, OpenEof, ghost, IInv, ThreadInv, LocksHeld
  <1>2. Refs' = Refs /\ \A v : Anc(v)' = Anc(v)
    BY <1>1 DEF Refs, Anc
  <1>3. HistInv' /\ OffInv'
    BY <1>1, <1>2 DEF IInv, HistInv, OffInv
  <1>4. \A t \in Thread : ThreadInv(t)'
    BY <1>1, IdleKeeps
  <1>5. TypeOK' /\ (rw'.owner = NULL <=> rw'.count = 0)
    BY <1>1 DEF IInv, TypeOK, Close, OpenStart, OpenEof, NoLocks, ghost
  <1>6. SizeInv' /\ RefInv'
    BY <1>1, <1>2 DEF IInv, TypeOK, SizeInv, RefInv, Refs, Close, OpenStart,
                      OpenEof, ghost
  <1> QED BY <1>3, <1>4, <1>5, <1>6 DEF IInv

(* The scan takes a block that is not cut short: a version block's offset  *)
(* is a version before it.                                                 *)
LEMMA OpenBlockKeeps ==
    ASSUME IInv, OpenBlock
    PROVE  IInv'
  <1>1. /\ mode = "opening" /\ file_size < Len(file) /\ ~Torn
        /\ mode' \in {"opening", "error"}
        /\ UNCHANGED <<file, flushed, rw, version, pc, loc, hist, known, acked>>
    BY DEF OpenBlock, ghost
  <1>2. /\ file \in Seq(Cell) /\ Len(file) \in Nat /\ file_size \in Nat /\ cur \in Nat
        /\ file_size + 1 \in 1 .. Len(file) /\ At(file_size) \in Cell
    BY <1>1 DEF IInv, TypeOK, At
  <1>3. /\ file_size' \in Nat /\ cur' \in Nat
        /\ mode' = "opening" => /\ file_size' <= Len(file)
                                /\ cur' \in Refs
                                /\ cur' = 0 \/ cur' < file_size'
    <2>1. CASE At(file_size).kind = "v"
      <3>1. /\ file_size + 1 \in 1 .. Len(file) - 1
            /\ file_size' = file_size + 2
            /\ cur' = file[file_size + 1 + 1].num
        BY <1>1, <1>2, <2>1 DEF OpenBlock, Torn, At
      <3>2. cur' \in Refs /\ cur' < file_size + 1
        BY <2>1, <3>1 DEF IInv, OffInv, At
      <3> QED BY <1>2, <3>1, <3>2, RefsType
    <2>2. CASE At(file_size).kind = "d"
      <3>1. /\ file_size + 1 < Len(file)
            /\ file_size + 2 + At(file_size + 1).num <= Len(file)
            /\ At(file_size + 1).num \in Nat
        <4>1. file_size + 1 < Len(file)
          BY <1>1, <1>2, <2>2 DEF Torn
        <4>2. At(file_size + 1) \in Cell
          BY <1>2, <4>1 DEF At
        <4>3. At(file_size + 1).num \in Nat
          BY <4>2 DEF Cell
        <4>4. ~(file_size + 2 + At(file_size + 1).num > Len(file))
          BY <1>1, <2>2, <4>1 DEF Torn
        <4> QED BY <1>2, <4>1, <4>3, <4>4
      <3>2. file_size' = file_size + 2 + At(file_size + 1).num /\ cur' = cur
        BY <2>2 DEF OpenBlock
      <3>3. cur \in Refs /\ (cur = 0 \/ cur < file_size)
        BY <1>1 DEF IInv, RefInv
      <3> QED BY <1>2, <3>1, <3>2, <3>3
    <2>3. CASE At(file_size).kind \notin {"v", "d"}
      BY <1>2, <2>3 DEF OpenBlock
    <2> QED BY <2>1, <2>2, <2>3
  <1>4. \A t \in Thread : ThreadInv(t)'
    BY <1>1, ClosedIdle, IdleKeeps
  <1>5. Refs' = Refs /\ \A v : Anc(v)' = Anc(v)
    BY <1>1 DEF Refs, Anc
  <1>6. TypeOK' /\ (rw'.owner = NULL <=> rw'.count = 0)
    BY <1>1, <1>3 DEF IInv, TypeOK
  <1>7. SizeInv' /\ HistInv' /\ OffInv' /\ RefInv'
    BY <1>1, <1>3, <1>5 DEF IInv, SizeInv, HistInv, OffInv, RefInv
  <1> QED BY <1>4, <1>6, <1>7 DEF IInv

(* Truncating a torn block leaves what the head refers to.                 *)
LEMMA OpenTornKeeps ==
    ASSUME IInv, OpenTorn
    PROVE  IInv'
  <1>1. /\ mode = "opening" /\ mode' = "open"
        /\ file' = SubSeq(file, 1, file_size) /\ flushed' = file_size
        /\ hist' = HistUpTo(file_size)
        /\ UNCHANGED <<file_size, cur, rw, version, pc, loc, known, acked>>
    BY DEF OpenTorn
  <1>2. file_size \in 0 .. Len(file)
    BY <1>1 DEF IInv, TypeOK, SizeInv
  <1>3. /\ file' \in Seq(Cell) /\ Len(file') = file_size /\ flushed' \in Nat
        /\ DOMAIN hist' \subseteq Nat /\ hist' \in [DOMAIN hist' -> HistEntry]
        /\ \A v \in Refs : v < file_size \/ v = 0 => v \in Refs'
        /\ HistInv' /\ OffInv'
    BY <1>1, <1>2, CutKeeps
  <1>4. \A t \in Thread : ThreadInv(t)'
    BY <1>1, ClosedIdle, IdleKeeps
  <1>5. TypeOK' /\ (rw'.owner = NULL <=> rw'.count = 0)
    BY <1>1, <1>3 DEF IInv, TypeOK
  <1>6. SizeInv' /\ RefInv'
    BY <1>1, <1>3 DEF IInv, SizeInv, RefInv, Refs
  <1> QED BY <1>3, <1>4, <1>5, <1>6 DEF IInv

-----------------------------------------------------------------------------
(* No step leads out of the invariant.                                     *)
LEMMA NextKeeps ==
    ASSUME IInv, [Next]_vars
    PROVE  IInv'
  <1>1. CASE UNCHANGED vars
    <2>1. Refs' = Refs /\ \A v : Anc(v)' = Anc(v) /\ HistMap(v)' = HistMap(v)
      BY <1>1 DEF vars, Refs, Anc, HistMap
    <2>2. \A u \in Thread : ThreadInv(u)'
      BY <1>1, <2>1, OthersKeep DEF vars
    <2>3. TypeOK' /\ (rw'.owner = NULL <=> rw'.count = 0)
      BY <1>1 DEF vars, IInv, TypeOK
    <2>4. SizeInv' /\ HistInv' /\ OffInv' /\ RefInv'
      BY <1>1, <2>1 DEF vars, IInv, SizeInv, HistInv, OffInv, RefInv
    <2> QED BY <2>2, <2>3, <2>4 DEF IInv
  <1>2. ASSUME NEW t \in Thread, Invoke(t) PROVE IInv'
    BY <1>2, InvokeKeeps
  <1>3. ASSUME NEW t \in Thread, Step(t) PROVE IInv'
    <2>1. CASE SetLock(t) \/ SetWrite(t) \/ DelLock(t) \/ DelWrite(t)
      BY <2>1, SetDelKeep
    <2>2. CASE DelHas(t)
      BY <2>2, DelHasKeeps
    <2>3. CASE Get(t) \/ Current(t) \/ Prev(t)
      BY <2>3, ReadsKeep
    <2>4. CASE WalkStep(t)
      BY <2>4, WalkStepKeeps
    <2>5. CASE WalkEnd(t)
      BY <2>5, WalkEndKeeps
    <2>6. CASE BasedReturn(t) \/ JoinReturn(t)
      BY <2>6, LoopReturnKeeps
    <2>7. CASE CommitLock(t) \/ CommitAbort(t) \/ CommitFlush(t) \/ CommitHead(t)
      BY <2>7, CommitStepsKeep
    <2>8. CASE CommitWrite(t)
      BY <2>8, CommitWriteKeeps
    <2>9. CASE JoinStep(t)
      BY <2>9, JoinStepKeeps
    <2>10. CASE JoinEnd(t)
      BY <2>10, JoinEndKeeps
    <2>11. CASE MergeAbort(t)
      BY <2>11, CrashKeeps
    <2> QED BY <1>3, <2>1, <2>2, <2>3, <2>4, <2>5, <2>6, <2>7, <2>8, <2>9,
               <2>10, <2>11 DEF Step
  <1>4. CASE OpenStart \/ OpenEof \/ Close
    BY <1>4, HandleKeeps
  <1>5. CASE OpenBlock
    BY <1>5, OpenBlockKeeps
  <1>6. CASE OpenTorn
    BY <1>6, OpenTornKeeps
  <1>7. CASE Crash
    BY <1>7, CrashKeeps
  <1> QED BY <1>1, <1>2, <1>3, <1>4, <1>5, <1>6, <1>7 DEF Next, Scan

(* IInv is an invariant of the database.                                   *)
THEOREM IInvInvariant == Spec => []IInv
  <1>1. Init => IInv BY InitIInv
  <1>2. IInv /\ [Next]_vars => IInv' BY NextKeeps
  <1> QED BY <1>1, <1>2, PTL DEF Spec

-----------------------------------------------------------------------------
(* What the invariant says.                                                *)

(* Every variable keeps its type, through every step, crash and scan.      *)
THEOREM TypeCorrect == Spec => []TypeOK
  <1>1. IInv => TypeOK BY DEF IInv
  <1> QED BY <1>1, IInvInvariant, PTL

(* Versions are immutable: whatever threads append after it and whatever a *)
(* crash cuts off behind it, a version reads as the map that was asked for.*)
THEOREM VersionsStay == Spec => []VersionsImmutable
  <1>1. IInv => VersionsImmutable
    BY DEF IInv, HistInv, VersionsImmutable, At
  <1> QED BY <1>1, IInvInvariant, PTL

(* The mutex rw keeps append_pos in place from its computation to the      *)
(* write of the block.                                                     *)
THEOREM AppendPosStays == Spec => []AppendPosInPlace
  <1>1. IInv => AppendPosInPlace
    BY DEF IInv, ThreadInv, BlockReady, AppendPosInPlace
  <1> QED BY <1>1, IInvInvariant, PTL

(* aodbm_is_based_on decides exactly whether a version descends from       *)
(* another.                                                                *)
THEOREM BasedOnIsExact == Spec => []BasedOnExact
  <1>1. IInv => BasedOnExact
    BY DEF IInv, ThreadInv, LoopKeeps, BasedOnExact
  <1> QED BY <1>1, IInvInvariant, PTL

(* aodbm_common_ancestor finds the latest common version.                  *)
THEOREM AncestorIsExact == Spec => []AncestorExact
  <1>1. IInv => AncestorExact
    BY DEF IInv, ThreadInv, LoopKeeps, AncestorExact
  <1> QED BY <1>1, IInvInvariant, PTL

(* The mutex version keeps the head a commit was checked against.          *)
THEOREM CheckedHeadStays == Spec => []CheckedHeadIsCurrent
  <1>1. IInv => CheckedHeadIsCurrent
    BY DEF IInv, ThreadInv, LoopKeeps, Committing, CheckedHeadIsCurrent
  <1> QED BY <1>1, IInvInvariant, PTL

(* The head of an open database is a complete version.                     *)
THEOREM HeadStaysVersion == Spec => []HeadIsVersion
  <1>1. IInv => HeadIsVersion
    BY DEF IInv, RefInv, Refs, HeadIsVersion
  <1> QED BY <1>1, IInvInvariant, PTL

(* db->file_size is the size of the file while the database is open.       *)
THEOREM FileSizeStaysExact == Spec => []FileSizeExact
  <1>1. IInv => FileSizeExact
    BY DEF IInv, SizeInv, FileSizeExact
  <1> QED BY <1>1, IInvInvariant, PTL

(* Only a commit replaces the head of an open database.                    *)
LEMMA OnlyCommitMovesHead ==
    ASSUME IInv, [Next]_vars, mode = "open", mode' = "open", cur' # cur
    PROVE  \E t \in Thread : CommitHead(t)
  <1>1. ASSUME NEW t \in Thread, Invoke(t) PROVE FALSE
    BY <1>1 DEF Invoke, CallSet, CallDel, CallGet, CallCurrent, CallPrev,
                CallCommit, CallBased, CallAncestor, Call, handle
  <1>2. ASSUME NEW t \in Thread, Step(t), ~CommitHead(t) PROVE FALSE
    <2>1. CASE SetLock(t) \/ SetWrite(t) \/ DelLock(t) \/ DelWrite(t)
      BY <2>1 DEF SetLock, SetWrite, DelLock, DelWrite, Prepare, WriteVersion
    <2>2. CASE DelHas(t) \/ Get(t) \/ Current(t) \/ Prev(t)
      BY <2>2 DEF DelHas, Get, Current, Prev, handle
    <2>3. CASE WalkStep(t) \/ WalkEnd(t) \/ BasedReturn(t)
      BY <2>3 DEF WalkStep, WalkEnd, BasedReturn, handle
    <2>4. CASE JoinStep(t) \/ JoinEnd(t) \/ JoinReturn(t)
      BY <2>4 DEF JoinStep, JoinEnd, JoinReturn, handle
    <2>5. CASE CommitLock(t) \/ CommitAbort(t) \/ CommitWrite(t) \/ CommitFlush(t)
      BY <2>5 DEF CommitLock, CommitAbort, CommitWrite, CommitFlush
    <2>6. CASE MergeAbort(t)
      BY <2>6 DEF MergeAbort, CrashAt
    <2> QED BY <1>2, <2>1, <2>2, <2>3, <2>4, <2>5, <2>6 DEF Step
  <1>3. ~(OpenStart \/ Scan \/ Close \/ Crash) /\ ~UNCHANGED vars
    BY DEF OpenStart, Scan, OpenBlock, OpenTorn, OpenEof, Close, Crash, CrashAt,
           vars
  <1> QED BY <1>1, <1>2, <1>3 DEF Next

(* No committed update is lost: a head is replaced by its descendants only.*)
THEOREM HeadOnlyAdvances == Spec => HeadAdvances
  <1>1. ASSUME IInv, [Next]_vars, mode = "open", mode' = "open", cur' # cur
        PROVE  cur = 0 \/ (cur' # 0 /\ cur \in hist'[cur'].anc)
    <2>1. PICK t \in Thread : CommitHead(t)
      BY <1>1, OnlyCommitMovesHead
    <2>2. pc[t] = "commit_head" /\ cur' = loc[t].ver /\ hist' = hist
      BY <2>1 DEF CommitHead
    <2>3. LocksHeld(t) /\ LoopKeeps(t)
      BY <1>1 DEF IInv, ThreadInv
    <2>4. Committing(t)
      BY <2>2, <2>3 DEF LocksHeld
    <2>5. cur = 0 \/ cur \in Anc(loc[t].ver)
      BY <2>2, <2>3, <2>4 DEF LoopKeeps
    <2> QED BY <2>2, <2>5 DEF Anc
  <1>2. IInv /\ [Next]_vars
        => [mode = "open" /\ mode' = "open" /\ cur' # cur
            => cur = 0 \/ (cur' # 0 /\ cur \in hist'[cur'].anc)]_vars
    BY <1>1
  <1> QED BY <1>2, IInvInvariant, PTL DEF Spec, HeadAdvances

-----------------------------------------------------------------------------
(* Part two: recovery.                                                     *)

-----------------------------------------------------------------------------
(* Descent.                                                                *)

(* A version is based on itself, on what its previous versions are based   *)
(* on, and on nothing behind it.                                           *)
LEMMA BasedFacts ==
    ASSUME IInv, NEW v \in Refs
    PROVE  /\ Based(v, v)
           /\ \A w : Based(v, w) => w \in Refs /\ w \in Nat /\ w <= v
  <1>1. CASE v = 0
    BY <1>1 DEF Based, Anc, Refs
  <1>2. CASE v # 0
    <2>1. /\ v \in Nat /\ v \in Anc(v)
          /\ \A w \in Anc(v) : w \in DOMAIN hist /\ w \in Nat /\ w <= v
      BY <1>2, VersionFacts
    <2> QED BY <2>1 DEF Based, Refs
  <1> QED BY <1>1, <1>2

(* Descent is transitive.                                                  *)
LEMMA BasedTrans ==
    ASSUME IInv, AncTrans, NEW u \in Refs, NEW v, NEW w, Based(u, v), Based(v, w)
    PROVE  Based(u, w)
  <1>1. CASE v = 0 \/ w = 0
    BY <1>1 DEF Based, Anc
  <1>2. CASE v # 0 /\ w # 0
    <2>1. v \in Anc(u) /\ w \in Anc(v) /\ u # 0
      BY <1>2 DEF Based, Anc
    <2>2. u \in DOMAIN hist
      BY <2>1 DEF Refs
    <2>3. hist[v].anc \subseteq hist[u].anc
      BY <2>1, <2>2 DEF AncTrans, Anc
    <2> QED BY <1>2, <2>1, <2>3 DEF Based, Anc
  <1> QED BY <1>1, <1>2

(* Two versions that are based on each other are one.                      *)
LEMMA BasedAntisym ==
    ASSUME IInv, NEW v \in Refs, NEW w \in Refs, Based(v, w), Based(w, v)
    PROVE  v = w
  <1>1. v \in Nat /\ w \in Nat /\ v <= w /\ w <= v
    BY BasedFacts
  <1> QED BY <1>1

(* A version block commits a version.                                      *)
LEMMA HeadFacts ==
    ASSUME IInv, NEW i \in Heads
    PROVE  /\ i \in Nat /\ i > 0 /\ i < Len(file) /\ i + 1 \in 1 .. Len(file)
           /\ Len(file) \in Nat
           /\ file[i].kind = "v"
           /\ Committed(i) \in Refs /\ Committed(i) \in Nat /\ Committed(i) < i
  <1>1. Len(file) \in Nat
    BY DEF IInv, TypeOK
  <1>2. i \in 1 .. Len(file) - 1 /\ file[i].kind = "v"
    BY DEF Heads
  <1>3. Committed(i) \in Refs /\ Committed(i) < i
    BY <1>2 DEF IInv, OffInv, Committed
  <1> QED BY <1>1, <1>2, <1>3, RefsType

-----------------------------------------------------------------------------
(* The steps that append a block.                                          *)

(* The fields of a data block, one by one.                                 *)
LEMMA DataBlockCells ==
    ASSUME NEW n \in Nat, NEW prev \in Nat, NEW map \in Map
    PROVE  /\ DataBlock(n, prev, map)[1].kind = "d"
           /\ DataBlock(n, prev, map)[2].kind = "size"
           /\ DataBlock(n, prev, map)[2].num = n + 1
           /\ \A i \in 3 .. n + 2 : DataBlock(n, prev, map)[i].kind = "node"
           /\ DataBlock(n, prev, map)[n + 3].kind = "root"
  <1> DEFINE b == DataBlock(n, prev, map)
  <1>1. b[1].kind = "d" /\ b[2].kind = "size" /\ b[2].num = n + 1
    BY EmptyMapType, CellType DEF DataBlock
  <1>2. \A i \in 3 .. n + 2 : b[i].kind = "node"
    BY EmptyMapType, CellType DEF DataBlock
  <1>3. b[n + 3] = MkCell("root", prev, map)
    BY DataBlockProps
  <1>4. MkCell("root", prev, map).kind = "root"
    BY CellType
  <1> QED BY <1>1, <1>2, <1>3, <1>4

(* A node of a data block.                                                 *)
LEMMA DataBlockNode ==
    ASSUME NEW n \in Nat, NEW prev \in Nat, NEW map \in Map, NEW i \in 3 .. n + 2
    PROVE  DataBlock(n, prev, map)[i].kind = "node"
  BY DataBlockCells

(* Thread t has appended a data block of n nodes and the root v, made from *)
(* the version ver by one change.                                          *)
DataWritten(t, n, ver, m, v) ==
    /\ v = Len(file) + 2 + n /\ v \notin DOMAIN hist
    /\ mode = "open" /\ file_size = Len(file) /\ Len(file) \in Nat
    /\ UNCHANGED <<mode, flushed, cur, acked>>
    /\ Goto(t, NoCall, "idle")
    /\ file' \in Seq(Cell) /\ Len(file') = v + 1 /\ file_size' = v + 1
    /\ \A i \in 1 .. Len(file) : file'[i] = file[i]
    /\ file'[Len(file) + 1].kind = "d"
    /\ file'[Len(file) + 2].kind = "size" /\ file'[Len(file) + 2].num = n + 1
    /\ \A i \in Len(file) + 3 .. v : file'[i].kind = "node"
    /\ file'[v + 1] = MkCell("root", ver, m) /\ file'[v + 1].kind = "root"
    /\ DOMAIN hist' = DOMAIN hist \cup {v}
    /\ \A w \in DOMAIN hist : hist'[w] = hist[w] /\ w < Len(file)
    /\ hist'[v] = [prev |-> ver, map |-> m, anc |-> Anc(ver) \cup {v}]
    /\ pc[t] \in {"set_write", "del_write"} /\ ver = loc[t].ver
    /\ \E x \in Value \cup {NULL} : m = [HistMap(ver) EXCEPT ![loc[t].key] = x]

(* That is what aodbm_set and aodbm_del do in the end.                     *)
LEMMA DataAppended ==
    ASSUME IInv, NEW t \in Thread, SetWrite(t) \/ DelWrite(t)
    PROVE  \E n \in Nat, ver \in Refs, m \in Map, v \in Nat :
             DataWritten(t, n, ver, m, v)
  <1>1. PICK x \in Value \cup {NULL} :
          /\ pc[t] \in {"set_write", "del_write"}
          /\ WriteVersion(t, x)
          /\ loc[t].map = [HistMap(loc[t].ver) EXCEPT ![loc[t].key] = x]
    <2>1. loc[t].val \in Value \cup {NULL} /\ BlockReady(t)
      BY ThreadFacts DEF ThreadInv, Locals
    <2>2. CASE SetWrite(t)
      BY <2>1, <2>2 DEF SetWrite, BlockReady
    <2>3. CASE DelWrite(t)
      BY <2>1, <2>3 DEF DelWrite, BlockReady
    <2> QED BY <2>2, <2>3
  <1>2. PICK n, ver, m, v : /\ n = loc[t].nodes /\ ver = loc[t].ver
                            /\ m = loc[t].map /\ v = loc[t].pos + n
    OBVIOUS
  <1>3. /\ loc[t] \in Locals /\ ver \in Refs /\ Refs \subseteq Nat /\ mode = "open"
        /\ loc[t].pos = Len(file) + 2
    BY <1>1, <1>2, ThreadFacts DEF ThreadInv, BlockReady
  <1>4. n \in Nat /\ m \in Map /\ ver \in Nat
    BY <1>2, <1>3 DEF Locals
  <1>5. file \in Seq(Cell) /\ Len(file) \in Nat /\ file_size = Len(file)
    BY <1>3 DEF IInv, TypeOK, SizeInv
  <1>6. v = Len(file) + 2 + n
    BY <1>2, <1>3
  <1>7. /\ file' = file \o DataBlock(n, ver, m) /\ file_size' = file_size + n + 3
        /\ UNCHANGED <<mode, flushed, cur, acked>>
        /\ Goto(t, NoCall, "idle")
        /\ hist' = [w \in DOMAIN hist \cup {v} |->
                      IF w = v THEN [prev |-> ver, map |-> m, anc |-> Anc(ver) \cup {v}]
                      ELSE hist[w]]
    BY <1>1, <1>2 DEF WriteVersion, Return
  <1>8. v \in Nat /\ file_size' = v + 1
    BY <1>4, <1>5, <1>6, <1>7
  <1>9. \A w \in DOMAIN hist : w \in Nat /\ w < Len(file)
    BY DEF IInv, TypeOK, HistInv
  <1>10. /\ v \notin DOMAIN hist /\ DOMAIN hist' = DOMAIN hist \cup {v}
         /\ \A w \in DOMAIN hist : hist'[w] = hist[w] /\ w < Len(file)
         /\ hist'[v] = [prev |-> ver, map |-> m, anc |-> Anc(ver) \cup {v}]
    BY <1>4, <1>5, <1>6, <1>7, <1>9
  <1>11. /\ pc[t] \in {"set_write", "del_write"} /\ ver = loc[t].ver
         /\ \E y \in Value \cup {NULL} : m = [HistMap(ver) EXCEPT ![loc[t].key] = y]
    BY <1>1, <1>2
  <1>12. /\ file' \in Seq(Cell) /\ Len(file') = v + 1
         /\ \A i \in 1 .. Len(file) : file'[i] = file[i]
         /\ file'[Len(file) + 1].kind = "d"
         /\ file'[Len(file) + 2].kind = "size" /\ file'[Len(file) + 2].num = n + 1
         /\ \A i \in Len(file) + 3 .. v : file'[i].kind = "node"
         /\ file'[v + 1] = MkCell("root", ver, m) /\ file'[v + 1].kind = "root"
    <2>1. PICK b : b = DataBlock(n, ver, m)
      OBVIOUS
    <2>2. /\ file' \in Seq(Cell) /\ Len(file') = Len(file) + n + 3
          /\ \A i \in 1 .. Len(file) : file'[i] = file[i]
          /\ \A i \in 1 .. n + 3 : file'[Len(file) + i] = b[i]
      <3>1. /\ b \in Seq(Cell) /\ Len(b) = n + 3
        BY <1>4, <2>1, DataBlockProps
      <3>2. /\ file \o b \in Seq(Cell)
            /\ Len(file \o b) = Len(file) + Len(b)
            /\ \A i \in 1 .. Len(file) : (file \o b)[i] = file[i]
            /\ \A i \in 1 .. Len(b) : (file \o b)[Len(file) + i] = b[i]
        BY <1>5, <3>1, Appended
      <3> QED BY <1>4, <1>5, <1>7, <2>1, <3>1, <3>2
    <2>3. b[1].kind = "d" /\ b[2].kind = "size" /\ b[2].num = n + 1 /\ b[n + 3].kind = "root"
      <3>1. /\ DataBlock(n, ver, m)[1].kind = "d"
            /\ DataBlock(n, ver, m)[2].kind = "size"
            /\ DataBlock(n, ver, m)[2].num = n + 1
            /\ DataBlock(n, ver, m)[n + 3].kind = "root"
        BY ONLY <1>4, DataBlockCells
      <3> QED BY <2>1, <3>1
    <2>4. b[n + 3] = MkCell("root", ver, m)
      <3>1. DataBlock(n, ver, m)[n + 3] = MkCell("root", ver, m)
        BY ONLY <1>4, DataBlockProps
      <3> QED BY <2>1, <3>1
    <2>5. /\ file'[Len(file) + 1] = b[1] /\ file'[Len(file) + 2] = b[2]
          /\ file'[v + 1] = b[n + 3] /\ Len(file') = v + 1
      BY <1>4, <1>5, <1>6, <2>2
    <2>6. \A i \in Len(file) + 3 .. v : file'[i].kind = "node"
      <3> TAKE i \in Len(file) + 3 .. v
      <3>1. PICK j \in 3 .. n + 2 : i = Len(file) + j
        <4>1. i - Len(file) \in 3 .. n + 2 /\ i = Len(file) + (i - Len(file))
          BY <1>4, <1>5, <1>6
        <4> QED BY <4>1
      <3>2. file'[i] = b[j]
        BY <1>4, <2>2, <3>1
      <3>3. b[j].kind = "node"
        BY <1>4, <2>1, DataBlockNode
      <3> QED BY <3>2, <3>3
    <2> QED BY <2>2, <2>3, <2>4, <2>5, <2>6
  <1>13. DataWritten(t, n, ver, m, v)
    BY <1>3, <1>5, <1>6, <1>7, <1>8, <1>10, <1>11, <1>12 DEF DataWritten
  <1> QED BY <1>3, <1>4, <1>8, <1>13

(* A commit appends the two cells of its version block.                    *)
LEMMA VersionAppended ==
    ASSUME IInv, NEW t \in Thread, CommitWrite(t)
    PROVE  /\ mode = "open" /\ file_size = Len(file) /\ Len(file) \in Nat
           /\ UNCHANGED <<mode, flushed, cur, hist, acked>>
           /\ Goto(t, loc[t], "commit_flush") /\ pc[t] = "decided"
           /\ file' \in Seq(Cell) /\ Len(file') = Len(file) + 2
           /\ file_size' = Len(file) + 2
           /\ \A i \in 1 .. Len(file) : file'[i] = file[i]
           /\ file'[Len(file) + 1].kind = "v"
           /\ file'[Len(file) + 2].kind = "off"
           /\ file'[Len(file) + 2].num = loc[t].ver
           /\ Committing(t) /\ loc[t].ok
  <1>1. PICK ver, b : ver = loc[t].ver /\ b = VersionBlock(ver)
    OBVIOUS
  <1>2. /\ pc[t] = "decided" /\ loc[t].op \in {"commit", "init"} /\ loc[t].ok
        /\ file' = file \o b /\ file_size' = file_size + 2
        /\ Goto(t, loc[t], "commit_flush")
        /\ UNCHANGED <<mode, flushed, cur, hist, acked>>
    BY <1>1 DEF CommitWrite, ghost
  <1>3. ver \in Nat /\ mode = "open"
    BY <1>1, <1>2, ThreadFacts
  <1>4. file \in Seq(Cell) /\ Len(file) \in Nat /\ file_size = Len(file)
    BY <1>3 DEF IInv, TypeOK, SizeInv
  <1>5. /\ b \in Seq(Cell) /\ Len(b) = 2
        /\ b[1].kind = "v" /\ b[2].kind = "off" /\ b[2].num = ver
    BY <1>1, <1>3, VersionBlockProps
  <1>6. /\ file \o b \in Seq(Cell)
        /\ Len(file \o b) = Len(file) + Len(b)
        /\ \A i \in 1 .. Len(file) : (file \o b)[i] = file[i]
        /\ \A i \in 1 .. Len(b) : (file \o b)[Len(file) + i] = b[i]
    BY <1>4, <1>5, Appended
  <1>7. file'[Len(file) + 1] = b[1] /\ file'[Len(file) + 2] = b[2]
    BY <1>2, <1>4, <1>5, <1>6
  <1> QED BY <1>1, <1>2, <1>3, <1>4, <1>5, <1>6, <1>7 DEF Committing

-----------------------------------------------------------------------------
(* The file keeps its form.                                                *)

(* A file that ends with a whole block has no cut block in it.             *)
LEMMA WholeBlocks ==
    ASSUME IInv, BlocksInv, Boundary(Len(file)), NEW i \in 1 .. Len(file)
    PROVE  /\ file[i].kind = "v" => i < Len(file)
           /\ file[i].kind = "d" => /\ i < Len(file)
                                    /\ file[i + 1].num \in Nat
                                    /\ i + file[i + 1].num + 1 <= Len(file)
  <1>1. Len(file) \in Nat /\ file \in Seq(Cell) /\ i \in Nat
    BY DEF IInv, TypeOK
  <1>2. file[Len(file)].kind \in {"off", "root"} /\ Len(file) > 0
    BY <1>1 DEF Boundary
  <1>3. file[i].kind \in {"v", "d"} => i < Len(file)
    BY <1>1, <1>2
  <1>4. ASSUME file[i].kind = "d"
        PROVE  file[i + 1].num \in Nat /\ i + file[i + 1].num + 1 <= Len(file)
    <2>1. i < Len(file) /\ CellInPlace(i)
      BY <1>3, <1>4 DEF BlocksInv
    <2>2. file[i + 1] \in Cell /\ i + 1 \in 1 .. Len(file)
      BY <1>1, <2>1
    <2>3. file[i + 1].num \in Nat /\ file[i + 1].kind = "size"
      BY <1>4, <2>1, <2>2 DEF CellInPlace, Cell
    <2>4. PICK n \in Nat : n = file[i + 1].num
      BY <2>3
    <2>5. Len(file) # i + 1
      BY <1>2, <2>3
    <2>6. \A j \in i + 2 .. Len(file) : j <= i + n => file[j].kind = "node"
      BY <1>4, <2>1, <2>4 DEF CellInPlace
    <2>7. ~(Len(file) <= i + n)
      BY <1>1, <1>2, <2>1, <2>5, <2>6
    <2> QED BY <1>1, <2>4, <2>7
  <1> QED BY <1>3, <1>4

(* Cells keep their places when blocks are appended behind a whole block.  *)
LEMMA OldCells ==
    ASSUME IInv, BlocksInv, Boundary(Len(file)),
           Len(file') \in Nat, Len(file') > Len(file),
           \A i \in 1 .. Len(file) : file'[i] = file[i],
           NEW i \in 1 .. Len(file)
    PROVE  CellInPlace(i)'
  <1>0. Len(file) \in Nat
    BY DEF IInv, TypeOK
  <1>1. i \in 1 .. Len(file) /\ CellInPlace(i) /\ file'[i] = file[i]
    BY DEF BlocksInv
  <1>2. Boundary(i - 1)' => Boundary(i - 1)
    BY <1>0, <1>1 DEF Boundary
  <1>3. file[i].kind = "v" => i < Len(file) /\ file'[i + 1] = file[i + 1]
    BY <1>0, <1>1, WholeBlocks
  <1>4. ASSUME file[i].kind = "d"
        PROVE  /\ file'[i + 1].kind = "size" /\ file'[i + 1].num > 0
               /\ \A j \in i + 2 .. Len(file') :
                    /\ j <= i + file'[i + 1].num => file'[j].kind = "node"
                    /\ j = i + file'[i + 1].num + 1 => file'[j].kind = "root"
    <2>1. PICK k \in Nat : /\ i < Len(file) /\ k = file[i + 1].num
                           /\ i + k + 1 <= Len(file)
      BY <1>1, <1>4, WholeBlocks
    <2>2. /\ file[i + 1].kind = "size" /\ k > 0
          /\ \A j \in i + 2 .. Len(file) :
               /\ j <= i + k => file[j].kind = "node"
               /\ j = i + k + 1 => file[j].kind = "root"
      BY <1>1, <1>4, <2>1 DEF CellInPlace
    <2>3. file'[i + 1] = file[i + 1]
      BY <1>0, <1>1, <2>1
    <2>4. ASSUME NEW j \in i + 2 .. Len(file'), j <= i + k + 1
          PROVE  j \in i + 2 .. Len(file) /\ file'[j] = file[j]
      <3>1. j \in i + 2 .. Len(file) /\ j \in 1 .. Len(file)
        BY <1>0, <1>1, <2>1, <2>4
      <3> QED BY <3>1
    <2>5. \A j \in i + 2 .. Len(file') :
               /\ j <= i + k => file'[j].kind = "node"
               /\ j = i + k + 1 => file'[j].kind = "root"
      BY <1>0, <1>1, <2>2, <2>4
    <2> QED BY <2>1, <2>2, <2>3, <2>5
  <1> QED BY <1>1, <1>2, <1>3, <1>4 DEF CellInPlace

(* A data block behind a whole block: cells keep their places, ...         *)
LEMMA DataBlocks ==
    ASSUME IInv, BlocksInv, Boundary(Len(file)),
           NEW t, NEW n \in Nat, NEW ver, NEW m, NEW v \in Nat,
           DataWritten(t, n, ver, m, v)
    PROVE  BlocksInv'
  <1>1. /\ Len(file) \in Nat /\ v = Len(file) + 2 + n /\ Len(file') = v + 1
        /\ \A i \in 1 .. Len(file) : file'[i] = file[i]
        /\ file'[Len(file) + 1].kind = "d"
        /\ file'[Len(file) + 2].kind = "size" /\ file'[Len(file) + 2].num = n + 1
        /\ \A i \in Len(file) + 3 .. v : file'[i].kind = "node"
        /\ file'[v + 1].kind = "root"
    BY DEF DataWritten
  <1> SUFFICES ASSUME NEW i \in 1 .. Len(file') PROVE CellInPlace(i)'
    BY DEF BlocksInv
  <1>2. CASE i <= Len(file)
    BY <1>1, <1>2, OldCells
  <1>3. CASE i = Len(file) + 1
    <2>1. i + 1 = Len(file) + 2 /\ i + (n + 1) = v /\ i + (n + 1) + 1 = v + 1
      BY <1>1, <1>3
    <2>2. \A j \in i + 2 .. Len(file') :
            /\ j <= i + (n + 1) => file'[j].kind = "node"
            /\ j = i + (n + 1) + 1 => file'[j].kind = "root"
      BY <1>1, <1>3
    <2> QED BY <1>1, <1>3, <2>1, <2>2 DEF CellInPlace
  <1>4. CASE i > Len(file) + 1
    <2>1. file'[i].kind \in {"size", "node", "root"}
      BY <1>1, <1>4
    <2>2. i - 1 \in Len(file) + 1 .. v
      BY <1>1, <1>4
    <2>3. i - 1 # 0 /\ file'[i - 1].kind \in {"d", "size", "node"}
      BY <1>1, <2>2
    <2>4. ~Boundary(i - 1)'
      BY <2>3 DEF Boundary
    <2> QED BY <2>1, <2>4 DEF CellInPlace
  <1> QED BY <1>1, <1>2, <1>3, <1>4
(* ... and so they do behind a version block, ...                          *)
LEMMA VersionBlocks ==
    ASSUME IInv, BlocksInv, Boundary(Len(file)),
           Len(file') = Len(file) + 2,
           \A i \in 1 .. Len(file) : file'[i] = file[i],
           file'[Len(file) + 1].kind = "v", file'[Len(file) + 2].kind = "off"
    PROVE  BlocksInv'
  <1>1. Len(file) \in Nat
    BY DEF IInv, TypeOK
  <1> SUFFICES ASSUME NEW i \in 1 .. Len(file') PROVE CellInPlace(i)'
    BY DEF BlocksInv
  <1>2. CASE i <= Len(file)
    BY <1>1, <1>2, OldCells
  <1>3. CASE i = Len(file) + 1
    <2>1. i + 1 = Len(file) + 2
      BY <1>1, <1>3
    <2> QED BY <1>3, <2>1 DEF CellInPlace
  <1>4. CASE i = Len(file) + 2
    <2>1. i - 1 = Len(file) + 1 /\ i - 1 # 0
      BY <1>1, <1>4
    <2> QED BY <1>4, <2>1 DEF CellInPlace, Boundary
  <1> QED BY <1>1, <1>2, <1>3, <1>4

(* ... and in a file that is cut short.                                    *)
LEMMA CutBlocks ==
    ASSUME IInv, BlocksInv, NEW k \in 0 .. Len(file), Len(file') = k,
           \A i \in 1 .. k : file'[i] = file[i]
    PROVE  BlocksInv'
  <1>1. Len(file) \in Nat /\ k \in Nat
    BY DEF IInv, TypeOK
  <1> SUFFICES ASSUME NEW i \in 1 .. k PROVE CellInPlace(i)'
    BY DEF BlocksInv
  <1>2. i \in 1 .. Len(file) /\ CellInPlace(i) /\ file'[i] = file[i]
    BY <1>1 DEF BlocksInv
  <1>3. Boundary(i - 1)' => Boundary(i - 1)
    BY <1>1, <1>2 DEF Boundary
  <1>4. i < k => i < Len(file) /\ file'[i + 1] = file[i + 1]
    BY <1>1, <1>2
  <1>5. ASSUME file[i].kind = "d", i < k
        PROVE  \A j \in i + 2 .. k :
                 /\ j <= i + file'[i + 1].num => file'[j].kind = "node"
                 /\ j = i + file'[i + 1].num + 1 => file'[j].kind = "root"
    <2>1. \A j \in i + 2 .. k : j \in i + 2 .. Len(file) /\ file'[j] = file[j]
      BY <1>1, <1>2
    <2> QED BY <1>2, <1>4, <1>5, <2>1 DEF CellInPlace
  <1> QED BY <1>2, <1>3, <1>4, <1>5 DEF CellInPlace
-----------------------------------------------------------------------------
(* The history keeps its form.                                             *)

(* What there is to know of versions and version blocks once a data block  *)
(* has been written.                                                       *)
LEMMA DataFacts ==
    ASSUME IInv, Boundary(Len(file)),
           NEW t, NEW n \in Nat, NEW ver \in Refs, NEW m, NEW v \in Nat,
           DataWritten(t, n, ver, m, v)
    PROVE  /\ v \notin Refs
           /\ \A w \in Refs : Anc(w)' = Anc(w) /\ w \in Refs'
           /\ Refs' = Refs \cup {v}
           /\ Heads' = Heads
           /\ \A i \in Heads : Committed(i)' = Committed(i)
  <1>1. /\ Len(file) \in Nat /\ v = Len(file) + 2 + n /\ Len(file') = v + 1
        /\ \A i \in 1 .. Len(file) : file'[i] = file[i]
        /\ file'[Len(file) + 1].kind = "d"
        /\ file'[Len(file) + 2].kind = "size"
        /\ \A i \in Len(file) + 3 .. v : file'[i].kind = "node"
        /\ file'[v + 1].kind = "root"
    BY DEF DataWritten
  <1>2. /\ DOMAIN hist' = DOMAIN hist \cup {v} /\ v \notin DOMAIN hist
        /\ \A w \in DOMAIN hist : hist'[w] = hist[w]
    BY DEF DataWritten
  <1>3. v \notin Refs /\ Refs' = Refs \cup {v}
    BY <1>1, <1>2 DEF Refs
  <1>4. \A w \in Refs : Anc(w)' = Anc(w) /\ w \in Refs'
    BY <1>2 DEF Refs, Anc
  <1>5. \A i \in Heads : i \in 1 .. Len(file) /\ i + 1 \in 1 .. Len(file)
    BY <1>1 DEF Heads
  <1>6. \A i \in Heads : Committed(i)' = Committed(i)
    BY <1>1, <1>5 DEF Committed
  <1>7. ASSUME NEW i \in 1 .. v
        PROVE  i \in Heads' <=> i \in Heads
    <2>1. CASE i < Len(file)
      BY <1>1, <2>1 DEF Heads
    <2>2. CASE i = Len(file)
      <3>1. file[i].kind # "v" /\ file'[i] = file[i]
        BY <1>1, <2>2 DEF Boundary
      <3> QED BY <3>1 DEF Heads
    <2>3. CASE i > Len(file)
      <3>1. file'[i].kind \in {"d", "size", "node"}
        BY <1>1, <2>3
      <3> QED BY <1>5, <2>3, <3>1 DEF Heads
    <2> QED BY <1>1, <2>1, <2>2, <2>3
  <1>8. Heads' \subseteq 1 .. v /\ Heads \subseteq 1 .. v
    BY <1>1 DEF Heads
  <1> QED BY <1>3, <1>4, <1>6, <1>7, <1>8

(* A new version has the ancestors of the one it was made from, and no set *)
(* that leads from it to an old version can do without them.               *)
LEMMA DataHistory ==
    ASSUME IInv, FileInv, Boundary(Len(file)),
           NEW t, NEW n \in Nat, NEW ver \in Refs, NEW m, NEW v \in Nat,
           DataWritten(t, n, ver, m, v)
    PROVE  FileInv'
  <1>1. /\ Len(file) \in Nat /\ v = Len(file) + 2 + n /\ Len(file') = v + 1
        /\ \A i \in 1 .. Len(file) : file'[i] = file[i]
        /\ file'[Len(file) + 1].kind = "d"
        /\ file'[Len(file) + 2].kind = "size"
        /\ \A i \in Len(file) + 3 .. v : file'[i].kind = "node"
    BY DEF DataWritten
  <1>2. /\ DOMAIN hist' = DOMAIN hist \cup {v} /\ v \notin DOMAIN hist
        /\ \A w \in DOMAIN hist : hist'[w] = hist[w]
        /\ hist'[v].prev = ver /\ hist'[v].anc = Anc(ver) \cup {v}
    BY DEF DataWritten
  <1>3. /\ v \notin Refs
        /\ \A w \in Refs : Anc(w)' = Anc(w)
        /\ Heads' = Heads
        /\ \A i \in Heads : Committed(i)' = Committed(i) /\ Committed(i) \in Refs
    BY DataFacts, HeadFacts
  <1>4. \A w \in DOMAIN hist : hist[w].anc \subseteq DOMAIN hist /\ hist[w].prev \in Refs
    BY DEF IInv, HistInv
  <1>5. ver # 0 => ver \in DOMAIN hist /\ Anc(ver) = hist[ver].anc
    BY DEF Refs, Anc
  <1>6. BlocksInv'
    BY DataBlocks DEF FileInv
  <1>7. RootsInv'
    <2> SUFFICES ASSUME NEW i \in 1 .. v + 1, file'[i].kind = "root"
                 PROVE  i - 1 \in DOMAIN hist'
      BY <1>1 DEF RootsInv
    <2>1. CASE i <= Len(file)
      BY <1>1, <1>2, <2>1 DEF FileInv, RootsInv
    <2>2. CASE i > Len(file)
      <3>1. i <= v => file'[i].kind \in {"d", "size", "node"}
        BY <1>1, <2>2
      <3>2. i = v + 1
        BY <3>1
      <3> QED BY <1>2, <3>2
    <2> QED BY <1>1, <2>1, <2>2
  <1>8. AncTrans'
    <2> SUFFICES ASSUME NEW u \in DOMAIN hist', NEW w \in hist'[u].anc
                 PROVE  hist'[w].anc \subseteq hist'[u].anc
      BY DEF AncTrans
    <2>1. CASE u \in DOMAIN hist
      BY <1>2, <1>4, <2>1 DEF FileInv, AncTrans
    <2>2. CASE u = v /\ w # v
      <3>1. w \in Anc(ver) /\ ver # 0
        BY <1>2, <2>2 DEF Anc
      <3>2. w \in DOMAIN hist /\ hist[w].anc \subseteq Anc(ver)
        BY <1>4, <1>5, <3>1 DEF FileInv, AncTrans
      <3> QED BY <1>2, <2>2, <3>2
    <2> QED BY <1>2, <2>1, <2>2
  <1>9. AncLeast'
    <2> SUFFICES ASSUME NEW u \in DOMAIN hist', NEW h \in hist'[u].anc,
                        NEW S \in SUBSET DOMAIN hist',
                        u \in S, \A w \in S : hist'[w].prev \in S \cup {0}
                 PROVE  h \in S
      BY DEF AncLeast, ClosedUnderPrev
    <2>1. PICK T : T = S \ {v}
      OBVIOUS
    <2>2. T \in SUBSET DOMAIN hist /\ ClosedUnderPrev(T)
      <3>1. T \in SUBSET DOMAIN hist
        BY <1>2, <2>1
      <3>2. \A w \in T : hist[w].prev \in S \cup {0} /\ hist[w].prev # v
        BY <1>2, <1>3, <1>4, <2>1, <3>1
      <3> QED BY <2>1, <3>1, <3>2 DEF ClosedUnderPrev
    <2>3. CASE u \in DOMAIN hist
      BY <1>2, <2>1, <2>2, <2>3 DEF FileInv, AncLeast
    <2>4. CASE u = v /\ h # v
      <3>1. h \in Anc(ver) /\ ver # 0
        BY <1>2, <2>4 DEF Anc
      <3>2. ver \in T
        BY <1>2, <1>5, <2>1, <2>4, <3>1
      <3> QED BY <1>5, <2>1, <2>2, <3>1, <3>2 DEF FileInv, AncLeast
    <2> QED BY <1>2, <2>3, <2>4
  <1>10. HeadChain'
    <2> SUFFICES ASSUME NEW i \in Heads, NEW j \in Heads, i < j
                 PROVE  Based(Committed(j), Committed(i))'
      BY <1>3 DEF HeadChain
    <2>1. Based(Committed(j), Committed(i))
      BY DEF FileInv, HeadChain
    <2>2. PICK x \in Refs, y \in Refs : x = Committed(i) /\ y = Committed(j)
      BY <1>3
    <2>3. Committed(i)' = x /\ Committed(j)' = y
      BY <1>3, <2>2
    <2>4. Based(y, x)'
      BY <1>3, <2>1, <2>2 DEF Based
    <2> QED BY <2>3, <2>4 DEF Based, Anc
  <1> QED BY <1>6, <1>7, <1>8, <1>9, <1>10 DEF FileInv
(* Only one thread at a time is in a commit: all of them hold version.     *)
LEMMA OneCommit ==
    ASSUME IInv, NEW t \in Thread, NEW u \in Thread,
           Committing(t) \/ InCommit(t), InCommit(u)
    PROVE  u = t /\ Committing(t) /\ version = t
  BY ThreadFacts DEF ThreadInv, LocksHeld, InCommit

(* What there is to know of version blocks once another one was written.   *)
LEMMA VersionFile ==
    ASSUME IInv, Boundary(Len(file)), NEW t \in Thread, CommitWrite(t)
    PROVE  /\ Heads' = Heads \cup {Len(file) + 1}
           /\ \A h : h = Len(file) + 1 => Committed(h)' = loc[t].ver
           /\ \A i \in Heads : Committed(i)' = Committed(i) /\ i < Len(file)
           /\ \A v, w : Based(v, w)' <=> Based(v, w)
           /\ \A w : Anc(w)' = Anc(w)
  <1>1. /\ Len(file) \in Nat /\ Len(file') = Len(file) + 2 /\ hist' = hist
        /\ \A i \in 1 .. Len(file) : file'[i] = file[i]
        /\ file'[Len(file) + 1].kind = "v"
        /\ file'[Len(file) + 2].num = loc[t].ver
    BY VersionAppended
  <1>2. \A i \in Heads : i + 1 \in 1 .. Len(file) /\ i < Len(file)
    BY HeadFacts
  <1>3. \A i \in Heads : Committed(i)' = Committed(i)
    BY <1>1, <1>2 DEF Committed
  <1>4. \A h : h = Len(file) + 1 => Committed(h)' = loc[t].ver
    BY <1>1 DEF Committed
  <1>5. \A w : Anc(w)' = Anc(w)
    BY <1>1 DEF Anc
  <1>6. \A v, w : Based(v, w)' <=> Based(v, w)
    BY <1>5 DEF Based
  <1>7. ASSUME NEW i \in 1 .. Len(file) + 1
        PROVE  i \in Heads' <=> i \in Heads \cup {Len(file) + 1}
    <2>1. CASE i < Len(file)
      BY <1>1, <2>1 DEF Heads
    <2>2. CASE i = Len(file)
      <3>1. file[i].kind # "v" /\ file'[i] = file[i]
        BY <1>1, <2>2 DEF Boundary
      <3> QED BY <1>1, <2>2, <3>1 DEF Heads
    <2>3. CASE i = Len(file) + 1
      BY <1>1, <2>3 DEF Heads
    <2> QED BY <1>1, <2>1, <2>2, <2>3
  <1>8. /\ Heads' \subseteq 1 .. Len(file) + 1
        /\ Heads \cup {Len(file) + 1} \subseteq 1 .. Len(file) + 1
    BY <1>1 DEF Heads
  <1> QED BY <1>2, <1>3, <1>4, <1>5, <1>6, <1>7, <1>8

(* The version of a commit that was not refused descends from every        *)
(* version block there is.                                                 *)
LEMMA CommitDescends ==
    ASSUME IInv, RInv, NEW t \in Thread, CommitWrite(t), NEW i \in Heads
    PROVE  Based(loc[t].ver, Committed(i))
  <1>1. /\ mode = "open" /\ file_size = Len(file) /\ pc[t] = "decided"
        /\ Committing(t) /\ loc[t].ok
    BY VersionAppended
  <1>2. /\ loc[t].ver \in Refs /\ loc[t].b = cur
        /\ loc[t].b = 0 \/ loc[t].b \in Anc(loc[t].ver)
    BY <1>1, ThreadFacts DEF ThreadInv, LoopKeeps
  <1>3. Based(loc[t].ver, cur)
    BY <1>2 DEF Based
  <1>4. ~ \E u \in Thread : InCommit(u) /\ Committed(i) = loc[u].ver
    BY <1>1, OneCommit DEF InCommit
  <1>5. i < file_size
    BY <1>1, HeadFacts
  <1>6. Based(cur, Committed(i))
    BY <1>1, <1>4, <1>5 DEF RInv, HandleInv, HeadsInv
  <1> QED BY <1>2, <1>3, <1>6, BasedTrans DEF RInv, FileInv

(* So the version blocks stay a chain.                                     *)
LEMMA VersionKeepsFile ==
    ASSUME IInv, RInv, NEW t \in Thread, CommitWrite(t)
    PROVE  FileInv'
  <1>1. /\ Len(file) \in Nat /\ Len(file') = Len(file) + 2 /\ hist' = hist
        /\ \A i \in 1 .. Len(file) : file'[i] = file[i]
        /\ file'[Len(file) + 1].kind = "v"
        /\ file'[Len(file) + 2].kind = "off"
        /\ mode = "open" /\ file_size = Len(file)
    BY VersionAppended
  <1>2. FileInv /\ Boundary(Len(file))
    BY <1>1 DEF RInv, HandleInv, ScanInv
  <1>3. /\ Heads' = Heads \cup {Len(file) + 1}
        /\ \A h : h = Len(file) + 1 => Committed(h)' = loc[t].ver
        /\ \A i \in Heads : Committed(i)' = Committed(i) /\ i < Len(file)
        /\ \A v, w : Based(v, w)' <=> Based(v, w)
    BY <1>2, VersionFile
  <1>4. BlocksInv'
    BY <1>1, <1>2, VersionBlocks DEF FileInv
  <1>5. RootsInv'
    <2> SUFFICES ASSUME NEW i \in 1 .. Len(file) + 2, file'[i].kind = "root"
                 PROVE  i - 1 \in DOMAIN hist
      BY <1>1 DEF RootsInv
    <2>1. i # Len(file) + 1 /\ i # Len(file) + 2
      BY <1>1
    <2>2. i \in 1 .. Len(file)
      BY <1>1, <2>1
    <2> QED BY <1>1, <1>2, <2>2 DEF FileInv, RootsInv
  <1>6. AncTrans' /\ AncLeast'
    BY <1>1, <1>2 DEF FileInv, AncTrans, AncLeast, ClosedUnderPrev
  <1>7. HeadChain'
    <2> SUFFICES ASSUME NEW i \in Heads', NEW j \in Heads', i < j
                 PROVE  Based(Committed(j), Committed(i))'
      BY DEF HeadChain
    <2>1. i \in Heads
      <3>1. \A k \in Heads : k < Len(file) /\ k \in Nat
        BY HeadFacts
      <3> QED BY <1>1, <1>3, <3>1
    <2>2. PICK y, x : y = Committed(j)' /\ x = Committed(i)
      OBVIOUS
    <2>3. Based(y, x)
      <3>1. CASE j \in Heads
        BY <1>2, <1>3, <2>1, <2>2, <3>1 DEF FileInv, HeadChain
      <3>2. CASE j = Len(file) + 1
        <4>1. y = loc[t].ver /\ Based(loc[t].ver, Committed(i))
          BY <1>3, <2>1, <2>2, <3>2, CommitDescends
        <4> QED BY <2>2, <4>1
      <3> QED BY <1>3, <3>1, <3>2
    <2>4. Based(y, x)'
      BY <1>3, <2>3
    <2> QED BY <1>3, <2>1, <2>2, <2>4 DEF Based, Anc
  <1> QED BY <1>4, <1>5, <1>6, <1>7 DEF FileInv

(* What a file that was cut to k cells still says.                         *)
LEMMA CutFacts ==
    ASSUME IInv, NEW k \in 0 .. Len(file),
           file' = SubSeq(file, 1, k), hist' = HistUpTo(k)
    PROVE  /\ Len(file') = k /\ \A i \in 1 .. k : file'[i] = file[i]
           /\ DOMAIN hist' = {w \in DOMAIN hist : w < k}
           /\ \A w \in DOMAIN hist' : hist'[w] = hist[w]
           /\ \A w \in Refs : w < k \/ w = 0 => w \in Refs' /\ Anc(w)' = Anc(w)
           /\ Heads' = {i \in Heads : i < k}
           /\ \A i \in Heads' : /\ Committed(i)' = Committed(i)
                                 /\ Committed(i) \in Refs' /\ Committed(i) < k
  <1>1. Len(file) \in Nat /\ file \in Seq(Cell) /\ k \in Nat /\ k <= Len(file)
    BY DEF IInv, TypeOK
  <1>2. Len(file') = k /\ \A i \in 1 .. k : file'[i] = file[i]
    BY <1>1
  <1>3. /\ DOMAIN hist' = {w \in DOMAIN hist : w < k}
        /\ \A w \in DOMAIN hist' : hist'[w] = hist[w]
    BY DEF HistUpTo
  <1>4. \A w \in Refs : w < k \/ w = 0 => w \in Refs' /\ Anc(w)' = Anc(w)
    BY <1>3 DEF Refs, Anc
  <1>5. Heads' = {i \in Heads : i < k}
    BY <1>1, <1>2 DEF Heads
  <1>6. ASSUME NEW i \in Heads'
        PROVE  /\ Committed(i)' = Committed(i)
               /\ Committed(i) \in Refs' /\ Committed(i) < k
    <2>1. i \in Heads /\ i < k /\ i \in Nat /\ i + 1 \in 1 .. k
      BY <1>1, <1>5, HeadFacts
    <2>2. Committed(i) \in Refs /\ Committed(i) \in Nat /\ Committed(i) < i
      BY <2>1, HeadFacts
    <2> QED BY <1>1, <1>2, <1>4, <2>1, <2>2 DEF Committed
  <1> QED BY <1>2, <1>3, <1>4, <1>5, <1>6

(* A prefix of the file has the form of a file.                            *)
LEMMA CutKeepsFile ==
    ASSUME IInv, FileInv, NEW k \in 0 .. Len(file),
           file' = SubSeq(file, 1, k), hist' = HistUpTo(k)
    PROVE  FileInv'
  <1>1. /\ Len(file) \in Nat /\ k \in Nat /\ k <= Len(file)
        /\ Len(file') = k /\ \A i \in 1 .. k : file'[i] = file[i]
        /\ DOMAIN hist' = {w \in DOMAIN hist : w < k}
        /\ \A w \in DOMAIN hist' : hist'[w] = hist[w]
    <2>1. Len(file) \in Nat /\ k \in Nat /\ k <= Len(file)
      BY DEF IInv, TypeOK
    <2> QED BY <2>1, CutFacts
  <1>2. /\ Heads' = {i \in Heads : i < k}
        /\ \A w \in Refs : w < k \/ w = 0 => w \in Refs' /\ Anc(w)' = Anc(w)
        /\ \A i \in Heads' : /\ Committed(i)' = Committed(i)
                              /\ Committed(i) \in Refs /\ Committed(i) < k
    BY CutFacts, HeadFacts
  <1>3. BlocksInv'
    BY <1>1, CutBlocks DEF FileInv
  <1>4. RootsInv'
    BY <1>1 DEF FileInv, RootsInv
  <1>5. AncTrans'
    <2> SUFFICES ASSUME NEW u \in DOMAIN hist', NEW w \in hist'[u].anc
                 PROVE  hist'[w].anc \subseteq hist'[u].anc
      BY DEF AncTrans
    <2>1. u \in DOMAIN hist /\ u < k /\ u \in Nat /\ w \in hist[u].anc
      BY <1>1 DEF IInv, TypeOK
    <2>2. w \in DOMAIN hist /\ w \in Nat /\ w <= u
      BY <2>1 DEF IInv, TypeOK, HistInv
    <2>3. w \in DOMAIN hist'
      BY <1>1, <2>1, <2>2
    <2> QED BY <1>1, <2>1, <2>3 DEF FileInv, AncTrans
  <1>6. AncLeast'
    <2> SUFFICES ASSUME NEW u \in DOMAIN hist', NEW h \in hist'[u].anc,
                        NEW S \in SUBSET DOMAIN hist',
                        u \in S, \A w \in S : hist'[w].prev \in S \cup {0}
                 PROVE  h \in S
      BY DEF AncLeast, ClosedUnderPrev
    <2>1. S \in SUBSET DOMAIN hist /\ ClosedUnderPrev(S) /\ h \in hist[u].anc
      BY <1>1 DEF ClosedUnderPrev
    <2> QED BY <1>1, <2>1 DEF FileInv, AncLeast
  <1>7. HeadChain'
    <2> SUFFICES ASSUME NEW i \in Heads', NEW j \in Heads', i < j
                 PROVE  Based(Committed(j), Committed(i))'
      BY DEF HeadChain
    <2>1. Based(Committed(j), Committed(i))
      BY <1>2 DEF FileInv, HeadChain
    <2>2. PICK x \in Refs, y \in Refs : x = Committed(i) /\ y = Committed(j)
      BY <1>2
    <2>3. Committed(i)' = x /\ Committed(j)' = y /\ Anc(y)' = Anc(y)
      BY <1>2, <2>2
    <2> QED BY <2>1, <2>2, <2>3 DEF Based, Anc
  <1> QED BY <1>3, <1>4, <1>5, <1>6, <1>7 DEF FileInv

(* A step that leaves the file and the history alone.                      *)
LEMMA SameFile ==
    ASSUME FileInv, UNCHANGED <<file, hist>>
    PROVE  /\ FileInv' /\ Heads' = Heads
           /\ \A v : Anc(v)' = Anc(v)
           /\ \A v, w : Based(v, w)' <=> Based(v, w)
           /\ \A i : Committed(i)' = Committed(i)
           /\ \A k : Boundary(k)' <=> Boundary(k)
  <1>1. \A k : Boundary(k)' <=> Boundary(k)
    BY DEF Boundary
  <1>2. Heads' = Heads /\ \A i : Committed(i)' = Committed(i)
    BY DEF Heads, Committed
  <1>3. \A v : Anc(v)' = Anc(v)
    BY DEF Anc
  <1>4. \A v, w : Based(v, w)' <=> Based(v, w)
    BY <1>3 DEF Based
  <1>5. BlocksInv'
    BY <1>1 DEF FileInv, BlocksInv, CellInPlace
  <1>6. RootsInv' /\ AncTrans' /\ AncLeast'
    BY DEF FileInv, RootsInv, AncTrans, AncLeast, ClosedUnderPrev
  <1>7. HeadChain'
    <2> SUFFICES ASSUME NEW i \in Heads, NEW j \in Heads, i < j
                 PROVE  Based(Committed(j), Committed(i))'
      BY <1>2 DEF HeadChain
    <2>1. Based(Committed(j), Committed(i))
      BY DEF FileInv, HeadChain
    <2> QED BY <2>1 DEF Based, Anc, Committed
  <1> QED BY <1>1, <1>2, <1>3, <1>4, <1>5, <1>6, <1>7 DEF FileInv
-----------------------------------------------------------------------------
(* The steps of a thread that write no block.                              *)

(* Thread t goes to where with the locals l, leaves the file, the handle's *)
(* file_size and head alone, and begins or ends no commit, except that a   *)
(* flush brings one from its first half to its second.                     *)
Quiet(t, l, where) ==
    /\ Goto(t, l, where)
    /\ where \in {"set_lock", "set_write", "del_has", "del_lock", "del_write"}
       => l.key \in Key
    /\ where # "commit_flush"
    /\ where = "commit_head" =>
         pc[t] = "commit_flush" /\ l = loc[t] /\ flushed' = Len(file)
    /\ InCommit(t) => where = "commit_head"
    /\ flushed' \in {flushed, Len(file)}
    /\ UNCHANGED <<mode, file, file_size, cur, hist, acked>>

(* The calls of the application are such steps.                            *)
LEMMA InvokeQuiet ==
    ASSUME IInv, NEW t \in Thread, Invoke(t)
    PROVE  \E l, where : Quiet(t, l, where)
  <1> USE DEF Quiet, InCommit
  <1>1. \A l, where : Call(t, l, where) =>
          /\ Goto(t, l, where) /\ ~InCommit(t) /\ flushed' \in {flushed, Len(file)}
          /\ UNCHANGED <<mode, file, file_size, cur, hist, acked>>
    BY DEF Call, handle, ghost
  <1>2. CASE CallSet(t)
    <2>1. PICK v \in known, k \in Key, x \in Value :
            Call(t, [NoCall EXCEPT !.op = "set", !.ver = v, !.key = k, !.val = x],
                 "set_lock")
      BY <1>2 DEF CallSet
    <2>2. [NoCall EXCEPT !.op = "set", !.ver = v, !.key = k, !.val = x].key = k
      BY DEF NoCall
    <2> QED BY <1>1, <2>1, <2>2
  <1>3. CASE CallDel(t)
    <2>1. PICK v \in known, k \in Key :
            Call(t, [NoCall EXCEPT !.op = "del", !.ver = v, !.key = k], "del_has")
      BY <1>3 DEF CallDel
    <2>2. [NoCall EXCEPT !.op = "del", !.ver = v, !.key = k].key = k
      BY DEF NoCall
    <2> QED BY <1>1, <2>1, <2>2
  <1>4. CASE \/ CallGet(t) \/ CallCurrent(t) \/ CallPrev(t)
             \/ CallCommit(t) \/ CallBased(t) \/ CallAncestor(t)
    <2> DEFINE Place == {"get", "current", "prev", "commit_lock", "walk", "join"}
    <2>1. CASE CallGet(t) \/ CallCurrent(t) \/ CallPrev(t)
      <3>1. \E l : \E where \in Place : Call(t, l, where)
        BY <2>1 DEF CallGet, CallCurrent, CallPrev
      <3> QED BY <1>1, <3>1
    <2>2. CASE CallCommit(t) \/ CallBased(t) \/ CallAncestor(t)
      <3>1. \E l : \E where \in Place : Call(t, l, where)
        BY <2>2 DEF CallCommit, CallBased, CallAncestor
      <3> QED BY <1>1, <3>1
    <2> QED BY <1>4, <2>1, <2>2
  <1> QED BY <1>2, <1>3, <1>4 DEF Invoke

(* So are all steps of a call but those that write a block, replace the    *)
(* head or end the process.                                                *)
LEMMA StepQuiet ==
    ASSUME IInv, ArgsInv, NEW t \in Thread, Step(t),
           ~(SetWrite(t) \/ DelWrite(t) \/ CommitWrite(t) \/ CommitHead(t)
             \/ MergeAbort(t))
    PROVE  \E l, where : Quiet(t, l, where)
  <1> USE DEF Quiet, InCommit
  <1>1. loc[t] \in Locals
    BY ThreadFacts
  <1>2. \A vs : Return(t, vs) => Goto(t, NoCall, "idle")
    BY DEF Return
  <1>3. CASE SetLock(t) \/ DelLock(t)
    <2>1. PICK where \in {"set_write", "del_write"} :
            (\E val : Prepare(t, val, where)) /\ pc[t] \in {"set_lock", "del_lock"}
      BY <1>3 DEF SetLock, DelLock
    <2>2. PICK n, m : Goto(t, [loc[t] EXCEPT !.pos = file_size + 2, !.nodes = n,
                                            !.map = m], where)
      BY <2>1 DEF Prepare
    <2>3. /\ [loc[t] EXCEPT !.pos = file_size + 2, !.nodes = n, !.map = m].key
               = loc[t].key
          /\ loc[t].key \in Key
      BY <1>1, <2>1 DEF Locals, ArgsInv
    <2>4. /\ UNCHANGED <<mode, file, file_size, cur, hist, acked>>
          /\ flushed' \in {flushed, Len(file)}
      BY <2>1 DEF Prepare, ghost
    <2> QED BY <2>1, <2>2, <2>3, <2>4
  <1>4. CASE DelHas(t)
    <2>1. /\ UNCHANGED <<mode, file, file_size, cur, hist, acked>>
          /\ flushed' \in {flushed, Len(file)} /\ pc[t] = "del_has"
      BY <1>4 DEF DelHas, Read, handle
    <2>2. CASE Goto(t, loc[t], "del_lock")
      BY <2>1, <2>2 DEF ArgsInv
    <2>3. CASE Goto(t, NoCall, "idle")
      BY <2>1, <2>3
    <2> QED BY <1>2, <1>4, <2>2, <2>3 DEF DelHas
  <1>5. CASE Get(t) \/ Current(t) \/ Prev(t)
    <2>1. Goto(t, NoCall, "idle") /\ ~InCommit(t)
      BY <1>2, <1>5 DEF Get, Current, Prev
    <2>2. /\ UNCHANGED <<mode, file, file_size, cur, hist, acked>>
          /\ flushed' \in {flushed, Len(file)}
      BY <1>5 DEF Get, Current, Prev, Read, handle
    <2> QED BY <2>1, <2>2
  <1>6. CASE WalkStep(t) \/ WalkEnd(t) \/ JoinStep(t) \/ JoinEnd(t)
    <2>1. PICK where \in {"walk", "decided", "join", "joined"} :
            \E l : Goto(t, l, where)
      <3>1. WalkStep(t) => \E l : Goto(t, l, "walk")
        BY DEF WalkStep
      <3>2. WalkEnd(t) => \E l : Goto(t, l, "decided")
        BY DEF WalkEnd
      <3>3. JoinStep(t) => \E l : Goto(t, l, "join")
        BY DEF JoinStep
      <3>4. JoinEnd(t) => \E l : Goto(t, l, "joined")
        BY DEF JoinEnd
      <3> QED BY <1>6, <3>1, <3>2, <3>3, <3>4
    <2>2. /\ UNCHANGED <<mode, file, file_size, cur, hist, acked>>
          /\ flushed' \in {flushed, Len(file)} /\ ~InCommit(t)
      BY <1>6 DEF WalkStep, WalkEnd, JoinStep, JoinEnd, Read, handle, ghost
    <2> QED BY <2>1, <2>2
  <1>7. CASE BasedReturn(t) \/ JoinReturn(t) \/ CommitAbort(t)
    <2>1. Goto(t, NoCall, "idle") /\ ~InCommit(t)
      BY <1>2, <1>7 DEF BasedReturn, JoinReturn, CommitAbort
    <2>2. /\ UNCHANGED <<mode, file, file_size, cur, hist, acked>>
          /\ flushed' \in {flushed, Len(file)}
      BY <1>7 DEF BasedReturn, JoinReturn, CommitAbort, handle
    <2> QED BY <2>1, <2>2
  <1>8. CASE CommitLock(t)
    BY <1>8 DEF CommitLock, ghost
  <1>9. CASE CommitFlush(t)
    BY <1>9 DEF CommitFlush, ghost
  <1> QED BY <1>3, <1>4, <1>5, <1>6, <1>7, <1>8, <1>9 DEF Step

(* They keep the invariant: a commit that is under way stays so.           *)
LEMMA QuietKeeps ==
    ASSUME IInv, RInv, NEW t \in Thread, NEW l, NEW where, Quiet(t, l, where)
    PROVE  RInv'
  <1>1. /\ UNCHANGED <<mode, file, file_size, cur, hist, acked>>
        /\ flushed' \in {flushed, Len(file)}
    BY DEF Quiet
  <1>2. pc'[t] = where /\ loc'[t] = l
    BY GotoFacts DEF Quiet
  <1>3. \A u \in Thread \ {t} : pc'[u] = pc[u] /\ loc'[u] = loc[u]
    BY DEF Quiet, Goto, IInv, TypeOK
  <1>4. /\ FileInv' /\ Heads' = Heads
        /\ \A v, w : Based(v, w)' <=> Based(v, w)
        /\ \A i : Committed(i)' = Committed(i)
        /\ \A k : Boundary(k)' <=> Boundary(k)
    BY <1>1, SameFile DEF RInv
  <1>5. /\ flushed \in Nat /\ Len(file) \in Nat /\ flushed <= Len(file)
        /\ mode # "open" => flushed = Len(file)
    BY DEF IInv, TypeOK, RInv, HandleInv, FlushedInv
  <1>6. FlushedInv' /\ flushed <= flushed' /\ flushed' \in Nat
    BY <1>1, <1>5 DEF FlushedInv
  <1>7. ASSUME NEW u \in Thread
        PROVE  /\ InCommit(u)' <=> InCommit(u)
               /\ InCommit(u) => loc'[u].ver = loc[u].ver
               /\ pc'[u] = "commit_head" => pc[u] = "commit_head" \/ flushed' = Len(file)
    <2>1. CASE u = t
      BY <1>2, <2>1 DEF Quiet, InCommit
    <2>2. CASE u # t
      BY <1>3, <2>2 DEF InCommit
    <2> QED BY <2>1, <2>2
  <1>8. \A i \in Heads : i + 1 \in Nat /\ i + 1 <= Len(file)
    BY HeadFacts
  <1>9. ScanInv' /\ CurInv'
    <2>1. ScanInv'
      BY <1>1, <1>4 DEF RInv, HandleInv, ScanInv, Boundary
    <2>2. CurInv'
      BY <1>1, <1>4, <1>5, <1>6, <1>8 DEF RInv, HandleInv, CurInv, Committed
    <2> QED BY <2>1, <2>2
  <1>10. HeadsInv'
    <2> SUFFICES ASSUME mode \in {"opening", "open"}, NEW i \in Heads, i < file_size,
                        ~ \E u \in Thread : InCommit(u)' /\ Committed(i) = loc'[u].ver
                 PROVE  Based(cur, Committed(i))'
      BY <1>1, <1>4 DEF HeadsInv, Committed
    <2>1. Based(cur, Committed(i))
      BY <1>7 DEF RInv, HandleInv, HeadsInv
    <2> QED BY <1>1, <2>1 DEF Based, Anc, Committed
  <1>11. CommitInv'
    <2> SUFFICES ASSUME NEW u \in Thread, InCommit(u)'
                 PROVE  \E i \in Heads : /\ Committed(i) = loc'[u].ver
                                         /\ pc'[u] = "commit_head" => i + 1 <= flushed'
      BY <1>1, <1>4 DEF CommitInv, Committed
    <2>1. PICK i \in Heads : /\ Committed(i) = loc[u].ver
                             /\ pc[u] = "commit_head" => i + 1 <= flushed
      BY <1>7 DEF RInv, HandleInv, CommitInv
    <2> QED BY <1>5, <1>6, <1>7, <1>8, <2>1
  <1>12. AckedInv'
    <2> SUFFICES ASSUME ~PowerLoss, acked # 0
                 PROVE  /\ \E i \in Heads : i + 1 <= flushed' /\ Based(Committed(i), acked)
                        /\ mode = "open" => Based(cur, acked)
      BY <1>1, <1>4 DEF AckedInv, Committed, Based, Anc
    <2> QED BY <1>5, <1>6, <1>8 DEF RInv, HandleInv, AckedInv
  <1>13. ArgsInv'
    BY <1>2, <1>3 DEF RInv, HandleInv, ArgsInv, Quiet
  <1> QED BY <1>4, <1>6, <1>9, <1>10, <1>11, <1>12, <1>13 DEF RInv, HandleInv
-----------------------------------------------------------------------------
(* The steps that write a block or replace the head.                       *)

(* A commit makes its version the head, once its version block is in the   *)
(* kernel.                                                                 *)
LEMMA CommitHeadKeeps ==
    ASSUME IInv, RInv, NEW t \in Thread, CommitHead(t)
    PROVE  RInv'
  <1>1. PICK ver : ver = loc[t].ver
    OBVIOUS
  <1>2. /\ pc[t] = "commit_head" /\ cur' = ver /\ acked' = ver
        /\ Goto(t, NoCall, "idle")
        /\ UNCHANGED <<mode, file, flushed, file_size, hist>>
    BY <1>1 DEF CommitHead, Return
  <1>3. pc'[t] = "idle" /\ \A u \in Thread \ {t} : pc'[u] = pc[u] /\ loc'[u] = loc[u]
    BY <1>2, GotoFacts DEF Goto, IInv, TypeOK
  <1>4. /\ FileInv' /\ Heads' = Heads
        /\ \A v, w : Based(v, w)' <=> Based(v, w)
        /\ \A i : Committed(i)' = Committed(i)
        /\ \A k : Boundary(k)' <=> Boundary(k)
    BY <1>2, SameFile DEF RInv
  <1>5. /\ mode = "open" /\ ver \in Refs /\ cur \in Refs /\ file_size = Len(file)
        /\ Len(file) \in Nat
    BY <1>1, <1>2, ThreadFacts DEF IInv, TypeOK, SizeInv, RefInv
  <1>6. \A u \in Thread : InCommit(u) => u = t
    BY <1>2, OneCommit DEF InCommit
  <1>7. Based(ver, cur) /\ Based(ver, ver)
    <2>1. Committing(t) /\ LoopKeeps(t)
      BY <1>2, OneCommit, ThreadFacts DEF InCommit, ThreadInv
    <2>2. Based(ver, cur)
      BY <1>1, <1>2, <2>1 DEF LoopKeeps, Based
    <2> QED BY <1>5, <2>2, BasedFacts
  <1>8. PICK h \in Heads : Committed(h) = ver /\ h + 1 <= flushed /\ h < Len(file)
    <2>1. PICK h \in Heads : Committed(h) = ver /\ h + 1 <= flushed
      BY <1>1, <1>2 DEF RInv, HandleInv, CommitInv, InCommit
    <2> QED BY <2>1, HeadFacts
  <1>9. ScanInv' /\ FlushedInv'
    <2>1. ScanInv'
      BY <1>2, <1>4 DEF RInv, HandleInv, ScanInv, Boundary
    <2> QED BY <1>2, <2>1 DEF RInv, HandleInv, FlushedInv
  <1>10. HeadsInv'
    <2> SUFFICES ASSUME NEW i \in Heads, i < file_size
                 PROVE  Based(ver, Committed(i))
      BY <1>2, <1>4 DEF HeadsInv, Based, Anc, Committed
    <2>1. CASE Based(cur, Committed(i))
      BY <1>5, <1>7, <2>1, BasedTrans DEF RInv, FileInv
    <2>2. CASE \E u \in Thread : InCommit(u) /\ Committed(i) = loc[u].ver
      BY <1>1, <1>6, <1>7, <2>2
    <2> QED BY <1>5, <2>1, <2>2 DEF RInv, HandleInv, HeadsInv
  <1>11. CurInv'
    BY <1>2, <1>4, <1>5, <1>8 DEF CurInv, Committed
  <1>12. CommitInv' /\ ArgsInv'
    <2>1. \A u \in Thread : ~InCommit(u)'
      BY <1>3, <1>6 DEF InCommit
    <2> QED BY <1>3, <2>1 DEF CommitInv, RInv, HandleInv, ArgsInv
  <1>13. AckedInv'
    BY <1>2, <1>4, <1>7, <1>8 DEF AckedInv, Based, Anc, Committed
  <1> QED BY <1>4, <1>9, <1>10, <1>11, <1>12, <1>13 DEF RInv, HandleInv

(* A new version is nobody's ancestor yet, and no version block.           *)
LEMMA DataKeeps ==
    ASSUME IInv, RInv, NEW t \in Thread, SetWrite(t) \/ DelWrite(t)
    PROVE  RInv'
  <1>1. PICK n \in Nat, ver \in Refs, m \in Map, v \in Nat : DataWritten(t, n, ver, m, v)
    BY DataAppended
  <1>2. /\ mode = "open" /\ file_size = Len(file) /\ Len(file) \in Nat
        /\ v = Len(file) + 2 + n /\ Len(file') = v + 1 /\ file_size' = v + 1
        /\ UNCHANGED <<mode, flushed, cur, acked>>
        /\ Goto(t, NoCall, "idle") /\ pc[t] \in {"set_write", "del_write"}
        /\ file'[v + 1].kind = "root"
    BY <1>1 DEF DataWritten
  <1>3. pc'[t] = "idle" /\ \A u \in Thread \ {t} : pc'[u] = pc[u] /\ loc'[u] = loc[u]
    BY <1>2, GotoFacts DEF Goto, IInv, TypeOK
  <1>4. FileInv /\ Boundary(Len(file))
    BY <1>2 DEF RInv, HandleInv, ScanInv
  <1>5. FileInv'
    BY <1>1, <1>4, DataHistory
  <1>6. /\ \A w \in Refs : Anc(w)' = Anc(w)
        /\ Heads' = Heads
        /\ \A i \in Heads : Committed(i)' = Committed(i)
    BY <1>1, <1>4, DataFacts
  <1>7. \A i \in Heads : Committed(i) \in Refs /\ i < Len(file) /\ i \in Nat
    BY HeadFacts
  <1>8. cur \in Refs /\ flushed \in Nat /\ flushed <= Len(file)
    BY <1>2 DEF IInv, TypeOK, RefInv, RInv, HandleInv, FlushedInv
  <1>9. ASSUME NEW u \in Thread
        PROVE  /\ InCommit(u)' <=> InCommit(u)
               /\ InCommit(u) => pc'[u] = pc[u] /\ loc'[u] = loc[u]
    BY <1>2, <1>3 DEF InCommit
  <1>10. ScanInv' /\ FlushedInv'
    BY <1>2, <1>8 DEF ScanInv, Boundary, FlushedInv
  <1>11. HeadsInv'
    <2> SUFFICES ASSUME NEW i \in Heads,
                        ~ \E u \in Thread : InCommit(u) /\ Committed(i) = loc[u].ver
                 PROVE  Based(cur, Committed(i))'
      BY <1>6, <1>9 DEF HeadsInv
    <2>1. Based(cur, Committed(i))
      BY <1>2, <1>7 DEF RInv, HandleInv, HeadsInv
    <2>2. PICK c \in Refs : c = cur
      BY <1>8
    <2>3. Anc(c)' = Anc(c) /\ cur' = c /\ Committed(i)' = Committed(i)
      BY <1>2, <1>6, <2>2
    <2> QED BY <2>1, <2>2, <2>3 DEF Based, Anc
  <1>12. CurInv'
    <2> SUFFICES ASSUME cur # 0
                 PROVE  \E i \in Heads : i + 1 <= flushed /\ i < v + 1
                                        /\ Committed(i) = cur
      BY <1>2, <1>6 DEF CurInv
    <2>1. PICK i \in Heads : i + 1 <= flushed /\ Committed(i) = cur
      BY <1>2 DEF RInv, HandleInv, CurInv
    <2> QED BY <1>2, <1>7, <2>1
  <1>13. CommitInv'
    <2> SUFFICES ASSUME NEW u \in Thread, InCommit(u)
                 PROVE  \E i \in Heads : /\ Committed(i) = loc[u].ver
                                         /\ pc[u] = "commit_head" => i + 1 <= flushed
      BY <1>2, <1>6, <1>9 DEF CommitInv
    <2> QED BY DEF RInv, HandleInv, CommitInv
  <1>14. AckedInv'
    <2> SUFFICES ASSUME ~PowerLoss, acked # 0
                 PROVE  /\ \E i \in Heads : i + 1 <= flushed /\ Based(Committed(i), acked)'
                        /\ Based(cur, acked)'
      BY <1>2, <1>6 DEF AckedInv
    <2>1. PICK i \in Heads : i + 1 <= flushed /\ Based(Committed(i), acked)
      BY DEF RInv, HandleInv, AckedInv
    <2>2. Based(cur, acked)
      BY <1>2 DEF RInv, HandleInv, AckedInv
    <2>3. PICK c \in Refs, d \in Refs : c = cur /\ d = Committed(i)
      BY <1>7, <1>8
    <2>4. Anc(c)' = Anc(c) /\ Anc(d)' = Anc(d) /\ cur' = c /\ Committed(i)' = d
      BY <1>2, <1>6, <2>3
    <2>5. Based(cur, acked)'
      BY <1>2, <2>2, <2>3, <2>4 DEF Based, Anc
    <2>6. Based(Committed(i), acked)'
      BY <1>2, <2>1, <2>3, <2>4 DEF Based, Anc
    <2> QED BY <2>1, <2>5, <2>6
  <1>15. ArgsInv'
    BY <1>3 DEF RInv, HandleInv, ArgsInv
  <1> QED BY <1>5, <1>10, <1>11, <1>12, <1>13, <1>14, <1>15 DEF RInv, HandleInv

(* A version block is the last, and its commit is under way.               *)
LEMMA VersionKeeps ==
    ASSUME IInv, RInv, NEW t \in Thread, CommitWrite(t)
    PROVE  RInv'
  <1>1. PICK ver, h : ver = loc[t].ver /\ h = Len(file) + 1
    OBVIOUS
  <1>2. /\ mode = "open" /\ file_size = Len(file) /\ Len(file) \in Nat
        /\ UNCHANGED <<mode, flushed, cur, hist, acked>>
        /\ Goto(t, loc[t], "commit_flush") /\ pc[t] = "decided"
        /\ Len(file') = Len(file) + 2 /\ file_size' = Len(file) + 2
        /\ file'[Len(file) + 2].kind = "off"
        /\ Committing(t)
    BY VersionAppended
  <1>3. /\ pc'[t] = "commit_flush" /\ loc'[t] = loc[t]
        /\ \A u \in Thread \ {t} : pc'[u] = pc[u] /\ loc'[u] = loc[u]
    BY <1>2, GotoFacts DEF Goto, IInv, TypeOK
  <1>4. FileInv /\ Boundary(Len(file))
    BY <1>2 DEF RInv, HandleInv, ScanInv
  <1>5. FileInv'
    BY VersionKeepsFile
  <1>6. /\ Heads' = Heads \cup {h} /\ Committed(h)' = ver
        /\ \A i \in Heads : Committed(i)' = Committed(i) /\ i < Len(file)
        /\ \A v, w : Based(v, w)' <=> Based(v, w)
        /\ \A w : Anc(w)' = Anc(w)
    BY <1>1, <1>4, VersionFile
  <1>7. flushed \in Nat /\ flushed <= Len(file) /\ \A i \in Heads : i \in Nat
    BY HeadFacts DEF IInv, TypeOK, RInv, HandleInv, FlushedInv
  <1>8. \A u \in Thread : ~InCommit(u)
    BY <1>2, OneCommit DEF InCommit
  <1>9. ScanInv' /\ FlushedInv'
    BY <1>2, <1>7 DEF ScanInv, Boundary, FlushedInv
  <1>10. HeadsInv'
    <2> SUFFICES ASSUME NEW i \in Heads \cup {h}
                 PROVE  \/ Based(cur, Committed(i))'
                        \/ \E u \in Thread : InCommit(u)' /\ Committed(i)' = loc'[u].ver
      BY <1>6 DEF HeadsInv
    <2>1. CASE i = h
      BY <1>1, <1>3, <1>6, <2>1 DEF InCommit
    <2>2. CASE i \in Heads
      <3>1. Based(cur, Committed(i))
        BY <1>2, <1>6, <1>8, <2>2 DEF RInv, HandleInv, HeadsInv
      <3>2. PICK c, d : c = cur /\ d = Committed(i)
        OBVIOUS
      <3>3. cur' = c /\ Committed(i)' = d /\ Based(c, d)'
        BY <1>2, <1>6, <2>2, <3>1, <3>2
      <3> QED BY <3>3 DEF Based, Anc
    <2> QED BY <2>1, <2>2
  <1>11. CurInv'
    <2> SUFFICES ASSUME cur # 0
                 PROVE  \E i \in Heads : i + 1 <= flushed /\ i < Len(file) + 2
                                        /\ Committed(i) = cur
      BY <1>2, <1>6 DEF CurInv
    <2>1. PICK i \in Heads : i + 1 <= flushed /\ Committed(i) = cur
      BY <1>2 DEF RInv, HandleInv, CurInv
    <2> QED BY <1>2, <1>6, <1>7, <2>1
  <1>12. CommitInv'
    <2> SUFFICES ASSUME NEW u \in Thread, InCommit(u)'
                 PROVE  \E i \in Heads' : /\ Committed(i)' = loc'[u].ver
                                          /\ pc'[u] = "commit_head" => i + 1 <= flushed'
      BY DEF CommitInv
    <2>1. u = t
      BY <1>3, <1>8 DEF InCommit
    <2> QED BY <1>1, <1>3, <1>6, <2>1
  <1>13. AckedInv'
    <2> SUFFICES ASSUME ~PowerLoss, acked # 0
                 PROVE  /\ \E i \in Heads : i + 1 <= flushed /\ Based(Committed(i), acked)'
                        /\ Based(cur, acked)'
      BY <1>2, <1>6 DEF AckedInv
    <2>1. PICK i \in Heads : i + 1 <= flushed /\ Based(Committed(i), acked)
      BY DEF RInv, HandleInv, AckedInv
    <2>2. Based(cur, acked)
      BY <1>2 DEF RInv, HandleInv, AckedInv
    <2>3. PICK d : d = Committed(i)
      OBVIOUS
    <2>4. Committed(i)' = d
      BY <1>6, <2>3
    <2>5. Based(Committed(i), acked)'
      BY <1>2, <1>6, <2>1, <2>3, <2>4 DEF Based
    <2>6. Based(cur, acked)'
      BY <1>2, <2>2 DEF Based, Anc
    <2> QED BY <2>1, <2>5, <2>6
  <1>14. ArgsInv'
    BY <1>3 DEF RInv, HandleInv, ArgsInv
  <1> QED BY <1>5, <1>9, <1>10, <1>11, <1>12, <1>13, <1>14 DEF RInv, HandleInv

-----------------------------------------------------------------------------
(* The life of the handle.                                                 *)

(* A crash leaves a prefix of the file, which has the form of a file; a    *)
(* version block in the kernel is in it.                                   *)
LEMMA CrashKeepsR ==
    ASSUME IInv, RInv, Crash \/ (\E t \in Thread : MergeAbort(t))
    PROVE  RInv'
  <1>0. flushed \in Nat /\ Len(file) \in Nat /\ flushed <= Len(file)
    BY DEF IInv, TypeOK, RInv, HandleInv, FlushedInv
  <1>1. PICK k \in 0 .. Len(file) : CrashAt(k) /\ (~PowerLoss => flushed <= k)
    <2>1. CASE Crash
      <3>1. PICK k \in (IF PowerLoss THEN 0 ELSE flushed) .. Len(file) : CrashAt(k)
        BY <2>1 DEF Crash
      <3> QED BY <1>0, <3>1
    <2>2. CASE \E t \in Thread : MergeAbort(t)
      <3>1. PICK k \in flushed .. Len(file) : CrashAt(k)
        BY <2>2 DEF MergeAbort
      <3> QED BY <1>0, <3>1
    <2> QED BY <2>1, <2>2
  <1>2. /\ mode' = "closed" /\ flushed' = k /\ acked' = acked /\ k \in Nat
        /\ file' = SubSeq(file, 1, k) /\ hist' = HistUpTo(k)
        /\ \A u \in Thread : pc'[u] = "idle"
    BY <1>0, <1>1 DEF CrashAt
  <1>3. /\ Len(file') = k
        /\ \A w \in Refs : w < k \/ w = 0 => Anc(w)' = Anc(w)
        /\ Heads' = {i \in Heads : i < k}
        /\ \A i \in Heads' : /\ Committed(i)' = Committed(i)
                              /\ Committed(i) \in Refs /\ Committed(i) < k
    BY <1>2, CutFacts, HeadFacts
  <1>4. FileInv'
    BY <1>2, CutKeepsFile DEF RInv
  <1>5. ScanInv' /\ HeadsInv' /\ CurInv' /\ FlushedInv'
    BY <1>0, <1>2, <1>3 DEF ScanInv, HeadsInv, CurInv, FlushedInv
  <1>6. CommitInv' /\ ArgsInv'
    BY <1>2 DEF CommitInv, InCommit, ArgsInv
  <1>7. AckedInv'
    <2> SUFFICES ASSUME ~PowerLoss, acked # 0
                 PROVE  \E i \in Heads' : i + 1 <= k /\ Based(Committed(i), acked)'
      BY <1>2 DEF AckedInv
    <2>1. PICK i \in Heads : i + 1 <= flushed /\ Based(Committed(i), acked)
      BY DEF RInv, HandleInv, AckedInv
    <2>2. i \in Nat /\ i + 1 <= k /\ i < k
      BY <1>0, <1>1, <1>2, <2>1, HeadFacts
    <2>3. PICK d \in Refs : d = Committed(i)
      BY <1>3, <2>2
    <2>4. Committed(i)' = d /\ Anc(d)' = Anc(d)
      BY <1>3, <2>2, <2>3
    <2>5. Based(Committed(i), acked)'
      BY <1>2, <2>1, <2>3, <2>4 DEF Based, Anc
    <2> QED BY <1>3, <2>2, <2>5
  <1> QED BY <1>4, <1>5, <1>6, <1>7 DEF RInv, HandleInv

(* Closing, beginning to open, and coming to the end of the file: the head *)
(* the scan has found then descends from all version blocks.               *)
LEMMA CloseOpenKeep ==
    ASSUME IInv, RInv, Close \/ OpenStart \/ OpenEof
    PROVE  RInv'
  <1>0. Len(file) \in Nat /\ flushed \in Nat
    BY DEF IInv, TypeOK
  <1>1. /\ UNCHANGED <<file, hist, acked, pc, loc>>
        /\ \A t \in Thread : pc[t] = "idle"
    BY ClosedIdle DEF Close, OpenStart, OpenEof, ghost
  <1>2. /\ FileInv' /\ Heads' = Heads
        /\ \A v : Anc(v)' = Anc(v)
        /\ \A v, w : Based(v, w)' <=> Based(v, w)
        /\ \A i : Committed(i)' = Committed(i)
        /\ \A k : Boundary(k)' <=> Boundary(k)
    BY <1>1, SameFile DEF RInv
  <1>3. FlushedInv'
    BY <1>0, <1>1 DEF Close, OpenStart, OpenEof, RInv, HandleInv, FlushedInv
  <1>4. CommitInv' /\ ArgsInv'
    BY <1>1 DEF CommitInv, InCommit, ArgsInv
  <1>5. CASE Close
    <2>1. mode' = "closed" /\ mode = "open"
      BY <1>5 DEF Close
    <2>2. ScanInv' /\ HeadsInv' /\ CurInv'
      BY <2>1 DEF ScanInv, HeadsInv, CurInv
    <2>3. AckedInv'
      <3> SUFFICES ASSUME ~PowerLoss, acked # 0
                   PROVE  \E i \in Heads : i + 1 <= flushed' /\ Based(Committed(i), acked)
        BY <1>1, <1>2, <2>1 DEF AckedInv, Committed, Based, Anc
      <3>1. PICK i \in Heads : i + 1 <= flushed /\ Based(Committed(i), acked)
        BY DEF RInv, HandleInv, AckedInv
      <3>2. flushed' = Len(file) /\ i + 1 <= Len(file)
        BY <1>0, <1>5, <3>1, HeadFacts DEF Close
      <3> QED BY <3>1, <3>2
    <2> QED BY <1>2, <1>3, <1>4, <2>2, <2>3 DEF RInv, HandleInv
  <1>6. CASE OpenStart
    <2>1. mode' = "opening" /\ mode = "closed" /\ file_size' = 0 /\ cur' = 0
          /\ flushed' = flushed
      BY <1>6 DEF OpenStart
    <2>2. ScanInv' /\ HeadsInv' /\ CurInv'
      BY <1>2, <2>1, HeadFacts DEF ScanInv, Boundary, HeadsInv, CurInv
    <2>3. AckedInv'
      BY <1>1, <1>2, <2>1 DEF RInv, HandleInv, AckedInv, Committed, Based, Anc
    <2> QED BY <1>2, <1>3, <1>4, <2>2, <2>3 DEF RInv, HandleInv
  <1>7. CASE OpenEof
    <2>1. mode = "opening" /\ mode' = "open" /\ UNCHANGED <<flushed, file_size, cur>>
          /\ file_size = Len(file) /\ cur \in Refs
      BY <1>7 DEF OpenEof, IInv, SizeInv, TypeOK, RefInv
    <2>2. ScanInv' /\ CurInv'
      BY <1>1, <1>2, <2>1 DEF RInv, HandleInv, ScanInv, Boundary, CurInv, Committed
    <2>3. \A i \in Heads : Based(cur, Committed(i))
      <3>1. \A i \in Heads : i < file_size
        BY <2>1, HeadFacts
      <3>2. \A u \in Thread : ~InCommit(u)
        BY <1>1 DEF InCommit
      <3> QED BY <2>1, <3>1, <3>2 DEF RInv, HandleInv, HeadsInv
    <2>4. HeadsInv'
      BY <1>1, <1>2, <2>1, <2>3 DEF HeadsInv, Committed, Based, Anc
    <2>5. AckedInv'
      <3> SUFFICES ASSUME ~PowerLoss, acked # 0
                   PROVE  /\ \E i \in Heads : i + 1 <= flushed /\ Based(Committed(i), acked)
                          /\ Based(cur, acked)
        BY <1>1, <1>2, <2>1 DEF AckedInv, Committed, Based, Anc
      <3>1. PICK i \in Heads : i + 1 <= flushed /\ Based(Committed(i), acked)
        BY DEF RInv, HandleInv, AckedInv
      <3>2. Based(cur, Committed(i))
        BY <2>3
      <3>3. Based(cur, acked)
        BY <2>1, <3>1, <3>2, BasedTrans DEF RInv, FileInv
      <3> QED BY <3>1, <3>3
    <2> QED BY <1>2, <1>3, <1>4, <2>2, <2>4, <2>5 DEF RInv, HandleInv
  <1> QED BY <1>5, <1>6, <1>7

(* What the scan finds at the end of a block: the first cell of another,   *)
(* and inside a data block neither a root nor a version block.             *)
LEMMA NextBlock ==
    ASSUME IInv, RInv, mode = "opening", file_size < Len(file)
    PROVE  /\ file_size \in Nat /\ Len(file) \in Nat
           /\ file_size + 1 \in 1 .. Len(file) /\ file_size \notin Heads
           /\ At(file_size) = file[file_size + 1]
           /\ At(file_size + 1) = file[file_size + 2]
           /\ file[file_size + 1].kind \in {"v", "d"}
           /\ CellInPlace(file_size + 1)
           /\ file[file_size + 1].kind = "d" /\ file_size + 1 < Len(file) =>
                /\ file[file_size + 2].num \in Nat
                /\ \A j \in file_size + 2 .. Len(file) :
                     j <= file_size + 1 + file[file_size + 2].num
                     => file[j].kind \in {"size", "node"}
  <1>1. /\ file_size \in Nat /\ Len(file) \in Nat /\ file \in Seq(Cell)
        /\ file_size + 1 \in 1 .. Len(file)
    BY DEF IInv, TypeOK
  <1>2. Boundary(file_size) /\ CellInPlace(file_size + 1)
    BY <1>1 DEF RInv, FileInv, BlocksInv, HandleInv, ScanInv
  <1>3. file_size \notin Heads
    BY <1>1, <1>2 DEF Boundary, Heads
  <1>4. At(file_size) = file[file_size + 1] /\ At(file_size + 1) = file[file_size + 2]
    BY <1>1 DEF At
  <1>5. file[file_size + 1].kind \in {"v", "d"}
    <2>1. (file_size + 1) - 1 = file_size
      BY <1>1
    <2> QED BY <1>2, <2>1 DEF CellInPlace
  <1>6. ASSUME file[file_size + 1].kind = "d", file_size + 1 < Len(file)
        PROVE  /\ file[file_size + 2].num \in Nat
               /\ \A j \in file_size + 2 .. Len(file) :
                    j <= file_size + 1 + file[file_size + 2].num
                    => file[j].kind \in {"size", "node"}
    <2>1. PICK i \in Nat : i = file_size + 1
      BY <1>1
    <2>2. i + 1 = file_size + 2 /\ i + 2 = file_size + 3 /\ i < Len(file)
      BY <1>1, <1>6, <2>1
    <2>3. file[i + 1] \in Cell
      BY <1>1, <2>1, <2>2
    <2>4. file[i + 1].num \in Nat
      BY <2>3 DEF Cell
    <2>5. /\ file[i + 1].kind = "size"
          /\ \A j \in i + 2 .. Len(file) : j <= i + file[i + 1].num => file[j].kind = "node"
      BY <1>2, <1>6, <2>1, <2>2 DEF CellInPlace
    <2>6. \A j \in i + 1 .. Len(file) :
            j <= i + file[i + 1].num => file[j].kind \in {"size", "node"}
      <3> TAKE j \in i + 1 .. Len(file)
      <3>1. j = i + 1 \/ j \in i + 2 .. Len(file)
        BY <1>1, <2>1
      <3> QED BY <2>5, <3>1
    <2> QED BY <2>1, <2>2, <2>4, <2>6
  <1> QED BY <1>1, <1>2, <1>3, <1>4, <1>5, <1>6

(* The scan goes on from a block that is complete: it meets no unknown     *)
(* type, comes to the end of the block, and has the head of the last       *)
(* version block it has passed.                                            *)
LEMMA OpenBlockKeepsR ==
    ASSUME IInv, RInv, OpenBlock
    PROVE  RInv' /\ mode' = "opening"
  <1> DEFINE i == file_size + 1
  <1>1. /\ mode = "opening" /\ file_size < Len(file) /\ ~Torn
        /\ UNCHANGED <<file, flushed, pc, loc, hist, acked>>
    BY DEF OpenBlock, ghost
  <1>2. /\ file_size \in Nat /\ Len(file) \in Nat /\ flushed = Len(file)
        /\ i \in 1 .. Len(file) /\ i \in Nat /\ file_size \notin Heads
        /\ At(file_size) = file[i] /\ At(file_size + 1) = file[i + 1]
        /\ file[i].kind \in {"v", "d"} /\ i < Len(file)
        /\ CellInPlace(i)
    <2>1. flushed = Len(file) /\ i + 1 = file_size + 2
      BY <1>1, NextBlock DEF RInv, HandleInv, FlushedInv
    <2>2. i # Len(file)
      BY <1>1, NextBlock DEF Torn
    <2> QED BY <1>1, <2>1, <2>2, NextBlock
  <1>3. /\ FileInv' /\ Heads' = Heads
        /\ \A v : Anc(v)' = Anc(v)
        /\ \A v, w : Based(v, w)' <=> Based(v, w)
        /\ \A h : Committed(h)' = Committed(h)
        /\ \A k : Boundary(k)' <=> Boundary(k)
    BY <1>1, SameFile DEF RInv
  <1>4. mode' = "opening"
    BY <1>2 DEF OpenBlock
  <1>5. /\ FlushedInv' /\ CommitInv' /\ ArgsInv'
        /\ \A t \in Thread : ~InCommit(t)
    <2>1. \A t \in Thread : pc[t] = "idle" /\ pc'[t] = "idle"
      BY <1>1, ClosedIdle
    <2> QED BY <1>1, <1>2, <1>4, <2>1 DEF FlushedInv, CommitInv, InCommit, ArgsInv
  <1>6. AckedInv'
    BY <1>1, <1>3, <1>4 DEF RInv, HandleInv, AckedInv, Committed, Based, Anc
  <1>7. \A h \in Heads : h < file_size => Based(cur, Committed(h))
    BY <1>1, <1>5 DEF RInv, HandleInv, HeadsInv
  <1>8. \A h \in Heads : /\ h \in Nat /\ Committed(h) \in Refs /\ h # file_size
                         /\ file[h].kind = "v"
    BY <1>2, HeadFacts
  <1>9. CASE file[i].kind = "v"
    <2>1. file_size' = file_size + 2 /\ cur' = Committed(i)
      BY <1>2, <1>9 DEF OpenBlock, Committed
    <2>2. i \in Heads /\ file[i + 1].kind = "off"
      BY <1>2, <1>9 DEF Heads, CellInPlace
    <2>3. ScanInv'
      <3>1. i + 1 = file_size + 2
        BY <1>2
      <3> QED BY <1>1, <2>1, <2>2, <3>1 DEF ScanInv, Boundary
    <2>4. \A h \in Heads : h < file_size + 2 => Based(Committed(i), Committed(h))
      <3> SUFFICES ASSUME NEW h \in Heads, h < file_size + 2
                   PROVE  Based(Committed(i), Committed(h))
        OBVIOUS
      <3>1. h = i \/ h < i
        BY <1>2, <1>8
      <3>2. Based(Committed(i), Committed(i))
        BY <1>8, <2>2, BasedFacts
      <3>3. h < i => Based(Committed(i), Committed(h))
        BY <2>2 DEF RInv, FileInv, HeadChain
      <3> QED BY <3>1, <3>2, <3>3
    <2>5. HeadsInv'
      <3>1. PICK c : c = Committed(i)
        OBVIOUS
      <3>2. \A h \in Heads : h < file_size + 2 => Based(c, Committed(h))
        BY <2>4, <3>1
      <3> QED BY <1>1, <1>3, <2>1, <3>1, <3>2 DEF HeadsInv, Committed, Based, Anc
    <2>6. CurInv'
      <3>1. i + 1 <= flushed /\ i < file_size + 2
        BY <1>2
      <3> QED BY <1>1, <1>3, <2>1, <2>2, <3>1 DEF CurInv, Committed
    <2> QED BY <1>3, <1>4, <1>5, <1>6, <2>3, <2>5, <2>6 DEF RInv, HandleInv
  <1>10. CASE file[i].kind = "d"
    <2>1. PICK n \in Nat :
            /\ n = file[i + 1].num
            /\ \A j \in file_size + 2 .. Len(file) :
                 j <= i + n => file[j].kind \in {"size", "node"}
      <3>1. i + 1 = file_size + 2
        BY <1>2
      <3> QED BY <1>1, <1>2, <1>10, <3>1, NextBlock
    <2>2. file_size' = i + n + 1 /\ cur' = cur /\ i + n + 1 <= Len(file)
      <3>1. file_size' = file_size + 2 + n /\ cur' = cur
        BY <1>2, <1>10, <2>1 DEF OpenBlock
      <3>2. file_size + 2 + n <= Len(file)
        BY <1>1, <1>2, <1>10, <2>1 DEF Torn
      <3> QED BY <1>2, <2>1, <3>1, <3>2
    <2>3. file[i + n + 1].kind = "root"
      <3>1. i + n + 1 \in i + 2 .. Len(file)
        <4>1. n > 0
          BY <1>2, <1>10, <2>1 DEF CellInPlace
        <4> QED BY <1>2, <2>1, <2>2, <4>1
      <3> QED BY <1>2, <1>10, <2>1, <3>1 DEF CellInPlace
    <2>4. ScanInv'
      BY <1>1, <2>2, <2>3 DEF ScanInv, Boundary
    <2>5. \A h \in Heads : h < i + n + 1 => h < file_size
      <3> SUFFICES ASSUME NEW h \in Heads, h < i + n + 1, h > file_size
                   PROVE  FALSE
        BY <1>2, <1>8
      <3>1. h \in 1 .. Len(file) /\ h \in Nat
        BY <1>2, HeadFacts
      <3>2. h = i \/ (h \in file_size + 2 .. Len(file) /\ h <= i + n)
        BY <1>2, <2>1, <3>1
      <3>3. file[h].kind \in {"d", "size", "node"}
        BY <1>10, <2>1, <3>2
      <3> QED BY <1>8, <3>3
    <2>6. HeadsInv'
      BY <1>1, <1>3, <1>7, <2>2, <2>5 DEF HeadsInv, Committed, Based, Anc
    <2>7. CurInv'
      <3> SUFFICES ASSUME cur # 0
                   PROVE  \E h \in Heads : h + 1 <= flushed /\ h < i + n + 1
                                          /\ Committed(h) = cur
        BY <1>1, <1>3, <2>2 DEF CurInv, Committed
      <3>1. PICK h \in Heads : h + 1 <= flushed /\ h < file_size /\ Committed(h) = cur
        BY <1>1 DEF RInv, HandleInv, CurInv
      <3> QED BY <1>2, <1>8, <2>1, <3>1
    <2> QED BY <1>3, <1>4, <1>5, <1>6, <2>4, <2>6, <2>7 DEF RInv, HandleInv
  <1> QED BY <1>2, <1>4, <1>9, <1>10

(* A block that is cut short holds no complete version, and no complete    *)
(* version block: cutting it off loses nothing.                            *)
LEMMA TornFacts ==
    ASSUME IInv, RInv, OpenTorn
    PROVE  /\ hist' = hist /\ Heads' = Heads
           /\ \A h \in Heads : h < file_size
  <1>1. mode = "opening" /\ file_size < Len(file) /\ Torn
    BY DEF OpenTorn
  <1>2. /\ file_size \in Nat /\ Len(file) \in Nat /\ file_size \notin Heads
        /\ file_size + 1 \in 1 .. Len(file)
        /\ At(file_size) = file[file_size + 1]
        /\ At(file_size + 1) = file[file_size + 2]
        /\ file[file_size + 1].kind \in {"v", "d"}
    BY <1>1, NextBlock
  <1>3. ASSUME NEW j \in file_size + 1 .. Len(file)
        PROVE  file[j].kind # "root" /\ (file[j].kind = "v" => j = Len(file))
    <2>1. CASE file_size + 1 = Len(file)
      BY <1>2, <2>1
    <2>2. CASE file_size + 1 < Len(file)
      <3>1. /\ file[file_size + 1].kind = "d"
            /\ file_size + 2 + file[file_size + 2].num > Len(file)
        BY <1>1, <1>2, <2>2 DEF Torn
      <3>2. PICK n \in Nat :
              /\ n = file[file_size + 2].num
              /\ \A k \in file_size + 2 .. Len(file) :
                   k <= file_size + 1 + n => file[k].kind \in {"size", "node"}
        BY <1>1, <2>2, <3>1, NextBlock
      <3>3. j = file_size + 1 \/ (j \in file_size + 2 .. Len(file) /\ j <= file_size + 1 + n)
        BY <1>2, <3>1, <3>2
      <3> QED BY <3>1, <3>2, <3>3
    <2> QED BY <1>2, <2>1, <2>2
  <1>4. \A h \in Heads : h < file_size
    <2> SUFFICES ASSUME NEW h \in Heads, h > file_size PROVE FALSE
      BY <1>2, HeadFacts
    <2>1. h \in file_size + 1 .. Len(file) /\ h < Len(file) /\ file[h].kind = "v"
      BY <1>2, HeadFacts
    <2> QED BY <1>3, <2>1
  <1>5. \A v \in DOMAIN hist : v < file_size
    <2> SUFFICES ASSUME NEW v \in DOMAIN hist, v >= file_size PROVE FALSE
      BY <1>2 DEF IInv, TypeOK
    <2>1. v \in Refs /\ v # 0
      BY DEF Refs, IInv, HistInv
    <2>2. v \in Nat /\ v < Len(file) /\ file[v + 1] = MkCell("root", hist[v].prev, hist[v].map)
      BY DEF IInv, TypeOK, HistInv
    <2>3. file[v + 1].kind = "root"
      BY <2>2 DEF MkCell
    <2>4. v + 1 \in file_size + 1 .. Len(file)
      BY <1>2, <2>2
    <2> QED BY <1>3, <2>3, <2>4
  <1>6. hist' = hist
    <2>1. hist' = [v \in {w \in DOMAIN hist : w < file_size} |-> hist[v]]
      BY DEF OpenTorn, HistUpTo
    <2>2. {w \in DOMAIN hist : w < file_size} = DOMAIN hist
      BY <1>5
    <2>3. hist = [v \in DOMAIN hist |-> hist[v]]
      BY DEF IInv, TypeOK
    <2> QED BY <2>1, <2>2, <2>3
  <1>7. Heads' = Heads
    <2>1. /\ file_size \in 0 .. Len(file)
          /\ file' = SubSeq(file, 1, file_size) /\ hist' = HistUpTo(file_size)
      BY <1>2 DEF OpenTorn
    <2>2. Heads' = {h \in Heads : h < file_size}
      BY <2>1, CutFacts
    <2> QED BY <1>4, <2>2
  <1> QED BY <1>4, <1>6, <1>7

(* So the scan that ends at such a block has recovered everything.         *)
LEMMA OpenTornKeepsR ==
    ASSUME IInv, RInv, OpenTorn
    PROVE  RInv'
  <1>1. /\ mode = "opening" /\ mode' = "open" /\ file_size < Len(file)
        /\ file' = SubSeq(file, 1, file_size) /\ flushed' = file_size
        /\ hist' = HistUpTo(file_size)
        /\ UNCHANGED <<file_size, cur, pc, loc, acked>>
    BY DEF OpenTorn
  <1>2. /\ file_size \in Nat /\ Len(file) \in Nat /\ file_size \in 0 .. Len(file)
        /\ Boundary(file_size) /\ cur \in Refs /\ flushed = Len(file)
    BY <1>1, NextBlock DEF RInv, HandleInv, ScanInv, IInv, RefInv, FlushedInv
  <1>3. /\ hist' = hist /\ Heads' = Heads
        /\ \A h \in Heads : h < file_size /\ h \in Nat
    BY TornFacts, HeadFacts
  <1>4. /\ Len(file') = file_size
        /\ \A i \in 1 .. file_size : file'[i] = file[i]
        /\ \A h \in Heads : Committed(h)' = Committed(h)
        /\ FileInv'
    BY <1>1, <1>2, <1>3, CutFacts, CutKeepsFile DEF RInv
  <1>5. /\ \A v : Anc(v)' = Anc(v)
        /\ \A v, w : Based(v, w)' <=> Based(v, w)
    BY <1>3 DEF Based, Anc
  <1>6. /\ CommitInv' /\ ArgsInv' /\ FlushedInv'
        /\ \A t \in Thread : ~InCommit(t)
    <2>1. \A t \in Thread : pc[t] = "idle" /\ pc'[t] = "idle"
      BY <1>1, ClosedIdle
    <2> QED BY <1>1, <1>2, <1>4, <2>1 DEF FlushedInv, CommitInv, InCommit, ArgsInv
  <1>7. ScanInv'
    BY <1>1, <1>2, <1>4 DEF ScanInv, Boundary
  <1>8. \A h \in Heads : Based(cur, Committed(h))
    BY <1>1, <1>3, <1>6 DEF RInv, HandleInv, HeadsInv
  <1>9. HeadsInv'
    <2> SUFFICES ASSUME NEW h \in Heads PROVE Based(cur, Committed(h))'
      BY <1>3 DEF HeadsInv
    <2>1. PICK c, d : c = cur /\ d = Committed(h)
      OBVIOUS
    <2>2. cur' = c /\ Committed(h)' = d /\ Based(c, d)'
      BY <1>1, <1>4, <1>5, <1>8, <2>1
    <2> QED BY <2>2 DEF Based, Anc
  <1>10. CurInv'
    <2> SUFFICES ASSUME cur # 0
                 PROVE  \E h \in Heads : h + 1 <= file_size /\ h < file_size
                                        /\ Committed(h) = cur
      BY <1>1, <1>3, <1>4 DEF CurInv
    <2>1. PICK h \in Heads : Committed(h) = cur
      BY <1>1 DEF RInv, HandleInv, CurInv
    <2> QED BY <1>2, <1>3, <2>1
  <1>11. AckedInv'
    <2> SUFFICES ASSUME ~PowerLoss, acked # 0
                 PROVE  /\ \E h \in Heads : h + 1 <= file_size /\ Based(Committed(h), acked)'
                        /\ Based(cur, acked)'
      BY <1>1, <1>3 DEF AckedInv
    <2>1. PICK h \in Heads : Based(Committed(h), acked)
      BY DEF RInv, HandleInv, AckedInv
    <2>2. Based(cur, Committed(h))
      BY <1>8
    <2>3. Based(cur, acked)
      BY <1>2, <2>1, <2>2, BasedTrans DEF RInv, FileInv
    <2>4. PICK c, d, a : c = cur /\ d = Committed(h) /\ a = acked
      OBVIOUS
    <2>5. /\ cur' = c /\ Committed(h)' = d /\ acked' = a
          /\ Based(c, a)' /\ Based(d, a)'
      BY <1>1, <1>4, <1>5, <2>1, <2>3, <2>4
    <2>6. Based(Committed(h), acked)' /\ Based(cur, acked)'
      BY <2>5 DEF Based, Anc
    <2> QED BY <1>2, <1>3, <2>6
  <1> QED BY <1>4, <1>6, <1>7, <1>9, <1>10, <1>11 DEF RInv, HandleInv

-----------------------------------------------------------------------------
(* No step leads out of RInv.                                              *)

(* An empty file says nothing, and nothing has been made of it.            *)
LEMMA InitRInv == Init => RInv
  <1> SUFFICES ASSUME Init PROVE RInv OBVIOUS
  <1> USE DEF Init
  <1>1. Len(file) = 0 /\ Heads = {}
    BY DEF Heads
  <1>2. BlocksInv /\ RootsInv /\ AncTrans /\ AncLeast /\ HeadChain
    BY <1>1 DEF BlocksInv, RootsInv, AncTrans, AncLeast, HeadChain
  <1>3. ScanInv /\ HeadsInv /\ CurInv /\ CommitInv /\ FlushedInv /\ AckedInv /\ ArgsInv
    BY <1>1 DEF ScanInv, HeadsInv, CurInv, CommitInv, InCommit, FlushedInv, AckedInv, ArgsInv
  <1> QED BY <1>2, <1>3 DEF RInv, FileInv, HandleInv

(* Calls and their steps belong to an open database.                       *)
LEMMA ThreadsNeedOpen ==
    ASSUME IInv, NEW t \in Thread, Invoke(t) \/ Step(t)
    PROVE  mode = "open"
  <1>1. CASE Invoke(t)
    BY <1>1 DEF Invoke, CallSet, CallDel, CallGet, CallCurrent, CallPrev,
                CallCommit, CallBased, CallAncestor, Call
  <1>2. CASE Step(t)
    <2>1. pc[t] # "idle"
      BY <1>2 DEF Step, SetLock, SetWrite, DelHas, DelLock, DelWrite, Get, Current,
                  Prev, WalkStep, WalkEnd, BasedReturn, CommitLock, CommitAbort,
                  CommitWrite, CommitFlush, CommitHead, JoinStep, JoinEnd,
                  JoinReturn, MergeAbort
    <2> QED BY <2>1, ThreadFacts
  <1> QED BY <1>1, <1>2

(* All of them together.                                                   *)
LEMMA NextKeepsR ==
    ASSUME IInv, RInv, [Next]_vars
    PROVE  RInv'
  <1>1. CASE UNCHANGED vars
    <2>1. /\ UNCHANGED <<mode, file, flushed, file_size, cur, pc, loc, hist, acked>>
      BY <1>1 DEF vars
    <2>2. FileInv' /\ Heads' = Heads
      BY <2>1, SameFile DEF RInv
    <2>3. ScanInv' /\ HeadsInv' /\ CurInv'
      BY <2>1, <2>2 DEF RInv, HandleInv, ScanInv, Boundary, HeadsInv, CurInv,
                        Committed, Based, Anc, InCommit
    <2>4. CommitInv' /\ FlushedInv' /\ ArgsInv'
      BY <2>1, <2>2 DEF RInv, HandleInv, CommitInv, InCommit, Committed, FlushedInv, ArgsInv
    <2>5. AckedInv'
      BY <2>1, <2>2 DEF RInv, HandleInv, AckedInv, Committed, Based, Anc
    <2> QED BY <2>2, <2>3, <2>4, <2>5 DEF RInv, HandleInv
  <1>2. ASSUME NEW t \in Thread, Invoke(t) PROVE RInv'
    BY <1>2, InvokeQuiet, QuietKeeps
  <1>3. ASSUME NEW t \in Thread, Step(t) PROVE RInv'
    <2>1. CASE SetWrite(t) \/ DelWrite(t)
      BY <2>1, DataKeeps
    <2>2. CASE CommitWrite(t)
      BY <2>2, VersionKeeps
    <2>3. CASE CommitHead(t)
      BY <2>3, CommitHeadKeeps
    <2>4. CASE MergeAbort(t)
      BY <2>4, CrashKeepsR
    <2>5. CASE ~(SetWrite(t) \/ DelWrite(t) \/ CommitWrite(t) \/ CommitHead(t)
                 \/ MergeAbort(t))
      BY <1>3, <2>5, StepQuiet, QuietKeeps DEF RInv, HandleInv
    <2> QED BY <2>1, <2>2, <2>3, <2>4, <2>5
  <1>4. CASE OpenStart \/ OpenEof \/ Close
    BY <1>4, CloseOpenKeep
  <1>5. CASE OpenBlock
    BY <1>5, OpenBlockKeepsR
  <1>6. CASE OpenTorn
    BY <1>6, OpenTornKeepsR
  <1>7. CASE Crash
    BY <1>7, CrashKeepsR
  <1> QED BY <1>1, <1>2, <1>3, <1>4, <1>5, <1>6, <1>7 DEF Next, Scan

(* The scan is the only step that could meet a block of unknown type.      *)
LEMMA NoErrorStep ==
    ASSUME IInv, RInv, [Next]_vars, NoUnknownBlock
    PROVE  NoUnknownBlock'
  <1>1. ASSUME NEW t \in Thread, Invoke(t) \/ Step(t)
        PROVE  mode' \in {mode, "closed"}
    <2>1. CASE Invoke(t)
      <3>1. PICK l, where : Quiet(t, l, where)
        BY <2>1, InvokeQuiet
      <3> QED BY <3>1 DEF Quiet
    <2>2. CASE SetWrite(t) \/ DelWrite(t) \/ CommitWrite(t) \/ CommitHead(t)
      BY <2>2 DEF SetWrite, DelWrite, WriteVersion, CommitWrite, CommitHead
    <2>3. CASE MergeAbort(t)
      BY <2>3 DEF MergeAbort, CrashAt
    <2>4. CASE /\ Step(t)
               /\ ~(SetWrite(t) \/ DelWrite(t) \/ CommitWrite(t) \/ CommitHead(t)
                    \/ MergeAbort(t))
      <3>1. PICK l, where : Quiet(t, l, where)
        BY <2>4, StepQuiet DEF RInv, HandleInv
      <3> QED BY <3>1 DEF Quiet
    <2> QED BY <1>1, <2>1, <2>2, <2>3, <2>4
  <1>2. CASE OpenBlock
    BY <1>2, OpenBlockKeepsR DEF NoUnknownBlock
  <1>3. CASE OpenStart \/ OpenTorn \/ OpenEof \/ Close \/ Crash \/ UNCHANGED vars
    BY <1>3 DEF OpenStart, OpenTorn, OpenEof, Close, Crash, CrashAt, vars, NoUnknownBlock
  <1> QED BY <1>1, <1>2, <1>3 DEF Next, Scan, NoUnknownBlock

-----------------------------------------------------------------------------
(* What the invariant says.                                                *)

(* The form of the file, what its version blocks commit and what the       *)
(* handle makes of them are kept by all threads, crashes and scans.        *)
THEOREM RInvInvariant == Spec => [](IInv /\ RInv)
  <1>1. Init => IInv /\ RInv
    BY InitIInv, InitRInv
  <1>2. (IInv /\ RInv) /\ [Next]_vars => (IInv /\ RInv)'
    <2> SUFFICES ASSUME IInv, RInv, [Next]_vars PROVE IInv' /\ RInv'
      OBVIOUS
    <2> QED BY NextKeeps, NextKeepsR
  <1> QED BY <1>1, <1>2, PTL DEF Spec

(* The recovery scan stays on block boundaries, whatever a crash or the    *)
(* loss of power left of the file: assert(0) in aodbm_open is not reached. *)
THEOREM ScanStaysOnBlocks == Spec => []NoUnknownBlock
  <1>1. Init => NoUnknownBlock
    BY DEF Init, NoUnknownBlock
  <1>2. (IInv /\ RInv) /\ NoUnknownBlock /\ [Next]_vars => NoUnknownBlock'
    <2> SUFFICES ASSUME IInv, RInv, NoUnknownBlock, [Next]_vars PROVE NoUnknownBlock'
      OBVIOUS
    <2> QED BY NoErrorStep
  <1> QED BY <1>1, <1>2, RInvInvariant, PTL DEF Spec

(* The scan truncates the block that was cut short and nothing else: every *)
(* version that is complete in the file is there when the database opens.  *)
THEOREM ScanLosesNothing == Spec => ScanKeepsVersions
  <1>1. ASSUME IInv, RInv, Next, mode = "opening", mode' = "open"
        PROVE  hist' = hist
    <2>1. \A t \in Thread : ~(Invoke(t) \/ Step(t))
      BY <1>1, ThreadsNeedOpen
    <2>2. ~(OpenStart \/ OpenBlock \/ Close \/ Crash)
      BY <1>1 DEF OpenStart, OpenBlock, Close, Crash, CrashAt
    <2>3. CASE OpenTorn
      BY <1>1, <2>3, TornFacts
    <2>4. CASE OpenEof
      BY <2>4 DEF OpenEof, ghost
    <2> QED BY <1>1, <2>1, <2>2, <2>3, <2>4 DEF Next, Scan
  <1>2. (IInv /\ RInv) /\ [Next]_vars
        => [mode = "opening" /\ mode' = "open" => hist' = hist]_vars
    BY <1>1
  <1> QED BY <1>2, RInvInvariant, PTL DEF Spec, ScanKeepsVersions

(* As long as only the process fails, and the kernel keeps what it was     *)
(* given, a commit that was reported survives every crash and recovery.    *)
THEOREM CommitsSurvive ==
    ASSUME ~PowerLoss
    PROVE  Spec => []CommittedSurvives
  <1>1. RInv => CommittedSurvives
    <2> SUFFICES ASSUME RInv, mode = "open", acked # 0
                 PROVE  cur # 0 /\ acked \in Anc(cur)
      BY DEF CommittedSurvives
    <2>1. Based(cur, acked)
      BY DEF RInv, HandleInv, AckedInv
    <2> QED BY <2>1 DEF Based, Anc
  <1> QED BY <1>1, RInvInvariant, PTL

-----------------------------------------------------------------------------
(* Part three: the history.                                                *)

-----------------------------------------------------------------------------
(* The least and the greatest of a set of numbers.                         *)

(* A set of numbers that is not empty has a least one.                     *)
LEMMA LeastNat ==
    ASSUME NEW T, T \subseteq Nat, T # {}
    PROVE  \E m \in T : \A n \in T : m <= n
  <1>1. PICK m \in T : \A n \in T : <<n, m>> \notin OpToRel(<, Nat)
    BY WFMin, NatLessThanWellFounded, Zenon
  <1>2. \A n \in T : ~(n < m)
    BY <1>1, Zenon DEF OpToRel
  <1>3. \A n \in T : n \in Nat /\ m \in Nat
    OBVIOUS
  <1>4. \A n \in T : m <= n
    BY <1>2, <1>3
  <1> QED BY <1>4

(* If it is bounded, it has a greatest one.                                *)
LEMMA GreatestNat ==
    ASSUME NEW T, T \subseteq Nat, T # {}, NEW b \in Nat, \A n \in T : n <= b
    PROVE  \E m \in T : \A n \in T : n <= m
  <1> DEFINE D == {b - n : n \in T}
  <1>1. \A n \in T : n \in Nat /\ b - n \in Nat
    OBVIOUS
  <1>2. D \subseteq Nat /\ D # {}
    BY <1>1
  <1> HIDE DEF D
  <1>3. PICK d \in D : \A e \in D : d <= e
    BY <1>2, LeastNat
  <1>4. PICK m \in T : d = b - m
    BY <1>3 DEF D
  <1>5. \A n \in T : b - m <= b - n
    BY <1>3, <1>4 DEF D
  <1>6. \A n \in T : n <= m
    BY <1>1, <1>5
  <1> QED BY <1>6

-----------------------------------------------------------------------------
(* The abstract state.                                                     *)

(* The abstract versions are the versions of the history, without their    *)
(* ancestors.                                                              *)
Vers == [v \in Roots |-> [prev |-> At(v).num, map |-> At(v).map]]

VersFromHist ==
    /\ Roots = DOMAIN hist /\ DOMAIN Vers = DOMAIN hist
    /\ Vers = [v \in DOMAIN hist |-> [prev |-> hist[v].prev, map |-> hist[v].map]]

(* This is what the invariant says of the roots in the file.               *)
LEMMA VersAre == IInv /\ RInv => VersFromHist
  <1> SUFFICES ASSUME IInv, RInv PROVE VersFromHist
    OBVIOUS
  <1>1. Len(file) \in Nat /\ DOMAIN hist \subseteq Nat
    BY DEF IInv, TypeOK
  <1>2. ASSUME NEW v \in DOMAIN hist
        PROVE  /\ v \in 0 .. Len(file) - 1 /\ At(v).kind = "root"
               /\ At(v).num = hist[v].prev /\ At(v).map = hist[v].map
    <2>1. v \in Nat /\ v < Len(file) /\ At(v) = MkCell("root", hist[v].prev, hist[v].map)
      BY <1>1 DEF IInv, HistInv, At
    <2> QED BY <1>1, <2>1 DEF MkCell
  <1>3. ASSUME NEW v \in 0 .. Len(file) - 1, At(v).kind = "root"
        PROVE  v \in DOMAIN hist
    <2>1. v + 1 \in 1 .. Len(file) /\ (v + 1) - 1 = v /\ file[v + 1].kind = "root"
      BY <1>1, <1>3 DEF At
    <2> QED BY <2>1 DEF RInv, FileInv, RootsInv
  <1>4. Roots = DOMAIN hist
    BY <1>2, <1>3 DEF Roots
  <1> QED BY <1>2, <1>4 DEF Vers, VersFromHist

(* Descent in the history is descent in the abstract versions.             *)
BasedIsDescent ==
    \A v \in Refs : \A h : Based(v, h) => History!DescendsFrom(Vers, v, h)

(* Ancestors are in every set that is closed under previous versions.      *)
LEMMA BasedDescends == IInv /\ RInv => BasedIsDescent
  <1> SUFFICES ASSUME IInv, RInv, NEW v \in Refs, NEW h, Based(v, h), h # 0
               PROVE  History!DescendsFrom(Vers, v, h)
    BY DEF BasedIsDescent, History!DescendsFrom
  <1>1. v # 0 /\ v \in DOMAIN hist /\ h \in hist[v].anc
    BY DEF Based, Anc, Refs
  <1>2. h \in DOMAIN hist
    BY <1>1 DEF IInv, HistInv
  <1>3. /\ DOMAIN Vers = DOMAIN hist
        /\ \A w \in DOMAIN hist : Vers[w].prev = hist[w].prev
    BY VersAre DEF VersFromHist
  <1>4. ASSUME NEW S \in SUBSET DOMAIN Vers, v \in S,
               \A w \in S : Vers[w].prev \in S \cup {0}
        PROVE  h \in S
    BY <1>1, <1>3, <1>4 DEF RInv, FileInv, AncLeast, ClosedUnderPrev
  <1> QED BY <1>1, <1>2, <1>3, <1>4 DEF History!DescendsFrom

(* The version the version blocks of the file make the head: one of them   *)
(* commits it, and it descends from all the others commit.                 *)
IsFileHead(h) ==
    /\ h \in Refs
    /\ \A i \in Heads : Based(h, Committed(i))
    /\ h = 0 \/ \E i \in Heads : h = Committed(i)

(* There is only one.                                                      *)
LEMMA FileHeadUnique ==
    ASSUME IInv, NEW g, NEW h, IsFileHead(g), IsFileHead(h)
    PROVE  g = h
  <1>1. \A v : Based(0, v) => v = 0
    BY DEF Based, Anc
  <1>2. g \in Refs /\ h \in Refs /\ Based(g, 0) /\ Based(h, 0)
    BY DEF IsFileHead, Based
  <1>3. Based(g, h) /\ Based(h, g)
    BY <1>2 DEF IsFileHead
  <1> QED BY <1>2, <1>3, BasedAntisym

(* While the database is not open, it is the abstract head: the last       *)
(* version block is the one that commits it.                               *)
LEMMA ClosedHead ==
    IInv /\ RInv /\ mode # "open" => IsFileHead(FileHead)
  <1> SUFFICES ASSUME IInv, RInv, mode # "open" PROVE IsFileHead(FileHead)
    OBVIOUS
  <1>1. CASE Heads = {}
    BY <1>1 DEF FileHead, IsFileHead, Refs
  <1>2. CASE Heads # {}
    <2>1. \E i \in Heads : \A j \in Heads : j <= i
      <3>1. Len(file) \in Nat /\ Heads \subseteq Nat /\ \A i \in Heads : i <= Len(file)
        BY HeadFacts DEF IInv, TypeOK
      <3> QED BY <1>2, <3>1, GreatestNat
    <2>2. PICK i \in Heads : \A j \in Heads : j <= i
      BY <2>1
    <2>3. FileHead = Committed(i)
      <3>1. \A h \in Heads : (\A j \in Heads : j <= h) => h = i
        <4>1. \A h \in Heads : h \in Nat
          BY HeadFacts
        <4> QED BY <2>2, <4>1
      <3>2. (CHOOSE h \in Heads : \A j \in Heads : j <= h) = i
        BY <2>2, <3>1, Zenon
      <3>3. FileHead = file[1 + i].num
        BY <1>2, <3>2, Zenon DEF FileHead
      <3>4. 1 + i = i + 1
        BY HeadFacts
      <3> QED BY <3>3, <3>4 DEF Committed
    <2>4. ASSUME NEW j \in Heads
          PROVE  Based(Committed(i), Committed(j))
      <3>1. j = i \/ j < i
        BY <2>2, HeadFacts
      <3>2. Based(Committed(i), Committed(i))
        BY HeadFacts, BasedFacts
      <3>3. j < i => Based(Committed(i), Committed(j))
        BY DEF RInv, FileInv, HeadChain
      <3> QED BY <3>1, <3>2, <3>3
    <2>5. Committed(i) \in Refs
      BY HeadFacts
    <2> QED BY <2>3, <2>4, <2>5 DEF IsFileHead
  <1> QED BY <1>1, <1>2

(* While no commit is under way and the handle knows the whole file, it is *)
(* the head of the handle.                                                 *)
LEMMA HandleHead ==
    ASSUME IInv, RInv, mode \in {"opening", "open"},
           \A t \in Thread : pc[t] = "idle", \A i \in Heads : i < file_size
    PROVE  IsFileHead(cur)
  <1>1. cur \in Refs
    BY DEF IInv, RefInv
  <1>2. \A i \in Heads : Based(cur, Committed(i))
    BY DEF RInv, HandleInv, HeadsInv, InCommit
  <1>3. cur = 0 \/ \E i \in Heads : cur = Committed(i)
    BY DEF RInv, HandleInv, CurInv
  <1> QED BY <1>1, <1>2, <1>3 DEF IsFileHead

-----------------------------------------------------------------------------
(* The steps.                                                              *)

(* Most steps leave the abstract state alone: the file as it is, and the   *)
(* head while the database is open.                                        *)
LEMMA SameAbstract ==
    ASSUME UNCHANGED file,
           UNCHANGED <<mode, cur>> \/ (mode # "open" /\ mode' # "open")
    PROVE  UNCHANGED <<mode = "open", Vers, FileHead>>
  <1>1. Heads' = Heads
    BY DEF Heads
  <1>2. Vers' = Vers
    BY DEF Vers, Roots, At
  <1>3. FileHead' = FileHead
    <2> DEFINE last(H) == CHOOSE i \in H : \A j \in H : j <= i
    <2>1. FileHead = IF mode = "open" THEN cur
                     ELSE IF Heads = {} THEN 0 ELSE file[1 + last(Heads)].num
      BY Zenon DEF FileHead
    <2>2. FileHead' = IF mode' = "open" THEN cur'
                      ELSE IF Heads' = {} THEN 0 ELSE file'[1 + last(Heads')].num
      BY Zenon DEF FileHead
    <2> HIDE DEF last
    <2> QED BY <1>1, <2>1, <2>2
  <1> QED BY <1>2, <1>3

(* aodbm_set and aodbm_del make a version.                                 *)
LEMMA DataMakes ==
    ASSUME IInv, RInv, IInv', RInv', NEW t \in Thread, SetWrite(t) \/ DelWrite(t)
    PROVE  History!Make
  <1>1. PICK n \in Nat, ver \in Refs, m \in Map, v \in Nat : DataWritten(t, n, ver, m, v)
    BY DataAppended
  <1>2. /\ mode = "open" /\ mode' = "open" /\ cur' = cur
        /\ v = Len(file) + 2 + n /\ Len(file) \in Nat
        /\ DOMAIN hist' = DOMAIN hist \cup {v} /\ v \notin DOMAIN hist
        /\ \A w \in DOMAIN hist : hist'[w] = hist[w] /\ w < Len(file)
        /\ hist'[v] = [prev |-> ver, map |-> m, anc |-> Anc(ver) \cup {v}]
        /\ pc[t] \in {"set_write", "del_write"}
    BY <1>1 DEF DataWritten
  <1>3. PICK x \in Value \cup {NULL} : m = [HistMap(ver) EXCEPT ![loc[t].key] = x]
    BY <1>1 DEF DataWritten
  <1>4. PICK k \in Key : k = loc[t].key
    BY <1>2 DEF RInv, HandleInv, ArgsInv
  <1>5. /\ DOMAIN Vers = DOMAIN hist
        /\ Vers = [w \in DOMAIN hist |-> [prev |-> hist[w].prev, map |-> hist[w].map]]
    BY VersAre DEF VersFromHist
  <1>6. Vers' = [w \in DOMAIN hist' |-> [prev |-> hist'[w].prev, map |-> hist'[w].map]]
    <2>1. VersFromHist'
      BY VersAre, PTL
    <2> QED BY <2>1 DEF VersFromHist
  <1>7. History!MapOf(ver) = HistMap(ver)
    BY <1>5 DEF History!MapOf, HistMap, EmptyMap, Refs, Vers
  <1>8. \A w \in Refs : w \in Nat /\ w < v
    BY <1>2, RefsType DEF Refs
  <1>9. Vers' = [w \in DOMAIN Vers \cup {v} |->
                  IF w = v
                  THEN [prev |-> ver, map |-> [History!MapOf(ver) EXCEPT ![k] = x]]
                  ELSE Vers[w]]
    BY <1>2, <1>3, <1>4, <1>5, <1>6, <1>7
  <1>10. FileHead' = cur' /\ FileHead = cur
    BY <1>2, Zenon DEF FileHead
  <1>11. History!Versions = Refs
    BY <1>5 DEF History!Versions, Refs, Vers
  <1>12. v \in DOMAIN Vers'
    BY <1>9
  <1>13. \E p \in History!Versions, q \in Key, y \in Value \cup {NULL} :
           \E w \in DOMAIN Vers' :
             /\ \A u \in History!Versions : u < w
             /\ Vers' = [u \in DOMAIN Vers \cup {w} |->
                           IF u = w
                           THEN [prev |-> p, map |-> [History!MapOf(p) EXCEPT ![q] = y]]
                           ELSE Vers[u]]
    BY <1>8, <1>9, <1>11, <1>12
  <1> QED BY <1>2, <1>10, <1>13 DEF History!Make, Vers

(* The end of a commit makes its version the head.                         *)
LEMMA HeadCommits ==
    ASSUME IInv, RInv, NEW t \in Thread, CommitHead(t)
    PROVE  History!Commit
  <1>1. PICK ver : ver = loc[t].ver
    OBVIOUS
  <1>2. /\ pc[t] = "commit_head" /\ cur' = ver
        /\ UNCHANGED <<mode, file, hist>>
    BY <1>1 DEF CommitHead
  <1>3. mode = "open" /\ ver \in Refs
    BY <1>1, <1>2, ThreadFacts
  <1>4. Based(ver, cur)
    <2>1. Committing(t) /\ LoopKeeps(t)
      BY <1>2, OneCommit, ThreadFacts DEF InCommit, ThreadInv
    <2> QED BY <1>1, <1>2, <2>1 DEF LoopKeeps, Based
  <1>5. FileHead' = ver /\ FileHead = cur
    BY <1>2, <1>3, Zenon DEF FileHead
  <1>6. History!Versions = Refs
    BY VersAre DEF VersFromHist, History!Versions, Refs, Vers
  <1>7. Vers' = Vers
    BY <1>2 DEF Vers, Roots, At
  <1>8. History!DescendsFrom(Vers, FileHead', FileHead)
    <2>1. History!DescendsFrom(Vers, ver, cur)
      BY <1>3, <1>4, BasedDescends DEF BasedIsDescent
    <2> QED BY <1>5, <2>1
  <1>9. FileHead' \in History!Versions
    BY <1>3, <1>5, <1>6
  <1> QED BY <1>2, <1>3, <1>7, <1>8, <1>9 DEF History!Commit, Vers

(* The crash of an open database: a version block in the kernel, and what  *)
(* is before it, stays; one that stdio has handed over may stay, too.      *)
LEMMA CrashLoses ==
    ASSUME IInv, RInv, IInv', RInv', mode = "open",
           NEW k \in flushed .. Len(file), CrashAt(k)
    PROVE  History!Lose
  <1>1. /\ flushed \in Nat /\ Len(file) \in Nat /\ flushed <= Len(file)
        /\ k \in Nat /\ flushed <= k /\ k <= Len(file) /\ k \in 0 .. Len(file)
    BY DEF IInv, TypeOK, RInv, HandleInv, FlushedInv
  <1>2. /\ mode' = "closed" /\ file' = SubSeq(file, 1, k) /\ hist' = HistUpTo(k)
    BY DEF CrashAt
  <1>3. /\ DOMAIN hist' = {w \in DOMAIN hist : w < k}
        /\ \A w \in DOMAIN hist' : hist'[w] = hist[w]
        /\ Heads' = {i \in Heads : i < k}
        /\ \A i \in Heads' : Committed(i)' = Committed(i)
    BY <1>1, <1>2, CutFacts
  <1>4. /\ DOMAIN Vers = DOMAIN hist
        /\ Vers = [w \in DOMAIN hist |-> [prev |-> hist[w].prev, map |-> hist[w].map]]
    BY VersAre DEF VersFromHist
  <1>5. /\ DOMAIN Vers' = DOMAIN hist'
        /\ Vers' = [w \in DOMAIN hist' |-> [prev |-> hist'[w].prev, map |-> hist'[w].map]]
    <2>1. VersFromHist'
      BY VersAre, PTL
    <2> QED BY <2>1 DEF VersFromHist
  <1>6. Vers' = [v \in DOMAIN Vers' |-> Vers[v]]
    BY <1>3, <1>4, <1>5
  <1>7. \A v \in DOMAIN Vers' : Vers[v].prev \in DOMAIN Vers' \cup {0}
    <2> SUFFICES ASSUME NEW v \in DOMAIN hist'
                 PROVE  Vers[v].prev \in DOMAIN hist' \cup {0}
      BY <1>5
    <2>1. v \in DOMAIN hist /\ v < k /\ v \in Nat
      BY <1>3 DEF IInv, TypeOK
    <2>2. hist[v].prev \in Refs /\ hist[v].prev < v /\ hist[v].prev \in Nat
      BY <2>1, RefsType DEF IInv, HistInv
    <2> QED BY <1>1, <1>3, <1>4, <2>1, <2>2 DEF Refs
  <1>8. IsFileHead(FileHead)'
    <2>1. (IInv /\ RInv /\ mode # "open" => IsFileHead(FileHead))'
      BY ClosedHead, PTL
    <2> QED BY <1>2, <2>1
  <1>9. PICK h : h = FileHead'
    OBVIOUS
  <1>10. h \in Refs' /\ Based(h, cur)'
    <2>1. h \in Refs' /\ \A i \in Heads' : Based(h, Committed(i))'
      BY <1>8, <1>9 DEF IsFileHead, Based, Anc
    <2>2. CASE cur = 0
      BY <2>1, <2>2 DEF CrashAt, Based
    <2>3. CASE cur # 0
      <3>1. PICK i \in Heads : i + 1 <= flushed /\ Committed(i) = cur
        BY <2>3 DEF RInv, HandleInv, CurInv
      <3>2. i \in Heads'
        BY <1>1, <1>3, <3>1, HeadFacts
      <3>3. Committed(i)' = cur /\ cur' = cur
        BY <1>3, <3>1, <3>2 DEF CrashAt
      <3>4. Based(h, Committed(i))'
        BY <2>1, <3>2
      <3> QED BY <2>1, <3>3, <3>4 DEF Based, Anc
    <2> QED BY <2>2, <2>3
  <1>11. History!DescendsFrom(Vers', FileHead', FileHead)
    <2>1. PICK c : c = cur
      OBVIOUS
    <2>2. cur' = c /\ FileHead = c
      BY <2>1, Zenon DEF CrashAt, FileHead
    <2>3. Based(h, c)'
      BY <1>10, <2>2 DEF Based, Anc
    <2>4. BasedIsDescent'
      BY BasedDescends, PTL
    <2>5. History!DescendsFrom(Vers, h, c)'
      BY <1>10, <2>3, <2>4 DEF BasedIsDescent
    <2> QED BY <1>9, <2>2, <2>5
  <1>12. FileHead' \in DOMAIN Vers' \cup {0}
    BY <1>5, <1>9, <1>10 DEF Refs
  <1>13. DOMAIN Vers' \subseteq DOMAIN Vers
    BY <1>3, <1>4, <1>5
  <1> QED BY <1>2, <1>6, <1>7, <1>11, <1>12, <1>13 DEF History!Lose, Vers

(* Closing the database, and the two ways the scan ends.                   *)
LEMMA OpensAndCloses ==
    ASSUME IInv, RInv, IInv', RInv', Close \/ OpenTorn \/ OpenEof
    PROVE  History!Close \/ History!Open
  <1>1. /\ \A t \in Thread : pc[t] = "idle"
        /\ mode \in {"opening", "open"}
    BY ClosedIdle DEF Close, OpenTorn, OpenEof
  <1>2. \A h \in Heads : h < file_size
    <2>1. CASE OpenTorn
      BY <2>1, TornFacts
    <2>2. CASE Close \/ OpenEof
      <3>1. file_size = Len(file)
        BY <2>2 DEF Close, OpenEof, IInv, TypeOK, SizeInv
      <3> QED BY <3>1, HeadFacts
    <2> QED BY <2>1, <2>2
  <1>3. IsFileHead(cur) /\ cur' = cur
    BY <1>1, <1>2, HandleHead DEF Close, OpenTorn, OpenEof
  <1>4. hist' = hist
    BY TornFacts DEF Close, OpenTorn, OpenEof, ghost
  <1>5. Vers' = Vers
    <2>1. VersFromHist /\ VersFromHist'
      BY VersAre, PTL
    <2> QED BY <1>4, <2>1 DEF VersFromHist
  <1>6. CASE Close
    <2>1. mode = "open" /\ mode' # "open" /\ file' = file
      BY <1>6 DEF Close
    <2>2. IsFileHead(FileHead)'
      <3>1. (IInv /\ RInv /\ mode # "open" => IsFileHead(FileHead))'
        BY ClosedHead, PTL
      <3> QED BY <2>1, <3>1
    <2>3. Heads' = Heads /\ Refs' = Refs
      BY <1>4, <2>1 DEF Heads, Refs
    <2>4. PICK h : h = FileHead'
      OBVIOUS
    <2>5. IsFileHead(h)
      BY <1>4, <2>1, <2>2, <2>3, <2>4 DEF IsFileHead, Committed, Based, Anc
    <2>6. h = cur
      BY <1>3, <2>5, FileHeadUnique
    <2>7. FileHead = cur
      BY <2>1, Zenon DEF FileHead
    <2> QED BY <1>5, <2>1, <2>4, <2>6, <2>7 DEF History!Close, Vers
  <1>7. CASE OpenTorn \/ OpenEof
    <2>1. mode # "open" /\ mode' = "open"
      BY <1>7 DEF OpenTorn, OpenEof
    <2>2. FileHead = cur
      BY <1>3, <2>1, ClosedHead, FileHeadUnique
    <2>3. FileHead' = cur'
      BY <2>1, Zenon DEF FileHead
    <2> QED BY <1>3, <1>5, <2>1, <2>2, <2>3 DEF History!Open, Vers
  <1> QED BY <1>6, <1>7

(* The crash of an opening database loses nothing more.                    *)
LEMMA CrashOfOpening ==
    ASSUME IInv, RInv, mode = "opening", NEW k \in flushed .. Len(file), CrashAt(k)
    PROVE  file' = file /\ mode' # "open"
  <1>1. /\ file \in Seq(Cell) /\ Len(file) \in Nat /\ k = Len(file)
    BY DEF IInv, TypeOK, RInv, HandleInv, FlushedInv
  <1>2. SubSeq(file, 1, Len(file)) = file
    BY <1>1
  <1> QED BY <1>1, <1>2 DEF CrashAt

(* Every step of the database is a step of the abstract history, or leaves *)
(* it alone.                                                               *)
LEMMA StepImplements ==
    ASSUME ~PowerLoss, IInv, RInv, IInv', RInv', [Next]_vars
    PROVE  [History!HNext]_(History!hvars)
  <1> DEFINE Same == UNCHANGED <<mode = "open", Vers, FileHead>>
  <1> SUFFICES History!HNext \/ Same
    BY DEF History!hvars, Vers
  <1> USE DEF History!HNext
  <1>1. CASE UNCHANGED vars
    BY <1>1, SameAbstract DEF vars
  <1>2. ASSUME NEW t \in Thread, Invoke(t) PROVE Same
    <2>1. PICK l, where : Quiet(t, l, where)
      BY <1>2, InvokeQuiet
    <2> QED BY <2>1, SameAbstract DEF Quiet
  <1>3. ASSUME NEW t \in Thread, Step(t) PROVE History!HNext \/ Same
    <2>1. CASE SetWrite(t) \/ DelWrite(t)
      BY <2>1, DataMakes
    <2>2. CASE CommitWrite(t)
      <3>1. mode = "open" /\ UNCHANGED <<mode, cur, hist>>
        BY <2>2, VersionAppended
      <3>2. Vers' = Vers
        <4>1. VersFromHist /\ VersFromHist'
          BY VersAre, PTL
        <4> QED BY <3>1, <4>1 DEF VersFromHist
      <3>3. FileHead' = cur' /\ FileHead = cur
        BY <3>1, Zenon DEF FileHead
      <3> QED BY <3>1, <3>2, <3>3
    <2>3. CASE CommitHead(t)
      BY <2>3, HeadCommits
    <2>4. CASE MergeAbort(t)
      <3>1. PICK k \in flushed .. Len(file) : CrashAt(k)
        BY <2>4 DEF MergeAbort
      <3>2. mode = "open"
        BY <1>3, ThreadsNeedOpen
      <3> QED BY <3>1, <3>2, CrashLoses
    <2>5. CASE ~(SetWrite(t) \/ DelWrite(t) \/ CommitWrite(t) \/ CommitHead(t)
                 \/ MergeAbort(t))
      <3>1. PICK l, where : Quiet(t, l, where)
        BY <1>3, <2>5, StepQuiet DEF RInv, HandleInv
      <3> QED BY <3>1, SameAbstract DEF Quiet
    <2> QED BY <2>1, <2>2, <2>3, <2>4, <2>5
  <1>4. CASE Close \/ OpenTorn \/ OpenEof
    BY <1>4, OpensAndCloses
  <1>5. CASE OpenStart
    BY <1>5, SameAbstract DEF OpenStart
  <1>6. CASE OpenBlock
    BY <1>6, OpenBlockKeepsR, SameAbstract DEF OpenBlock
  <1>7. CASE Crash
    <2>1. PICK k \in flushed .. Len(file) : CrashAt(k)
      BY <1>7 DEF Crash
    <2>2. CASE mode = "open"
      BY <2>1, <2>2, CrashLoses
    <2>3. CASE mode = "opening"
      BY <2>1, <2>3, CrashOfOpening, SameAbstract
    <2> QED BY <1>7, <2>2, <2>3 DEF Crash
  <1> QED BY <1>1, <1>2, <1>3, <1>4, <1>5, <1>6, <1>7 DEF Next, Scan

(* The empty file is the empty history.                                    *)
LEMMA InitImplements == Init => History!HInit
  <1> SUFFICES ASSUME Init PROVE History!HInit
    OBVIOUS
  <1>1. Len(file) = 0 /\ mode = "closed"
    BY DEF Init
  <1>2. Roots = {} /\ Heads = {}
    BY <1>1 DEF Roots, Heads
  <1>3. FileHead = 0
    BY <1>1, <1>2, Zenon DEF FileHead
  <1>4. [v \in Roots |-> [prev |-> At(v).num, map |-> At(v).map]] = [v \in {} |-> 0]
    BY <1>2
  <1> QED BY <1>1, <1>3, <1>4 DEF History!HInit

(* The whole database implements the abstract history of versions, as long *)
(* as only the process fails: every interleaving of the threads, every     *)
(* crash and every recovery is a behaviour of VersionHistory.              *)
THEOREM ImplementsTheHistory ==
    ASSUME ~PowerLoss
    PROVE  Spec => ImplementsHistory
  <1>1. (IInv /\ RInv) /\ (IInv /\ RInv)' /\ [Next]_vars
        => [History!HNext]_(History!hvars)
    BY StepImplements
  <1> QED
    BY <1>1, InitImplements, RInvInvariant, PTL
       DEF Spec, ImplementsHistory, History!HSpec
=============================================================================
