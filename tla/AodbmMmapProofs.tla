---------------------------- MODULE AodbmMmapProofs ----------------------------
(***************************************************************************)
(* Proofs about aodbm_read with a mapping, for any number of threads, any  *)
(* page and buffer size and files of any size: a copy stays inside the     *)
(* mapping, which no other thread moves meanwhile, and what was committed  *)
(* is read as it was written.                                              *)
(***************************************************************************)
EXTENDS AodbmMmap, TLAPS

Places == {"idle", "rdlock", "check", "size", "direct", "wrlock", "map",
           "rdagain", "copy"}

(* The types that MmapTypeOK takes for granted.                            *)
Types ==
    /\ reading \subseteq Thread \X Slot
    /\ writer \in Thread \cup {NULL} /\ waiting \subseteq Thread
    /\ file_size \in Nat /\ kernel \in Nat /\ mapping_size \in Nat
    /\ known \in Nat /\ committed \in Nat
    /\ rw \in Thread \cup {NULL}
    /\ pc \in [Thread -> Places] /\ cell \in [Thread -> Nat]
    /\ new_size \in [Thread -> Int] /\ right \in [Thread -> BOOLEAN]

(* Where a thread is says which lock it holds, and what it has compared    *)
(* the cell it reads with: new_size was worked out to be beyond it, and a  *)
(* mapping that was made or found to be larger is never made smaller.      *)
ThreadOK(t) ==
    /\ HoldsRead(t) <=> pc[t] \in {"check", "size", "copy"}
    /\ writer = t <=> pc[t] = "map"
    /\ pc[t] # "idle" => cell[t] < known
    /\ new_size[t] \in {Huge} \cup 0..file_size
    /\ pc[t] \in {"wrlock", "map"} => new_size[t] = Huge \/ cell[t] < new_size[t]
    /\ pc[t] \in {"rdagain", "copy"} => cell[t] < mapping_size

(* mmap_mut excludes; what was committed has left the stdio buffer; every  *)
(* block is known unless its call still holds rw.                          *)
SharedOK ==
    /\ writer # NULL => reading = {}
    /\ waiting \subseteq {t \in Thread : pc[t] = "wrlock"}
    /\ committed <= kernel /\ committed <= known /\ known <= file_size
    /\ kernel <= file_size /\ mapping_size <= file_size
    /\ rw = NULL <=> phase = "none"
    /\ rw = NULL => known = file_size

MmapInv == Types /\ SharedOK /\ \A t \in Thread : ThreadOK(t)

-----------------------------------------------------------------------------
(* The size of a mapping is that of the file at most, or it is Huge.       *)
LEMMA SizeOfRange ==
    ASSUME NEW n \in Nat, NEW total \in {Huge} \cup 0..n, NEW rest \in Int
    PROVE  SizeOf(total, rest) \in {Huge} \cup 0..n
  <1>1. PageSize \in Nat /\ PageSize > 0
    BY MmapAssumption
  <1>2. rest % PageSize \in 0..PageSize - 1
    BY <1>1
  <1> QED BY <1>2 DEF SizeOf, Huge

(* The full pages of a file are a mapping of it.                           *)
LEMMA FullPages ==
    ASSUME NEW n \in Nat
    PROVE  SizeOf(n, n) \in 0..n
  <1>1. PageSize \in Nat /\ PageSize > 0
    BY MmapAssumption
  <1>2. n % PageSize \in 0..PageSize - 1 /\ n % PageSize <= n
    BY <1>1
  <1> QED BY <1>2 DEF SizeOf, Huge

(* Taking the read lock, which no thread takes twice.                      *)
LEMMA ReadTaken ==
    ASSUME Types, NEW t \in Thread, AcquireRead(t)
    PROVE  /\ writer = NULL /\ writer' = NULL /\ waiting' = waiting
           /\ reading' \subseteq Thread \X Slot
           /\ HoldsRead(t)' /\ \A u \in Thread \ {t} : HoldsRead(u)' <=> HoldsRead(u)
  <1>1. PICK s \in Slot : reading' = reading \cup {<<t, s>>}
    BY DEF AcquireRead
  <1>2. writer = NULL /\ writer' = NULL /\ waiting' = waiting
    BY DEF AcquireRead
  <1>3. reading' \subseteq Thread \X Slot
    BY <1>1 DEF Types
  <1>4. HoldsRead(t)'
    BY <1>1 DEF HoldsRead
  <1>5. ASSUME NEW u \in Thread \ {t}
        PROVE  HoldsRead(u)' <=> HoldsRead(u)
    <2>1. \A r \in Slot : <<u, r>> # <<t, s>>
      OBVIOUS
    <2> QED BY <1>1, <2>1 DEF HoldsRead
  <1> QED BY <1>2, <1>3, <1>4, <1>5

(* Giving it up.                                                           *)
LEMMA ReadGivenUp ==
    ASSUME Types, NEW t \in Thread, ReleaseRead(t)
    PROVE  /\ UNCHANGED <<writer, waiting>>
           /\ reading' \subseteq reading
           /\ ~HoldsRead(t)' /\ \A u \in Thread \ {t} : HoldsRead(u)' <=> HoldsRead(u)
  <1>1. PICK s : Slot = {s}
    BY MmapAssumption
  <1>2. reading' = reading \ {<<t, s>>} /\ UNCHANGED <<writer, waiting>>
    BY <1>1 DEF ReleaseRead
  <1>3. \A u : /\ HoldsRead(u) <=> <<u, s>> \in reading
               /\ HoldsRead(u)' <=> <<u, s>> \in reading'
    BY <1>1 DEF HoldsRead
  <1>4. \A u \in Thread \ {t} : <<u, s>> # <<t, s>>
    OBVIOUS
  <1> QED BY <1>2, <1>3, <1>4

(* Going to another place.                                                 *)
LEMMA GotoFacts ==
    ASSUME Types, NEW t \in Thread, NEW l \in Places, Goto(t, l)
    PROVE  /\ pc' \in [Thread -> Places] /\ pc'[t] = l
           /\ \A u \in Thread \ {t} : pc'[u] = pc[u]
  BY DEF Types, Goto

(* What a thread knows outlasts the steps of others: the file grows, and   *)
(* the mapping does so while anyone may read from it.                      *)
LEMMA Outlasts ==
    ASSUME Types, Types', NEW t \in Thread, ThreadOK(t),
           pc'[t] = pc[t], cell'[t] = cell[t], new_size'[t] = new_size[t],
           HoldsRead(t)' <=> HoldsRead(t), writer' = t <=> writer = t,
           known <= known', file_size <= file_size',
           mapping_size <= mapping_size' \/ pc[t] = "idle"
    PROVE  ThreadOK(t)'
  <1>1. /\ cell[t] \in Nat /\ known \in Nat /\ known' \in Nat
        /\ file_size \in Nat /\ file_size' \in Nat
        /\ mapping_size \in Nat /\ mapping_size' \in Nat
        /\ new_size[t] \in Int
    BY DEF Types
  <1> QED BY <1>1 DEF ThreadOK, Huge

-----------------------------------------------------------------------------
(* The steps of aodbm_read.                                                *)

(* A read begins with a cell of a block that is known.                     *)
LEMMA ReadKeeps ==
    ASSUME MmapInv, NEW t \in Thread, Read(t)
    PROVE  MmapInv'
  <1>1. PICK c \in 0..known - 1 : cell' = [cell EXCEPT ![t] = c]
    BY DEF Read
  <1>2. /\ pc[t] = "idle" /\ Goto(t, "rdlock") /\ right' = [right EXCEPT ![t] = TRUE]
        /\ UNCHANGED <<reading, writer, waiting, mapping_size, new_size>>
        /\ UNCHANGED <<file_size, kernel, rw, phase, known, committed>>
    BY DEF Read, lockVars, fileVars
  <1>3. /\ pc' \in [Thread -> Places] /\ pc'[t] = "rdlock"
        /\ \A u \in Thread \ {t} : pc'[u] = pc[u] /\ cell'[u] = cell[u]
    BY <1>1, <1>2, GotoFacts DEF MmapInv, Types, Places
  <1>4. Types'
    <2>1. c \in Nat
      BY DEF MmapInv, Types
    <2>2. cell' \in [Thread -> Nat]
      BY <1>1, <2>1 DEF MmapInv, Types
    <2>3. right' \in [Thread -> BOOLEAN]
      BY <1>2 DEF MmapInv, Types
    <2> QED BY <1>2, <1>3, <2>2, <2>3 DEF MmapInv, Types
  <1>5. SharedOK'
    BY <1>2, <1>3 DEF MmapInv, SharedOK
  <1>6. \A u \in Thread : HoldsRead(u)' <=> HoldsRead(u)
    BY <1>2 DEF HoldsRead
  <1>7. ThreadOK(t)'
    <2>1. ThreadOK(t)
      BY DEF MmapInv
    <2>2. cell'[t] = c /\ c < known
      BY <1>1 DEF MmapInv, Types
    <2> QED BY <1>2, <1>3, <1>6, <2>1, <2>2 DEF ThreadOK
  <1>8. ASSUME NEW u \in Thread \ {t} PROVE ThreadOK(u)'
    BY <1>2, <1>3, <1>4, <1>6, Outlasts DEF MmapInv, Types
  <1> QED BY <1>4, <1>5, <1>7, <1>8 DEF MmapInv

(* Taking the read lock, the first time and again.                         *)
LEMMA RdLocksKeep ==
    ASSUME MmapInv, NEW t \in Thread, RdLock(t) \/ RdLockAgain(t)
    PROVE  MmapInv'
  <1>1. PICK l \in {"check", "copy"} :
          /\ Goto(t, l) /\ AcquireRead(t)
          /\ UNCHANGED <<cell, new_size, right, mapping_size>>
          /\ UNCHANGED <<file_size, kernel, rw, phase, known, committed>>
          /\ pc[t] = IF l = "check" THEN "rdlock" ELSE "rdagain"
    BY DEF RdLock, RdLockAgain, readVars, fileVars
  <1>2. /\ writer = NULL /\ writer' = NULL /\ waiting' = waiting
        /\ reading' \subseteq Thread \X Slot
        /\ HoldsRead(t)' /\ \A u \in Thread \ {t} : HoldsRead(u)' <=> HoldsRead(u)
    BY <1>1, ReadTaken DEF MmapInv
  <1>3. /\ pc' \in [Thread -> Places] /\ pc'[t] = l
        /\ \A u \in Thread \ {t} : pc'[u] = pc[u]
    BY <1>1, GotoFacts DEF MmapInv, Places
  <1>4. Types'
    BY <1>1, <1>2, <1>3 DEF MmapInv, Types
  <1>5. SharedOK'
    BY <1>1, <1>2, <1>3 DEF MmapInv, SharedOK
  <1>6. ThreadOK(t)'
    <2>1. ThreadOK(t)
      BY DEF MmapInv
    <2> QED BY <1>1, <1>2, <1>3, <2>1 DEF ThreadOK
  <1>7. ASSUME NEW u \in Thread \ {t} PROVE ThreadOK(u)'
    BY <1>1, <1>2, <1>3, <1>4, Outlasts DEF MmapInv, Types
  <1> QED BY <1>4, <1>5, <1>6, <1>7 DEF MmapInv

(* Comparing the cell with the mapping.                                    *)
LEMMA CheckKeeps ==
    ASSUME MmapInv, NEW t \in Thread, Check(t)
    PROVE  MmapInv'
  <1>1. PICK l \in {"size", "copy"} :
          /\ Goto(t, l) /\ pc[t] = "check"
          /\ UNCHANGED <<reading, writer, waiting, cell, right, mapping_size>>
          /\ UNCHANGED <<file_size, kernel, rw, phase, known, committed>>
          /\ l = "copy" => mapping_size > cell[t]
          /\ new_size' \in {new_size, [new_size EXCEPT ![t] = file_size]}
    BY DEF Check, lockVars, fileVars
  <1>2. /\ pc' \in [Thread -> Places] /\ pc'[t] = l
        /\ \A u \in Thread \ {t} : pc'[u] = pc[u] /\ new_size'[u] = new_size[u]
    BY <1>1, GotoFacts DEF MmapInv, Places, Types
  <1>3. Types'
    BY <1>1, <1>2 DEF MmapInv, Types
  <1>4. SharedOK'
    BY <1>1, <1>2 DEF MmapInv, SharedOK
  <1>5. \A u \in Thread : HoldsRead(u)' <=> HoldsRead(u)
    BY <1>1 DEF HoldsRead
  <1>6. ThreadOK(t)'
    <2>1. ThreadOK(t)
      BY DEF MmapInv
    <2>2. new_size'[t] \in {new_size[t], file_size} /\ file_size \in 0..file_size
      BY <1>1 DEF MmapInv, Types
    <2> QED BY <1>1, <1>2, <1>5, <2>1, <2>2 DEF ThreadOK
  <1>7. ASSUME NEW u \in Thread \ {t} PROVE ThreadOK(u)'
    BY <1>1, <1>2, <1>3, <1>5, Outlasts DEF MmapInv, Types
  <1> QED BY <1>3, <1>4, <1>6, <1>7 DEF MmapInv

(* Working out the size of the mapping the cell would need.                *)
LEMMA SizeKeeps ==
    ASSUME MmapInv, NEW t \in Thread, Size(t)
    PROVE  MmapInv'
  <1>0. /\ file_size \in Nat /\ new_size[t] \in {Huge} \cup 0..file_size
        /\ file_size \in {Huge} \cup 0..file_size /\ file_size \in Int /\ new_size[t] \in Int
        /\ cell[t] \in Nat
    BY DEF MmapInv, Types, ThreadOK
  <1>1. PICK n \in {Huge} \cup 0..file_size :
          /\ new_size' = [new_size EXCEPT ![t] = n]
          /\ Goto(t, IF n # Huge /\ n <= cell[t] THEN "direct" ELSE "wrlock")
    BY <1>0, SizeOfRange DEF Size
  <1>2. PICK l \in {"direct", "wrlock"} :
          /\ Goto(t, l) /\ pc[t] = "size" /\ ReleaseRead(t)
          /\ l = "wrlock" => n = Huge \/ cell[t] < n
          /\ UNCHANGED <<cell, right, mapping_size>>
          /\ UNCHANGED <<file_size, kernel, rw, phase, known, committed>>
    <2>1. /\ pc[t] = "size" /\ ReleaseRead(t)
          /\ UNCHANGED <<cell, right, mapping_size>>
          /\ UNCHANGED <<file_size, kernel, rw, phase, known, committed>>
      BY DEF Size, fileVars
    <2>2. n # Huge /\ ~(n <= cell[t]) => cell[t] < n
      BY <1>0 DEF Huge
    <2> QED BY <1>1, <2>1, <2>2
  <1>3. /\ writer' = writer /\ waiting' = waiting /\ reading' \subseteq reading
        /\ ~HoldsRead(t)' /\ \A u \in Thread \ {t} : HoldsRead(u)' <=> HoldsRead(u)
    BY <1>2, ReadGivenUp DEF MmapInv
  <1>4. /\ pc' \in [Thread -> Places] /\ pc'[t] = l /\ new_size'[t] = n
        /\ \A u \in Thread \ {t} : pc'[u] = pc[u] /\ new_size'[u] = new_size[u]
    BY <1>1, <1>2, GotoFacts DEF MmapInv, Places, Types
  <1>5. Types'
    <2>1. new_size' \in [Thread -> Int]
      BY <1>0, <1>1 DEF MmapInv, Types, Huge
    <2>2. reading' \subseteq Thread \X Slot
      BY <1>3 DEF MmapInv, Types
    <2> QED BY <1>2, <1>3, <1>4, <2>1, <2>2 DEF MmapInv, Types
  <1>6. SharedOK'
    BY <1>2, <1>3, <1>4 DEF MmapInv, SharedOK
  <1>7. ThreadOK(t)'
    <2>1. ThreadOK(t)
      BY DEF MmapInv
    <2> QED BY <1>2, <1>3, <1>4, <2>1 DEF ThreadOK
  <1>8. ASSUME NEW u \in Thread \ {t} PROVE ThreadOK(u)'
    BY <1>2, <1>3, <1>4, <1>5, Outlasts DEF MmapInv, Types
  <1> QED BY <1>5, <1>6, <1>7, <1>8 DEF MmapInv

(* Returning from aodbm_read.                                              *)
LEMMA ReturnFacts ==
    ASSUME Types, NEW t \in Thread, NEW answer \in BOOLEAN, Return(t, answer)
    PROVE  /\ pc' \in [Thread -> Places] /\ pc'[t] = "idle"
           /\ cell' \in [Thread -> Nat]
           /\ new_size' \in [Thread -> Int] /\ new_size'[t] = 0
           /\ right' \in [Thread -> BOOLEAN] /\ right'[t] = answer
           /\ \A u \in Thread \ {t} : /\ pc'[u] = pc[u] /\ cell'[u] = cell[u]
                                      /\ new_size'[u] = new_size[u]
  <1>1. /\ pc' \in [Thread -> Places] /\ pc'[t] = "idle"
        /\ \A u \in Thread \ {t} : pc'[u] = pc[u]
    BY GotoFacts DEF Return, Places
  <1>2. /\ cell' \in [Thread -> Nat]
        /\ \A u \in Thread \ {t} : cell'[u] = cell[u]
    BY DEF Return, Types
  <1>3. /\ new_size' \in [Thread -> Int] /\ new_size'[t] = 0
        /\ \A u \in Thread \ {t} : new_size'[u] = new_size[u]
    BY DEF Return, Types
  <1>4. right' \in [Thread -> BOOLEAN] /\ right'[t] = answer
    BY DEF Return, Types
  <1> QED BY <1>1, <1>2, <1>3, <1>4

(* Reading what lies behind the mapping.                                   *)
LEMMA DirectKeeps ==
    ASSUME MmapInv, NEW t \in Thread, Direct(t)
    PROVE  MmapInv' /\ right'[t] = TRUE
  <1>1. /\ pc[t] = "direct" /\ Return(t, TRUE) /\ kernel' = file_size
        /\ UNCHANGED <<reading, writer, waiting, mapping_size>>
        /\ UNCHANGED <<file_size, rw, phase, known, committed>>
    BY DEF Direct, lockVars
  <1>2. /\ pc' \in [Thread -> Places] /\ pc'[t] = "idle"
        /\ cell' \in [Thread -> Nat]
        /\ new_size' \in [Thread -> Int] /\ new_size'[t] = 0
        /\ right' \in [Thread -> BOOLEAN] /\ right'[t] = TRUE
        /\ \A u \in Thread \ {t} : /\ pc'[u] = pc[u] /\ cell'[u] = cell[u]
                                   /\ new_size'[u] = new_size[u]
    BY <1>1, ReturnFacts DEF MmapInv
  <1>3. Types'
    BY <1>1, <1>2 DEF MmapInv, Types
  <1>4. SharedOK'
    BY <1>1, <1>2 DEF MmapInv, Types, SharedOK
  <1>5. \A u \in Thread : HoldsRead(u)' <=> HoldsRead(u)
    BY <1>1 DEF HoldsRead
  <1>6. ThreadOK(t)'
    <2>1. ThreadOK(t) /\ file_size \in Nat
      BY DEF MmapInv, Types
    <2> QED BY <1>1, <1>2, <1>5, <2>1 DEF ThreadOK
  <1>7. ASSUME NEW u \in Thread \ {t} PROVE ThreadOK(u)'
    BY <1>1, <1>2, <1>3, <1>5, Outlasts DEF MmapInv, Types
  <1> QED BY <1>2, <1>3, <1>4, <1>6, <1>7 DEF MmapInv

(* Waiting for the write lock, and getting it.                             *)
LEMMA WrLocksKeep ==
    ASSUME MmapInv, NEW t \in Thread, WrLockWait(t) \/ WrLock(t)
    PROVE  MmapInv'
  <1>1. /\ pc[t] = "wrlock"
        /\ UNCHANGED <<reading, cell, new_size, right, mapping_size>>
        /\ UNCHANGED <<file_size, kernel, rw, phase, known, committed>>
    BY DEF WrLockWait, WrLock, AwaitWrite, AcquireWrite, readVars, fileVars
  <1>2. \A u \in Thread : HoldsRead(u)' <=> HoldsRead(u)
    BY <1>1 DEF HoldsRead
  <1>3. ThreadOK(t)
    BY DEF MmapInv
  <1>4. CASE WrLockWait(t)
    <2>1. pc' = pc /\ writer' = writer /\ waiting' = waiting \cup {t}
      BY <1>4 DEF WrLockWait, AwaitWrite
    <2>2. Types'
      BY <1>1, <2>1 DEF MmapInv, Types
    <2>3. SharedOK'
      BY <1>1, <2>1 DEF MmapInv, SharedOK
    <2>4. ASSUME NEW u \in Thread PROVE ThreadOK(u)'
      BY <1>1, <1>2, <2>1, <2>2, Outlasts DEF MmapInv, Types
    <2> QED BY <2>2, <2>3, <2>4 DEF MmapInv
  <1>5. CASE WrLock(t)
    <2>1. /\ Goto(t, "map") /\ reading = {} /\ writer = NULL /\ writer' = t
          /\ waiting' = waiting \ {t}
      BY <1>5 DEF WrLock, AcquireWrite
    <2>2. /\ pc' \in [Thread -> Places] /\ pc'[t] = "map"
          /\ \A u \in Thread \ {t} : pc'[u] = pc[u]
      BY <2>1, GotoFacts DEF MmapInv, Places
    <2>3. Types'
      BY <1>1, <2>1, <2>2 DEF MmapInv, Types
    <2>4. SharedOK'
      BY <1>1, <2>1, <2>2 DEF MmapInv, SharedOK
    <2>5. ThreadOK(t)'
      BY <1>1, <1>2, <1>3, <2>1, <2>2 DEF ThreadOK
    <2>6. ASSUME NEW u \in Thread \ {t} PROVE ThreadOK(u)'
      <3>1. writer' # u /\ writer # u
        BY <2>1, LockAssumption
      <3> QED BY <1>1, <1>2, <2>1, <2>2, <2>3, <3>1, Outlasts DEF MmapInv, Types
    <2> QED BY <2>3, <2>4, <2>5, <2>6 DEF MmapInv
  <1> QED BY <1>4, <1>5

(* Making the mapping, or making it larger.                                *)
LEMMA MapKeeps ==
    ASSUME MmapInv, NEW t \in Thread, Map(t)
    PROVE  MmapInv'
  <1>1. /\ pc[t] = "map" /\ new_size[t] # Huge /\ Goto(t, "rdagain")
        /\ writer = t /\ writer' = NULL
        /\ new_size' = [new_size EXCEPT ![t] = 0]
        /\ UNCHANGED <<reading, waiting, cell, right>>
        /\ UNCHANGED <<file_size, kernel, rw, phase, known, committed>>
    BY DEF Map, ReleaseWrite, fileVars
  <1>2. /\ pc' \in [Thread -> Places] /\ pc'[t] = "rdagain"
        /\ \A u \in Thread \ {t} : pc'[u] = pc[u] /\ new_size'[u] = new_size[u]
        /\ new_size'[t] = 0 /\ new_size' \in [Thread -> Int]
    BY <1>1, GotoFacts DEF MmapInv, Places, Types
  <1>3. /\ ThreadOK(t) /\ mapping_size \in Nat /\ mapping_size <= file_size
        /\ cell[t] \in Nat /\ file_size \in Nat
    BY DEF MmapInv, SharedOK, Types
  <1>4. new_size[t] \in 0..file_size /\ cell[t] < new_size[t]
    BY <1>1, <1>3 DEF ThreadOK
  <1>5. /\ mapping_size' \in Nat /\ mapping_size' <= file_size
        /\ mapping_size <= mapping_size' /\ cell[t] < mapping_size'
    BY <1>3, <1>4 DEF Map
  <1>6. Types'
    BY <1>1, <1>2, <1>5 DEF MmapInv, Types
  <1>7. SharedOK'
    BY <1>1, <1>2, <1>5 DEF MmapInv, SharedOK
  <1>8. \A u \in Thread : HoldsRead(u)' <=> HoldsRead(u)
    BY <1>1 DEF HoldsRead
  <1>9. ThreadOK(t)'
    <2>1. writer' # t
      BY <1>1, LockAssumption
    <2> QED BY <1>1, <1>2, <1>3, <1>5, <1>8, <2>1 DEF ThreadOK
  <1>10. ASSUME NEW u \in Thread \ {t} PROVE ThreadOK(u)'
    <2>1. writer' # u /\ writer # u
      BY <1>1, LockAssumption
    <2> QED BY <1>1, <1>2, <1>5, <1>6, <1>8, <2>1, Outlasts DEF MmapInv, Types
  <1> QED BY <1>6, <1>7, <1>9, <1>10 DEF MmapInv

(* The copy, which gives right bytes where the kernel has them.            *)
LEMMA CopyKeeps ==
    ASSUME MmapInv, NEW t \in Thread, Copy(t)
    PROVE  MmapInv' /\ right'[t] = (cell[t] < kernel)
  <1>1. /\ pc[t] = "copy" /\ Return(t, cell[t] < kernel) /\ ReleaseRead(t)
        /\ UNCHANGED mapping_size
        /\ UNCHANGED <<file_size, kernel, rw, phase, known, committed>>
    BY DEF Copy, fileVars
  <1>2. PICK a \in BOOLEAN : a = (cell[t] < kernel)
    <2>1. cell[t] \in Int /\ kernel \in Int
      BY DEF MmapInv, Types
    <2>2. (cell[t] < kernel) \in BOOLEAN
      BY <2>1
    <2> QED BY <2>2, Zenon
  <1>3. /\ pc' \in [Thread -> Places] /\ pc'[t] = "idle"
        /\ cell' \in [Thread -> Nat]
        /\ new_size' \in [Thread -> Int] /\ new_size'[t] = 0
        /\ right' \in [Thread -> BOOLEAN] /\ right'[t] = a
        /\ \A u \in Thread \ {t} : /\ pc'[u] = pc[u] /\ cell'[u] = cell[u]
                                   /\ new_size'[u] = new_size[u]
    <2>1. Return(t, a)
      BY <1>1, <1>2
    <2> QED BY <2>1, ReturnFacts DEF MmapInv
  <1>4. /\ writer' = writer /\ waiting' = waiting /\ reading' \subseteq reading
        /\ ~HoldsRead(t)' /\ \A u \in Thread \ {t} : HoldsRead(u)' <=> HoldsRead(u)
    BY <1>1, ReadGivenUp DEF MmapInv
  <1>5. Types'
    BY <1>1, <1>3, <1>4 DEF MmapInv, Types
  <1>6. SharedOK'
    BY <1>1, <1>3, <1>4 DEF MmapInv, SharedOK
  <1>7. ThreadOK(t)'
    <2>1. ThreadOK(t) /\ file_size \in Nat
      BY DEF MmapInv, Types
    <2> QED BY <1>1, <1>3, <1>4, <2>1 DEF ThreadOK
  <1>8. ASSUME NEW u \in Thread \ {t} PROVE ThreadOK(u)'
    BY <1>1, <1>3, <1>4, <1>5, Outlasts DEF MmapInv, Types
  <1> QED BY <1>2, <1>3, <1>5, <1>6, <1>7, <1>8 DEF MmapInv

-----------------------------------------------------------------------------
(* The steps that append, and the end of the handle.                       *)

(* Threads that append leave the mapping and its lock alone.               *)
LEMMA AppendsKeep ==
    ASSUME MmapInv, NEW t \in Thread,
           AppendLock(t) \/ WriteBytes(t) \/ DelUnlock(t) \/ VersionUnlock(t)
    PROVE  MmapInv' /\ UNCHANGED <<pc, cell, right, mapping_size>>
  <1>1. /\ UNCHANGED <<reading, writer, waiting, mapping_size>>
        /\ UNCHANGED <<pc, cell, new_size, right>>
    BY DEF AppendLock, WriteBytes, DelUnlock, VersionUnlock, lockVars, readVars
  <1>2. /\ file_size \in Nat /\ kernel \in Nat /\ known \in Nat /\ committed \in Nat
        /\ mapping_size \in Nat
        /\ committed <= kernel /\ committed <= known /\ known <= file_size
        /\ kernel <= file_size /\ mapping_size <= file_size
        /\ rw \in Thread \cup {NULL} /\ (rw = NULL <=> phase = "none")
        /\ rw = NULL => known = file_size
    BY DEF MmapInv, Types, SharedOK
  <1>3. /\ file_size' \in Nat /\ kernel' \in Nat /\ known' \in Nat /\ committed' \in Nat
        /\ file_size <= file_size' /\ known <= known'
        /\ committed' <= kernel' /\ committed' <= known' /\ known' <= file_size'
        /\ kernel' <= file_size'
    <2>1. CASE AppendLock(t)
      BY <1>2, <2>1 DEF AppendLock
    <2>2. CASE WriteBytes(t)
      BY <1>2, <2>2 DEF WriteBytes
    <2>3. CASE DelUnlock(t) \/ VersionUnlock(t)
      BY <1>2, <2>3 DEF DelUnlock, VersionUnlock
    <2> QED BY <2>1, <2>2, <2>3
  <1>4. /\ rw' \in Thread \cup {NULL} /\ (rw' = NULL <=> phase' = "none")
        /\ rw' = NULL => known' = file_size'
    <2>1. t # NULL
      BY LockAssumption
    <2> QED BY <1>2, <2>1 DEF AppendLock, WriteBytes, DelUnlock, VersionUnlock
  <1>5. Types'
    BY <1>1, <1>3, <1>4 DEF MmapInv, Types
  <1>6. SharedOK'
    BY <1>1, <1>2, <1>3, <1>4 DEF MmapInv, SharedOK
  <1>7. \A u \in Thread : HoldsRead(u)' <=> HoldsRead(u)
    BY <1>1 DEF HoldsRead
  <1>8. ASSUME NEW u \in Thread PROVE ThreadOK(u)'
    BY <1>1, <1>2, <1>3, <1>5, <1>7, Outlasts DEF MmapInv
  <1> QED BY <1>1, <1>5, <1>6, <1>8 DEF MmapInv

(* The database is closed and opened only when no thread is reading.       *)
LEMMA ReopenKeeps ==
    ASSUME MmapInv, Reopen
    PROVE  MmapInv' /\ pc' = pc /\ \A t \in Thread : pc[t] = "idle"
  <1>1. /\ \A t \in Thread : pc[t] = "idle"
        /\ kernel' = file_size /\ committed' = file_size /\ rw = NULL
        /\ UNCHANGED <<reading, writer, waiting, pc, cell, new_size, right>>
        /\ UNCHANGED <<file_size, rw, phase, known>>
    BY DEF Reopen, lockVars, readVars
  <1>2. file_size \in Nat /\ mapping_size' \in 0..file_size
    BY FullPages DEF Reopen, MmapInv, Types
  <1>3. Types'
    BY <1>1, <1>2 DEF MmapInv, Types
  <1>4. SharedOK'
    BY <1>1, <1>2 DEF MmapInv, SharedOK
  <1>5. \A u \in Thread : HoldsRead(u)' <=> HoldsRead(u)
    BY <1>1 DEF HoldsRead
  <1>6. ASSUME NEW u \in Thread PROVE ThreadOK(u)'
    BY <1>1, <1>2, <1>3, <1>5, Outlasts DEF MmapInv, Types
  <1> QED BY <1>1, <1>3, <1>4, <1>6 DEF MmapInv

-----------------------------------------------------------------------------
(* No step leads out of the invariant.                                     *)

(* The mapping aodbm_open makes is all right.                              *)
LEMMA InitMmapInv == MmapInit => MmapInv
  <1> SUFFICES ASSUME MmapInit PROVE MmapInv
    OBVIOUS
  <1>1. /\ reading = {} /\ writer = NULL /\ waiting = {}
        /\ kernel = file_size /\ known = file_size /\ committed = file_size
        /\ rw = NULL /\ phase = "none" /\ file_size \in Nat
        /\ pc = [t \in Thread |-> "idle"] /\ cell = [t \in Thread |-> 0]
        /\ new_size = [t \in Thread |-> 0] /\ right = [t \in Thread |-> TRUE]
    BY MmapAssumption DEF MmapInit, LockInit
  <1>2. mapping_size \in 0..file_size
    BY <1>1, FullPages DEF MmapInit
  <1>3. Types
    BY <1>1, <1>2 DEF Types, Places
  <1>4. SharedOK
    BY <1>1, <1>2 DEF SharedOK
  <1>5. ASSUME NEW t \in Thread PROVE ThreadOK(t)
    BY <1>1, LockAssumption DEF ThreadOK, HoldsRead
  <1> QED BY <1>3, <1>4, <1>5 DEF MmapInv

(* Leaving everything but ended alone.                                     *)
LEMMA SameMmap ==
    ASSUME MmapInv,
           UNCHANGED <<reading, writer, waiting, file_size, mapping_size, kernel,
                       rw, phase, pc, cell, new_size, right, known, committed>>
    PROVE  MmapInv'
  <1>1. Types' /\ SharedOK'
    BY DEF MmapInv, Types, SharedOK
  <1>2. ASSUME NEW t \in Thread PROVE ThreadOK(t)'
    BY DEF MmapInv, ThreadOK, HoldsRead
  <1> QED BY <1>1, <1>2 DEF MmapInv

(* All steps together.                                                     *)
LEMMA MmapNextKeeps ==
    ASSUME MmapInv, [MmapNext]_mmapVars
    PROVE  MmapInv'
  <1>1. CASE UNCHANGED mmapVars
    BY <1>1, SameMmap DEF mmapVars, lockVars
  <1>2. ASSUME NEW t \in Thread, ReadStep(t) PROVE MmapInv'
    <2>1. CASE RdLock(t) \/ RdLockAgain(t)
      BY <2>1, RdLocksKeep
    <2>2. CASE Check(t)
      BY <2>2, CheckKeeps
    <2>3. CASE Size(t)
      BY <2>3, SizeKeeps
    <2>4. CASE Direct(t)
      BY <2>4, DirectKeeps
    <2>5. CASE WrLockWait(t) \/ WrLock(t)
      BY <2>5, WrLocksKeep
    <2>6. CASE Map(t)
      BY <2>6, MapKeeps
    <2>7. CASE MapFails(t)
      BY <2>7, SameMmap DEF MapFails, lockVars, readVars
    <2>8. CASE Copy(t)
      BY <2>8, CopyKeeps
    <2> QED BY <1>2, <2>1, <2>2, <2>3, <2>4, <2>5, <2>6, <2>7, <2>8 DEF ReadStep
  <1>3. ASSUME NEW t \in Thread, Read(t) PROVE MmapInv'
    BY <1>3, ReadKeeps
  <1>4. ASSUME NEW t \in Thread, AppendLock(t) \/ AppendStep(t) PROVE MmapInv'
    BY <1>4, AppendsKeep DEF AppendStep
  <1>5. CASE Reopen
    BY <1>5, ReopenKeeps
  <1> QED BY <1>1, <1>2, <1>3, <1>4, <1>5 DEF MmapNext

(* A step that moves another thread, or appends, ends no read of t.        *)
LEMMA OnlyReadsEnd ==
    ASSUME MmapInv, MmapNext, NEW t \in Thread, pc[t] # "idle", pc'[t] = "idle"
    PROVE  Direct(t) \/ Copy(t)
  <1> USE DEF MmapInv
  <1>1. ASSUME NEW u \in Thread, NEW l \in Places \ {"idle"}, Goto(u, l) PROVE FALSE
    BY <1>1, GotoFacts
  <1>2. ASSUME NEW u \in Thread, ReadStep(u)
        PROVE  Direct(u) \/ Copy(u)
    <2> SUFFICES ASSUME ~Direct(u), ~Copy(u) PROVE FALSE
      OBVIOUS
    <2>1. ~WrLockWait(u) /\ ~MapFails(u)
      BY DEF WrLockWait, MapFails
    <2>2. ~(RdLock(u) \/ Check(u) \/ WrLock(u) \/ Map(u) \/ RdLockAgain(u))
      BY <1>1 DEF RdLock, Check, WrLock, Map, RdLockAgain, Places
    <2>3. ~Size(u)
      <3>1. ASSUME Size(u) PROVE \E l \in {"direct", "wrlock"} : Goto(u, l)
        BY <3>1 DEF Size
      <3> QED BY <1>1, <3>1 DEF Places
    <2> QED BY <1>2, <2>1, <2>2, <2>3 DEF ReadStep
  <1>3. ASSUME NEW u \in Thread, Direct(u) \/ Copy(u) PROVE u = t
    <2>1. Goto(u, "idle")
      BY <1>3 DEF Direct, Copy, Return
    <2> QED BY <2>1, GotoFacts DEF Places
  <1>4. ASSUME NEW u \in Thread, Read(u) PROVE FALSE
    BY <1>1, <1>4 DEF Read, Places
  <1>5. ASSUME NEW u \in Thread, AppendLock(u) \/ AppendStep(u) PROVE FALSE
    BY <1>5, AppendsKeep DEF AppendStep
  <1>6. ~Reopen /\ ~UNCHANGED mmapVars
    BY ReopenKeeps DEF mmapVars
  <1> QED BY <1>2, <1>3, <1>4, <1>5, <1>6 DEF MmapNext

-----------------------------------------------------------------------------
(* What the invariant says.                                                *)

(* Locks, cells and sizes stay together through all reads and appends.     *)
THEOREM MmapInvariant == MmapSpec => []MmapInv
  <1> QED BY InitMmapInv, MmapNextKeeps, PTL DEF MmapSpec

(* mmap_mut is held exactly where aodbm_read has taken it, and nothing     *)
(* that is known or mapped reaches behind the end of the file.             *)
THEOREM MmapTypeCorrect == MmapSpec => []MmapTypeOK
  <1>1. MmapInv => MmapTypeOK
    BY DEF MmapInv, SharedOK, ThreadOK, MmapTypeOK
  <1> QED BY <1>1, MmapInvariant, PTL

(* No copy reads behind the mapping, whatever other threads mapped or      *)
(* appended since the size of the mapping was worked out.                  *)
THEOREM CopiesStayInMapping == MmapSpec => []CopyStaysInMapping
  <1>1. MmapInv => CopyStaysInMapping
    BY DEF MmapInv, ThreadOK, CopyStaysInMapping
  <1> QED BY <1>1, MmapInvariant, PTL

(* The mapping is moved and replaced only while no thread copies from it.  *)
THEOREM NoCopyLosesItsMapping == MmapSpec => MappingStaysPut
  <1>1. ASSUME MmapInv, MmapNext, NEW t \in Thread, pc[t] = "copy"
        PROVE  mapping_size' = mapping_size
    <2>1. writer = NULL
      BY <1>1 DEF MmapInv, SharedOK, ThreadOK, HoldsRead
    <2>2. \A u \in Thread : pc[u] # "map"
      BY <1>1, <2>1, LockAssumption DEF MmapInv, ThreadOK
    <2>3. ASSUME NEW u \in Thread, ReadStep(u) PROVE mapping_size' = mapping_size
      BY <2>2, <2>3 DEF ReadStep, RdLock, Check, Size, Direct, WrLockWait, WrLock,
                        Map, MapFails, RdLockAgain, Copy
    <2>4. ASSUME NEW u \in Thread, Read(u) PROVE mapping_size' = mapping_size
      BY <2>4 DEF Read
    <2>5. ASSUME NEW u \in Thread, AppendLock(u) \/ AppendStep(u)
          PROVE  mapping_size' = mapping_size
      BY <1>1, <2>5, AppendsKeep DEF AppendStep
    <2>6. ~Reopen
      BY <1>1, ReopenKeeps
    <2>7. CASE UNCHANGED mmapVars
      BY <2>7 DEF mmapVars
    <2> QED BY <1>1, <2>3, <2>4, <2>5, <2>6, <2>7 DEF MmapNext
  <1>2. MmapInv /\ [MmapNext]_mmapVars
        => [(\E t \in Thread : pc[t] = "copy") => mapping_size' = mapping_size]_mmapVars
    BY <1>1
  <1> QED BY <1>2, MmapInvariant, PTL DEF MmapSpec, MappingStaysPut

(* Whatever lies in or before a block of a commit that has returned is     *)
(* read as it was written, mapped or not.                                  *)
THEOREM CommitsReadBack == MmapSpec => CommittedReadRight
  <1>1. ASSUME MmapInv, MmapNext, NEW t \in Thread,
               pc[t] # "idle", pc'[t] = "idle", cell[t] < committed
        PROVE  right'[t]
    <2>1. CASE Direct(t)
      BY <1>1, <2>1, DirectKeeps
    <2>2. CASE Copy(t)
      <3>1. cell[t] < kernel
        BY <1>1 DEF MmapInv, Types, SharedOK
      <3> QED BY <1>1, <2>2, <3>1, CopyKeeps
    <2> QED BY <1>1, <2>1, <2>2, OnlyReadsEnd
  <1>2. MmapInv /\ [MmapNext]_mmapVars
        => [\A t \in Thread :
              pc[t] # "idle" /\ pc'[t] = "idle" /\ cell[t] < committed
              => right'[t]]_mmapVars
    BY <1>1
  <1> QED BY <1>2, MmapInvariant, PTL DEF MmapSpec, CommittedReadRight
=============================================================================
