--------------------------- MODULE AodbmRwlockProofs ---------------------------
(***************************************************************************)
(* Proofs about aodbm_rwlock for any number of threads and slots: its      *)
(* inductive invariant, exclusion, that no wakeup is lost, and that it     *)
(* implements the abstract lock.                                           *)
(***************************************************************************)
EXTENDS AodbmRwlock, FiniteSetTheorems, TLAPS

(* Exclusion needs the counters to be exact, and the counters need it to   *)
(* know whose lock is given up; whether a sleeper still has to wait is     *)
(* read off the same fields.                                               *)
LockInv == TypeOK /\ CountersExact /\ Exclusion /\ NoLostWakeup

-----------------------------------------------------------------------------
(* What is held and who waits are finite, so that counting them works.     *)
LEMMA Finite ==
    ASSUME TypeOK
    PROVE  /\ IsFiniteSet(reading) /\ IsFiniteSet(Waiting)
           /\ Cardinality(reading) \in Nat /\ Cardinality(Waiting) \in Nat
           /\ Cardinality(reading) = 0 <=> reading = {}
           /\ Cardinality(Waiting) = 0 <=> Waiting = {}
  <1>1. IsFiniteSet(Thread \X Slot)
    BY FS_Product, RwlockAssumption
  <1>2. IsFiniteSet(reading)
    BY <1>1, FS_Subset DEF TypeOK
  <1>3. IsFiniteSet(Waiting)
    BY RwlockAssumption, FS_Subset DEF Waiting
  <1>4. QED
    BY <1>2, <1>3, FS_CardinalityType, FS_EmptySet

(* A thread that enters the loop of a call, or leaves it.                  *)
LEMMA WaitingSet ==
    ASSUME TypeOK, NEW t \in Thread, NEW call \in {"idle", "rdlock", "wrlock"},
           pc' = [pc EXCEPT ![t] = call]
    PROVE  Waiting' = IF call = "wrlock" THEN Waiting \cup {t}
                      ELSE Waiting \ {t}
  BY DEF TypeOK, Waiting

(* How the number of those who wait changes.                               *)
LEMMA WaitingCount ==
    ASSUME TypeOK, NEW t \in Thread
    PROVE  /\ pc[t] # "wrlock" =>
                /\ Waiting \ {t} = Waiting
                /\ Cardinality(Waiting \cup {t}) = Cardinality(Waiting) + 1
           /\ pc[t] = "wrlock" =>
                /\ Waiting \cup {t} = Waiting
                /\ Cardinality(Waiting \ {t}) = Cardinality(Waiting) - 1
  <1>1. IsFiniteSet(Waiting)
    BY Finite
  <1>2. t \in Waiting <=> pc[t] = "wrlock"
    BY DEF Waiting
  <1>3. QED
    BY <1>1, <1>2, FS_AddElement, FS_RemoveElement

-----------------------------------------------------------------------------
(* What the fields say, given the invariant.                               *)
LEMMA Fields ==
    ASSUME LockInv
    PROVE  /\ readers = 0 <=> reading = {}
           /\ writers_waiting = 0 <=> Waiting = {}
           /\ is_writing <=> writer # NULL
  BY Finite DEF LockInv, CountersExact

(* A call that goes to sleep, from idle or from its loop.                  *)
LEMMA SleepKeeps ==
    ASSUME LockInv, NEW t \in Thread, NEW call \in {"rdlock", "wrlock"},
           CondWait(t, call), UNCHANGED <<readers, is_writing>>,
           writers_waiting' = Cardinality(Waiting'),
           writers_waiting' \in Nat,
           writers_waiting # 0 => writers_waiting' # 0,
           call = "rdlock" => ReadBusy', call = "wrlock" => WriteBusy'
    PROVE  LockInv'
  <1>1. TypeOK'
    BY DEF LockInv, TypeOK, CondWait, held
  <1>2. CountersExact'
    BY DEF LockInv, CountersExact, CondWait, held
  <1>3. Exclusion'
    BY DEF LockInv, Exclusion, CondWait, held
  <1>4. ASSUME NEW u \in asleep'
        PROVE  \/ pc'[u] = "rdlock" /\ ReadBusy'
               \/ pc'[u] = "wrlock" /\ WriteBusy'
    <2>1. CASE u = t
      BY <2>1 DEF LockInv, TypeOK, CondWait
    <2>2. CASE u # t
      <3>1. u \in asleep /\ pc'[u] = pc[u] /\ u \in Thread
        BY <2>2 DEF LockInv, TypeOK, CondWait
      <3>2. ReadBusy => ReadBusy'
        BY DEF ReadBusy
      <3>3. WriteBusy => WriteBusy'
        BY DEF WriteBusy
      <3>4. QED
        BY <3>1, <3>2, <3>3 DEF LockInv, NoLostWakeup
    <2>3. QED
      BY <2>1, <2>2
  <1>5. QED
    BY <1>1, <1>2, <1>3, <1>4 DEF LockInv, NoLostWakeup

(* A call that returns with a read lock.                                   *)
LEMMA ReadKeeps ==
    ASSUME LockInv, NEW t \in Thread, pc[t] # "wrlock", t \notin asleep,
           ~ReadBusy, readers' = readers + 1, ReturnWithRead(t),
           UNCHANGED <<writers_waiting, is_writing>>
    PROVE  LockInv'
  <1>1. PICK s \in Slot : /\ <<t, s>> \notin reading
                          /\ reading' = reading \cup {<<t, s>>}
    BY DEF ReturnWithRead
  <1>2. Waiting' = Waiting
    BY WaitingSet, WaitingCount DEF LockInv, ReturnWithRead
  <1>3. readers' = Cardinality(reading')
    BY <1>1, Finite, FS_AddElement DEF LockInv, CountersExact
  <1>4. TypeOK'
    BY <1>1 DEF LockInv, TypeOK, ReturnWithRead
  <1>5. CountersExact'
    BY <1>2, <1>3 DEF LockInv, CountersExact, ReturnWithRead
  <1>6. Exclusion'
    BY Fields DEF Exclusion, ReturnWithRead, ReadBusy
  <1>7. ASSUME NEW u \in asleep'
        PROVE  pc'[u] = "wrlock" /\ WriteBusy'
    <2>1. u \in asleep /\ u # t /\ u \in Thread
      BY DEF LockInv, TypeOK, ReturnWithRead
    <2>2. pc'[u] = "wrlock"
      BY <2>1 DEF LockInv, TypeOK, NoLostWakeup, ReturnWithRead
    <2>3. WriteBusy'
      BY DEF WriteBusy, LockInv, TypeOK
    <2>4. QED
      BY <2>2, <2>3
  <1>8. QED
    BY <1>4, <1>5, <1>6, <1>7 DEF LockInv, NoLostWakeup

(* A call that returns with the write lock.                                *)
LEMMA WriteKeeps ==
    ASSUME LockInv, NEW t \in Thread, t \notin asleep,
           ~WriteBusy, is_writing' = TRUE, ReturnWithWrite(t),
           UNCHANGED readers,
           writers_waiting' = Cardinality(Waiting'), writers_waiting' \in Nat
    PROVE  LockInv'
  <1>1. TypeOK'
    BY DEF LockInv, TypeOK, ReturnWithWrite
  <1>2. t # NULL
    BY RwlockAssumption
  <1>3. CountersExact'
    BY <1>2 DEF LockInv, CountersExact, ReturnWithWrite
  <1>4. Exclusion'
    BY Fields DEF Exclusion, ReturnWithWrite, WriteBusy
  <1>5. ReadBusy' /\ WriteBusy'
    BY DEF ReadBusy, WriteBusy
  <1>6. ASSUME NEW u \in asleep'
        PROVE  pc'[u] \in {"rdlock", "wrlock"}
    BY <1>1, <1>6 DEF TypeOK
  <1>7. QED
    BY <1>1, <1>3, <1>4, <1>5, <1>6 DEF LockInv, NoLostWakeup

-----------------------------------------------------------------------------
LEMMA RdTestKeeps ==
    ASSUME LockInv, NEW t \in Thread, pc[t] # "wrlock", t \notin asleep,
           RdTest(t)
    PROVE  LockInv'
  <1>1. CASE ReadBusy /\ CondWait(t, "rdlock") /\ UNCHANGED fields
    <2>1. Waiting' = Waiting
      BY <1>1, WaitingSet, WaitingCount DEF LockInv, CondWait
    <2>2. ReadBusy'
      BY <1>1 DEF ReadBusy, fields
    <2>3. writers_waiting' = Cardinality(Waiting') /\ writers_waiting' \in Nat
      BY <1>1, <2>1 DEF LockInv, CountersExact, TypeOK, fields
    <2>4. QED
      BY <1>1, <2>2, <2>3, SleepKeeps DEF fields
  <1>2. CASE /\ ~ReadBusy /\ readers' = readers + 1 /\ ReturnWithRead(t)
             /\ UNCHANGED <<writers_waiting, is_writing>>
    BY <1>2, ReadKeeps
  <1>3. QED
    BY <1>1, <1>2 DEF RdTest

LEMMA WrTestKeeps ==
    ASSUME LockInv, NEW t \in Thread, t \notin asleep, NEW announced,
           WrTest(t, announced),
           announced = IF pc[t] = "wrlock" THEN writers_waiting
                       ELSE writers_waiting + 1
    PROVE  LockInv'
  <1>1. writers_waiting = Cardinality(Waiting) /\ writers_waiting \in Nat
    BY DEF LockInv, CountersExact, TypeOK
  <1>2. CASE /\ WriteBusy /\ writers_waiting' = announced
             /\ CondWait(t, "wrlock") /\ UNCHANGED <<readers, is_writing>>
    <2>1. Waiting' = Waiting \cup {t}
      BY <1>2, WaitingSet DEF LockInv, CondWait
    <2>2. writers_waiting' = Cardinality(Waiting')
      BY <1>1, <1>2, <2>1, WaitingCount DEF LockInv
    <2>3. WriteBusy'
      BY <1>2 DEF WriteBusy
    <2>4. writers_waiting' \in Nat /\ (writers_waiting # 0 => writers_waiting' # 0)
      BY <1>1, <1>2
    <2>5. QED
      BY <1>2, <2>2, <2>3, <2>4, SleepKeeps
  <1>3. CASE /\ ~WriteBusy /\ is_writing' = TRUE
             /\ writers_waiting' = announced - 1
             /\ ReturnWithWrite(t) /\ UNCHANGED readers
    <2>1. Waiting' = Waiting \ {t}
      BY <1>3, WaitingSet DEF LockInv, ReturnWithWrite
    <2>2. writers_waiting' = Cardinality(Waiting')
      <3>1. CASE pc[t] = "wrlock"
        BY <1>1, <1>3, <2>1, <3>1, WaitingCount DEF LockInv
      <3>2. CASE pc[t] # "wrlock"
        <4>1. Waiting' = Waiting
          BY <2>1, <3>2, WaitingCount DEF LockInv
        <4>2. QED
          BY <1>1, <1>3, <3>2, <4>1
      <3>3. QED
        BY <3>1, <3>2
    <2>3. IsFiniteSet(Waiting \ {t})
      BY Finite, FS_RemoveElement DEF LockInv
    <2>4. writers_waiting' \in Nat
      BY <2>1, <2>2, <2>3, FS_CardinalityType
    <2>5. QED
      BY <1>3, <2>2, <2>4, WriteKeeps
  <1>4. QED
    BY <1>2, <1>3 DEF WrTest

(* The fields name the lock that the thread calling unlock holds.          *)
LEMMA OwnLock ==
    ASSUME LockInv, NEW t \in Thread, Holds(t)
    PROVE  /\ is_writing => writer = t /\ reading = {}
           /\ ~is_writing => writer # t /\ readers > 0 /\ reading # {}
  <1>1. writer = t \/ reading # {}
    BY DEF Holds
  <1>2. t # NULL
    BY RwlockAssumption
  <1>3. is_writing => writer = t /\ reading = {}
    BY <1>1, <1>2, Fields DEF LockInv, Exclusion
  <1>4. ~is_writing => writer # t /\ readers > 0 /\ reading # {}
    BY <1>1, <1>2, Fields DEF LockInv, TypeOK
  <1>5. QED
    BY <1>3, <1>4

LEMMA UnlockKeeps ==
    ASSUME LockInv, NEW t \in Thread, Unlock(t)
    PROVE  LockInv'
  <1> USE DEF Unlock
  <1>1. Waiting' = Waiting
    BY DEF Waiting
  <1>2. CASE is_writing
    <2>1. writer = t /\ reading = {}
      BY <1>2, OwnLock
    <2>2. writer' = NULL /\ reading' = {} /\ asleep' = {} /\ ~is_writing'
      BY <1>2, <2>1 DEF Broadcast
    <2>3. TypeOK'
      BY <1>2, <2>2 DEF LockInv, TypeOK
    <2>4. CountersExact'
      BY <1>1, <1>2, <2>1, <2>2 DEF LockInv, CountersExact
    <2>5. QED
      BY <2>2, <2>3, <2>4 DEF LockInv, Exclusion, NoLostWakeup
  <1>3. CASE ~is_writing
    <2>1. writer # t /\ writer = NULL
      BY <1>3, OwnLock, Fields
    <2>2. PICK s \in Slot : /\ <<t, s>> \in reading
                            /\ reading' = reading \ {<<t, s>>}
                            /\ writer' = writer
      BY <2>1
    <2>3. readers' = readers - 1 /\ readers > 0 /\ is_writing' = is_writing
      BY <1>3
    <2>4. readers' = Cardinality(reading')
      BY <2>2, <2>3, Finite, FS_RemoveElement DEF LockInv, CountersExact
    <2>5. asleep' \subseteq asleep
      BY <1>3 DEF Broadcast
    <2>6. TypeOK'
      BY <2>2, <2>3, <2>5 DEF LockInv, TypeOK
    <2>7. CountersExact'
      BY <1>1, <2>2, <2>3, <2>4 DEF LockInv, CountersExact
    <2>8. Exclusion'
      BY <2>1, <2>2 DEF Exclusion
    <2>9. ASSUME NEW u \in asleep'
          PROVE  \/ pc'[u] = "rdlock" /\ ReadBusy'
                 \/ pc'[u] = "wrlock" /\ WriteBusy'
      <3>1. readers' # 0
        BY <1>3, <2>3, <2>9 DEF Broadcast, LockInv, TypeOK
      <3>2. u \in asleep
        BY <2>5
      <3>3. WriteBusy' /\ (ReadBusy => ReadBusy')
        BY <2>3, <3>1 DEF WriteBusy, ReadBusy
      <3>4. QED
        BY <3>2, <3>3 DEF LockInv, NoLostWakeup
    <2>10. QED
      BY <2>6, <2>7, <2>8, <2>9 DEF LockInv, NoLostWakeup
  <1>4. QED
    BY <1>2, <1>3

-----------------------------------------------------------------------------
LEMMA InitInv == Init => LockInv
  <1> SUFFICES ASSUME Init PROVE LockInv
    OBVIOUS
  <1>1. Waiting = {}
    BY DEF Init, Waiting
  <1>2. QED
    BY <1>1, FS_EmptySet DEF Init, LockInv, TypeOK, CountersExact, Exclusion,
       NoLostWakeup

(* An idle thread does not sleep.                                          *)
LEMMA IdleAwake ==
    ASSUME TypeOK, NEW t \in Thread, pc[t] = "idle"
    PROVE  t \notin asleep
  BY DEF TypeOK

LEMMA NextInv == LockInv /\ [Next]_vars => LockInv'
  <1> SUFFICES ASSUME LockInv, [Next]_vars PROVE LockInv'
    OBVIOUS
  <1>1. ASSUME NEW t \in Thread, RdLock(t) PROVE LockInv'
    BY <1>1, RdTestKeeps, IdleAwake DEF RdLock, MayRead, LockInv
  <1>2. ASSUME NEW t \in Thread, RdAgain(t) PROVE LockInv'
    BY <1>2, RdTestKeeps DEF RdAgain
  <1>3. ASSUME NEW t \in Thread, TryRdLock(t) PROVE LockInv'
    BY <1>3, ReadKeeps, IdleAwake DEF TryRdLock, MayRead, LockInv, ReadBusy
  <1>4. ASSUME NEW t \in Thread, WrLock(t) PROVE LockInv'
    BY <1>4, WrTestKeeps, IdleAwake DEF WrLock, MayWrite, LockInv
  <1>5. ASSUME NEW t \in Thread, WrAgain(t) PROVE LockInv'
    BY <1>5, WrTestKeeps DEF WrAgain
  <1>6. ASSUME NEW t \in Thread, TryWrLock(t) PROVE LockInv'
    <2>1. Waiting' = Waiting
      BY <1>6, WaitingSet, WaitingCount
         DEF TryWrLock, ReturnWithWrite, LockInv
    <2>2. ~WriteBusy /\ t \notin asleep
      BY <1>6, IdleAwake DEF TryWrLock, WriteBusy, LockInv
    <2>3. writers_waiting' = Cardinality(Waiting') /\ writers_waiting' \in Nat
      BY <1>6, <2>1 DEF TryWrLock, LockInv, CountersExact, TypeOK
    <2>4. QED
      BY <1>6, <2>2, <2>3, WriteKeeps DEF TryWrLock
  <1>7. ASSUME NEW t \in Thread, Spurious(t) PROVE LockInv'
    <2>1. Waiting' = Waiting
      BY <1>7 DEF Spurious, Waiting
    <2>2. QED
      BY <1>7, <2>1 DEF Spurious, fields, held, LockInv, TypeOK, CountersExact,
         Exclusion, NoLostWakeup, ReadBusy, WriteBusy
  <1>8. ASSUME NEW t \in Thread, Unlock(t) PROVE LockInv'
    BY <1>8, UnlockKeeps
  <1>9. CASE UNCHANGED vars
    <2>1. Waiting' = Waiting
      BY <1>9 DEF vars, Waiting
    <2>2. QED
      BY <1>9, <2>1 DEF vars, LockInv, TypeOK, CountersExact, Exclusion,
         NoLostWakeup, ReadBusy, WriteBusy
  <1>10. QED
    BY <1>1, <1>2, <1>3, <1>4, <1>5, <1>6, <1>7, <1>8, <1>9 DEF Next

(* The invariant of the lock, whatever its threads do.                     *)
THEOREM LockInvInvariant == Spec => []LockInv
  BY InitInv, NextInv, PTL DEF Spec

(* A writer is alone with the lock.                                        *)
THEOREM ExclusionHolds == Spec => []Exclusion
  <1>1. LockInv => Exclusion
    BY DEF LockInv
  <1>2. QED
    BY <1>1, LockInvInvariant, PTL

(* The fields of the lock have their types and count exactly.              *)
THEOREM CountersStayExact == Spec => [](TypeOK /\ CountersExact)
  <1>1. LockInv => TypeOK /\ CountersExact
    BY DEF LockInv
  <1>2. QED
    BY <1>1, LockInvInvariant, PTL

(* Nobody sleeps who could go on: two broadcasts are enough.               *)
THEOREM NoWakeupIsLost == Spec => []NoLostWakeup
  <1>1. LockInv => NoLostWakeup
    BY DEF LockInv
  <1>2. QED
    BY <1>1, LockInvInvariant, PTL

(* unlock neither fails nor gives up somebody else's lock.                 *)
THEOREM UnlockIsSafe == Spec => []UnlockKnowsItsLock
  <1>1. LockInv => UnlockKnowsItsLock
    BY OwnLock DEF UnlockKnowsItsLock
  <1>2. QED
    BY <1>1, LockInvInvariant, PTL

-----------------------------------------------------------------------------
(* A writer is in no loop, and who waits to write holds nothing.           *)
HolderPlaces ==
    \A t \in Thread : /\ writer = t => pc[t] = "idle"
                      /\ pc[t] = "wrlock" => ~Holds(t)

LEMMA HolderPlacesKept ==
    LockInv /\ HolderPlaces /\ [Next]_vars => HolderPlaces'
  <1> SUFFICES ASSUME LockInv, HolderPlaces, [Next]_vars PROVE HolderPlaces'
    OBVIOUS
  <1> USE DEF HolderPlaces, Holds
  <1>1. ASSUME NEW t \in Thread, RdLock(t) \/ RdAgain(t) \/ TryRdLock(t)
        PROVE  HolderPlaces'
    <2>1. pc[t] # "wrlock" /\ writer # t
      BY <1>1 DEF RdLock, RdAgain, TryRdLock, MayRead
    <2>2. \/ CondWait(t, "rdlock")
          \/ ReturnWithRead(t)
      BY <1>1 DEF RdLock, RdAgain, TryRdLock, RdTest
    <2>3. CASE CondWait(t, "rdlock")
      BY <2>1, <2>3 DEF CondWait, held, LockInv, TypeOK
    <2>4. CASE ReturnWithRead(t)
      <3>1. PICK s \in Slot : reading' = reading \cup {<<t, s>>}
        BY <2>4 DEF ReturnWithRead
      <3>2. pc' = [pc EXCEPT ![t] = "idle"] /\ writer' = writer
        BY <2>4 DEF ReturnWithRead
      <3>3. ASSUME NEW u \in Thread
            PROVE  /\ writer' = u => pc'[u] = "idle"
                   /\ pc'[u] = "wrlock" => ~Holds(u)'
        BY <3>1, <3>2, <3>3 DEF LockInv, TypeOK
      <3>4. QED
        BY <3>3
    <2>5. QED
      BY <2>2, <2>3, <2>4
  <1>2. ASSUME NEW t \in Thread, WrLock(t) \/ WrAgain(t) \/ TryWrLock(t)
        PROVE  HolderPlaces'
    <2>1. CASE CondWait(t, "wrlock") /\ (WrLock(t) \/ WrAgain(t))
      <3>1. ~Holds(t)
        BY <2>1 DEF WrLock, WrAgain, MayWrite
      <3>2. QED
        BY <2>1, <3>1 DEF CondWait, held, LockInv, TypeOK
    <2>2. CASE ReturnWithWrite(t) /\ ~WriteBusy
      <3>1. writer = NULL /\ reading = {}
        BY <2>2, Fields DEF WriteBusy
      <3>2. QED
        BY <2>2, <3>1, RwlockAssumption DEF ReturnWithWrite, LockInv, TypeOK
    <2>3. QED
      BY <1>2, <2>1, <2>2 DEF WrLock, WrAgain, TryWrLock, WrTest, WriteBusy
  <1>3. ASSUME NEW t \in Thread, Unlock(t) PROVE HolderPlaces'
    BY <1>3, RwlockAssumption DEF Unlock, LockInv, TypeOK
  <1>4. CASE \/ \E t \in Thread : Spurious(t)
             \/ UNCHANGED vars
    BY <1>4 DEF Spurious, held, vars
  <1>5. QED
    BY <1>1, <1>2, <1>3, <1>4 DEF Next

(* Threads that sleep wait for one that does not, unless a reader asked    *)
(* for a second lock.                                                      *)
THEOREM WaitsEnd == Spec => []WaitHasEnd
  <1>1. Init => HolderPlaces
    BY RwlockAssumption DEF Init, HolderPlaces, Holds
  <1>2. LockInv /\ HolderPlaces => WaitHasEnd
    <2> SUFFICES ASSUME LockInv, HolderPlaces, NEW t \in asleep,
                        \A u \in Thread \ asleep : ~Holds(u) /\ pc[u] = "idle"
                 PROVE  \E u \in asleep : Holds(u) /\ pc[u] = "rdlock"
      BY DEF WaitHasEnd
    <2>1. asleep \subseteq {u \in Thread : pc[u] # "idle"}
      BY DEF LockInv, TypeOK
    <2>2. writer = NULL
      BY <2>1 DEF LockInv, TypeOK, HolderPlaces, Holds
    <2>3. ASSUME NEW u \in asleep, pc[u] = "wrlock"
          PROVE  reading # {}
      BY <2>2, <2>3, Fields DEF LockInv, NoLostWakeup, WriteBusy
    <2>4. reading # {}
      <3>1. CASE pc[t] = "wrlock"
        BY <2>3, <3>1
      <3>2. CASE pc[t] = "rdlock"
        <4>1. Waiting # {}
          BY <2>2, <3>2, Fields DEF LockInv, NoLostWakeup, ReadBusy
        <4>2. QED
          BY <2>3, <4>1 DEF Waiting
      <3>3. QED
        BY <2>1, <3>1, <3>2 DEF LockInv, TypeOK
    <2>5. PICK u \in Thread, s \in Slot : <<u, s>> \in reading
      BY <2>4 DEF LockInv, TypeOK
    <2>6. Holds(u)
      BY <2>5 DEF Holds
    <2>7. u \in asleep /\ pc[u] = "rdlock"
      BY <2>1, <2>6 DEF HolderPlaces, LockInv, TypeOK
    <2>8. QED
      BY <2>6, <2>7
  <1>3. QED
    BY <1>1, <1>2, HolderPlacesKept, LockInvInvariant, PTL DEF Spec

-----------------------------------------------------------------------------
(* A read lock is only returned with when the abstract lock gives it.      *)
LEMMA ReadAcquires ==
    ASSUME LockInv, NEW t \in Thread, pc[t] # "wrlock", ~ReadBusy,
           ReturnWithRead(t)
    PROVE  Lock!AcquireRead(t)
  <1>1. Waiting = {} /\ Waiting' = Waiting
    BY WaitingSet, WaitingCount, Fields DEF LockInv, ReturnWithRead, ReadBusy
  <1>2. writer = NULL
    BY Fields DEF ReadBusy
  <1>3. QED
    BY <1>1, <1>2 DEF Lock!AcquireRead, ReturnWithRead

LEMMA WriteAcquires ==
    ASSUME LockInv, NEW t \in Thread, ~WriteBusy, ReturnWithWrite(t)
    PROVE  Lock!AcquireWrite(t)
  <1>1. Waiting' = Waiting \ {t}
    BY WaitingSet DEF LockInv, ReturnWithWrite
  <1>2. reading = {} /\ writer = NULL
    BY Fields DEF WriteBusy
  <1>3. QED
    BY <1>1, <1>2 DEF Lock!AcquireWrite, ReturnWithWrite

LEMMA StepImplements ==
    LockInv /\ [Next]_vars => [Lock!LockNext]_(Lock!lockVars)
  <1> SUFFICES ASSUME LockInv, [Next]_vars
               PROVE  Lock!LockNext \/ UNCHANGED <<reading, writer, Waiting>>
    BY DEF Lock!lockVars
  <1>1. ASSUME NEW t \in Thread, RdLock(t) \/ RdAgain(t) \/ TryRdLock(t)
        PROVE  Lock!LockNext \/ UNCHANGED <<reading, writer, Waiting>>
    <2>1. pc[t] # "wrlock"
      BY <1>1 DEF RdLock, RdAgain, TryRdLock, MayRead
    <2>2. CASE CondWait(t, "rdlock")
      BY <2>1, <2>2, WaitingSet, WaitingCount DEF CondWait, held, LockInv
    <2>3. CASE ~ReadBusy /\ ReturnWithRead(t)
      BY <2>1, <2>3, ReadAcquires DEF Lock!LockNext
    <2>4. QED
      BY <1>1, <2>2, <2>3 DEF RdLock, RdAgain, TryRdLock, RdTest, ReadBusy
  <1>2. ASSUME NEW t \in Thread, WrLock(t) \/ WrAgain(t) \/ TryWrLock(t)
        PROVE  Lock!LockNext \/ UNCHANGED <<reading, writer, Waiting>>
    <2>1. CASE WriteBusy /\ CondWait(t, "wrlock")
      <3>1. Waiting' = Waiting \cup {t}
        BY <2>1, WaitingSet DEF CondWait, LockInv
      <3>2. reading # {} \/ writer # NULL
        BY <2>1, Fields DEF WriteBusy
      <3>3. Lock!AwaitWrite(t)
        BY <2>1, <3>1, <3>2 DEF Lock!AwaitWrite, CondWait, held
      <3>4. QED
        BY <3>3 DEF Lock!LockNext
    <2>2. CASE ~WriteBusy /\ ReturnWithWrite(t)
      BY <2>2, WriteAcquires DEF Lock!LockNext
    <2>3. QED
      BY <1>2, <2>1, <2>2 DEF WrLock, WrAgain, TryWrLock, WrTest, WriteBusy
  <1>3. ASSUME NEW t \in Thread, Unlock(t)
        PROVE  Lock!LockNext \/ UNCHANGED <<reading, writer, Waiting>>
    <2>1. Waiting' = Waiting
      BY <1>3 DEF Unlock, Waiting
    <2>2. Lock!ReleaseRead(t) \/ Lock!ReleaseWrite(t)
      BY <1>3, <2>1 DEF Unlock, Lock!ReleaseRead, Lock!ReleaseWrite
    <2>3. QED
      BY <2>2 DEF Lock!LockNext
  <1>4. CASE \/ \E t \in Thread : Spurious(t)
             \/ UNCHANGED vars
    BY <1>4 DEF Spurious, held, vars, Waiting
  <1>5. QED
    BY <1>1, <1>2, <1>3, <1>4 DEF Next

(* aodbm_rwlock is a lock that lets no reader overtake a waiting writer.   *)
THEOREM ImplementsTheLock == Spec => ImplementsLock
  <1>1. Init => Lock!LockInit
    BY DEF Init, Lock!LockInit, Waiting
  <1>2. QED
    BY <1>1, StepImplements, LockInvInvariant, PTL
       DEF Spec, ImplementsLock, Lock!LockSpec
=============================================================================
