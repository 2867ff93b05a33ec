------------------------------ MODULE AodbmRwlock ------------------------------
(***************************************************************************)
(* aodbm_rwlock: a mutex, a condition variable and three fields.  Every    *)
(* function keeps the mutex from its first to its last access to a field,  *)
(* except in pthread_cond_wait.  A step is therefore what a thread does    *)
(* from taking the mutex to giving it up, at the end or to sleep.          *)
(***************************************************************************)
EXTENDS Integers, FiniteSets

CONSTANTS
    Thread,
    Slot,    \* a thread takes at most this many read locks at a time
    NULL     \* no thread

ASSUME RwlockAssumption ==
    /\ IsFiniteSet(Thread) /\ NULL \notin Thread
    /\ IsFiniteSet(Slot)

VARIABLES
    readers, writers_waiting, is_writing,  \* the fields of aodbm_rwlock_t
    pc,       \* "rdlock", "wrlock": in the loop of that call; else "idle"
    asleep,   \* the threads in pthread_cond_wait that no one has woken
    reading,  \* the read locks calls have returned with: (thread, slot)
    writer    \* the thread a call has returned to with the write lock

fields == <<readers, writers_waiting, is_writing>>
held   == <<reading, writer>>
vars   == <<readers, writers_waiting, is_writing, pc, asleep, reading, writer>>

Holds(t)     == writer = t \/ \E s \in Slot : <<t, s>> \in reading
ReadBusy     == is_writing \/ writers_waiting # 0
WriteBusy    == readers # 0 \/ is_writing

(* pthread_cond_wait: the mutex is given up and the thread sleeps.         *)
CondWait(t, call) == /\ asleep' = asleep \cup {t}
                     /\ pc' = [pc EXCEPT ![t] = call]
                     /\ UNCHANGED held

(* The call returns with a lock, in any slot that is free.                 *)
ReturnWithRead(t) ==
    /\ \E s \in Slot : /\ <<t, s>> \notin reading
                       /\ reading' = reading \cup {<<t, s>>}
    /\ pc' = [pc EXCEPT ![t] = "idle"]
    /\ UNCHANGED <<asleep, writer>>

ReturnWithWrite(t) == /\ writer' = t
                      /\ pc' = [pc EXCEPT ![t] = "idle"]
                      /\ UNCHANGED <<asleep, reading>>

-----------------------------------------------------------------------------
(* The application takes a lock only when it may: not to write while it    *)
(* holds the lock, and not to read while it writes.                        *)
MayRead(t)  == /\ pc[t] = "idle" /\ writer # t
               /\ \E s \in Slot : <<t, s>> \notin reading
MayWrite(t) == pc[t] = "idle" /\ ~Holds(t)

(* Mutant: readers do not mind writers that wait.                          *)
RdTestEager(t) ==
    \/ /\ is_writing
       /\ CondWait(t, "rdlock")
       /\ UNCHANGED fields
    \/ /\ ~is_writing
       /\ readers' = readers + 1
       /\ ReturnWithRead(t)
       /\ UNCHANGED <<writers_waiting, is_writing>>

(* The loop of aodbm_rwlock_rdlock, once around.                           *)
RdTest(t) ==
    \/ /\ ReadBusy
       /\ CondWait(t, "rdlock")
       /\ UNCHANGED fields
    \/ /\ ~ReadBusy
       /\ readers' = readers + 1
       /\ ReturnWithRead(t)
       /\ UNCHANGED <<writers_waiting, is_writing>>

RdLock(t)  == MayRead(t) /\ RdTest(t)
RdAgain(t) == pc[t] = "rdlock" /\ t \notin asleep /\ RdTest(t)

(* Mutant: a writer only looks at the other writers.                       *)
WrTestWriters(t, announced) ==
    \/ /\ is_writing
       /\ writers_waiting' = announced
       /\ CondWait(t, "wrlock")
       /\ UNCHANGED <<readers, is_writing>>
    \/ /\ ~is_writing
       /\ is_writing' = TRUE
       /\ writers_waiting' = announced - 1
       /\ ReturnWithWrite(t)
       /\ UNCHANGED readers

(* Mutant: a writer does not announce itself before the loop.              *)
WrTestUnannounced(t, announced) ==
    \/ /\ WriteBusy
       /\ writers_waiting' = writers_waiting
       /\ CondWait(t, "wrlock")
       /\ UNCHANGED <<readers, is_writing>>
    \/ /\ ~WriteBusy
       /\ is_writing' = TRUE
       /\ writers_waiting' = writers_waiting - 1
       /\ ReturnWithWrite(t)
       /\ UNCHANGED readers

(* The loop of aodbm_rwlock_wrlock, announced once before it.              *)
WrTest(t, announced) ==
    \/ /\ WriteBusy
       /\ writers_waiting' = announced
       /\ CondWait(t, "wrlock")
       /\ UNCHANGED <<readers, is_writing>>
    \/ /\ ~WriteBusy
       /\ is_writing' = TRUE
       /\ writers_waiting' = announced - 1
       /\ ReturnWithWrite(t)
       /\ UNCHANGED readers

WrLock(t)  == MayWrite(t) /\ WrTest(t, writers_waiting + 1)
WrAgain(t) == /\ pc[t] = "wrlock" /\ t \notin asleep
              /\ WrTest(t, writers_waiting)

(* pthread_cond_wait may return without having been woken.                 *)
Spurious(t) ==
    /\ t \in asleep
    /\ asleep' = asleep \ {t}
    /\ UNCHANGED <<fields, pc, held>>

-----------------------------------------------------------------------------
(* The try variants never sleep; a try that fails changes nothing.         *)
TryRdLock(t) ==
    /\ MayRead(t)
    /\ ~is_writing /\ writers_waiting = 0
    /\ readers' = readers + 1
    /\ ReturnWithRead(t)
    /\ UNCHANGED <<writers_waiting, is_writing>>

TryWrLock(t) ==
    /\ pc[t] = "idle" /\ writer # t
    /\ readers = 0 /\ ~is_writing
    /\ is_writing' = TRUE
    /\ ReturnWithWrite(t)
    /\ UNCHANGED <<readers, writers_waiting>>

-----------------------------------------------------------------------------
(* pthread_cond_broadcast wakes everyone.                                  *)
Broadcast == asleep' = {}

(* Mutant: pthread_cond_signal in its place wakes one thread.              *)
UnlockSignal(t) ==
    /\ pc[t] = "idle" /\ Holds(t)
    /\ \/ /\ is_writing
          /\ is_writing' = FALSE
          /\ \/ asleep = {} /\ asleep' = {}
             \/ \E u \in asleep : asleep' = asleep \ {u}
          /\ UNCHANGED readers
       \/ /\ ~is_writing /\ readers > 0
          /\ readers' = readers - 1
          /\ IF readers = 1 THEN Broadcast ELSE UNCHANGED asleep
          /\ UNCHANGED is_writing
    /\ \/ writer = t /\ writer' = NULL /\ UNCHANGED reading
       \/ \E s \in Slot : /\ <<t, s>> \in reading
                          /\ reading' = reading \ {<<t, s>>}
                          /\ UNCHANGED writer
    /\ UNCHANGED <<writers_waiting, pc>>

(* aodbm_rwlock_unlock looks at the fields to see which lock is given up.  *)
(* Its third branch, AODBM_CUSTOM_ERROR, is one UnlockKnowsItsLock rules   *)
(* out.                                                                    *)
Unlock(t) ==
    /\ pc[t] = "idle" /\ Holds(t)
    /\ \/ /\ is_writing
          /\ is_writing' = FALSE
          /\ Broadcast
          /\ UNCHANGED readers
       \/ /\ ~is_writing /\ readers > 0
          /\ readers' = readers - 1
          /\ IF readers = 1 THEN Broadcast ELSE UNCHANGED asleep
          /\ UNCHANGED is_writing
    /\ \/ writer = t /\ writer' = NULL /\ UNCHANGED reading
       \/ \E s \in Slot : /\ <<t, s>> \in reading
                          /\ reading' = reading \ {<<t, s>>}
                          /\ UNCHANGED writer
    /\ UNCHANGED <<writers_waiting, pc>>

-----------------------------------------------------------------------------
Init == /\ readers = 0 /\ writers_waiting = 0 /\ is_writing = FALSE
        /\ pc = [t \in Thread |-> "idle"]
        /\ asleep = {}
        /\ reading = {} /\ writer = NULL

Next == \E t \in Thread :
    \/ RdLock(t) \/ RdAgain(t) \/ TryRdLock(t)
    \/ WrLock(t) \/ WrAgain(t) \/ TryWrLock(t)
    \/ Spurious(t) \/ Unlock(t)

Spec == Init /\ [][Next]_vars

(* A thread that has been woken looks again, and one that holds the lock   *)
(* gives it back, unless it is itself waiting for another.                 *)
Fairness == \A t \in Thread : /\ WF_vars(RdAgain(t))
                              /\ WF_vars(WrAgain(t))
                              /\ WF_vars(Unlock(t))

FairSpec == Spec /\ Fairness

-----------------------------------------------------------------------------
(* Properties.                                                             *)

(* Every field has its type, the sleepers are in a loop, and held locks    *)
(* belong to threads.                                                      *)
TypeOK ==
    /\ readers \in Nat /\ writers_waiting \in Nat /\ is_writing \in BOOLEAN
    /\ pc \in [Thread -> {"idle", "rdlock", "wrlock"}]
    /\ asleep \subseteq {t \in Thread : pc[t] # "idle"}
    /\ reading \subseteq Thread \X Slot
    /\ writer \in Thread \cup {NULL}

(* While a thread holds the write lock, no other lock is held: what       *)
(* aodbm_read relies on when it replaces the mapping.                      *)
Exclusion == writer # NULL => reading = {}

(* The counters say what is held and who waits, through sleeping, waking   *)
(* and trying; a count that drifts shuts readers or writers out for good.  *)
Waiting == {t \in Thread : pc[t] = "wrlock"}

CountersExact ==
    /\ readers = Cardinality(reading)
    /\ writers_waiting = Cardinality(Waiting)
    /\ is_writing <=> writer # NULL

(* A thread that gives up a lock finds it in the fields: it neither ends   *)
(* in "invalid rwlock state" nor gives up the lock of another.             *)
UnlockKnowsItsLock ==
    \A t \in Thread : Holds(t) => /\ is_writing \/ readers > 0
                                  /\ is_writing => writer = t

(* No wakeup is lost: whoever sleeps would have to wait if it looked now.  *)
(* Only the last reader and a writer broadcast, and that is enough.        *)
NoLostWakeup ==
    \A t \in asleep : \/ pc[t] = "rdlock" /\ ReadBusy
                      \/ pc[t] = "wrlock" /\ WriteBusy

(* Someone who sleeps waits for someone who does not: for a thread that    *)
(* holds the lock and runs, or has been woken; unless a reader asked for a *)
(* second lock while a writer waited, and the two wait for each other.     *)
WaitHasEnd ==
    asleep # {} => \/ \E t \in Thread \ asleep : Holds(t) \/ pc[t] # "idle"
                   \/ \E t \in asleep : Holds(t) /\ pc[t] = "rdlock"

(* A reader waits for a second lock.                                       *)
Nested == \E t \in Thread : Holds(t) /\ pc[t] = "rdlock"

(* "won't stave the writers": readers that keep coming do not keep a       *)
(* waiting writer out, unless one of them asks again for what it holds.    *)
(* Between writers there is no order.                                      *)
WritersGetIn == writers_waiting # 0 ~> is_writing \/ Nested

(* Readers wait only for writers: once there are none, a reader gets in.   *)
ReadersGetIn ==
    \A t \in Thread :
        <>[](writers_waiting = 0 /\ ~is_writing) => []<>(pc[t] # "rdlock")

Lock == INSTANCE WriterFirstLock WITH waiting <- Waiting

(* The fields, the condition variable and the loops implement the abstract *)
(* lock: in particular no call returns with a read lock while one waits to *)
(* write.                                                                  *)
ImplementsLock == Lock!LockSpec
=============================================================================
