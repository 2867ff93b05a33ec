---------------------------- MODULE WriterFirstLock ----------------------------
(***************************************************************************)
(* What aodbm_rwlock promises, with no mutex, no counter and no sleeping   *)
(* thread: any number of readers or one writer, and no new reader while a  *)
(* writer waits.                                                           *)
(***************************************************************************)
CONSTANTS
    Thread,
    Slot,    \* a thread may hold this many read locks at a time
    NULL     \* no thread

ASSUME LockAssumption == NULL \notin Thread

VARIABLES
    reading,  \* the read locks held: pairs of a thread and a slot
    writer,   \* the thread that holds the write lock, or NULL
    waiting   \* the threads that asked for the write lock and wait

lockVars == <<reading, writer, waiting>>

LockInit == reading = {} /\ writer = NULL /\ waiting = {}

HoldsRead(t) == \E s \in Slot : <<t, s>> \in reading

AcquireRead(t) ==
    /\ writer = NULL
    /\ waiting = {}
    /\ \E s \in Slot : /\ <<t, s>> \notin reading
                       /\ reading' = reading \cup {<<t, s>>}
    /\ UNCHANGED <<writer, waiting>>

ReleaseRead(t) ==
    /\ \E s \in Slot : /\ <<t, s>> \in reading
                       /\ reading' = reading \ {<<t, s>>}
    /\ UNCHANGED <<writer, waiting>>

(* A writer has to wait: only as long as there is someone to wait for.     *)
AwaitWrite(t) ==
    /\ reading # {} \/ writer # NULL
    /\ waiting' = waiting \cup {t}
    /\ UNCHANGED <<reading, writer>>

(* At once, after having waited, or by a try that overtakes those waiting. *)
AcquireWrite(t) ==
    /\ reading = {} /\ writer = NULL
    /\ writer' = t
    /\ waiting' = waiting \ {t}
    /\ UNCHANGED reading

ReleaseWrite(t) ==
    /\ writer = t
    /\ writer' = NULL
    /\ UNCHANGED <<reading, waiting>>

LockNext == \E t \in Thread :
    \/ AcquireRead(t) \/ ReleaseRead(t)
    \/ AwaitWrite(t) \/ AcquireWrite(t) \/ ReleaseWrite(t)

LockSpec == LockInit /\ [][LockNext]_lockVars
=============================================================================
