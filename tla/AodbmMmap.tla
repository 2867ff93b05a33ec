------------------------------- MODULE AodbmMmap -------------------------------
(***************************************************************************)
(* aodbm_read as it is built with AODBM_USE_MMAP: most of the file is      *)
(* mapped, the mapping grows under the write lock of mmap_mut, and what    *)
(* lies behind the last full page is read through stdio under rw.          *)
(*                                                                         *)
(* mmap_mut is the abstract lock of WriterFirstLock, which AodbmRwlock     *)
(* implements.  The file is counted in cells, one for each field a read    *)
(* asks for.  A call that appends is aodbm_del or aodbm_commit.            *)
(***************************************************************************)
EXTENDS WriterFirstLock, Integers

CONSTANTS
    PageSize,   \* cells to a page
    BufSize,    \* the cells stdio keeps back at most
    MaxFile     \* no block is begun in a file of this many cells

ASSUME MmapAssumption ==
    /\ PageSize \in Nat \ {0} /\ BufSize \in Nat /\ MaxFile \in Nat
    /\ \E s \in Slot : Slot = {s}

VARIABLES
    file_size, mapping_size,  \* of struct aodbm; mapping is NULL iff it is 0
    kernel,     \* the cells that have left the stdio buffer
    rw,         \* the thread that holds db->rw, or NULL
    phase,      \* what the holder of rw is doing: "del", "block", "version"
    pc,         \* thread -> where it is in aodbm_read, or "idle"
    cell,       \* thread -> the cell it reads
    new_size,   \* thread -> new_size; at "size", db->file_size as first loaded
    right,      \* thread -> its last read gave what was written
    known,      \* end of the blocks whose calls have returned
    committed,  \* end of the last block of a commit that has returned
    ended       \* AODBM_OS_ERROR has ended the process

mmapVars == <<lockVars, file_size, mapping_size, kernel, rw, phase, pc, cell,
              new_size, right, known, committed, ended>>
readVars == <<cell, new_size, right>>
fileVars == <<file_size, kernel, rw, phase, known, committed, ended>>

Huge == -1  \* a size_t that went below zero: no mapping can be that large

Goto(t, l) == pc' = [pc EXCEPT ![t] = l]

(* aodbm_read returns, and its variables are gone.                         *)
Return(t, answer) == /\ Goto(t, "idle")
                     /\ right' = [right EXCEPT ![t] = answer]
                     /\ cell' = [cell EXCEPT ![t] = 0]
                     /\ new_size' = [new_size EXCEPT ![t] = 0]

-----------------------------------------------------------------------------
(* Any cell of a block the caller can know of.                             *)
Read(t) ==
    /\ pc[t] = "idle"
    /\ rw = t => phase = "del"
    /\ \E c \in 0..known - 1 : cell' = [cell EXCEPT ![t] = c]
    /\ right' = [right EXCEPT ![t] = TRUE]
    /\ Goto(t, "rdlock")
    /\ UNCHANGED <<lockVars, fileVars, mapping_size, new_size>>

RdLock(t) ==
    /\ pc[t] = "rdlock"
    /\ AcquireRead(t)
    /\ Goto(t, "check")
    /\ UNCHANGED <<readVars, fileVars, mapping_size>>

(* db->file_size is not protected by mmap_mut and is loaded twice.         *)
Check(t) ==
    /\ pc[t] = "check"
    /\ \/ /\ mapping_size > cell[t]
          /\ Goto(t, "copy")
          /\ UNCHANGED new_size
       \/ /\ mapping_size <= cell[t]
          /\ Goto(t, "size")
          /\ new_size' = [new_size EXCEPT ![t] = file_size]
    /\ UNCHANGED <<lockVars, fileVars, mapping_size, cell, right>>

(* Mutant: rounded up to whole pages.                                      *)
SizeOfRoundedUp(total, rest) ==
    IF rest % PageSize = 0 THEN total ELSE total - (rest % PageSize) + PageSize

SizeOf(total, rest) ==
    IF total - (rest % PageSize) < 0 THEN Huge
                                     ELSE total - (rest % PageSize)

(* Mutant: the read lock is kept while rw is waited for.                   *)
SizeKept(t) ==
    /\ pc[t] = "size"
    /\ \E n \in {SizeOf(new_size[t], file_size), SizeOf(file_size, new_size[t])} :
          /\ new_size' = [new_size EXCEPT ![t] = n]
          /\ IF n # Huge /\ n <= cell[t]
                THEN Goto(t, "direct") /\ UNCHANGED lockVars
                ELSE Goto(t, "wrlock") /\ ReleaseRead(t)
    /\ UNCHANGED <<fileVars, mapping_size, cell, right>>

(* The operands of the subtraction may be loaded in either order.          *)
Size(t) ==
    /\ pc[t] = "size"
    /\ \E n \in {SizeOf(new_size[t], file_size), SizeOf(file_size, new_size[t])} :
          /\ new_size' = [new_size EXCEPT ![t] = n]
          /\ Goto(t, IF n # Huge /\ n <= cell[t] THEN "direct" ELSE "wrlock")
    /\ ReleaseRead(t)
    /\ UNCHANGED <<fileVars, mapping_size, cell, right>>

(* fseeko before the read hands stdio's buffer to the kernel.              *)
Direct(t) ==
    /\ pc[t] = "direct"
    /\ rw \in {NULL, t}
    /\ kernel' = file_size
    /\ Return(t, TRUE)
    /\ UNCHANGED <<lockVars, mapping_size, file_size, rw, phase, known,
                   committed, ended>>

WrLockWait(t) ==
    /\ pc[t] = "wrlock" /\ t \notin waiting
    /\ AwaitWrite(t)
    /\ UNCHANGED <<pc, readVars, fileVars, mapping_size>>

(* Mutant: the mapping is replaced while others may be reading from it.     *)
WrLockShared(t) ==
    /\ pc[t] = "wrlock"
    /\ writer = NULL
    /\ writer' = t
    /\ waiting' = waiting \ {t}
    /\ Goto(t, "map")
    /\ UNCHANGED <<reading, readVars, fileVars, mapping_size>>

WrLock(t) ==
    /\ pc[t] = "wrlock"
    /\ AcquireWrite(t)
    /\ Goto(t, "map")
    /\ UNCHANGED <<readVars, fileVars, mapping_size>>

(* Mutant: the size is not compared again under the write lock.            *)
MapUnchecked(t) ==
    /\ pc[t] = "map"
    /\ new_size[t] # Huge
    /\ mapping_size' = new_size[t]
    /\ ReleaseWrite(t)
    /\ Goto(t, "rdagain")
    /\ new_size' = [new_size EXCEPT ![t] = 0]
    /\ UNCHANGED <<cell, right, fileVars>>

(* mmap the first time, mremap only to grow: another thread may have done  *)
(* either since new_size was worked out.                                   *)
Map(t) ==
    /\ pc[t] = "map"
    /\ new_size[t] # Huge
    /\ mapping_size' = IF mapping_size < new_size[t] THEN new_size[t]
                                                     ELSE mapping_size
    /\ ReleaseWrite(t)
    /\ Goto(t, "rdagain")
    /\ new_size' = [new_size EXCEPT ![t] = 0]
    /\ UNCHANGED <<cell, right, fileVars>>

MapFails(t) ==
    /\ pc[t] = "map"
    /\ new_size[t] = Huge
    /\ ended' = TRUE
    /\ UNCHANGED <<lockVars, mapping_size, pc, readVars, file_size, kernel, rw,
                   phase, known, committed>>

RdLockAgain(t) ==
    /\ pc[t] = "rdagain"
    /\ AcquireRead(t)
    /\ Goto(t, "copy")
    /\ UNCHANGED <<readVars, fileVars, mapping_size>>

(* The mapping shows the file: what is still in the stdio buffer is not in *)
(* it, but zeros are, or nothing at all.                                   *)
Copy(t) ==
    /\ pc[t] = "copy"
    /\ Return(t, cell[t] < kernel)
    /\ ReleaseRead(t)
    /\ UNCHANGED <<fileVars, mapping_size>>

-----------------------------------------------------------------------------
(* The calls that append hold rw throughout.  aodbm_del reads, then writes *)
(* a data block; aodbm_write_version writes a version block.               *)
AppendLock(t) ==
    /\ pc[t] = "idle" /\ rw = NULL /\ file_size < MaxFile
    /\ rw' = t
    /\ phase' \in {"del", "version"}
    /\ UNCHANGED <<lockVars, mapping_size, file_size, kernel, pc, readVars,
                   known, committed, ended>>

(* fwrite keeps back at most a buffer full.                                *)
WriteBytes(t) ==
    /\ rw = t /\ pc[t] = "idle"
    /\ file_size < MaxFile + 1
    /\ phase' = IF phase = "del" THEN "block" ELSE phase
    /\ file_size' = file_size + 1
    /\ kernel' \in {k \in kernel..file_size' : file_size' - k <= BufSize}
    /\ UNCHANGED <<lockVars, mapping_size, rw, pc, readVars, known, committed,
                   ended>>

DelUnlock(t) ==
    /\ rw = t /\ phase = "block"
    /\ rw' = NULL /\ phase' = "none"
    /\ known' = file_size
    /\ UNCHANGED <<lockVars, mapping_size, file_size, kernel, pc, readVars,
                   committed, ended>>

(* Mutant: the version block is not flushed.                               *)
VersionUnlockUnflushed(t) ==
    /\ rw = t /\ phase = "version" /\ file_size > known
    /\ rw' = NULL /\ phase' = "none"
    /\ known' = file_size /\ committed' = file_size
    /\ UNCHANGED <<lockVars, mapping_size, file_size, kernel, pc, readVars,
                   ended>>

VersionUnlock(t) ==
    /\ rw = t /\ phase = "version" /\ file_size > known
    /\ kernel' = file_size
    /\ rw' = NULL /\ phase' = "none"
    /\ known' = file_size /\ committed' = file_size
    /\ UNCHANGED <<lockVars, mapping_size, file_size, pc, readVars, ended>>

-----------------------------------------------------------------------------
(* aodbm_open maps the full pages of what the file has.                    *)
MmapInit ==
    /\ LockInit
    /\ file_size \in 0..MaxFile
    /\ mapping_size = SizeOf(file_size, file_size)
    /\ kernel = file_size /\ known = file_size /\ committed = file_size
    /\ rw = NULL /\ phase = "none"
    /\ pc = [t \in Thread |-> "idle"]
    /\ cell = [t \in Thread |-> 0]
    /\ new_size = [t \in Thread |-> 0]
    /\ right = [t \in Thread |-> TRUE]
    /\ ended = FALSE

(* aodbm_close, when nothing is going on, and aodbm_open of the same file. *)
Reopen ==
    /\ \A t \in Thread : pc[t] = "idle"
    /\ rw = NULL
    /\ kernel' = file_size /\ committed' = file_size
    /\ mapping_size' = SizeOf(file_size, file_size)
    /\ UNCHANGED <<lockVars, file_size, rw, phase, pc, readVars, known, ended>>

ReadStep(t) ==
    /\ ~ended
    /\ \/ RdLock(t) \/ Check(t) \/ Size(t) \/ Direct(t)
       \/ WrLockWait(t) \/ WrLock(t) \/ Map(t) \/ MapFails(t)
       \/ RdLockAgain(t) \/ Copy(t)

AppendStep(t) == ~ended /\ (WriteBytes(t) \/ DelUnlock(t) \/ VersionUnlock(t))

MmapNext ==
    \/ \E t \in Thread : \/ ReadStep(t) \/ AppendStep(t)
                         \/ ~ended /\ (Read(t) \/ AppendLock(t))
    \/ ~ended /\ Reopen
    \/ ended /\ UNCHANGED mmapVars

MmapSpec == MmapInit /\ [][MmapNext]_mmapVars

(* Threads run, locks that are free again and again are not denied to one  *)
(* of them forever, and a block that has been begun is finished.           *)
MmapFairness ==
    \A t \in Thread : /\ SF_mmapVars(ReadStep(t))
                      /\ SF_mmapVars(AppendStep(t))

-----------------------------------------------------------------------------
(* Properties.                                                             *)

(* A thread holds mmap_mut exactly where aodbm_read has taken it and not   *)
(* yet given it up; and neither the mapping nor anything that is known     *)
(* reaches behind what has been appended.                                  *)
MmapTypeOK ==
    /\ \A t \in Thread :
          /\ HoldsRead(t) <=> pc[t] \in {"check", "size", "copy"}
          /\ writer = t <=> pc[t] = "map"
          /\ pc[t] # "idle" => cell[t] < known
          /\ new_size[t] \in {Huge} \cup 0..file_size
    /\ waiting \subseteq {t \in Thread : pc[t] = "wrlock"}
    /\ committed <= known /\ known <= file_size
    /\ kernel <= file_size /\ mapping_size <= file_size
    /\ rw = NULL <=> phase = "none"

(* The bytes copied lie inside the mapping, although its size was worked   *)
(* out without it and two other locks were taken and given up since.       *)
CopyStaysInMapping ==
    \A t \in Thread : pc[t] = "copy" => cell[t] < mapping_size

(* While one thread copies, no other moves or replaces the mapping.        *)
MappingStaysPut ==
    [][(\E t \in Thread : pc[t] = "copy") => mapping_size' = mapping_size]_mmapVars

(* What a commit has made the current version, with all that lies before   *)
(* it, is read back as it was written, mapped or not.                      *)
CommittedReadRight ==
    [][\A t \in Thread :
          pc[t] # "idle" /\ pc'[t] = "idle" /\ cell[t] < committed => right'[t]]_mmapVars

(* A read returns, or the process has ended: rw is not waited for with     *)
(* mmap_mut held, while mmap_mut is waited for with rw held.               *)
ReadReturns == \A t \in Thread : pc[t] # "idle" ~> pc[t] = "idle" \/ ended

(* "version['hello'] = 'world'", then "version['hello']" gives "world":   *)
(* what a call has written is what the next read of it gives.              *)
ReadBack == \A t \in Thread : right[t]
=============================================================================
