# aodbm in TLA+

Specifications, model checks and proofs for aodbm, an append-only key-value
store in C with a Python wrapper. A database is one file. Every `aodbm_set` and
`aodbm_del` appends a data block with the rewritten part of a B+ tree and
returns a *version*, the offset of the new root. `aodbm_commit` appends a
version block that makes a version the *head*. Nothing in the file is ever
overwritten, and `aodbm_open` scans the blocks to find the head again.

Paths below are relative to the repository (`src/`).

## The system

| Component | State | Operations | Hard part | What makes it correct |
|---|---|---|---|---|
| Handle, file, recovery (`aodbm.c` 49-141, `aodbm_internal.c` 108-214) | the file, stdio's buffer, `file_size`, `cur`, mutexes `rw` (recursive) and `version` | open with scan and truncation, close | a crash anywhere leaves any prefix of the unflushed blocks | the scan ends at the first block cut short, drops no complete version, finds the last committed head |
| Versions and commits (`aodbm.c` 143-177, 623-884, 1141-1150) | `cur`; the versions live in the file | `set`, `del`, `current`, `commit`, `commit_init`/`_finish`/`_abort`, `is_based_on`, `previous_version`, `common_ancestor`, `merge` | `append_pos` computed long before it is used; a check of the head that takes many reads; two mutexes | versions are immutable; the head is only replaced by a descendant; every call returns |
| B+ tree (`aodbm.c` 179-843, `aodbm_internal.c` 239-329) | nodes in the file | leaf and branch modification, split, new root, search | offsets fixed before nodes exist; nodes are never merged; separators outlive their records | a tree is the map it was asked to be; sizes, order and height hold |
| Iterators (`aodbm.c` 886-1080) | a stack of positions, one per level | new, from, goto, next | calls that append run between two `next` | each record of the version once, in order, then the end |
| Read/write lock (`aodbm_rwlock.c`) | a mutex, a condition variable, three counters | rdlock, wrlock, unlock, try variants | lost wakeups, starvation | exclusion; "won't stave the writers" (`aodbm_rwlock.h` 20-22) |
| Memory-mapped reads (`aodbm_internal.c` 161-209) | mapping and its size | `aodbm_read` with `AODBM_USE_MMAP` | the mapping grows while others read; sizes read without a lock | a read never leaves the mapping or the file |
| Byte strings (`aodbm_data.c`) | none | `lt`, `eq`, `cmp`, conversions | order by length, then by signed bytes | a total order that `eq` and `cmp` agree with |
| Ropes (`aodbm_rope.c`), stack (`aodbm_stack.c`), list (`aodbm_list.c`), hash (`aodbm_hash.c`) | linked cells, a probed table | the usual ones | head and tail links; probe sequences after deletion and doubling | they behave as the sequence or set they stand for |
| Changesets (`aodbm_changeset.c`, `aodbm_apply`) | a list of changes | add, merge, apply | ownership of keys and lists | applying is folding set and del |
| Python wrapper (`aodbm.py`) | the C pointers it holds, `self.version` of every `Version` | one method per C function, changes in place | who frees what; another thread runs during a call into the library | the handle outlives its users; a change in place is not lost |

How they interact: threads of one process share the handle. `aodbm_set` and
`aodbm_del` hold `rw` from the computation of `append_pos` to the write of the
block; a read takes `rw` for one seek and one `fread`. `aodbm_commit` holds
`version` while it walks back over previous versions, one read at a time, and
takes `rw` inside it for the version block. Seeking before a read makes stdio
hand its buffer to the kernel, so that reads of any thread flush the writes of
the others; otherwise only `fflush` in `aodbm_write_version` and `fclose` do.
The tree calls into the handle for reads, and the iterator into the tree's
format. With `AODBM_USE_MMAP` a read takes `mmap_mut` instead, for reading or to grow
the mapping, and `rw` only for what lies behind the last full page. Writers put
blocks together from ropes, and the tree compares keys with `aodbm_data_lt`. The
list is used by changesets, which `aodbm_apply` turns into one set or delete
after the other; the hash by nothing yet. The wrapper holds the handle, versions
and C iterators for Python objects and frees them in `__del__`, from whatever
thread drops the last reference.

The hazards, each at its line with the properties that would catch it going
wrong, are listed in `PROJECT.json`.

## The modules

| Module | What it is |
|---|---|
| `AodbmStore` | the handle, threads, mutexes, commits, crashes and recovery; its properties |
| `VersionHistory` | the abstract specification: a growing tree of immutable versions and a head, with no file and no lock |
| `AodbmStoreInvariant` | the inductive invariant of `AodbmStore` |
| `AodbmRecovery` | the invariant of the file's blocks and of what was flushed and committed |
| `AodbmStoreProofs` | the proofs of both invariants, what follows from them for the handle and for recovery, and the proof that `AodbmStore` implements `VersionHistory` |
| `AodbmBlocks` | the file byte by byte: blocks written, cut by a crash, scanned and decoded |
| `AodbmTree` | the B+ tree as nodes at offsets of the file |
| `AodbmIterator` | iterators over the tree, with writes between their calls |
| `AodbmTreeProofs` | the inductive invariants of `AodbmTree` and `AodbmIterator`, their proofs and what follows from them |
| `AodbmRwlock` | the read/write lock: fields, condition variable, loops |
| `WriterFirstLock` | the abstract lock: who reads, who writes, who waits to write |
| `AodbmRwlockProofs` | the inductive invariant of `AodbmRwlock`, its proof, and that it implements `WriterFirstLock` |
| `AodbmMmap` | `aodbm_read` over a growing mapping, with threads that append |
| `AodbmMmapProofs` | the inductive invariant of `AodbmMmap`, its proof and what follows from it |
| `AodbmData` | byte strings and their order |
| `AodbmBytesProofs` | the inductive invariant of `AodbmBlocks`, its proof and what follows from it; the order of `AodbmData` |
| `AodbmHeap` | allocated nodes and fields, for the next two |
| `AodbmRope` | ropes, and the data objects that go in and out |
| `AodbmList` | the doubly linked list and its iterator |
| `ItemSequences` | the abstract lists: sequences and a place in one |
| `AodbmListProofs` | the inductive invariants of `AodbmList` and `AodbmRope`, their proofs, and that `AodbmList` implements `ItemSequences` |
| `AodbmHash` | the probed table |
| `AodbmChangeset` | changesets and `aodbm_apply` |
| `AodbmChangesetProofs` | the inductive invariants of `AodbmChangeset` and `AodbmHash`, their proofs and what follows from them |
| `AodbmPython` | `AODBM`, `Version` and `VersionIterator` objects between Python threads |
| `AodbmPythonProofs` | the inductive invariant of `AodbmPython`, its proof and what follows from it |
| `MCAodbm...` | bounds, views and symmetry for TLC |

How they are put together: `AodbmIterator` extends `AodbmTree`. `AodbmMmap`
extends `WriterFirstLock`, which stands for `mmap_mut` there and which
`AodbmRwlock` implements. `AodbmStore` takes the tree below a root for the map
it stores, which is what `AodbmTree` shows it to be, and a field of the file for
one cell, which is what `AodbmBlocks` shows it to be. `AodbmChangeset` takes a
list for the sequence it stands for, which is what `AodbmList` shows, and
`aodbm_set` for a step that makes a version, which is what `AodbmStore` shows;
`AodbmPython` does the latter too.

Three refinements are checked. `AodbmStore` implements `VersionHistory`: the
abstract versions are the root cells found in the file, the abstract head is
`db->cur` while the database is open and the last complete version block
otherwise. `AodbmRwlock` implements `WriterFirstLock`: `waiting` is the set of
threads in the loop of `aodbm_rwlock_wrlock`. `AodbmList` implements
`ItemSequences`: a sequence is what the links give from `head` on.

A definition followed by "Mutant:" variants in a module is the code; each
variant is a plausible mistake that one of the properties has to detect.

### AodbmStore

*The file* is a sequence of cells, one for each field of the format: type byte,
32-bit size, 64-bit offset, tree node, and the last part of a data block, which
is the previous version and the root node. A crash cuts between cells; cutting
inside a field gives the same scan, since a short read is a failed read. Offsets
count cells, and a version is the offset of its root cell, as in the code.
`append_pos` is `file_size + 2` cells for the code's `+ 5` bytes. How many nodes
an operation rewrites below the root is a free choice from `NodeCounts`, which
covers what `AodbmTree` can do.

*Steps.* One action is what a thread does between two points where another can
come in: taking a mutex, or a read in a loop.

| Action | Code |
|---|---|
| `SetLock`, `DelLock` | lock `rw`, `append_pos`, build the tree from the one read at `ver` |
| `SetWrite`, `DelWrite` | write the data block; `SetWrite` then locks `rw` a second time (`aodbm.c` 704), `DelWrite` unlocks |
| `DelHas`, `Get`, `Current`, `Prev` | reads; the version block of a missing or empty version is never touched |
| `WalkStep`, `WalkEnd` | the recursion of `aodbm_is_based_on`, one previous version per step |
| `CommitLock`, `CommitAbort`, `CommitWrite`, `CommitFlush`, `CommitHead` | `aodbm_commit`, and `aodbm_commit_init` with its second half |
| `JoinStep`, `JoinEnd`, `JoinReturn`, `MergeAbort` | `aodbm_common_ancestor` and `aodbm_merge`; the latter ends in `assert(0)` for diverged versions |
| `OpenStart`, `OpenBlock`, `OpenTorn`, `OpenEof` | `aodbm_open`, one block at a time |
| `Crash`, `Close` | the process dies and the file keeps all that was flushed and a prefix of the rest; `aodbm_close` |

The reads that a set or a delete makes under `rw` are part of `SetLock` or
`DelLock`: `rw` is held throughout and no other thread can change what they
see. A lookup is one step for the same reason: it reads one version, and
versions do not change. The application may call any function with any version
it has been told of, from any thread; a thread between `aodbm_commit_init` and
its second half makes no other call. With `PowerLoss` a crash may also take
what only the kernel had.

*History variables.* `hist` records for every version what its call was asked
for (the map and version before it with the change applied) and not what was
read from the file; `known` the versions the application holds; `acked` the
last version whose commit returned true. No guard of the code's steps reads
them, except that `known` bounds what the application can ask.

### AodbmTree and AodbmIterator

The same file of cells, with the nodes in them: a leaf is a sequence of records,
a branch a sequence of offsets and keys. Children are referred to by offset, and
the offsets of new nodes are computed before the nodes are written, as in the
code, so that a miscounted size would show. Keys are naturals with `<`, in the
place of `aodbm_data_lt`; 0 is the empty key and may be used as a key. `Set` and
`Del` apply to the last version: a change to an older version would give a tree
that the same calls give from there, and node offsets only ever refer back.
Recursion down the tree is a recursive function over offsets, since children
come before their parents in the file.

`AodbmIterator` keeps the path of `(node, n)` of the C stack. The byte position
`pos` is determined by `n` and the node and left out. `aodbm_iterate_from` and
`aodbm_iterator_goto` are modelled for versions other than 0: on version 0 the
code reads whatever is at offset 8.

### AodbmBlocks

The same file in bytes, for one thread and trees of one leaf: what
`aodbm_set`, `aodbm_commit` and their helpers write (`WordBytes`, `Block`,
`LeafBytes`), and what `aodbm_open` and `aodbm_get` make of it (`ScanRound`,
`ReadData`, `Leaf`). The new leaf is any sequence of up to `MaxRecords` records;
how it comes about is `AodbmTree`'s. Keys and values may hold the bytes that begin blocks.
A crash keeps every prefix of what was not flushed, so that it also cuts inside
numbers and strings, which `AodbmStore` leaves out. `SizeBytes` and `OffBytes`
are 4 and 8 in the code; the run has 1 and 2, enough for every number in its
files, so that all high bytes that matter are there.

### AodbmRwlock

A step is what a thread does from taking the mutex to giving it up, at the
return of a call or in `pthread_cond_wait`.

| Action | Code |
|---|---|
| `RdLock`, `RdAgain` | `aodbm_rwlock_rdlock`: the call up to its return or its first sleep; the loop after waking up |
| `WrLock`, `WrAgain` | `aodbm_rwlock_wrlock`, which counts itself into `writers_waiting` before its loop |
| `TryRdLock`, `TryWrLock` | the try variants where they succeed; where they fail nothing changes |
| `Unlock` | `aodbm_rwlock_unlock`, which looks at the fields to see what is given up, and broadcasts for a writer and for the last reader |
| `Spurious` | `pthread_cond_wait` returns without a wakeup |

`reading`, `writer` say what calls have returned with; no guard of the code
reads them, only those that say what the application may ask. A thread may take
more than one read lock (`Slot`), which nothing in the header forbids.

### AodbmMmap

`aodbm_read` as built with `AODBM_USE_MMAP`, one action for each stretch between
locks: `RdLock`, `Check` and `Size` (the two loads of `file_size`, in either
order, since nothing protects it), then `Direct` through stdio under `rw`, or
`WrLock`, `Map`, `RdLockAgain`, `Copy`. Appending threads hold `rw` as
`aodbm_del` and `aodbm_write_version` do (`AppendLock`, `WriteBytes`,
`DelUnlock`, `VersionUnlock`); `aodbm_del` also reads with `rw` held. The file
is counted in cells; `kernel` is how many have left stdio's buffer, which keeps
back at most `BufSize`. A cell copied from the mapping is `right` when it had
left the buffer. `Huge` is a size that went below zero and at which `mmap` fails.
The lock `aodbm_set` leaks is left to `AodbmStore`.

### AodbmData, AodbmRope, AodbmList, AodbmHash

Each has the functions of its file as actions on the pointers the C code has:

* `AodbmData`: the variables of a caller hold strings made by construction and
  concatenation; `Lt`, `Eq`, `Cmp` and the others are defined as the loops in
  `aodbm_data.c` decide. `ReadmeOrder` compares them with the order the README
  states, which is given separately, as the order of numbers.
* `AodbmRope`: nodes with `dat` and `after`, which is `next` in the code, ropes
  with `first` and `last`, and the data objects the caller holds, which the `_di`
  functions take over. `text` is what each rope was asked to be.
* `AodbmList`: nodes with `next` and `prev`, lists with `head`, `tail` and
  `len`, one iterator. Freed memory leaves the domains of the fields, so that a
  dangling pointer shows. `TailInsert` says whether the application inserts
  behind the last item, which the code gets wrong (below); the run has it FALSE.
* `AodbmHash`: slots, and the sequence of at most five probes that the function
  `mix` gives. `mix` is chosen in `HashInit` from 25 functions. Doubling inserts
  again what the old table held, and drops the value that caused it, as the code does.
  The refill is a recursion in the code, since it inserts by `aodbm_hash_insert`, which
  may double once more. `Refill` is the same rounds one after the other (`Round`): what
  is left to insert is `todo`, and when the table is doubled in between, the slots of
  that table come before what is left of the outer one.

### AodbmChangeset

`list` are the changes of each changeset, `effect` what they were asked to be:
for each key the last change made to it. `ApplyStep` is one round of the loop of
`aodbm_apply`: one `aodbm_set` or `aodbm_del`, between which other threads make
versions and apply the same changeset. Two threads may apply one changeset, but
none gives it away (`aodbm_apply_di`) while another uses it. Where `aodbm_apply`
means to compare the type with `AODBM_REMOVE` it assigns it (`aodbm.c` 1125);
there are two types and the first has been ruled out, so that it changes nothing.

### AodbmPython

Objects with the references threads have to them; `Forget` drops one, and what
no one refers to any more runs its `__del__` in the same step, as CPython's
reference counting does. `VersionIterator` keeps its `Version`, which keeps the
`AODBM`. A change in place is three steps, since `ctypes` releases the
interpreter's lock in a call: `InPlace` reads `self.version`, `InPlaceMake`
calls, `InPlaceAssign` assigns. `shared` says whether the application hands
`Version` objects from thread to thread. The lock that `aodbm_set` leaks is
here, too: after a set by one thread the calls of the other wait.

## What the runs check

| Run | Bounds | Distinct states | Shows |
|---|---|---|---|
| `store_commit` | 2 threads, 1 key; set, del, current, commit, commit_init; blocks with 0 or 1 inner nodes; file of up to 10 cells when a write starts | 233 524 | versions stay (`VersionsImmutable`, `AppendPosInPlace`), commits lose nothing (`CheckedHeadIsCurrent`, `HeadAdvances`), recovery finds everything (`NoUnknownBlock`, `ScanKeepsVersions`, `CommittedSurvives`), and all of it implements `VersionHistory` (`ImplementsHistory`) |
| `store_single` | 1 thread, all calls, otherwise as before, fairness | 288 681 | `BasedOnExact`, `AncestorExact`; `EveryCallReturns`: the lock `aodbm_set` keeps does not stop its own thread |
| `store_live` | 2 threads with both mutexes, 7 cells, fairness | 20 555 | `CallsReturnUnlessLeaked` |
| `tree_iterators` | nodes of 4; four scenes: 8 keys; 6 keys with 2 values; 7 keys with an iterator over a tree that stays; 5 keys with an iterator while others write | 159 409 | `TreeShape`, `GetIsMapLookup`, `RecordsAreTheMap`, `PathKeysNotGreater`, `IteratorFollowsTheMap` |
| `rwlock` | 4 threads, 2 read locks each, fairness | 11 490 | `CountersExact`, `UnlockKnowsItsLock`, `NoLostWakeup`, `ImplementsLock`, `WritersGetIn`, `ReadersGetIn` |
| `mmap` | 2 threads, pages of 3 cells, files that grow from 1 to 4 cells or from 4 to 7, fairness | 154 322 | `CopyStaysInMapping`, `MappingStaysPut`, `CommittedReadRight`, `ReadReturns` |
| `memory` | strings of up to 4 chars out of 3; 4 nodes on 2 ropes; 4 nodes on 2 lists; files of 20 bytes and a block | 138 382 | `ReadmeOrder`; `ChainsSound`, `RopeIsItsText`; `LinksSound`, `ImplementsSequences`; `ScanFindsBlocks`, `VersionsReadBack` |
| `tables_changesets` | 5 values, tables of 1 to 8 slots, 25 hash functions; 2 threads, 2 changesets of 2 changes, 2 keys | 545 507 | `TableIsBag`; `ApplyIsFold` |
| `python` | 2 threads, 2 `Version` objects, 1 iterator, 3 versions, or 2 with shared objects | 424 718 | `HandleOpenInUse`, `InPlaceKept` |
| `store_set_leak` | 2 threads, fairness | violation | `EveryCallReturns` fails |
| `store_power_loss` | 1 thread, `PowerLoss` | violation | `CommittedSurvives` fails |
| `mmap_buffered` | 2 threads, stdio keeps back 2 cells | violation | `ReadBack` fails |

Some runs hold several state spaces side by side: a behaviour of
`tree_iterators` belongs to one `scene`, one of `memory` and of
`tables_changesets` to one `part`, one of `mmap` to one `top`, and one of
`python` is `shared` or not. The variable is chosen in the initial state and
never changes, so that each state space is explored completely and none is
multiplied with another.

*Why the bounds are enough.*

* *The store.* The only bounds are the numbers of threads, keys and values, and
  `MaxFile`. Sets, deletes and commits start only while the file is shorter than
  `MaxFile`, and a crash that loses cells makes room for more, so that there is
  no bound on the number of crashes or calls. Ten cells hold three versions of
  one node, or two and a commit of each: diverging versions, a commit refused
  because of the other thread's, and a block torn at any field all occur. What a
  version's map is does not matter to the store beyond being the right one, so
  one key suffices.
* *The tree.* Eight keys give trees of four levels: leaves and branches split and
  vanish at every level, and the root grows, shrinks and becomes an empty leaf.
  Nodes with 4 entries are the code's `MAX_NODE_SIZE`. `SceneView` identifies
  states whose trees differ in offsets only. That is sound for the properties
  checked, because what a call does depends on the tree; `TreeShape` checks the
  offsets of each representative.
* *The lock.* Four threads are a writer inside, one who waits, a reader with a
  lock and one who wants a second; there is no other bound.
* *The mapping.* Files from 1 to 4 cells fill the first page while it is read and
  those from 4 to 7 the second, so that the mapping is made, grown, and found
  already grown by the other thread, in between and at the same time. With
  `BufSize` 1 the mapping can be ahead of the buffer.
* *Memory.* Four nodes are two lists of two, or one of four with an inner node on
  both sides of the iterator. Two records with 'd' and 'v' in them let a scan or
  a decoder that went astray find something that looks like a block.
* *Tables.* Five values exceed tables of up to four slots, so that tables double.
  The 25 functions include long cycles, short ones and fixed points, where the
  five probes see few slots. No insertion begins in a table of more than `MaxSize`
  slots, nor one that would take more than `MaxRounds` rounds; 12 rounds instead of
  the 16 of the run give the same states, so that no insertion is left out.
* *Python.* A thread's object can be lost to nobody but through an iterator, a
  call or the other thread; one of each and two objects give every such chain.

Threads, nodes, ropes and changesets are interchangeable and the runs without
liveness properties use that symmetry. `CHECK_DEADLOCK` is off in `python` only: after
`aodbm_set` has leaked `rw`, or `aodbm_close`, a program may have nothing left to do.

Two threads act at the same time in `store_commit` mostly in databases opened
again after a crash or a close: `aodbm_set` leaves `rw` locked (below), and from
then on only its thread gets on until the handle is gone. Within one life of
the handle the runs interleave any number of deletes, reads and commits of both
threads with the first set of one.

*Fairness.* A call is never obliged to begin, and no crash or close to happen.

* `AodbmStore` (`FairSpec`): strong fairness for each thread's steps inside a
  call. The scheduler runs every thread, and a mutex that is released again and
  again is not denied to one thread forever. The scan of `aodbm_open` is weakly fair.
* `AodbmRwlock` (`FairSpec`): weak fairness for a thread that has been woken to
  look again, and for a holder to unlock. Weak is enough: a woken thread can
  always take its turn, and either gets in or sleeps again. Nothing orders
  writers, so that `WritersGetIn` speaks of some writer. A reader who asks for a second lock
  while a writer waits stops with it for good, which `WritersGetIn` excepts by
  name (`Nested`); the code has no such caller.
* `AodbmMmap` (`TopSpec`): strong fairness for the steps of a read and of an append,
  since both wait for locks that others take again and again.

## What disagrees with the documentation

* `aodbm_set` ends in `pthread_mutex_lock(&db->rw)` (`aodbm.c` 704) where
  `aodbm_del` unlocks. In `store_set_leak` a set by one thread is enough for
  every call of the other that needs the file to wait forever. The README says
  (69-70) that "other threads will not interfere during database operations".
  All other properties are checked and proved of the code as it is.
* A commit that returned true is flushed to the kernel and not synced
  (`aodbm_internal.c` 157). `store_power_loss` loses it. The README calls the
  store "ACID compliant" (4-5). Against the death of the process alone,
  `CommittedSurvives` holds.
* With `AODBM_USE_MMAP` the mapping grows to the full pages of `file_size`, which
  counts bytes that stdio still keeps (`aodbm_internal.c` 167). In
  `mmap_buffered` a block that was just written does not read back, where the
  README shows that a record just set does (26-28). The trace writes the block as
  `aodbm_del` does; `aodbm_set` writes by the same functions. Committed data reads
  back right (`CommittedReadRight`). The flag is commented out (`makefile` 22).

The README also warns of "a few known bugs in the delete function" (131-132) and
does not say which. The models have found none: `TreeShape`, `GetIsMapLookup`,
`RecordsAreTheMap` and `PathKeysNotGreater` speak of every sequence of sets and
deletes, deletes that empty leaves, branches and the whole tree included; the run
`tree_iterators` checks them and `AodbmTreeProofs` proves them. In the locks it is
`aodbm_set` that is wrong and `aodbm_del` that is right (above). What the models
leave out, memory and the bytes of the nodes, could still hold such a bug.

Noted while modelling, with no run that shows it:

* The result of `fflush` is ignored (`aodbm_internal.c` 157). If it fails and the
  process lives on, `aodbm_commit` answers true for a version that is not in the
  file. `CommitFlush` always succeeds, so that `CommittedSurvives` is silent on it.
* `aodbm_commit_init` keeps `version` also when it answers false (`aodbm.c` 165);
  an application that does not call the second half then stops every commit.
* `aodbm_iterate_from` and `aodbm_iterator_goto` over version 0 read a node at
  offset 8 (`aodbm.c` 1003).
* `aodbm_diff` of two different versions, and with it `aodbm_merge` of diverged
  ones, ends in `assert(0)` (`aodbm.c` 1084, 1089); of a version and itself it
  returns a changeset that no one has set (1100). The run `store_single` takes the
  step (`MergeAbort`); that no commit is lost by it, with more threads, too, is proved
  (`CommitsSurvive`).
* `file_size` is loaded twice (`aodbm_internal.c` 167): when it crosses a page
  between, the size can go below zero and `mmap` ends the process (`MapFails`).
  No property rules that out; `ReadReturns` excepts the state after it.
* The size of a block is cut to 32 bits (`aodbm_internal.c` 146).
* `aodbm_list_insert` behind the last item does not move `list->tail`
  (`aodbm_list.c` 217). With `TailInsert` TRUE, `LinksSound` fails.
* The insertion that doubles a hash table does not insert its own value, and the
  refill may lose others the same way (`aodbm_hash.c` 73, 83).
* `create_remove_di` allocates a byte and a pointer, which is less than where the
  fields of a padded struct end (`aodbm_changeset.c` 25).
* Every rope node copies the data it is given, and what the `_di` functions take
  over is never freed (`aodbm_rope.c` 41), where `aodbm_rope.h` 43 says it is destroyed.
* `VersionIterator.goto` replaces the C iterator by `None` (`aodbm.py` 113), and
  a `Version` that two threads change in place loses one of the changes (139-144):
  `InPlaceKept` speaks of the objects that only one thread has.

## What is proved

### The store

`AodbmStoreProofs` proves, for every set of threads, keys and values, any
`Calls`, `NodeCounts` and `MaxFile`, and with or without power loss, that `IInv`
is an invariant (`IInvInvariant`), and from it

| Theorem | Property |
|---|---|
| `TypeCorrect` | `TypeOK` |
| `VersionsStay` | `VersionsImmutable` |
| `AppendPosStays` | `AppendPosInPlace` |
| `BasedOnIsExact`, `AncestorIsExact` | `BasedOnExact`, `AncestorExact` |
| `CheckedHeadStays` | `CheckedHeadIsCurrent` |
| `HeadStaysVersion` | `HeadIsVersion` |
| `FileSizeStaysExact` | `FileSizeExact` |
| `HeadOnlyAdvances` | `HeadAdvances`, a property of steps |

`HeadIsVersion` and `FileSizeExact` are parts of what the refinement and
`CommittedSurvives` say of the same instance, so that no run repeats them.

The assumptions are those of `ConstantsAssumption`: `NULL` is no thread, key or
value, `Calls` are functions of the API, `NodeCounts` and `MaxFile` are naturals.

*The invariant.* None of the properties is inductive alone. That versions stay
needs `append_pos` to be in place when a block is written, which needs the
writer to hold `rw` (`LocksHeld`) and the block it holds ready to be the right
one (`BlockReady`), which needs what it read to be right, which is again that
versions stay (`HistInv`). That the head is a version after recovery needs every
version block in the file to point to a version before it (`OffInv`), also
after a crash has cut the file at any cell: a cut takes nothing a remaining
block refers to, because references go back (`CutKeeps`). That the
loops over previous versions are right needs the relation between where they are
and where they began (`LoopKeeps`): going from `a` to its previous version
neither adds nor loses an ancestor `b <= a`, since ancestors have smaller
offsets. That a commit replaces the head it was checked against needs `version`
to be held throughout.

*The argument.* `OthersKeep` shows that a thread that does not move keeps its
part, from what the mutexes protect; `QuietMove` reduces every step that writes
no block to the part of the thread that moves. Then there is one lemma for each
action or group of alike actions, and `NextKeeps` puts them together.

### Recovery and the history

The second part of `AodbmStoreProofs` proves another invariant of `AodbmStore`, `RInv`
(`RInvInvariant`), for the same constants, and from it

| Theorem | Property |
|---|---|
| `ScanStaysOnBlocks` | `NoUnknownBlock` |
| `ScanLosesNothing` | `ScanKeepsVersions`, a property of steps |
| `CommitsSurvive` | `CommittedSurvives`, if not `PowerLoss` |

and the third part the refinement: `ImplementsTheHistory` is
`Spec => ImplementsHistory`, if not `PowerLoss`. The hypothesis is needed: a loss
of power takes blocks that `fflush` has given to the kernel only, and the run
`store_power_loss` shows a commit that is lost to it. Everything else is
proved with and without power loss.

*The invariant* `RInv` is `FileInv /\ HandleInv`. `FileInv` says only what is in
the file: blocks follow each other and a block has all its cells unless it is
the last (`BlocksInv`), every root is a version of the history (`RootsInv`),
ancestors are what they are defined to be, transitive and least (`AncTrans`,
`AncLeast`), and every version block commits a descendant of those before it
(`HeadChain`). All of this holds of every prefix of a file it holds of, which
is why a crash at any cell keeps it, also in the middle of the truncation or of
another recovery. `HandleInv` relates the handle to the file: the scan is at the
beginning of a block (`ScanInv`); the head descends from all version blocks the
scan or the writer has gone past, apart from that of a commit between its write
and its assignment to `cur` (`HeadsInv`, `CommitInv`); the head's own version
block has been flushed before `cur` was assigned (`CurInv`), so that what was
reported is below what survives (`AckedInv`).

*The refinement.* While the database is not open the abstract head is what the
last version block commits, which `HeadChain` makes the one that descends from
all others (`ClosedHead`, `FileHeadUnique`); while it is open it is `cur`.
`DataMakes`, `HeadCommits`, `CrashLoses`, `CrashOfOpening` and `OpensAndCloses`
map the steps that change something to a step of `VersionHistory`, and
`SameAbstract` all others to a stutter. That a new head descends from the old one
is `CheckedHeadIsCurrent` and `BasedOnExact` of the first invariant, read
through `AncLeast`.

### The read/write lock

`AodbmRwlockProofs` proves, for every finite set of threads and of slots, that
`LockInv` is an invariant (`LockInvInvariant`), and from it

| Theorem | Property |
|---|---|
| `ExclusionHolds` | `Exclusion`: nobody reads while someone writes |
| `CountersStayExact` | `CountersExact`, and `TypeOK` |
| `NoWakeupIsLost` | `NoLostWakeup` |
| `UnlockIsSafe` | `UnlockKnowsItsLock` |
| `WaitsEnd` | `WaitHasEnd`: somebody who holds the lock is not asleep, or a reader waits for a second lock |
| `ImplementsTheLock` | `ImplementsLock`: the specification refines `WriterFirstLock` |

`RwlockAssumption` asks that `Thread` and `Slot` are finite and `NULL` is no thread.

*The invariant* is `TypeOK`, `CountersExact`, `Exclusion` and `NoLostWakeup`
together. Exclusion needs the counters, by which a thread decides to go in; the
counters need exclusion, since an unlock takes the branch the fields tell and
not the one its caller means; and that a sleeper still has to wait is a
statement on the fields after every unlock that does not broadcast. The lemmas
`SleepKeeps`, `ReadKeeps` and `WriteKeeps` treat the three ways a call can go on,
whichever function it is in. The refinement follows step by step: a call that
returns with a lock is an acquisition of the abstract one, the first sleep of a
writer its announcement, and waking up a stutter. `WaitHasEnd` needs a second
invariant about the threads that hold locks: a writer is in no loop, and who
waits to write holds nothing (`HolderPlacesKept`).

### The bytes of the file

`AodbmBytesProofs` proves, for any records of bytes, any `MaxRecords`, `MaxFile`,
`SizeBytes` and `OffBytes`, that `BytesInv` is an invariant of `AodbmBlocks`
(`BytesInvInvariant`), and from it

| Theorem | Property |
|---|---|
| `ScanRight` | `ScanFindsBlocks` |
| `ReadBackRight` | `VersionsReadBack` |

`BlocksAssumption` asks that the bounds are naturals, keys and values are strings of
bytes, and there is room for every number that is written (`NumbersFit`). The
code does not check the latter, and both properties are false without it: a key
of 2^32 bytes is written with size 0. It speaks of whatever widths the constants
give, so that the theorems hold for words of 4 and 8 bytes as they do for the
run's of 1 and 2.

*The invariant.* The history has the blocks that were written whole. `BytesInv`
says that each begins where the one before it ends, that the root of a version
is right behind the size of its block, that the head after a block is the one
before it or what the block commits (`BlocksFollow`, `BlocksInOrder`), and that
the file has their bytes as far as it goes, whether or not the last are cut off
(`FileIsBlocks`). An open database has all of them and knows it
(`OpenKnowsBlocks`). Neither property is inductive: what the scan finds depends on
every byte of the file, and that it was found once says nothing about the next
crash.

*The argument.* A number reads back from its bytes (`WordReadsBack`, by minimal
counterexample on the bytes read, since no prover instantiates the library's
induction theorems). Strings laid one behind the other hold each of them at the sum of
the sizes before it (`LaidIs`, `HoldsEach`), so that a block, a record and at last
a root node read back wherever they are in the file (`BlockReadsBack`,
`RecordReadsBack`, `RootReadsBack`). One round of the scan at the beginning of a
block goes to its end if it is whole (`WholeRound`) and stops before it if it is
torn (`TornRound`), at any byte; that the torn size is itself cut off, or is there
and the data behind it is not, are the two cases of the latter. The rounds
together find the whole ones (`ScanFinds`), which `OpenStep` needs; writing is one lemma
for both blocks (`BlockWritten`), and a crash leaves a prefix of the bytes and so a
prefix of whole blocks (`CrashStep`).

### The order of strings

The last part of `AodbmBytesProofs` is `OrderRight`, which is `[]ReadmeOrder` of
`AodbmData`: for any variables and bound on their length, and integer
chars that have a least and a greatest (`CharAssumption`, so that it does not
matter whether `char` is signed),
`aodbm_data_lt` is the order that the README of the repository describes, and `eq`,
`cmp`, `le`, `ge` and `gt` agree with it. `ReadmeOrder` gives that order as the order
of numbers that have a digit for each char, in a base greater than any difference
of two chars: the first char that differs outweighs all behind it (`DigitsKeep`, `FirstDecides`), and two
strings of the same length that are not the same have one
(`FirstDifference`), which makes the order total.

### The tree

`AodbmTreeProofs` proves, for every range of keys, all values and every even
`MAX_NODE_SIZE` from 4 on, that `TreeInv` is an invariant (`TreeInvInvariant`),
and from it

| Theorem | Property |
|---|---|
| `GetRight` | `GetIsMapLookup` |
| `PathKeysRight` | `PathKeysNotGreater` |
| `ShapeRight` | `TreeShape` |
| `RecordsRight` | `RecordsAreTheMap`, which compares keys; the values are in `GetIsMapLookup` |

`TreeAssumption` asks for that, and that `NULL` is no value. With nodes of 2
every branch that has two children would be split; the code has 4.

*The invariant.* `TreeInv` says that the nodes of the file can be labelled: `L[o]`
is the set of the records below the node at `o`, and its height. `Labelled` has
what makes a label right: a leaf holds its records in key order, the keys of a
branch keep the records of its children apart (`BranchOK`), its children are
before it, none is empty, and all are equally high. Nothing in it speaks of the
current version, so that labels stay when nodes are appended (`LabelKept`) and
only new nodes need an argument; the label of the last root is the map that the
calls asked for (`Represents`). Separators are not tied to the first record of a
subtree, since a delete leaves them as they are: what is kept is that a
separator is greater than all that is left of it and not greater than all that
is right.

*The argument.* A search keeps to the child that has the key if any has
(`StepDownIs`), so that `SearchIs` and `SearchPathIs` end at the leaf. A changed
leaf is none, one or two leaves with its records and the change (`LeafModified`).
A branch whose child is replaced by such nodes is again none, one or two
(`BranchModified`): `PlaceIs` and `WithoutIs` say where the new children go and
that the old one goes, and `KidsHalves` that a split keeps the rest. `ClimbStep`
is one turn of the loop, `ModifiedIs` the loop, by minimal counterexample on
the level, and `RootConstructed` the root over what is left. Offsets of nodes
that are not written yet are those they will have because `NodesAppended` labels
them at `pos + Len(data)`.

### The iterator

The second part of `AodbmTreeProofs` proves, under the same assumption, that `IterInv` is an
invariant of `IterSpec` (`IterInvInvariant`), and from it `IteratorRight`, which is
`[]IteratorFollowsTheMap`: `aodbm_iterator_next` returns every record of its
version from where the iterator was put, once, in key order, and then `NULL`.

*The invariant.* `IterInv` is `TreeInv` and, for the same labels, that the path
goes from the root of the iterator's version through branches to a position in a
leaf (`PlaceOK`), and that the keys that are due are those of `LeftOf`: the records
behind the position in the leaf, and on every level above all records below the
children behind the one the path goes through. An iterator that has come to the
end has no path and nothing due.

*The argument.* What is below a node of the path comes before what is behind the
positions above it (`PathAhead`), so that the record the leaf's position is
before has the least key of all that are left (`NextRecord`). At the end of a leaf
the deepest branch that has another child moves on, and takes what is below
that child from behind its position into the path (`MovedOn`, `NextLeafIs`); that
the new leaf has a record, so that one call never has to move twice, is where it
matters that no child is empty. `FirstPathIs` and `PathToIs` are about
`aodbm_new_iterator`, `aodbm_iterate_from` and `aodbm_iterator_goto`, again by minimal
counterexample. Calls that append versions keep the labels of the nodes that
were there and the nodes (`NextKeepsTree`), and so the iterator (`PlaceKept`).

### The mapped reads

`AodbmMmapProofs` proves, for any threads, any positive page size, any buffer
size and files of any size, that `MmapInv` is an invariant (`MmapInvariant`), and
from it

| Theorem | Property |
|---|---|
| `MmapTypeCorrect` | `MmapTypeOK` |
| `CopiesStayInMapping` | `CopyStaysInMapping` |
| `NoCopyLosesItsMapping` | `MappingStaysPut`, a property of steps |
| `CommitsReadBack` | `CommittedReadRight`, a property of steps |

`MmapAssumption` asks that the lock has one slot for each thread, as
`aodbm_read` takes it once, that `PageSize` is positive and `NULL` no thread.

*The invariant* ties each thread's place to the lock it holds and to what it has
compared: from `wrlock` on `new_size` is beyond the cell it reads, and from
`rdagain` on so is `mapping_size`, which other threads may have changed in between
but never make smaller (`SizeOfRange`, `FullPages`). That the mapping is never
larger than the file rests on `file_size` not going back. That `known` is
`file_size` whenever no one holds `rw` was not in the invariant that TLC had been
given at first; the proof asked for it, since an append begins from `file_size`.

### The wrapper

`AodbmPythonProofs` proves, for any threads, objects, iterators, keys and number
of versions, that `PyInv` is an invariant (`PyInvInvariant`), and from it
`HandleOpenWhileUsed`, which is `[]HandleOpenInUse`, and `ChangesInPlaceKept`, which
is `[]InPlaceKept`. `PythonAssumption` asks that the `AODBM` object, `Version`
objects and iterators are different things.

*The invariant.* `HandleOpenInUse` needs that what refers to an object is there
(`ObjectTypes`, `CallTypes`, `HeldInv`), from which `Forget` takes only what
nothing refers to. `InPlaceKept` needs the change that is under way to be of a
version that has all earlier changes (`CallKept`); that no second change of the
same object is under way follows from `OwnInv`: in a program whose threads do not
hand each other objects, no two threads refer to the same one, be it from a
variable or from the frame of a call.

### The linked list

`AodbmListProofs` proves, for any nodes, lists and items, that `ListInv` is an
invariant of `AodbmList` (`ListInvInvariant`), and from it `LinksRight`, which is
`[]LinksSound`, and the refinement `ListImplements`, which is
`Spec => ImplementsSequences`. All three have the hypothesis that nothing is
inserted behind the last item (`~TailInsert`); without it they are false, as said
above, since `aodbm_list_insert` leaves `list->tail` behind.

*The invariant.* `LinksSound` follows the links from where they begin, which says
little about one link. `ListInv` instead names the nodes of each list: there is
a function from lists to sequences of nodes, with every node on one list at one
place (`Placed`), such that the ends and lengths (`EndsAgree`), the links
(`LinksAgree`) and the iterator (`IteratorOK`) are what the sequences say.

*The argument.* A chain of links is the sequence it agrees with (`ChainIs`, by
minimal counterexample on the length walked), which gives `LinksSound` and what the
abstract lists are (`AbstractIs`). All that link or unlink one node are one of
two lemmas, `InsertAgrees` and `RemoveAgrees`, at any place of the list, and
`FreeAgrees` and `MergeAgrees` are about whole lists. A step is then a step of
the sequences because the items of a sequence of nodes with one more or less are
the items with one more or less (`ItemsInserted`, `ItemsRemoved`, `ItemsBoth`), and
because the iterator moves with its node (`InsertStep`, `ReleasedIs`).

### Ropes

The second half of `AodbmListProofs` proves, for any nodes, ropes, data objects and
letters, that `RopeInv` is an invariant of `AodbmRope` (`RopeInvInvariant`), and from it
`ChainsRight`, which is `[]ChainsSound`, and `RopeRight`, which is `[]RopeIsItsText`:
however a rope has been put together, `aodbm_rope_to_data` gives the string it was
asked to be and `aodbm_rope_size` its length. There is no condition beyond the
assumptions on the constants, that the nodes are finitely many, `NULL` is none of
them and `MaxText` is at least 1.

*The invariant.* As with the lists, `RopeInv` names the nodes of each rope, a function
from ropes to sequences of nodes that are not empty, each node on one rope at one
place and leading to the one behind it (`Strung`), such that `first` and `last` are
the ends and the strings of the nodes one behind the other are the rope's
(`Spells`, which says so by the strings that the loop of `aodbm_rope_to_data` has
put together so far).

*The argument.* The loop over the nodes meets the rope's sequence (`LoopIs`, from the
lemma about one step along links that the lists use), and what the two loops over
them add up is unique (`SpelledIs`, by minimal counterexample). Every operation is made
of three: a node of its own becomes a rope (`StrungNew`), the last node of one rope
is led to the first of another (`StrungBoth`), and a rope's nodes are freed
(`StrungFreed`). `aodbm_rope_append` and `aodbm_rope_prepend` are the first and then
the second, with a name for the new rope that no rope has. What a joined rope spells
follows from the strings of both because joining strings is associative
(`SpellsBoth`).

### Changesets

`AodbmChangesetProofs` proves, for any threads, changesets, keys, values and bounds,
that `ApplyInv` is an invariant of `AodbmChangeset` (`ApplyInvInvariant`), and from it
`ApplyRight`, which is `[]ApplyIsFold`: the version that `aodbm_apply` comes to is
based on the one it was given and has the map that is made by all changes of the
list, the later ones over the earlier, whatever other threads apply meanwhile.
`ChangesetAssumption` asks that `NULL` and the mark `"same"` are no values and the
bounds are naturals.

*The invariant.* For every call there is what the changes it is past come to
(`SumUpTo`: for each key the last of them), and its version has the map of the one
it began from with that over it (`CallOK`); every changeset that there is has been
asked for what its changes come to (`SetsOK`), which `MergeDiKeeps` needs the
overlay of two lists for; and no other call uses a changeset that `aodbm_apply_di`
is to free (`CallsOK`). That the version is based on the first one cannot be said
by the recursion along `prev` in an invariant; `Linked` says it by a set of versions
that contains both and goes down, and `LinkedIsBased` gives the recursive one.

### Hash tables

The second half of `AodbmChangesetProofs` proves, for any values, hash functions, first
sizes and number of probes, that `HashInv` is an invariant of `AodbmHash`
(`HashInvInvariant`), and from it `TableRight`, which is `HashSpec => TableIsBag`, a
property of steps. `HashAssumption` asks that keys are naturals, that values are keys and
`Empty` is no value, and that there is at least one probe and one slot.

*The invariant.* That what is in the table is found is not inductive: of two copies of a
value the second might be at a slot that the value does not lead to, and is lost when
the first is deleted. `TableOK` says that every value is at a slot its own probes lead to.

*The argument.* Filling a free slot on a value's way and clearing a slot keep that
(`FilledOK`, `ClearedOK`), and so does each round of the refill (`RoundOK`), which works
on a table larger than the old one (`Work`), hence the loop (`RefillOK`). The loop and the
probes are recursive functions, whose existence `Iterates` gives: a function from a
set to itself can be applied any number of times. A deletion that finds nothing has
nothing to delete because each copy would be on the way (`DelStep`), and
what a changed slot does to the number of copies is `CopiesPut`.

### Only model-checked

* All liveness (`CallsReturnUnlessLeaked`, `EveryCallReturns`, `WritersGetIn`,
  `ReadersGetIn`, `ReadReturns`), which depends on fairness and `ENABLED`.

## What is not modelled

* `aodbm_diff` beyond the common ancestor: both functions it needs are `assert(0)`.
* The cells of `aodbm_stack.c`: a stack is the sequence of its items.
* `VersionIterator.goto`, which leaves an object whose next use ends the process.
* The lists of applications that insert behind the last item, which are broken
  by it (above); iterating over version 0.
* I/O errors other than as a crash. Where the code looks for an error it ends the
  process (`AODBM_OS_ERROR`), which a crash covers. It does not look at the results
  of `fflush` and `fclose`; in the models both succeed.
* The items of a list as memory: `aodbm_free_list` frees them (`aodbm_list.c` 59-62).
* Printing, messages, memory that cannot be allocated, leaks, blocks of 4 GiB
  and more, the tests and the build.
