---------------------------- MODULE AodbmRecovery ----------------------------
(***************************************************************************)
(* What the file says by itself, and why that is enough to recover: the    *)
(* inductive invariant behind the recovery scan, the survival of commits   *)
(* and the refinement of VersionHistory.  It is inductive relative to IInv *)
(* and holds of every prefix of a file it holds of, since a crash leaves   *)
(* one.                                                                    *)
(***************************************************************************)
EXTENDS AodbmStoreInvariant

(* A block may begin after the first k cells: they end with a whole block. *)
Boundary(k) == k = 0 \/ file[k].kind \in {"off", "root"}

(* What follows the cell i: the blocks follow each other, and a block has  *)
(* all its cells unless the file ends before.                              *)
CellInPlace(i) ==
    /\ Boundary(i - 1) => file[i].kind \in {"v", "d"}
    /\ file[i].kind = "v" /\ i < Len(file) => file[i + 1].kind = "off"
    /\ file[i].kind = "d" /\ i < Len(file) =>
         /\ file[i + 1].kind = "size" /\ file[i + 1].num > 0
         /\ \A j \in i + 2 .. Len(file) :
              /\ j <= i + file[i + 1].num => file[j].kind = "node"
              /\ j = i + file[i + 1].num + 1 => file[j].kind = "root"

BlocksInv == \A i \in 1 .. Len(file) : CellInPlace(i)

(* The scan has come to the end of a block, and so has the open database.  *)
ScanInv == mode \in {"opening", "open"} => Boundary(file_size)

(* Every root that is in the file is a version the history knows.          *)
RootsInv ==
    \A i \in 1 .. Len(file) : file[i].kind = "root" => i - 1 \in DOMAIN hist

-----------------------------------------------------------------------------
(* Ancestors, as VersionHistory defines them.                              *)

(* v is h, or was made from it in one or more steps; everything is made    *)
(* from the empty database.                                                *)
Based(v, h) == h = 0 \/ h \in Anc(v)

AncTrans == \A v \in DOMAIN hist : \A w \in hist[v].anc : hist[w].anc \subseteq hist[v].anc

(* S contains, with a version, the one it was made from.                   *)
ClosedUnderPrev(S) == \A w \in S : hist[w].prev \in S \cup {0}

AncLeast ==
    \A v \in DOMAIN hist : \A h \in hist[v].anc :
        \A S \in SUBSET DOMAIN hist : v \in S /\ ClosedUnderPrev(S) => h \in S

-----------------------------------------------------------------------------
(* The version blocks, by the place i of their first cell, and what they   *)
(* commit.                                                                 *)

Committed(i) == file[i + 1].num

(* A thread has written the version block of a commit, and not yet made    *)
(* its version the head.                                                   *)
InCommit(t) == pc[t] \in {"commit_flush", "commit_head"}

(* Every version block commits a descendant of the ones before it.         *)
HeadChain == \A i, j \in Heads : i < j => Based(Committed(j), Committed(i))

(* The head descends from every version block up to where the handle is,   *)
(* but for the one of a commit that is under way.                          *)
HeadsInv ==
    mode \in {"opening", "open"} =>
        \A i \in Heads : i < file_size =>
            \/ Based(cur, Committed(i))
            \/ \E t \in Thread : InCommit(t) /\ Committed(i) = loc[t].ver

(* The head itself comes from a version block that has reached the kernel. *)
CurInv ==
    mode \in {"opening", "open"} /\ cur # 0 =>
        \E i \in Heads : i + 1 <= flushed /\ i < file_size /\ Committed(i) = cur

(* The version block of a commit that is under way is in the file, and in  *)
(* the kernel once it was flushed.                                         *)
CommitInv ==
    \A t \in Thread : InCommit(t) =>
        \E i \in Heads : /\ Committed(i) = loc[t].ver
                         /\ pc[t] = "commit_head" => i + 1 <= flushed

FlushedInv ==
    /\ flushed <= Len(file)
    /\ mode # "open" => flushed = Len(file)

(* What was reported as committed is in a version block in the kernel,     *)
(* where it survives the crash of the process, and in the head.            *)
AckedInv ==
    ~PowerLoss /\ acked # 0 =>
        /\ \E i \in Heads : i + 1 <= flushed /\ Based(Committed(i), acked)
        /\ mode = "open" => Based(cur, acked)

(* aodbm_set and aodbm_del change a key.                                   *)
ArgsInv ==
    \A t \in Thread :
        pc[t] \in {"set_lock", "set_write", "del_has", "del_lock", "del_write"}
        => loc[t].key \in Key

(* What the file says, and what the handle and the threads make of it.     *)
FileInv   == BlocksInv /\ RootsInv /\ AncTrans /\ AncLeast /\ HeadChain
HandleInv == /\ ScanInv /\ HeadsInv /\ CurInv /\ CommitInv
             /\ FlushedInv /\ AckedInv /\ ArgsInv

RInv == FileInv /\ HandleInv
=============================================================================
