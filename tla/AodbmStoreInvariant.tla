------------------------ MODULE AodbmStoreInvariant ------------------------
(***************************************************************************)
(* The inductive invariant behind the safety properties of AodbmStore: who *)
(* holds which mutex where, what the cells of the file mean, and what the  *)
(* loops over previous versions have established so far.                   *)
(***************************************************************************)
EXTENDS AodbmStore

(* What the application, the handle and the file may refer to.             *)
Refs == DOMAIN hist \cup {0}

(* The scan never runs over the end of the file, and ends there.           *)
SizeInv ==
    /\ mode = "opening" => file_size <= Len(file)
    /\ mode = "open" => file_size = Len(file)

(* Every version is where it was written; what it was made from is another *)
(* version, before it in the file.                                         *)
HistInv ==
    \A v \in DOMAIN hist :
        /\ v > 0 /\ v < Len(file)
        /\ file[v + 1] = MkCell("root", hist[v].prev, hist[v].map)
        /\ hist[v].prev \in Refs /\ hist[v].prev < v
        /\ hist[v].anc = Anc(hist[v].prev) \cup {v}
        /\ \A w \in hist[v].anc : w \in DOMAIN hist /\ w <= v

(* A version block points to a version before it.                          *)
OffInv ==
    \A i \in 1 .. Len(file) - 1 :
        file[i].kind = "v" => file[i + 1].num \in Refs /\ file[i + 1].num < i

(* The application and the handle know complete versions only.             *)
RefInv ==
    /\ known \subseteq Refs
    /\ mode # "open" => known = {0}
    /\ mode \in {"opening", "open"} => cur \in Refs
    /\ mode = "opening" => cur = 0 \/ cur < file_size

-----------------------------------------------------------------------------
(* What holds of one thread, by where it is.                               *)

Writing(t) == pc[t] \in {"set_write", "del_write", "commit_flush"}

Committing(t) ==
    /\ loc[t].op \in {"commit", "init"}
    /\ pc[t] \in {"walk", "decided", "commit_flush", "commit_head"}

(* A mutex is held across the section it protects; calls are under way     *)
(* only while the database is open.                                        *)
LocksHeld(t) ==
    /\ Writing(t) => rw.owner = t
    /\ Committing(t) => version = t
    /\ pc[t] \in {"commit_flush", "commit_head"} => Committing(t)
    /\ pc[t] = "commit_lock" => loc[t].op \in {"commit", "init"}
    /\ pc[t] = "idle" => loc[t] = NoCall
    /\ mode # "open" => pc[t] = "idle"

RefsKnown(t) ==
    /\ {loc[t].ver, loc[t].other, loc[t].a, loc[t].b} \subseteq Refs
    /\ pc[t] = "prev" => loc[t].ver # 0

(* The block that is ready to be written is the right one for this place.  *)
BlockReady(t) ==
    /\ pc[t] \in {"set_write", "del_write"} => loc[t].pos = Len(file) + 2
    /\ pc[t] = "set_write" =>
         loc[t].map = [HistMap(loc[t].ver) EXCEPT ![loc[t].key] = loc[t].val]
    /\ pc[t] = "del_write" =>
         loc[t].map = [HistMap(loc[t].ver) EXCEPT ![loc[t].key] = NULL]

(* Going on to a previous version neither adds nor loses an ancestor that  *)
(* matters to the answer.                                                  *)
LoopKeeps(t) ==
    /\ pc[t] = "walk" /\ loc[t].b # 0 =>
         (loc[t].b \in Anc(loc[t].ver) <=> loc[t].b \in Anc(loc[t].a))
    /\ pc[t] = "decided" =>
         (loc[t].ok <=> loc[t].b = 0 \/ loc[t].b \in Anc(loc[t].ver))
    /\ pc[t] \in {"commit_flush", "commit_head"} =>
         loc[t].b = 0 \/ loc[t].b \in Anc(loc[t].ver)
    /\ pc[t] = "join" =>
         Anc(loc[t].ver) \cap Anc(loc[t].other) = Anc(loc[t].a) \cap Anc(loc[t].b)
    /\ pc[t] = "joined" =>
         LET common == Anc(loc[t].ver) \cap Anc(loc[t].other)
         IN  /\ loc[t].a \in common \cup {0}
             /\ \A c \in common : c <= loc[t].a
    /\ Committing(t) => loc[t].b = cur

ThreadInv(t) == LocksHeld(t) /\ RefsKnown(t) /\ BlockReady(t) /\ LoopKeeps(t)

(* Inductive: no step of any thread, no crash and no scan leads out of it. *)
IInv == /\ TypeOK
        /\ rw.owner = NULL <=> rw.count = 0
        /\ SizeInv /\ HistInv /\ OffInv /\ RefInv
        /\ \A t \in Thread : ThreadInv(t)
=============================================================================
