----------------------------- MODULE AodbmChangeset -----------------------------
(***************************************************************************)
(* Changesets and aodbm_apply: lists of changes that are built, merged and *)
(* applied to versions, one aodbm_set or aodbm_del after the other, by     *)
(* several threads at once.                                                *)
(*                                                                         *)
(* A list is the sequence it stands for, as AodbmList shows, and aodbm_set *)
(* and aodbm_del make a version in one step, as AodbmStore shows.          *)
(***************************************************************************)
EXTENDS Naturals, Sequences

CONSTANTS
    Thread,
    Changeset,    \* the changesets there may be
    Key, Value,
    NULL,         \* no value; no changeset
    MaxChanges,   \* the application makes no longer list
    MaxVersions   \* nor begins to apply one with more versions than this

ASSUME ChangesetAssumption ==
    /\ NULL \notin Changeset /\ NULL \notin Value
    /\ "same" \notin Value \cup {NULL}
    /\ MaxChanges \in Nat /\ MaxVersions \in Nat

VARIABLES
    list,      \* the changesets there are -> their changes; NULL removes
    effect,    \* what each was asked for: Key -> Value, NULL or "same"
    versions,  \* the versions made, each with the one before it and its map
    call       \* thread -> the aodbm_apply it is in

vars == <<list, effect, versions, call>>

Version == 0..Len(versions)
MapOf(v) == IF v = 0 THEN [k \in Key |-> NULL] ELSE versions[v].map

NoCall  == [set |-> NULL, di |-> FALSE, at |-> 0, start |-> 0, ver |-> 0]
Using(c) == \E t \in Thread : call[t].set = c
Sets == DOMAIN list

(* e1, then e2. *)
Overlay(e1, e2) == [k \in Key |-> IF e2[k] = "same" THEN e1[k] ELSE e2[k]]

-----------------------------------------------------------------------------
EmptySet(c) ==
    /\ c \notin Sets
    /\ list' = [d \in Sets \cup {c} |-> IF d = c THEN << >> ELSE list[d]]
    /\ effect' = [d \in Sets \cup {c} |->
                     IF d = c THEN [k \in Key |-> "same"] ELSE effect[d]]
    /\ UNCHANGED <<versions, call>>

(* add_modify, or with v = NULL add_remove.                                *)
Add(c, k, v) ==
    /\ ~Using(c) /\ Len(list[c]) < MaxChanges
    /\ list' = [list EXCEPT ![c] = Append(@, [key |-> k, val |-> v])]
    /\ effect' = [effect EXCEPT ![c][k] = v]
    /\ UNCHANGED <<versions, call>>

(* Mutant: the second list comes first.                                    *)
MergeSwapped(a, b) ==
    /\ a # b /\ ~Using(a) /\ ~Using(b)
    /\ Len(list[a]) + Len(list[b]) <= MaxChanges
    /\ list' = [c \in Sets \ {b} |-> IF c = a THEN list[b] \o list[a] ELSE list[c]]
    /\ effect' = [c \in Sets \ {b} |->
                     IF c = a THEN Overlay(effect[a], effect[b]) ELSE effect[c]]
    /\ UNCHANGED <<versions, call>>

MergeDi(a, b) ==
    /\ a # b /\ ~Using(a) /\ ~Using(b)
    /\ Len(list[a]) + Len(list[b]) <= MaxChanges
    /\ list' = [c \in Sets \ {b} |-> IF c = a THEN list[a] \o list[b] ELSE list[c]]
    /\ effect' = [c \in Sets \ {b} |->
                     IF c = a THEN Overlay(effect[a], effect[b]) ELSE effect[c]]
    /\ UNCHANGED <<versions, call>>

Discard(c) == /\ list' = [d \in Sets \ {c} |-> list[d]]
              /\ effect' = [d \in Sets \ {c} |-> effect[d]]

FreeSet(c) == ~Using(c) /\ Discard(c) /\ UNCHANGED <<versions, call>>

-----------------------------------------------------------------------------
(* The loop of aodbm_apply; di: of aodbm_apply_di, whose changeset the     *)
(* caller gives away.                                                      *)
ApplyStart(t, v, c, di) ==
    /\ call[t] = NoCall /\ Len(versions) < MaxVersions
    /\ \A u \in Thread : call[u].set = c => ~di /\ ~call[u].di
    /\ call' = [call EXCEPT ![t] =
                   [set |-> c, di |-> di, at |-> 1, start |-> v, ver |-> v]]
    /\ UNCHANGED <<list, effect, versions>>

Change(t) == list[call[t].set][call[t].at]

(* aodbm_set always makes a version, aodbm_del only when the key is there. *)
Makes(v, ch) == ch.val # NULL \/ MapOf(v)[ch.key] # NULL

(* Mutant: every change is made to the version given.                      *)
ApplyToStart(t) ==
    LET c == call[t]
        ch == Change(t)
    IN  /\ c # NoCall /\ c.at <= Len(list[c.set])
        /\ IF Makes(c.start, ch)
              THEN /\ versions' = Append(versions,
                          [prev |-> c.start,
                           map  |-> [MapOf(c.start) EXCEPT ![ch.key] = ch.val]])
                   /\ call' = [call EXCEPT ![t].at = @ + 1,
                                           ![t].ver = Len(versions')]
              ELSE /\ call' = [call EXCEPT ![t].at = @ + 1]
                   /\ UNCHANGED versions
        /\ UNCHANGED <<list, effect>>

(* Mutant: the deletion of an absent key answers 0.                        *)
ApplyDelZero(t) ==
    LET c == call[t]
        ch == Change(t)
    IN  /\ c # NoCall /\ c.at <= Len(list[c.set])
        /\ IF Makes(c.ver, ch)
              THEN /\ versions' = Append(versions,
                          [prev |-> c.ver,
                           map  |-> [MapOf(c.ver) EXCEPT ![ch.key] = ch.val]])
                   /\ call' = [call EXCEPT ![t].at = @ + 1,
                                           ![t].ver = Len(versions')]
              ELSE /\ call' = [call EXCEPT ![t].at = @ + 1, ![t].ver = 0]
                   /\ UNCHANGED versions
        /\ UNCHANGED <<list, effect>>

ApplyStep(t) ==
    LET c == call[t]
        ch == Change(t)
    IN  /\ c # NoCall /\ c.at <= Len(list[c.set])
        /\ IF Makes(c.ver, ch)
              THEN /\ versions' = Append(versions,
                          [prev |-> c.ver,
                           map  |-> [MapOf(c.ver) EXCEPT ![ch.key] = ch.val]])
                   /\ call' = [call EXCEPT ![t].at = @ + 1,
                                           ![t].ver = Len(versions')]
              ELSE /\ call' = [call EXCEPT ![t].at = @ + 1]
                   /\ UNCHANGED versions
        /\ UNCHANGED <<list, effect>>

Finished(t) == call[t] # NoCall /\ call[t].at > Len(list[call[t].set])

ApplyEnd(t) ==
    /\ Finished(t)
    /\ IF call[t].di THEN Discard(call[t].set) ELSE UNCHANGED <<list, effect>>
    /\ call' = [call EXCEPT ![t] = NoCall]
    /\ UNCHANGED versions

-----------------------------------------------------------------------------
Init == /\ list = << >> /\ effect = << >>
        /\ versions = << >>
        /\ call = [t \in Thread |-> NoCall]

Next ==
    \/ \E c \in Changeset : EmptySet(c)
    \/ \E c \in Sets :
          \/ FreeSet(c)
          \/ \E k \in Key, v \in Value \cup {NULL} : Add(c, k, v)
          \/ \E b \in Sets : MergeDi(c, b)
          \/ \E t \in Thread, v \in Version, di \in BOOLEAN : ApplyStart(t, v, c, di)
    \/ \E t \in Thread : ApplyStep(t) \/ ApplyEnd(t)

Spec == Init /\ [][Next]_vars

-----------------------------------------------------------------------------
(* Properties.                                                             *)

BasedOn(v, w) ==
    LET based[x \in 0..v] == x = w \/ (x > w /\ based[versions[x].prev])
    IN  based[v]

(* Applying a changeset gives the map of the version it was applied to     *)
(* with, for each key, the last change made to it: whatever other threads  *)
(* apply meanwhile, and in whatever pieces the changeset was built.  The   *)
(* result is based on that version, which aodbm_commit asks of it.         *)
ApplyIsFold ==
    \A t \in Thread : Finished(t) =>
        /\ MapOf(call[t].ver) = Overlay(MapOf(call[t].start), effect[call[t].set])
        /\ BasedOn(call[t].ver, call[t].start)
=============================================================================
