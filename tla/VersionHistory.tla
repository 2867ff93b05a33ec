---------------------------- MODULE VersionHistory ----------------------------
(***************************************************************************)
(* What an aodbm database promises, with no file, no lock and no scan: a   *)
(* growing tree of immutable versions, each a key-value map made from the  *)
(* one before it by one change, and a head that moves only to versions     *)
(* that contain it.  A crash may lose versions, but none the head needs,   *)
(* and may complete a commit that was under way.                           *)
(***************************************************************************)
EXTENDS Integers

CONSTANTS Key, Value, NULL

VARIABLES
    up,        \* the database is open
    versions,  \* version -> the version it was made from, and its map
    head       \* the committed version

hvars == <<up, versions, head>>

Versions == DOMAIN versions \cup {0}

MapOf(v) == IF v = 0 THEN [k \in Key |-> NULL] ELSE versions[v].map

(* v is h or was made from h, in one or more steps: whatever contains v    *)
(* and, with a version, the one it was made from, contains h.              *)
DescendsFrom(vs, v, h) ==
    \/ h = 0
    \/ /\ {v, h} \subseteq DOMAIN vs
       /\ \A S \in SUBSET DOMAIN vs :
            (v \in S /\ \A w \in S : vs[w].prev \in S \cup {0}) => h \in S

HInit == /\ up = FALSE
         /\ versions = [v \in {} |-> 0]
         /\ head = 0

(* One change, x = NULL for a deletion, makes a new version, at a place    *)
(* beyond every version there is.                                          *)
Make ==
    /\ up /\ up' = up
    /\ \E p \in Versions, k \in Key, x \in Value \cup {NULL} :
         \E v \in DOMAIN versions' :
            /\ \A w \in Versions : w < v
            /\ versions' =
                 [w \in DOMAIN versions \cup {v} |->
                    IF w = v
                    THEN [prev |-> p, map |-> [MapOf(p) EXCEPT ![k] = x]]
                    ELSE versions[w]]
    /\ UNCHANGED head

Commit ==
    /\ up /\ up' = up
    /\ head' \in Versions
    /\ DescendsFrom(versions, head', head)
    /\ UNCHANGED versions

Open  == ~up /\ up' = TRUE /\ UNCHANGED <<versions, head>>
Close == up /\ up' = FALSE /\ UNCHANGED <<versions, head>>

Lose ==
    /\ up /\ up' = FALSE
    /\ DOMAIN versions' \subseteq DOMAIN versions
    /\ versions' = [v \in DOMAIN versions' |-> versions[v]]
    /\ \A v \in DOMAIN versions' : versions[v].prev \in DOMAIN versions' \cup {0}
    /\ head' \in DOMAIN versions' \cup {0}
    /\ DescendsFrom(versions', head', head)

HNext == Make \/ Commit \/ Open \/ Close \/ Lose

HSpec == HInit /\ [][HNext]_hvars
=============================================================================
