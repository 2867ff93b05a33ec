---------------------------- MODULE MCAodbmTables ----------------------------
(***************************************************************************)
(* Hash tables and changesets for TLC.  A behaviour is about one of the    *)
(* two, which part names; the other stays as it begins.                    *)
(***************************************************************************)
EXTENDS AodbmChangeset, AodbmHash, TLC

VARIABLE part

setVars == vars

(* Linear functions with long and short cycles, and one with a chain into  *)
(* a fixed point that uses up the probes of a table that is being doubled. *)
HashKeys == 0..5
ChainMix == <<3, 0, 5, 4, 4, 5>>
Linear   == {[k \in HashKeys |-> (a * k + b) % 6] : a \in {0, 1, 2, 5}, b \in HashKeys}
HashMixes == Linear \cup {[k \in HashKeys |-> ChainMix[k + 1]]}

TablesInit == /\ part \in {"tables", "changesets"}
              /\ Init
              /\ IF part = "tables"
                 THEN HashInit
                 ELSE /\ mix = << >> /\ data = << >>
                      /\ did = [call |-> "new", val |-> Empty]

TablesNext == /\ \/ part = "tables" /\ HashNext /\ UNCHANGED setVars
                 \/ part = "changesets" /\ Next /\ UNCHANGED hashVars
              /\ UNCHANGED part

TablesSpec == TablesInit /\ [][TablesNext]_<<part, hashVars, setVars>>

(* Nothing tells threads, changesets or their keys apart. *)
ChangesetSymmetry == Permutations(Thread) \cup Permutations(Changeset)
                     \cup Permutations(Key)
=============================================================================
