------------------------------- MODULE AodbmHash -------------------------------
(***************************************************************************)
(* aodbm_hash: a table of pointers that is probed at most five times, at   *)
(* the slots that hash() leads to from the value's own key.  The slots     *)
(* that a deletion clears are not marked; a table whose probes are used up *)
(* is doubled.                                                             *)
(***************************************************************************)
EXTENDS Integers, FiniteSets, SequencesExt

CONSTANTS
    Item,        \* the values; each is its own key, as in hash_test.c
    HashKey,     \* what hash_function and hash may return
    Mixes,       \* the functions hash may be
    Buckets,     \* AODBM_HASH_BUCKETS
    FirstSizes,  \* sz of aodbm_new_hash
    MaxSize,     \* bound: no insertion begins in a table of more than this
    MaxRounds,   \* bound: no table is doubled that takes more to fill again
    Empty        \* NULL: the content of a free slot

ASSUME HashAssumption ==
    /\ Item \subseteq HashKey /\ HashKey \subseteq Nat /\ Empty \notin Item
    /\ \A m \in Mixes : m \in [HashKey -> HashKey]
    /\ Buckets \in Nat \ {0} /\ FirstSizes \subseteq Nat \ {0}
    /\ MaxSize \in Nat /\ MaxRounds \in Nat

VARIABLES
    mix,    \* hash: chosen and then fixed
    data,   \* the table: slot -> value or Empty, from 1
    did     \* the last call

hashVars == <<mix, data, did>>

NewTable(sz) == [i \in 1..sz |-> Empty]

(* The slots probed for v, in their order.                                 *)
Probes(v, sz) ==
    LET key[i \in 1..Buckets] == IF i = 1 THEN v ELSE mix[key[i - 1]]
    IN  [i \in 1..Buckets |-> 1 + (key[i] % sz)]

(* The first slot on v's way with content x, or 0.                         *)
FirstWith(table, v, x) == SelectInSeq(Probes(v, Len(table)), LAMBDA s : table[s] = x)

SlotOf(table, v, i) == Probes(v, Len(table))[i]

(* The loop that fills a doubled table with what the old one held goes     *)
(* through aodbm_hash_insert, which may double again: what the outer loop  *)
(* has left comes after that.  The value no slot was found for is in no    *)
(* table.                                                                  *)
Round(w) ==
    LET b == Head(w.todo)
        i == FirstWith(w.table, b, Empty)
    IN  IF w.todo = << >> THEN w
        ELSE IF b = Empty THEN [w EXCEPT !.todo = Tail(@)]
        ELSE IF i # 0 THEN [table |-> [w.table EXCEPT ![SlotOf(w.table, b, i)] = b],
                            todo  |-> Tail(w.todo)]
        ELSE [table |-> NewTable(2 * Len(w.table)), todo |-> w.table \o Tail(w.todo)]

(* Mutant: the doubled table begins with the old one as it is.             *)
RefillInPlace(table) == [table |-> table \o NewTable(Len(table)), todo |-> << >>]

Refill(table) ==
    LET round[k \in 0..MaxRounds] ==
            IF k = 0 THEN [table |-> NewTable(2 * Len(table)), todo |-> table]
                     ELSE Round(round[k - 1])
    IN  round[MaxRounds]

(* Mutant: the last slot probed is taken in any case.                      *)
InsertOver(v) ==
    LET i == FirstWith(data, v, Empty)
    IN  /\ Len(data) <= MaxSize
        /\ data' = [data EXCEPT ![SlotOf(data, v, IF i # 0 THEN i ELSE Buckets)] = v]
        /\ did' = [call |-> "insert", val |-> v]
        /\ UNCHANGED mix

(* aodbm_hash_insert: the first free slot on v's way.                      *)
Insert(v) ==
    LET i == FirstWith(data, v, Empty)
        w == Refill(data)
    IN  /\ Len(data) <= MaxSize
        /\ \/ i # 0 /\ data' = [data EXCEPT ![SlotOf(data, v, i)] = v]
           \/ i = 0 /\ w.todo = << >> /\ data' = w.table
        /\ did' = [call |-> "insert", val |-> v]
        /\ UNCHANGED mix

(* Mutant: deletion gives up at the first empty slot.                      *)
DelToEmpty(v) ==
    LET i == FirstWith(data, v, v)
        e == FirstWith(data, v, Empty)
    IN  /\ data' = IF i = 0 \/ (e # 0 /\ e < i) THEN data
                   ELSE [data EXCEPT ![SlotOf(data, v, i)] = Empty]
        /\ did' = [call |-> "del", val |-> v]
        /\ UNCHANGED mix

(* The first match on the way is cleared; eq is never true of an empty     *)
(* slot.                                                                   *)
Del(v) ==
    LET i == FirstWith(data, v, v)
    IN  /\ data' = IF i = 0 THEN data ELSE [data EXCEPT ![SlotOf(data, v, i)] = Empty]
        /\ did' = [call |-> "del", val |-> v]
        /\ UNCHANGED mix

(* Mutant: a lookup gives up at the first empty slot.                      *)
GetToEmpty(v) ==
    LET i == FirstWith(data, v, v)
        e == FirstWith(data, v, Empty)
    IN  IF i = 0 \/ (e # 0 /\ e < i) THEN Empty ELSE v

(* aodbm_hash_get.                                                         *)
Get(v) == IF FirstWith(data, v, v) = 0 THEN Empty ELSE v

HashInit == /\ mix \in Mixes
            /\ \E sz \in FirstSizes : data = NewTable(sz)
            /\ did = [call |-> "new", val |-> Empty]

HashNext == \E v \in Item : Insert(v) \/ Del(v)

HashSpec == HashInit /\ [][HashNext]_hashVars

-----------------------------------------------------------------------------
(* Properties.                                                             *)

Copies(table, v) == Cardinality({i \in DOMAIN table : table[i] = v})

(* aodbm_hash_get finds whatever is in the table.                          *)
StoredIsFound == \A i \in DOMAIN data : data[i] # Empty => Get(data[i]) = data[i]

Difference(v) == IF v # did.val' THEN 0
                 ELSE IF did.call' = "insert" THEN 1
                 ELSE IF Copies(data, v) > 0 THEN -1 ELSE 0

(* What is in the table is found also behind slots that were taken when it *)
(* came and have been cleared since, and after every doubling.  A deletion *)
(* takes away one copy of its value if there is one, an insertion that     *)
(* finds a slot adds one, and no other value is touched.                   *)
TableIsBag ==
    [][/\ StoredIsFound'
       /\ Len(data') = Len(data) =>
            \A v \in Item : Copies(data', v) = Copies(data, v) + Difference(v)]_hashVars
=============================================================================
