----------------------------- MODULE ItemSequences -----------------------------
(***************************************************************************)
(* What aodbm_list promises, with no links: each list is a sequence of     *)
(* items, and an iterator is a place in one, 0 when it is finished.        *)
(***************************************************************************)
EXTENDS Naturals, SequencesExt

CONSTANTS
    List,    \* the lists there may be
    Item,
    NULL     \* no list

VARIABLES
    seq,     \* list -> its items; its domain is the lists that are there
    at       \* the iterator: its list, or NULL, and its place

seqVars == <<seq, at>>

SeqInit == seq = << >> /\ at = [list |-> NULL, pos |-> 0]

(* The iterator of a list that changes in front of it stays with its item, *)
(* and may not be used again when its item has gone.                       *)
Shifted(l, by) == IF at.list = l /\ at.pos > 0 THEN [at EXCEPT !.pos = @ + by]
                                               ELSE at
Dropped(gone)  == IF gone THEN [list |-> NULL, pos |-> 0] ELSE at

Empty(l) == /\ l \notin DOMAIN seq
            /\ seq' = [k \in DOMAIN seq \cup {l} |-> IF k = l THEN << >> ELSE seq[k]]
            /\ UNCHANGED at

Free(l) == /\ seq' = [k \in DOMAIN seq \ {l} |-> seq[k]]
           /\ at' = Dropped(at.list = l)

PushFront(l, x) == /\ seq' = [seq EXCEPT ![l] = <<x>> \o @]
                   /\ at' = Shifted(l, 1)

PushBack(l, x) == /\ seq' = [seq EXCEPT ![l] = Append(@, x)]
                  /\ UNCHANGED at

PopFront(l) == /\ seq[l] # << >>
               /\ seq' = [seq EXCEPT ![l] = Tail(@)]
               /\ at' = IF at.list = l /\ at.pos = 1 THEN Dropped(TRUE)
                        ELSE IF at.list = l /\ at.pos > 1
                             THEN [at EXCEPT !.pos = @ - 1] ELSE at

PopBack(l) == /\ seq[l] # << >>
              /\ seq' = [seq EXCEPT ![l] = Front(@)]
              /\ at' = Dropped(at.list = l /\ at.pos = Len(seq[l]))

Merge(a, b) == /\ a # b
               /\ seq' = [k \in DOMAIN seq \ {b} |->
                             IF k = a THEN seq[a] \o seq[b] ELSE seq[k]]
               /\ at' = Dropped(at.list = b)

Begin(l) == /\ at' = [list |-> l, pos |-> IF seq[l] = << >> THEN 0 ELSE 1]
            /\ UNCHANGED seq
Back(l)  == /\ at' = [list |-> l, pos |-> Len(seq[l])]
            /\ UNCHANGED seq

Here == seq[at.list]

NextItem == /\ at.pos > 0
            /\ at' = [at EXCEPT !.pos = IF @ = Len(Here) THEN 0 ELSE @ + 1]
            /\ UNCHANGED seq
PrevItem == /\ at.pos > 0
            /\ at' = [at EXCEPT !.pos = @ - 1]
            /\ UNCHANGED seq

(* Behind the iterator's place, or into an empty list.                     *)
Insert(x) == /\ at.pos > 0 \/ Here = << >>
             /\ seq' = [seq EXCEPT ![at.list] = InsertAt(@, at.pos + 1, x)]
             /\ UNCHANGED at

(* The iterator goes to the item behind, or, at the end, to the one before.*)
RemoveHere == /\ at.pos > 0
          /\ seq' = [seq EXCEPT ![at.list] = RemoveAt(@, at.pos)]
          /\ at' = [at EXCEPT !.pos = IF @ = Len(Here) THEN @ - 1 ELSE @]

SeqNext ==
    \/ \E l \in List : Empty(l)
    \/ \E l \in DOMAIN seq :
          \/ Free(l) \/ PopFront(l) \/ PopBack(l) \/ Begin(l) \/ Back(l)
          \/ \E x \in Item : PushFront(l, x) \/ PushBack(l, x)
          \/ \E b \in DOMAIN seq : Merge(l, b)
    \/ /\ at.list # NULL
       /\ NextItem \/ PrevItem \/ RemoveHere \/ \E x \in Item : Insert(x)

SeqSpec == SeqInit /\ [][SeqNext]_seqVars
=============================================================================
