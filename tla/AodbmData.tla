------------------------------- MODULE AodbmData -------------------------------
(***************************************************************************)
(* Byte strings and their order.  The keys of a tree are compared with     *)
(* aodbm_data_lt only, and every search, split and iterator relies on it   *)
(* being a strict total order that aodbm_data_eq agrees with.              *)
(***************************************************************************)
EXTENDS Integers, Sequences

CONSTANTS
    Char,    \* the values of a char: -128..127 or 0..255
    Reg,     \* the variables of a caller
    MaxLen   \* no longer strings are made

ASSUME CharAssumption ==
    Char \subseteq Int /\ \E lo, hi \in Char : \A c \in Char : lo <= c /\ c <= hi

VARIABLE data  \* the string each variable of the caller points to

-----------------------------------------------------------------------------
(* Mutant: the loop does not stop at a greater char.                       *)
LtAnywhere(a, b) ==
    \/ Len(a) < Len(b)
    \/ /\ Len(a) = Len(b)
       /\ \E p \in 1..Len(a) : a[p] < b[p]

(* aodbm_data_lt: the shorter one, or the one with the smaller char where  *)
(* the two first differ.                                                   *)
Lt(a, b) ==
    \/ Len(a) < Len(b)
    \/ /\ Len(a) = Len(b)
       /\ \E p \in 1..Len(a) : /\ a[p] < b[p]
                               /\ \A q \in 1..p - 1 : a[q] = b[q]

Gt(a, b) == Lt(b, a)
Le(a, b) == ~Gt(a, b)
Ge(a, b) == ~Lt(a, b)

Eq(a, b) == Len(a) = Len(b) /\ \A p \in 1..Len(a) : a[p] = b[p]

Cmp(a, b) == IF Eq(a, b) THEN 0 ELSE IF Lt(a, b) THEN -1 ELSE 1

-----------------------------------------------------------------------------
(* aodbm_construct_data, aodbm_data_empty, aodbm_cat_data, aodbm_data_dup. *)
Construct(r, c) == data' = [data EXCEPT ![r] = <<c>>]

Empty(r) == data' = [data EXCEPT ![r] = << >>]

Cat(r, s, t) == /\ Len(data[s]) + Len(data[t]) <= MaxLen
                /\ data' = [data EXCEPT ![r] = data[s] \o data[t]]

Dup(r, s) == data' = [data EXCEPT ![r] = data[s]]

DataInit == data = [r \in Reg |-> << >>]

DataNext == \E r, s, t \in Reg : \/ \E c \in Char : Construct(r, c)
                                 \/ Empty(r) \/ Dup(r, s) \/ Cat(r, s, t)

DataSpec == DataInit /\ [][DataNext]_data

-----------------------------------------------------------------------------
(* Properties.                                                             *)

(* README: "if a is shorter than b return true, if b is shorter than a     *)
(* return false, return the lexicographic ordering".  Strings of equal     *)
(* length are in lexicographic order like the numbers whose digits they    *)
(* are, which makes the order strict and total: a search that goes left or *)
(* right by aodbm_data_lt would miss records otherwise.  The other         *)
(* comparisons agree with it, aodbm_data_cmp both ways round.              *)
Digits == 1 + CHOOSE n \in {c - d : c, d \in Char} : \A c, d \in Char : c - d <= n

Number(a) ==
    LET upTo[p \in 0..Len(a)] == IF p = 0 THEN 0 ELSE Digits * upTo[p - 1] + a[p]
    IN  upTo[Len(a)]

ReadmeOrder ==
    \A r, s \in Reg :
        LET a == data[r]
            b == data[s]
            less == \/ Len(a) < Len(b)
                    \/ Len(a) = Len(b) /\ Number(a) < Number(b)
        IN  /\ Lt(a, b) <=> less
            /\ Eq(a, b) <=> a = b
            /\ Cmp(a, b) < 0 <=> less
            /\ Cmp(a, b) <= 0 <=> Le(a, b)
            /\ Cmp(a, b) >= 0 <=> Ge(a, b)
            /\ Cmp(a, b) = -Cmp(b, a)
=============================================================================
