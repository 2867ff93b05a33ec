-------------------------- MODULE AodbmBytesProofs ---------------------------
(***************************************************************************)
(* The file byte by byte: numbers and blocks read back, the scan finds the *)
(* blocks a crash has left whole, and a version is found as it was stored, *)
(* for any records, sizes of a word and lengths of a file.                 *)
(*                                                                         *)
(* Byte strings: the comparisons of aodbm_data are the order of the        *)
(* README, for chars of any range, any variables and strings of any length.*)
(***************************************************************************)
EXTENDS AodbmBlocks, AodbmData, SequenceTheorems, WellFoundedInduction, TLAPS

Byte == 0..255

-----------------------------------------------------------------------------
(* A set of naturals that is not empty has a least one.                    *)
LEMMA LeastNat ==
    ASSUME NEW S, S \subseteq Nat, S # {}
    PROVE  \E m \in S : \A n \in S : m <= n
<1>1. PICK m \in S : \A n \in S : <<n, m>> \notin OpToRel(<, Nat)
    BY WFMin, NatLessThanWellFounded, Zenon
<1>2. \A n \in S : ~(n < m)
    BY <1>1, Zenon DEF OpToRel
<1>3. \A n \in S : n \in Nat /\ m \in Nat
    OBVIOUS
<1> QED
    BY <1>2, <1>3

(* A set of naturals that has 0, and with k the next one up to n, has n.   *)
LEMMA UpTo ==
    ASSUME NEW n \in Nat, NEW S, 0 \in S,
           \A k \in 0..n : k # n /\ k \in S => k + 1 \in S
    PROVE  0..n \subseteq S
<1> DEFINE bad == (0..n) \ S
<1>1. SUFFICES ASSUME bad # {}
               PROVE  FALSE
    OBVIOUS
<1>2. PICK m \in bad : \A k \in bad : m <= k
    <2>1. bad \subseteq Nat
        OBVIOUS
    <2> HIDE DEF bad
    <2> QED
        BY <1>1, <2>1, LeastNat
<1>3. m # 0 /\ m \in 0..n /\ m \in Nat
    BY <1>2
<1>4. m - 1 \in 0..n /\ m - 1 # n /\ (m - 1) + 1 = m /\ ~(m <= m - 1)
    BY <1>3
<1>5. m - 1 \in S
    BY <1>2, <1>4
<1>6. m \in S
    BY <1>4, <1>5
<1> QED
    BY <1>2, <1>6

-----------------------------------------------------------------------------
(* Numbers.                                                                *)

(* f is what is left of n as its last bytes are taken away.                *)
Rests(n, w, f) == f = [k \in 0..w |-> IF k = 0 THEN n ELSE f[k - 1] \div 256]

(* The bytes of a number, of which f is what is left.                      *)
LowBytes(w, f) == [i \in 1..w |-> f[w - i] % 256]

(* f is the number each prefix of the bytes is.                            *)
Words(bytes, n, f) ==
    f = [k \in 0..n |-> IF k = 0 THEN 0 ELSE 256 * f[k - 1] + bytes[k]]

(* f is what each number of bytes has room for.                            *)
Rooms(w, f) == f = [k \in 0..w |-> IF k = 0 THEN 1 ELSE 256 * f[k - 1]]

(* There is such an f, and it gives the bytes.                             *)
LEMMA RestsIs ==
    ASSUME NEW n, NEW w \in Nat
    PROVE  \E f : Rests(n, w, f) /\ WordBytes(n, w) = LowBytes(w, f)
<1> DEFINE S == {k \in Nat : \E f : Rests(n, k, f)}
<1>1. 0 \in S
    <2>1. Rests(n, 0, [k \in 0..0 |-> n])
        BY DEF Rests
    <2> QED
        BY <2>1
<1>2. ASSUME NEW m \in 0..w, m # w, m \in S
      PROVE  m + 1 \in S
    <2>1. m \in Nat
        OBVIOUS
    <2>2. PICK f : Rests(n, m, f)
        BY <1>2
    <2> DEFINE g == [k \in 0..m + 1 |-> IF k = m + 1 THEN f[m] \div 256 ELSE f[k]]
    <2>3. \A k \in 0..m : f[k] = IF k = 0 THEN n ELSE f[k - 1] \div 256
        BY <2>2 DEF Rests
    <2>4. \A k \in 0..m + 1 : k # 0 => k - 1 \in 0..m /\ g[k - 1] = f[k - 1]
        BY <2>1
    <2>5. \A k \in 0..m + 1 : g[k] = IF k = 0 THEN n ELSE g[k - 1] \div 256
        BY <2>1, <2>3, <2>4
    <2>6. Rests(n, m + 1, g)
        BY <2>5 DEF Rests
    <2> QED
        BY <2>1, <2>6
<1>3. w \in S
    <2> HIDE DEF S
    <2>1. 0..w \subseteq S
        BY <1>1, <1>2, UpTo
    <2> QED
        BY <2>1
<1> DEFINE u == CHOOSE f : Rests(n, w, f)
<1>4. Rests(n, w, u)
    BY <1>3, Zenon
<1>5. WordBytes(n, w) = LowBytes(w, u)
    BY Zenon DEF WordBytes, Rests, LowBytes
<1> QED
    BY <1>4, <1>5

(* There is such an f, and it gives the number.                            *)
LEMMA WordsIs ==
    ASSUME NEW bytes, Len(bytes) \in Nat
    PROVE  \E f : Words(bytes, Len(bytes), f) /\ Word(bytes) = f[Len(bytes)]
<1> DEFINE S == {n \in Nat : \E f : Words(bytes, n, f)}
           w == Len(bytes)
<1>1. 0 \in S
    <2>1. Words(bytes, 0, [k \in 0..0 |-> 0])
        BY DEF Words
    <2> QED
        BY <2>1
<1>2. ASSUME NEW m \in 0..w, m # w, m \in S
      PROVE  m + 1 \in S
    <2>1. m \in Nat
        OBVIOUS
    <2>2. PICK f : Words(bytes, m, f)
        BY <1>2
    <2> DEFINE g == [k \in 0..m + 1 |->
                        IF k = m + 1 THEN 256 * f[m] + bytes[m + 1] ELSE f[k]]
    <2>3. \A k \in 0..m : f[k] = IF k = 0 THEN 0 ELSE 256 * f[k - 1] + bytes[k]
        BY <2>2 DEF Words
    <2>4. \A k \in 0..m + 1 : k # 0 => k - 1 \in 0..m /\ g[k - 1] = f[k - 1]
        BY <2>1
    <2>5. \A k \in 0..m + 1 : g[k] = IF k = 0 THEN 0 ELSE 256 * g[k - 1] + bytes[k]
        BY <2>1, <2>3, <2>4
    <2>6. Words(bytes, m + 1, g)
        BY <2>5 DEF Words
    <2> QED
        BY <2>1, <2>6
<1>3. w \in S
    <2>0. w \in Nat
        OBVIOUS
    <2> HIDE DEF S, w
    <2>1. 0..w \subseteq S
        BY <2>0, <1>1, <1>2, UpTo
    <2> QED
        BY <2>0, <2>1
<1> DEFINE u == CHOOSE f : Words(bytes, Len(bytes), f)
<1>4. Words(bytes, Len(bytes), u)
    BY <1>3, Zenon
<1>5. Word(bytes) = u[Len(bytes)]
    BY Zenon DEF Word, Words
<1> QED
    BY <1>4, <1>5

(* There is such an f, and it gives the room.                              *)
LEMMA RoomsIs ==
    ASSUME NEW w \in Nat
    PROVE  \E f : Rooms(w, f) /\ Room(w) = f[w]
<1> DEFINE S == {n \in Nat : \E f : Rooms(n, f)}
<1>1. 0 \in S
    <2>1. Rooms(0, [k \in 0..0 |-> 1])
        BY DEF Rooms
    <2> QED
        BY <2>1
<1>2. ASSUME NEW m \in 0..w, m # w, m \in S
      PROVE  m + 1 \in S
    <2>1. m \in Nat
        OBVIOUS
    <2>2. PICK f : Rooms(m, f)
        BY <1>2
    <2> DEFINE g == [k \in 0..m + 1 |-> IF k = m + 1 THEN 256 * f[m] ELSE f[k]]
    <2>3. \A k \in 0..m : f[k] = IF k = 0 THEN 1 ELSE 256 * f[k - 1]
        BY <2>2 DEF Rooms
    <2>4. \A k \in 0..m + 1 : k # 0 => k - 1 \in 0..m /\ g[k - 1] = f[k - 1]
        BY <2>1
    <2>5. \A k \in 0..m + 1 : g[k] = IF k = 0 THEN 1 ELSE 256 * g[k - 1]
        BY <2>1, <2>3, <2>4
    <2>6. Rooms(m + 1, g)
        BY <2>5 DEF Rooms
    <2> QED
        BY <2>1, <2>6
<1>3. w \in S
    <2> HIDE DEF S
    <2>1. 0..w \subseteq S
        BY <1>1, <1>2, UpTo
    <2> QED
        BY <2>1
<1> DEFINE u == CHOOSE f : Rooms(w, f)
<1>4. Rooms(w, u)
    BY <1>3, Zenon
<1>5. Room(w) = u[w]
    BY Zenon DEF Room, Rooms
<1> QED
    BY <1>4, <1>5

(* Room is a number.                                                       *)
LEMMA RoomType ==
    ASSUME NEW w \in Nat
    PROVE  Room(w) \in Nat
<1>1. PICK r : Rooms(w, r) /\ Room(w) = r[w]
    BY RoomsIs
<1>2. r[0] = 1 /\ \A k \in 1..w : r[k] = 256 * r[k - 1]
    BY <1>1 DEF Rooms
<1> DEFINE S == {k \in 0..w : r[k] \in Nat}
<1>3. 0..w \subseteq S
    <2>1. 0 \in S
        BY <1>2
    <2>2. ASSUME NEW k \in 0..w, k # w, k \in S
          PROVE  k + 1 \in S
        <3>1. k + 1 \in 1..w /\ (k + 1) - 1 = k
            BY <2>2
        <3>2. r[k + 1] = 256 * r[k]
            BY <1>2, <3>1
        <3> QED
            BY <2>2, <3>1, <3>2
    <2> HIDE DEF S
    <2> QED
        BY <2>1, <2>2, UpTo
<1> QED
    BY <1>1, <1>3

(* The bytes of a number are bytes, as many as asked for.                  *)
LEMMA WordBytesType ==
    ASSUME NEW n \in Nat, NEW w \in Nat
    PROVE  /\ WordBytes(n, w) \in Seq(Byte)
           /\ Len(WordBytes(n, w)) = w
<1>1. PICK f : Rests(n, w, f) /\ WordBytes(n, w) = LowBytes(w, f)
    BY RestsIs
<1>2. \A k \in 0..w : f[k] = IF k = 0 THEN n ELSE f[k - 1] \div 256
    BY <1>1 DEF Rests
<1> DEFINE S == {k \in 0..w : f[k] \in Nat}
<1>3. 0..w \subseteq S
    <2>1. 0 \in S
        BY <1>2
    <2>2. ASSUME NEW k \in 0..w, k # w, k \in S
          PROVE  k + 1 \in S
        <3>1. k + 1 \in 0..w /\ k + 1 # 0 /\ (k + 1) - 1 = k
            BY <2>2
        <3>2. f[k + 1] = f[k] \div 256
            BY <1>2, <3>1
        <3>3. f[k] \div 256 \in Nat
            BY <2>2
        <3> QED
            BY <3>1, <3>2, <3>3
    <2> HIDE DEF S
    <2> QED
        BY <2>1, <2>2, UpTo
<1>4. \A i \in 1..w : f[w - i] % 256 \in Byte
    <2> TAKE i \in 1..w
    <2>1. w - i \in 0..w
        OBVIOUS
    <2>2. f[w - i] \in Nat
        BY <1>3, <2>1
    <2> QED
        BY <2>2 DEF Byte
<1>5. WordBytes(n, w) \in [1..w -> Byte]
    BY <1>1, <1>4 DEF LowBytes
<1> QED
    BY <1>5

(* A number there is room for reads back.                                  *)
LEMMA WordReadsBack ==
    ASSUME NEW n \in Nat, NEW w \in Nat, n < Room(w)
    PROVE  Word(WordBytes(n, w)) = n
<1>1. PICK f : Rests(n, w, f) /\ WordBytes(n, w) = LowBytes(w, f)
    BY RestsIs
<1>2. PICK r : Rooms(w, r) /\ Room(w) = r[w]
    BY RoomsIs
<1>3. Len(WordBytes(n, w)) = w
    BY WordBytesType
<1>4. PICK u : Words(WordBytes(n, w), w, u) /\ Word(WordBytes(n, w)) = u[w]
    BY <1>3, WordsIs
<1>5. f[0] = n /\ \A k \in 1..w : f[k] = f[k - 1] \div 256
    BY <1>1 DEF Rests
<1>6. r[0] = 1 /\ \A k \in 1..w : r[k] = 256 * r[k - 1]
    BY <1>2 DEF Rooms
<1>7. u[0] = 0 /\ \A k \in 1..w : u[k] = 256 * u[k - 1] + (f[w - k] % 256)
    <2>1. /\ u[0] = 0
          /\ \A k \in 1..w : u[k] = 256 * u[k - 1] + WordBytes(n, w)[k]
        BY <1>4 DEF Words
    <2>2. \A k \in 1..w : WordBytes(n, w)[k] = f[w - k] % 256
        BY <1>1 DEF LowBytes
    <2> QED
        BY <2>1, <2>2
<1> DEFINE S == {k \in 0..w : r[k] \in Nat}
           T == {k \in 0..w : f[k] \in Nat /\ f[k] < r[w - k]}
           U == {k \in 0..w : u[k] = f[w - k]}
<1>8. 0..w \subseteq S
    <2>1. 0 \in S
        BY <1>6
    <2>2. ASSUME NEW k \in 0..w, k # w, k \in S
          PROVE  k + 1 \in S
        <3>1. k + 1 \in 1..w /\ (k + 1) - 1 = k
            BY <2>2
        <3>2. r[k + 1] = 256 * r[k]
            BY <1>6, <3>1
        <3> QED
            BY <2>2, <3>1, <3>2
    <2> HIDE DEF S
    <2> QED
        BY <2>1, <2>2, UpTo
<1>9. 0..w \subseteq T
    <2>1. 0 \in T
        BY <1>2, <1>5
    <2>2. ASSUME NEW k \in 0..w, k # w, k \in T
          PROVE  k + 1 \in T
        <3>1. k + 1 \in 1..w /\ (k + 1) - 1 = k
            BY <2>2
        <3>2. f[k + 1] = f[k] \div 256
            BY <1>5, <3>1
        <3>3. w - k \in 1..w /\ (w - k) - 1 = w - (k + 1) /\ w - (k + 1) \in 0..w
            BY <2>2
        <3>4. r[w - k] = 256 * r[w - (k + 1)]
            BY <1>6, <3>3
        <3>5. r[w - (k + 1)] \in Nat
            BY <1>8, <3>3
        <3>6. f[k] \in Nat /\ f[k] < 256 * r[w - (k + 1)]
            BY <2>2, <3>4
        <3>7. f[k] \div 256 \in Nat /\ f[k] \div 256 < r[w - (k + 1)]
            BY <3>5, <3>6
        <3> QED
            BY <3>1, <3>2, <3>7
    <2> HIDE DEF T
    <2> QED
        BY <2>1, <2>2, UpTo
<1>10. 0..w \subseteq U
    <2>1. 0 \in U
        <3>1. f[w] \in Nat /\ f[w] < r[w - w]
            BY <1>9
        <3>2. w - w = 0
            OBVIOUS
        <3>3. f[w] = 0
            BY <1>6, <3>1, <3>2
        <3> QED
            BY <1>7, <3>3
    <2>2. ASSUME NEW k \in 0..w, k # w, k \in U
          PROVE  k + 1 \in U
        <3>1. k + 1 \in 1..w /\ (k + 1) - 1 = k
            BY <2>2
        <3>2. w - k \in 1..w /\ (w - k) - 1 = w - (k + 1) /\ w - (k + 1) \in 0..w
            BY <2>2
        <3>3. f[w - k] = f[w - (k + 1)] \div 256
            BY <1>5, <3>2
        <3>4. u[k + 1] = 256 * f[w - k] + (f[w - (k + 1)] % 256)
            BY <1>7, <2>2, <3>1
        <3>5. f[w - (k + 1)] \in Nat
            BY <1>9, <3>2
        <3>6. u[k + 1] = f[w - (k + 1)]
            BY <3>3, <3>4, <3>5
        <3> QED
            BY <3>1, <3>6
    <2> HIDE DEF U
    <2> QED
        BY <2>1, <2>2, UpTo
<1>11. w \in U /\ w - w = 0
    BY <1>10
<1> QED
    BY <1>4, <1>5, <1>11

-----------------------------------------------------------------------------
(* Strings of bytes one behind the other.                                  *)

(* f is the first strings of ss put together, for each number of them.     *)
Laid(ss, n, f) == f = [i \in 0..n |-> IF i = 0 THEN << >> ELSE f[i - 1] \o ss[i]]

(* The same as FlattenSeq has it.                                          *)
Flat(ss, g) == g = [i \in 1..Len(ss) |-> IF i = 1 THEN ss[i] ELSE g[i - 1] \o ss[i]]

(* There is such an f.                                                     *)
LEMMA LaidIs ==
    ASSUME NEW S, NEW ss \in Seq(Seq(S))
    PROVE  \E f : Laid(ss, Len(ss), f)
<1> DEFINE w == Len(ss)
           T == {n \in Nat : \E f : Laid(ss, n, f)}
<1>1. 0 \in T
    <2>1. Laid(ss, 0, [i \in 0..0 |-> << >>])
        BY DEF Laid
    <2> QED
        BY <2>1
<1>2. ASSUME NEW m \in 0..w, m # w, m \in T
      PROVE  m + 1 \in T
    <2>1. m \in Nat
        OBVIOUS
    <2>2. PICK f : Laid(ss, m, f)
        BY <1>2
    <2> DEFINE g == [i \in 0..m + 1 |-> IF i = m + 1 THEN f[m] \o ss[m + 1] ELSE f[i]]
    <2>3. \A i \in 0..m : f[i] = IF i = 0 THEN << >> ELSE f[i - 1] \o ss[i]
        BY <2>2 DEF Laid
    <2>4. \A i \in 0..m + 1 : i # 0 => i - 1 \in 0..m /\ g[i - 1] = f[i - 1]
        BY <2>1
    <2>5. \A i \in 0..m + 1 : g[i] = IF i = 0 THEN << >> ELSE g[i - 1] \o ss[i]
        BY <2>1, <2>3, <2>4
    <2>6. Laid(ss, m + 1, g)
        BY <2>5 DEF Laid
    <2> QED
        BY <2>1, <2>6
<1> QED
    <2>1. w \in Nat
        OBVIOUS
    <2> HIDE DEF T, w
    <2>2. 0..w \subseteq T
        BY <2>1, <1>1, <1>2, UpTo
    <2>3. w \in T
        BY <2>1, <2>2
    <2> QED
        BY <2>3 DEF T, w

(* What it holds.                                                          *)
LEMMA LaidType ==
    ASSUME NEW S, NEW ss \in Seq(Seq(S)), NEW f, Laid(ss, Len(ss), f)
    PROVE  /\ f[0] = << >>
           /\ \A i \in 1..Len(ss) : f[i] = f[i - 1] \o ss[i]
           /\ \A i \in 0..Len(ss) : f[i] \in Seq(S)
<1> DEFINE T == {i \in 0..Len(ss) : f[i] \in Seq(S)}
<1>1. Len(ss) \in Nat
    OBVIOUS
<1>2. f[0] = << >> /\ \A i \in 1..Len(ss) : f[i] = f[i - 1] \o ss[i]
    <2>1. \A i \in 0..Len(ss) : f[i] = IF i = 0 THEN << >> ELSE f[i - 1] \o ss[i]
        BY Zenon DEF Laid
    <2>2. 0 \in 0..Len(ss) /\ \A i \in 1..Len(ss) : i \in 0..Len(ss) /\ i # 0
        BY <1>1
    <2> QED
        BY <2>1, <2>2, Zenon
<1>3. 0 \in T
    <2>1. 0 \in 0..Len(ss)
        BY <1>1
    <2> QED
        BY <1>2, <2>1, EmptySeq
<1>4. ASSUME NEW i \in 0..Len(ss), i # Len(ss), i \in T
      PROVE  i + 1 \in T
    <2>1. i + 1 \in 1..Len(ss) /\ (i + 1) - 1 = i
        BY <1>1, <1>4
    <2>2. f[i + 1] = f[i] \o ss[i + 1]
        BY <1>2, <2>1
    <2>3. ss[i + 1] \in Seq(S) /\ f[i] \in Seq(S)
        BY <1>4, <2>1
    <2>4. f[i] \o ss[i + 1] \in Seq(S)
        BY <2>3, ConcatProperties
    <2>5. i + 1 \in 0..Len(ss)
        BY <1>1, <2>1
    <2> QED
        BY <2>2, <2>4, <2>5
<1>5. 0..Len(ss) \subseteq T
    <2> HIDE DEF T
    <2> QED
        BY <1>1, <1>3, <1>4, UpTo
<1> QED
    BY <1>2, <1>5

(* FlattenSeq puts all of them together.                                   *)
LEMMA FlattenIs ==
    ASSUME NEW S, NEW ss \in Seq(Seq(S)), NEW f, Laid(ss, Len(ss), f)
    PROVE  FlattenSeq(ss) = f[Len(ss)]
<1>1. /\ Len(ss) \in Nat
      /\ f[0] = << >>
      /\ \A i \in 1..Len(ss) : f[i] = f[i - 1] \o ss[i]
    <2>1. Len(ss) \in Nat
        OBVIOUS
    <2> QED
        BY <2>1, LaidType, Zenon
<1>2. CASE Len(ss) = 0
    <2>1. ss = << >>
        BY <1>2
    <2> QED
        BY <1>1, <1>2, <2>1 DEF FlattenSeq
<1>3. CASE Len(ss) # 0
    <2> DEFINE u == CHOOSE g : Flat(ss, g)
    <2>1. f[1] = ss[1]
        <3>1. 1 \in 1..Len(ss) /\ 1 - 1 = 0 /\ ss[1] \in Seq(S)
            BY <1>1, <1>3
        <3>2. f[1] = << >> \o ss[1]
            BY <1>1, <3>1
        <3> QED
            BY <3>1, <3>2, ConcatEmptySeq
    <2>2. Flat(ss, [i \in 1..Len(ss) |-> f[i]])
        <3> DEFINE h == [i \in 1..Len(ss) |-> f[i]]
        <3>1. \A i \in 1..Len(ss) : i # 1 => i - 1 \in 1..Len(ss)
            BY <1>1
        <3>2. \A i \in 1..Len(ss) : h[i] = IF i = 1 THEN ss[i] ELSE h[i - 1] \o ss[i]
            BY <1>1, <2>1, <3>1
        <3> QED
            BY <3>2 DEF Flat
    <2>3. Flat(ss, u)
        BY <2>2, Zenon
    <2>4. FlattenSeq(ss) = u[Len(ss)]
        BY <1>3, Zenon DEF FlattenSeq, Flat
    <2> HIDE DEF u
    <2>5. /\ u[1] = ss[1]
          /\ \A i \in 1..Len(ss) : i # 1 => u[i] = u[i - 1] \o ss[i]
        <3>1. \A i \in 1..Len(ss) : u[i] = IF i = 1 THEN ss[i] ELSE u[i - 1] \o ss[i]
            BY <2>3, Zenon DEF Flat
        <3>2. 1 \in 1..Len(ss)
            BY <1>1, <1>3
        <3> QED
            BY <3>1, <3>2, Zenon
    <2> DEFINE T == {i \in 0..Len(ss) : i # 0 => u[i] = f[i]}
    <2>6. 0 \in T
        BY <1>1
    <2>7. ASSUME NEW i \in 0..Len(ss), i # Len(ss), i \in T
          PROVE  i + 1 \in T
        <3>0. i # Len(ss)
            BY <2>7
        <3>1. i + 1 \in 1..Len(ss) /\ (i + 1) - 1 = i /\ i \in Nat
            BY <1>1, <3>0
        <3>2. CASE i = 0
            <4>1. u[i + 1] = f[i + 1]
                BY <2>1, <2>5, <3>2
            <4> QED
                BY <3>1, <4>1
        <3>3. CASE i # 0
            <4>1. u[i + 1] = u[(i + 1) - 1] \o ss[i + 1]
                <5>1. i + 1 # 1
                    BY <3>1, <3>3
                <5> QED
                    BY <2>5, <3>1, <5>1, Zenon
            <4>2. f[i + 1] = f[(i + 1) - 1] \o ss[i + 1]
                BY <1>1, <3>1, Zenon
            <4>3. u[(i + 1) - 1] = f[(i + 1) - 1]
                BY <2>7, <3>1, <3>3
            <4>4. u[i + 1] = f[i + 1]
                BY <4>1, <4>2, <4>3, Zenon
            <4> QED
                BY <3>1, <4>4
        <3> QED
            BY <3>2, <3>3
    <2>8. 0..Len(ss) \subseteq T
        <3> HIDE DEF T
        <3> QED
            BY <1>1, <2>6, <2>7, UpTo
    <2>9. u[Len(ss)] = f[Len(ss)]
        BY <1>1, <1>3, <2>8
    <2> QED
        BY <2>4, <2>9
<1> QED
    BY <1>2, <1>3

(* The file has these bytes at this offset.                                *)
Holds(off, bytes) == /\ off + Len(bytes) <= Len(file)
                     /\ \A p \in 1..Len(bytes) : file[off + p] = bytes[p]

(* They are what is read there.                                            *)
LEMMA HoldsBytes ==
    ASSUME file \in Seq(Byte), NEW off \in Nat, NEW s \in Seq(Byte), Holds(off, s)
    PROVE  Bytes(off, Len(s)) = s
<1>1. /\ Len(s) \in Nat /\ Len(file) \in Nat /\ off + Len(s) <= Len(file)
      /\ \A p \in 1..Len(s) : file[off + p] = s[p]
    BY DEF Holds
<1>2. off + 1 \in 1..(Len(file) + 1) /\ off + Len(s) \in off..Len(file)
    BY <1>1
<1>3. /\ SubSeq(file, off + 1, off + Len(s)) \in Seq(Byte)
      /\ Len(SubSeq(file, off + 1, off + Len(s))) = Len(s)
      /\ \A p \in 1..Len(s) : SubSeq(file, off + 1, off + Len(s))[p] = file[off + p]
    BY <1>1, <1>2
<1> QED
    BY <1>1, <1>3, SeqEqual DEF Bytes

(* Where there are two, one behind the other, there are the one and the    *)
(* other.                                                                  *)
LEMMA HoldsBoth ==
    ASSUME NEW off \in Nat, NEW s \in Seq(Byte), NEW t \in Seq(Byte), Len(file) \in Nat
    PROVE  Holds(off, s \o t) <=> Holds(off, s) /\ Holds(off + Len(s), t)
<1>1. /\ Len(s) \in Nat /\ Len(t) \in Nat
      /\ Len(s \o t) = Len(s) + Len(t)
      /\ \A p \in 1..Len(s) : (s \o t)[p] = s[p] /\ p \in 1..Len(s \o t)
      /\ \A p \in 1..Len(t) : (s \o t)[Len(s) + p] = t[p] /\ Len(s) + p \in 1..Len(s \o t)
    OBVIOUS
<1>2. ASSUME Holds(off, s \o t)
      PROVE  Holds(off, s) /\ Holds(off + Len(s), t)
    <2>1. \A p \in 1..Len(s) : file[off + p] = s[p]
        BY <1>1, <1>2 DEF Holds
    <2>2. \A p \in 1..Len(t) : file[off + Len(s) + p] = t[p]
        <3> TAKE p \in 1..Len(t)
        <3>1. Len(s) + p \in 1..Len(s \o t) /\ off + (Len(s) + p) = off + Len(s) + p
            BY <1>1
        <3> QED
            BY <1>1, <1>2, <3>1 DEF Holds
    <2> QED
        BY <1>1, <1>2, <2>1, <2>2 DEF Holds
<1>3. ASSUME Holds(off, s), Holds(off + Len(s), t)
      PROVE  Holds(off, s \o t)
    <2>1. \A p \in 1..Len(s \o t) : file[off + p] = (s \o t)[p]
        <3> TAKE p \in 1..Len(s \o t)
        <3>1. CASE p <= Len(s)
            <4>1. p \in 1..Len(s)
                BY <1>1, <3>1
            <4> QED
                BY <1>1, <1>3, <4>1 DEF Holds
        <3>2. CASE p > Len(s)
            <4>1. p - Len(s) \in 1..Len(t) /\ Len(s) + (p - Len(s)) = p
                  /\ off + Len(s) + (p - Len(s)) = off + p
                BY <1>1, <3>2
            <4>2. file[off + Len(s) + (p - Len(s))] = t[p - Len(s)]
                BY <1>3, <4>1 DEF Holds
            <4>3. (s \o t)[Len(s) + (p - Len(s))] = t[p - Len(s)]
                BY <1>1, <4>1
            <4> QED
                BY <4>1, <4>2, <4>3
        <3> QED
            BY <1>1, <3>1, <3>2
    <2> QED
        BY <1>1, <1>3, <2>1 DEF Holds
<1> QED
    BY <1>2, <1>3

(* Where there are several, each is behind the ones before it.             *)
LEMMA HoldsEach ==
    ASSUME NEW off \in Nat, NEW ss \in Seq(Seq(Byte)), Len(file) \in Nat,
           NEW f, Laid(ss, Len(ss), f), Holds(off, f[Len(ss)])
    PROVE  \A i \in 1..Len(ss) : Holds(off + Len(f[i - 1]), ss[i])
<1> DEFINE w == Len(ss)
           T == {k \in 0..w : Holds(off, f[w - k])}
<1>1. w \in Nat
    OBVIOUS
<1>2. /\ \A i \in 1..w : f[i] = f[i - 1] \o ss[i]
      /\ \A i \in 0..w : f[i] \in Seq(Byte)
      /\ \A i \in 1..w : ss[i] \in Seq(Byte)
    <2>1. \A i \in 1..w : ss[i] \in Seq(Byte)
        OBVIOUS
    <2>2. /\ \A i \in 1..w : f[i] = f[i - 1] \o ss[i]
          /\ \A i \in 0..w : f[i] \in Seq(Byte)
        BY LaidType, Zenon
    <2> QED
        BY <2>1, <2>2, Zenon
<1>3. Holds(off, f[w])
    OBVIOUS
<1> HIDE DEF w
<1>4. ASSUME NEW i \in 1..w, Holds(off, f[i])
      PROVE  Holds(off, f[i - 1]) /\ Holds(off + Len(f[i - 1]), ss[i])
    <2>1. i - 1 \in 0..w /\ f[i] = f[i - 1] \o ss[i]
        <3>1. i - 1 \in 0..w
            BY <1>1
        <3> QED
            BY <1>2, <3>1, Zenon
    <2>2. f[i - 1] \in Seq(Byte) /\ ss[i] \in Seq(Byte)
        BY <1>2, <2>1
    <2>3. Holds(off, f[i - 1] \o ss[i])
        BY <1>4, <2>1
    <2> QED
        BY <2>2, <2>3, HoldsBoth
<1>5. 0..w \subseteq T
    <2>1. 0 \in T
        BY <1>1, <1>3
    <2>2. ASSUME NEW k \in 0..w, k # w, k \in T
          PROVE  k + 1 \in T
        <3>1. w - k \in 1..w /\ (w - k) - 1 = w - (k + 1) /\ k + 1 \in 0..w
            BY <1>1, <2>2
        <3>2. Holds(off, f[(w - k) - 1])
            BY <1>4, <2>2, <3>1
        <3> QED
            BY <3>1, <3>2
    <2> HIDE DEF T
    <2> QED
        BY <1>1, <2>1, <2>2, UpTo
<1>6. \A i \in 1..w : Holds(off, f[i])
    <2> TAKE i \in 1..w
    <2>1. w - i \in 0..w /\ w - (w - i) = i
        BY <1>1
    <2>2. Holds(off, f[w - (w - i)])
        BY <1>5, <2>1
    <2> QED
        BY <2>1, <2>2
<1> QED
    BY <1>4, <1>6 DEF w

-----------------------------------------------------------------------------
(* Blocks of a leaf.                                                       *)

(* A block is bytes: the size and the string.                              *)
LEMMA BlockType ==
    ASSUME NEW s \in Seq(Byte)
    PROVE  Block(s) \in Seq(Byte) /\ Len(Block(s)) = SizeBytes + Len(s)
<1>1. SizeBytes \in Nat /\ Len(s) \in Nat
    BY BlocksAssumption DEF Byte
<1>2. /\ WordBytes(Len(s), SizeBytes) \in Seq(Byte)
      /\ Len(WordBytes(Len(s), SizeBytes)) = SizeBytes
    BY <1>1, WordBytesType
<1> QED
    BY <1>1, <1>2, ConcatProperties DEF Block

(* A block whose size there is room for reads back.                        *)
LEMMA BlockReadsBack ==
    ASSUME file \in Seq(Byte), NEW off \in Nat, NEW s \in Seq(Byte),
           Len(s) < Room(SizeBytes), Holds(off, Block(s))
    PROVE  /\ ReadData(off).dat = s
           /\ ReadData(off).end = off + Len(Block(s))
<1>1. SizeBytes \in Nat /\ Len(s) \in Nat /\ Len(file) \in Nat
    BY BlocksAssumption DEF Byte
<1> DEFINE word == WordBytes(Len(s), SizeBytes)
<1>2. word \in Seq(Byte) /\ Len(word) = SizeBytes
    BY <1>1, WordBytesType
<1>3. Word(word) = Len(s)
    BY <1>1, WordReadsBack
<1>4. Block(s) = word \o s
    BY DEF Block
<1>5. Len(Block(s)) = SizeBytes + Len(s)
    BY BlockType
<1> HIDE DEF word
<1>6. Holds(off, word) /\ Holds(off + SizeBytes, s)
    BY <1>1, <1>2, <1>4, HoldsBoth
<1>7. Bytes(off, SizeBytes) = word
    BY <1>2, <1>6, HoldsBytes
<1>8. Bytes(off + SizeBytes, Len(s)) = s
    <2>1. off + SizeBytes \in Nat
        BY <1>1
    <2> QED
        BY <1>6, <2>1, HoldsBytes
<1>9. /\ ReadData(off).dat = Bytes(off + SizeBytes, Word(Bytes(off, SizeBytes)))
      /\ ReadData(off).end = off + SizeBytes + Word(Bytes(off, SizeBytes))
    BY DEF ReadData
<1> QED
    BY <1>1, <1>3, <1>5, <1>7, <1>8, <1>9

(* The lists of records a leaf can have.                                   *)
Leaves == UNION {[1..n -> Record] : n \in 0..MaxRecords}

(* The bytes of each record.                                               *)
Recs(recs) == [i \in DOMAIN recs |-> RecordBytes(recs[i])]

(* They are bytes.                                                         *)
LEMMA RecordBytesType ==
    ASSUME NEW r \in Record
    PROVE  /\ r.key \in Seq(Byte) /\ r.val \in Seq(Byte)
           /\ RecordBytes(r) \in Seq(Byte)
           /\ Len(RecordBytes(r)) = Len(Block(r.key)) + Len(Block(r.val))
           /\ Len(Block(r.key)) \in Nat /\ Len(Block(r.val)) \in Nat
<1>1. r.key \in Seq(Byte) /\ r.val \in Seq(Byte)
    BY BlocksAssumption DEF Byte
<1>2. Block(r.key) \in Seq(Byte) /\ Block(r.val) \in Seq(Byte)
    BY <1>1, BlockType
<1> QED
    BY <1>1, <1>2, ConcatProperties DEF RecordBytes

(* There are as many as records.                                           *)
LEMMA LeavesType ==
    ASSUME NEW recs \in Leaves
    PROVE  /\ Len(recs) \in 0..MaxRecords /\ Len(recs) \in Nat
           /\ DOMAIN recs = 1..Len(recs)
           /\ \A i \in 1..Len(recs) : recs[i] \in Record
           /\ Recs(recs) \in Seq(Seq(Byte)) /\ Len(Recs(recs)) = Len(recs)
           /\ \A i \in 1..Len(recs) : Recs(recs)[i] = RecordBytes(recs[i])
<1>1. PICK n \in 0..MaxRecords : recs \in [1..n -> Record]
    BY DEF Leaves
<1>2. n \in Nat /\ Len(recs) = n /\ DOMAIN recs = 1..n
    BY <1>1, BlocksAssumption DEF Byte
<1>3. \A i \in 1..n : recs[i] \in Record /\ Recs(recs)[i] = RecordBytes(recs[i])
    BY <1>1, <1>2 DEF Recs
<1>4. \A i \in 1..n : Recs(recs)[i] \in Seq(Byte)
    BY <1>3, RecordBytesType
<1>5. Recs(recs) \in [1..n -> Seq(Byte)]
    BY <1>2, <1>3, <1>4 DEF Recs
<1>6. Recs(recs) \in Seq(Seq(Byte)) /\ Len(Recs(recs)) = n
    BY <1>2, <1>5
<1> QED
    BY <1>1, <1>2, <1>3, <1>6

(* A leaf is bytes: the letter, the number of records and the records.     *)
LEMMA LeafBytesType ==
    ASSUME NEW recs \in Leaves
    PROVE  /\ FlattenSeq(Recs(recs)) \in Seq(Byte)
           /\ LeafBytes(recs) = (<<l>> \o WordBytes(Len(recs), SizeBytes))
                                     \o FlattenSeq(Recs(recs))
           /\ LeafBytes(recs) \in Seq(Byte)
           /\ Len(LeafBytes(recs)) = 1 + SizeBytes + Len(FlattenSeq(Recs(recs)))
<1>1. SizeBytes \in Nat
    BY BlocksAssumption DEF Byte
<1>2. Len(recs) \in Nat /\ Recs(recs) \in Seq(Seq(Byte))
    BY LeavesType
<1>3. PICK f : Laid(Recs(recs), Len(Recs(recs)), f)
    BY <1>2, LaidIs
<1>4. FlattenSeq(Recs(recs)) \in Seq(Byte)
    <2>1. FlattenSeq(Recs(recs)) = f[Len(Recs(recs))]
        BY <1>2, <1>3, FlattenIs
    <2>2. Len(Recs(recs)) \in 0..Len(Recs(recs))
        BY <1>2
    <2>3. f[Len(Recs(recs))] \in Seq(Byte)
        BY <1>2, <1>3, <2>2, LaidType
    <2> QED
        BY <2>1, <2>3
<1>5. LeafBytes(recs) = (<<l>> \o WordBytes(Len(recs), SizeBytes)) \o FlattenSeq(Recs(recs))
    BY Zenon DEF LeafBytes, Recs
<1>6. /\ WordBytes(Len(recs), SizeBytes) \in Seq(Byte)
      /\ Len(WordBytes(Len(recs), SizeBytes)) = SizeBytes
    BY <1>1, <1>2, WordBytesType
<1>7. <<l>> \in Seq(Byte) /\ Len(<<l>>) = 1
    BY DEF l, Byte
<1> DEFINE front == <<l>> \o WordBytes(Len(recs), SizeBytes)
<1>8. front \in Seq(Byte) /\ Len(front) = 1 + SizeBytes
    BY <1>6, <1>7, ConcatProperties
<1> HIDE DEF front
<1>9. /\ front \o FlattenSeq(Recs(recs)) \in Seq(Byte)
      /\ Len(front \o FlattenSeq(Recs(recs))) = Len(front) + Len(FlattenSeq(Recs(recs)))
    BY <1>4, <1>8, ConcatProperties
<1> QED
    BY <1>4, <1>5, <1>8, <1>9 DEF front

(* And so is the block of a version; its length is the same for every      *)
(* previous version.                                                       *)
LEMMA RootBytesType ==
    ASSUME NEW prev \in Nat, NEW recs \in Leaves
    PROVE  /\ RootBytes(prev, recs) \in Seq(Byte)
           /\ Len(RootBytes(prev, recs)) = OffBytes + Len(LeafBytes(recs))
           /\ Len(LeafBytes(recs)) \in Nat
<1>1. OffBytes \in Nat
    BY BlocksAssumption DEF Byte
<1>2. WordBytes(prev, OffBytes) \in Seq(Byte) /\ Len(WordBytes(prev, OffBytes)) = OffBytes
    BY <1>1, WordBytesType
<1>3. LeafBytes(recs) \in Seq(Byte)
    BY LeafBytesType
<1>4. Len(LeafBytes(recs)) \in Nat
    BY <1>3
<1>5. RootBytes(prev, recs) = WordBytes(prev, OffBytes) \o LeafBytes(recs)
    BY DEF RootBytes
<1> QED
    BY <1>2, <1>3, <1>4, <1>5, ConcatProperties

-----------------------------------------------------------------------------
(* Reading a leaf.                                                         *)

(* f is what aodbm_get has read after each number of records.              *)
Reads(start, n, f) ==
    f = [i \in 0..n |->
            IF i = 0 THEN [recs |-> << >>, pos |-> start]
            ELSE [recs |-> Append(f[i - 1].recs,
                                  [key |-> ReadData(f[i - 1].pos).dat,
                                   val |-> ReadData(ReadData(f[i - 1].pos).end).dat]),
                  pos  |-> ReadData(ReadData(f[i - 1].pos).end).end]]

(* There is such an f, and it gives the records of the leaf.               *)
LEMMA ReadsIs ==
    ASSUME NEW root, Word(Bytes(root + OffBytes + 1, SizeBytes)) \in Nat
    PROVE  \E f : /\ Reads(root + OffBytes + 1 + SizeBytes,
                           Word(Bytes(root + OffBytes + 1, SizeBytes)), f)
                  /\ Leaf(root) = f[Word(Bytes(root + OffBytes + 1, SizeBytes))].recs
<1> DEFINE start == root + OffBytes + 1 + SizeBytes
           w == Word(Bytes(root + OffBytes + 1, SizeBytes))
           T == {n \in Nat : \E f : Reads(start, n, f)}
           next(r) == [recs |-> Append(r.recs,
                                  [key |-> ReadData(r.pos).dat,
                                   val |-> ReadData(ReadData(r.pos).end).dat]),
                       pos  |-> ReadData(ReadData(r.pos).end).end]
           none == [recs |-> << >>, pos |-> start]
<1>0. \A n, f : Reads(start, n, f) <=>
                  f = [i \in 0..n |-> IF i = 0 THEN none ELSE next(f[i - 1])]
    BY Zenon DEF Reads
<1>1. 0 \in T
    <2> HIDE DEF start, next, none
    <2> DEFINE g == [i \in 0..0 |-> none]
    <2>1. \A i \in 0..0 : g[i] = IF i = 0 THEN none ELSE next(g[i - 1])
        OBVIOUS
    <2>2. g = [i \in 0..0 |-> IF i = 0 THEN none ELSE next(g[i - 1])]
        BY <2>1
    <2>3. Reads(start, 0, g)
        BY <1>0, <2>2, Zenon
    <2> QED
        BY <2>3
<1>2. ASSUME NEW m \in 0..w, m # w, m \in T
      PROVE  m + 1 \in T
    <2>0. w \in Nat
        OBVIOUS
    <2> HIDE DEF start, next, none, w
    <2>1. m \in Nat
        BY <2>0
    <2>2. PICK f : Reads(start, m, f)
        BY <1>2
    <2> DEFINE g == [i \in 0..m + 1 |-> IF i = m + 1 THEN next(f[m]) ELSE f[i]]
    <2>3. \A i \in 0..m : f[i] = IF i = 0 THEN none ELSE next(f[i - 1])
        BY <1>0, <2>2
    <2>4. \A i \in 0..m + 1 : i # 0 => i - 1 \in 0..m /\ g[i - 1] = f[i - 1]
        BY <2>1
    <2>5. \A i \in 0..m + 1 : g[i] = IF i = 0 THEN none ELSE next(g[i - 1])
        BY <2>1, <2>3, <2>4
    <2>6. Reads(start, m + 1, g)
        BY <1>0, <2>5
    <2> QED
        BY <2>1, <2>6
<1>3. w \in T
    <2>0. w \in Nat
        OBVIOUS
    <2> HIDE DEF T, w
    <2>1. 0..w \subseteq T
        BY <2>0, <1>1, <1>2, UpTo
    <2> QED
        BY <2>0, <2>1
<1> DEFINE u == CHOOSE f : Reads(start, w, f)
<1>4. Reads(start, w, u)
    BY <1>3, Zenon
<1>5. Leaf(root) = u[w].recs
    BY Zenon DEF Leaf, Reads
<1> QED
    BY <1>4, <1>5, Zenon

(* One record is read, and what comes next is behind it.                   *)
LEMMA RecordReadsBack ==
    ASSUME file \in Seq(Byte), NEW off \in Nat, NEW r \in Record,
           Holds(off, RecordBytes(r))
    PROVE  /\ ReadData(off).dat = r.key
           /\ ReadData(ReadData(off).end).dat = r.val
           /\ ReadData(ReadData(off).end).end = off + Len(RecordBytes(r))
<1>1. /\ r.key \in Seq(Byte) /\ r.val \in Seq(Byte)
      /\ Len(RecordBytes(r)) = Len(Block(r.key)) + Len(Block(r.val))
      /\ Len(Block(r.key)) \in Nat /\ Len(Block(r.val)) \in Nat
    BY RecordBytesType
<1>2. Block(r.key) \in Seq(Byte) /\ Block(r.val) \in Seq(Byte)
    BY <1>1, BlockType
<1>3. Len(r.key) < Room(SizeBytes) /\ Len(r.val) < Room(SizeBytes)
    BY BlocksAssumption DEF NumbersFit, Byte
<1>4. Len(file) \in Nat
    OBVIOUS
<1>5. Holds(off, Block(r.key) \o Block(r.val))
    BY DEF RecordBytes
<1>6. Holds(off, Block(r.key)) /\ Holds(off + Len(Block(r.key)), Block(r.val))
    BY <1>2, <1>4, <1>5, HoldsBoth
<1>7. ReadData(off).dat = r.key /\ ReadData(off).end = off + Len(Block(r.key))
    BY <1>1, <1>3, <1>6, BlockReadsBack
<1> DEFINE then == off + Len(Block(r.key))
<1>8. then \in Nat
    BY <1>1
<1>9. Holds(then, Block(r.val))
    BY <1>6
<1> HIDE DEF then
<1>10. ReadData(then).dat = r.val /\ ReadData(then).end = then + Len(Block(r.val))
    BY <1>1, <1>3, <1>8, <1>9, BlockReadsBack
<1>11. then + Len(Block(r.val)) = off + Len(RecordBytes(r))
    BY <1>1 DEF then
<1>12. ReadData(off).end = then
    BY <1>7 DEF then
<1> QED
    BY <1>7, <1>10, <1>11, <1>12

(* A version's leaf and previous version are read as they were written.    *)
LEMMA RootReadsBack ==
    ASSUME file \in Seq(Byte), NEW root \in Nat, NEW recs \in Leaves,
           NEW prev \in Nat, prev < Room(OffBytes), Holds(root, RootBytes(prev, recs))
    PROVE  /\ Leaf(root) = recs
           /\ Word(Bytes(root, OffBytes)) = prev
<1>1. SizeBytes \in Nat /\ OffBytes \in Nat /\ Len(file) \in Nat
    BY BlocksAssumption DEF Byte
<1> DEFINE w == Len(recs)
           ss == Recs(recs)
<1>2. /\ w \in Nat /\ w < Room(SizeBytes)
      /\ DOMAIN recs = 1..w
      /\ \A i \in 1..w : recs[i] \in Record
      /\ ss \in Seq(Seq(Byte)) /\ Len(ss) = w
      /\ \A i \in 1..w : ss[i] = RecordBytes(recs[i])
    <2>1. /\ w \in 0..MaxRecords /\ w \in Nat
          /\ DOMAIN recs = 1..w
          /\ \A i \in 1..w : recs[i] \in Record
          /\ ss \in Seq(Seq(Byte)) /\ Len(ss) = w
          /\ \A i \in 1..w : ss[i] = RecordBytes(recs[i])
        BY LeavesType
    <2>2. MaxRecords < Room(SizeBytes) /\ MaxRecords \in Nat
        BY BlocksAssumption DEF NumbersFit, Byte
    <2>4. Room(SizeBytes) \in Int
        BY <1>1, RoomType
    <2>5. w < Room(SizeBytes)
        BY <2>1, <2>2, <2>4
    <2> QED
        BY <2>1, <2>5
<1> DEFINE word == WordBytes(prev, OffBytes)
           count == WordBytes(w, SizeBytes)
           flat == FlattenSeq(ss)
           node == root + OffBytes
           start == node + 1 + SizeBytes
<1>3. /\ word \in Seq(Byte) /\ Len(word) = OffBytes /\ Word(word) = prev
      /\ count \in Seq(Byte) /\ Len(count) = SizeBytes /\ Word(count) = w
    <2> HIDE DEF w
    <2> QED
        BY <1>1, <1>2, WordBytesType, WordReadsBack
<1>4. /\ LeafBytes(recs) = (<<l>> \o count) \o flat
      /\ LeafBytes(recs) \in Seq(Byte) /\ flat \in Seq(Byte)
    BY LeafBytesType
<1>5. RootBytes(prev, recs) = word \o LeafBytes(recs)
    BY DEF RootBytes
<1> HIDE DEF word, count, flat, ss, w
<1>6. Holds(root, word) /\ Holds(node, LeafBytes(recs))
    BY <1>1, <1>3, <1>4, <1>5, HoldsBoth
<1>7. node \in Nat /\ start \in Nat /\ node + 1 \in Nat
      /\ start = node + (1 + SizeBytes)
    BY <1>1
<1>8. <<l>> \in Seq(Byte) /\ Len(<<l>>) = 1
    BY DEF l, Byte
<1>9. <<l>> \o count \in Seq(Byte) /\ Len(<<l>> \o count) = 1 + SizeBytes
    BY <1>3, <1>8, ConcatProperties
<1> HIDE DEF node
<1>10. Holds(node, <<l>> \o count) /\ Holds(start, flat)
    <2> DEFINE front == <<l>> \o count
    <2>1. front \in Seq(Byte) /\ Len(front) = 1 + SizeBytes
        BY <1>9
    <2>2. Holds(node, front \o flat)
        BY <1>4, <1>6
    <2> HIDE DEF front, start
    <2>3. Holds(node, front) /\ Holds(node + Len(front), flat)
        BY <1>1, <1>4, <1>7, <2>1, <2>2, HoldsBoth
    <2>4. node + Len(front) = start
        BY <1>7, <2>1
    <2> QED
        BY <2>3, <2>4 DEF front
<1>11. Holds(node + 1, count)
    BY <1>1, <1>3, <1>7, <1>8, <1>10, HoldsBoth
<1>12. Word(Bytes(node + 1, SizeBytes)) = w
    BY <1>3, <1>7, <1>11, HoldsBytes
<1>13. Word(Bytes(root, OffBytes)) = prev
    BY <1>3, <1>6, HoldsBytes
<1>14. PICK f : Laid(ss, w, f)
    BY <1>2, LaidIs
<1>15. flat = f[w] /\ \A i \in 1..w : Holds(start + Len(f[i - 1]), ss[i])
    <2>1. flat = f[w]
        BY <1>2, <1>14, FlattenIs DEF flat
    <2>2. Holds(start, f[Len(ss)]) /\ Laid(ss, Len(ss), f)
        BY <1>2, <1>10, <1>14, <2>1
    <2> HIDE DEF start
    <2> QED
        BY <1>1, <1>2, <1>7, <2>1, <2>2, HoldsEach
<1>16. /\ f[0] = << >>
       /\ \A i \in 1..w : f[i] = f[i - 1] \o ss[i]
       /\ \A i \in 0..w : f[i] \in Seq(Byte)
    <2>1. Laid(ss, Len(ss), f)
        BY <1>2, <1>14
    <2> QED
        BY <1>2, <2>1, LaidType, Zenon
<1>17. PICK u : Reads(start, w, u) /\ Leaf(root) = u[w].recs
    BY <1>2, <1>12, ReadsIs DEF node
<1> HIDE DEF start
<1>18. /\ u[0] = [recs |-> << >>, pos |-> start]
       /\ \A i \in 1..w : u[i].recs = Append(u[i - 1].recs,
                                  [key |-> ReadData(u[i - 1].pos).dat,
                                   val |-> ReadData(ReadData(u[i - 1].pos).end).dat])
       /\ \A i \in 1..w : u[i].pos = ReadData(ReadData(u[i - 1].pos).end).end
    <2>1. 0 \in 0..w /\ \A i \in 1..w : i \in 0..w /\ i # 0
        BY <1>2
    <2> QED
        <3> DEFINE none   == [recs |-> << >>, pos |-> start]
                   next(i) == [recs |-> Append(u[i - 1].recs,
                                  [key |-> ReadData(u[i - 1].pos).dat,
                                   val |-> ReadData(ReadData(u[i - 1].pos).end).dat]),
                               pos |-> ReadData(ReadData(u[i - 1].pos).end).end]
        <3>1. \A i \in 0..w : u[i] = IF i = 0 THEN none ELSE next(i)
            BY <1>17, Zenon DEF Reads
        <3>2. u[0] = none /\ \A i \in 1..w : u[i] = next(i)
            <4> HIDE DEF none, next
            <4> QED
                BY <2>1, <3>1, Zenon
        <3>3. \A i : next(i).recs = Append(u[i - 1].recs,
                                  [key |-> ReadData(u[i - 1].pos).dat,
                                   val |-> ReadData(ReadData(u[i - 1].pos).end).dat])
            OBVIOUS
        <3>4. \A i : next(i).pos = ReadData(ReadData(u[i - 1].pos).end).end
            OBVIOUS
        <3> HIDE DEF next
        <3> QED
            BY <3>2, <3>3, <3>4, Zenon
<1> DEFINE Good(i) == /\ u[i].pos = start + Len(f[i])
                      /\ u[i].recs = [j \in 1..i |-> recs[j]]
           T == {i \in 0..w : Good(i)}
<1>19. 0 \in T
    BY <1>2, <1>7, <1>16, <1>18
<1>20. ASSUME NEW i \in 0..w, i # w, i \in T
       PROVE  i + 1 \in T
    <2>1. i + 1 \in 1..w /\ (i + 1) - 1 = i /\ i \in Nat /\ i + 1 \in 0..w
        BY <1>2, <1>20
    <2>2. u[i].pos = start + Len(f[i]) /\ u[i].recs = [j \in 1..i |-> recs[j]]
        BY <1>20
    <2>3. recs[i + 1] \in Record /\ ss[i + 1] = RecordBytes(recs[i + 1])
        BY <1>2, <2>1
    <2>4. f[i] \in Seq(Byte) /\ Len(f[i]) \in Nat
        BY <1>16, <2>1
    <2>5. Holds(start + Len(f[i]), RecordBytes(recs[i + 1]))
        BY <1>15, <2>1, <2>3
    <2>6. start + Len(f[i]) \in Nat
        BY <1>7, <2>4
    <2> DEFINE at == start + Len(f[i])
               rec == recs[i + 1]
    <2>7. at \in Nat /\ Holds(at, RecordBytes(rec)) /\ u[i].pos = at /\ rec \in Record
        BY <2>2, <2>3, <2>5, <2>6
    <2> HIDE DEF at, rec
    <2>8. /\ ReadData(at).dat = rec.key
          /\ ReadData(ReadData(at).end).dat = rec.val
          /\ ReadData(ReadData(at).end).end = at + Len(RecordBytes(rec))
        BY <2>7, RecordReadsBack
    <2>9. rec = [key |-> rec.key, val |-> rec.val]
        BY <2>7, BlocksAssumption DEF Byte
    <2>10. u[i + 1].recs = Append(u[i].recs, rec) /\ u[i + 1].pos = at + Len(RecordBytes(rec))
        <3>1. u[i + 1].recs = Append(u[i].recs, [key |-> rec.key, val |-> rec.val])
            BY <1>18, <2>1, <2>7, <2>8
        <3>2. u[i + 1].pos = ReadData(ReadData(u[i].pos).end).end
            BY <1>18, <2>1
        <3>3. u[i + 1].recs = Append(u[i].recs, rec)
            BY <2>9, <3>1, Zenon
        <3> QED
            BY <2>7, <2>8, <3>2, <3>3
    <2>11. u[i + 1].recs = [j \in 1..i + 1 |-> recs[j]]
        <3> DEFINE before == [j \in 1..i |-> recs[j]]
                   all == [j \in 1..i + 1 |-> recs[j]]
        <3>1. \A j \in 1..i + 1 : recs[j] \in Record
            BY <1>2, <2>1
        <3>2. before \in Seq(Record) /\ Len(before) = i
            BY <2>1, <3>1
        <3>3. all \in Seq(Record) /\ Len(all) = i + 1
            BY <2>1, <3>1
        <3>4. Append(before, rec) = all
            <4>1. rec \in Record /\ rec = recs[i + 1]
                BY <2>3 DEF rec
            <4>2. /\ Append(before, rec) \in Seq(Record)
                  /\ Len(Append(before, rec)) = i + 1
                  /\ \A j \in 1..i : Append(before, rec)[j] = before[j]
                  /\ Append(before, rec)[i + 1] = rec
                BY <3>2, <4>1, AppendProperties
            <4>3. \A j \in 1..i + 1 : Append(before, rec)[j] = all[j]
                <5> TAKE j \in 1..i + 1
                <5>1. CASE j = i + 1
                    BY <2>1, <4>1, <4>2, <5>1
                <5>2. CASE j # i + 1
                    <6>1. j \in 1..i
                        BY <2>1, <5>2
                    <6> QED
                        BY <4>2, <6>1
                <5> QED
                    BY <5>1, <5>2
            <4> HIDE DEF before, all
            <4> QED
                BY <3>3, <4>2, <4>3, SeqEqual
        <3> QED
            BY <2>2, <2>10, <3>4
    <2>12. u[i + 1].pos = start + Len(f[i + 1])
        <3>1. f[i + 1] = f[i] \o RecordBytes(rec)
            BY <1>16, <2>1, <2>3 DEF rec
        <3>2. RecordBytes(rec) \in Seq(Byte)
            BY <2>7, RecordBytesType
        <3>3. Len(f[i + 1]) = Len(f[i]) + Len(RecordBytes(rec)) /\ Len(RecordBytes(rec)) \in Nat
            BY <2>4, <3>1, <3>2, ConcatProperties
        <3> QED
            BY <1>7, <2>4, <2>10, <3>3 DEF at
    <2> QED
        BY <2>1, <2>11, <2>12
<1>21. w \in T
    <2> HIDE DEF T
    <2>1. 0..w \subseteq T
        BY <1>2, <1>19, <1>20, UpTo
    <2> QED
        BY <1>2, <2>1
<1>22. u[w].recs = recs
    <2>1. u[w].recs = [j \in 1..w |-> recs[j]]
        BY <1>21
    <2>2. recs = [j \in 1..w |-> recs[j]]
        BY <1>2 DEF Leaves
    <2> QED
        BY <2>1, <2>2
<1> QED
    BY <1>13, <1>17, <1>22

-----------------------------------------------------------------------------
(* The inductive invariant.                                                *)

(* The offsets there is room for.                                          *)
Offsets == {n \in Nat : n < Room(OffBytes)}

(* The bytes of a block of the history.                                    *)
BlockBytes(b) == IF b.root = 0 THEN <<v>> \o WordBytes(b.head, OffBytes)
                               ELSE <<d>> \o Block(RootBytes(b.prev, b.recs))

(* Where a block begins, and the head before it.                           *)
Begin(i)      == IF i = 1 THEN 0 ELSE blocks[i - 1].end
HeadBefore(i) == IF i = 1 THEN 0 ELSE blocks[i - 1].head

HistoryBlock == [root : Offsets, prev : Offsets, recs : Leaves, head : Offsets, end : Nat]

BlocksType ==
    /\ mode \in {"open", "closed"}
    /\ file \in Seq(Byte)
    /\ flushed \in 0..Len(file)
    /\ blocks \in Seq(HistoryBlock)

(* A block ends where its bytes do, the root of a version is behind the    *)
(* size of its block, and only a commit moves the head.                    *)
BlocksFollow ==
    \A i \in DOMAIN blocks :
        /\ blocks[i].end = Begin(i) + Len(BlockBytes(blocks[i]))
        /\ blocks[i].root # 0 => /\ blocks[i].root = Begin(i) + 1 + SizeBytes
                                 /\ blocks[i].head = HeadBefore(i)

(* Later blocks end later.                                                 *)
BlocksInOrder ==
    \A i, j \in DOMAIN blocks : /\ i <= blocks[i].end
                                /\ i < j => blocks[i].end < blocks[j].end

(* As far as the file goes it has the bytes of the blocks.                 *)
FileIsBlocks ==
    /\ \A i \in DOMAIN blocks : \A p \in 1..Len(BlockBytes(blocks[i])) :
          Begin(i) + p <= Len(file) => file[Begin(i) + p] = BlockBytes(blocks[i])[p]
    /\ Len(file) <= Begin(Len(blocks) + 1)

(* An open database has all of them, and knows where they end and which    *)
(* version is the head.                                                    *)
OpenKnowsBlocks ==
    mode = "open" => /\ Len(file) = Begin(Len(blocks) + 1)
                     /\ file_size = Len(file)
                     /\ cur = HeadBefore(Len(blocks) + 1)

BytesInv == /\ BlocksType /\ BlocksFollow /\ BlocksInOrder
            /\ FileIsBlocks /\ OpenKnowsBlocks

-----------------------------------------------------------------------------
(* Blocks.                                                                 *)

(* The bytes of a block are bytes, the first of them its letter.           *)
LEMMA BlockBytesType ==
    ASSUME NEW b \in HistoryBlock
    PROVE  /\ BlockBytes(b) \in Seq(Byte)
           /\ Len(BlockBytes(b)) \in Nat /\ Len(BlockBytes(b)) >= 1
           /\ b.root = 0 => /\ Len(BlockBytes(b)) = 1 + OffBytes
                            /\ BlockBytes(b)[1] = v
           /\ b.root # 0 => /\ Len(BlockBytes(b)) =
                                   1 + SizeBytes + Len(RootBytes(b.prev, b.recs))
                            /\ BlockBytes(b)[1] = d
<1>1. /\ SizeBytes \in Nat /\ OffBytes \in Nat
      /\ b.prev \in Nat /\ b.head \in Nat /\ b.recs \in Leaves
    BY BlocksAssumption DEF Offsets, HistoryBlock, Byte
<1>2. /\ <<v>> \in Seq(Byte) /\ Len(<<v>>) = 1 /\ <<v>>[1] = v
      /\ <<d>> \in Seq(Byte) /\ Len(<<d>>) = 1 /\ <<d>>[1] = d
    BY DEF v, d, Byte
<1>3. CASE b.root = 0
    <2>1. /\ WordBytes(b.head, OffBytes) \in Seq(Byte)
          /\ Len(WordBytes(b.head, OffBytes)) = OffBytes
        BY <1>1, WordBytesType
    <2>2. BlockBytes(b) = <<v>> \o WordBytes(b.head, OffBytes)
        BY <1>3 DEF BlockBytes
    <2>3. 1 \in 1..Len(<<v>>)
        BY <1>2
    <2> QED
        BY <1>1, <1>2, <1>3, <2>1, <2>2, <2>3, ConcatProperties
<1>4. CASE b.root # 0
    <2> DEFINE dat == RootBytes(b.prev, b.recs)
    <2>1. dat \in Seq(Byte) /\ Len(dat) \in Nat
        BY <1>1, RootBytesType
    <2>2. Block(dat) \in Seq(Byte) /\ Len(Block(dat)) = SizeBytes + Len(dat)
        BY <2>1, BlockType
    <2>3. BlockBytes(b) = <<d>> \o Block(dat)
        BY <1>4 DEF BlockBytes
    <2>4. 1 \in 1..Len(<<d>>)
        BY <1>2
    <2> HIDE DEF dat
    <2>5. /\ BlockBytes(b) \in Seq(Byte)
          /\ Len(BlockBytes(b)) = 1 + SizeBytes + Len(dat)
          /\ BlockBytes(b)[1] = d
        BY <1>1, <1>2, <2>1, <2>2, <2>3, <2>4, ConcatProperties
    <2> QED
        BY <1>1, <1>4, <2>1, <2>5 DEF dat
<1> QED
    BY <1>3, <1>4

(* A leaf fits a block.                                                    *)
LEMMA RootFits ==
    ASSUME NEW prev \in Nat, NEW recs \in Leaves
    PROVE  Len(RootBytes(prev, recs)) < Room(SizeBytes)
<1>1. Len(RootBytes(0, recs)) < Room(SizeBytes)
    BY BlocksAssumption DEF NumbersFit, Leaves, Byte
<1>2. Len(RootBytes(prev, recs)) = Len(RootBytes(0, recs))
    BY RootBytesType
<1> QED
    BY <1>1, <1>2

(* Where blocks begin and end.                                             *)
LEMMA BeginType ==
    ASSUME BytesInv
    PROVE  /\ Len(blocks) \in Nat /\ DOMAIN blocks = 1..Len(blocks)
           /\ Len(file) \in Nat
           /\ \A i \in 1..Len(blocks) :
                 blocks[i] \in HistoryBlock
           /\ \A i \in 1..Len(blocks) + 1 : Begin(i) \in Nat
           /\ \A i \in 1..Len(blocks) : Begin(i + 1) = blocks[i].end
           /\ \A i \in 1..Len(blocks) : HeadBefore(i + 1) = blocks[i].head
<1>1. /\ Len(blocks) \in Nat /\ DOMAIN blocks = 1..Len(blocks)
      /\ Len(file) \in Nat
      /\ \A i \in 1..Len(blocks) :
            blocks[i] \in HistoryBlock
    <2>1. blocks \in Seq(HistoryBlock) /\ file \in Seq(Byte)
        BY DEF BytesInv, BlocksType
    <2> QED
        BY <2>1
<1>2. \A i \in 1..Len(blocks) : i \in Nat /\ i + 1 # 1 /\ (i + 1) - 1 = i
    BY <1>1
<1>3. \A i \in 1..Len(blocks) : Begin(i + 1) = blocks[i].end
    BY <1>2 DEF Begin
<1>4. \A i \in 1..Len(blocks) : HeadBefore(i + 1) = blocks[i].head
    BY <1>2 DEF HeadBefore
<1>5. \A i \in 1..Len(blocks) + 1 : Begin(i) \in Nat
    <2> TAKE i \in 1..Len(blocks) + 1
    <2>1. i = 1 \/ i - 1 \in 1..Len(blocks)
        BY <1>1
    <2>2. \A j \in 1..Len(blocks) : blocks[j].end \in Nat
        BY <1>1 DEF HistoryBlock
    <2> QED
        BY <2>1, <2>2 DEF Begin
<1> QED
    BY <1>1, <1>3, <1>4, <1>5

(* The next byte of the file.                                              *)
LEMMA NextByte ==
    ASSUME file \in Seq(Byte), NEW off \in Nat, off < Len(file)
    PROVE  Bytes(off, 1) = <<file[off + 1]>>
<1>1. /\ off + 1 \in 1..Len(file) /\ Len(file) \in Nat
    OBVIOUS
<1>2. file[off + 1] \in Byte
    BY <1>1
<1>3. <<file[off + 1]>> \in Seq(Byte) /\ Len(<<file[off + 1]>>) = 1
    BY <1>2
<1>4. Holds(off, <<file[off + 1]>>)
    BY <1>1, <1>3 DEF Holds
<1>5. Bytes(off, Len(<<file[off + 1]>>)) = <<file[off + 1]>>
    BY <1>3, <1>4, HoldsBytes
<1> QED
    BY <1>3, <1>5

(* The file has what there is of a block.                                  *)
LEMMA FileHolds ==
    ASSUME BytesInv, NEW i \in 1..Len(blocks), blocks[i].end <= Len(file)
    PROVE  Holds(Begin(i), BlockBytes(blocks[i]))
<1>1. /\ Begin(i) \in Nat /\ Len(file) \in Nat
      /\ i \in DOMAIN blocks
      /\ blocks[i] \in HistoryBlock
    BY BeginType
<1>2. blocks[i].end = Begin(i) + Len(BlockBytes(blocks[i]))
    BY <1>1 DEF BytesInv, BlocksFollow
<1>3. Len(BlockBytes(blocks[i])) \in Nat
    BY <1>1, BlockBytesType
<1>4. \A p \in 1..Len(BlockBytes(blocks[i])) :
          file[Begin(i) + p] = BlockBytes(blocks[i])[p]
    <2> TAKE p \in 1..Len(BlockBytes(blocks[i]))
    <2>1. Begin(i) + p <= Len(file)
        BY <1>1, <1>2, <1>3
    <2> QED
        BY <1>1, <2>1 DEF BytesInv, FileIsBlocks
<1> QED
    BY <1>1, <1>2, <1>3, <1>4 DEF Holds

-----------------------------------------------------------------------------
(* The scan.                                                               *)

(* What the scan knows when it comes to a block.                           *)
At(i) == [at |-> Begin(i), cur |-> HeadBefore(i), stop |-> "no"]

(* A block that is whole is passed over.                                   *)
LEMMA WholeRound ==
    ASSUME BytesInv, NEW i \in 1..Len(blocks), blocks[i].end <= Len(file)
    PROVE  ScanRound(At(i)) = At(i + 1)
<1> DEFINE b == blocks[i]
           at == Begin(i)
<1>1. /\ SizeBytes \in Nat /\ OffBytes \in Nat /\ Len(file) \in Nat /\ file \in Seq(Byte)
      /\ at \in Nat
      /\ b \in HistoryBlock
      /\ Begin(i + 1) = b.end /\ HeadBefore(i + 1) = b.head
      /\ b.end = at + Len(BlockBytes(b))
      /\ b.root # 0 => b.head = HeadBefore(i)
    BY BeginType, BlocksAssumption DEF BytesInv, BlocksType, BlocksFollow, Byte
<1>2. /\ BlockBytes(b) \in Seq(Byte)
      /\ Len(BlockBytes(b)) \in Nat /\ Len(BlockBytes(b)) >= 1
      /\ b.root = 0 => /\ Len(BlockBytes(b)) = 1 + OffBytes
                       /\ BlockBytes(b)[1] = v
      /\ b.root # 0 => /\ Len(BlockBytes(b)) = 1 + SizeBytes + Len(RootBytes(b.prev, b.recs))
                       /\ BlockBytes(b)[1] = d
    BY <1>1, BlockBytesType
<1>3. Holds(at, BlockBytes(b))
    BY FileHolds
<1>4. /\ At(i).at = at /\ At(i).cur = HeadBefore(i) /\ At(i).stop = "no"
      /\ DOMAIN At(i) = {"at", "cur", "stop"}
    BY DEF At
<1>5. At(i + 1) = [at |-> b.end, cur |-> b.head, stop |-> "no"]
    BY <1>1 DEF At
<1>6. b.end <= Len(file)
    OBVIOUS
<1> HIDE DEF b, at
<1>7. at < Len(file) /\ Bytes(at, 1) = <<BlockBytes(b)[1]>>
    <2>1. at < Len(file)
        BY <1>1, <1>2, <1>6
    <2>2. file[at + 1] = BlockBytes(b)[1]
        BY <1>2, <1>3 DEF Holds
    <2> QED
        BY <1>1, <2>1, <2>2, NextByte
<1>8. CASE b.root = 0
    <2>1. ScanRound(At(i)) = VersionRound(At(i))
        <3>1. <<d>> # <<v>>
            BY DEF d, v
        <3> QED
            BY <1>1, <1>2, <1>4, <1>7, <1>8, <3>1 DEF ScanRound
    <2>2. BlockBytes(b) = <<v>> \o WordBytes(b.head, OffBytes)
        BY <1>8 DEF BlockBytes
    <2>3. /\ b.head \in Nat /\ b.head < Room(OffBytes)
          /\ <<v>> \in Seq(Byte) /\ Len(<<v>>) = 1
          /\ at + 1 \in Nat
        BY <1>1 DEF Offsets, HistoryBlock, v, Byte
    <2>4. /\ WordBytes(b.head, OffBytes) \in Seq(Byte)
          /\ Len(WordBytes(b.head, OffBytes)) = OffBytes
          /\ Word(WordBytes(b.head, OffBytes)) = b.head
        BY <1>1, <2>3, WordBytesType, WordReadsBack
    <2>5. Holds(at + 1, WordBytes(b.head, OffBytes))
        <3>1. Holds(at, <<v>> \o WordBytes(b.head, OffBytes))
            BY <1>3, <2>2
        <3>2. Holds(at + Len(<<v>>), WordBytes(b.head, OffBytes))
            BY <1>1, <2>3, <2>4, <3>1, HoldsBoth
        <3> QED
            BY <2>3, <3>2
    <2>6. Word(Bytes(at + 1, OffBytes)) = b.head
        BY <1>1, <2>3, <2>4, <2>5, HoldsBytes
    <2>7. ~Past(At(i), 1 + OffBytes)
        BY <1>1, <1>2, <1>4, <1>6, <1>8 DEF Past
    <2>8. VersionRound(At(i)) = [At(i) EXCEPT !.cur = b.head, !.at = @ + 1 + OffBytes]
        BY <1>4, <2>6, <2>7 DEF VersionRound
    <2>9. [At(i) EXCEPT !.cur = b.head, !.at = @ + 1 + OffBytes] = At(i + 1)
        <3>1. at + 1 + OffBytes = b.end
            BY <1>1, <1>2, <1>8
        <3>2. [At(i) EXCEPT !.cur = b.head, !.at = @ + 1 + OffBytes]
                = [at |-> at + 1 + OffBytes, cur |-> b.head, stop |-> "no"]
            <4> DEFINE r == At(i)
                       h == b.head
                       n == at + 1 + OffBytes
            <4>1. r = [at |-> at, cur |-> HeadBefore(i), stop |-> "no"]
                BY DEF At, at
            <4>2. [r EXCEPT !.cur = h, !.at = @ + 1 + OffBytes]
                    = [[r EXCEPT !.cur = h] EXCEPT !.at = n]
                <5> HIDE DEF h
                <5> QED
                    BY <4>1
            <4> HIDE DEF r, h, n
            <4>3. [r EXCEPT !.cur = h] = [at |-> at, cur |-> h, stop |-> "no"]
                BY <4>1
            <4>4. [[at |-> at, cur |-> h, stop |-> "no"] EXCEPT !.at = n]
                    = [at |-> n, cur |-> h, stop |-> "no"]
                OBVIOUS
            <4> QED
                BY <4>2, <4>3, <4>4 DEF r, h, n
        <3> QED
            BY <1>5, <3>1, <3>2
    <2> QED
        BY <2>1, <2>8, <2>9
<1>9. CASE b.root # 0
    <2> DEFINE dat == RootBytes(b.prev, b.recs)
    <2>1. ScanRound(At(i)) = DataRound(At(i))
        <3>1. <<d>> # <<v>>
            BY DEF d, v
        <3> QED
            BY <1>1, <1>2, <1>4, <1>7, <1>9, <3>1 DEF ScanRound
    <2>2. /\ b.prev \in Nat /\ b.recs \in Leaves
          /\ <<d>> \in Seq(Byte) /\ Len(<<d>>) = 1
          /\ at + 1 \in Nat
        BY <1>1 DEF Offsets, HistoryBlock, d, Byte
    <2>3. dat \in Seq(Byte) /\ Len(dat) \in Nat /\ Len(dat) < Room(SizeBytes)
        BY <2>2, RootBytesType, RootFits
    <2>4. BlockBytes(b) = <<d>> \o Block(dat) /\ Block(dat) = WordBytes(Len(dat), SizeBytes) \o dat
        BY <1>9 DEF BlockBytes, Block
    <2>5. Len(BlockBytes(b)) = 1 + SizeBytes + Len(dat)
        BY <1>2, <1>9
    <2> HIDE DEF dat
    <2>6. /\ WordBytes(Len(dat), SizeBytes) \in Seq(Byte)
          /\ Len(WordBytes(Len(dat), SizeBytes)) = SizeBytes
          /\ Word(WordBytes(Len(dat), SizeBytes)) = Len(dat)
        BY <1>1, <2>3, WordBytesType, WordReadsBack
    <2>7. Block(dat) \in Seq(Byte)
        BY <2>3, BlockType
    <2>8. Holds(at + 1, WordBytes(Len(dat), SizeBytes))
        <3>1. Holds(at + Len(<<d>>), Block(dat))
            BY <1>1, <1>3, <2>2, <2>4, <2>7, HoldsBoth
        <3>2. Holds(at + 1, WordBytes(Len(dat), SizeBytes) \o dat)
            BY <2>2, <2>4, <3>1
        <3> QED
            BY <1>1, <2>2, <2>3, <2>6, <3>2, HoldsBoth
    <2>9. Word(Bytes(at + 1, SizeBytes)) = Len(dat)
        BY <1>1, <2>2, <2>6, <2>8, HoldsBytes
    <2>10. /\ ~Past(At(i), 1 + SizeBytes)
           /\ ~Past(At(i), 1 + SizeBytes + Len(dat))
        BY <1>1, <1>2, <1>4, <1>6, <2>3, <2>5 DEF Past
    <2>11. DataRound(At(i)) = [At(i) EXCEPT !.at = @ + (1 + SizeBytes + Len(dat))]
        BY <1>4, <2>9, <2>10 DEF DataRound
    <2>12. [At(i) EXCEPT !.at = @ + (1 + SizeBytes + Len(dat))] = At(i + 1)
        <3>1. at + (1 + SizeBytes + Len(dat)) = b.end
            BY <1>1, <2>3, <2>5
        <3>2. [At(i) EXCEPT !.at = @ + (1 + SizeBytes + Len(dat))]
                = [at |-> at + (1 + SizeBytes + Len(dat)), cur |-> HeadBefore(i), stop |-> "no"]
            BY DEF At, at
        <3> QED
            BY <1>1, <1>5, <1>9, <3>1, <3>2
    <2> QED
        BY <2>1, <2>11, <2>12
<1> QED
    BY <1>8, <1>9

(* The file ends in a block: the scan stops there, and calls it torn.      *)
LEMMA TornRound ==
    ASSUME BytesInv, NEW i \in 1..Len(blocks),
           Begin(i) < Len(file), Len(file) < blocks[i].end
    PROVE  ScanRound(At(i)) = [At(i) EXCEPT !.stop = "torn"]
<1> DEFINE b == blocks[i]
           at == Begin(i)
<1>1. /\ SizeBytes \in Nat /\ OffBytes \in Nat /\ Len(file) \in Nat /\ file \in Seq(Byte)
      /\ at \in Nat
      /\ i \in DOMAIN blocks
      /\ b \in HistoryBlock
      /\ b.end = at + Len(BlockBytes(b))
    BY BeginType, BlocksAssumption DEF BytesInv, BlocksType, BlocksFollow, Byte
<1>2. /\ BlockBytes(b) \in Seq(Byte)
      /\ Len(BlockBytes(b)) \in Nat /\ Len(BlockBytes(b)) >= 1
      /\ b.root = 0 => /\ Len(BlockBytes(b)) = 1 + OffBytes
                       /\ BlockBytes(b)[1] = v
      /\ b.root # 0 => /\ Len(BlockBytes(b)) = 1 + SizeBytes + Len(RootBytes(b.prev, b.recs))
                       /\ BlockBytes(b)[1] = d
    BY <1>1, BlockBytesType
<1>3. \A p \in 1..Len(BlockBytes(b)) : at + p <= Len(file) => file[at + p] = BlockBytes(b)[p]
    BY <1>1 DEF BytesInv, FileIsBlocks
<1>4. /\ At(i).at = at /\ At(i).stop = "no"
    BY DEF At
<1>5. at < Len(file) /\ Len(file) < b.end
    OBVIOUS
<1> HIDE DEF b, at
<1>6. Bytes(at, 1) = <<BlockBytes(b)[1]>>
    <2>1. 1 \in 1..Len(BlockBytes(b)) /\ at + 1 <= Len(file)
        BY <1>1, <1>2, <1>5
    <2>2. file[at + 1] = BlockBytes(b)[1]
        BY <1>3, <2>1
    <2> QED
        BY <1>1, <1>5, <2>2, NextByte
<1>7. CASE b.root = 0
    <2>1. ScanRound(At(i)) = VersionRound(At(i))
        <3>1. <<d>> # <<v>>
            BY DEF d, v
        <3> QED
            BY <1>1, <1>2, <1>4, <1>5, <1>6, <1>7, <3>1 DEF ScanRound
    <2>2. Past(At(i), 1 + OffBytes)
        BY <1>1, <1>2, <1>4, <1>5, <1>7 DEF Past
    <2> QED
        BY <2>1, <2>2 DEF VersionRound
<1>8. CASE b.root # 0
    <2> DEFINE dat == RootBytes(b.prev, b.recs)
    <2>1. ScanRound(At(i)) = DataRound(At(i))
        <3>1. <<d>> # <<v>>
            BY DEF d, v
        <3> QED
            BY <1>1, <1>2, <1>4, <1>5, <1>6, <1>8, <3>1 DEF ScanRound
    <2>2. /\ b.prev \in Nat /\ b.recs \in Leaves
          /\ <<d>> \in Seq(Byte) /\ Len(<<d>>) = 1
          /\ at + 1 \in Nat
        BY <1>1 DEF Offsets, HistoryBlock, d, Byte
    <2>3. dat \in Seq(Byte) /\ Len(dat) \in Nat /\ Len(dat) < Room(SizeBytes)
        BY <2>2, RootBytesType, RootFits
    <2>4. BlockBytes(b) = <<d>> \o (WordBytes(Len(dat), SizeBytes) \o dat)
        BY <1>8 DEF BlockBytes, Block
    <2>5. Len(BlockBytes(b)) = 1 + SizeBytes + Len(dat)
        BY <1>2, <1>8
    <2> HIDE DEF dat
    <2> DEFINE word == WordBytes(Len(dat), SizeBytes)
    <2>6. /\ word \in Seq(Byte) /\ Len(word) = SizeBytes /\ Word(word) = Len(dat)
        BY <1>1, <2>3, WordBytesType, WordReadsBack
    <2>7. CASE Past(At(i), 1 + SizeBytes)
        BY <2>1, <2>7 DEF DataRound
    <2>8. CASE ~Past(At(i), 1 + SizeBytes)
        <3>1. at + 1 + SizeBytes <= Len(file)
            BY <1>1, <1>4, <2>8 DEF Past
        <3> HIDE DEF word
        <3>2. \A p \in 1..Len(word) : BlockBytes(b)[1 + p] = word[p]
            <4>1. word \o dat \in Seq(Byte) /\ \A p \in 1..Len(word) :
                      p \in 1..Len(word \o dat) /\ (word \o dat)[p] = word[p]
                BY <2>3, <2>6
            <4>2. \A p \in 1..Len(word \o dat) : (<<d>> \o (word \o dat))[1 + p] = (word \o dat)[p]
                BY <2>2, <4>1
            <4> QED
                BY <2>4, <4>1, <4>2 DEF word
        <3>3. Holds(at + 1, word)
            <4>1. \A p \in 1..Len(word) : file[at + 1 + p] = word[p]
                <5> TAKE p \in 1..Len(word)
                <5>1. /\ 1 + p \in 1..Len(BlockBytes(b)) /\ at + (1 + p) <= Len(file)
                      /\ at + (1 + p) = at + 1 + p
                    BY <1>1, <2>3, <2>5, <2>6, <3>1
                <5> QED
                    BY <1>3, <3>2, <5>1
            <4> QED
                BY <1>1, <2>6, <3>1, <4>1 DEF Holds
        <3>4. Word(Bytes(at + 1, SizeBytes)) = Len(dat)
            BY <1>1, <2>2, <2>6, <3>3, HoldsBytes
        <3>5. Past(At(i), 1 + SizeBytes + Len(dat))
            BY <1>1, <1>4, <1>5, <2>3, <2>5 DEF Past
        <3> QED
            BY <1>4, <2>1, <3>4, <3>5 DEF DataRound
    <2> QED
        BY <2>7, <2>8
<1> QED
    BY <1>7, <1>8

(* f is what the scan knows after each number of rounds.                   *)
Rounds(n, f) ==
    f = [k \in 0..n |->
            IF k = 0 THEN [at |-> 0, cur |-> 0, stop |-> "no"]
            ELSE IF f[k - 1].stop = "no" THEN ScanRound(f[k - 1]) ELSE f[k - 1]]

(* There is such an f, and it gives the end of the scan.                   *)
LEMMA RoundsIs ==
    ASSUME Len(file) \in Nat
    PROVE  \E f : Rounds(Len(file) + 1, f) /\ Scan = f[Len(file) + 1]
<1> DEFINE w == Len(file) + 1
           T == {n \in Nat : \E f : Rounds(n, f)}
           none == [at |-> 0, cur |-> 0, stop |-> "no"]
           next(s) == IF s.stop = "no" THEN ScanRound(s) ELSE s
<1>1. \A n, f : Rounds(n, f) <=> f = [k \in 0..n |-> IF k = 0 THEN none ELSE next(f[k - 1])]
    BY Zenon DEF Rounds
<1>2. 0 \in T
    <2> HIDE DEF next, none
    <2> DEFINE g == [k \in 0..0 |-> none]
    <2>1. \A k \in 0..0 : g[k] = IF k = 0 THEN none ELSE next(g[k - 1])
        OBVIOUS
    <2>2. g = [k \in 0..0 |-> IF k = 0 THEN none ELSE next(g[k - 1])]
        BY <2>1
    <2>3. Rounds(0, g)
        BY <1>1, <2>2, Zenon
    <2> QED
        BY <2>3
<1>3. ASSUME NEW m \in 0..w, m # w, m \in T
      PROVE  m + 1 \in T
    <2>1. m \in Nat
        OBVIOUS
    <2> HIDE DEF next, none, w
    <2>2. PICK f : Rounds(m, f)
        BY <1>3
    <2> DEFINE g == [k \in 0..m + 1 |-> IF k = m + 1 THEN next(f[m]) ELSE f[k]]
    <2>3. \A k \in 0..m : f[k] = IF k = 0 THEN none ELSE next(f[k - 1])
        BY <1>1, <2>2
    <2>4. \A k \in 0..m + 1 : k # 0 => k - 1 \in 0..m /\ g[k - 1] = f[k - 1]
        BY <2>1
    <2>5. \A k \in 0..m + 1 : g[k] = IF k = 0 THEN none ELSE next(g[k - 1])
        <3> TAKE k \in 0..m + 1
        <3>1. CASE k = m + 1
            <4>1. k # 0 /\ k - 1 = m /\ g[k] = next(f[m]) /\ g[m] = f[m]
                BY <2>1, <3>1
            <4> QED
                BY <4>1, Zenon
        <3>2. CASE k # m + 1
            <4>1. k \in 0..m /\ g[k] = f[k]
                BY <2>1, <3>2
            <4> HIDE DEF g
            <4> QED
                BY <2>3, <2>4, <4>1
        <3> QED
            BY <3>1, <3>2
    <2>6. Rounds(m + 1, g)
        BY <1>1, <2>5
    <2> QED
        BY <2>1, <2>6
<1>4. w \in T
    <2>1. w \in Nat
        OBVIOUS
    <2> HIDE DEF T, w
    <2>2. 0..w \subseteq T
        BY <2>1, <1>2, <1>3, UpTo
    <2> QED
        BY <2>1, <2>2
<1> DEFINE u == CHOOSE f : Rounds(w, f)
<1>5. Rounds(w, u)
    BY <1>4, Zenon
<1>6. Scan = u[w]
    BY Zenon DEF Scan, Rounds
<1> QED
    BY <1>5, <1>6, Zenon

(* The first k blocks are whole, and the file ends with them or in the     *)
(* one behind them.                                                        *)
Whole(k) == /\ k \in 0..Len(blocks)
            /\ {i \in DOMAIN blocks : blocks[i].end <= Len(file)} = 1..k
            /\ Begin(k + 1) <= Len(file)
            /\ k = Len(blocks) => Begin(k + 1) = Len(file)
            /\ k <= Len(file)

(* There is such a k.                                                      *)
LEMMA WholeIs ==
    ASSUME BytesInv
    PROVE  \E k \in 0..Len(blocks) : Whole(k)
<1>1. /\ Len(blocks) \in Nat /\ DOMAIN blocks = 1..Len(blocks)
      /\ Len(file) \in Nat
      /\ \A i \in 1..Len(blocks) : blocks[i].end \in Nat
      /\ \A i \in 1..Len(blocks) : Begin(i + 1) = blocks[i].end
    BY BeginType DEF HistoryBlock
<1>2. /\ \A i, j \in 1..Len(blocks) : i < j => blocks[i].end < blocks[j].end
      /\ \A i \in 1..Len(blocks) : i <= blocks[i].end
    BY <1>1 DEF BytesInv, BlocksInOrder
<1>3. Len(file) <= Begin(Len(blocks) + 1)
    BY DEF BytesInv, FileIsBlocks
<1> DEFINE torn == {i \in 1..Len(blocks) + 1 :
                       i \in 1..Len(blocks) => ~(blocks[i].end <= Len(file))}
<1>4. PICK m \in torn : \A i \in torn : m <= i
    <2>1. torn \subseteq Nat
        BY <1>1
    <2>2. Len(blocks) + 1 \in torn
        BY <1>1
    <2> HIDE DEF torn
    <2> QED
        BY <2>1, <2>2, LeastNat
<1> DEFINE k == m - 1
<1>5. /\ k \in 0..Len(blocks) /\ k + 1 = m /\ k \in Nat /\ m \in Nat
      /\ m \in 1..Len(blocks) + 1
    BY <1>1, <1>4
<1>6. \A i \in 1..k : i \in 1..Len(blocks) /\ blocks[i].end <= Len(file)
    <2> TAKE i \in 1..k
    <2>1. i \in 1..Len(blocks) /\ ~(m <= i) /\ i \in 1..Len(blocks) + 1
        BY <1>1, <1>5
    <2>2. i \notin torn
        BY <1>4, <2>1
    <2> QED
        BY <2>1, <2>2
<1>7. \A i \in 1..Len(blocks) : blocks[i].end <= Len(file) => i \in 1..k
    <2> SUFFICES ASSUME NEW i \in 1..Len(blocks), blocks[i].end <= Len(file), i \notin 1..k
                 PROVE  FALSE
        OBVIOUS
    <2>1. m <= i /\ m \in 1..Len(blocks)
        BY <1>1, <1>5
    <2>2. ~(blocks[m].end <= Len(file))
        BY <1>4, <2>1
    <2>3. blocks[m].end <= blocks[i].end
        BY <1>1, <1>2, <2>1
    <2> QED
        BY <1>1, <2>1, <2>2, <2>3
<1>8. {i \in DOMAIN blocks : blocks[i].end <= Len(file)} = 1..k
    BY <1>1, <1>6, <1>7
<1> HIDE DEF k
<1>9. Begin(k + 1) <= Len(file) /\ k <= Len(file)
    <2>1. CASE k = 0
        <3>1. k + 1 = 1
            BY <2>1
        <3>2. Begin(k + 1) = 0
            BY <3>1 DEF Begin
        <3> QED
            BY <1>1, <2>1, <3>2
    <2>2. CASE k # 0
        <3>1. k \in 1..k
            BY <1>5, <2>2
        <3>2. /\ k \in 1..Len(blocks) /\ blocks[k].end <= Len(file)
              /\ Begin(k + 1) = blocks[k].end /\ k <= blocks[k].end
            BY <1>1, <1>2, <1>6, <3>1
        <3> QED
            BY <1>1, <1>5, <3>2
    <2> QED
        BY <2>1, <2>2
<1>10. k = Len(blocks) => Begin(k + 1) = Len(file)
    <2>1. Begin(k + 1) \in Nat
        BY <1>1, <1>5, BeginType
    <2> QED
        BY <1>1, <1>3, <1>9, <2>1
<1> QED
    BY <1>5, <1>8, <1>9, <1>10 DEF Whole

(* The scan comes to the end of the blocks that are whole, knows the head  *)
(* there, and never meets an unknown byte.                                 *)
LEMMA ScanFinds ==
    ASSUME BytesInv, NEW k \in 0..Len(blocks), Whole(k)
    PROVE  /\ Scan.at = Begin(k + 1) /\ Scan.cur = HeadBefore(k + 1)
           /\ Scan.stop = IF Begin(k + 1) = Len(file) THEN "eof" ELSE "torn"
<1>1. /\ Len(blocks) \in Nat /\ DOMAIN blocks = 1..Len(blocks)
      /\ Len(file) \in Nat
      /\ \A i \in 1..Len(blocks) : blocks[i].end \in Nat
      /\ \A i \in 1..Len(blocks) + 1 : Begin(i) \in Nat
    BY BeginType DEF HistoryBlock
<1>2. PICK f : Rounds(Len(file) + 1, f) /\ Scan = f[Len(file) + 1]
    BY <1>1, RoundsIs
<1> DEFINE w == Len(file) + 1
<1>3. /\ f[0] = [at |-> 0, cur |-> 0, stop |-> "no"]
      /\ \A n \in 1..w : f[n] = IF f[n - 1].stop = "no" THEN ScanRound(f[n - 1]) ELSE f[n - 1]
    <2>1. \A n \in 0..w : f[n] = IF n = 0 THEN [at |-> 0, cur |-> 0, stop |-> "no"]
                                ELSE IF f[n - 1].stop = "no" THEN ScanRound(f[n - 1])
                                                             ELSE f[n - 1]
        BY <1>2, Zenon DEF Rounds
    <2>2. 0 \in 0..w /\ \A n \in 1..w : n \in 0..w /\ n # 0
        BY <1>1
    <2> QED
        BY <2>1, <2>2, Zenon
<1>4. /\ k \in Nat /\ k <= Len(file) /\ k <= Len(blocks)
      /\ \A i \in 1..k : i \in 1..Len(blocks) /\ blocks[i].end <= Len(file)
      /\ \A i \in 1..Len(blocks) : i \notin 1..k => ~(blocks[i].end <= Len(file))
      /\ Begin(k + 1) <= Len(file)
      /\ k = Len(blocks) => Begin(k + 1) = Len(file)
    <2>1. k \in Nat /\ k <= Len(blocks)
        BY <1>1
    <2>2. {i \in 1..Len(blocks) : blocks[i].end <= Len(file)} = 1..k
        BY <1>1 DEF Whole
    <2>3. \A i \in 1..k : i \in 1..Len(blocks) /\ blocks[i].end <= Len(file)
        BY <2>2
    <2>4. \A i \in 1..Len(blocks) : i \notin 1..k => ~(blocks[i].end <= Len(file))
        BY <2>2
    <2> QED
        BY <2>1, <2>3, <2>4 DEF Whole
<1>5. w \in Nat /\ k + 1 \in 1..w
    <2>1. k \in Nat /\ k <= Len(file)
        BY <1>4
    <2> QED
        BY <1>1, <2>1
<1> HIDE DEF w
<1> DEFINE S == {n \in 0..k : f[n] = At(n + 1)}
<1>6. 0..k \subseteq S
    <2>1. 0 \in S
        <3>1. At(1) = [at |-> 0, cur |-> 0, stop |-> "no"]
            BY DEF At, Begin, HeadBefore
        <3> QED
            BY <1>3, <1>4, <3>1
    <2>2. ASSUME NEW n \in 0..k, n # k, n \in S
          PROVE  n + 1 \in S
        <3>1. /\ n + 1 \in 1..w /\ (n + 1) - 1 = n /\ n + 1 \in 0..k
              /\ n + 1 \in 1..Len(blocks) /\ blocks[n + 1].end <= Len(file)
            BY <1>4, <1>5, <2>2
        <3>2. f[n] = At(n + 1) /\ At(n + 1).stop = "no"
            BY <2>2 DEF At
        <3>3. f[n + 1] = ScanRound(At(n + 1))
            BY <1>3, <3>1, <3>2
        <3>4. ScanRound(At(n + 1)) = At((n + 1) + 1)
            BY <3>1, WholeRound
        <3> QED
            BY <3>1, <3>3, <3>4
    <2> HIDE DEF S
    <2> QED
        BY <1>4, <2>1, <2>2, UpTo
<1>7. f[k] = At(k + 1) /\ At(k + 1).stop = "no" /\ At(k + 1).at = Begin(k + 1)
    BY <1>4, <1>6 DEF At
<1> DEFINE last == IF Begin(k + 1) = Len(file) THEN "eof" ELSE "torn"
<1>8. f[k + 1] = [At(k + 1) EXCEPT !.stop = last]
    <2>1. (k + 1) - 1 = k
        BY <1>4
    <2>2. f[k + 1] = ScanRound(At(k + 1))
        BY <1>3, <1>5, <1>7, <2>1
    <2>3. CASE Begin(k + 1) = Len(file)
        BY <1>7, <2>2, <2>3 DEF ScanRound
    <2>4. CASE Begin(k + 1) # Len(file)
        <3>1. /\ k + 1 \in 1..Len(blocks) /\ k + 1 \notin 1..k
              /\ Begin(k + 1) < Len(file)
            BY <1>1, <1>4, <2>4
        <3>2. Len(file) < blocks[k + 1].end
            <4>1. ~(blocks[k + 1].end <= Len(file)) /\ blocks[k + 1].end \in Nat
                BY <1>1, <1>4, <3>1
            <4> QED
                BY <1>1, <4>1
        <3> QED
            BY <2>2, <2>4, <3>1, <3>2, TornRound
    <2> QED
        BY <2>3, <2>4
<1>9. /\ f[k + 1].at = Begin(k + 1) /\ f[k + 1].cur = HeadBefore(k + 1)
      /\ f[k + 1].stop = last
    BY <1>8 DEF At
<1>10. f[k + 1].stop # "no"
    BY <1>9
<1> HIDE DEF last
<1> DEFINE T == {n \in 0..w : n > k => f[n] = f[k + 1]}
<1>11. 0..w \subseteq T
    <2>1. 0 \in T
        BY <1>4, <1>5
    <2>2. ASSUME NEW n \in 0..w, n # w, n \in T
          PROVE  n + 1 \in T
        <3>1. n + 1 \in 1..w /\ (n + 1) - 1 = n /\ n \in Nat /\ n + 1 \in 0..w
            BY <1>5, <2>2
        <3>2. CASE n > k
            <4>1. f[n] = f[k + 1]
                BY <2>2, <3>2
            <4>2. f[n + 1] = f[n]
                BY <1>3, <1>10, <3>1, <4>1
            <4> QED
                BY <3>1, <4>1, <4>2
        <3>3. CASE ~(n > k)
            <4>1. n + 1 > k => n + 1 = k + 1
                BY <1>4, <3>1, <3>3
            <4> QED
                BY <3>1, <4>1
        <3> QED
            BY <3>2, <3>3
    <2> HIDE DEF T
    <2> QED
        BY <1>5, <2>1, <2>2, UpTo
<1>12. f[w] = f[k + 1]
    BY <1>4, <1>5, <1>11
<1> QED
    BY <1>2, <1>9, <1>12 DEF w, last

-----------------------------------------------------------------------------
(* The steps.                                                              *)

(* A block is written behind the others.                                   *)
LEMMA BlockWritten ==
    ASSUME BytesInv, mode = "open",
           NEW b \in HistoryBlock,
           b.end = Len(file) + Len(BlockBytes(b)),
           b.root # 0 => b.root = Len(file) + 1 + SizeBytes /\ b.head = cur,
           file' = file \o BlockBytes(b),
           file_size' = file_size + Len(BlockBytes(b)),
           blocks' = Append(blocks, b),
           cur' = b.head, mode' = mode, flushed' \in 0..Len(file')
    PROVE  BytesInv'
<1>0. PICK n \in Nat : n = Len(blocks)
    BY BeginType
<1> DEFINE bs == BlockBytes(b)
<1>1. /\ n \in Nat /\ DOMAIN blocks = 1..n /\ Len(file) \in Nat
      /\ \A i \in 1..n : blocks[i] \in HistoryBlock
      /\ \A i \in 1..n + 1 : Begin(i) \in Nat
      /\ \A i \in 1..n : Begin(i + 1) = blocks[i].end
      /\ \A i \in 1..n : HeadBefore(i + 1) = blocks[i].head
    BY <1>0, BeginType
<1>2. /\ file \in Seq(Byte) /\ blocks \in Seq(HistoryBlock)
    BY DEF BytesInv, BlocksType
<1>3. bs \in Seq(Byte) /\ Len(bs) \in Nat /\ Len(bs) >= 1
    BY BlockBytesType
<1>4. /\ Len(file) = Begin(n + 1) /\ file_size = Len(file) /\ cur = HeadBefore(n + 1)
    BY <1>0 DEF BytesInv, OpenKnowsBlocks
<1>5. /\ \A i \in 1..n : blocks[i].end = Begin(i) + Len(BlockBytes(blocks[i]))
      /\ \A i \in 1..n : blocks[i].root # 0 => /\ blocks[i].root = Begin(i) + 1 + SizeBytes
                                              /\ blocks[i].head = HeadBefore(i)
    BY <1>1 DEF BytesInv, BlocksFollow
<1>6. /\ \A i \in 1..n : i <= blocks[i].end
      /\ \A i, j \in 1..n : i < j => blocks[i].end < blocks[j].end
    BY <1>1 DEF BytesInv, BlocksInOrder
<1>7. \A i \in 1..n : \A p \in 1..Len(BlockBytes(blocks[i])) :
          Begin(i) + p <= Len(file) => file[Begin(i) + p] = BlockBytes(blocks[i])[p]
    BY <1>1 DEF BytesInv, FileIsBlocks
<1> HIDE DEF bs
<1>8. \A i \in 1..n : blocks[i].end \in Nat /\ blocks[i].end <= Len(file) /\ i <= Len(file)
    <2> TAKE i \in 1..n
    <2>1. n \in 1..n /\ blocks[i].end \in Nat /\ blocks[n].end \in Nat
        BY <1>1 DEF HistoryBlock
    <2>2. Len(file) = blocks[n].end
        BY <1>1, <1>4, <2>1
    <2>3. i = n \/ blocks[i].end < blocks[n].end
        <3>1. i = n \/ i < n
            BY <1>1
        <3> QED
            BY <1>6, <2>1, <3>1
    <2> QED
        <3>1. n <= Len(file) /\ i <= n
            BY <1>1, <1>6, <2>1, <2>2
        <3>2. i <= Len(file)
            BY <1>1, <3>1
        <3>3. blocks[i].end <= Len(file)
            BY <2>1, <2>2, <2>3
        <3> QED
            BY <2>1, <3>2, <3>3
<1>9. /\ file' \in Seq(Byte) /\ Len(file') = Len(file) + Len(bs)
      /\ \A p \in 1..Len(file) : file'[p] = file[p]
      /\ \A p \in 1..Len(bs) : file'[Len(file) + p] = bs[p]
    <2>1. file' = file \o bs
        BY DEF bs
    <2> QED
        BY <1>2, <1>3, <2>1, ConcatProperties
<1>10. /\ blocks' \in Seq(HistoryBlock) /\ Len(blocks') = n + 1
       /\ \A i \in 1..n : blocks'[i] = blocks[i]
       /\ blocks'[n + 1] = b
       /\ DOMAIN blocks' = 1..n + 1
    BY <1>0, <1>1, <1>2, AppendProperties
<1>11. /\ \A i \in 1..n + 1 : Begin(i)' = Begin(i) /\ HeadBefore(i)' = HeadBefore(i)
       /\ Begin(n + 2)' = b.end /\ HeadBefore(n + 2)' = b.head
    <2>1. ASSUME NEW i \in 1..n + 1
          PROVE  Begin(i)' = Begin(i) /\ HeadBefore(i)' = HeadBefore(i)
        <3>1. i = 1 \/ i - 1 \in 1..n
            BY <1>1
        <3>2. i = 1 \/ blocks'[i - 1] = blocks[i - 1]
            BY <1>10, <3>1
        <3> QED
            BY <3>2 DEF Begin, HeadBefore
    <2>2. n + 2 # 1 /\ (n + 2) - 1 = n + 1
        BY <1>1
    <2>3. Begin(n + 2)' = b.end /\ HeadBefore(n + 2)' = b.head
        <3>1. /\ Begin(n + 2)' = blocks'[(n + 2) - 1].end
              /\ HeadBefore(n + 2)' = blocks'[(n + 2) - 1].head
            BY <2>2, Zenon DEF Begin, HeadBefore
        <3> QED
            BY <1>10, <2>2, <3>1
    <2> QED
        BY <2>1, <2>3
<1>12. BlocksType'
    <2>1. mode' \in {"open", "closed"}
        BY DEF BytesInv, BlocksType
    <2> QED
        BY <1>9, <1>10, <2>1 DEF BlocksType
<1>13. BlocksFollow'
    <2> SUFFICES ASSUME NEW i \in 1..n + 1
                 PROVE  /\ blocks'[i].end = Begin(i)' + Len(BlockBytes(blocks'[i]))
                        /\ blocks'[i].root # 0 => /\ blocks'[i].root = Begin(i)' + 1 + SizeBytes
                                                  /\ blocks'[i].head = HeadBefore(i)'
        BY <1>10 DEF BlocksFollow, BlockBytes
    <2>1. CASE i = n + 1
        BY <1>4, <1>10, <1>11, <2>1
    <2>2. CASE i # n + 1
        <3>1. i \in 1..n
            BY <1>1, <2>2
        <3> QED
            BY <1>5, <1>10, <1>11, <3>1
    <2> QED
        BY <2>1, <2>2
<1>14. BlocksInOrder'
    <2> SUFFICES ASSUME NEW i \in 1..n + 1, NEW j \in 1..n + 1
                 PROVE  /\ i <= blocks'[i].end
                        /\ i < j => blocks'[i].end < blocks'[j].end
        BY <1>10 DEF BlocksInOrder
    <2>1. b.end > Len(file) /\ b.end \in Nat
        BY <1>1, <1>3 DEF bs
    <2>2. n <= Len(file)
        <3>1. n = 0 \/ n \in 1..n
            BY <1>1
        <3> QED
            BY <1>1, <1>8, <3>1
    <2>3. i <= blocks'[i].end
        <3>1. CASE i = n + 1
            BY <1>1, <1>10, <2>1, <2>2, <3>1
        <3>2. CASE i # n + 1
            <4>1. i \in 1..n
                BY <1>1, <3>2
            <4> QED
                BY <1>6, <1>10, <4>1
        <3> QED
            BY <3>1, <3>2
    <2>4. ASSUME i < j
          PROVE  blocks'[i].end < blocks'[j].end
        <3>1. i \in 1..n
            BY <1>1, <2>4
        <3>2. CASE j = n + 1
            BY <1>1, <1>8, <1>10, <2>1, <3>1, <3>2
        <3>3. CASE j # n + 1
            <4>1. j \in 1..n
                BY <1>1, <3>3
            <4> QED
                BY <1>6, <1>10, <2>4, <3>1, <4>1
        <3> QED
            BY <3>2, <3>3
    <2> QED
        BY <2>3, <2>4
<1>15. FileIsBlocks'
    <2>1. ASSUME NEW i \in 1..n + 1, NEW p \in 1..Len(BlockBytes(blocks'[i])),
                 Begin(i)' + p <= Len(file')
          PROVE  file'[Begin(i)' + p] = BlockBytes(blocks'[i])[p]
        <3>1. CASE i = n + 1
            <4>1. BlockBytes(blocks'[i]) = bs /\ Begin(i)' = Len(file)
                BY <1>4, <1>10, <1>11, <3>1 DEF bs
            <4> QED
                BY <1>9, <2>1, <4>1
        <3>2. CASE i # n + 1
            <4>1. i \in 1..n /\ i \in 1..n + 1
                BY <1>1, <3>2
            <4>2. blocks'[i] = blocks[i] /\ Begin(i)' = Begin(i) /\ Begin(i) \in Nat
                BY <1>1, <1>10, <1>11, <4>1
            <4>3. p \in 1..Len(BlockBytes(blocks[i])) /\ Len(BlockBytes(blocks[i])) \in Nat
                BY <1>1, <2>1, <4>1, <4>2, BlockBytesType
            <4>4. Begin(i) + p <= Len(file) /\ Begin(i) + p \in 1..Len(file)
                <5>1. /\ blocks[i].end = Begin(i) + Len(BlockBytes(blocks[i]))
                      /\ blocks[i].end <= Len(file)
                    BY <1>5, <1>8, <4>1
                <5>2. PICK k \in Nat : k = Len(BlockBytes(blocks[i]))
                    BY <4>3
                <5>3. p \in 1..k /\ Begin(i) + k <= Len(file)
                    BY <4>3, <5>1, <5>2
                <5>4. PICK x \in Nat : x = Begin(i)
                    BY <4>2
                <5>5. x + k <= Len(file) /\ p \in 1..k /\ Len(file) \in Nat
                    BY <1>1, <5>3, <5>4
                <5>6. x + p <= Len(file) /\ x + p \in 1..Len(file)
                    BY <5>5
                <5> QED
                    BY <5>4, <5>6
            <4> QED
                BY <1>7, <1>9, <4>1, <4>2, <4>3, <4>4
        <3> QED
            BY <3>1, <3>2
    <2>2. Len(file') <= Begin(n + 2)'
        BY <1>1, <1>3, <1>9, <1>11 DEF bs
    <2>3. Len(blocks') + 1 = n + 2
        BY <1>1, <1>10
    <2>4. Len(file') <= Begin(Len(blocks) + 1)'
        <3>1. Begin(Len(blocks) + 1)' = Begin(n + 2)'
            BY <2>3, Zenon DEF Begin
        <3> QED
            BY <2>2, <3>1
    <2> QED
        BY <1>10, <2>1, <2>4 DEF FileIsBlocks, BlockBytes
<1>16. OpenKnowsBlocks'
    <2>1. Len(blocks') + 1 = n + 2
        BY <1>1, <1>10
    <2>2. /\ Len(file') = Begin(n + 2)' /\ cur' = HeadBefore(n + 2)'
        BY <1>1, <1>3, <1>9, <1>11 DEF bs
    <2>3. file_size' = Len(file')
        BY <1>4, <1>9 DEF bs
    <2> QED
        <3>1. /\ Begin(Len(blocks) + 1)' = Begin(n + 2)'
              /\ HeadBefore(Len(blocks) + 1)' = HeadBefore(n + 2)'
            BY <2>1, Zenon DEF Begin, HeadBefore
        <3> QED
            BY <2>2, <2>3, <3>1, Zenon DEF OpenKnowsBlocks
<1> QED
    BY <1>12, <1>13, <1>14, <1>15, <1>16 DEF BytesInv

(* The versions are offsets there is room for.                             *)
LEMMA VersionsType ==
    ASSUME BytesInv
    PROVE  Versions \subseteq Offsets /\ 0 \in Offsets
<1>1. 0 \in Offsets
    <2>1. /\ OffBytes \in Nat /\ MaxFile \in Nat /\ SizeBytes \in Nat
          /\ MaxFile + SizeBytes < Room(OffBytes)
        BY BlocksAssumption DEF NumbersFit, Byte
    <2>2. Room(OffBytes) \in Nat
        BY <2>1, RoomType
    <2> QED
        BY <2>1, <2>2 DEF Offsets
<1>2. \A i \in DOMAIN blocks : blocks[i].root \in Offsets
    BY BeginType DEF HistoryBlock
<1> QED
    BY <1>1, <1>2 DEF Versions

(* aodbm_set, aodbm_del.                                                   *)
LEMMA SetStep ==
    ASSUME BytesInv, NEW prev \in Versions, NEW recs \in Leaves,
           Set(prev, recs)
    PROVE  BytesInv'
<1>1. /\ prev \in Offsets /\ 0 \in Offsets /\ Len(file) \in Nat /\ prev \in Nat
      /\ SizeBytes \in Nat /\ OffBytes \in Nat /\ MaxFile \in Nat
      /\ MaxFile + SizeBytes < Room(OffBytes)
    BY VersionsType, BeginType, BlocksAssumption DEF Offsets, NumbersFit, Byte
<1>2. Room(OffBytes) \in Nat
    BY <1>1, RoomType
<1>3. mode = "open" /\ Len(file) < MaxFile
    BY DEF Set
<1>4. file_size = Len(file) /\ cur = HeadBefore(Len(blocks) + 1)
    BY <1>3 DEF BytesInv, OpenKnowsBlocks
<1>5. cur \in Offsets
    <2>1. CASE Len(blocks) = 0
        BY <1>1, <1>4, <2>1 DEF HeadBefore
    <2>2. CASE Len(blocks) # 0
        <3>1. Len(blocks) \in 1..Len(blocks)
            BY <2>2, BeginType
        <3>2. cur = blocks[Len(blocks)].head
            BY <1>4, <3>1, BeginType
        <3> QED
            BY <3>1, <3>2, BeginType DEF HistoryBlock
    <2> QED
        BY <2>1, <2>2
<1> DEFINE dat == RootBytes(prev, recs)
           bs == <<d>> \o WordBytes(Len(dat), SizeBytes) \o dat
           b == [root |-> file_size + 1 + SizeBytes, prev |-> prev,
                 recs |-> recs, head |-> cur,
                 end |-> file_size + 1 + SizeBytes + Len(dat)]
<1>6. /\ file' = file \o bs /\ file_size' = file_size + Len(bs)
      /\ blocks' = Append(blocks, b)
      /\ mode' = mode /\ flushed' = flushed /\ cur' = cur
    BY DEF Set, Write
<1>7. dat \in Seq(Byte) /\ Len(dat) \in Nat
    BY <1>1, RootBytesType
<1>8. b.root # 0 /\ b.root \in Offsets /\ b \in HistoryBlock
    <2> HIDE DEF dat
    <2>1. file_size + 1 + SizeBytes \in Offsets /\ file_size + 1 + SizeBytes # 0
        BY <1>1, <1>2, <1>3, <1>4 DEF Offsets
    <2>2. file_size + 1 + SizeBytes + Len(dat) \in Nat
        BY <1>1, <1>4, <1>7
    <2> QED
        BY <1>1, <1>5, <2>1, <2>2 DEF HistoryBlock
<1>9. b.prev = prev /\ b.recs = recs /\ b.head = cur
    OBVIOUS
<1>10. BlockBytes(b) = bs /\ Len(bs) = 1 + SizeBytes + Len(dat) /\ Len(bs) \in Nat
    <2>1. BlockBytes(b) = <<d>> \o Block(dat)
        BY <1>8, <1>9, Zenon DEF BlockBytes
    <2>2. /\ WordBytes(Len(dat), SizeBytes) \in Seq(Byte)
          /\ <<d>> \in Seq(Byte)
        <3> HIDE DEF dat
        <3> QED
            BY <1>1, <1>7, WordBytesType DEF d, Byte
    <2>3. <<d>> \o (WordBytes(Len(dat), SizeBytes) \o dat) = bs
        <3> HIDE DEF dat
        <3> QED
            BY <1>7, <2>2, ConcatAssociative
    <2>4. BlockBytes(b) = bs
        BY <2>1, <2>3, Zenon DEF Block
    <2> HIDE DEF bs, b
    <2>5. Len(BlockBytes(b)) = 1 + SizeBytes + Len(dat) /\ Len(BlockBytes(b)) \in Nat
        BY <1>8, <1>9, BlockBytesType
    <2> QED
        BY <2>4, <2>5
<1>11. b.end = Len(file) + Len(BlockBytes(b))
    <2> HIDE DEF dat, bs
    <2>1. b.end = file_size + 1 + SizeBytes + Len(dat)
        OBVIOUS
    <2> HIDE DEF b
    <2> QED
        BY <1>1, <1>4, <1>7, <1>10, <2>1
<1>12. b.root = Len(file) + 1 + SizeBytes
    BY <1>4
<1>13. flushed' \in 0..Len(file')
    <2>1. bs \in Seq(Byte)
        BY <1>8, <1>10, BlockBytesType
    <2>2. file \in Seq(Byte) /\ flushed \in 0..Len(file)
        BY DEF BytesInv, BlocksType
    <2> HIDE DEF bs
    <2>3. Len(file') = Len(file) + Len(bs)
        BY <1>6, <2>1, <2>2, ConcatProperties
    <2> QED
        BY <1>1, <1>6, <1>10, <2>2, <2>3
<1> HIDE DEF b, bs, dat
<1>14. /\ file' = file \o BlockBytes(b)
       /\ file_size' = file_size + Len(BlockBytes(b))
       /\ blocks' = Append(blocks, b)
       /\ cur' = b.head
    BY <1>6, <1>9, <1>10
<1> QED
    BY <1>3, <1>6, <1>8, <1>9, <1>11, <1>12, <1>13, <1>14, BlockWritten

(* aodbm_commit.                                                           *)
LEMMA CommitStep ==
    ASSUME BytesInv, NEW ver \in Versions, Commit(ver)
    PROVE  BytesInv'
<1>1. /\ ver \in Offsets /\ 0 \in Offsets /\ Len(file) \in Nat /\ ver \in Nat
      /\ OffBytes \in Nat /\ MaxRecords \in Nat
    BY VersionsType, BeginType, BlocksAssumption DEF Offsets, Byte
<1>2. mode = "open"
    BY DEF Commit
<1>3. file_size = Len(file)
    BY <1>2 DEF BytesInv, OpenKnowsBlocks
<1> DEFINE bs == <<v>> \o WordBytes(ver, OffBytes)
           b == [root |-> 0, prev |-> 0, recs |-> << >>,
                 head |-> ver, end |-> file_size + 1 + OffBytes]
<1>4. /\ file' = file \o bs /\ file_size' = file_size + Len(bs)
      /\ blocks' = Append(blocks, b)
      /\ mode' = mode /\ flushed' = Len(file') /\ cur' = ver
    BY DEF Commit, Write
<1>5. b \in HistoryBlock
    <2>1. << >> \in Leaves
        <3>1. 0 \in 0..MaxRecords /\ << >> \in [1..0 -> Record]
            BY <1>1
        <3> QED
            BY <3>1 DEF Leaves
    <2>2. file_size + 1 + OffBytes \in Nat
        BY <1>1, <1>3
    <2> QED
        BY <1>1, <2>1, <2>2 DEF HistoryBlock
<1>6. b.root = 0 /\ b.head = ver /\ b.end = file_size + 1 + OffBytes
    OBVIOUS
<1>7. BlockBytes(b) = bs
    BY <1>6, Zenon DEF BlockBytes
<1> HIDE DEF b, bs
<1>8. /\ Len(BlockBytes(b)) = 1 + OffBytes /\ Len(BlockBytes(b)) \in Nat
      /\ BlockBytes(b) \in Seq(Byte)
    BY <1>5, <1>6, BlockBytesType
<1>9. b.end = Len(file) + Len(BlockBytes(b))
    BY <1>1, <1>3, <1>6, <1>8
<1>10. flushed' \in 0..Len(file')
    <2>1. file \in Seq(Byte)
        BY DEF BytesInv, BlocksType
    <2>2. file' \in Seq(Byte)
        BY <1>4, <1>7, <1>8, <2>1, ConcatProperties
    <2>3. Len(file') \in Nat
        BY <2>2
    <2> QED
        BY <1>4, <2>3
<1> QED
    BY <1>2, <1>4, <1>5, <1>6, <1>7, <1>9, <1>10, BlockWritten

(* A crash leaves a prefix of the file.                                    *)
LEMMA CrashStep ==
    ASSUME BytesInv, Crash
    PROVE  BytesInv'
<1>1. PICK n \in flushed..Len(file) : file' = SubSeq(file, 1, n) /\ flushed' = n
    BY DEF Crash
<1>2. /\ file \in Seq(Byte) /\ Len(file) \in Nat
      /\ flushed \in 0..Len(file) /\ blocks \in Seq(HistoryBlock)
    BY DEF BytesInv, BlocksType
<1>3. /\ mode' = "closed" /\ blocks' = blocks
    BY DEF Crash
<1>4. /\ n \in Nat /\ n <= Len(file)
      /\ file' \in Seq(Byte) /\ Len(file') = n
      /\ \A p \in 1..n : file'[p] = file[p]
    BY <1>1, <1>2
<1>5. \A i : Begin(i)' = Begin(i) /\ HeadBefore(i)' = HeadBefore(i)
    BY <1>3 DEF Begin, HeadBefore
<1>6. BlocksType'
    BY <1>1, <1>2, <1>3, <1>4 DEF BlocksType
<1>7. BlocksFollow'
    BY <1>3, <1>5 DEF BytesInv, BlocksFollow, BlockBytes
<1>8. BlocksInOrder'
    BY <1>3 DEF BytesInv, BlocksInOrder
<1>9. FileIsBlocks'
    <2>1. ASSUME NEW i \in DOMAIN blocks, NEW p \in 1..Len(BlockBytes(blocks[i])),
                 Begin(i) + p <= Len(file')
          PROVE  file'[Begin(i) + p] = BlockBytes(blocks[i])[p]
        <3>1. Begin(i) \in Nat /\ i \in 1..Len(blocks) /\ blocks[i] \in HistoryBlock
            BY BeginType
        <3>2. Len(BlockBytes(blocks[i])) \in Nat
            BY <3>1, BlockBytesType
        <3>3. Begin(i) + p \in 1..n /\ Begin(i) + p <= Len(file)
            BY <1>2, <1>4, <2>1, <3>1, <3>2
        <3>4. file[Begin(i) + p] = BlockBytes(blocks[i])[p]
            BY <3>3 DEF BytesInv, FileIsBlocks
        <3> QED
            BY <1>4, <3>3, <3>4
    <2>2. Len(file') <= Begin(Len(blocks) + 1)
        <3>1. Begin(Len(blocks) + 1) \in Nat
            BY BeginType
        <3>2. Len(file) <= Begin(Len(blocks) + 1)
            BY DEF BytesInv, FileIsBlocks
        <3> QED
            BY <1>2, <1>4, <3>1, <3>2
    <2> QED
        BY <1>3, <1>5, <2>1, <2>2 DEF FileIsBlocks, BlockBytes
<1>10. OpenKnowsBlocks'
    BY <1>3 DEF OpenKnowsBlocks
<1> QED
    BY <1>6, <1>7, <1>8, <1>9, <1>10 DEF BytesInv

(* aodbm_close.                                                            *)
LEMMA CloseStep ==
    ASSUME BytesInv, Close
    PROVE  BytesInv'
<1>1. /\ mode' = "closed" /\ flushed' = Len(file)
      /\ file' = file /\ blocks' = blocks
    BY DEF Close
<1>2. Len(file) \in 0..Len(file)
    BY BeginType
<1>3. \A i : Begin(i)' = Begin(i) /\ HeadBefore(i)' = HeadBefore(i)
    BY <1>1 DEF Begin, HeadBefore
<1>4. BlocksType'
    BY <1>1, <1>2 DEF BytesInv, BlocksType
<1>5. BlocksFollow' /\ BlocksInOrder' /\ FileIsBlocks'
    BY <1>1, <1>3 DEF BytesInv, BlocksFollow, BlocksInOrder, FileIsBlocks, BlockBytes
<1>6. OpenKnowsBlocks'
    BY <1>1 DEF OpenKnowsBlocks
<1> QED
    BY <1>4, <1>5, <1>6 DEF BytesInv

(* aodbm_open: the scan and the truncation.                                *)
LEMMA OpenStep ==
    ASSUME BytesInv, Open
    PROVE  BytesInv'
<1>1. PICK k \in 0..Len(blocks) : Whole(k)
    BY WholeIs
<1>2. /\ Scan.at = Begin(k + 1) /\ Scan.cur = HeadBefore(k + 1)
      /\ Scan.stop = IF Begin(k + 1) = Len(file) THEN "eof" ELSE "torn"
    BY <1>1, ScanFinds
<1>3. PICK n \in Nat : n = Len(blocks)
    BY BeginType
<1>4. /\ DOMAIN blocks = 1..n /\ Len(file) \in Nat /\ file \in Seq(Byte)
      /\ blocks \in Seq(HistoryBlock)
      /\ \A i \in 1..n : blocks[i] \in HistoryBlock
      /\ \A i \in 1..n + 1 : Begin(i) \in Nat
      /\ \A i \in 1..n : Begin(i + 1) = blocks[i].end
    BY <1>3, BeginType DEF BytesInv, BlocksType
<1>5. /\ k \in 0..n /\ k \in Nat /\ k + 1 \in 1..n + 1
      /\ {i \in DOMAIN blocks : blocks[i].end <= Len(file)} = 1..k
      /\ Begin(k + 1) <= Len(file)
    BY <1>1, <1>3 DEF Whole
<1>6. PICK end \in Nat : end = Begin(k + 1)
    BY <1>4, <1>5
<1>7. PICK head : head = HeadBefore(k + 1)
    OBVIOUS
<1>8. /\ mode' = "open" /\ flushed' = Len(file') /\ file_size' = end /\ cur' = head
      /\ file' = IF Scan.stop = "torn" THEN SubSeq(file, 1, Scan.at) ELSE file
      /\ blocks' = [i \in 1..k |-> blocks[i]]
    BY <1>2, <1>5, <1>6, <1>7 DEF Open, Restrict
<1>9. /\ file' \in Seq(Byte) /\ Len(file') = end
      /\ \A p \in 1..end : file'[p] = file[p]
    <2>1. CASE end = Len(file)
        BY <1>2, <1>4, <1>6, <1>8, <2>1
    <2>2. CASE end # Len(file)
        <3>1. file' = SubSeq(file, 1, end) /\ end \in 0..Len(file)
            BY <1>2, <1>4, <1>5, <1>6, <1>8, <2>2
        <3> QED
            BY <1>4, <3>1
    <2> QED
        BY <2>1, <2>2
<1>10. /\ blocks' \in Seq(HistoryBlock) /\ Len(blocks') = k /\ DOMAIN blocks' = 1..k
       /\ \A i \in 1..k : i \in 1..n /\ blocks'[i] = blocks[i]
    <2>1. \A i \in 1..k : i \in 1..n
        BY <1>5
    <2>2. blocks' \in [1..k -> HistoryBlock]
        BY <1>4, <1>8, <2>1
    <2> QED
        BY <1>5, <1>8, <2>1, <2>2
<1>11. \A i \in 1..k + 1 : Begin(i)' = Begin(i) /\ HeadBefore(i)' = HeadBefore(i)
    <2> TAKE i \in 1..k + 1
    <2>1. i = 1 \/ i - 1 \in 1..k
        BY <1>5
    <2>2. i = 1 \/ blocks'[i - 1] = blocks[i - 1]
        BY <1>10, <2>1
    <2> QED
        BY <2>2 DEF Begin, HeadBefore
<1>12. BlocksType'
    <2>1. Len(file') \in 0..Len(file')
        BY <1>9
    <2> QED
        BY <1>8, <1>9, <1>10, <2>1 DEF BlocksType
<1>13. BlocksFollow'
    <2> SUFFICES ASSUME NEW i \in 1..k
                 PROVE  /\ blocks'[i].end = Begin(i)' + Len(BlockBytes(blocks'[i]))
                        /\ blocks'[i].root # 0 => /\ blocks'[i].root = Begin(i)' + 1 + SizeBytes
                                                  /\ blocks'[i].head = HeadBefore(i)'
        BY <1>10 DEF BlocksFollow, BlockBytes
    <2>1. i \in 1..k + 1 /\ i \in DOMAIN blocks
        BY <1>4, <1>5, <1>10
    <2> QED
        BY <1>10, <1>11, <2>1 DEF BytesInv, BlocksFollow
<1>14. BlocksInOrder'
    BY <1>4, <1>10 DEF BytesInv, BlocksInOrder
<1>15. FileIsBlocks'
    <2>1. ASSUME NEW i \in 1..k, NEW p \in 1..Len(BlockBytes(blocks[i])),
                 Begin(i) + p <= end
          PROVE  file'[Begin(i) + p] = BlockBytes(blocks[i])[p]
        <3>1. Begin(i) \in Nat /\ i \in 1..n /\ blocks[i] \in HistoryBlock
            BY <1>4, <1>5, <1>10
        <3>2. Len(BlockBytes(blocks[i])) \in Nat
            BY <3>1, BlockBytesType
        <3>3. Begin(i) + p \in 1..end /\ Begin(i) + p <= Len(file)
            <4>1. end <= Len(file)
                BY <1>5, <1>6
            <4>2. p \in Nat /\ p >= 1 /\ Begin(i) + p <= end
                BY <2>1, <3>2
            <4>3. PICK x \in Nat : x = Begin(i)
                BY <3>1
            <4>4. x + p <= end
                BY <4>2, <4>3
            <4>5. x + p \in 1..end /\ x + p <= Len(file)
                BY <1>4, <4>1, <4>2, <4>4
            <4> QED
                BY <4>3, <4>5
        <3>4. file[Begin(i) + p] = BlockBytes(blocks[i])[p]
            BY <1>4, <3>1, <3>3 DEF BytesInv, FileIsBlocks
        <3> QED
            BY <1>9, <3>3, <3>4
    <2>2. Len(file') <= Begin(k + 1)'
        <3>1. k + 1 \in 1..k + 1
            BY <1>5
        <3> QED
            BY <1>6, <1>9, <1>11, <3>1
    <2>3. \A i \in 1..k : i \in 1..k + 1 /\ Begin(i)' = Begin(i) /\ blocks'[i] = blocks[i]
        BY <1>5, <1>10, <1>11
    <2>4. Len(file') <= Begin(Len(blocks) + 1)'
        <3>1. Begin(Len(blocks) + 1)' = Begin(k + 1)'
            BY <1>10, Zenon DEF Begin
        <3> QED
            BY <2>2, <3>1
    <2>5. \A i \in DOMAIN blocks' : \A p \in 1..Len(BlockBytes(blocks'[i])) :
              Begin(i)' + p <= Len(file') => file'[Begin(i)' + p] = BlockBytes(blocks'[i])[p]
        BY <1>9, <1>10, <2>1, <2>3
    <2> QED
        BY <2>4, <2>5 DEF FileIsBlocks, BlockBytes
<1>16. OpenKnowsBlocks'
    <2>1. /\ Begin(Len(blocks) + 1)' = Begin(k + 1)'
          /\ HeadBefore(Len(blocks) + 1)' = HeadBefore(k + 1)'
        BY <1>10, Zenon DEF Begin, HeadBefore
    <2>2. k + 1 \in 1..k + 1
        BY <1>5
    <2>3. Begin(k + 1)' = end /\ HeadBefore(k + 1)' = head
        BY <1>6, <1>7, <1>11, <2>2
    <2> QED
        BY <1>8, <1>9, <2>1, <2>3, Zenon DEF OpenKnowsBlocks
<1> QED
    BY <1>12, <1>13, <1>14, <1>15, <1>16 DEF BytesInv

-----------------------------------------------------------------------------
(* Every state.                                                            *)

(* The invariant holds whatever is written, wherever a crash cuts the file *)
(* and however often it is opened again.                                   *)
THEOREM BytesInvInvariant == BlocksSpec => []BytesInv
<1>1. BlocksInit => BytesInv
    <2> SUFFICES ASSUME BlocksInit
                 PROVE  BytesInv
        OBVIOUS
    <2>1. /\ mode = "closed" /\ file = << >> /\ flushed = 0 /\ blocks = << >>
          /\ Len(file) = 0 /\ Len(blocks) = 0 /\ DOMAIN blocks = {}
        BY DEF BlocksInit
    <2>2. BlocksType
        BY <2>1 DEF BlocksType
    <2>3. BlocksFollow /\ BlocksInOrder /\ OpenKnowsBlocks
        BY <2>1 DEF BlocksFollow, BlocksInOrder, OpenKnowsBlocks
    <2>4. FileIsBlocks
        BY <2>1 DEF FileIsBlocks, Begin
    <2> QED
        BY <2>2, <2>3, <2>4 DEF BytesInv
<1>2. BytesInv /\ [BlocksNext]_blocksVars => BytesInv'
    <2> SUFFICES ASSUME BytesInv, [BlocksNext]_blocksVars
                 PROVE  BytesInv'
        OBVIOUS
    <2>1. ASSUME NEW ver \in Versions, Commit(ver)
          PROVE  BytesInv'
        BY <2>1, CommitStep
    <2>2. ASSUME NEW prev \in Versions, NEW n \in 0..MaxRecords,
                 NEW recs \in [1..n -> Record], Set(prev, recs)
          PROVE  BytesInv'
        <3>1. recs \in Leaves
            BY DEF Leaves
        <3> QED
            BY <2>2, <3>1, SetStep
    <2>3. CASE Close
        BY <2>3, CloseStep
    <2>4. CASE Crash
        BY <2>4, CrashStep
    <2>5. CASE Open
        BY <2>5, OpenStep
    <2>6. CASE UNCHANGED blocksVars
        <3>1. \A i : Begin(i)' = Begin(i) /\ HeadBefore(i)' = HeadBefore(i)
            BY <2>6 DEF blocksVars, Begin, HeadBefore
        <3> QED
            BY <2>6, <3>1 DEF blocksVars, BytesInv, BlocksType, BlocksFollow, BlocksInOrder,
                              FileIsBlocks, OpenKnowsBlocks, BlockBytes
    <2> QED
        BY <2>1, <2>2, <2>3, <2>4, <2>5, <2>6 DEF BlocksNext
<1> QED
    BY <1>1, <1>2, PTL DEF BlocksSpec

(* Whatever the constants are, opening a file that was cut anywhere finds  *)
(* the blocks that are whole and the head among them.                      *)
THEOREM ScanRight == BlocksSpec => []ScanFindsBlocks
<1>1. BytesInv => ScanFindsBlocks
    <2> SUFFICES ASSUME BytesInv
                 PROVE  ScanFindsBlocks
        OBVIOUS
    <2>1. mode \in {"open", "closed"} /\ blocks \in Seq(HistoryBlock)
        BY DEF BytesInv, BlocksType
    <2> SUFFICES ASSUME mode = "open"
                 PROVE  /\ Len(file) = file_size
                        /\ IF blocks = << >> THEN file_size = 0 /\ cur = 0
                           ELSE file_size = Last(blocks).end /\ cur = Last(blocks).head
        BY <2>1 DEF ScanFindsBlocks
    <2>2. /\ Len(file) = Begin(Len(blocks) + 1)
          /\ file_size = Len(file)
          /\ cur = HeadBefore(Len(blocks) + 1)
        BY DEF BytesInv, OpenKnowsBlocks
    <2>3. CASE blocks = << >>
        <3>1. Len(blocks) + 1 = 1
            BY <2>3
        <3>2. Begin(Len(blocks) + 1) = 0 /\ HeadBefore(Len(blocks) + 1) = 0
            BY <3>1 DEF Begin, HeadBefore
        <3> QED
            BY <2>2, <2>3, <3>2
    <2>4. CASE blocks # << >>
        <3>1. Len(blocks) \in 1..Len(blocks)
            BY <2>1, <2>4
        <3>2. /\ Begin(Len(blocks) + 1) = blocks[Len(blocks)].end
              /\ HeadBefore(Len(blocks) + 1) = blocks[Len(blocks)].head
            BY <3>1, BeginType
        <3>3. Last(blocks) = blocks[Len(blocks)]
            BY DEF Last
        <3> QED
            BY <2>2, <2>4, <3>2, <3>3
    <2> QED
        BY <2>3, <2>4
<1> QED
    BY <1>1, BytesInvInvariant, PTL

(* Whatever the constants are, every version of an open database reads     *)
(* back as it was stored.                                                  *)
THEOREM ReadBackRight == BlocksSpec => []VersionsReadBack
<1>1. BytesInv => VersionsReadBack
    <2> SUFFICES ASSUME BytesInv, mode = "open", NEW i \in DOMAIN blocks, blocks[i].root # 0
                 PROVE  /\ Leaf(blocks[i].root) = blocks[i].recs
                        /\ Word(Bytes(blocks[i].root, OffBytes)) = blocks[i].prev
        BY DEF VersionsReadBack
    <2> DEFINE b == blocks[i]
    <2>1. /\ Len(blocks) \in Nat /\ i \in 1..Len(blocks) /\ i \in Nat
          /\ b \in HistoryBlock /\ Len(file) \in Nat /\ Begin(i) \in Nat
          /\ SizeBytes \in Nat /\ file \in Seq(Byte)
        BY BeginType, BlocksAssumption DEF BytesInv, BlocksType, Byte
    <2>2. b.end <= Len(file)
        <3>1. Len(blocks) \in 1..Len(blocks)
            BY <2>1
        <3>2. Len(file) = blocks[Len(blocks)].end
            BY <3>1, BeginType DEF BytesInv, OpenKnowsBlocks
        <3>3. i = Len(blocks) \/ b.end < blocks[Len(blocks)].end
            <4>1. i = Len(blocks) \/ i < Len(blocks)
                BY <2>1
            <4> QED
                BY <2>1, <3>1, <4>1, BeginType DEF BytesInv, BlocksInOrder
        <3>4. b.end \in Nat
            BY <2>1 DEF HistoryBlock
        <3> QED
            BY <2>1, <3>2, <3>3, <3>4
    <2>3. Holds(Begin(i), BlockBytes(b))
        BY <2>1, <2>2, FileHolds
    <2>4. b.root # 0 /\ b.root = Begin(i) + 1 + SizeBytes
        BY DEF BytesInv, BlocksFollow
    <2> HIDE DEF b
    <2>5. /\ b.root \in Nat /\ b.prev \in Nat /\ b.prev < Room(OffBytes) /\ b.recs \in Leaves
        BY <2>1 DEF HistoryBlock, Offsets
    <2> DEFINE dat == RootBytes(b.prev, b.recs)
               word == WordBytes(Len(dat), SizeBytes)
    <2>6. BlockBytes(b) = <<d>> \o Block(dat) /\ Block(dat) = word \o dat
        BY <2>4 DEF BlockBytes, Block
    <2>7. dat \in Seq(Byte) /\ Len(dat) \in Nat
        BY <2>5, RootBytesType
    <2> HIDE DEF dat
    <2>8. word \in Seq(Byte) /\ Len(word) = SizeBytes
        BY <2>1, <2>7, WordBytesType
    <2>9. <<d>> \in Seq(Byte) /\ Len(<<d>>) = 1 /\ Block(dat) \in Seq(Byte)
        BY <2>7, BlockType DEF d, Byte
    <2>10. Holds(Begin(i) + 1, Block(dat))
        BY <2>1, <2>3, <2>6, <2>9, HoldsBoth
    <2> HIDE DEF word
    <2>11. Begin(i) + 1 \in Nat
        BY <2>1
    <2>12. Holds(Begin(i) + 1 + SizeBytes, dat)
        BY <2>1, <2>6, <2>7, <2>8, <2>10, <2>11, HoldsBoth
    <2>13. Holds(b.root, RootBytes(b.prev, b.recs))
        BY <2>4, <2>12 DEF dat
    <2>14. Leaf(b.root) = b.recs /\ Word(Bytes(b.root, OffBytes)) = b.prev
        BY <2>1, <2>5, <2>13, RootReadsBack
    <2> QED
        BY <2>14 DEF b
<1> QED
    BY <1>1, BytesInvInvariant, PTL

-----------------------------------------------------------------------------
(* Strings.                                                                *)

(* One more than two chars can differ by.                                  *)
LEMMA DigitsIs ==
    Digits \in Nat /\ \A c, e \in Char : c \in Int /\ e \in Int /\ c - e < Digits
<1>1. PICK lo, hi \in Char : Char \subseteq Int /\ \A c \in Char : lo <= c /\ c <= hi
    BY CharAssumption
<1> DEFINE D == {c - e : c, e \in Char}
           Widest(n) == n \in D /\ \A c, e \in Char : c - e <= n
           w == CHOOSE n \in D : \A c, e \in Char : c - e <= n
<1>2. Widest(hi - lo)
    <2>1. hi \in Char /\ lo \in Char
        BY <1>1
    <2>2. hi - lo \in D
        BY <2>1
    <2>3. \A c, e \in Char : c - e <= hi - lo
        BY <1>1
    <2> QED
        BY <2>2, <2>3
<1>3. Widest(w)
    <2> DEFINE wide(n) == \A c, e \in Char : c - e <= n
    <2>1. hi - lo \in D /\ wide(hi - lo)
        BY <1>2
    <2>2. w = CHOOSE n \in D : wide(n)
        OBVIOUS
    <2> HIDE DEF w, D, wide
    <2>3. w \in D /\ wide(w)
        BY <2>1, <2>2, Zenon
    <2> QED
        BY <2>3 DEF D, wide
<1>4. D \subseteq Int
    BY <1>1
<1>5. Digits = 1 + w
    BY DEF Digits
<1> HIDE DEF w
<1>6. w \in Int /\ \A c, e \in Char : c - e <= w
    BY <1>3, <1>4
<1>7. \A c, e \in Char : c \in Int /\ e \in Int
    BY <1>1
<1>8. w >= 0
    <2>1. lo \in Char /\ lo - lo = 0
        BY <1>1
    <2> QED
        BY <1>6, <2>1
<1> QED
    BY <1>5, <1>6, <1>7, <1>8

-----------------------------------------------------------------------------
(* The number a string is.                                                 *)

(* f is the number of each prefix of a of at most n chars.                 *)
Sums(a, n, f) ==
    f = [p \in 0..n |-> IF p = 0 THEN 0 ELSE Digits * f[p - 1] + a[p]]

(* There is one such function, and it gives the number.                    *)
LEMMA NumberIs ==
    ASSUME NEW a \in Seq(Char)
    PROVE  \E f : Sums(a, Len(a), f) /\ Number(a) = f[Len(a)]
<1>1. Len(a) \in Nat
    OBVIOUS
<1> DEFINE Some(n) == \E f : Sums(a, n, f)
           bad == {n \in Nat : ~Some(n)}
<1>2. Some(Len(a))
    <2>1. SUFFICES ASSUME bad # {}
                   PROVE  FALSE
        BY <1>1
    <2>2. PICK m \in bad : \A n \in bad : m <= n
        <3>1. bad \subseteq Nat
            OBVIOUS
        <3> HIDE DEF bad
        <3> QED
            BY <2>1, <3>1, LeastNat
    <2>3. m # 0
        <3> DEFINE f == [p \in 0..0 |-> 0]
        <3>1. Sums(a, 0, f)
            BY DEF Sums
        <3> QED
            BY <3>1
    <2>4. m - 1 \in Nat /\ m \in Nat /\ Some(m - 1)
        BY <2>2, <2>3
    <2>5. PICK f : Sums(a, m - 1, f)
        BY <2>4
    <2> DEFINE g == [p \in 0..m |-> IF p = m THEN Digits * f[m - 1] + a[m] ELSE f[p]]
    <2>6. \A p \in 0..m : p # m => p \in 0..m - 1 /\ (p # 0 => p - 1 \in 0..m - 1)
        BY <2>4
    <2>7. \A p \in 0..m - 1 : f[p] = IF p = 0 THEN 0 ELSE Digits * f[p - 1] + a[p]
        BY <2>5 DEF Sums
    <2>8. \A p \in 0..m : p # 0 => p - 1 \in 0..m /\ p - 1 # m /\ g[p - 1] = f[p - 1]
        BY <2>4
    <2>9. \A p \in 0..m : g[p] = IF p = 0 THEN 0 ELSE Digits * g[p - 1] + a[p]
        BY <2>3, <2>4, <2>6, <2>7, <2>8
    <2>10. Sums(a, m, g)
        BY <2>9 DEF Sums
    <2> QED
        BY <2>2, <2>10
<1> DEFINE u == CHOOSE f : Sums(a, Len(a), f)
<1>3. Sums(a, Len(a), u)
    BY <1>2, Zenon
<1>4. Number(a) = u[Len(a)]
    BY Zenon DEF Number, Sums
<1> QED
    BY <1>3, <1>4

(* Their values.                                                           *)
LEMMA PrefixesType ==
    ASSUME NEW a \in Seq(Char), NEW f, Sums(a, Len(a), f)
    PROVE  /\ \A p \in 0..Len(a) : f[p] \in Int
           /\ f[0] = 0
           /\ \A p \in 1..Len(a) : f[p] = Digits * f[p - 1] + a[p]
<1>1. Len(a) \in Nat /\ \A p \in 1..Len(a) : a[p] \in Char
    OBVIOUS
<1>2. f[0] = 0 /\ \A p \in 1..Len(a) : f[p] = Digits * f[p - 1] + a[p]
    <2>1. \A p \in 0..Len(a) : f[p] = IF p = 0 THEN 0 ELSE Digits * f[p - 1] + a[p]
        BY DEF Sums
    <2> QED
        BY <1>1, <2>1
<1>3. \A p \in 0..Len(a) : f[p] \in Int
    <2> DEFINE bad == {p \in 0..Len(a) : f[p] \notin Int}
    <2>1. SUFFICES ASSUME bad # {}
                   PROVE  FALSE
        OBVIOUS
    <2>2. PICK m \in bad : \A n \in bad : m <= n
        <3>1. bad \subseteq Nat
            BY <1>1
        <3> HIDE DEF bad
        <3> QED
            BY <2>1, <3>1, LeastNat
    <2>3. m # 0
        BY <1>2, <2>2
    <2>4. m \in 1..Len(a) /\ m - 1 \in 0..Len(a)
        BY <1>1, <2>2, <2>3
    <2>5. f[m - 1] \in Int
        BY <1>1, <2>2, <2>4
    <2>6. a[m] \in Int /\ Digits \in Int
        BY <1>1, <2>4, DigitsIs
    <2> QED
        BY <1>2, <2>2, <2>4, <2>5, <2>6
<1> QED
    BY <1>2, <1>3

(* A smaller number times the digits, with any digit, stays smaller.       *)
LEMMA DigitsKeep ==
    ASSUME NEW n \in Nat, NEW x \in Int, NEW y \in Int, x < y,
           NEW b \in Int, NEW c \in Int, b - c < n
    PROVE  n * x + b < n * y + c
<1>1. n * x + n = n * (x + 1)
    OBVIOUS
<1>2. x + 1 <= y
    OBVIOUS
<1>3. n * (x + 1) <= n * y
    BY <1>2
<1>4. n * x \in Int /\ n * y \in Int
    OBVIOUS
<1> QED
    BY <1>1, <1>3, <1>4

(* Of two strings that are as long, the one with the smaller char where    *)
(* they first differ is the smaller number.                                *)
LEMMA FirstDecides ==
    ASSUME NEW a \in Seq(Char), NEW b \in Seq(Char), Len(a) = Len(b),
           NEW p \in 1..Len(a), a[p] < b[p], \A q \in 1..p - 1 : a[q] = b[q]
    PROVE  Number(a) < Number(b)
<1>1. PICK f : Sums(a, Len(a), f) /\ Number(a) = f[Len(a)]
    BY NumberIs
<1>2. PICK g : Sums(b, Len(b), g) /\ Number(b) = g[Len(b)]
    BY NumberIs
<1> DEFINE n == Len(a)
<1>3. /\ n \in Nat /\ p \in Nat /\ p >= 1 /\ p <= n
      /\ \A q \in 1..n : a[q] \in Char /\ b[q] \in Char
    OBVIOUS
<1>4. /\ \A q \in 0..n : f[q] \in Int /\ g[q] \in Int
      /\ f[0] = 0 /\ g[0] = 0
      /\ \A q \in 1..n : /\ f[q] = Digits * f[q - 1] + a[q]
                        /\ g[q] = Digits * g[q - 1] + b[q]
    BY <1>1, <1>2, PrefixesType
<1>5. Digits \in Nat /\ \A c, e \in Char : c \in Int /\ e \in Int /\ c - e < Digits
    BY DigitsIs
<1> HIDE DEF n
<1>6. \A q \in 0..p - 1 : f[q] = g[q]
    <2> DEFINE bad == {q \in 0..p - 1 : f[q] # g[q]}
    <2>1. SUFFICES ASSUME bad # {}
                   PROVE  FALSE
        OBVIOUS
    <2>2. PICK m \in bad : \A k \in bad : m <= k
        <3>1. bad \subseteq Nat
            BY <1>3
        <3> HIDE DEF bad
        <3> QED
            BY <2>1, <3>1, LeastNat
    <2>3. m # 0
        BY <1>4, <2>2
    <2>4. m \in 1..n /\ m \in 1..p - 1 /\ m - 1 \in 0..p - 1 /\ m \in Nat
        BY <1>3, <2>2, <2>3
    <2>5. f[m - 1] = g[m - 1]
        BY <2>2, <2>4
    <2> QED
        BY <1>4, <2>2, <2>4, <2>5
<1>7. \A q \in p..n : f[q] < g[q]
    <2> DEFINE bad == {q \in p..n : ~(f[q] < g[q])}
    <2>1. SUFFICES ASSUME bad # {}
                   PROVE  FALSE
        OBVIOUS
    <2>2. PICK m \in bad : \A k \in bad : m <= k
        <3>1. bad \subseteq Nat
            BY <1>3
        <3> HIDE DEF bad
        <3> QED
            BY <2>1, <3>1, LeastNat
    <2>3. /\ m \in 1..n /\ m \in Nat /\ m >= p /\ m - 1 \in 0..n
          /\ f[m - 1] \in Int /\ g[m - 1] \in Int
          /\ a[m] \in Char /\ b[m] \in Char
        BY <1>3, <1>4, <2>2
    <2>4. f[m] = Digits * f[m - 1] + a[m] /\ g[m] = Digits * g[m - 1] + b[m]
        BY <1>4, <2>3
    <2>5. a[m] \in Int /\ b[m] \in Int /\ a[m] - b[m] < Digits
        BY <1>5, <2>3
    <2>6. CASE m = p
        <3>1. m - 1 \in 0..p - 1
            BY <1>3, <2>3, <2>6
        <3>2. f[m - 1] = g[m - 1]
            BY <1>6, <3>1
        <3>3. Digits * f[m - 1] \in Int
            <4>1. Digits \in Int
                BY <1>5
            <4> QED
                BY <2>3, <4>1
        <3>4. f[m] < g[m]
            BY <2>4, <2>5, <2>6, <3>2, <3>3
        <3> QED
            BY <2>2, <3>4
    <2>7. CASE m # p
        <3>1. m - 1 \in p..n /\ m - 1 < m
            BY <1>3, <2>3, <2>7
        <3>2. f[m - 1] < g[m - 1]
            BY <1>3, <2>2, <2>3, <3>1
        <3>3. f[m] < g[m]
            BY <1>5, <2>3, <2>4, <2>5, <3>2, DigitsKeep
        <3> QED
            BY <2>2, <3>3
    <2> QED
        BY <2>6, <2>7
<1>8. n \in p..n
    BY <1>3
<1> QED
    BY <1>1, <1>2, <1>7, <1>8 DEF n

-----------------------------------------------------------------------------
(* The comparisons.                                                        *)

(* Two strings that are as long and not the same differ somewhere first.   *)
LEMMA FirstDifference ==
    ASSUME NEW a \in Seq(Char), NEW b \in Seq(Char), Len(a) = Len(b), a # b
    PROVE  \E p \in 1..Len(a) : /\ a[p] < b[p] \/ b[p] < a[p]
                                /\ \A q \in 1..p - 1 : a[q] = b[q]
<1> DEFINE bad == {p \in 1..Len(a) : a[p] # b[p]}
<1>1. Len(a) \in Nat /\ \A p \in 1..Len(a) : a[p] \in Char /\ b[p] \in Char
    OBVIOUS
<1>2. bad # {}
    OBVIOUS
<1>3. bad \subseteq Nat
    BY <1>1
<1>4. PICK m \in bad : \A n \in bad : m <= n
    <2> HIDE DEF bad
    <2> QED
        BY <1>2, <1>3, LeastNat
<1>5. a[m] \in Int /\ b[m] \in Int
    BY <1>1, <1>4, DigitsIs
<1>6. \A q \in 1..m - 1 : q \in 1..Len(a) /\ ~(m <= q)
    BY <1>1, <1>4
<1>7. \A q \in 1..m - 1 : a[q] = b[q]
    BY <1>4, <1>6
<1>8. a[m] < b[m] \/ b[m] < a[m]
    BY <1>4, <1>5
<1> QED
    BY <1>4, <1>7, <1>8

(* Of two strings that are as long, the one that is less is the smaller    *)
(* number.                                                                 *)
LEMMA LtNumber ==
    ASSUME NEW a \in Seq(Char), NEW b \in Seq(Char), Len(a) = Len(b), Lt(a, b)
    PROVE  Number(a) < Number(b)
<1>1. Len(a) \in Nat /\ Len(b) \in Nat
    OBVIOUS
<1>2. PICK p \in 1..Len(a) : a[p] < b[p] /\ \A q \in 1..p - 1 : a[q] = b[q]
    BY <1>1 DEF Lt
<1> QED
    BY <1>2, FirstDecides

(* The order of the README.                                                *)
Less(a, b) == \/ Len(a) < Len(b)
              \/ Len(a) = Len(b) /\ Number(a) < Number(b)

(* aodbm_data_lt is that order, and of two strings that are not the same   *)
(* one is less and the other is not.                                       *)
LEMMA LtIsLess ==
    ASSUME NEW a \in Seq(Char), NEW b \in Seq(Char)
    PROVE  /\ Lt(a, b) <=> Less(a, b)
           /\ Lt(a, b) => a # b /\ ~Lt(b, a)
           /\ a # b => Lt(a, b) \/ Lt(b, a)
<1>1. Len(a) \in Nat /\ Len(b) \in Nat
    OBVIOUS
<1>2. Number(a) \in Int /\ Number(b) \in Int
    <2>1. ASSUME NEW c \in Seq(Char)
          PROVE  Number(c) \in Int
        <3>1. PICK f : Sums(c, Len(c), f) /\ Number(c) = f[Len(c)]
            BY NumberIs
        <3>2. Len(c) \in 0..Len(c)
            OBVIOUS
        <3> QED
            BY <3>1, <3>2, PrefixesType
    <2> QED
        BY <2>1
<1>3. CASE Len(a) # Len(b)
    BY <1>1, <1>3 DEF Lt, Less
<1>4. CASE Len(a) = Len(b) /\ a = b
    <2>1. ~Less(a, b)
        BY <1>1, <1>2, <1>4 DEF Less
    <2>2. \A p \in 1..Len(a) : ~(a[p] < b[p])
        <3>1. \A p \in 1..Len(a) : a[p] \in Char
            OBVIOUS
        <3> QED
            BY <1>4, <3>1, DigitsIs
    <2>3. ~Lt(a, b)
        BY <1>1, <1>4, <2>2 DEF Lt
    <2> QED
        BY <1>4, <2>1, <2>3
<1>5. CASE Len(a) = Len(b) /\ a # b
    <2>1. PICK p \in 1..Len(a) : /\ a[p] < b[p] \/ b[p] < a[p]
                                 /\ \A q \in 1..p - 1 : a[q] = b[q]
        BY <1>5, FirstDifference
    <2>2. CASE a[p] < b[p]
        <3>1. Lt(a, b)
            BY <1>5, <2>1, <2>2 DEF Lt
        <3>2. Number(a) < Number(b)
            BY <1>5, <2>1, <2>2, FirstDecides
        <3>3. Less(a, b)
            BY <1>5, <3>2 DEF Less
        <3>4. ~Lt(b, a)
            BY <1>1, <1>2, <1>5, <3>2, LtNumber
        <3> QED
            BY <1>5, <3>1, <3>3, <3>4
    <2>3. CASE b[p] < a[p]
        <3>1. Lt(b, a)
            BY <1>5, <2>1, <2>3 DEF Lt
        <3>2. Number(b) < Number(a)
            BY <1>5, <2>1, <2>3, FirstDecides
        <3>3. ~Less(a, b)
            BY <1>1, <1>2, <1>5, <3>2 DEF Less
        <3>4. ~Lt(a, b)
            BY <1>1, <1>2, <1>5, <3>2, LtNumber
        <3> QED
            BY <1>5, <3>1, <3>3, <3>4
    <2> QED
        BY <2>1, <2>2, <2>3
<1> QED
    BY <1>3, <1>4, <1>5

-----------------------------------------------------------------------------
(* Every state.                                                            *)

(* The variables of a caller hold strings of chars.                        *)
VariablesHoldStrings == data \in [Reg -> Seq(Char)]

(* Every call leaves them strings of chars.                                *)
LEMMA VariablesInvariant == DataSpec => []VariablesHoldStrings
<1>1. DataInit => VariablesHoldStrings
    BY DEF DataInit, VariablesHoldStrings
<1>2. VariablesHoldStrings /\ [DataNext]_data => VariablesHoldStrings'
    <2> SUFFICES ASSUME VariablesHoldStrings, [DataNext]_data
                 PROVE  VariablesHoldStrings'
        OBVIOUS
    <2> USE DEF VariablesHoldStrings
    <2>1. ASSUME NEW r \in Reg, NEW c \in Char, Construct(r, c)
          PROVE  VariablesHoldStrings'
        BY <2>1 DEF Construct
    <2>2. ASSUME NEW r \in Reg, Empty(r)
          PROVE  VariablesHoldStrings'
        BY <2>2 DEF Empty
    <2>3. ASSUME NEW r \in Reg, NEW s \in Reg, Dup(r, s)
          PROVE  VariablesHoldStrings'
        BY <2>3 DEF Dup
    <2>4. ASSUME NEW r \in Reg, NEW s \in Reg, NEW t \in Reg, Cat(r, s, t)
          PROVE  VariablesHoldStrings'
        <3>1. data[s] \o data[t] \in Seq(Char)
            OBVIOUS
        <3> QED
            BY <2>4, <3>1 DEF Cat
    <2>5. CASE UNCHANGED data
        BY <2>5
    <2> QED
        BY <2>1, <2>2, <2>3, <2>4, <2>5 DEF DataNext
<1> QED
    BY <1>1, <1>2, PTL DEF DataSpec

(* Two integers whose sum is 0 are negatives of each other.                *)
LEMMA Opposite ==
    ASSUME NEW x \in Int, NEW y \in Int, x + y = 0
    PROVE  x = -y
OBVIOUS

(* The comparisons of two strings, as ReadmeOrder states them.             *)
LEMMA OrderOfTwo ==
    ASSUME NEW a \in Seq(Char), NEW b \in Seq(Char)
    PROVE  /\ Lt(a, b) <=> Less(a, b)
           /\ Eq(a, b) <=> a = b
           /\ Cmp(a, b) < 0 <=> Less(a, b)
           /\ Cmp(a, b) <= 0 <=> Le(a, b)
           /\ Cmp(a, b) >= 0 <=> Ge(a, b)
           /\ Cmp(a, b) = -Cmp(b, a)
<1>1. Eq(a, b) <=> a = b
    BY DEF Eq
<1>2. Eq(b, a) <=> a = b
    BY DEF Eq
<1>3. /\ Lt(a, b) <=> Less(a, b)
      /\ Lt(a, b) => a # b /\ ~Lt(b, a)
      /\ a # b => Lt(a, b) \/ Lt(b, a)
    BY LtIsLess
<1>4. Lt(b, a) => a # b
    BY LtIsLess
<1>5. CASE a = b
    <2>1. Cmp(a, b) = 0 /\ Cmp(b, a) = 0
        BY <1>1, <1>2, <1>5 DEF Cmp
    <2>2. ~Lt(a, b) /\ ~Lt(b, a)
        BY <1>3, <1>4, <1>5
    <2>3. Eq(a, b) /\ ~Less(a, b) /\ Le(a, b) /\ Ge(a, b)
        BY <1>1, <1>3, <1>5, <2>2 DEF Le, Ge, Gt
    <2>4. Cmp(a, b) <= 0 /\ Cmp(a, b) >= 0 /\ ~(Cmp(a, b) < 0)
        BY <2>1
    <2>5. /\ Cmp(a, b) \in Int /\ Cmp(b, a) \in Int
         /\ Cmp(a, b) + Cmp(b, a) = 0
        BY <2>1
    <2>6. Cmp(a, b) = -Cmp(b, a)
        BY <2>5, Opposite
    <2> QED
        BY <1>5, <2>2, <2>3, <2>4, <2>6
<1>6. CASE Lt(a, b)
    <2>1. ~Lt(b, a) /\ a # b
        BY <1>3, <1>6
    <2>2. Cmp(a, b) = -1 /\ Cmp(b, a) = 1
        BY <1>1, <1>2, <1>6, <2>1 DEF Cmp
    <2> QED
        <3>1. Less(a, b) /\ ~Eq(a, b)
            BY <1>1, <1>3, <1>6
        <3>2. Le(a, b) /\ ~Ge(a, b)
            BY <1>6, <2>1 DEF Le, Ge, Gt
        <3> QED
            BY <1>6, <2>1, <2>2, <3>1, <3>2
<1>7. CASE Lt(b, a)
    <2>1. ~Lt(a, b) /\ a # b
        BY <1>3, <1>4, <1>7
    <2>2. Cmp(a, b) = 1 /\ Cmp(b, a) = -1
        BY <1>1, <1>2, <1>7, <2>1 DEF Cmp
    <2> QED
        <3>1. ~Less(a, b) /\ ~Eq(a, b)
            BY <1>1, <1>3, <2>1
        <3>2. ~Le(a, b) /\ Ge(a, b)
            BY <1>7, <2>1 DEF Le, Ge, Gt
        <3>3. /\ Cmp(a, b) \in Int /\ Cmp(b, a) \in Int
             /\ Cmp(a, b) + Cmp(b, a) = 0
            BY <2>2
        <3>4. Cmp(a, b) = -Cmp(b, a)
            BY <3>3, Opposite
        <3>5. Cmp(a, b) >= 0 /\ ~(Cmp(a, b) <= 0) /\ ~(Cmp(a, b) < 0)
            BY <2>2
        <3> QED
            BY <2>1, <3>1, <3>2, <3>4, <3>5, Zenon
<1> QED
    BY <1>3, <1>5, <1>6, <1>7

(* For chars of any range the comparisons are the order the README gives:  *)
(* shorter strings first, and strings of a length like the numbers whose   *)
(* digits they are, which is total and strict.                             *)
THEOREM OrderRight == DataSpec => []ReadmeOrder
<1>1. VariablesHoldStrings => ReadmeOrder
    <2> SUFFICES ASSUME VariablesHoldStrings
                 PROVE  ReadmeOrder
        OBVIOUS
    <2>1. \A r \in Reg : data[r] \in Seq(Char)
        BY DEF VariablesHoldStrings
    <2> QED
        BY <2>1, OrderOfTwo, Zenon DEF ReadmeOrder, Less
<1> QED
    BY <1>1, VariablesInvariant, PTL
=============================================================================
