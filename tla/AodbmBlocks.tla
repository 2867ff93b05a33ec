------------------------------ MODULE AodbmBlocks ------------------------------
(***************************************************************************)
(* The database file byte by byte: what is written for a version whose     *)
(* tree is one leaf and for a commit, a crash that keeps any number of the *)
(* bytes, and how aodbm_open and aodbm_get find their way through them.    *)
(* Keys and values may hold any bytes, those that begin blocks too.        *)
(***************************************************************************)
EXTENDS Naturals, SequencesExt

CONSTANTS
    Record,     \* the [key, val] byte strings the application stores
    MaxRecords, \* bound: records of a leaf
    MaxFile,    \* bound: nothing is written at or beyond this size
    SizeBytes,  \* bytes of a size or a count, 4 in the code
    OffBytes    \* bytes of an offset, 8 in the code

VARIABLES
    mode,       \* "open", "closed", or "error": AODBM_CUSTOM_ERROR
    file,       \* the bytes written, stdio buffer included
    flushed,    \* how many of them a crash of the process leaves for certain
    file_size,  \* db->file_size
    cur,        \* db->cur
    blocks      \* history: the blocks written whole, in the file's order

blocksVars == <<mode, file, flushed, file_size, cur, blocks>>

(* 'd', 'l' and 'v'. *)
d == 100
l == 108
v == 118

-----------------------------------------------------------------------------
(* Encoding.                                                               *)

(* Mutant: the bytes of a number are left in the order of the processor.   *)
WordBytesLittle(n, w) == [i \in 1..w |-> (n \div 256 ^ (i - 1)) % 256]

(* aodbm_data_from_32, aodbm_data_from_64 and the htonl of the writers:    *)
(* big-endian, and no more than w bytes of it.                             *)
WordBytes(n, w) ==
    LET rest[k \in 0..w] == IF k = 0 THEN n ELSE rest[k - 1] \div 256
    IN  [i \in 1..w |-> rest[w - i] % 256]

Word(bytes) ==
    LET upTo[k \in 0..Len(bytes)] == IF k = 0 THEN 0 ELSE 256 * upTo[k - 1] + bytes[k]
    IN  upTo[Len(bytes)]

(* make_block, make_record, add_header.                                    *)
Block(dat) == WordBytes(Len(dat), SizeBytes) \o dat

RecordBytes(r) == Block(r.key) \o Block(r.val)

LeafBytes(recs) ==
    <<l>> \o WordBytes(Len(recs), SizeBytes)
          \o FlattenSeq([i \in DOMAIN recs |-> RecordBytes(recs[i])])

RootBytes(prev, recs) == WordBytes(prev, OffBytes) \o LeafBytes(recs)

(* The numbers w bytes have room for are smaller than this one.            *)
Room(w) ==
    LET room[k \in 0..w] == IF k = 0 THEN 1 ELSE 256 * room[k - 1]
    IN  room[w]

(* What the code takes for granted: there is room for each size, count and *)
(* offset it writes (make_block and aodbm_write_data_block do not check).  *)
NumbersFit ==
    /\ \A r \in Record : Len(r.key) < Room(SizeBytes) /\ Len(r.val) < Room(SizeBytes)
    /\ MaxRecords < Room(SizeBytes)
    /\ \A n \in 0..MaxRecords : \A recs \in [1..n -> Record] :
          Len(RootBytes(0, recs)) < Room(SizeBytes)
    /\ MaxFile + SizeBytes < Room(OffBytes)

ASSUME BlocksAssumption ==
    /\ MaxRecords \in Nat /\ MaxFile \in Nat /\ SizeBytes \in Nat /\ OffBytes \in Nat
    /\ Record \subseteq [key : Seq(0..255), val : Seq(0..255)]
    /\ NumbersFit

-----------------------------------------------------------------------------
(* Decoding, at offsets, which start at 0.                                 *)
Bytes(off, n) == SubSeq(file, off + 1, off + n)

(* aodbm_read_data, and "pos += dat->sz + 4" behind it.                    *)
ReadData(off) == LET sz == Word(Bytes(off, SizeBytes))
                 IN  [dat |-> Bytes(off + SizeBytes, sz),
                      end |-> off + SizeBytes + sz]

(* The loop of aodbm_get over the records of the leaf of a root.           *)
Leaf(root) ==
    LET node == root + OffBytes
        sz   == Word(Bytes(node + 1, SizeBytes))
        upTo[i \in 0..sz] ==
            IF i = 0 THEN [recs |-> << >>, pos |-> node + 1 + SizeBytes]
            ELSE LET before == upTo[i - 1]
                     key == ReadData(before.pos)
                     val == ReadData(key.end)
                 IN  [recs |-> Append(before.recs, [key |-> key.dat, val |-> val.dat]),
                      pos  |-> val.end]
    IN  upTo[sz].recs

-----------------------------------------------------------------------------
(* Writing.  aodbm_write_data_block and aodbm_write_version hold rw.       *)
Write(bytes) == /\ file' = file \o bytes
                /\ file_size' = file_size + Len(bytes)

(* aodbm_set and aodbm_del: the offset of the root, which is the version,  *)
(* was worked out from file_size + 5 before the block was written.         *)
Set(prev, recs) ==
    LET dat == RootBytes(prev, recs) IN
    /\ mode = "open" /\ Len(file) < MaxFile
    /\ Write(<<d>> \o WordBytes(Len(dat), SizeBytes) \o dat)
    /\ blocks' = Append(blocks, [root |-> file_size + 1 + SizeBytes, prev |-> prev,
                                 recs |-> recs, head |-> cur,
                                 end |-> file_size + 1 + SizeBytes + Len(dat)])
    /\ UNCHANGED <<mode, flushed, cur>>

(* aodbm_commit of a version that is based on the head.                    *)
Commit(ver) ==
    /\ mode = "open" /\ Len(file) < MaxFile
    /\ Write(<<v>> \o WordBytes(ver, OffBytes))
    /\ flushed' = Len(file')
    /\ cur' = ver
    /\ blocks' = Append(blocks, [root |-> 0, prev |-> 0, recs |-> << >>,
                                 head |-> ver, end |-> file_size + 1 + OffBytes])
    /\ UNCHANGED mode

Close == /\ mode = "open"
         /\ mode' = "closed" /\ flushed' = Len(file)
         /\ UNCHANGED <<file, file_size, cur, blocks>>

(* The process ends where it is; stdio has passed on a prefix, a part of a *)
(* block, a number or a string.                                            *)
Crash == /\ mode = "open"
         /\ \E n \in flushed..Len(file) :
               /\ file' = SubSeq(file, 1, n)
               /\ flushed' = n
         /\ mode' = "closed"
         /\ UNCHANGED <<file_size, cur, blocks>>

-----------------------------------------------------------------------------
(* Opening.  One round of the loop of aodbm_open, which has come to the    *)
(* block at s.at and has met the head s.cur.                               *)
Past(s, n) == s.at + n > Len(file)

VersionRound(s) ==
    IF Past(s, 1 + OffBytes) THEN [s EXCEPT !.stop = "torn"]
    ELSE [s EXCEPT !.cur = Word(Bytes(s.at + 1, OffBytes)), !.at = @ + 1 + OffBytes]

(* Mutant: a data block that ends where the file ends is taken for torn.   *)
DataRoundStrict(s) ==
    LET n == 1 + SizeBytes + Word(Bytes(s.at + 1, SizeBytes)) IN
    IF Past(s, 1 + SizeBytes) \/ Past(s, n + 1) THEN [s EXCEPT !.stop = "torn"]
    ELSE [s EXCEPT !.at = @ + n]

DataRound(s) ==
    LET n == 1 + SizeBytes + Word(Bytes(s.at + 1, SizeBytes)) IN
    IF Past(s, 1 + SizeBytes) \/ Past(s, n) THEN [s EXCEPT !.stop = "torn"]
    ELSE [s EXCEPT !.at = @ + n]

ScanRound(s) ==
    IF s.at = Len(file) THEN [s EXCEPT !.stop = "eof"]
    ELSE CASE Bytes(s.at, 1) = <<v>> -> VersionRound(s)
           [] Bytes(s.at, 1) = <<d>> -> DataRound(s)
           [] OTHER                  -> [s EXCEPT !.stop = "unknown"]

Scan ==
    LET rounds[k \in 0..Len(file) + 1] ==
            IF k = 0 THEN [at |-> 0, cur |-> 0, stop |-> "no"]
            ELSE LET s == rounds[k - 1]
                 IN  IF s.stop = "no" THEN ScanRound(s) ELSE s
    IN  rounds[Len(file) + 1]

(* A torn block is cut off.  The blocks the crash left whole are the       *)
(* history from here on.                                                   *)
Open == /\ mode = "closed"
        /\ mode' = IF Scan.stop = "unknown" THEN "error" ELSE "open"
        /\ file' = IF Scan.stop = "torn" THEN SubSeq(file, 1, Scan.at) ELSE file
        /\ flushed' = Len(file')
        /\ file_size' = Scan.at
        /\ cur' = Scan.cur
        /\ blocks' = Restrict(blocks, {i \in DOMAIN blocks : blocks[i].end <= Len(file)})

BlocksInit == /\ mode = "closed" /\ file = << >> /\ flushed = 0
              /\ file_size = 0 /\ cur = 0 /\ blocks = << >>

Versions == {0} \cup {blocks[i].root : i \in DOMAIN blocks}

BlocksNext ==
    \/ \E prev \in Versions :
          \/ Commit(prev)
          \/ \E n \in 0..MaxRecords : \E recs \in [1..n -> Record] : Set(prev, recs)
    \/ Close \/ Crash \/ Open

BlocksSpec == BlocksInit /\ [][BlocksNext]_blocksVars

-----------------------------------------------------------------------------
(* Properties.                                                             *)

(* Wherever a crash has cut the file, opening it finds the blocks that are *)
(* whole, all of them and nothing else, whatever bytes they hold, and the  *)
(* head of the last commit among them; it never comes to a byte that       *)
(* begins no block, and the next block is written right behind them.       *)
ScanFindsBlocks ==
    /\ mode \in {"open", "closed"}
    /\ mode = "open" =>
        /\ Len(file) = file_size
        /\ IF blocks = << >> THEN file_size = 0 /\ cur = 0
           ELSE file_size = Last(blocks).end /\ cur = Last(blocks).head

(* Every version reads back as what was stored, at the offset that was     *)
(* handed out before it was written, also after later writes, crashes and  *)
(* recoveries.                                                             *)
VersionsReadBack ==
    mode = "open" =>
        \A i \in DOMAIN blocks :
            blocks[i].root # 0 =>
                /\ Leaf(blocks[i].root) = blocks[i].recs
                /\ Word(Bytes(blocks[i].root, OffBytes)) = blocks[i].prev
=============================================================================
