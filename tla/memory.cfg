SPECIFICATION MemorySpec
CONSTANTS
    Reg = {r, s}
    Node = {n1, n2, n3, n4}
    List = {a, b}
    Item = {x, y}
    TailInsert = FALSE
    Rope = {p, q}
    Datum = {d1}
    MaxText = 3
    Letter = {c1, c2}
    Char <- Signed
    MaxLen = 4
    Record <- Records
    MaxRecords = 2
    MaxFile = 20
    SizeBytes = 1
    OffBytes = 2
    NULL = NULL
SYMMETRY ChainSymmetry
INVARIANTS ReadmeOrder ChainsSound RopeIsItsText LinksSound ScanFindsBlocks VersionsReadBack
PROPERTIES ImplementsSequences
