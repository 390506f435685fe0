SPECIFICATION Spec
CONSTANTS
    Puts = {p1, p2}
    Readers = {r1}
    Inodes = {i1, i2, i3, i4, i5}
    NoFile = NoFile
    Size = 2
    IoErrors = TRUE
SYMMETRY Symmetric
INVARIANTS TypeOK BlobIsWhole NoTempBesideBlob OkMeansStored
