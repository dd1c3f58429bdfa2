SPECIFICATION Spec
CONSTANTS
    r1 = r1
    r2 = r2
    Readers <- TwoReaders
    Pieces = 2
    MaxDocuments = 4
    Size <- Sizes
    Attempts = 3
INVARIANTS
    TypeOK
    NullForCause
PROPERTY
    OneDocument
