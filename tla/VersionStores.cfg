\* API requests that store contents of the same documents.
SPECIFICATION Spec
CONSTANTS
    Indexers = {}
    Stores = {s1, s2, s3}
    Documents = {doc1, doc2}
    Ids = {i1, i2, i3, i4}
    Hashes = {h1, h2, h3}
    Numbers = {1, 2, 3, 4}
    NoDocument = NoDocument
    NoId = NoId
    NoHash = NoHash
    Known = TRUE
CHECK_DEADLOCK FALSE
SYMMETRY Symmetry
INVARIANTS
    TypeOK
    OneCurrentVersion
PROPERTY
    ImplementsHistory
