\* One pooled connection runs one query_arrow call on a statement with one
\* placeholder, its parameter supplied; the probe that derives the schema
\* binds no value.
CONSTANTS
    p1 = p1
    p2 = p2
    db1 = db1
    db2 = db2
    Pool = {p1}
    AttachmentList <- MCAttachmentList
    Sessions <- MCSessions
    MaxQueries = 1
    MaxBatches = 1
    ChannelCapacity = 1
    Placeholders = 1
    CatalogScope = "session"

SPECIFICATION Spec

INVARIANT ProbeCanSucceed
