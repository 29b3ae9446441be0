\* One pooled connection, two query_arrow calls in a row: is the
\* connection back in its default state after each call returns?
CONSTANTS
    p1 = p1
    p2 = p2
    db1 = db1
    db2 = db2
    Pool = {p1}
    AttachmentList <- MCAttachmentList
    Sessions <- MCSessions
    MaxQueries = 2
    MaxBatches = 3
    ChannelCapacity = 2
    Placeholders = 0
    CatalogScope = "session"

SPECIFICATION Spec

INVARIANT PooledConnRestored
