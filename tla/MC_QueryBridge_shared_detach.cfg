\* Same database, two pooled connections: does a statement see every
\* attachment when another connection detaches the shared aliases?
CONSTANTS
    p1 = p1
    p2 = p2
    db1 = db1
    db2 = db2
    Pool = {p1, p2}
    AttachmentList <- MCAttachmentList
    Sessions <- MCSessions
    MaxQueries = 1
    MaxBatches = 3
    ChannelCapacity = 2
    Placeholders = 0
    CatalogScope = "instance"

SPECIFICATION Spec

INVARIANT StatementsSeeAttachments
