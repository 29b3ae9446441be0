\* The same with ATTACH visible to every connection of the database; one
\* query per connection, so the leftover aliases are those of failed calls.
CONSTANTS
    p1 = p1
    p2 = p2
    db1 = db1
    db2 = db2
    Pool = {p1, p2}
    AttachmentList <- MCAttachmentList
    Sessions <- MCSessions
    MaxQueries = 1
    MaxBatches = 1
    ChannelCapacity = 1
    Placeholders = 0
    CatalogScope = "instance"

SPECIFICATION FacadeSpec
INVARIANT QuietCallsSeePrimaryOnly
