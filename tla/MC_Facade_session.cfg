\* Metadata calls between and beside query_arrow calls on two pooled
\* connections, each seeing only its own attachments, with every engine
\* statement of attach and detach free to fail: a DETACH that fails after
\* an earlier one succeeded leaves the search path naming a detached alias.
CONSTANTS
    p1 = p1
    p2 = p2
    db1 = db1
    db2 = db2
    Pool = {p1, p2}
    AttachmentList <- MCAttachmentList
    Sessions <- MCSessions
    MaxQueries = 1
    MaxBatches = 1
    ChannelCapacity = 1
    Placeholders = 0
    CatalogScope = "session"

SPECIFICATION FacadeSpec
INVARIANT SearchPathResolves
