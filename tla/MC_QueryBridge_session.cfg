\* Two pooled connections, one query each, running concurrently; each
\* connection sees only its own attachments.  Results of up to three
\* batches through a channel of capacity two, so the worker blocks.  The
\* safety properties, the liveness of stream and worker under the fairness
\* of Spec, and the refinement of StreamSpec, fairness included.
CONSTANTS
    p1 = p1
    p2 = p2
    db1 = db1
    db2 = db2
    Pool = {p1, p2}
    AttachmentList <- MCAttachmentList
    Sessions <- MCSessions
    MaxQueries = 1
    MaxBatches = 3
    ChannelCapacity = 2
    Placeholders = 0
    CatalogScope = "session"

SPECIFICATION Spec

INVARIANT TypeOK
INVARIANT InOrderDelivery
INVARIANT NoSilentTruncation
INVARIANT StatementsSeeAttachments
INVARIANT RefInv
INVARIANT AttachInv
PROPERTY DetachesFindAlias
INVARIANT DetachRestores

PROPERTY WorkerReleased
PROPERTY StreamEnds
PROPERTY StreamRefinement
