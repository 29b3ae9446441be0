\* One pooled connection runs two query_arrow calls, the second started
\* while the worker and the stream of the first may still run, and ATTACH
\* and DETACH act on the set of attached databases every connection of
\* the database shares, so the two calls' attach and detach race.  The
\* safety properties, the inductive invariants of the TLAPS proofs, and
\* the refinement of StreamSpec.
CONSTANTS
    p1 = p1
    p2 = p2
    db1 = db1
    db2 = db2
    Pool = {p1}
    AttachmentList <- MCAttachmentList
    Sessions <- MCSessions
    MaxQueries = 2
    MaxBatches = 3
    ChannelCapacity = 2
    Placeholders = 0
    CatalogScope = "instance"

SPECIFICATION Spec

INVARIANT InOrderDelivery
INVARIANT NoSilentTruncation
INVARIANT DeliveryInv
INVARIANT RefInv

PROPERTY StreamRefinement
