--------------------------- MODULE MC_QueryBridge ---------------------------
(* Model-checking instance of QueryBridge.  It extends the proof modules  *)
(* so that a run can check the inductive invariant they use.  The pooled  *)
(* connections share one DuckDBAttachments built from a list with a      *)
(* duplicate, so there are two unique attachments; the cfg files choose   *)
(* the pool, the number of queries, the batch bound and the capacity.    *)
EXTENDS QueryBridgeRefinement, QueryBridgeAttach

CONSTANTS p1, p2, db1, db2

MCAttachmentList == <<db1, db2, db1>>
MCSessions == Pool \X (0 .. MaxQueries)
=============================================================================
