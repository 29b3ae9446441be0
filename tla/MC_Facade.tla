----------------------------- MODULE MC_Facade -----------------------------
(* Model-checking instance of Facade: the pooled connections share one    *)
(* DuckDBAttachments built from a list with a duplicate, so there are two *)
(* unique attachments; the cfg files choose the pool, the number of       *)
(* queries, the batch bound, the capacity and the catalog scope.          *)
EXTENDS Facade

CONSTANTS p1, p2, db1, db2

MCAttachmentList == <<db1, db2, db1>>
MCSessions == Pool \X (0 .. MaxQueries)
=============================================================================
