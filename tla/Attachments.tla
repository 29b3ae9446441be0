---------------------------- MODULE Attachments ----------------------------
(***************************************************************************)
(* The multi-catalog attachment manager, DuckDBAttachments in             *)
(* duckdbconn.rs.  An instance is built once from a primary catalog name  *)
(* and a list of database files; attach and detach then act on a native   *)
(* DuckDB connection.  This module holds the state those calls change on  *)
(* the engine side -- which aliases are attached, and each connection's   *)
(* search_path -- and one operator per engine statement the manager      *)
(* issues.  The control flow around them (the loops over the attachment   *)
(* set, the early returns on error) belongs to the callers and is         *)
(* modelled in QueryBridge.  Each statement goes through conn.execute and *)
(* may also fail for a reason of the engine's own (the                    *)
(* DuckDBConnectionSnafu context of every call); the callers model such  *)
(* a failure as a step that changes none of this state.                  *)
(*                                                                         *)
(* Paths and alias names are data the properties do not tell apart: an   *)
(* attachment is its index in the HashSet's iteration order, which is     *)
(* what get_attachment_name(random_id, i) encodes, and a search path is   *)
(* either the engine default or the precomputed path of the manager.     *)
(***************************************************************************)
EXTENDS Naturals, FiniteSets, Sequences

CONSTANTS
    AttachmentList,  \* the paths passed to DuckDBAttachments::new, duplicates allowed
    Sessions,        \* native DuckDB connections: pooled ones and their clones
    CatalogScope     \* which connections see an ATTACH: "session" or "instance"

(* new: the paths are collected into a HashSet, so duplicates collapse.   *)
AttachmentSet == {AttachmentList[i] : i \in DOMAIN AttachmentList}

NAtt == Cardinality(AttachmentSet)

(* The alias attachment_<random_id>_<i> of the i-th path in iteration     *)
(* order (enumerate starts at 0).                                          *)
Aliases == 0 .. NAtt - 1

ASSUME AttachmentsAssumption ==
    /\ NAtt \in Nat
    /\ CatalogScope \in {"session", "instance"}

(* get_search_path: the primary catalog followed by one alias per unique  *)
(* attachment; "Attached" stands for that string, "Default" for the       *)
(* engine's own search path after RESET.                                  *)
SearchPathValues == {"Default", "Attached"}

(* DuckDB keeps attached databases per database instance and search_path *)
(* per connection.  Which connections share the attached set is the      *)
(* engine's business; CatalogScope names the two readings: every         *)
(* connection its own set (the reading of the comment at                 *)
(* duckdbconn.rs:393), or one set for all connections of the pooled      *)
(* database (try_clone and the r2d2 manager open connections to the same *)
(* instance).                                                             *)
CatKey(s) == IF CatalogScope = "session" THEN s ELSE "instance"

CatKeys == {CatKey(s) : s \in Sessions}

VARIABLES
    catalog,     \* catalog[k]: the aliases attached under catalog key k
    searchPath   \* searchPath[s]: the search_path setting of connection s

attVars == <<catalog, searchPath>>

AttInit ==
    /\ catalog = [k \in CatKeys |-> {}]
    /\ searchPath = [s \in Sessions |-> "Default"]

AttTypeOK ==
    /\ catalog \in [CatKeys -> SUBSET Aliases]
    /\ searchPath \in [Sessions -> SearchPathValues]

(* ATTACH IF NOT EXISTS '<db>' AS <alias> (READ_ONLY): a no-op when the   *)
(* alias is already attached.                                              *)
AttachAlias(s, i) ==
    /\ catalog' = [catalog EXCEPT ![CatKey(s)] = @ \cup {i}]
    /\ UNCHANGED searchPath

(* set_search_path: SET search_path = '<primary>,<aliases...>'.  DuckDB  *)
(* refuses a search path that names a catalog the connection does not    *)
(* see, so the SET succeeds only with every alias attached.               *)
SetSearchPath(s) ==
    /\ Aliases \subseteq catalog[CatKey(s)]
    /\ searchPath' = [searchPath EXCEPT ![s] = "Attached"]
    /\ UNCHANGED catalog

(* DETACH <alias>: succeeds only when the alias is attached; DuckDB       *)
(* raises an error for an unknown database name.                          *)
DetachAlias(s, i) ==
    /\ i \in catalog[CatKey(s)]
    /\ catalog' = [catalog EXCEPT ![CatKey(s)] = @ \ {i}]
    /\ UNCHANGED searchPath

(* reset_search_path: RESET search_path.                                   *)
ResetSearchPath(s) ==
    /\ searchPath' = [searchPath EXCEPT ![s] = "Default"]
    /\ UNCHANGED catalog

=============================================================================
