------------------------------ MODULE Facade ------------------------------
(***************************************************************************)
(* The connection facade of duckdbconn.rs -- tables, schemas, get_schema  *)
(* and execute of the SyncDbConnection impl -- composed with the query    *)
(* bridge and the attachment manager.                                      *)
(*                                                                         *)
(* These four calls run one statement on the pooled connection and do not *)
(* attach or detach: the statement resolves names against whatever the   *)
(* connection sees at that moment, the catalogs attached where it can see *)
(* them and its search_path.  A DuckDbConnection is not Sync, so a call   *)
(* on pooled connection p runs only while no query_arrow call is running *)
(* on p; calls on other connections and the workers of earlier queries    *)
(* run concurrently.  What a call changes in the database (rows, DDL) is  *)
(* not modelled; what it sees is recorded in seen.                         *)
(***************************************************************************)
EXTENDS QueryBridge

(* The SyncDbConnection calls that run a single statement.                *)
Ops == {"tables", "schemas", "get_schema", "execute"}

VARIABLE
    seen   \* seen[p]: what the last such call on p saw, or NoCall

fvars == <<vars, seen>>

NoCall == [op |-> "none", aliases |-> {}, path |-> "Default", busy |-> FALSE]

(* A query_arrow call or one of its workers is in progress somewhere.     *)
Busy ==
    \/ \E p \in Pool : cpc[p] # "idle"
    \/ \E q \in Queries : wpc[q] \in {"attach", "prepare", "stream", "detach"}

(* The statement of a call on p runs: it sees the aliases attached where *)
(* p's session can see them and p's search_path.  A failed prepare, query *)
(* or row read returns the error and changes nothing.                      *)
RunStatement(p, op) ==
    /\ cpc[p] = "idle"
    /\ seen' = [seen EXCEPT ![p] = [op |-> op,
                                    aliases |-> catalog[CatKey(PooledSession(p))],
                                    path |-> searchPath[PooledSession(p)],
                                    busy |-> Busy]]
    /\ UNCHANGED vars

(* tables(schema): SELECT table_name FROM information_schema.tables ...  *)
Tables(p) == RunStatement(p, "tables")

(* schemas(): SELECT DISTINCT schema_name FROM information_schema.schemata *)
Schemas(p) == RunStatement(p, "schemas")

(* get_schema: SELECT * FROM <table> LIMIT 0.                              *)
GetSchema(p) == RunStatement(p, "get_schema")

(* execute(sql, params): conn.execute.                                     *)
Execute(p) == RunStatement(p, "execute")

FacadeInit ==
    /\ Init
    /\ seen = [p \in Pool |-> NoCall]

FacadeNext ==
    \/ Next /\ UNCHANGED seen
    \/ \E p \in Pool : Tables(p) \/ Schemas(p) \/ GetSchema(p) \/ Execute(p)

FacadeSpec == FacadeInit /\ [][FacadeNext]_fvars

-----------------------------------------------------------------------------
(* Properties.                                                             *)

(* A statement that runs with the attachments' search path finds every    *)
(* catalog the path names: whenever tables, schemas, get_schema or        *)
(* execute runs on a pooled connection whose search_path query_arrow left *)
(* set, every alias is attached where the connection sees it.  The design *)
(* (4.3) says a connection that is attached is detached before it is      *)
(* reused, "otherwise subsequent queries observe a stale search path",   *)
(* and (7) that every failure path still attempts detach and reset.  It  *)
(* is about the early return of detach's loop (line 161, through line    *)
(* 386) that skips reset_search_path after some aliases are gone.        *)
SearchPathResolves ==
    \A p \in Pool :
        seen[p].path = "Attached" => seen[p].aliases = Aliases

(* Once no query_arrow call and no worker is running anywhere, the       *)
(* metadata calls see only the primary database: every call made in such *)
(* a state sees no attached alias.  The design (4.3, 4.5, 7) says every   *)
(* path that attached detaches, even when the statement errors.  It is   *)
(* about the early returns of the caller (lines 372, 379) and of the      *)
(* worker (lines 400-411) before their detach.                            *)
QuietCallsSeePrimaryOnly ==
    \A p \in Pool :
        (seen[p].op # "none" /\ ~seen[p].busy) => seen[p].aliases = {}

=============================================================================
