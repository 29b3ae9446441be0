------------------------- MODULE QueryBridgeAttach --------------------------
(***************************************************************************)
(* Why every statement of query_arrow sees its attachments when each      *)
(* connection has its own attached set (CatalogScope = "session"): the   *)
(* pooled connection's catalogs and search path are changed only by its  *)
(* caller, a clone's only by its worker, and each of them moves through   *)
(* attach, set path, statement, detach, reset in that order.  AttachInv  *)
(* records where each actor is in that sequence.                           *)
(***************************************************************************)
EXTENDS QueryBridgeProofs

(* What holds of pooled connection p between the caller's steps:          *)
(*   - the probe runs with every alias attached and the search path set   *)
(*     (the SET of attach succeeds only then);                             *)
(*   - the detach loop has detached the aliases before its index and not  *)
(*     yet the ones from its index on;                                     *)
(*   - after the loop nothing is attached and the search path is reset.    *)
(* An idle caller is left out: an error of the engine may leave aliases   *)
(* and the search path behind.                                             *)
CallerAttachInv(p) ==
    LET S == PooledSession(p) IN
    /\ cpc[p] = "probe" => /\ Aliases \subseteq catalog[CatKey(S)]
                          /\ searchPath[S] = "Attached"
    /\ cpc[p] = "detach" => catalog[CatKey(S)] = cidx[p] .. NAtt - 1
    /\ cpc[p] = "clone" => catalog[CatKey(S)] = {} /\ searchPath[S] = "Default"

(* What holds of the clone q of a query: the statement is prepared and   *)
(* streamed with every alias attached (and prepared with the search path  *)
(* set), the detach loop has detached exactly the aliases before its      *)
(* index, and a worker that returned Ok left nothing attached.            *)
WorkerAttachInv(q) ==
    /\ wpc[q] \in {"prepare", "stream"} => Aliases \subseteq catalog[CatKey(q)]
    /\ wpc[q] = "prepare" => searchPath[q] = "Attached"
    /\ wpc[q] = "detach" => catalog[CatKey(q)] = widx[q] .. NAtt - 1
    /\ wpc[q] = "ok" => catalog[CatKey(q)] = {} /\ searchPath[q] = "Default"

AttachInv ==
    /\ \A p \in Pool : CallerAttachInv(p)
    /\ \A q \in Queries : WorkerAttachInv(q)

(* A step leaves what connection s sees alone.                            *)
AttFrame(s) ==
    /\ catalog'[CatKey(s)] = catalog[CatKey(s)]
    /\ searchPath'[s] = searchPath[s]

-----------------------------------------------------------------------------
(* Facts about the constants when every connection has its own catalogs. *)

LEMMA ScopeFacts ==
    ASSUME CatalogScope = "session"
    PROVE  /\ \A s \in Sessions : CatKey(s) = s
           /\ CatKeys = Sessions
BY DEF CatKey, CatKeys

(* The pooled connections and the clones are distinct connections.        *)
LEMMA DistinctSessions ==
    /\ \A p1, p2 \in Pool : p1 # p2 => PooledSession(p1) # PooledSession(p2)
    /\ \A p \in Pool, q \in Queries : PooledSession(p) # q
BY BridgeAssumption DEF PooledSession, Queries

(* A statement of the attachment manager on connection t changes nothing *)
(* another connection sees.                                                *)
LEMMA EngineFrame ==
    ASSUME CatalogScope = "session", AttTypeOK,
           NEW t \in Sessions, NEW i,
           AttachAlias(t, i) \/ DetachAlias(t, i) \/ SetSearchPath(t) \/ ResetSearchPath(t),
           NEW s \in Sessions, s # t
    PROVE  AttFrame(s)
<1>1. /\ catalog \in [Sessions -> SUBSET Aliases]
      /\ searchPath \in [Sessions -> SearchPathValues]
      /\ CatKey(s) = s /\ CatKey(t) = t
    BY ScopeFacts DEF AttTypeOK
<1>2. QED
    BY <1>1 DEF AttachAlias, DetachAlias, SetSearchPath, ResetSearchPath, AttFrame

(* A caller or worker whose own state and connection are untouched keeps  *)
(* what AttachInv says of it.                                              *)
LEMMA CallerFrame ==
    ASSUME NEW p, CallerAttachInv(p), cpc'[p] = cpc[p], cidx'[p] = cidx[p],
           AttFrame(PooledSession(p))
    PROVE  CallerAttachInv(p)'
BY DEF CallerAttachInv, AttFrame

LEMMA WorkerFrame ==
    ASSUME NEW q, WorkerAttachInv(q), AttFrame(q),
           \/ wpc'[q] = wpc[q] /\ widx'[q] = widx[q]
           \/ wpc'[q] = "attach" /\ widx'[q] = 0
    PROVE  WorkerAttachInv(q)'
BY DEF WorkerAttachInv, AttFrame

-----------------------------------------------------------------------------
(* AttachInv is inductive relative to TypeInv under session scope.        *)

(* The facts of TypeInv the steps below use.                              *)
LEMMA AttTypes ==
    ASSUME CatalogScope = "session", TypeInv
    PROVE  /\ NAtt \in Nat
           /\ Aliases = 0 .. NAtt - 1
           /\ catalog \in [Sessions -> SUBSET Aliases]
           /\ searchPath \in [Sessions -> SearchPathValues]
           /\ cpc \in [Pool -> CallerStates]
           /\ cidx \in [Pool -> 0 .. NAtt]
           /\ wpc \in [Queries -> WorkerStates]
           /\ widx \in [Queries -> 0 .. NAtt]
           /\ \A s \in Sessions : CatKey(s) = s
           /\ \A p \in Pool : PooledSession(p) \in Sessions
           /\ Queries \subseteq Sessions
BY SessionFacts, ScopeFacts DEF TypeInv, TypeOK, AttTypeOK, Aliases

(* Detaching the lowest alias of the interval still attached.             *)
LEMMA IntervalDrop ==
    ASSUME NEW a \in Nat, NEW b \in Nat, a < b
    PROVE  /\ a \in a .. b - 1
           /\ (a .. b - 1) \ {a} = (a + 1) .. b - 1
OBVIOUS

(* The step of the caller of p0 keeps AttachInv for that caller.          *)
LEMMA CallerStep ==
    ASSUME CatalogScope = "session", TypeInv, NEW p0 \in Pool, CallerAttachInv(p0),
           StartQuery(p0) \/ Caller(p0)
    PROVE  CallerAttachInv(p0)'
<1> DEFINE S == PooledSession(p0)
<1>0. /\ NAtt \in Nat
      /\ Aliases = 0 .. NAtt - 1
      /\ catalog \in [Sessions -> SUBSET Aliases]
      /\ searchPath \in [Sessions -> SearchPathValues]
      /\ cpc \in [Pool -> CallerStates]
      /\ cidx \in [Pool -> 0 .. NAtt]
      /\ S \in Sessions
      /\ CatKey(S) = S
    BY AttTypes
<1>1. CASE StartQuery(p0)
    BY <1>0, <1>1 DEF StartQuery, CallerAttachInv, attVars
<1>2. CASE CallerAttach(p0)
    BY <1>0, <1>2 DEF CallerAttach, AttachAlias, CallerAttachInv, attVars
<1>3. CASE CallerSetPath(p0)
    BY <1>0, <1>3 DEF CallerSetPath, SetSearchPath, CallerAttachInv, attVars
<1>4. CASE CallerProbe(p0)
    <2>1. cpc'[p0] = "detach" => catalog[S] = Aliases
        BY <1>0, <1>4 DEF CallerProbe, CallerAttachInv
    <2>2. QED
        BY <1>0, <1>4, <2>1 DEF CallerProbe, CallerAttachInv, attVars
<1>5. CASE CallerDetach(p0)
    <2>1. /\ catalog[S] = cidx[p0] .. NAtt - 1
          /\ cidx[p0] \in Nat /\ cidx[p0] < NAtt
        BY <1>0, <1>5 DEF CallerDetach, CallerAttachInv
    <2>2. /\ cidx[p0] \in catalog[S]
          /\ catalog[S] \ {cidx[p0]} = (cidx[p0] + 1) .. NAtt - 1
        BY <1>0, <2>1, IntervalDrop
    <2>3. CASE /\ DetachAlias(S, cidx[p0])
               /\ cidx' = [cidx EXCEPT ![p0] = @ + 1]
               /\ UNCHANGED cpc
        <3>1. catalog'[S] = cidx'[p0] .. NAtt - 1 /\ searchPath'[S] = searchPath[S]
            BY <1>0, <2>2, <2>3 DEF DetachAlias
        <3>2. QED
            BY <1>0, <1>5, <2>3, <3>1 DEF CallerDetach, CallerAttachInv
    <2>4. CASE cpc' = [cpc EXCEPT ![p0] = "idle"]
        BY <1>0, <2>4 DEF CallerAttachInv
    <2>5. QED
        BY <1>5, <2>3, <2>4 DEF CallerDetach
<1>6. CASE CallerResetPath(p0)
    <2>1. catalog[S] = {}
        BY <1>0, <1>6 DEF CallerResetPath, CallerAttachInv
    <2>2. QED
        BY <1>0, <1>6, <2>1 DEF CallerResetPath, ResetSearchPath, CallerAttachInv, attVars
<1>7. CASE CallerSpawn(p0)
    BY <1>0, <1>7 DEF CallerSpawn, CallerAttachInv, attVars
<1>8. QED
    BY <1>1, <1>2, <1>3, <1>4, <1>5, <1>6, <1>7 DEF Caller

(* The step of the worker of q0 keeps AttachInv for that worker.          *)
LEMMA WorkerStep ==
    ASSUME CatalogScope = "session", TypeInv, NEW q0 \in Queries, WorkerAttachInv(q0),
           Worker(q0)
    PROVE  WorkerAttachInv(q0)'
<1>0. /\ NAtt \in Nat
      /\ Aliases = 0 .. NAtt - 1
      /\ catalog \in [Sessions -> SUBSET Aliases]
      /\ searchPath \in [Sessions -> SearchPathValues]
      /\ wpc \in [Queries -> WorkerStates]
      /\ widx \in [Queries -> 0 .. NAtt]
      /\ q0 \in Sessions
      /\ CatKey(q0) = q0
    BY AttTypes
<1>1. CASE WorkerAttach(q0)
    BY <1>0, <1>1 DEF WorkerAttach, AttachAlias, WorkerAttachInv, attVars
<1>2. CASE WorkerSetPath(q0)
    BY <1>0, <1>2 DEF WorkerSetPath, SetSearchPath, WorkerAttachInv, attVars
<1>3. CASE WorkerPrepare(q0)
    BY <1>0, <1>3 DEF WorkerPrepare, WorkerAttachInv, attVars
<1>4. CASE WorkerSend(q0)
    BY <1>0, <1>4 DEF WorkerSend, WorkerAttachInv, attVars
<1>5. CASE WorkerEndStream(q0)
    <2>1. catalog[q0] = Aliases
        BY <1>0, <1>5 DEF WorkerEndStream, WorkerAttachInv
    <2>2. QED
        BY <1>0, <1>5, <2>1 DEF WorkerEndStream, WorkerAttachInv, attVars
<1>6. CASE WorkerDetach(q0)
    <2>1. /\ catalog[q0] = widx[q0] .. NAtt - 1
          /\ widx[q0] \in Nat /\ widx[q0] < NAtt
        BY <1>0, <1>6 DEF WorkerDetach, WorkerAttachInv
    <2>2. /\ widx[q0] \in catalog[q0]
          /\ catalog[q0] \ {widx[q0]} = (widx[q0] + 1) .. NAtt - 1
        BY <1>0, <2>1, IntervalDrop
    <2>3. CASE /\ DetachAlias(q0, widx[q0])
               /\ widx' = [widx EXCEPT ![q0] = @ + 1]
               /\ UNCHANGED wpc
        <3>1. catalog'[q0] = widx'[q0] .. NAtt - 1 /\ searchPath'[q0] = searchPath[q0]
            BY <1>0, <2>2, <2>3 DEF DetachAlias
        <3>2. QED
            BY <1>0, <1>6, <2>3, <3>1 DEF WorkerDetach, WorkerAttachInv
    <2>4. CASE wpc' = [wpc EXCEPT ![q0] = "err"]
        BY <1>0, <2>4 DEF WorkerAttachInv
    <2>5. QED
        BY <1>6, <2>3, <2>4 DEF WorkerDetach
<1>7. CASE WorkerResetPath(q0)
    <2>1. catalog[q0] = {}
        BY <1>0, <1>7 DEF WorkerResetPath, WorkerAttachInv
    <2>2. QED
        BY <1>0, <1>7, <2>1 DEF WorkerResetPath, ResetSearchPath, WorkerAttachInv, attVars
<1>8. QED
    BY <1>1, <1>2, <1>3, <1>4, <1>5, <1>6, <1>7 DEF Worker

LEMMA NextAttachInv ==
    ASSUME CatalogScope = "session"
    PROVE  TypeInv /\ AttachInv /\ [Next]_vars => AttachInv'
<1> SUFFICES ASSUME TypeInv, AttachInv, [Next]_vars PROVE AttachInv'
    OBVIOUS
<1>0. /\ cpc \in [Pool -> CallerStates]
      /\ cidx \in [Pool -> 0 .. NAtt]
      /\ wpc \in [Queries -> WorkerStates]
      /\ widx \in [Queries -> 0 .. NAtt]
      /\ \A p \in Pool : PooledSession(p) \in Sessions
      /\ Queries \subseteq Sessions
      /\ AttTypeOK
    BY AttTypes DEF TypeInv, TypeOK
<1>1. ASSUME NEW p0 \in Pool, StartQuery(p0) \/ Caller(p0) PROVE AttachInv'
    <2>1. \A s \in Sessions \ {PooledSession(p0)} : AttFrame(s)
        <3>1. SUFFICES ASSUME NEW s \in Sessions \ {PooledSession(p0)} PROVE AttFrame(s)
            OBVIOUS
        <3>2. ASSUME catalog' = catalog, searchPath' = searchPath PROVE AttFrame(s)
            BY <3>2 DEF AttFrame
        <3>3. ASSUME NEW i, \/ AttachAlias(PooledSession(p0), i)
                            \/ DetachAlias(PooledSession(p0), i)
                            \/ SetSearchPath(PooledSession(p0))
                            \/ ResetSearchPath(PooledSession(p0))
              PROVE AttFrame(s)
            BY <3>3, <1>0, EngineFrame
        <3>4. QED
            <4> USE <1>0, AttachmentsAssumption DEF Aliases
            <4>1. CASE StartQuery(p0)
                BY <4>1, <3>2 DEF StartQuery, attVars
            <4>2. CASE CallerAttach(p0)
                BY <4>2, <3>2, <3>3 DEF CallerAttach, attVars
            <4>3. CASE CallerSetPath(p0)
                BY <4>3, <3>2, <3>3 DEF CallerSetPath, attVars
            <4>4. CASE CallerProbe(p0)
                BY <4>4, <3>2 DEF CallerProbe, attVars
            <4>5. CASE CallerDetach(p0)
                BY <4>5, <3>2, <3>3 DEF CallerDetach, attVars
            <4>6. CASE CallerResetPath(p0)
                BY <4>6, <3>2, <3>3 DEF CallerResetPath, attVars
            <4>7. CASE CallerSpawn(p0)
                BY <4>7, <3>2 DEF CallerSpawn, attVars
            <4>8. QED
                BY <1>1, <4>1, <4>2, <4>3, <4>4, <4>5, <4>6, <4>7 DEF Caller
    <2>2. \A p \in Pool \ {p0} : cpc'[p] = cpc[p] /\ cidx'[p] = cidx[p]
        BY <1>0, <1>1 DEF StartQuery, Caller, CallerAttach, CallerSetPath, CallerProbe,
                          CallerDetach, CallerResetPath, CallerSpawn
    <2>3. \A q \in Queries : \/ wpc'[q] = wpc[q] /\ widx'[q] = widx[q]
                             \/ wpc'[q] = "attach" /\ widx'[q] = 0
        BY <1>0, <1>1 DEF StartQuery, Caller, CallerAttach, CallerSetPath, CallerProbe,
                          CallerDetach, CallerResetPath, CallerSpawn, workerSide
    <2>4. CallerAttachInv(p0)'
        BY <1>1, CallerStep DEF AttachInv
    <2>5. \A p \in Pool \ {p0} : CallerAttachInv(p)'
        BY <2>1, <2>2, <1>0, DistinctSessions, CallerFrame DEF AttachInv
    <2>6. \A q \in Queries : WorkerAttachInv(q)'
        BY <2>1, <2>3, <1>0, DistinctSessions, WorkerFrame DEF AttachInv
    <2>7. QED
        BY <2>4, <2>5, <2>6 DEF AttachInv
<1>2. ASSUME NEW q0 \in Queries, Worker(q0) PROVE AttachInv'
    <2>1. \A s \in Sessions \ {q0} : AttFrame(s)
        <3>1. SUFFICES ASSUME NEW s \in Sessions \ {q0} PROVE AttFrame(s)
            OBVIOUS
        <3>2. ASSUME catalog' = catalog, searchPath' = searchPath PROVE AttFrame(s)
            BY <3>2 DEF AttFrame
        <3>3. ASSUME NEW i, \/ AttachAlias(q0, i) \/ DetachAlias(q0, i)
                            \/ SetSearchPath(q0) \/ ResetSearchPath(q0)
              PROVE AttFrame(s)
            BY <3>3, <1>0, EngineFrame
        <3>4. QED
            <4> USE <1>0, AttachmentsAssumption DEF Aliases
            <4>1. CASE WorkerAttach(q0)
                BY <4>1, <3>2, <3>3 DEF WorkerAttach, attVars
            <4>2. CASE WorkerSetPath(q0)
                BY <4>2, <3>2, <3>3 DEF WorkerSetPath, attVars
            <4>3. CASE WorkerPrepare(q0) \/ WorkerSend(q0) \/ WorkerEndStream(q0)
                BY <4>3, <3>2 DEF WorkerPrepare, WorkerSend, WorkerEndStream, attVars
            <4>4. CASE WorkerDetach(q0)
                BY <4>4, <3>2, <3>3 DEF WorkerDetach, attVars
            <4>5. CASE WorkerResetPath(q0)
                BY <4>5, <3>2, <3>3 DEF WorkerResetPath, attVars
            <4>6. QED
                BY <1>2, <4>1, <4>2, <4>3, <4>4, <4>5 DEF Worker
    <2>2. UNCHANGED <<cpc, cidx>>
        BY <1>2 DEF Worker, WorkerAttach, WorkerSetPath, WorkerPrepare, WorkerSend,
                    WorkerEndStream, WorkerDetach, WorkerResetPath, callerSide
    <2>3. \A q \in Queries \ {q0} : wpc'[q] = wpc[q] /\ widx'[q] = widx[q]
        BY <1>0, <1>2 DEF Worker, WorkerAttach, WorkerSetPath, WorkerPrepare, WorkerSend,
                          WorkerEndStream, WorkerDetach, WorkerResetPath
    <2>4. WorkerAttachInv(q0)'
        BY <1>2, WorkerStep DEF AttachInv
    <2>5. \A p \in Pool : CallerAttachInv(p)'
        BY <2>1, <2>2, <1>0, DistinctSessions, CallerFrame DEF AttachInv
    <2>6. \A q \in Queries \ {q0} : WorkerAttachInv(q)'
        BY <2>1, <2>3, <1>0, WorkerFrame DEF AttachInv
    <2>7. QED
        BY <2>4, <2>5, <2>6 DEF AttachInv
<1>3. ASSUME NEW q0 \in Queries, Consumer(q0) \/ Drop(q0) PROVE AttachInv'
    <2>1. UNCHANGED <<attVars, cpc, cidx, wpc, widx>>
        BY <1>3 DEF Consumer, Recv, Join, Drop, callerSide
    <2>2. QED
        BY <2>1, CallerFrame, WorkerFrame DEF AttachInv, AttFrame, attVars
<1>4. CASE Finished \/ UNCHANGED vars
    <2>1. UNCHANGED <<attVars, cpc, cidx, wpc, widx>>
        BY <1>4 DEF Finished, vars, attVars
    <2>2. QED
        BY <2>1, CallerFrame, WorkerFrame DEF AttachInv, AttFrame, attVars
<1>5. QED
    BY <1>1, <1>2, <1>3, <1>4 DEF Next

LEMMA InitAttachInv ==
    ASSUME CatalogScope = "session"
    PROVE  Init => AttachInv
BY SessionFacts DEF Init, AttInit, AttachInv, CallerAttachInv, WorkerAttachInv

(* Under session scope the strengthening gives StatementsSeeAttachments:   *)
(* the catalog of a preparing session holds every alias (AttachInv) and    *)
(* no other (the type), and its search path is the attached one.           *)
LEMMA AttachInvStatements ==
    ASSUME CatalogScope = "session", TypeInv, AttachInv
    PROVE  StatementsSeeAttachments
<1>0. /\ catalog \in [Sessions -> SUBSET Aliases]
      /\ \A t \in Sessions : CatKey(t) = t
      /\ \A p \in Pool : PooledSession(p) \in Sessions
    BY AttTypes
<1>1. SUFFICES ASSUME NEW s \in Sessions, Preparing(s)
               PROVE  catalog[CatKey(s)] = Aliases /\ searchPath[s] = "Attached"
    BY DEF StatementsSeeAttachments
<1>2. CASE \E p \in Pool : s = PooledSession(p) /\ cpc[p] = "probe"
    <2>1. PICK p \in Pool : s = PooledSession(p) /\ cpc[p] = "probe"
        BY <1>2
    <2>2. CallerAttachInv(p)
        BY DEF AttachInv
    <2>3. QED
        BY <1>0, <2>1, <2>2 DEF CallerAttachInv
<1>3. CASE s \in Queries /\ wpc[s] = "prepare"
    BY <1>0, <1>3 DEF AttachInv, WorkerAttachInv
<1>4. QED
    BY <1>1, <1>2, <1>3 DEF Preparing

(* When each connection has its own catalog (the session scope), and     *)
(* whatever statements of the engine fail, the caller of query_arrow     *)
(* probes and the worker prepares with every alias attached and the      *)
(* search path set, each detach loop finds exactly the aliases from its   *)
(* index on still attached, and a completed detach leaves nothing        *)
(* attached and the default search path: AttachInv holds in every        *)
(* reachable state.                                                       *)
THEOREM AttachInvHolds ==
    ASSUME CatalogScope = "session"
    PROVE  Spec => []AttachInv
<1>1. Init => TypeInv /\ AttachInv
    BY InitTypeInv, InitAttachInv
<1>2. TypeInv /\ AttachInv /\ [Next]_vars => (TypeInv /\ AttachInv)'
    BY NextTypeInv, NextAttachInv
<1>3. QED
    BY <1>1, <1>2, PTL DEF Spec

(* Under session scope every statement the caller probes, and every        *)
(* statement the worker prepares, runs on a connection whose catalog holds *)
(* exactly the configured attachments and whose search path names them:   *)
(* StatementsSeeAttachments holds in every reachable state.                *)
THEOREM SessionStatementsSeeAttachments ==
    ASSUME CatalogScope = "session"
    PROVE  Spec => []StatementsSeeAttachments
<1>1. Init => TypeInv /\ AttachInv
    BY InitTypeInv, InitAttachInv
<1>2. TypeInv /\ AttachInv /\ [Next]_vars => (TypeInv /\ AttachInv)'
    BY NextTypeInv, NextAttachInv
<1>3. TypeInv /\ AttachInv => StatementsSeeAttachments
    BY AttachInvStatements
<1>4. QED
    BY <1>1, <1>2, <1>3, PTL DEF Spec

(* The step predicate of DetachesFindAlias.                                 *)
DetachStep ==
    /\ \A p \in Pool :
          CallerDetach(p) => cidx[p] \in catalog[CatKey(PooledSession(p))]
    /\ \A q \in Queries :
          WorkerDetach(q) => widx[q] \in catalog[CatKey(q)]

(* In a state of AttachInv the alias a detach loop is at is attached: the *)
(* loop's catalog is the interval from its index to the last alias.        *)
LEMMA AttachInvDetachStep ==
    ASSUME CatalogScope = "session", TypeInv, AttachInv
    PROVE  DetachStep
<1>0. /\ cidx \in [Pool -> 0 .. NAtt]
      /\ widx \in [Queries -> 0 .. NAtt]
      /\ NAtt \in Nat
      /\ \A t \in Sessions : CatKey(t) = t
      /\ \A p \in Pool : PooledSession(p) \in Sessions
      /\ Queries \subseteq Sessions
    BY AttTypes
<1>1. ASSUME NEW p \in Pool, CallerDetach(p)
      PROVE  cidx[p] \in catalog[CatKey(PooledSession(p))]
    BY <1>0, <1>1 DEF CallerDetach, AttachInv, CallerAttachInv
<1>2. ASSUME NEW q \in Queries, WorkerDetach(q) PROVE widx[q] \in catalog[CatKey(q)]
    BY <1>0, <1>2 DEF WorkerDetach, AttachInv, WorkerAttachInv
<1>3. QED
    BY <1>1, <1>2 DEF DetachStep

(* When each connection has its own catalog, every DETACH of query_arrow's *)
(* detach loops, on the pooled connection or on a clone, names an alias    *)
(* attached there, so only an error of the engine can stop such a loop:  *)
(* DetachesFindAlias holds of every behaviour.                            *)
THEOREM SessionDetachesFindAlias ==
    ASSUME CatalogScope = "session"
    PROVE  Spec => DetachesFindAlias
<1>1. Init => TypeInv /\ AttachInv
    BY InitTypeInv, InitAttachInv
<1>2. TypeInv /\ AttachInv /\ [Next]_vars => (TypeInv /\ AttachInv)'
    BY NextTypeInv, NextAttachInv
<1>3. TypeInv /\ AttachInv => [DetachStep]_vars
    BY AttachInvDetachStep
<1>4. QED
    BY <1>1, <1>2, <1>3, PTL DEF Spec, DetachesFindAlias, DetachStep

(* The clone step of the caller and the Ok of the worker come right after *)
(* the detach loop has emptied the catalog and the path was reset.        *)
LEMMA AttachInvRestores ==
    ASSUME CatalogScope = "session", TypeInv, AttachInv
    PROVE  DetachRestores
<1>0. /\ \A t \in Sessions : CatKey(t) = t
      /\ \A p \in Pool : PooledSession(p) \in Sessions
      /\ Queries \subseteq Sessions
    BY AttTypes
<1>1. ASSUME NEW p \in Pool, cpc[p] = "clone"
      PROVE  /\ catalog[CatKey(PooledSession(p))] = {}
             /\ searchPath[PooledSession(p)] = "Default"
    BY <1>1 DEF AttachInv, CallerAttachInv
<1>2. ASSUME NEW q \in Queries, wpc[q] = "ok"
      PROVE  catalog[CatKey(q)] = {} /\ searchPath[q] = "Default"
    BY <1>2 DEF AttachInv, WorkerAttachInv
<1>3. QED
    BY <1>1, <1>2 DEF DetachRestores

(* When each connection has its own catalog, a query_arrow call that has  *)
(* reached try_clone has left its pooled connection with nothing attached *)
(* and the default search path, and so has a worker that returned Ok on   *)
(* its clone, whatever earlier failed calls left behind: DetachRestores    *)
(* holds in every reachable state.                                         *)
THEOREM SessionDetachRestores ==
    ASSUME CatalogScope = "session"
    PROVE  Spec => []DetachRestores
<1>1. Init => TypeInv /\ AttachInv
    BY InitTypeInv, InitAttachInv
<1>2. TypeInv /\ AttachInv /\ [Next]_vars => (TypeInv /\ AttachInv)'
    BY NextTypeInv, NextAttachInv
<1>3. TypeInv /\ AttachInv => DetachRestores
    BY AttachInvRestores
<1>4. QED
    BY <1>1, <1>2, <1>3, PTL DEF Spec

=============================================================================
