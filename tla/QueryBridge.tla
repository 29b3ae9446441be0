---------------------------- MODULE QueryBridge ----------------------------
(***************************************************************************)
(* The sync-to-async query bridge, DuckDbConnection::query_arrow in       *)
(* duckdbconn.rs, composed with the attachment manager it calls.          *)
(*                                                                         *)
(* Three kinds of actor run concurrently:                                  *)
(*   - callers: the thread that owns a pooled connection and runs         *)
(*     query_arrow up to the spawn (attach, schema probe, detach, clone);  *)
(*   - workers: the spawn_blocking closure, one per query, running the    *)
(*     statement on the cloned connection and pushing batches into a      *)
(*     tokio mpsc channel of capacity ChannelCapacity;                     *)
(*   - consumers: the async stream! block, draining the channel and then   *)
(*     awaiting the worker's JoinHandle; the caller of the stream may     *)
(*     drop it at any time, which drops the receiver.                      *)
(*                                                                         *)
(* A pooled connection p is the session <<p, 0>>; the k-th query started  *)
(* on it runs its worker on the cloned session <<p, k>>, which also names *)
(* the query.  Batches are numbered in the order the engine yields them.  *)
(***************************************************************************)
EXTENDS Attachments

CONSTANTS
    Pool,             \* the pooled DuckDbConnections
    MaxQueries,       \* bound on the query_arrow calls per pooled connection
    MaxBatches,       \* bound on the batches one query's result yields
    ChannelCapacity,  \* the capacity given to tokio::sync::mpsc::channel (4)
    Placeholders      \* the ? placeholders of the statement; params binds each

Queries == Pool \X (1 .. MaxQueries)

PooledSession(p) == <<p, 0>>

ASSUME BridgeAssumption ==
    /\ Pool # {}
    /\ MaxQueries \in Nat \ {0}
    /\ MaxBatches \in Nat
    /\ ChannelCapacity \in Nat \ {0}
    /\ Sessions = Pool \X (0 .. MaxQueries)

CallerStates   == {"idle", "attach", "probe", "detach", "clone"}
WorkerStates   == {"none", "attach", "prepare", "stream", "detach", "ok", "err"}
ConsumerStates == {"none", "recv", "ok", "err", "dropped"}

(* The batches 1..n in the engine's order.                                 *)
Batches(n) == [i \in 1 .. n |-> i]

VARIABLES
    cpc,        \* cpc[p]: where the caller on pooled connection p is
    cidx,       \* cidx[p]: loop index of the caller's attach / detach loop
    qn,         \* qn[p]: number of query_arrow calls started on p
    wpc,        \* wpc[q]: where the worker of query q is; "ok"/"err" is its result
    widx,       \* widx[q]: loop index of the worker's attach / detach loop
    total,      \* total[q]: number of batches the engine's ArrowStream yields
    sent,       \* sent[q]: number of batches the worker has pushed
    chan,       \* chan[q]: the batches buffered in the mpsc channel
    rxOpen,     \* rxOpen[q]: the channel's receiver is alive
    delivered,  \* delivered[q]: the batches the consumer has yielded, in order
    cstate      \* cstate[q]: the consumer stream; "ok"/"err" is how it ended

bridgeVars == <<cpc, cidx, qn, wpc, widx, total, sent, chan, rxOpen, delivered, cstate>>
vars == <<catalog, searchPath, cpc, cidx, qn, wpc, widx, total, sent, chan, rxOpen, delivered, cstate>>

WorkerDone(q) == wpc[q] \in {"ok", "err"}

Init ==
    /\ AttInit
    /\ cpc = [p \in Pool |-> "idle"]
    /\ cidx = [p \in Pool |-> 0]
    /\ qn = [p \in Pool |-> 0]
    /\ wpc = [q \in Queries |-> "none"]
    /\ widx = [q \in Queries |-> 0]
    /\ total = [q \in Queries |-> 0]
    /\ sent = [q \in Queries |-> 0]
    /\ chan = [q \in Queries |-> <<>>]
    /\ rxOpen = [q \in Queries |-> FALSE]
    /\ delivered = [q \in Queries |-> <<>>]
    /\ cstate = [q \in Queries |-> "none"]

-----------------------------------------------------------------------------
(* The caller: query_arrow up to the hand-off.                             *)

workerSide == <<wpc, widx, total, sent, chan, rxOpen, delivered, cstate>>

(* query_arrow is called on p (the channel of line 370 is created here).  *)
StartQuery(p) ==
    /\ cpc[p] = "idle"
    /\ qn[p] < MaxQueries
    /\ qn' = [qn EXCEPT ![p] = @ + 1]
    /\ cpc' = [cpc EXCEPT ![p] = "attach"]
    /\ cidx' = [cidx EXCEPT ![p] = 0]
    /\ UNCHANGED <<attVars, workerSide>>

(* Mutant of CallerAttach: an error of the loop cleans up by running     *)
(* detach's loop over every alias, the ones never attached included.     *)
CallerAttachDetachOnError(p) ==
    /\ cpc[p] = "attach"
    /\ cidx[p] < NAtt
    /\ \/ /\ AttachAlias(PooledSession(p), cidx[p])
          /\ cidx' = [cidx EXCEPT ![p] = @ + 1]
          /\ UNCHANGED cpc
       \/ /\ cpc' = [cpc EXCEPT ![p] = "detach"]
          /\ cidx' = [cidx EXCEPT ![p] = 0]
          /\ UNCHANGED attVars
    /\ UNCHANGED <<qn, workerSide>>

(* One iteration of attach's loop on the pooled connection: the metadata  *)
(* check and the ATTACH either succeed, or query_arrow returns the error  *)
(* (line 372) with the aliases attached so far still attached.            *)
CallerAttach(p) ==
    /\ cpc[p] = "attach"
    /\ cidx[p] < NAtt
    /\ \/ /\ AttachAlias(PooledSession(p), cidx[p])
          /\ cidx' = [cidx EXCEPT ![p] = @ + 1]
          /\ UNCHANGED cpc
       \/ /\ cpc' = [cpc EXCEPT ![p] = "idle"]
          /\ UNCHANGED <<attVars, cidx>>
    /\ UNCHANGED <<qn, workerSide>>

(* Mutant of CallerSetPath: the attach loop returns without calling     *)
(* set_search_path.                                                        *)
CallerSetPathSkipped(p) ==
    /\ cpc[p] = "attach"
    /\ cidx[p] = NAtt
    /\ cpc' = [cpc EXCEPT ![p] = "probe"]
    /\ UNCHANGED <<attVars, cidx, qn, workerSide>>

(* After the loop, attach sets the search path; if the SET fails,         *)
(* query_arrow returns the error (line 372) with every alias attached.    *)
CallerSetPath(p) ==
    /\ cpc[p] = "attach"
    /\ cidx[p] = NAtt
    /\ \/ /\ SetSearchPath(PooledSession(p))
          /\ cpc' = [cpc EXCEPT ![p] = "probe"]
       \/ /\ cpc' = [cpc EXCEPT ![p] = "idle"]
          /\ UNCHANGED attVars
    /\ UNCHANGED <<cidx, qn, workerSide>>

(* The zero-row schema probe: prepare and query_arrow of                  *)
(* WITH fetch_schema AS (sql) ... LIMIT 0.  On error the ? returns at     *)
(* once, before the detach of line 386.  The probe is run with no bound  *)
(* value (query_arrow([])), and the engine refuses to run a statement     *)
(* with a placeholder left unbound.                                        *)
CallerProbe(p) ==
    /\ cpc[p] = "probe"
    /\ \/ /\ Placeholders = 0
          /\ cpc' = [cpc EXCEPT ![p] = "detach"]
          /\ cidx' = [cidx EXCEPT ![p] = 0]
       \/ /\ cpc' = [cpc EXCEPT ![p] = "idle"]
          /\ UNCHANGED cidx
    /\ UNCHANGED <<attVars, qn, workerSide>>

(* One iteration of detach's loop on the pooled connection: the DETACH    *)
(* succeeds, or fails -- always when the alias is not attached, and at    *)
(* any time for a reason of the engine -- and query_arrow returns the     *)
(* error (line 386) without resetting the search path.                    *)
CallerDetach(p) ==
    /\ cpc[p] = "detach"
    /\ cidx[p] < NAtt
    /\ \/ /\ DetachAlias(PooledSession(p), cidx[p])
          /\ cidx' = [cidx EXCEPT ![p] = @ + 1]
          /\ UNCHANGED cpc
       \/ /\ cpc' = [cpc EXCEPT ![p] = "idle"]
          /\ UNCHANGED <<attVars, cidx>>
    /\ UNCHANGED <<qn, workerSide>>

(* Mutant of CallerResetPath: the loop bound is off by one, so the last    *)
(* alias is never detached before the search path is reset.              *)
CallerResetPathEarly(p) ==
    /\ cpc[p] = "detach"
    /\ cidx[p] = NAtt - 1
    /\ \/ /\ ResetSearchPath(PooledSession(p))
          /\ cpc' = [cpc EXCEPT ![p] = "clone"]
       \/ /\ cpc' = [cpc EXCEPT ![p] = "idle"]
          /\ UNCHANGED attVars
    /\ UNCHANGED <<cidx, qn, workerSide>>

(* After the loop, detach resets the search path; if the RESET fails,     *)
(* query_arrow returns the error (line 386) with the search path still    *)
(* naming the aliases.                                                     *)
CallerResetPath(p) ==
    /\ cpc[p] = "detach"
    /\ cidx[p] = NAtt
    /\ \/ /\ ResetSearchPath(PooledSession(p))
          /\ cpc' = [cpc EXCEPT ![p] = "clone"]
       \/ /\ cpc' = [cpc EXCEPT ![p] = "idle"]
          /\ UNCHANGED attVars
    /\ UNCHANGED <<cidx, qn, workerSide>>

(* try_clone, then run_sync_with_tokio(create_stream): spawn_blocking     *)
(* starts the worker on the clone and the stream is handed back.  A       *)
(* failed try_clone returns the error.                                     *)
CallerSpawn(p) ==
    /\ cpc[p] = "clone"
    /\ cpc' = [cpc EXCEPT ![p] = "idle"]
    /\ \/ LET q == <<p, qn[p]>> IN
            /\ wpc' = [wpc EXCEPT ![q] = "attach"]
            /\ widx' = [widx EXCEPT ![q] = 0]
            /\ rxOpen' = [rxOpen EXCEPT ![q] = TRUE]
            /\ cstate' = [cstate EXCEPT ![q] = "recv"]
            /\ UNCHANGED <<total, sent, chan, delivered>>
       \/ UNCHANGED workerSide
    /\ UNCHANGED <<attVars, cidx, qn>>

Caller(p) ==
    \/ CallerAttach(p)
    \/ CallerSetPath(p)
    \/ CallerProbe(p)
    \/ CallerDetach(p)
    \/ CallerResetPath(p)
    \/ CallerSpawn(p)

-----------------------------------------------------------------------------
(* The worker: the spawn_blocking closure on the cloned session q.        *)

consumerSide == <<delivered, cstate>>
callerSide == <<cpc, cidx, qn>>

(* One iteration of attach's loop on the clone; an error ends the worker. *)
WorkerAttach(q) ==
    /\ wpc[q] = "attach"
    /\ widx[q] < NAtt
    /\ \/ /\ AttachAlias(q, widx[q])
          /\ widx' = [widx EXCEPT ![q] = @ + 1]
          /\ UNCHANGED wpc
       \/ /\ wpc' = [wpc EXCEPT ![q] = "err"]
          /\ UNCHANGED <<attVars, widx>>
    /\ UNCHANGED <<total, sent, chan, rxOpen, consumerSide, callerSide>>

(* Mutant of WorkerSetPath: the attach loop returns without calling      *)
(* set_search_path.                                                        *)
WorkerSetPathSkipped(q) ==
    /\ wpc[q] = "attach"
    /\ widx[q] = NAtt
    /\ wpc' = [wpc EXCEPT ![q] = "prepare"]
    /\ UNCHANGED <<attVars, widx, total, sent, chan, rxOpen, consumerSide, callerSide>>

(* attach sets the clone's search path; a failed SET ends the worker.     *)
WorkerSetPath(q) ==
    /\ wpc[q] = "attach"
    /\ widx[q] = NAtt
    /\ \/ /\ SetSearchPath(q)
          /\ wpc' = [wpc EXCEPT ![q] = "prepare"]
       \/ /\ wpc' = [wpc EXCEPT ![q] = "err"]
          /\ UNCHANGED attVars
    /\ UNCHANGED <<widx, total, sent, chan, rxOpen, consumerSide, callerSide>>

(* conn.prepare(sql) and stmt.stream_arrow(params, schema): either fails, *)
(* or yields an ArrowStream of some number of batches.                     *)
WorkerPrepare(q) ==
    /\ wpc[q] = "prepare"
    /\ \/ \E n \in 0 .. MaxBatches :
            /\ total' = [total EXCEPT ![q] = n]
            /\ wpc' = [wpc EXCEPT ![q] = "stream"]
       \/ /\ wpc' = [wpc EXCEPT ![q] = "err"]
          /\ UNCHANGED total
    /\ UNCHANGED <<attVars, widx, sent, chan, rxOpen, consumerSide, callerSide>>

(* Mutants of WorkerSend: the capacity guard dropped (a send that never  *)
(* blocks), and a send that waits for room without noticing the closed  *)
(* receiver.                                                              *)
WorkerSendUnbounded(q) ==
    /\ wpc[q] = "stream"
    /\ sent[q] < total[q]
    /\ \/ /\ ~rxOpen[q]
          /\ wpc' = [wpc EXCEPT ![q] = "err"]
          /\ UNCHANGED <<sent, chan>>
       \/ /\ rxOpen[q]
          /\ chan' = [chan EXCEPT ![q] = Append(@, sent[q] + 1)]
          /\ sent' = [sent EXCEPT ![q] = @ + 1]
          /\ UNCHANGED wpc
    /\ UNCHANGED <<attVars, widx, total, rxOpen, consumerSide, callerSide>>

WorkerSendBlocksOnClosed(q) ==
    /\ wpc[q] = "stream"
    /\ sent[q] < total[q]
    /\ rxOpen[q]
    /\ Len(chan[q]) < ChannelCapacity
    /\ chan' = [chan EXCEPT ![q] = Append(@, sent[q] + 1)]
    /\ sent' = [sent EXCEPT ![q] = @ + 1]
    /\ UNCHANGED <<attVars, wpc, widx, total, rxOpen, consumerSide, callerSide>>

(* Mutant of WorkerSend: the loop runs one batch past the end of the      *)
(* ArrowStream.                                                             *)
WorkerSendPastEnd(q) ==
    /\ wpc[q] = "stream"
    /\ sent[q] <= total[q]
    /\ \/ /\ ~rxOpen[q]
          /\ wpc' = [wpc EXCEPT ![q] = "err"]
          /\ UNCHANGED <<sent, chan>>
       \/ /\ rxOpen[q]
          /\ Len(chan[q]) < ChannelCapacity
          /\ chan' = [chan EXCEPT ![q] = Append(@, sent[q] + 1)]
          /\ sent' = [sent EXCEPT ![q] = @ + 1]
          /\ UNCHANGED wpc
    /\ UNCHANGED <<attVars, widx, total, rxOpen, consumerSide, callerSide>>

(* blocking_channel_send of the next batch: fails with a ChannelError     *)
(* once the receiver is gone, blocks while the channel is full.            *)
WorkerSend(q) ==
    /\ wpc[q] = "stream"
    /\ sent[q] < total[q]
    /\ \/ /\ ~rxOpen[q]
          /\ wpc' = [wpc EXCEPT ![q] = "err"]
          /\ UNCHANGED <<sent, chan>>
       \/ /\ rxOpen[q]
          /\ Len(chan[q]) < ChannelCapacity
          /\ chan' = [chan EXCEPT ![q] = Append(@, sent[q] + 1)]
          /\ sent' = [sent EXCEPT ![q] = @ + 1]
          /\ UNCHANGED wpc
    /\ UNCHANGED <<attVars, widx, total, rxOpen, consumerSide, callerSide>>

(* The for loop over the ArrowStream ends.                                 *)
WorkerEndStream(q) ==
    /\ wpc[q] = "stream"
    /\ sent[q] = total[q]
    /\ wpc' = [wpc EXCEPT ![q] = "detach"]
    /\ widx' = [widx EXCEPT ![q] = 0]
    /\ UNCHANGED <<attVars, total, sent, chan, rxOpen, consumerSide, callerSide>>

(* One iteration of detach's loop on the clone; a failed DETACH (of an    *)
(* alias not attached, or for a reason of the engine) ends the worker.    *)
WorkerDetach(q) ==
    /\ wpc[q] = "detach"
    /\ widx[q] < NAtt
    /\ \/ /\ DetachAlias(q, widx[q])
          /\ widx' = [widx EXCEPT ![q] = @ + 1]
          /\ UNCHANGED wpc
       \/ /\ wpc' = [wpc EXCEPT ![q] = "err"]
          /\ UNCHANGED <<attVars, widx>>
    /\ UNCHANGED <<total, sent, chan, rxOpen, consumerSide, callerSide>>

(* reset_search_path, then the closure returns Ok(()); a failed RESET     *)
(* ends the worker with the error.                                         *)
WorkerResetPath(q) ==
    /\ wpc[q] = "detach"
    /\ widx[q] = NAtt
    /\ \/ /\ ResetSearchPath(q)
          /\ wpc' = [wpc EXCEPT ![q] = "ok"]
       \/ /\ wpc' = [wpc EXCEPT ![q] = "err"]
          /\ UNCHANGED attVars
    /\ UNCHANGED <<widx, total, sent, chan, rxOpen, consumerSide, callerSide>>

Worker(q) ==
    \/ WorkerAttach(q)
    \/ WorkerSetPath(q)
    \/ WorkerPrepare(q)
    \/ WorkerSend(q)
    \/ WorkerEndStream(q)
    \/ WorkerDetach(q)
    \/ WorkerResetPath(q)

-----------------------------------------------------------------------------
(* The consumer: the stream! block and whoever polls it.                  *)

(* Mutants of Recv: taking the newest buffered batch instead of the       *)
(* oldest, and awaiting the worker before draining the channel.           *)
RecvNewest(q) ==
    /\ cstate[q] = "recv"
    /\ chan[q] # <<>>
    /\ delivered' = [delivered EXCEPT ![q] = Append(@, chan[q][Len(chan[q])])]
    /\ chan' = [chan EXCEPT ![q] = SubSeq(@, 1, Len(@) - 1)]
    /\ UNCHANGED <<attVars, callerSide, wpc, widx, total, sent, rxOpen, cstate>>

RecvAfterJoin(q) ==
    /\ cstate[q] = "recv"
    /\ chan[q] # <<>>
    /\ WorkerDone(q)
    /\ delivered' = [delivered EXCEPT ![q] = Append(@, Head(chan[q]))]
    /\ chan' = [chan EXCEPT ![q] = Tail(@)]
    /\ UNCHANGED <<attVars, callerSide, wpc, widx, total, sent, rxOpen, cstate>>

(* batch_rx.recv() returns a batch, which is yielded as Ok(batch).         *)
Recv(q) ==
    /\ cstate[q] = "recv"
    /\ chan[q] # <<>>
    /\ delivered' = [delivered EXCEPT ![q] = Append(@, Head(chan[q]))]
    /\ chan' = [chan EXCEPT ![q] = Tail(@)]
    /\ UNCHANGED <<attVars, callerSide, wpc, widx, total, sent, rxOpen, cstate>>

(* Mutant of Join: the worker's result is ignored and the stream just    *)
(* ends.                                                                  *)
JoinIgnoringResult(q) ==
    /\ cstate[q] = "recv"
    /\ chan[q] = <<>>
    /\ WorkerDone(q)
    /\ cstate' = [cstate EXCEPT ![q] = "ok"]
    /\ UNCHANGED <<attVars, callerSide, wpc, widx, total, sent, chan, rxOpen, delivered>>

(* recv() returns None once the sender, owned by the worker closure, is    *)
(* dropped; join_handle.await then yields an Execution error if the       *)
(* closure returned Err, and nothing if it returned Ok.                   *)
Join(q) ==
    /\ cstate[q] = "recv"
    /\ chan[q] = <<>>
    /\ WorkerDone(q)
    /\ cstate' = [cstate EXCEPT ![q] = wpc[q]]
    /\ UNCHANGED <<attVars, callerSide, wpc, widx, total, sent, chan, rxOpen, delivered>>

(* The stream is dropped before it ends: the receiver is dropped, which   *)
(* closes the channel and discards what it buffers.                       *)
Drop(q) ==
    /\ cstate[q] = "recv"
    /\ cstate' = [cstate EXCEPT ![q] = "dropped"]
    /\ rxOpen' = [rxOpen EXCEPT ![q] = FALSE]
    /\ chan' = [chan EXCEPT ![q] = <<>>]
    /\ UNCHANGED <<attVars, callerSide, wpc, widx, total, sent, delivered>>

Consumer(q) == Recv(q) \/ Join(q)

-----------------------------------------------------------------------------
(* Every call has returned and every stream has ended: the bounded run is  *)
(* over.                                                                   *)
Finished ==
    /\ \A p \in Pool : cpc[p] = "idle" /\ qn[p] = MaxQueries
    /\ \A q \in Queries : cstate[q] # "recv" /\ wpc[q] \notin {"attach", "prepare", "stream", "detach"}
    /\ UNCHANGED vars

Next ==
    \/ \E p \in Pool : StartQuery(p) \/ Caller(p)
    \/ \E q \in Queries : Worker(q) \/ Consumer(q) \/ Drop(q)
    \/ Finished

(* The blocking pool runs every spawned closure, and whoever holds the    *)
(* stream keeps polling it until it ends or drops it.  Starting a query   *)
(* and dropping a stream are choices of the caller and are not fair.       *)
Fairness ==
    /\ \A q \in Queries : WF_vars(Worker(q)) /\ WF_vars(Consumer(q))
    /\ \A p \in Pool : WF_vars(Caller(p))

Spec == Init /\ [][Next]_vars /\ Fairness

-----------------------------------------------------------------------------
(* Properties.                                                             *)

TypeOK ==
    /\ AttTypeOK
    /\ cpc \in [Pool -> CallerStates]
    /\ cidx \in [Pool -> 0 .. NAtt]
    /\ qn \in [Pool -> 0 .. MaxQueries]
    /\ wpc \in [Queries -> WorkerStates]
    /\ widx \in [Queries -> 0 .. NAtt]
    /\ total \in [Queries -> 0 .. MaxBatches]
    /\ sent \in [Queries -> 0 .. MaxBatches]
    /\ chan \in [Queries -> Seq(1 .. MaxBatches)]
    /\ \A q \in Queries : Len(chan[q]) <= ChannelCapacity
    /\ rxOpen \in [Queries -> BOOLEAN]
    /\ delivered \in [Queries -> Seq(1 .. MaxBatches)]
    /\ cstate \in [Queries -> ConsumerStates]

(* Batches reach the consumer in the order the engine produced them, none *)
(* lost or repeated: what the stream has yielded followed by what the     *)
(* channel holds is exactly the first batches of the result, and while    *)
(* the receiver lives it is every batch the worker has pushed.  It is     *)
(* about the hand-off between blocking_channel_send in the worker and     *)
(* batch_rx.recv() in the stream.                                          *)
InOrderDelivery ==
    \A q \in Queries :
        LET inFlight == delivered[q] \o chan[q] IN
            /\ inFlight = Batches(Len(inFlight))
            /\ rxOpen[q] => Len(inFlight) = sent[q]

(* A stream that ends without an error has yielded every batch of the     *)
(* result and its worker succeeded: an error on the worker (attach,       *)
(* prepare, send or detach) is never swallowed into a short, clean        *)
(* stream.  It is about the drain-then-join order of the stream! block    *)
(* and the match on join_handle.await.                                     *)
NoSilentTruncation ==
    \A q \in Queries :
        cstate[q] = "ok" => /\ wpc[q] = "ok"
                            /\ delivered[q] = Batches(total[q])

(* A statement is only run with every attachment visible: when the caller *)
(* probes the schema and when the worker prepares the query, all aliases   *)
(* are attached in the catalog that connection sees and its search path   *)
(* names them.  It is about attach running to completion before the      *)
(* statement, on the pooled connection and again on the clone.           *)
Preparing(s) ==
    \/ \E p \in Pool : s = PooledSession(p) /\ cpc[p] = "probe"
    \/ s \in Queries /\ wpc[s] = "prepare"

StatementsSeeAttachments ==
    \A s \in Sessions :
        Preparing(s) => /\ catalog[CatKey(s)] = Aliases
                        /\ searchPath[s] = "Attached"

(* Every DETACH that query_arrow issues names an alias that is attached  *)
(* on that connection, so the only way its detach loop can stop early and *)
(* leave the remaining aliases and the search path behind is an error of *)
(* the engine, never the "unknown database" error of line 161 (through    *)
(* lines 386 and 414).  It is about each loop detaching exactly what its  *)
(* attach loop attached, on the same connection, and nobody detaching it *)
(* in between.                                                             *)
DetachesFindAlias ==
    [][/\ \A p \in Pool :
            CallerDetach(p) => cidx[p] \in catalog[CatKey(PooledSession(p))]
       /\ \A q \in Queries :
            WorkerDetach(q) => widx[q] \in catalog[CatKey(q)]]_vars

(* detach() returning Ok leaves its connection as the pool first handed   *)
(* it out: a caller that has reached try_clone (line 392), and a worker   *)
(* that has returned Ok, see no attached alias and the default search     *)
(* path, even when an earlier failed call had left aliases behind.  It is *)
(* about the detach loop running over every alias after attach's loop     *)
(* and nobody attaching on that connection in between.                    *)
DetachRestores ==
    /\ \A p \in Pool :
          cpc[p] = "clone" => /\ catalog[CatKey(PooledSession(p))] = {}
                              /\ searchPath[PooledSession(p)] = "Default"
    /\ \A q \in Queries :
          wpc[q] = "ok" => catalog[CatKey(q)] = {} /\ searchPath[q] = "Default"

(* A pooled connection that query_arrow has returned from is back in its   *)
(* default state -- search path reset and nothing attached -- so the next *)
(* user of the connection (tables, schemas, get_schema, execute, or the   *)
(* pool) resolves names as if no attachment existed.  The spec asks for   *)
(* this on every path, error paths included (sections 4.3, 4.5 and 7).    *)
PooledConnRestored ==
    \A p \in Pool :
        cpc[p] = "idle" => /\ searchPath[PooledSession(p)] = "Default"
                           /\ catalog[CatKey(PooledSession(p))] = {}

(* A dropped stream does not leak its worker: once the receiver is gone,  *)
(* the blocking closure eventually returns.  Spec section 8.               *)
WorkerReleased ==
    \A q \in Queries : cstate[q] = "dropped" ~> WorkerDone(q)

(* Every stream that is polled ends: it is exhausted, fails, or is         *)
(* dropped, and never hangs on the channel or the join.                   *)
StreamEnds ==
    \A q \in Queries : cstate[q] = "recv" ~> cstate[q] \in {"ok", "err", "dropped"}

(* The design (4.4) takes a statement with its bound parameter values and *)
(* derives the result's schema from a zero-row probe of that statement:   *)
(* whenever a caller reaches the probe, the probe can succeed -- only an  *)
(* error of the engine, never the way query_arrow calls it, makes it     *)
(* fail.  It is about the probe binding no value (query_arrow([]), line  *)
(* 382) while the worker binds params (line 408).                          *)
ProbeCanSucceed ==
    \A p \in Pool : cpc[p] = "probe" => ENABLED (CallerProbe(p) /\ cpc'[p] = "detach")

=============================================================================
