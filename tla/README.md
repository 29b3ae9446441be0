# Formal models of the DuckDB connection layer

This directory holds TLA+ models of
`src/core/src/sql/db_connection_pool/dbconnection/duckdbconn.rs`, the TLC configurations that check them, and TLAPS proofs about them.
All line numbers below refer to that file.

## 1. The system: inventory

| Part | Code | State | Operations |
|---|---|---|---|
| Attachment manager `DuckDBAttachments` | 66-172 | aliases attached in the engine; each connection's `search_path` | `new` (HashSet dedup, alias names), `attach` (ATTACH IF NOT EXISTS per alias, then SET search_path; returns early on the first error), `detach` (DETACH per alias, then RESET; returns early on the first error) |
| Query bridge `query_arrow` + `blocking_channel_send` | 364-445, 458-466 | pooled connection, its clone, a bounded mpsc channel (capacity 4), the worker's join handle, the consumer stream | caller: attach, schema probe, detach, try_clone, spawn; worker: attach on the clone, prepare, stream batches with `blocking_send`, detach; stream: drain the channel, await the join handle, or be dropped |
| Schema reconciler | 183-208 | none (pure) | recursive `is_data_type_supported`, `is_field_supported`, and `handle_unsupported_schema` (outside `src/`) |
| Table-reference classifier | 469-504 | none (pure) | `is_table_function`, `flatten_table_function_name` |
| Facade metadata and DDL | 210-362, 447-455 | none of its own | `tables`, `schemas`, `get_schema`, `execute`: one statement on the pooled connection, no attach; builders and the `attach`/`detach` passthroughs |

**How they interact.** One `Arc<DuckDBAttachments>` is shared by every connection that the pool hands out, so every connection uses the same alias names.
`query_arrow` drives the manager twice:
- on the pooled connection, for the schema probe;
- on a `try_clone` of that connection, inside a `spawn_blocking` worker.

The worker hands its batches to the async stream through the channel.

**Hard behaviours.**
- Several pooled connections run `query_arrow` at once, each with its own worker and consumer, so their steps interleave.
- Every `?` is an early return. The ones that matter sit in the attach loop, in the probe, in DETACH, in try_clone, in prepare and in the channel send.
- The consumer may drop the stream at any time.
- The channel is bounded, and the worker blocks when it is full.
- The stream awaits the join handle only after the channel is closed.
- Whether an ATTACH made on one connection is seen by the others is decided by the engine. DuckDB keeps attached databases per database instance, but the comment at line 393 reads it as per connection. The model therefore keeps both readings, as the constant `CatalogScope`.

The hazards, each at the line where it bites, are listed in `PROJECT.json`.

## 2. Modules

| Module | Models | Contents |
|---|---|---|
| `Attachments` | `DuckDBAttachments` | constants `AttachmentList`, `Sessions`, `CatalogScope`; variables `catalog` (catalog key -> attached aliases) and `searchPath` (connection -> `Default`/`Attached`); one operator per engine statement |
| `QueryBridge` | `query_arrow`, `blocking_channel_send`, the stream | extends `Attachments`; callers over the pool `Pool`, queries `<<p, n>>` (the n-th call on connection p, whose clone is session `<<p, n>>`); the constant `Placeholders` is the number of `?` in the statement, each bound by `params` |
| `StreamSpec` | what the returned stream promises | abstract streams: `Open`, `Plan` (the result's size, fixed before anything is yielded), `Emit` (the next batch), `Complete` (only after the last), `Fail`, `Close`; weak fairness on ending |
| `QueryBridgeRefinement` | - | the refinement mapping from `QueryBridge` to `StreamSpec`, the strengthening `RefInv`, and the TLAPS proof of the safety part of the refinement |
| `Facade` | `tables`, `schemas`, `get_schema`, `execute` | extends `QueryBridge`; each call runs one statement on an idle pooled connection and records in `seen` the aliases and search path it saw |
| `SchemaReconciler` | `is_data_type_supported`, `is_field_supported`, `get_schema`'s use of `handle_unsupported_schema` | Arrow types as trees of bounded depth, schemas as sequences of them; one `GetSchema` action |
| `TableFunction` | `is_table_function`, `flatten_table_function_name`, `get_schema`'s quoting choice | bare names as strings over a seven-character alphabet; the DuckDB tokenizer and `parse_table_factor` on the grammar that alphabet reaches |
| `MC_QueryBridge`, `MC_Facade` | - | model values for the pool and the paths, and `AttachmentList = <<db1, db2, db1>>` (a duplicate, so the HashSet matters); `MC_QueryBridge` extends the proof modules so runs can check `DeliveryInv`, `RefInv` and `AttachInv` |
| `QueryBridgeProofs` | - | the TLAPS proof of type correctness |
| `QueryBridgeDelivery` | - | the inductive invariant `DeliveryInv` and the TLAPS proofs of `DeliveryInv`, `InOrderDelivery` and `NoSilentTruncation` |
| `QueryBridgeAttach` | - | the inductive invariant `AttachInv` of the attach/detach sequence and the TLAPS proofs, under session scope, of `AttachInv`, `StatementsSeeAttachments`, `DetachesFindAlias` and `DetachRestores` |

**Correspondence in `QueryBridge`.**

The caller's program counter `cpc[p]` steps through these actions:

| Action | Lines | What it models |
|---|---|---|
| `StartQuery` | 364-371 | the call begins |
| `CallerAttach` | 131-145 | one ATTACH per alias; on an error it returns to idle |
| `CallerSetPath` | 146-148 | SET search_path; DuckDB accepts it only with every alias attached; on an error it returns to idle |
| `CallerProbe` | 372-385 | the probe, run with no bound value; it can succeed only when the statement has no placeholder; on an error it returns to idle |
| `CallerDetach` | 155-163 | one DETACH per alias; it fails when the alias is not attached, and may fail at any time for an engine error; on an error it returns to idle without the RESET |
| `CallerResetPath` | 164-166 | RESET search_path; on an error it returns to idle with the path still set |
| `CallerSpawn` | 388-400 | try_clone and spawn_blocking |

The variable `cidx` is the loop index.

The worker's counter `wpc[q]` steps through these actions:

| Action | Lines | What it models |
|---|---|---|
| `WorkerAttach` | 399-401 | attach on the clone |
| `WorkerSetPath` | 401 | SET search_path on the clone, or an error |
| `WorkerPrepare` | 402-409 | prepare and stream_arrow with `params` bound; the batch count is chosen in 0..`MaxBatches`, or the step fails |
| `WorkerSend` | 458-466 | one `blocking_send`; it is enabled only while the channel has room, and it errors when the receiver is gone |
| `WorkerEndStream` | 410-413 | the end of the stream |
| `WorkerDetach` | 414 | one DETACH, or an error (as for the caller) |
| `WorkerResetPath` | 414-416 | RESET; the worker returns Ok, or the RESET fails and it returns the error |

The consumer stream has three actions:

| Action | Lines | What it models |
|---|---|---|
| `Recv` | 418-421 | receive the head of the channel |
| `Join` | 423-436 | allowed once the channel is empty and the worker has ended; it yields Ok or the Execution error |
| `Drop` | 438-442 | the DataFusion consumer drops the stream, which drops the receiver |

Two pieces of data are abstracted:
- a batch is its sequence number;
- SQL text is omitted, so each engine error is a nondeterministic failure disjunct: every ATTACH, SET, DETACH and RESET, the probe, the prepare and the send may fail, and the failure changes no engine state. Parameters are kept only as their number, `Placeholders`.

**The refinement mapping.** `QueryBridgeRefinement` maps the bridge to `StreamSpec`:
- the stream state is the consumer's `cstate`, with `recv` read as `open`;
- the yielded batches are `delivered`;
- the result's size is the worker's `total`.

Under this mapping:
- `CallerSpawn` is `Open`;
- `WorkerPrepare` is `Plan`;
- `Recv` is `Emit`;
- `Join` is `Complete` or `Fail`;
- `Drop` is `Close`;
- every other step stutters.

Under the mapping, the channel, the worker, the attachments and the callers disappear.

**`Facade`.** `Facade` adds `Tables`, `Schemas`, `GetSchema` and `Execute` to the bridge's next-state relation. Each is `RunStatement(p, op)`:
- it is enabled while the caller of `p` is idle, because `DuckDbConnection` is not `Sync`;
- it records the aliases visible to `p`'s session, `p`'s search path, and whether any `query_arrow` call or worker was running.

What a statement reads or writes is left out.

**`SchemaReconciler`.** A type is a record `[kind, elems]`.
- `IsDataTypeSupported` is the recursive match of lines 183-203.
- `IsFieldSupported` adds `to_duckdb_type_id`, abstracted to the constant set `MappedKinds`.
- `HandleUnsupportedSchema` is modelled from design section 4.2, because that code is outside `src/`. Under `Error` it returns an error that names the first unsupported field. Otherwise it returns the schema with the unsupported fields filtered out.
- `GetSchema` either fails its probe or returns that result.

**`TableFunction`.** The tokenizer (`Lex`) and the parser (`ObjectNameEnd`, `ArgsEnd`, `AliasEnd`, `ParseTableFactor`) are recursive functions over the name's characters. `IsTableFunction` is the Bare/Partial/Full match of lines 480-504.

## 3. Runs

The bridge runs use 2 paths in a list of 3. Most use `MaxBatches = 3` and `ChannelCapacity = 2`: the capacity is below the batch count, so the worker really blocks on a full channel. The code's capacity is 4; the protocol does not depend on the value. `Placeholders = 0` everywhere except `bridge_params`.

| Run | cfg | Bounds | Checks | Result |
|---|---|---|---|---|
| bridge_session | `MC_QueryBridge_session.cfg` | 2 pooled connections, 1 call each, session scope | `TypeOK`, `InOrderDelivery` (delivered ++ in-flight batches are exactly 1..k, and k = sent while the receiver lives), `NoSilentTruncation` (a stream ends Ok only if the worker returned Ok after delivering every batch), `StatementsSeeAttachments` (probe and prepare run with every alias attached and the search_path set), `RefInv`, `AttachInv` (the inductive invariant of the attach proofs), `DetachesFindAlias` (every DETACH of either detach loop names an alias attached on that connection, so only an engine error stops the loop), `DetachRestores` (a call that reaches try_clone, and a worker that returns Ok, leave their connection with nothing attached and the default path), `WorkerReleased` (a dropped stream leads to its worker ending), `StreamEnds` (a receiving stream eventually ends), `StreamRefinement` (`QueryBridge` implements `StreamSpec`, fairness included) | pass |
| bridge_instance | `MC_QueryBridge_instance.cfg` | 1 connection, 2 calls, the second overlapping the first's worker and stream, instance scope | `InOrderDelivery`, `NoSilentTruncation`, `DeliveryInv` and `RefInv` (the inductive invariants of the proofs), `StreamRefinement` | pass |
| shared_catalog_detach | `MC_QueryBridge_shared_detach.cfg` | instance scope | `StatementsSeeAttachments` | violation: one call's DETACH removes the aliases another call's probe uses |
| pooled_conn_restored | `MC_QueryBridge_restored.cfg` | 1 connection, 2 calls | `PooledConnRestored` (an idle pooled connection has nothing attached and the default search_path) | violation: an attach or probe error returns without detaching |
| bridge_params | `MC_QueryBridge_params.cfg` | 1 connection, 1 call, `Placeholders = 1` | `ProbeCanSucceed` (whenever a caller reaches the probe, success is a possible outcome) | violation: the probe binds no value |
| facade_stale_path | `MC_Facade_session.cfg` | 2 connections, 1 call each, session scope | `SearchPathResolves` (a facade call that sees the attachments' search path sees every alias) | violation: a DETACH fails after an earlier one succeeded, and the RESET is skipped |
| facade_quiet_leak | `MC_Facade_instance.cfg` | instance scope | `QuietCallsSeePrimaryOnly` (with no query running anywhere, a facade call sees no alias) | violation |
| reconciler_types | `SchemaReconciler_types.cfg` | every type of depth 3 as a one-field schema | `TypeOK`, `SupportRuleAgreement` (the recursion agrees with the non-recursive rule of design 4.2), `GetSchemaContract` (kept fields, order, first error, unchanged when all supported) | pass |
| reconciler_nested | `SchemaReconciler_nested.cfg` | depth 3 | `NestedTypesSupported` (design section 3: every nested list in a surviving field obeys the rule) | violation |
| classifier | `TableFunction_classify.cfg` | every name of up to 6 characters | `ClassifiesWellFormed` (function calls are recognised exactly and written unquoted; other names are quoted) | pass |
| classifier_malformed | `TableFunction_malformed.cfg` | names of up to 4 characters | `MalformedIsPlain` (design section 8) | violation |

Each property of a passing run has a mutant in `PROJECT.json`. A mutant replaces one definition with a plausible bug, and TLC must then find that property violated under the run's cfg. Examples:
- a send that ignores the capacity, runs one batch past the end, or blocks on a closed channel;
- a receive of the newest batch, or a receive that waits for the join;
- a join that reports Ok on a worker error;
- an attach that never sets the search path;
- `any()` for `all()` in the struct arm, or a dropped type-mapper check;
- a 0-based field index in the error;
- a classifier that accepts any reference kind.

**Why these bounds.**
- Two connections are the fewest that can interleave.
- Three batches over a capacity of two exercise a full channel, a drop while the worker is blocked, and an error after partial delivery.
- Two calls on one connection let a later call observe what an earlier call left behind (`pooled_conn_restored`). They also let one connection's two streams, and its two calls' ATTACH and DETACH, interleave (`bridge_instance`).
- Two connections with two calls each exceed 15 minutes of TLC.
- Type trees of depth 3 reach a list inside a struct, a struct of structs, and a list inside a map.
- Names of 6 characters reach `a('a')`, `a.a()` and `a(a,a)`.

**Fairness.** `Spec` assumes weak fairness for every worker, every consumer and every caller:
- The worker runs on tokio's blocking pool, which runs every spawned task.
- The DataFusion executor keeps polling a stream that it has not dropped.
- A caller that is inside `query_arrow` keeps running.

Dropping a stream is not fair: a consumer may also read to the end. `StreamSpec`'s fairness (an open stream ends) follows from these under the mapping. TLC checks that in `bridge_session` and `bridge_instance`.

## 4. Findings

1. **Early returns leak attachments** (`pooled_conn_restored`, lines 372 and 379/384). The spec asks every failure path that attached to detach and reset. In the code, `?` returns before line 386, so the pooled connection goes back to the pool with aliases attached and the manager's search_path set.
2. **Shared alias names under an instance-wide catalog** (`shared_catalog_detach`, line 157). All pooled connections use one manager, so they attach and detach the same names. If DuckDB shares attachments across the connections of a database, one call's DETACH breaks a concurrent call's probe or worker, and the worker's own DETACH then fails. That failure turns a complete result into an error; `bridge_instance` shows that the error is at least reported. Whether this happens depends on engine semantics that the spec does not address.
3. **Leaked aliases stay visible to metadata calls** (`facade_quiet_leak`, line 411). Under instance scope, an early return after an attach leaves aliases attached that later `tables`/`execute` calls see, with nothing running.
4. **A failed DETACH leaves a stale search path** (`facade_stale_path`, line 161). `detach` returns on the first DETACH that fails and skips `reset_search_path`; `query_arrow` passes the error on (line 386). When an earlier DETACH of the loop succeeded, the pooled connection keeps a search path that names a detached alias, and the next `tables`/`schemas`/`get_schema`/`execute` call runs with it. Design 4.3 warns of exactly this stale path, and section 7 asks every failure path to still attempt detach and reset. This holds even with a catalog per connection.
5. **Parameterised statements fail the schema probe** (`bridge_params`, line 382). The probe runs `stmt.query_arrow([])` and binds none of `params`, while the worker binds them (line 408). The engine refuses a statement with an unbound placeholder, so every parameterised `query_arrow` fails with `UnableToGetSchema`.
6. **Map contents escape the type rule** (`reconciler_nested`, line 201). Only Struct members are recursed into, so `Map(List(Null))` survives `get_schema`. Design section 3 says nested types are checked recursively.
7. **Trailing tokens are ignored by the classifier** (`classifier_malformed`, line 493). `parse_table_factor` does not check that every token was consumed. So `a().` is classified as a table function and spliced into the probe unquoted, where design section 8 says malformed syntax is a plain table.

## 5. Proofs

Four modules hold the proofs. They are checked by `tlapm` for every value of the constants that satisfies `AttachmentsAssumption` and `BridgeAssumption`.

**`QueryBridgeProofs` proves `TypeCorrect`.** The theorem is `Spec => []TypeOK`, and the channel capacity bound `Len(chan[q]) <= ChannelCapacity` is one of its conjuncts.
- `TypeOK` alone is not inductive. `CallerSpawn` starts query `<<p, qn[p]>>`, and that query is one of `Queries` only when `qn[p] >= 1`.
- The inductive invariant is therefore `TypeInv == TypeOK /\ CallNumbered`, where `CallNumbered` says that a busy caller has a call number in `1..MaxQueries`.
- The proof has lemmas on the four engine operators of `Attachments`, `Init => TypeInv`, one step per action, and a final PTL step.

**`QueryBridgeDelivery` proves `OrderedDelivery` (`Spec => []InOrderDelivery`) and `NoTruncation` (`Spec => []NoSilentTruncation`).** Neither property is inductive. Two examples:
- `WorkerSend` appends batch `sent + 1`. That keeps the order only if the delivered batches and the buffered batches number exactly `sent`.
- `Join` ends a stream Ok. That is clean only if a worker that returned Ok has sent every batch, and the receiver was alive while it did.

The inductive invariant `DeliveryInv` adds these facts:
- `FreshCalls`: every call after the `qn[p]`-th, and the call that a busy caller is in, has not spawned its worker. So `CallerSpawn` always starts an untouched query, with its channel and stream empty and its receiver closed.
- Per query (`QueryInv`): `wpc in {detach, ok} => sent = total`; `cstate = recv => rxOpen`; and the two properties themselves.

TLC checks `DeliveryInv` in the run `bridge_instance`. The step proof has one case per action, with two frame lemmas (a step that leaves a query alone keeps `QueryInv` for it; a step that never resets a started worker keeps `FreshCalls`). The per-query arguments rest on the sequence lemmas `MoveHead`, `AppendAfterConcat`, `AppendNextBatch`, `PrefixOfBatches` and `BatchesSeq`.

**`QueryBridgeRefinement` proves `RefInvHolds` (`Spec => []RefInv`) and `Refinement` (`Spec => Stream!SafeSpec`).** The step lemma `StepRefines` shows that under `TypeInv /\ DeliveryInv /\ RefInv` every step of `Next` is a step of `StreamSpec` or leaves `<<AbsState, delivered, total>>` unchanged. Most cases need facts beyond the invariants already proved, which `RefInv` supplies per query:
- `Emit` requires `Len(delivered) < total`. `DeliveryInv` gives `Len(delivered) < sent` when the channel is non-empty (lemma `RecvSent`). The missing half is `sent <= total`.
- `Plan` requires the stream to be open or ended and nothing yielded. `RefInv` says a worker at attach or prepare has sent and yielded nothing, and a stream that was never opened has no worker.
- `Emit` also requires the received batch to be `Len(delivered) + 1`. Lemma `HeadIsNext` derives that from the prefix shape of `delivered \o chan`.
- `Open` requires an unopened stream. `FreshCalls` gives that.

TLC checks `RefInv` in `bridge_session` and `bridge_instance`. `Refinement` then follows from `Init => Stream!SInit`, the invariants and `StepRefines` by PTL.

**`QueryBridgeAttach` proves, under `CatalogScope = "session"`, `AttachInvHolds` (`Spec => []AttachInv`), `SessionStatementsSeeAttachments` (`Spec => []StatementsSeeAttachments`), `SessionDetachesFindAlias` (`Spec => DetachesFindAlias`) and `SessionDetachRestores` (`Spec => []DetachRestores`).** The hypothesis is the reading of line 393: each connection has its own catalog. Every engine statement is still free to fail. Under instance scope `StatementsSeeAttachments` is false (run `shared_catalog_detach`), and so are the other three: another connection's ATTACH or DETACH lands in the same catalog between two steps of a loop.

`StatementsSeeAttachments` is not inductive. A probe or prepare step only sees the catalog as it is, and nothing in the property says why every alias is there. The strengthening `AttachInv` records where each actor is in the sequence attach, set path, statement, detach, reset:
- `CallerAttachInv(p)`, for the pooled connection of p:
  - the probe runs with every alias attached and the path set. The SET succeeds only with every alias attached, and nothing touches the connection between the SET and the probe;
  - the detach loop has detached exactly the aliases below `cidx`, so the catalog is `cidx..NAtt-1`;
  - the clone step runs with nothing attached and the path reset.
- `WorkerAttachInv(q)`, for the clone q: the same for the worker; prepare and stream run with every alias attached; a worker that returned Ok has left nothing attached.

An idle caller is deliberately not constrained: a failed DETACH or RESET leaves the connection with any mix of aliases and path (finding 4).

The proof rests on a frame argument. The pooled session `<<p, 0>>` is touched only by caller p, and clone q only by worker q (`DistinctSessions`, `EngineFrame`). So a step of one actor keeps the invariant of every other actor (`CallerFrame`, `WorkerFrame`). A failure step changes no engine state and sends its actor to idle or err, where the invariant says nothing.

The step lemmas `CallerStep` and `WorkerStep` have one case per action:
- the probe, and the end of the stream, start the detach loop at 0 with every alias attached; the type says there is no other, so the catalog is `0..NAtt-1`;
- a successful detach step removes the lowest alias of the interval `cidx..NAtt-1` and leaves `cidx+1..NAtt-1` (lemma `IntervalDrop`). So after the loop the catalog is empty, which gives `DetachRestores` (lemma `AttachInvRestores`);
- the alias a detach step names lies in `cidx..NAtt-1`, which is the whole argument for `DetachesFindAlias` (lemma `AttachInvDetachStep`);
- `StatementsSeeAttachments` then follows (`AttachInvStatements`).

TLC checks `AttachInv` in `bridge_session`.

**Only model-checked.**
- Everything under instance scope. There `StatementsSeeAttachments`, `DetachesFindAlias` and `DetachRestores` are false: one connection's DETACH removes what another uses.
- The liveness properties `WorkerReleased` and `StreamEnds`, and the fairness part of `StreamRefinement`. Liveness under fairness and `ENABLED` are outside what TLAPS proves. For the same reason `ProbeCanSucceed` is only model-checked.
- Everything about `SchemaReconciler` and `TableFunction`, including `SupportRuleAgreement`, `GetSchemaContract`, `ClassifiesWellFormed` and the reconciler's `TypeOK`.
  - Their definitions are recursive over data: type trees, character sequences, and `SelectSeq`, the filter of `handle_unsupported_schema` and `flatten_table_function_name`.
  - Each property compares such a recursion with another definition over every input. That needs induction over the data, which the installed provers cannot do.
  - The modules also declare `RECURSIVE` operators.
  - So TLC checks them over every input up to the bound.

## 6. Not modelled

- **The builders and accessors:** `new`, `with_attachments`, `with_unsupported_type_action`, `get_underlying_conn_mut`, `as_any`, `as_sync`. They only set the fields that the models take as constants: the attachment list, the policy and the pool.
- **The `attach`/`detach` passthroughs when `attachments` is `None`.** They issue no statement, so the models assume `Some`.
- **The `Error` enum and the error texts.** An error is a result tag.
- **The full SQL grammar of the external parser.** `TableFunction` covers the part reached by names over its alphabet: letters, parentheses, quote, period, comma and space. Double-quoted identifiers, numbers and operators are outside it.
- **The r2d2 pool, tokio and DuckDB itself.** The pool appears only as the fixed set `Pool`. DuckDB appears as nondeterministic statement failures, as `CatalogScope`, and as the rule that an unbound placeholder fails a statement.
- **The unit tests (lines 505-777).** They are not models. `ClassifiesWellFormed` restates `test_is_table_function`'s expectations over all short names.
