----------------------- MODULE QueryBridgeRefinement -----------------------
(***************************************************************************)
(* QueryBridge implements StreamSpec: under the mapping below every step  *)
(* of the bridge is a step of the abstract stream of its query or leaves  *)
(* every abstract stream alone.  The abstract stream is the consumer's    *)
(* state, what it has yielded, and the number of batches the worker's     *)
(* ArrowStream yields.                                                     *)
(***************************************************************************)
EXTENDS QueryBridgeDelivery, TLAPS

(* The consumer's stream as the reader sees it: receiving is open.        *)
StreamOf(c) == IF c = "recv" THEN "open" ELSE c

AbsState == [q \in Queries |-> StreamOf(cstate[q])]

Stream == INSTANCE StreamSpec WITH
    Streams <- Queries,
    sstate <- AbsState,
    out <- delivered,
    size <- total

(* The stream query_arrow returns behaves as StreamSpec says: it yields  *)
(* the batches of the result in order, ends cleanly only after the last, *)
(* and, while it is polled, ends.  It is about the channel hand-off, the *)
(* drain-then-join order of the stream! block and blocking_channel_send. *)
StreamRefinement == Stream!SSpec

(* What the proof of the safety part needs beyond DeliveryInv: a worker   *)
(* never sends more than its result has; before its ArrowStream exists   *)
(* nothing was sent or yielded; and a stream that was never opened has no *)
(* worker.                                                                 *)
RInv(q) ==
    /\ sent[q] <= total[q]
    /\ wpc[q] \in {"none", "attach", "prepare"} => sent[q] = 0 /\ delivered[q] = <<>>
    /\ cstate[q] = "none" => wpc[q] = "none"

RefInv == \A q \in Queries : RInv(q)

-----------------------------------------------------------------------------
(* RefInv is inductive relative to TypeInv /\ DeliveryInv.                 *)

LEMMA RInvFrame ==
    ASSUME NEW q, RInv(q), QueryUnchanged(q)
    PROVE  RInv(q)'
BY DEF RInv, QueryUnchanged

LEMMA InitRefInv == Init => RefInv
BY DEF Init, RefInv, RInv

(* A sum with a positive second term exceeds its first.                  *)
LEMMA LtSum ==
    ASSUME NEW x \in Nat, NEW y \in Nat, y > 0, NEW z, z = x + y
    PROVE  x < z
OBVIOUS

(* A stream that yields a batch has a worker that has sent one.            *)
LEMMA RecvSent ==
    ASSUME TypeInv, DeliveryInv, NEW q \in Queries,
           cstate[q] = "recv", chan[q] # <<>>
    PROVE  Len(delivered[q]) < sent[q]
<1>1. /\ delivered[q] \in Seq(1 .. MaxBatches)
      /\ chan[q] \in Seq(1 .. MaxBatches)
    BY DEF TypeInv, TypeOK
<1>2. Len(delivered[q] \o chan[q]) = sent[q]
    BY DEF DeliveryInv, QueryInv
<1>3. Len(delivered[q] \o chan[q]) = Len(delivered[q]) + Len(chan[q])
    BY <1>1, ConcatProperties
<1>4. Len(chan[q]) > 0
    BY <1>1, EmptySeq, LenProperties
<1>5. Len(delivered[q]) \in Nat
    BY <1>1, LenProperties
<1>6. sent[q] = Len(delivered[q]) + Len(chan[q])
    BY <1>2, <1>3
<1>7. Len(chan[q]) \in Nat
    BY <1>1, LenProperties
<1>8. QED
    BY <1>4, <1>5, <1>6, <1>7, LtSum

LEMMA NextRefInv == TypeInv /\ DeliveryInv /\ RefInv /\ [Next]_vars => RefInv'
<1> SUFFICES ASSUME TypeInv, DeliveryInv, RefInv, [Next]_vars PROVE RefInv'
    OBVIOUS
<1>b. /\ wpc \in [Queries -> WorkerStates]
      /\ total \in [Queries -> 0 .. MaxBatches]
      /\ sent \in [Queries -> 0 .. MaxBatches]
      /\ cstate \in [Queries -> ConsumerStates]
      /\ rxOpen \in [Queries -> BOOLEAN]
      /\ delivered \in [Queries -> Seq(1 .. MaxBatches)]
      /\ chan \in [Queries -> Seq(1 .. MaxBatches)]
      /\ \A p \in Pool : cpc[p] # "idle" => qn[p] \in 1 .. MaxQueries
    BY DEF TypeInv, TypeOK, CallNumbered
<1>d. /\ FreshCalls
      /\ \A q \in Queries : QueryInv(q) /\ RInv(q)
    BY DEF DeliveryInv, RefInv
(* A step of query q0 alone keeps RefInv once it keeps RInv(q0).          *)
<1>f. ASSUME NEW q0 \in Queries,
             \A x \in Queries \ {q0} : QueryUnchanged(x),
             RInv(q0)'
      PROVE  RefInv'
    BY <1>f, <1>d, RInvFrame DEF RefInv
<1>1. ASSUME NEW p \in Pool,
             \/ StartQuery(p) \/ CallerAttach(p) \/ CallerSetPath(p) \/ CallerProbe(p)
             \/ CallerDetach(p) \/ CallerResetPath(p)
      PROVE  RefInv'
    <2>1. UNCHANGED <<wpc, total, sent, chan, rxOpen, delivered, cstate>>
        BY <1>1 DEF StartQuery, CallerAttach, CallerSetPath, CallerProbe, CallerDetach,
                    CallerResetPath, workerSide
    <2>2. QED
        BY <2>1, <1>d, RInvFrame DEF RefInv, QueryUnchanged
<1>2. ASSUME NEW p \in Pool, CallerSpawn(p) PROVE RefInv'
    <2>0. /\ cpc[p] = "clone"
          /\ UNCHANGED qn
        BY <1>2 DEF CallerSpawn
    <2>1. CASE UNCHANGED workerSide
        BY <2>1, <1>d, RInvFrame DEF RefInv, QueryUnchanged, workerSide
    <2>2. CASE ~UNCHANGED workerSide
        <3>0. PICK q0 \in Queries : q0 = <<p, qn[p]>>
            BY <2>0, <1>b DEF Queries
        <3>1. /\ wpc' = [wpc EXCEPT ![q0] = "attach"]
              /\ rxOpen' = [rxOpen EXCEPT ![q0] = TRUE]
              /\ cstate' = [cstate EXCEPT ![q0] = "recv"]
              /\ UNCHANGED <<total, sent, chan, delivered>>
            BY <3>0, <2>2, <1>2 DEF CallerSpawn
        <3>2. Untouched(q0)
            <4>1. wpc[q0] = "none"
                BY <3>0, <2>0, <1>d DEF FreshCalls
            <4>2. QED
                BY <4>1, <1>d DEF QueryInv
        <3>3. \A x \in Queries \ {q0} : QueryUnchanged(x)
            BY <3>1, <1>b DEF QueryUnchanged
        <3>4. RInv(q0)'
            BY <3>1, <3>2, <1>b DEF RInv, Untouched
        <3>5. QED
            BY <3>3, <3>4, <1>f
    <2>3. QED
        BY <2>1, <2>2
<1>3. ASSUME NEW q0 \in Queries,
             \/ WorkerAttach(q0) \/ WorkerSetPath(q0) \/ WorkerEndStream(q0)
             \/ WorkerDetach(q0) \/ WorkerResetPath(q0)
      PROVE  RefInv'
    <2>1. /\ \A x \in Queries \ {q0} : QueryUnchanged(x)
          /\ UNCHANGED <<total, sent, delivered, cstate>>
          /\ wpc[q0] # "none"
          /\ wpc'[q0] \in {"attach", "prepare"} => wpc[q0] = "attach"
          /\ wpc'[q0] # "none"
        <3>1. CASE WorkerAttach(q0)
            BY <3>1, <1>b DEF WorkerAttach, QueryUnchanged, consumerSide
        <3>2. CASE WorkerSetPath(q0)
            BY <3>2, <1>b DEF WorkerSetPath, QueryUnchanged, consumerSide
        <3>3. CASE WorkerEndStream(q0)
            BY <3>3, <1>b DEF WorkerEndStream, QueryUnchanged, consumerSide
        <3>4. CASE WorkerDetach(q0)
            BY <3>4, <1>b DEF WorkerDetach, QueryUnchanged, consumerSide
        <3>5. CASE WorkerResetPath(q0)
            BY <3>5, <1>b DEF WorkerResetPath, QueryUnchanged, consumerSide
        <3>6. QED
            BY <1>3, <3>1, <3>2, <3>3, <3>4, <3>5
    <2>2. RInv(q0)'
        BY <2>1, <1>d DEF RInv
    <2>3. QED
        BY <2>1, <2>2, <1>f
<1>4. ASSUME NEW q0 \in Queries, WorkerPrepare(q0) PROVE RefInv'
    <2>1. /\ \A x \in Queries \ {q0} : QueryUnchanged(x)
          /\ UNCHANGED <<sent, delivered, cstate>>
          /\ wpc[q0] = "prepare"
          /\ wpc'[q0] \in {"stream", "err"}
          /\ total'[q0] \in 0 .. MaxBatches
        BY <1>4, <1>b DEF WorkerPrepare, QueryUnchanged, consumerSide
    <2>2. sent[q0] = 0
        BY <2>1, <1>d DEF RInv
    <2>3. RInv(q0)'
        BY <2>1, <2>2, <1>d DEF RInv
    <2>4. QED
        BY <2>1, <2>3, <1>f
<1>5. ASSUME NEW q0 \in Queries, WorkerSend(q0) PROVE RefInv'
    <2>1. /\ \A x \in Queries \ {q0} : QueryUnchanged(x)
          /\ UNCHANGED <<total, delivered, cstate>>
          /\ wpc[q0] = "stream"
          /\ wpc'[q0] \in {"stream", "err"}
          /\ sent[q0] < total[q0]
          /\ sent'[q0] \in {sent[q0], sent[q0] + 1}
        BY <1>5, <1>b DEF WorkerSend, QueryUnchanged, consumerSide
    <2>2. RInv(q0)'
        BY <2>1, <1>b, <1>d DEF RInv
    <2>3. QED
        BY <2>1, <2>2, <1>f
<1>6. ASSUME NEW q0 \in Queries, Recv(q0) PROVE RefInv'
    <2>1. /\ \A x \in Queries \ {q0} : QueryUnchanged(x)
          /\ UNCHANGED <<wpc, total, sent, cstate>>
          /\ cstate[q0] = "recv"
          /\ chan[q0] # <<>>
        BY <1>6, <1>b DEF Recv, QueryUnchanged
    <2>2. sent[q0] # 0
        BY <2>1, <1>b, RecvSent
    <2>3. RInv(q0)'
        BY <2>1, <2>2, <1>d DEF RInv
    <2>4. QED
        BY <2>1, <2>3, <1>f
<1>7. ASSUME NEW q0 \in Queries, Join(q0) \/ Drop(q0) PROVE RefInv'
    <2>1. /\ \A x \in Queries \ {q0} : QueryUnchanged(x)
          /\ UNCHANGED <<wpc, total, sent, delivered>>
          /\ cstate'[q0] \in {"ok", "err", "dropped"}
        <3>1. CASE Join(q0)
            BY <3>1, <1>b DEF Join, WorkerDone, QueryUnchanged
        <3>2. CASE Drop(q0)
            BY <3>2, <1>b DEF Drop, QueryUnchanged
        <3>3. QED
            BY <1>7, <3>1, <3>2
    <2>2. RInv(q0)'
        BY <2>1, <1>d DEF RInv
    <2>3. QED
        BY <2>1, <2>2, <1>f
<1>8. CASE Finished \/ UNCHANGED vars
    <2>1. UNCHANGED vars
        BY <1>8 DEF Finished
    <2>2. QED
        BY <2>1, <1>d, RInvFrame DEF vars, RefInv, QueryUnchanged
<1>9. QED
    BY <1>1, <1>2, <1>3, <1>4, <1>5, <1>6, <1>7, <1>8 DEF Next, Caller, Worker, Consumer

-----------------------------------------------------------------------------
(* Every step of the bridge is a step of StreamSpec or leaves its state   *)
(* alone.                                                                  *)

(* The oldest buffered batch is the one after those already yielded.      *)
LEMMA HeadIsNext ==
    ASSUME NEW S, NEW d \in Seq(S), NEW c \in Seq(S), c # <<>>,
           d \o c = Batches(Len(d \o c))
    PROVE  Head(c) = Len(d) + 1
<1>1. /\ Len(d) \in Nat
      /\ Len(c) \in Nat
      /\ Len(c) > 0
    BY EmptySeq, LenProperties
<1>2. Len(d) + 1 \in 1 .. Len(d) + Len(c)
    BY <1>1
<1>3. /\ Len(d \o c) = Len(d) + Len(c)
      /\ (d \o c)[Len(d) + 1] = c[1]
    BY <1>1, <1>2, ConcatProperties
<1>4. Batches(Len(d \o c))[Len(d) + 1] = Len(d) + 1
    BY <1>2, <1>3 DEF Batches
<1>5. QED
    BY <1>3, <1>4

(* A step that changes no consumer state, yielded batch or result size is *)
(* a stuttering step of StreamSpec.                                        *)
LEMMA AbsStutter ==
    ASSUME UNCHANGED <<cstate, delivered, total>>
    PROVE  [Stream!SNext]_Stream!svars
BY DEF Stream!svars, AbsState

LEMMA StepRefines ==
    TypeInv /\ DeliveryInv /\ RefInv /\ [Next]_vars => [Stream!SNext]_Stream!svars
<1> SUFFICES ASSUME TypeInv, DeliveryInv, RefInv, [Next]_vars
             PROVE  [Stream!SNext]_Stream!svars
    OBVIOUS
<1>b. /\ wpc \in [Queries -> WorkerStates]
      /\ total \in [Queries -> 0 .. MaxBatches]
      /\ sent \in [Queries -> 0 .. MaxBatches]
      /\ cstate \in [Queries -> ConsumerStates]
      /\ delivered \in [Queries -> Seq(1 .. MaxBatches)]
      /\ chan \in [Queries -> Seq(1 .. MaxBatches)]
      /\ \A p \in Pool : cpc[p] # "idle" => qn[p] \in 1 .. MaxQueries
    BY DEF TypeInv, TypeOK, CallNumbered
<1>d. /\ FreshCalls
      /\ \A q \in Queries : QueryInv(q) /\ RInv(q)
    BY DEF DeliveryInv, RefInv
<1>1. ASSUME NEW p \in Pool,
             \/ StartQuery(p) \/ CallerAttach(p) \/ CallerSetPath(p) \/ CallerProbe(p)
             \/ CallerDetach(p) \/ CallerResetPath(p)
      PROVE  [Stream!SNext]_Stream!svars
    BY <1>1, AbsStutter DEF StartQuery, CallerAttach, CallerSetPath, CallerProbe,
                            CallerDetach, CallerResetPath, workerSide
<1>2. ASSUME NEW p \in Pool, CallerSpawn(p) PROVE [Stream!SNext]_Stream!svars
    <2>0. cpc[p] = "clone"
        BY <1>2 DEF CallerSpawn
    <2>1. CASE UNCHANGED workerSide
        BY <2>1, AbsStutter DEF workerSide
    <2>2. CASE ~UNCHANGED workerSide
        <3>0. PICK q0 \in Queries : q0 = <<p, qn[p]>>
            BY <2>0, <1>b DEF Queries
        <3>1. /\ cstate' = [cstate EXCEPT ![q0] = "recv"]
              /\ UNCHANGED <<total, delivered>>
            BY <3>0, <2>2, <1>2 DEF CallerSpawn
        <3>2. cstate[q0] = "none"
            <4>1. wpc[q0] = "none"
                BY <3>0, <2>0, <1>d DEF FreshCalls
            <4>2. QED
                BY <4>1, <1>d DEF QueryInv, Untouched
        <3>3. Stream!Open(q0)
            BY <3>1, <3>2, <1>b DEF Stream!Open, AbsState, StreamOf
        <3>4. QED
            BY <3>3 DEF Stream!SNext
    <2>3. QED
        BY <2>1, <2>2
<1>3. ASSUME NEW q0 \in Queries,
             \/ WorkerAttach(q0) \/ WorkerSetPath(q0) \/ WorkerSend(q0)
             \/ WorkerEndStream(q0) \/ WorkerDetach(q0) \/ WorkerResetPath(q0)
      PROVE  [Stream!SNext]_Stream!svars
    BY <1>3, AbsStutter DEF WorkerAttach, WorkerSetPath, WorkerSend, WorkerEndStream,
                            WorkerDetach, WorkerResetPath, consumerSide
<1>4. ASSUME NEW q0 \in Queries, WorkerPrepare(q0) PROVE [Stream!SNext]_Stream!svars
    <2>0. /\ wpc[q0] = "prepare"
          /\ UNCHANGED <<delivered, cstate>>
        BY <1>4 DEF WorkerPrepare, consumerSide
    <2>1. CASE UNCHANGED total
        BY <2>0, <2>1, AbsStutter
    <2>2. CASE \E n \in 0 .. MaxBatches : total' = [total EXCEPT ![q0] = n]
        <3>1. /\ cstate[q0] # "none"
              /\ delivered[q0] = <<>>
            BY <2>0, <1>d DEF RInv
        <3>2. Stream!Plan(q0)
            BY <2>0, <2>2, <3>1 DEF Stream!Plan, AbsState, StreamOf
        <3>3. QED
            BY <3>2 DEF Stream!SNext
    <2>3. QED
        BY <1>4, <2>1, <2>2 DEF WorkerPrepare
<1>6. ASSUME NEW q0 \in Queries, Recv(q0) PROVE [Stream!SNext]_Stream!svars
    <2>1. /\ cstate[q0] = "recv"
          /\ chan[q0] # <<>>
          /\ delivered' = [delivered EXCEPT ![q0] = Append(@, Head(chan[q0]))]
          /\ UNCHANGED <<total, cstate>>
        BY <1>6 DEF Recv
    <2>2. Head(chan[q0]) = Len(delivered[q0]) + 1
        BY <2>1, <1>b, <1>d, HeadIsNext DEF QueryInv
    <2>3. Len(delivered[q0]) < total[q0]
        <3>1. Len(delivered[q0]) < sent[q0]
            BY <2>1, RecvSent
        <3>2. sent[q0] <= total[q0]
            BY <1>d DEF RInv
        <3>3. Len(delivered[q0]) \in Nat
            BY <1>b, LenProperties
        <3>4. QED
            BY <1>b, <3>1, <3>2, <3>3
    <2>4. Stream!Emit(q0)
        BY <2>1, <2>2, <2>3 DEF Stream!Emit, AbsState, StreamOf
    <2>5. QED
        BY <2>4 DEF Stream!SNext
<1>7. ASSUME NEW q0 \in Queries, Join(q0) PROVE [Stream!SNext]_Stream!svars
    <2>1. /\ cstate[q0] = "recv"
          /\ chan[q0] = <<>>
          /\ wpc[q0] \in {"ok", "err"}
          /\ cstate' = [cstate EXCEPT ![q0] = wpc[q0]]
          /\ UNCHANGED <<total, delivered>>
        BY <1>7 DEF Join, WorkerDone
    <2>2. CASE wpc[q0] = "ok"
        <3>1. Len(delivered[q0]) = total[q0]
            <4>1. /\ sent[q0] = total[q0]
                  /\ Len(delivered[q0] \o chan[q0]) = sent[q0]
                BY <2>1, <2>2, <1>d DEF QueryInv
            <4>2. delivered[q0] \o chan[q0] = delivered[q0]
                BY <2>1, <1>b
            <4>3. QED
                BY <4>1, <4>2
        <3>2. Stream!Complete(q0)
            BY <2>1, <2>2, <3>1, <1>b DEF Stream!Complete, AbsState, StreamOf
        <3>3. QED
            BY <3>2 DEF Stream!SNext
    <2>3. CASE wpc[q0] = "err"
        <3>1. Stream!Fail(q0)
            BY <2>1, <2>3, <1>b DEF Stream!Fail, AbsState, StreamOf
        <3>2. QED
            BY <3>1 DEF Stream!SNext
    <2>4. QED
        BY <2>1, <2>2, <2>3
<1>8. ASSUME NEW q0 \in Queries, Drop(q0) PROVE [Stream!SNext]_Stream!svars
    <2>1. Stream!Close(q0)
        BY <1>8, <1>b DEF Drop, Stream!Close, AbsState, StreamOf
    <2>2. QED
        BY <2>1 DEF Stream!SNext
<1>9. CASE Finished \/ UNCHANGED vars
    BY <1>9, AbsStutter DEF Finished, vars
<1>10. QED
    BY <1>1, <1>2, <1>3, <1>4, <1>6, <1>7, <1>8, <1>9 DEF Next, Caller, Worker, Consumer

-----------------------------------------------------------------------------
(* Theorems.                                                               *)

(* RefInv holds in every reachable state: no worker sends past the end of *)
(* its ArrowStream, nothing is sent or yielded before the statement was   *)
(* prepared, and only a spawned query has a worker.  It is about the      *)
(* sent < total guard of WorkerSend and the order attach, prepare, send  *)
(* of the spawn_blocking closure.                                          *)
THEOREM RefInvHolds == Spec => []RefInv
<1>1. TypeInv /\ DeliveryInv /\ RefInv /\ [Next]_vars => RefInv'
    BY NextRefInv
<1>2. QED
    BY <1>1, InitRefInv, DeliveryInvariant, PTL DEF Spec

(* The safety part of StreamRefinement, for every pool, bound and channel *)
(* capacity: every behaviour of the bridge, seen through AbsState,        *)
(* delivered and total, is a behaviour of StreamSpec -- the stream opens  *)
(* once, fixes its size before it yields, yields the next batch of the    *)
(* result in order, and ends cleanly only after the last.  It is about   *)
(* query_arrow's spawn, the worker's prepare and send, and the consumer's *)
(* recv, join and drop.                                                    *)
THEOREM Refinement == Spec => Stream!SafeSpec
<1>1. Init => Stream!SInit
    BY DEF Init, Stream!SInit, AbsState, StreamOf
<1>2. Spec => [](TypeInv /\ DeliveryInv /\ RefInv)
    BY RefInvHolds, DeliveryInvariant, PTL
<1>3. QED
    BY <1>1, <1>2, StepRefines, PTL DEF Spec, Stream!SafeSpec

=============================================================================
