------------------------ MODULE QueryBridgeDelivery ------------------------
(***************************************************************************)
(* Proofs that the hand-off from the blocking worker to the stream keeps   *)
(* the batches in order (InOrderDelivery) and never ends a stream cleanly  *)
(* after a worker error or before the last batch (NoSilentTruncation),    *)
(* for every value of the constants.                                       *)
(*                                                                         *)
(* Neither property is inductive.  Three facts about queries carry them:  *)
(*   - a query that CallerSpawn has not started yet is untouched: its      *)
(*     worker is "none", its channel and stream are empty and closed;     *)
(*     every call numbered after qn[p], and the call a busy caller is in,  *)
(*     is such a query, so CallerSpawn starts a fresh one;                 *)
(*   - a worker past its for loop (detach or ok) has sent every batch;   *)
(*   - a stream still receiving has a live receiver.                      *)
(***************************************************************************)
EXTENDS QueryBridgeProofs

(* Query q has not been started by CallerSpawn.                            *)
Untouched(q) ==
    /\ wpc[q] = "none"
    /\ sent[q] = 0
    /\ chan[q] = <<>>
    /\ delivered[q] = <<>>
    /\ ~rxOpen[q]
    /\ cstate[q] = "none"

(* Every call after the qn[p]-th, and the call a busy caller is in, has   *)
(* not spawned its worker.                                                 *)
FreshCalls ==
    /\ \A p \in Pool, k \in 1 .. MaxQueries : k > qn[p] => wpc[<<p, k>>] = "none"
    /\ \A p \in Pool : cpc[p] # "idle" => wpc[<<p, qn[p]>>] = "none"

(* What holds of one query: the two properties, and the facts about its   *)
(* worker and stream they rest on.                                         *)
QueryInv(q) ==
    /\ wpc[q] = "none" => Untouched(q)
    /\ wpc[q] \in {"detach", "ok"} => sent[q] = total[q]
    /\ cstate[q] = "recv" => rxOpen[q]
    /\ delivered[q] \o chan[q] = Batches(Len(delivered[q] \o chan[q]))
    /\ rxOpen[q] => Len(delivered[q] \o chan[q]) = sent[q]
    /\ cstate[q] = "ok" => wpc[q] = "ok" /\ delivered[q] = Batches(total[q])

(* The inductive invariant of the proofs: no call ever spawns a worker   *)
(* for a query that already ran, and for every query the stream has      *)
(* yielded a prefix of the result in order, a receiving stream has a     *)
(* live receiver and a clean end follows a successful worker that sent   *)
(* every batch.  It is about CallerSpawn numbering the calls of           *)
(* query_arrow and the hand-off through blocking_channel_send.            *)
DeliveryInv == FreshCalls /\ \A q \in Queries : QueryInv(q)

(* A step leaves the worker, channel and stream of query q alone.         *)
QueryUnchanged(q) ==
    /\ wpc'[q] = wpc[q]
    /\ total'[q] = total[q]
    /\ sent'[q] = sent[q]
    /\ chan'[q] = chan[q]
    /\ rxOpen'[q] = rxOpen[q]
    /\ delivered'[q] = delivered[q]
    /\ cstate'[q] = cstate[q]

-----------------------------------------------------------------------------
(* Facts about the channel's sequences.                                    *)

(* Batches(n) is the sequence 1..n.                                        *)
LEMMA BatchesSeq ==
    ASSUME NEW n \in Nat
    PROVE  /\ Batches(n) \in Seq(Nat)
           /\ Len(Batches(n)) = n
BY DEF Batches

(* Pushing batch n + 1 after the batches 1..n gives the batches 1..n + 1. *)
LEMMA AppendNextBatch ==
    ASSUME NEW n \in Nat
    PROVE  Append(Batches(n), n + 1) = Batches(n + 1)
BY DEF Batches

(* Moving the head of the channel to the end of what was delivered leaves *)
(* their concatenation alone.                                              *)
LEMMA MoveHead ==
    ASSUME NEW S, NEW d \in Seq(S), NEW c \in Seq(S), c # <<>>
    PROVE  Append(d, Head(c)) \o Tail(c) = d \o c
<1>1. /\ Head(c) \in S
      /\ Tail(c) \in Seq(S)
    BY HeadTailProperties
<1>2. <<Head(c)>> \o Tail(c) = c
    <2>1. /\ <<Head(c)>> \in Seq(S)
          /\ <<Head(c)>> \o Tail(c) \in Seq(S)
        BY <1>1, ConcatProperties
    <2>2. Len(<<Head(c)>> \o Tail(c)) = Len(c)
        BY <1>1, <2>1, ConcatProperties, HeadTailProperties
    <2>3. \A i \in 1 .. Len(c) : (<<Head(c)>> \o Tail(c))[i] = c[i]
        BY <1>1, <2>1, <2>2, ConcatProperties, HeadTailProperties
    <2>4. QED
        BY <2>1, <2>2, <2>3, SeqEqual
<1>3. Append(d, Head(c)) = d \o <<Head(c)>>
    BY <1>1, AppendIsConcat
<1>4. QED
    BY <1>1, <1>2, <1>3, ConcatAssociative

(* Appending to the channel appends to delivered \o chan.                  *)
LEMMA AppendAfterConcat ==
    ASSUME NEW S, NEW d \in Seq(S), NEW c \in Seq(S), NEW e \in S
    PROVE  d \o Append(c, e) = Append(d \o c, e)
<1>1. d \o c \in Seq(S)
    BY ConcatProperties
<1>2. QED
    BY <1>1, AppendIsConcat, ConcatAssociative

(* A prefix of the batches 1..n is a sequence of the batches 1..k.        *)
LEMMA PrefixOfBatches ==
    ASSUME NEW S, NEW d \in Seq(S), NEW c \in Seq(S),
           d \o c = Batches(Len(d \o c))
    PROVE  d = Batches(Len(d))
<1>1. /\ Len(d \o c) = Len(d) + Len(c)
      /\ \A i \in 1 .. Len(d) : (d \o c)[i] = d[i]
      /\ Len(d) \in Nat /\ Len(c) \in Nat
    <2>1. /\ Len(d \o c) = Len(d) + Len(c)
          /\ \A i \in 1 .. Len(d) + Len(c) : (d \o c)[i] =
                 IF i <= Len(d) THEN d[i] ELSE c[i - Len(d)]
        BY ConcatProperties
    <2>2. QED
        BY <2>1, LenProperties
<1>2. \A i \in 1 .. Len(d) : d[i] = i
    <2>1. SUFFICES ASSUME NEW i \in 1 .. Len(d) PROVE d[i] = i
        OBVIOUS
    <2>2. (d \o c)[i] = Batches(Len(d \o c))[i]
        OBVIOUS
    <2>3. Batches(Len(d \o c))[i] = i
        BY <1>1 DEF Batches
    <2>4. QED
        BY <1>1, <2>2, <2>3
<1>3. QED
    BY <1>2, LenProperties DEF Batches

-----------------------------------------------------------------------------
(* Frame lemmas: a step that leaves a query alone keeps what holds of it, *)
(* and a step that neither starts a call nor spawns a worker keeps        *)
(* FreshCalls.                                                             *)

LEMMA QueryInvFrame ==
    ASSUME NEW q, QueryInv(q), QueryUnchanged(q)
    PROVE  QueryInv(q)'
BY DEF QueryInv, QueryUnchanged, Untouched

LEMMA FreshFrame ==
    ASSUME TypeInv, FreshCalls,
           UNCHANGED <<cpc, qn>>,
           \A x \in Queries : wpc'[x] = "none" <=> wpc[x] = "none"
    PROVE  FreshCalls'
<1>1. \A p \in Pool, k \in 1 .. MaxQueries : <<p, k>> \in Queries
    BY DEF Queries
<1>2. \A p \in Pool : cpc[p] # "idle" => <<p, qn[p]>> \in Queries
    BY DEF TypeInv, CallNumbered, Queries
<1>3. QED
    BY <1>1, <1>2 DEF FreshCalls

(* A step of the worker or the stream of query q0 keeps DeliveryInv once  *)
(* it keeps QueryInv(q0): it touches no other query, no caller, and never *)
(* makes a started worker "none" again.                                    *)
LEMMA OneQueryStep ==
    ASSUME TypeInv, DeliveryInv, NEW q0 \in Queries,
           UNCHANGED <<cpc, qn>>,
           wpc[q0] # "none", wpc'[q0] # "none",
           \A x \in Queries \ {q0} : QueryUnchanged(x),
           QueryInv(q0)'
    PROVE  DeliveryInv'
<1>1. \A x \in Queries : wpc'[x] = "none" <=> wpc[x] = "none"
    BY DEF QueryUnchanged
<1>2. FreshCalls'
    BY <1>1, FreshFrame DEF DeliveryInv
<1>3. \A x \in Queries \ {q0} : QueryInv(x)'
    BY QueryInvFrame DEF DeliveryInv
<1>4. QED
    BY <1>2, <1>3 DEF DeliveryInv

(* A worker step that changes neither the channel nor the stream of q     *)
(* keeps QueryInv(q), provided the stream had not ended cleanly and a     *)
(* worker past its loop has sent the (possibly new) total.                *)
LEMMA WorkerOnlyStep ==
    ASSUME NEW q, QueryInv(q),
           sent'[q] = sent[q], chan'[q] = chan[q], rxOpen'[q] = rxOpen[q],
           delivered'[q] = delivered[q], cstate'[q] = cstate[q],
           wpc'[q] # "none", cstate[q] # "ok",
           wpc'[q] \in {"detach", "ok"} => sent[q] = total'[q]
    PROVE  QueryInv(q)'
BY DEF QueryInv, Untouched

-----------------------------------------------------------------------------
(* The initial state.                                                      *)

LEMMA InitDeliveryInv == Init => DeliveryInv
<1> SUFFICES ASSUME Init PROVE DeliveryInv
    OBVIOUS
<1>1. FreshCalls
    BY DEF Init, FreshCalls, Queries
<1>2. \A q \in Queries : QueryInv(q)
    <2>1. <<>> \o <<>> = <<>> /\ Batches(0) = <<>>
        BY DEF Batches
    <2>2. QED
        BY <2>1 DEF Init, QueryInv, Untouched
<1>3. QED
    BY <1>1, <1>2 DEF DeliveryInv

-----------------------------------------------------------------------------
(* Every step keeps DeliveryInv.                                           *)

LEMMA NextDeliveryInv == TypeInv /\ TypeInv' /\ DeliveryInv /\ [Next]_vars => DeliveryInv'
<1> SUFFICES ASSUME TypeInv, TypeInv', DeliveryInv, [Next]_vars PROVE DeliveryInv'
    OBVIOUS
<1>0. /\ MaxQueries \in Nat
      /\ MaxBatches \in Nat
      /\ ChannelCapacity \in Nat
    BY BridgeAssumption
<1>b. /\ cpc \in [Pool -> CallerStates]
      /\ qn \in [Pool -> 0 .. MaxQueries]
      /\ wpc \in [Queries -> WorkerStates]
      /\ total \in [Queries -> 0 .. MaxBatches]
      /\ sent \in [Queries -> 0 .. MaxBatches]
      /\ rxOpen \in [Queries -> BOOLEAN]
      /\ cstate \in [Queries -> ConsumerStates]
      /\ \A p \in Pool : cpc[p] # "idle" => qn[p] \in 1 .. MaxQueries
    BY DEF TypeInv, TypeOK, CallNumbered
<1>c. /\ chan \in [Queries -> Seq(1 .. MaxBatches)]
      /\ delivered \in [Queries -> Seq(1 .. MaxBatches)]
    BY DEF TypeInv, TypeOK
<1>d. FreshCalls /\ \A q \in Queries : QueryInv(q)
    BY DEF DeliveryInv
<1>1. ASSUME NEW p \in Pool, StartQuery(p) PROVE DeliveryInv'
    <2>1. UNCHANGED <<wpc, total, sent, chan, rxOpen, delivered, cstate>>
        BY <1>1 DEF StartQuery, workerSide
    <2>2. \A x \in Queries : QueryInv(x)'
        BY <2>1, <1>d, QueryInvFrame DEF QueryUnchanged
    <2>3. FreshCalls'
        <3>1. /\ qn[p] + 1 \in 1 .. MaxQueries
              /\ qn' = [qn EXCEPT ![p] = qn[p] + 1]
              /\ cpc' = [cpc EXCEPT ![p] = "attach"]
            BY <1>0, <1>1, <1>b DEF StartQuery
        <3>2. QED
            BY <3>1, <2>1, <1>b, <1>d DEF FreshCalls
    <2>4. QED
        BY <2>2, <2>3 DEF DeliveryInv
<1>2. ASSUME NEW p \in Pool,
             \/ CallerAttach(p) \/ CallerSetPath(p) \/ CallerProbe(p)
             \/ CallerDetach(p) \/ CallerResetPath(p)
      PROVE  DeliveryInv'
    <2>1. UNCHANGED <<qn, wpc, total, sent, chan, rxOpen, delivered, cstate>>
        BY <1>2 DEF CallerAttach, CallerSetPath, CallerProbe, CallerDetach, CallerResetPath, workerSide
    <2>2. /\ cpc[p] # "idle"
          /\ \A r \in Pool \ {p} : cpc'[r] = cpc[r]
        BY <1>2, <1>b DEF CallerAttach, CallerSetPath, CallerProbe, CallerDetach, CallerResetPath
    <2>3. FreshCalls'
        BY <2>1, <2>2, <1>d DEF FreshCalls
    <2>4. \A x \in Queries : QueryInv(x)'
        BY <2>1, <1>d, QueryInvFrame DEF QueryUnchanged
    <2>5. QED
        BY <2>3, <2>4 DEF DeliveryInv
<1>3. ASSUME NEW p \in Pool, CallerSpawn(p) PROVE DeliveryInv'
    <2>0. /\ cpc[p] = "clone"
          /\ cpc' = [cpc EXCEPT ![p] = "idle"]
          /\ UNCHANGED qn
        BY <1>3 DEF CallerSpawn
    <2>1. CASE UNCHANGED workerSide
        <3>1. UNCHANGED <<wpc, total, sent, chan, rxOpen, delivered, cstate>>
            BY <2>1 DEF workerSide
        <3>2. FreshCalls'
            BY <3>1, <2>0, <1>b, <1>d DEF FreshCalls
        <3>3. \A x \in Queries : QueryInv(x)'
            BY <3>1, <1>d, QueryInvFrame DEF QueryUnchanged
        <3>4. QED
            BY <3>2, <3>3 DEF DeliveryInv
    <2>2. CASE ~UNCHANGED workerSide
        <3>0. PICK q0 \in Queries : q0 = <<p, qn[p]>>
            BY <2>0, <1>b DEF Queries
        <3>1. /\ wpc' = [wpc EXCEPT ![q0] = "attach"]
              /\ rxOpen' = [rxOpen EXCEPT ![q0] = TRUE]
              /\ cstate' = [cstate EXCEPT ![q0] = "recv"]
              /\ UNCHANGED <<total, sent, chan, delivered>>
            BY <3>0, <2>2, <1>3 DEF CallerSpawn
        <3>2. Untouched(q0)
            <4>1. wpc[q0] = "none"
                BY <3>0, <2>0, <1>d DEF FreshCalls
            <4>2. QED
                BY <4>1, <1>d DEF QueryInv
        <3>3. \A x \in Queries \ {q0} : QueryInv(x)'
            <4>1. \A x \in Queries \ {q0} : QueryUnchanged(x)
                BY <3>1, <1>b DEF QueryUnchanged
            <4>2. QED
                BY <4>1, <1>d, QueryInvFrame
        <3>4. QueryInv(q0)'
            <4>1. /\ wpc'[q0] = "attach" /\ rxOpen'[q0] /\ cstate'[q0] = "recv"
                  /\ sent'[q0] = 0 /\ chan'[q0] = <<>> /\ delivered'[q0] = <<>>
                BY <3>1, <3>2, <1>b DEF Untouched
            <4>2. <<>> \o <<>> = <<>> /\ Batches(0) = <<>>
                BY DEF Batches
            <4>3. QED
                BY <4>1, <4>2, <2>0 DEF QueryInv
        <3>5. FreshCalls'
            <4>1. \A r \in Pool, k \in 1 .. MaxQueries : k > qn[r] => <<r, k>> # q0
                BY <3>0
            <4>2. \A r \in Pool : cpc'[r] # "idle" => r # p
                BY <2>0, <1>b
            <4>3. QED
                BY <4>1, <4>2, <3>0, <3>1, <2>0, <1>b, <1>d DEF FreshCalls, Queries
        <3>6. QED
            BY <3>3, <3>4, <3>5, <3>2, <2>0 DEF DeliveryInv
    <2>3. QED
        BY <2>1, <2>2
<1>4. ASSUME NEW q0 \in Queries, WorkerAttach(q0) PROVE DeliveryInv'
    <2>0. QueryInv(q0)
        BY <1>d
    <2>1. /\ UNCHANGED <<cpc, qn>>
          /\ wpc[q0] # "none" /\ wpc'[q0] # "none"
          /\ \A x \in Queries \ {q0} : QueryUnchanged(x)
        BY <1>4, <1>b, <1>c DEF WorkerAttach, QueryUnchanged, callerSide, consumerSide
    <2>2. QueryInv(q0)'
        <3>1. cstate[q0] # "ok"
            BY <1>4, <2>0 DEF WorkerAttach, QueryInv
        <3>2. QED
            BY <3>1, <2>0, <1>4, <1>b, <1>c, WorkerOnlyStep DEF WorkerAttach, consumerSide
    <2>3. QED
        BY <2>1, <2>2, OneQueryStep
<1>5. ASSUME NEW q0 \in Queries, WorkerSetPath(q0) PROVE DeliveryInv'
    <2>0. QueryInv(q0)
        BY <1>d
    <2>1. /\ UNCHANGED <<cpc, qn>>
          /\ wpc[q0] # "none" /\ wpc'[q0] # "none"
          /\ \A x \in Queries \ {q0} : QueryUnchanged(x)
        BY <1>5, <1>b, <1>c DEF WorkerSetPath, QueryUnchanged, callerSide, consumerSide
    <2>2. QueryInv(q0)'
        <3>1. cstate[q0] # "ok"
            BY <1>5, <2>0 DEF WorkerSetPath, QueryInv
        <3>2. QED
            BY <3>1, <2>0, <1>5, <1>b, <1>c, WorkerOnlyStep DEF WorkerSetPath, consumerSide
    <2>3. QED
        BY <2>1, <2>2, OneQueryStep
<1>6. ASSUME NEW q0 \in Queries, WorkerPrepare(q0) PROVE DeliveryInv'
    <2>0. QueryInv(q0)
        BY <1>d
    <2>1. /\ UNCHANGED <<cpc, qn>>
          /\ wpc[q0] # "none" /\ wpc'[q0] # "none"
          /\ \A x \in Queries \ {q0} : QueryUnchanged(x)
        BY <1>6, <1>b, <1>c DEF WorkerPrepare, QueryUnchanged, callerSide, consumerSide
    <2>2. QueryInv(q0)'
        <3>1. cstate[q0] # "ok"
            BY <1>6, <2>0 DEF WorkerPrepare, QueryInv
        <3>2. QED
            BY <3>1, <2>0, <1>6, <1>b, <1>c, WorkerOnlyStep DEF WorkerPrepare, consumerSide
    <2>3. QED
        BY <2>1, <2>2, OneQueryStep
<1>8. ASSUME NEW q0 \in Queries, WorkerEndStream(q0) PROVE DeliveryInv'
    <2>0. QueryInv(q0)
        BY <1>d
    <2>1. /\ UNCHANGED <<cpc, qn>>
          /\ wpc[q0] # "none" /\ wpc'[q0] # "none"
          /\ \A x \in Queries \ {q0} : QueryUnchanged(x)
        BY <1>8, <1>b, <1>c DEF WorkerEndStream, QueryUnchanged, callerSide, consumerSide
    <2>2. QueryInv(q0)'
        <3>1. cstate[q0] # "ok"
            BY <1>8, <2>0 DEF WorkerEndStream, QueryInv
        <3>2. QED
            BY <3>1, <2>0, <1>8, <1>b, <1>c, WorkerOnlyStep DEF WorkerEndStream, consumerSide
    <2>3. QED
        BY <2>1, <2>2, OneQueryStep
<1>9. ASSUME NEW q0 \in Queries, WorkerDetach(q0) PROVE DeliveryInv'
    <2>0. QueryInv(q0)
        BY <1>d
    <2>1. /\ UNCHANGED <<cpc, qn>>
          /\ wpc[q0] # "none" /\ wpc'[q0] # "none"
          /\ \A x \in Queries \ {q0} : QueryUnchanged(x)
        BY <1>9, <1>b, <1>c DEF WorkerDetach, QueryUnchanged, callerSide, consumerSide
    <2>2. QueryInv(q0)'
        <3>1. cstate[q0] # "ok"
            BY <1>9, <2>0 DEF WorkerDetach, QueryInv
        <3>2. QED
            BY <3>1, <2>0, <1>9, <1>b, <1>c, WorkerOnlyStep DEF WorkerDetach, consumerSide, QueryInv
    <2>3. QED
        BY <2>1, <2>2, OneQueryStep
<1>10. ASSUME NEW q0 \in Queries, WorkerResetPath(q0) PROVE DeliveryInv'
    <2>0. QueryInv(q0)
        BY <1>d
    <2>1. /\ UNCHANGED <<cpc, qn>>
          /\ wpc[q0] # "none" /\ wpc'[q0] # "none"
          /\ \A x \in Queries \ {q0} : QueryUnchanged(x)
        BY <1>10, <1>b, <1>c DEF WorkerResetPath, QueryUnchanged, callerSide, consumerSide
    <2>2. QueryInv(q0)'
        <3>1. cstate[q0] # "ok"
            BY <1>10, <2>0 DEF WorkerResetPath, QueryInv
        <3>2. QED
            BY <3>1, <2>0, <1>10, <1>b, <1>c, WorkerOnlyStep DEF WorkerResetPath, consumerSide, QueryInv
    <2>3. QED
        BY <2>1, <2>2, OneQueryStep
<1>7. ASSUME NEW q0 \in Queries, WorkerSend(q0) PROVE DeliveryInv'
    <2>0. QueryInv(q0)
        BY <1>d
    <2>1. /\ UNCHANGED <<cpc, qn>>
          /\ wpc[q0] # "none" /\ wpc'[q0] # "none"
          /\ \A x \in Queries \ {q0} : QueryUnchanged(x)
        BY <1>7, <1>b, <1>c DEF WorkerSend, QueryUnchanged, callerSide, consumerSide
    <2>2. QueryInv(q0)'
        <3>1. cstate[q0] # "ok"
            BY <1>7, <2>0 DEF WorkerSend, QueryInv
        <3>2. CASE ~rxOpen[q0]
            BY <3>1, <3>2, <2>0, <1>7, <1>b, <1>c, WorkerOnlyStep DEF WorkerSend, consumerSide
        <3>3. CASE rxOpen[q0]
            <4>1. /\ chan'[q0] = Append(chan[q0], sent[q0] + 1)
                  /\ sent'[q0] = sent[q0] + 1
                  /\ wpc'[q0] = "stream"
                  /\ rxOpen'[q0] = rxOpen[q0]
                  /\ delivered'[q0] = delivered[q0]
                  /\ cstate'[q0] = cstate[q0]
                BY <3>3, <1>7, <1>b, <1>c DEF WorkerSend, consumerSide
            <4>2. /\ sent[q0] \in Nat
                  /\ sent[q0] + 1 \in 1 .. MaxBatches
                BY <1>0, <1>7, <1>b DEF WorkerSend
            <4>3. delivered[q0] \o chan[q0] = Batches(sent[q0])
                BY <3>3, <2>0 DEF QueryInv
            <4>4. delivered'[q0] \o chan'[q0] = Append(delivered[q0] \o chan[q0], sent[q0] + 1)
                BY <4>1, <4>2, <1>c, AppendAfterConcat
            <4>5. delivered'[q0] \o chan'[q0] = Batches(sent[q0] + 1)
                BY <4>2, <4>3, <4>4, AppendNextBatch
            <4>6. Len(Batches(sent[q0] + 1)) = sent[q0] + 1
                <5>1. sent[q0] + 1 \in Nat
                    BY <4>2
                <5>2. QED
                    BY <5>1, BatchesSeq
            <4>7. QED
                BY <3>1, <3>3, <4>1, <4>5, <4>6 DEF QueryInv
        <3>4. QED
            BY <3>2, <3>3
    <2>3. QED
        BY <2>1, <2>2, OneQueryStep
<1>11. ASSUME NEW q0 \in Queries, Recv(q0) PROVE DeliveryInv'
    <2>0. QueryInv(q0)
        BY <1>d
    <2>1. /\ UNCHANGED <<cpc, qn>>
          /\ wpc[q0] # "none" /\ wpc'[q0] # "none"
          /\ \A x \in Queries \ {q0} : QueryUnchanged(x)
        BY <1>11, <1>b, <1>c, <2>0 DEF Recv, QueryUnchanged, callerSide, QueryInv, Untouched
    <2>2. QueryInv(q0)'
        <3>1. /\ delivered'[q0] = Append(delivered[q0], Head(chan[q0]))
              /\ chan'[q0] = Tail(chan[q0])
              /\ chan[q0] # <<>>
              /\ cstate[q0] = "recv"
              /\ UNCHANGED <<wpc, total, sent, rxOpen, cstate>>
            BY <1>11, <1>c DEF Recv
        <3>2. delivered'[q0] \o chan'[q0] = delivered[q0] \o chan[q0]
            <4>1. delivered[q0] \in Seq(1 .. MaxBatches) /\ chan[q0] \in Seq(1 .. MaxBatches)
                BY <1>c
            <4>2. Append(delivered[q0], Head(chan[q0])) \o Tail(chan[q0]) = delivered[q0] \o chan[q0]
                BY <4>1, <3>1, MoveHead
            <4>3. QED
                BY <4>2, <3>1
        <3>3. QED
            BY <3>1, <3>2, <2>0 DEF QueryInv, Untouched
    <2>3. QED
        BY <2>1, <2>2, OneQueryStep
<1>12. ASSUME NEW q0 \in Queries, Join(q0) PROVE DeliveryInv'
    <2>0. QueryInv(q0)
        BY <1>d
    <2>1. /\ UNCHANGED <<cpc, qn>>
          /\ wpc[q0] # "none" /\ wpc'[q0] # "none"
          /\ \A x \in Queries \ {q0} : QueryUnchanged(x)
        BY <1>12, <1>b, <1>c, <2>0 DEF Join, QueryUnchanged, callerSide, QueryInv, Untouched
    <2>2. QueryInv(q0)'
        <3>1. /\ cstate[q0] = "recv"
              /\ chan[q0] = <<>>
              /\ wpc[q0] \in {"ok", "err"}
              /\ cstate'[q0] = wpc[q0]
              /\ UNCHANGED <<wpc, total, sent, chan, rxOpen, delivered>>
            BY <1>12, <1>b DEF Join, WorkerDone
        <3>2. delivered[q0] \o chan[q0] = delivered[q0]
            BY <3>1, <1>c, ConcatEmptySeq
        <3>3. wpc[q0] = "ok" => delivered[q0] = Batches(total[q0])
            BY <3>1, <3>2, <2>0 DEF QueryInv
        <3>4. QED
            BY <3>1, <3>3, <2>0 DEF QueryInv
    <2>3. QED
        BY <2>1, <2>2, OneQueryStep
<1>13. ASSUME NEW q0 \in Queries, Drop(q0) PROVE DeliveryInv'
    <2>0. QueryInv(q0)
        BY <1>d
    <2>1. /\ UNCHANGED <<cpc, qn>>
          /\ wpc[q0] # "none" /\ wpc'[q0] # "none"
          /\ \A x \in Queries \ {q0} : QueryUnchanged(x)
        BY <1>13, <1>b, <1>c, <2>0 DEF Drop, QueryUnchanged, callerSide, QueryInv, Untouched
    <2>2. QueryInv(q0)'
        <3>1. /\ cstate[q0] = "recv"
              /\ cstate'[q0] = "dropped"
              /\ rxOpen'[q0] = FALSE
              /\ chan'[q0] = <<>>
              /\ UNCHANGED <<wpc, total, sent, delivered>>
            BY <1>13, <1>b, <1>c DEF Drop
        <3>2. delivered[q0] \o <<>> = delivered[q0]
            BY <1>c, ConcatEmptySeq
        <3>3. delivered[q0] = Batches(Len(delivered[q0]))
            BY <2>0, <1>c, PrefixOfBatches DEF QueryInv
        <3>4. QED
            BY <3>1, <3>2, <3>3, <2>0 DEF QueryInv, Untouched
    <2>3. QED
        BY <2>1, <2>2, OneQueryStep
<1>14. CASE Finished \/ UNCHANGED vars
    <2>1. UNCHANGED vars
        BY <1>14 DEF Finished
    <2>2. QED
        BY <2>1, <1>d, QueryInvFrame DEF vars, DeliveryInv, FreshCalls, QueryUnchanged
<1>15. QED
    BY <1>1, <1>2, <1>3, <1>4, <1>5, <1>6, <1>7, <1>8, <1>9, <1>10, <1>11, <1>12, <1>13, <1>14
       DEF Next, Caller, Worker, Consumer


-----------------------------------------------------------------------------
(* The inductive invariant TypeInv /\ DeliveryInv holds in every state.    *)
LEMMA DeliveryInvariant == Spec => [](TypeInv /\ DeliveryInv)
<1>1. Init => TypeInv /\ DeliveryInv
    BY InitTypeInv, InitDeliveryInv
<1>2. TypeInv /\ DeliveryInv /\ [Next]_vars => (TypeInv /\ DeliveryInv)'
    BY NextTypeInv, NextDeliveryInv
<1>3. QED
    BY <1>1, <1>2, PTL DEF Spec

(* Batches cross from blocking_channel_send in the worker to              *)
(* batch_rx.recv() in the stream in the engine's order, none lost or      *)
(* repeated while the receiver lives, for every pool, attachment list,   *)
(* batch bound and channel capacity.                                       *)
THEOREM OrderedDelivery == Spec => []InOrderDelivery
<1>1. DeliveryInv => InOrderDelivery
    BY DEF DeliveryInv, QueryInv, InOrderDelivery
<1>2. QED
    BY <1>1, DeliveryInvariant, PTL

(* A stream of query_arrow that ends without an error has yielded every   *)
(* batch of the result and its worker returned Ok: the drain-then-join   *)
(* order of the stream! block never turns a worker error into a short,   *)
(* clean result, for every value of the constants.                         *)
THEOREM NoTruncation == Spec => []NoSilentTruncation
<1>1. DeliveryInv => NoSilentTruncation
    BY DEF DeliveryInv, QueryInv, NoSilentTruncation
<1>2. QED
    BY <1>1, DeliveryInvariant, PTL


(* For every value of the constants, no call of query_arrow spawns a      *)
(* worker for a query that already ran, every stream has yielded a       *)
(* prefix of its result in order, a receiving stream has a live receiver, *)
(* and a clean end follows a worker that sent every batch: DeliveryInv,   *)
(* the invariant the instance-scope run checks, holds in every state.     *)
THEOREM DeliveryInvHolds == Spec => []DeliveryInv
BY DeliveryInvariant, PTL

=============================================================================
