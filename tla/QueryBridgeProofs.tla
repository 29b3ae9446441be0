------------------------- MODULE QueryBridgeProofs -------------------------
(***************************************************************************)
(* Proofs about QueryBridge for every value of its constants.             *)
(*                                                                         *)
(* TypeOK is not inductive by itself: CallerSpawn starts the worker of    *)
(* query <<p, qn[p]>>, which is one of Queries only when qn[p] >= 1.  The *)
(* strengthening CallNumbered records that a pooled connection is inside  *)
(* a query_arrow call only after StartQuery has numbered that call.       *)
(***************************************************************************)
EXTENDS QueryBridge, SequenceTheorems, TLAPS

(* While a caller is inside query_arrow, its call has a number in          *)
(* 1..MaxQueries.                                                          *)
CallNumbered == \A p \in Pool : cpc[p] # "idle" => qn[p] \in 1 .. MaxQueries

TypeInv == TypeOK /\ CallNumbered

-----------------------------------------------------------------------------
(* Facts about the constants.                                              *)

LEMMA SessionFacts ==
    /\ NAtt \in Nat
    /\ \A p \in Pool : PooledSession(p) \in Sessions
    /\ Queries \subseteq Sessions
    /\ \A s \in Sessions : CatKey(s) \in CatKeys
BY AttachmentsAssumption, BridgeAssumption DEF PooledSession, Queries, CatKeys

-----------------------------------------------------------------------------
(* Each engine statement of the attachment manager keeps AttTypeOK, for a *)
(* connection of Sessions and an alias of Aliases.                        *)

LEMMA AttachAliasType ==
    ASSUME AttTypeOK, NEW s \in Sessions, NEW i \in Aliases, AttachAlias(s, i)
    PROVE  AttTypeOK'
BY SessionFacts DEF AttTypeOK, AttachAlias

LEMMA DetachAliasType ==
    ASSUME AttTypeOK, NEW s \in Sessions, NEW i \in Aliases, DetachAlias(s, i)
    PROVE  AttTypeOK'
BY SessionFacts DEF AttTypeOK, DetachAlias

LEMMA SetSearchPathType ==
    ASSUME AttTypeOK, NEW s \in Sessions, SetSearchPath(s)
    PROVE  AttTypeOK'
BY DEF AttTypeOK, SetSearchPath, SearchPathValues

LEMMA ResetSearchPathType ==
    ASSUME AttTypeOK, NEW s \in Sessions, ResetSearchPath(s)
    PROVE  AttTypeOK'
BY DEF AttTypeOK, ResetSearchPath, SearchPathValues

-----------------------------------------------------------------------------
(* The type invariant.                                                     *)

LEMMA InitTypeInv == Init => TypeInv
BY SessionFacts, BridgeAssumption DEF Init, AttInit, TypeInv, TypeOK, AttTypeOK, CallNumbered,
                    SearchPathValues, CallerStates, WorkerStates, ConsumerStates

LEMMA NextTypeInv == TypeInv /\ [Next]_vars => TypeInv'
<1> SUFFICES ASSUME TypeInv, [Next]_vars PROVE TypeInv'
    OBVIOUS
<1>0. /\ NAtt \in Nat
      /\ \A p \in Pool : PooledSession(p) \in Sessions
      /\ Queries \subseteq Sessions
      /\ MaxQueries \in Nat
      /\ MaxBatches \in Nat
      /\ ChannelCapacity \in Nat
    BY SessionFacts, BridgeAssumption
<1>a. TypeOK /\ CallNumbered
    BY DEF TypeInv
<1>b. /\ catalog \in [CatKeys -> SUBSET Aliases]
      /\ searchPath \in [Sessions -> SearchPathValues]
      /\ cpc \in [Pool -> CallerStates]
      /\ cidx \in [Pool -> 0 .. NAtt]
      /\ qn \in [Pool -> 0 .. MaxQueries]
      /\ wpc \in [Queries -> WorkerStates]
      /\ widx \in [Queries -> 0 .. NAtt]
      /\ total \in [Queries -> 0 .. MaxBatches]
      /\ sent \in [Queries -> 0 .. MaxBatches]
      /\ rxOpen \in [Queries -> BOOLEAN]
      /\ cstate \in [Queries -> ConsumerStates]
    BY <1>a DEF TypeOK, AttTypeOK
<1>c. /\ chan \in [Queries -> Seq(1 .. MaxBatches)]
      /\ \A q \in Queries : Len(chan[q]) <= ChannelCapacity
      /\ delivered \in [Queries -> Seq(1 .. MaxBatches)]
    BY <1>a DEF TypeOK
<1>d. \A p \in Pool : cpc[p] # "idle" => qn[p] \in 1 .. MaxQueries
    BY <1>a DEF CallNumbered
<1>1. ASSUME NEW p \in Pool, StartQuery(p) PROVE TypeInv'
    <2>1. UNCHANGED <<catalog, searchPath, wpc, widx, total, sent, chan, rxOpen, delivered, cstate>>
        BY <1>1 DEF StartQuery, workerSide, attVars
    <2>2. /\ AttTypeOK'
          /\ cpc' \in [Pool -> CallerStates]
          /\ cidx' \in [Pool -> 0 .. NAtt]
          /\ qn' \in [Pool -> 0 .. MaxQueries]
          /\ \A r \in Pool : cpc'[r] # "idle" => qn'[r] \in 1 .. MaxQueries
        <3>1. AttTypeOK'
            BY <1>b, <2>1 DEF AttTypeOK
        <3>2. QED
            BY <3>1, <1>0, <1>1, <1>b, <1>d, BridgeAssumption DEF StartQuery, CallerStates
    <2>3. QED
        BY <2>1, <2>2, <1>a, Zenon DEF TypeInv, TypeOK, CallNumbered
<1>2. ASSUME NEW p \in Pool, CallerAttach(p) PROVE TypeInv'
    <2>1. UNCHANGED <<qn, wpc, widx, total, sent, chan, rxOpen, delivered, cstate>>
        BY <1>2 DEF CallerAttach, workerSide
    <2>2. /\ AttTypeOK'
          /\ cpc' \in [Pool -> CallerStates]
          /\ cidx' \in [Pool -> 0 .. NAtt]
          /\ \A r \in Pool : cpc'[r] # "idle" => cpc[r] # "idle"
        <3>1. PooledSession(p) \in Sessions /\ cidx[p] \in Aliases
            BY <1>0, <1>2, <1>b DEF CallerAttach, Aliases
        <3>2. CASE AttachAlias(PooledSession(p), cidx[p])
            <4>1. AttTypeOK'
                BY <3>1, <3>2, <1>a, AttachAliasType DEF TypeOK
            <4>2. QED
                BY <4>1, <3>2, <1>0, <1>2, <1>b DEF CallerAttach, AttachAlias, CallerStates
        <3>3. CASE ~AttachAlias(PooledSession(p), cidx[p])
            <4>1. UNCHANGED attVars
                BY <1>2, <3>3 DEF CallerAttach
            <4>2. AttTypeOK'
                BY <4>1, <1>b DEF AttTypeOK, attVars
            <4>3. QED
                BY <4>1, <4>2, <3>3, <1>2, <1>b DEF CallerAttach, CallerStates
        <3>4. QED
            BY <3>2, <3>3
    <2>3. QED
        BY <2>1, <2>2, <1>a, Zenon DEF TypeInv, TypeOK, CallNumbered
<1>3. ASSUME NEW p \in Pool, CallerSetPath(p) PROVE TypeInv'
    <2>1. UNCHANGED <<cidx, qn, wpc, widx, total, sent, chan, rxOpen, delivered, cstate>>
        BY <1>3 DEF CallerSetPath, workerSide
    <2>2. /\ AttTypeOK'
          /\ cpc' \in [Pool -> CallerStates]
          /\ \A r \in Pool : cpc'[r] # "idle" => cpc[r] # "idle"
        <3>0. SetSearchPath(PooledSession(p)) \/ UNCHANGED attVars
            BY <1>3 DEF CallerSetPath
        <3>1. AttTypeOK'
            <4>1. CASE SetSearchPath(PooledSession(p))
                BY <4>1, <1>0, <1>a, SetSearchPathType DEF TypeOK
            <4>2. CASE UNCHANGED attVars
                BY <4>2, <1>a DEF TypeOK, AttTypeOK, attVars
            <4>3. QED
                BY <3>0, <4>1, <4>2
        <3>2. QED
            BY <3>1, <1>3, <1>b DEF CallerSetPath, CallerStates
    <2>3. QED
        BY <2>1, <2>2, <1>a, Zenon DEF TypeInv, TypeOK, CallNumbered
<1>4. ASSUME NEW p \in Pool, CallerProbe(p) PROVE TypeInv'
    <2>1. UNCHANGED <<catalog, searchPath, qn, wpc, widx, total, sent, chan, rxOpen, delivered, cstate>>
        BY <1>4 DEF CallerProbe, workerSide, attVars
    <2>2. /\ AttTypeOK'
          /\ cpc' \in [Pool -> CallerStates]
          /\ cidx' \in [Pool -> 0 .. NAtt]
          /\ \A r \in Pool : cpc'[r] # "idle" => cpc[r] # "idle"
        <3>1. AttTypeOK'
            BY <1>b, <2>1 DEF AttTypeOK
        <3>2. QED
            BY <3>1, <1>0, <1>4, <1>b DEF CallerProbe, CallerStates
    <2>3. QED
        BY <2>1, <2>2, <1>a, Zenon DEF TypeInv, TypeOK, CallNumbered
<1>5. ASSUME NEW p \in Pool, CallerDetach(p) PROVE TypeInv'
    <2>1. UNCHANGED <<qn, wpc, widx, total, sent, chan, rxOpen, delivered, cstate>>
        BY <1>5 DEF CallerDetach, workerSide
    <2>2. /\ AttTypeOK'
          /\ cpc' \in [Pool -> CallerStates]
          /\ cidx' \in [Pool -> 0 .. NAtt]
          /\ \A r \in Pool : cpc'[r] # "idle" => cpc[r] # "idle"
        <3>1. PooledSession(p) \in Sessions /\ cidx[p] \in Aliases
            BY <1>0, <1>5, <1>b DEF CallerDetach, Aliases
        <3>2. CASE DetachAlias(PooledSession(p), cidx[p])
            <4>1. AttTypeOK'
                BY <3>1, <3>2, <1>a, DetachAliasType DEF TypeOK
            <4>2. QED
                BY <4>1, <3>2, <1>0, <1>5, <1>b DEF CallerDetach, DetachAlias, CallerStates
        <3>3. CASE ~DetachAlias(PooledSession(p), cidx[p])
            <4>1. UNCHANGED attVars
                BY <1>5, <3>3 DEF CallerDetach
            <4>2. AttTypeOK'
                BY <4>1, <1>b DEF AttTypeOK, attVars
            <4>3. QED
                BY <4>1, <4>2, <3>3, <1>5, <1>b DEF CallerDetach, CallerStates
        <3>4. QED
            BY <3>2, <3>3
    <2>3. QED
        BY <2>1, <2>2, <1>a, Zenon DEF TypeInv, TypeOK, CallNumbered
<1>6. ASSUME NEW p \in Pool, CallerResetPath(p) PROVE TypeInv'
    <2>1. UNCHANGED <<cidx, qn, wpc, widx, total, sent, chan, rxOpen, delivered, cstate>>
        BY <1>6 DEF CallerResetPath, workerSide
    <2>2. /\ AttTypeOK'
          /\ cpc' \in [Pool -> CallerStates]
          /\ \A r \in Pool : cpc'[r] # "idle" => cpc[r] # "idle"
        <3>0. ResetSearchPath(PooledSession(p)) \/ UNCHANGED attVars
            BY <1>6 DEF CallerResetPath
        <3>1. AttTypeOK'
            <4>1. CASE ResetSearchPath(PooledSession(p))
                BY <4>1, <1>0, <1>a, ResetSearchPathType DEF TypeOK
            <4>2. CASE UNCHANGED attVars
                BY <4>2, <1>a DEF TypeOK, AttTypeOK, attVars
            <4>3. QED
                BY <3>0, <4>1, <4>2
        <3>2. QED
            BY <3>1, <1>6, <1>b DEF CallerResetPath, CallerStates
    <2>3. QED
        BY <2>1, <2>2, <1>a, Zenon DEF TypeInv, TypeOK, CallNumbered
<1>7. ASSUME NEW p \in Pool, CallerSpawn(p) PROVE TypeInv'
    <2>1. UNCHANGED <<catalog, searchPath, cidx, qn, total, sent, chan, delivered>>
        BY <1>7 DEF CallerSpawn, attVars, workerSide
    <2>2. /\ AttTypeOK'
          /\ cpc' \in [Pool -> CallerStates]
          /\ \A r \in Pool : cpc'[r] # "idle" => cpc[r] # "idle"
          /\ wpc' \in [Queries -> WorkerStates]
          /\ widx' \in [Queries -> 0 .. NAtt]
          /\ rxOpen' \in [Queries -> BOOLEAN]
          /\ cstate' \in [Queries -> ConsumerStates]
        <3>1. AttTypeOK'
            BY <1>b, <2>1 DEF AttTypeOK
        <3>2. <<p, qn[p]>> \in Queries
            BY <1>7, <1>d DEF CallerSpawn, Queries
        <3>3. cpc' = [cpc EXCEPT ![p] = "idle"]
            BY <1>7 DEF CallerSpawn
        <3>4. CASE UNCHANGED workerSide
            BY <3>1, <3>3, <3>4, <1>b DEF workerSide, CallerStates
        <3>5. CASE ~UNCHANGED workerSide
            <4>1. /\ wpc' = [wpc EXCEPT ![<<p, qn[p]>>] = "attach"]
                  /\ widx' = [widx EXCEPT ![<<p, qn[p]>>] = 0]
                  /\ rxOpen' = [rxOpen EXCEPT ![<<p, qn[p]>>] = TRUE]
                  /\ cstate' = [cstate EXCEPT ![<<p, qn[p]>>] = "recv"]
                BY <1>7, <3>5 DEF CallerSpawn
            <4>2. QED
                BY <3>1, <3>2, <3>3, <4>1, <1>0, <1>b DEF CallerStates, WorkerStates, ConsumerStates
        <3>6. QED
            BY <3>4, <3>5
    <2>3. QED
        BY <2>1, <2>2, <1>a, Zenon DEF TypeInv, TypeOK, CallNumbered
<1>8. ASSUME NEW q \in Queries, WorkerAttach(q) PROVE TypeInv'
    <2>1. UNCHANGED <<total, sent, chan, rxOpen, delivered, cstate, cpc, cidx, qn>>
        BY <1>8 DEF WorkerAttach, consumerSide, callerSide
    <2>2. /\ AttTypeOK'
          /\ wpc' \in [Queries -> WorkerStates]
          /\ widx' \in [Queries -> 0 .. NAtt]
        <3>1. q \in Sessions /\ widx[q] \in Aliases
            BY <1>0, <1>8, <1>b DEF WorkerAttach, Aliases
        <3>2. CASE AttachAlias(q, widx[q])
            <4>1. AttTypeOK'
                BY <3>1, <3>2, <1>a, AttachAliasType DEF TypeOK
            <4>2. QED
                BY <4>1, <3>2, <1>0, <1>8, <1>b DEF WorkerAttach, AttachAlias, WorkerStates
        <3>3. CASE ~AttachAlias(q, widx[q])
            <4>1. UNCHANGED attVars
                BY <1>8, <3>3 DEF WorkerAttach
            <4>2. AttTypeOK'
                BY <4>1, <1>b DEF AttTypeOK, attVars
            <4>3. QED
                BY <4>1, <4>2, <3>3, <1>8, <1>b DEF WorkerAttach, WorkerStates
        <3>4. QED
            BY <3>2, <3>3
    <2>3. QED
        BY <2>1, <2>2, <1>a, Zenon DEF TypeInv, TypeOK, CallNumbered
<1>9. ASSUME NEW q \in Queries, WorkerSetPath(q) PROVE TypeInv'
    <2>1. UNCHANGED <<widx, total, sent, chan, rxOpen, delivered, cstate, cpc, cidx, qn>>
        BY <1>9 DEF WorkerSetPath, consumerSide, callerSide
    <2>2. /\ AttTypeOK'
          /\ wpc' \in [Queries -> WorkerStates]
        <3>0. SetSearchPath(q) \/ UNCHANGED attVars
            BY <1>9 DEF WorkerSetPath
        <3>1. AttTypeOK'
            <4>1. CASE SetSearchPath(q)
                BY <4>1, <1>0, <1>a, SetSearchPathType DEF TypeOK
            <4>2. CASE UNCHANGED attVars
                BY <4>2, <1>a DEF TypeOK, AttTypeOK, attVars
            <4>3. QED
                BY <3>0, <4>1, <4>2
        <3>2. QED
            BY <3>1, <1>9, <1>b DEF WorkerSetPath, WorkerStates
    <2>3. QED
        BY <2>1, <2>2, <1>a, Zenon DEF TypeInv, TypeOK, CallNumbered
<1>10. ASSUME NEW q \in Queries, WorkerPrepare(q) PROVE TypeInv'
    <2>1. UNCHANGED <<catalog, searchPath, widx, sent, chan, rxOpen, delivered, cstate, cpc, cidx, qn>>
        BY <1>10 DEF WorkerPrepare, attVars, consumerSide, callerSide
    <2>2. /\ AttTypeOK'
          /\ wpc' \in [Queries -> WorkerStates]
          /\ total' \in [Queries -> 0 .. MaxBatches]
        <3>1. AttTypeOK'
            BY <1>b, <2>1 DEF AttTypeOK
        <3>2. QED
            BY <3>1, <1>10, <1>b DEF WorkerPrepare, WorkerStates
    <2>3. QED
        BY <2>1, <2>2, <1>a, Zenon DEF TypeInv, TypeOK, CallNumbered
<1>11. ASSUME NEW q \in Queries, WorkerSend(q) PROVE TypeInv'
    <2>1. UNCHANGED <<catalog, searchPath, widx, total, rxOpen, delivered, cstate, cpc, cidx, qn>>
        BY <1>11 DEF WorkerSend, attVars, consumerSide, callerSide
    <2>2. /\ AttTypeOK'
          /\ wpc' \in [Queries -> WorkerStates]
          /\ sent' \in [Queries -> 0 .. MaxBatches]
          /\ chan' \in [Queries -> Seq(1 .. MaxBatches)]
          /\ \A r \in Queries : Len(chan'[r]) <= ChannelCapacity
        <3>1. AttTypeOK'
            BY <1>b, <2>1 DEF AttTypeOK
        <3>2. CASE ~rxOpen[q]
            BY <3>1, <3>2, <1>11, <1>b, <1>c DEF WorkerSend, WorkerStates
        <3>3. CASE rxOpen[q]
            <4>1. sent[q] + 1 \in 1 .. MaxBatches
                BY <1>0, <1>11, <1>b DEF WorkerSend
            <4>2. /\ Append(chan[q], sent[q] + 1) \in Seq(1 .. MaxBatches)
                  /\ Len(Append(chan[q], sent[q] + 1)) = Len(chan[q]) + 1
                BY <4>1, <1>c, AppendProperties
            <4>3. Len(chan[q]) + 1 <= ChannelCapacity
                BY <3>3, <1>0, <1>11, <1>c, LenProperties DEF WorkerSend
            <4>4. chan' = [chan EXCEPT ![q] = Append(chan[q], sent[q] + 1)]
                  /\ sent' = [sent EXCEPT ![q] = sent[q] + 1]
                  /\ wpc' = wpc
                BY <3>3, <1>11 DEF WorkerSend
            <4>5. QED
                BY <3>1, <4>1, <4>2, <4>3, <4>4, <1>b, <1>c
        <3>4. QED
            BY <3>2, <3>3
    <2>3. QED
        BY <2>1, <2>2, <1>a, Zenon DEF TypeInv, TypeOK, CallNumbered
<1>12. ASSUME NEW q \in Queries, WorkerEndStream(q) PROVE TypeInv'
    <2>1. UNCHANGED <<catalog, searchPath, total, sent, chan, rxOpen, delivered, cstate, cpc, cidx, qn>>
        BY <1>12 DEF WorkerEndStream, attVars, consumerSide, callerSide
    <2>2. /\ AttTypeOK'
          /\ wpc' \in [Queries -> WorkerStates]
          /\ widx' \in [Queries -> 0 .. NAtt]
        <3>1. AttTypeOK'
            BY <1>b, <2>1 DEF AttTypeOK
        <3>2. QED
            BY <3>1, <1>0, <1>12, <1>b DEF WorkerEndStream, WorkerStates
    <2>3. QED
        BY <2>1, <2>2, <1>a, Zenon DEF TypeInv, TypeOK, CallNumbered
<1>13. ASSUME NEW q \in Queries, WorkerDetach(q) PROVE TypeInv'
    <2>1. UNCHANGED <<total, sent, chan, rxOpen, delivered, cstate, cpc, cidx, qn>>
        BY <1>13 DEF WorkerDetach, consumerSide, callerSide
    <2>2. /\ AttTypeOK'
          /\ wpc' \in [Queries -> WorkerStates]
          /\ widx' \in [Queries -> 0 .. NAtt]
        <3>1. q \in Sessions /\ widx[q] \in Aliases
            BY <1>0, <1>13, <1>b DEF WorkerDetach, Aliases
        <3>2. CASE DetachAlias(q, widx[q])
            <4>1. AttTypeOK'
                BY <3>1, <3>2, <1>a, DetachAliasType DEF TypeOK
            <4>2. QED
                BY <4>1, <3>2, <1>0, <1>13, <1>b DEF WorkerDetach, DetachAlias, WorkerStates
        <3>3. CASE ~DetachAlias(q, widx[q])
            <4>1. UNCHANGED attVars
                BY <1>13, <3>3 DEF WorkerDetach
            <4>2. AttTypeOK'
                BY <4>1, <1>b DEF AttTypeOK, attVars
            <4>3. QED
                BY <4>1, <4>2, <3>3, <1>13, <1>b DEF WorkerDetach, WorkerStates
        <3>4. QED
            BY <3>2, <3>3
    <2>3. QED
        BY <2>1, <2>2, <1>a, Zenon DEF TypeInv, TypeOK, CallNumbered
<1>14. ASSUME NEW q \in Queries, WorkerResetPath(q) PROVE TypeInv'
    <2>1. UNCHANGED <<widx, total, sent, chan, rxOpen, delivered, cstate, cpc, cidx, qn>>
        BY <1>14 DEF WorkerResetPath, consumerSide, callerSide
    <2>2. /\ AttTypeOK'
          /\ wpc' \in [Queries -> WorkerStates]
        <3>0. ResetSearchPath(q) \/ UNCHANGED attVars
            BY <1>14 DEF WorkerResetPath
        <3>1. AttTypeOK'
            <4>1. CASE ResetSearchPath(q)
                BY <4>1, <1>0, <1>a, ResetSearchPathType DEF TypeOK
            <4>2. CASE UNCHANGED attVars
                BY <4>2, <1>a DEF TypeOK, AttTypeOK, attVars
            <4>3. QED
                BY <3>0, <4>1, <4>2
        <3>2. QED
            BY <3>1, <1>14, <1>b DEF WorkerResetPath, WorkerStates
    <2>3. QED
        BY <2>1, <2>2, <1>a, Zenon DEF TypeInv, TypeOK, CallNumbered
<1>15. ASSUME NEW q \in Queries, Recv(q) PROVE TypeInv'
    <2>1. UNCHANGED <<catalog, searchPath, cpc, cidx, qn, wpc, widx, total, sent, rxOpen, cstate>>
        BY <1>15 DEF Recv, attVars, callerSide
    <2>2. /\ AttTypeOK'
          /\ chan' \in [Queries -> Seq(1 .. MaxBatches)]
          /\ \A r \in Queries : Len(chan'[r]) <= ChannelCapacity
          /\ delivered' \in [Queries -> Seq(1 .. MaxBatches)]
        <3>1. AttTypeOK'
            BY <1>b, <2>1 DEF AttTypeOK
        <3>2. /\ Head(chan[q]) \in 1 .. MaxBatches
              /\ Tail(chan[q]) \in Seq(1 .. MaxBatches)
              /\ Len(Tail(chan[q])) = Len(chan[q]) - 1
            BY <1>15, <1>c, HeadTailProperties DEF Recv
        <3>3. Append(delivered[q], Head(chan[q])) \in Seq(1 .. MaxBatches)
            BY <3>2, <1>c, AppendProperties
        <3>4. Len(Tail(chan[q])) <= ChannelCapacity
            BY <3>2, <1>0, <1>c, LenProperties
        <3>5. /\ chan' = [chan EXCEPT ![q] = Tail(chan[q])]
              /\ delivered' = [delivered EXCEPT ![q] = Append(delivered[q], Head(chan[q]))]
            BY <1>15 DEF Recv
        <3>6. QED
            BY <3>1, <3>2, <3>3, <3>4, <3>5, <1>c
    <2>3. QED
        BY <2>1, <2>2, <1>a, Zenon DEF TypeInv, TypeOK, CallNumbered
<1>16. ASSUME NEW q \in Queries, Join(q) PROVE TypeInv'
    <2>1. UNCHANGED <<catalog, searchPath, cpc, cidx, qn, wpc, widx, total, sent, chan, rxOpen, delivered>>
        BY <1>16 DEF Join, attVars, callerSide
    <2>2. /\ AttTypeOK'
          /\ cstate' \in [Queries -> ConsumerStates]
        <3>1. AttTypeOK'
            BY <1>b, <2>1 DEF AttTypeOK
        <3>2. QED
            BY <3>1, <1>16, <1>b DEF Join, WorkerDone, ConsumerStates
    <2>3. QED
        BY <2>1, <2>2, <1>a, Zenon DEF TypeInv, TypeOK, CallNumbered
<1>17. ASSUME NEW q \in Queries, Drop(q) PROVE TypeInv'
    <2>1. UNCHANGED <<catalog, searchPath, cpc, cidx, qn, wpc, widx, total, sent, delivered>>
        BY <1>17 DEF Drop, attVars, callerSide
    <2>2. /\ AttTypeOK'
          /\ cstate' \in [Queries -> ConsumerStates]
          /\ rxOpen' \in [Queries -> BOOLEAN]
          /\ chan' \in [Queries -> Seq(1 .. MaxBatches)]
          /\ \A r \in Queries : Len(chan'[r]) <= ChannelCapacity
        <3>1. AttTypeOK'
            BY <1>b, <2>1 DEF AttTypeOK
        <3>2. QED
            BY <3>1, <1>0, <1>17, <1>b, <1>c, EmptySeq DEF Drop, ConsumerStates
    <2>3. QED
        BY <2>1, <2>2, <1>a, Zenon DEF TypeInv, TypeOK, CallNumbered
<1>18. CASE Finished \/ UNCHANGED vars
    <2>1. UNCHANGED vars
        BY <1>18 DEF Finished
    <2>2. QED
        BY <2>1, <1>a, Zenon DEF vars, TypeInv, TypeOK, AttTypeOK, CallNumbered
<1>19. QED
    BY <1>1, <1>2, <1>3, <1>4, <1>5, <1>6, <1>7, <1>8, <1>9, <1>10, <1>11,
       <1>12, <1>13, <1>14, <1>15, <1>16, <1>17, <1>18
    DEF Next, Caller, Worker, Consumer

(* The type invariant holds in every reachable state: every variable of   *)
(* the bridge and the attachment manager stays in its domain, and the     *)
(* mpsc channel never buffers more than its capacity (blocking_send      *)
(* blocks at ChannelCapacity, duckdbconn.rs:370 and 459).                 *)
THEOREM TypeCorrect == Spec => []TypeOK
<1>1. Init => TypeInv
    BY InitTypeInv
<1>2. TypeInv /\ [Next]_vars => TypeInv'
    BY NextTypeInv
<1>3. TypeInv => TypeOK
    BY DEF TypeInv
<1>4. QED
    BY <1>1, <1>2, <1>3, PTL DEF Spec

=============================================================================
