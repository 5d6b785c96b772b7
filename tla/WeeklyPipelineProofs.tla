------------------------ MODULE WeeklyPipelineProofs ------------------------
(* Proofs about module WeeklyPipeline, for any number of processes, runs,    *)
(* items, prices and lists, any batch size and any bounds on faults, retries *)
(* and edits.                                                                *)
EXTENDS WeeklyPipeline, MockSapProofs

(* What the invariant adds to the typing and to AcceptedIsReal.              *)

\* A process that executes has a run id.
RunsKnown == \A p \in Proc : pc[p] # "idle" => run_id[p] \in Run

\* Only priced items are waiting to be posted, so every payload holds prices.
SentArePriced == \A p \in Proc :
    /\ todo[p] \subseteq Prices(priced[p])
    /\ todo[p] # {} => pc[p] = "send"

\* An idle process remembers nothing of an earlier execution.
IdleIsBlank == \A p \in Proc : pc[p] = "idle" => results[p] = NoResults

\* What a process believes to be accepted was accepted under its run id.
ResultsAreReal == \A p \in Proc, i \in Item :
    results[p][i] = "ACCEPTED" => \E price \in Price : AcceptedBySap(run_id[p], i, price)

\* The part of the invariant that typing rests on.
TypeInv == TypeOK /\ RunsKnown /\ SentArePriced

PipelineInv ==
    /\ TypeInv
    /\ SapInv
    /\ IdleIsBlank
    /\ ResultsAreReal
    /\ AcceptedIsReal

------------------------------------------------------------------------------
(* Typing of the parts a step leaves alone                                   *)

\* SAP left alone.
LEMMA SapSame == SapTypeOK /\ UNCHANGED sapVars => SapTypeOK'
  BY DEF SapTypeOK, sapVars

\* The warehouse left alone.
LEMMA WarehouseSame == WarehouseTypeOK /\ UNCHANGED warehouse => WarehouseTypeOK'
  BY DEF WarehouseTypeOK, warehouse

\* Postgres left alone.
LEMMA PostgresSame == PostgresTypeOK /\ UNCHANGED postgres => PostgresTypeOK'
  BY DEF PostgresTypeOK, postgres

\* The processes left alone.
LEMMA ProcessSame == ProcessTypeOK /\ UNCHANGED <<pc, memory>> => ProcessTypeOK'
  BY DEF ProcessTypeOK, memory

\* Requests in flight and the fault count left alone.
LEMMA OthersSame ==
    UNCHANGED <<inflight, faults>> /\ inflight \subseteq InFlight /\ faults \in 0 .. MaxFaults
    => inflight' \subseteq InFlight /\ faults' \in 0 .. MaxFaults
  OBVIOUS

------------------------------------------------------------------------------
(* Typing of the values the steps compute                                    *)

\* The engine computes a price or none for each item.
LEMMA EnginePricesType ==
    ASSUME NEW l \in List \cup {NoList}
    PROVE  EnginePrices(l) \in [Item -> Price \cup {NoPrice}]
  BY OfferAssumption DEF EnginePrices, NoPrices

\* A payload is a batch of well-formed prices of items still to send.
LEMMA PayloadType ==
    ASSUME ProcessTypeOK, SentArePriced, NEW p \in Proc
    PROVE  /\ NextBatch(p) \subseteq todo[p]
           /\ NextBatch(p) \subseteq Item
           /\ Payload(p) \in Batch
           /\ DOMAIN Payload(p) = NextBatch(p)
  <1>1. NextBatch(p) \subseteq todo[p] /\ todo[p] \subseteq Item
    BY DEF NextBatch, ProcessTypeOK
  <1>2. \A i \in NextBatch(p) : priced[p][i] \in Price
    BY <1>1 DEF SentArePriced, Prices, ProcessTypeOK
  <1>3. Payload(p) \in [NextBatch(p) -> Price \cup {BadPrice}]
    BY <1>2 DEF Payload
  <1>4. NextBatch(p) \in SUBSET Item
    BY <1>1
  <1> QED BY <1>1, <1>3, <1>4 DEF Batch, Payload

\* SAP's conditions carry prices only.
LEMMA ConditionsType ==
    ASSUME SapTypeOK
    PROVE  ConditionsAnswer \in HeldPrices
  <1>1. HeldItems \in SUBSET Item
    BY DEF SapTypeOK, HeldItems, Condition
  <1>2. ASSUME NEW i \in HeldItems
        PROVE  HeldPrice(i) \in Price /\ EffectivePrice(i) \in Price
    <2>1. \E c \in price_conditions : c.item = i
      BY <1>2 DEF HeldItems
    <2>2. HeldPrice(i) \in Price
      BY <2>1 DEF HeldPrice, SapTypeOK, Condition
    <2>3. i \in Item
      BY <1>1, <1>2
    <2> QED BY <2>2, <2>3 DEF EffectivePrice, SapTypeOK
  <1>3. ConditionsAnswer \in [HeldItems -> [price : Price, effective_price : Price]]
    BY <1>2 DEF ConditionsAnswer
  <1> QED BY <1>1, <1>3 DEF HeldPrices

\* Reconciliation yields one of its codes.
LEMMA ReconcileType ==
    ASSUME NEW price, NEW held, NEW i
    PROVE  Reconcile(price, held, i) \in ReconcileStatus
  BY DEF Reconcile, ReconcileStatus

\* The answer for no item is an answer.
LEMMA NoConditionsType == NoConditions \in HeldPrices
  <1>1. NoConditions \in [{} -> [price : Price, effective_price : Price]]
    BY DEF NoConditions
  <1>2. {} \in SUBSET Item
    OBVIOUS
  <1> QED BY <1>1, <1>2 DEF HeldPrices

\* The end of an execution leaves its memory blank.
LEMMA ExitKeepsType ==
    ASSUME ProcessTypeOK, NEW p \in Proc, Exit(p)
    PROVE  ProcessTypeOK'
  <1>1. NoConditions \in HeldPrices
    BY NoConditionsType
  <1>2. NoResults \in [Item -> SendStatus \cup {Null}] /\ NoResults \in [Item -> ReconcileStatus \cup {Null}]
    BY DEF NoResults
  <1>3. NoPrices \in [Item -> Price \cup {NoPrice}] /\ 0 \in 0 .. MaxRetries
    BY BoundAssumption DEF NoPrices
  <1> QED BY <1>1, <1>2, <1>3 DEF ProcessTypeOK, Exit, Goto, ControlPoint

\* Settling a batch of items keeps the types and removes it from what is to send.
LEMMA SettleKeepsType ==
    ASSUME ProcessTypeOK, NEW p \in Proc, NEW res, DOMAIN res \subseteq Item,
           \A i \in DOMAIN res : res[i] \in SendStatus,
           Settle(p, res), UNCHANGED <<pc, run_id, priced, source, conditions, recon>>
    PROVE  ProcessTypeOK'
  <1>1. 0 \in 0 .. MaxRetries
    BY BoundAssumption
  <1> QED BY <1>1 DEF ProcessTypeOK, Settle

\* Setting the status of a run keeps Postgres typed.
LEMMA SetStatusKeepsType ==
    ASSUME PostgresTypeOK, NEW r, NEW status \in RunStatus, SetStatus(r, status),
           UNCHANGED pipeline_records
    PROVE  PostgresTypeOK'
  BY DEF PostgresTypeOK, SetStatus

\* The rows written to the engine's table are rows of it.
LEMMA EngineRowType ==
    ASSUME ProcessTypeOK, NEW p \in Proc, NEW i \in Item
    PROVE  EngineRow(p, i) \in Recommendation
  <1>1. (i \in Candidates(source[p])) \in BOOLEAN
    OBVIOUS
  <1>2. priced[p][i] \in Price \cup {NoPrice}
    BY DEF ProcessTypeOK
  <1> QED BY <1>1, <1>2 DEF EngineRow, Recommendation

\* An updated row is a row of the engine's table.
LEMMA AnsweredRowType ==
    ASSUME ProcessTypeOK, WarehouseTypeOK, NEW p \in Proc, run_id[p] \in Run, NEW i \in Item
    PROVE  AnsweredRow(p, i) \in Recommendation
  <1> DEFINE r == price_recommendations[run_id[p]][i]
  <1>1. r \in Recommendation
    BY DEF WarehouseTypeOK
  <1>2. results[p][i] # Null => results[p][i] \in SendStatus
    BY DEF ProcessTypeOK
  <1>3. results[p][i] # Null => [r EXCEPT !.sap_status = results[p][i]] \in Recommendation
    BY <1>1, <1>2 DEF Recommendation
  <1> QED BY <1>1, <1>3 DEF AnsweredRow

\* Setting one column of a record to a value of its type leaves a record.
LEMMA RecordUpdates ==
    ASSUME NEW rec \in Record
    PROVE  /\ \A v \in Price \cup {NoPrice} : [rec EXCEPT !.price = v] \in Record
           /\ \A v \in SendStatus : [rec EXCEPT !.send_status = v] \in Record
           /\ \A v \in ReconcileStatus : [rec EXCEPT !.reconcile_status = v] \in Record
  BY DEF Record

\* A missing row is a row.
LEMMA NoRecommendationType == NoRecommendation \in Recommendation
  BY DEF NoRecommendation, Recommendation

\* A torn write leaves rows of the tables.
LEMMA TornWriteKeepsType ==
    ASSUME ProcessTypeOK, WarehouseTypeOK, RunsKnown, NEW p \in Proc, pc[p] # "idle", TornWrite(p)
    PROVE  WarehouseTypeOK'
  <1>0. run_id[p] \in Run
    BY DEF RunsKnown
  <1>1. CASE UNCHANGED warehouse
    BY <1>1, WarehouseSame
  <1>2. CASE wh_list' = NoList /\ UNCHANGED <<price_recommendations, price_history>>
    BY <1>2 DEF WarehouseTypeOK
  <1>3. ASSUME NEW done \in SUBSET Candidates(source[p]),
               price_recommendations' = [price_recommendations EXCEPT ![run_id[p]] =
                   [i \in Item |-> IF i \in done THEN EngineRow(p, i) ELSE NoRecommendation]],
               UNCHANGED <<wh_list, price_history>>
        PROVE  WarehouseTypeOK'
    <2>1. [i \in Item |-> IF i \in done THEN EngineRow(p, i) ELSE NoRecommendation] \in [Item -> Recommendation]
      BY EngineRowType, NoRecommendationType
    <2> QED BY <2>1, <1>3 DEF WarehouseTypeOK
  <1>4. ASSUME NEW done \in SUBSET Item,
               price_recommendations' = [price_recommendations EXCEPT ![run_id[p]] =
                   [i \in Item |-> IF i \in done THEN AnsweredRow(p, i) ELSE @[i]]],
               UNCHANGED <<wh_list, price_history>>
        PROVE  WarehouseTypeOK'
    <2>1. [i \in Item |-> IF i \in done THEN AnsweredRow(p, i) ELSE price_recommendations[run_id[p]][i]]
             \in [Item -> Recommendation]
      BY <1>0, AnsweredRowType DEF WarehouseTypeOK
    <2> QED BY <2>1, <1>4 DEF WarehouseTypeOK
  <1>5. CASE price_history' = [i \in Item |-> Absent] /\ UNCHANGED <<wh_list, price_recommendations>>
    BY <1>5 DEF WarehouseTypeOK
  <1> QED BY <1>1, <1>2, <1>3, <1>4, <1>5 DEF TornWrite

------------------------------------------------------------------------------
(* Type correctness                                                          *)

\* Each action of a process that goes well keeps the types.
LEMMA StepKeepsType ==
    ASSUME TypeInv, NEW p \in Proc, Step(p)
    PROVE  TypeOK'
  <1> USE DEF TypeInv, TypeOK
  <1>r. pc[p] # "idle" => run_id[p] \in Run
    BY DEF RunsKnown
  <1>1. CASE Fetch(p)
    <2>1. ProcessTypeOK'
      BY <1>1 DEF Fetch, Goto, ProcessTypeOK, ControlPoint, SapTypeOK
    <2> QED BY <1>1, <2>1, SapSame, WarehouseSame, PostgresSame, OthersSame DEF Fetch
  <1>2. CASE Ingest(p)
    <2>1. ProcessTypeOK'
      BY <1>2 DEF Ingest, Goto, ProcessTypeOK, ControlPoint, memory
    <2>2. WarehouseTypeOK'
      BY <1>2 DEF Ingest, WarehouseTypeOK, ProcessTypeOK
    <2> QED BY <1>2, <2>1, <2>2, SapSame, PostgresSame, OthersSame DEF Ingest
  <1>3. CASE PriceWeek(p)
    <2>1. wh_list \in List \cup {NoList}
      BY DEF WarehouseTypeOK
    <2>2. EnginePrices(wh_list) \in [Item -> Price \cup {NoPrice}]
      BY <2>1, EnginePricesType
    <2>3. ProcessTypeOK'
      BY <1>3, <2>1, <2>2 DEF PriceWeek, Goto, ProcessTypeOK, ControlPoint
    <2> QED BY <1>3, <2>3, SapSame, WarehouseSame, PostgresSame, OthersSame DEF PriceWeek
  <1>4. CASE SaveRecommendations(p)
    <2>1. ProcessTypeOK'
      BY <1>4 DEF SaveRecommendations, Goto, ProcessTypeOK, ControlPoint, memory
    <2>2. [i \in Item |-> EngineRow(p, i)] \in [Item -> Recommendation]
      BY EngineRowType
    <2>3. WarehouseTypeOK'
      BY <1>4, <2>2 DEF SaveRecommendations, WarehouseTypeOK
    <2> QED BY <1>4, <2>1, <2>3, SapSame, PostgresSame, OthersSame DEF SaveRecommendations
  <1>5. CASE Validate(p)
    <2>1. ProcessTypeOK'
      BY <1>5 DEF Validate, Goto, ProcessTypeOK, ControlPoint, memory
    <2> QED BY <1>5, <2>1, SapSame, WarehouseSame, PostgresSame, OthersSame DEF Validate
  <1>6. CASE FinishBlocked(p)
    <2>1. PostgresTypeOK'
      BY <1>6, SetStatusKeepsType DEF FinishBlocked, RunStatus
    <2> QED BY <1>6, <2>1, ExitKeepsType, SapSame, WarehouseSame, OthersSame DEF FinishBlocked
  <1>7. CASE InitRecords(p)
    <2>1. ProcessTypeOK'
      BY <1>7 DEF InitRecords, Goto, ProcessTypeOK, ControlPoint, memory
    <2>2. run_id[p] \in Run
      BY <1>7, <1>r DEF InitRecords, At
    <2>3. [i \in Item |-> IF priced[p][i] # NoPrice
                          THEN [pipeline_records[run_id[p]][i] EXCEPT !.price = priced[p][i]]
                          ELSE pipeline_records[run_id[p]][i]] \in [Item -> Record]
      <3> SUFFICES ASSUME NEW i \in Item
                   PROVE  (IF priced[p][i] # NoPrice THEN [pipeline_records[run_id[p]][i] EXCEPT !.price = priced[p][i]]
                           ELSE pipeline_records[run_id[p]][i]) \in Record
        OBVIOUS
      <3>1. pipeline_records[run_id[p]][i] \in Record
        BY <2>2 DEF PostgresTypeOK
      <3>2. priced[p][i] # NoPrice => priced[p][i] \in Price
        BY DEF ProcessTypeOK
      <3> QED BY <3>1, <3>2, RecordUpdates
    <2>4. PostgresTypeOK'
      BY <1>7, <2>2, <2>3 DEF InitRecords, PostgresTypeOK
    <2> QED BY <1>7, <2>1, <2>4, SapSame, WarehouseSame, OthersSame DEF InitRecords
  <1>8. CASE PlanSend(p)
    <2>1. ProcessTypeOK'
      BY <1>8 DEF PlanSend, Goto, ProcessTypeOK, ControlPoint, Prices
    <2> QED BY <1>8, <2>1, SapSame, WarehouseSame, PostgresSame, OthersSame DEF PlanSend
  <1>9. CASE PostAnswered(p)
    <2>1. run_id[p] \in Run /\ Payload(p) \in Batch /\ NextBatch(p) \subseteq Item
      BY <1>9, <1>r, PayloadType DEF PostAnswered, At
    <2>2. SapTypeOK'
      BY <1>9, <2>1, PostKeepsType DEF PostAnswered
    <2> DEFINE res == [i \in NextBatch(p) |-> StatusOf(Answer(run_id[p], Payload(p))[i])]
    <2>3. \A i \in DOMAIN res : res[i] \in SendStatus
      BY DEF StatusOf, SendStatus
    <2>4. Settle(p, res) /\ UNCHANGED <<pc, run_id, priced, source, conditions, recon>>
      BY <1>9 DEF PostAnswered
    <2>5. DOMAIN res \subseteq Item
      BY <2>1
    <2> HIDE DEF res
    <2>6. ProcessTypeOK'
      BY <2>3, <2>4, <2>5, SettleKeepsType
    <2> QED BY <1>9, <2>2, <2>6, WarehouseSame, PostgresSame, OthersSame DEF PostAnswered
  <1>10. CASE SendDone(p)
    <2>1. ProcessTypeOK'
      BY <1>10 DEF SendDone, Goto, ProcessTypeOK, ControlPoint, memory
    <2> QED BY <1>10, <2>1, SapSame, WarehouseSame, PostgresSame, OthersSame DEF SendDone
  <1>11. CASE SaveSendResults(p)
    <2>1. ProcessTypeOK'
      BY <1>11 DEF SaveSendResults, Goto, ProcessTypeOK, ControlPoint, memory
    <2>2. run_id[p] \in Run
      BY <1>11, <1>r DEF SaveSendResults, At
    <2>3. [i \in Item |-> IF results[p][i] # Null
                          THEN [pipeline_records[run_id[p]][i] EXCEPT !.send_status = results[p][i]]
                          ELSE pipeline_records[run_id[p]][i]] \in [Item -> Record]
      <3> SUFFICES ASSUME NEW i \in Item
                   PROVE  (IF results[p][i] # Null THEN [pipeline_records[run_id[p]][i] EXCEPT !.send_status = results[p][i]]
                           ELSE pipeline_records[run_id[p]][i]) \in Record
        OBVIOUS
      <3>1. pipeline_records[run_id[p]][i] \in Record
        BY <2>2 DEF PostgresTypeOK
      <3>2. results[p][i] # Null => results[p][i] \in SendStatus
        BY DEF ProcessTypeOK
      <3> QED BY <3>1, <3>2, RecordUpdates
    <2>4. PostgresTypeOK'
      BY <1>11, <2>2, <2>3 DEF SaveSendResults, PostgresTypeOK
    <2> QED BY <1>11, <2>1, <2>4, SapSame, WarehouseSame, OthersSame DEF SaveSendResults
  <1>12. CASE RecordSendResults(p)
    <2>1. ProcessTypeOK'
      BY <1>12 DEF RecordSendResults, Goto, ProcessTypeOK, ControlPoint, memory
    <2>2. run_id[p] \in Run
      BY <1>12, <1>r DEF RecordSendResults, At
    <2>3. [i \in Item |-> AnsweredRow(p, i)] \in [Item -> Recommendation]
      BY <2>2, AnsweredRowType
    <2>4. WarehouseTypeOK'
      BY <1>12, <2>3 DEF RecordSendResults, WarehouseTypeOK
    <2> QED BY <1>12, <2>1, <2>4, SapSame, PostgresSame, OthersSame DEF RecordSendResults
  <1>13. CASE GetConditions(p)
    <2> DEFINE rec == [i \in Item |-> IF i \in Prices(priced[p]) \cap AcceptedKeys(run_id[p])
                                      THEN Reconcile(priced[p][i], ConditionsAnswer, i) ELSE Null]
    <2>1. rec \in [Item -> ReconcileStatus \cup {Null}]
      BY ReconcileType
    <2>2. recon' = [recon EXCEPT ![p] = rec]
      BY <1>13 DEF GetConditions
    <2> HIDE DEF rec
    <2>3. conditions' \in [Proc -> HeldPrices]
      BY <1>13, ConditionsType DEF GetConditions, ProcessTypeOK
    <2>4. ProcessTypeOK'
      BY <1>13, <2>1, <2>2, <2>3 DEF GetConditions, Goto, ProcessTypeOK, ControlPoint
    <2> QED BY <1>13, <2>4, SapSame, WarehouseSame, PostgresSame, OthersSame DEF GetConditions
  <1>14. CASE SaveReconcile(p)
    <2>1. ProcessTypeOK'
      BY <1>14 DEF SaveReconcile, Goto, ProcessTypeOK, ControlPoint, memory
    <2>2. run_id[p] \in Run
      BY <1>14, <1>r DEF SaveReconcile, At
    <2>3. [i \in Item |-> IF recon[p][i] # Null
                          THEN [pipeline_records[run_id[p]][i] EXCEPT !.reconcile_status = recon[p][i]]
                          ELSE pipeline_records[run_id[p]][i]] \in [Item -> Record]
      <3> SUFFICES ASSUME NEW i \in Item
                   PROVE  (IF recon[p][i] # Null THEN [pipeline_records[run_id[p]][i] EXCEPT !.reconcile_status = recon[p][i]]
                           ELSE pipeline_records[run_id[p]][i]) \in Record
        OBVIOUS
      <3>1. pipeline_records[run_id[p]][i] \in Record
        BY <2>2 DEF PostgresTypeOK
      <3>2. recon[p][i] # Null => recon[p][i] \in ReconcileStatus
        BY DEF ProcessTypeOK
      <3> QED BY <3>1, <3>2, RecordUpdates
    <2>4. PostgresTypeOK'
      BY <1>14, <2>2, <2>3 DEF SaveReconcile, PostgresTypeOK
    <2> QED BY <1>14, <2>1, <2>4, SapSame, WarehouseSame, OthersSame DEF SaveReconcile
  <1>15. CASE RecordHistory(p)
    <2>1. ProcessTypeOK'
      BY <1>15 DEF RecordHistory, Goto, ProcessTypeOK, ControlPoint, memory
    <2>2. conditions[p] \in HeldPrices
      BY DEF ProcessTypeOK
    <2>3. \A i \in DOMAIN conditions[p] : conditions[p][i].effective_price \in Price
      BY <2>2 DEF HeldPrices
    <2>4. WarehouseTypeOK'
      BY <1>15, <2>3 DEF RecordHistory, WarehouseTypeOK
    <2> QED BY <1>15, <2>1, <2>4, SapSame, PostgresSame, OthersSame DEF RecordHistory
  <1>16. CASE Finish(p)
    <2>1. FinalStatus(p) \in RunStatus
      BY DEF FinalStatus, RunStatus
    <2>2. PostgresTypeOK'
      BY <1>16, <2>1, SetStatusKeepsType DEF Finish
    <2> QED BY <1>16, <2>2, ExitKeepsType, SapSame, WarehouseSame, OthersSame DEF Finish
  <1> QED BY <1>1, <1>2, <1>3, <1>4, <1>5, <1>6, <1>7, <1>8, <1>9, <1>10, <1>11, <1>12,
             <1>13, <1>14, <1>15, <1>16 DEF Step

\* The fault count stays within its bound.
LEMMA FaultKeepsType ==
    ASSUME Fault, faults \in 0 .. MaxFaults
    PROVE  faults' \in 0 .. MaxFaults
  BY BoundAssumption DEF Fault

\* A request of a process that sends is a request SAP may get later.
LEMMA InFlightType ==
    ASSUME TypeInv, NEW p \in Proc, At(p, "send"),
           \/ inflight' = inflight
           \/ inflight' = inflight \cup {[run |-> run_id[p], batch |-> Payload(p)]}
    PROVE  inflight' \subseteq InFlight
  <1>1. run_id[p] \in Run /\ Payload(p) \in Batch
    BY PayloadType DEF At, TypeInv, TypeOK, RunsKnown
  <1> QED BY <1>1 DEF InFlight, TypeInv, TypeOK

\* Giving a batch up keeps the memory typed.
LEMMA SettleAsErrorKeepsType ==
    ASSUME TypeInv, NEW p \in Proc, SettleAsError(p),
           UNCHANGED <<pc, run_id, priced, source, conditions, recon>>
    PROVE  ProcessTypeOK'
  <1> DEFINE res == [i \in NextBatch(p) |-> "ERROR"]
  <1>1. Settle(p, res)
    BY DEF SettleAsError
  <1>2. DOMAIN res \subseteq Item /\ \A i \in DOMAIN res : res[i] \in SendStatus
    BY PayloadType DEF TypeInv, TypeOK, SendStatus
  <1> HIDE DEF res
  <1> QED BY <1>1, <1>2, SettleKeepsType DEF TypeInv, TypeOK

\* Each failure keeps the types.
LEMMA FailureKeepsType ==
    ASSUME TypeInv, NEW p \in Proc, Failure(p)
    PROVE  TypeOK'
  <1> USE DEF TypeInv, TypeOK
  <1>1. CASE PostFailed(p)
    <2>1. ASSUME tries[p] < MaxRetries, tries' = [tries EXCEPT ![p] = @ + 1], UNCHANGED <<results, todo>>
          PROVE  ProcessTypeOK'
      <3>1. tries[p] + 1 \in 0 .. MaxRetries
        BY <2>1, BoundAssumption DEF ProcessTypeOK
      <3> QED BY <1>1, <2>1, <3>1 DEF PostFailed, ProcessTypeOK
    <2>2. ASSUME SettleAsError(p)
          PROVE  ProcessTypeOK'
      BY <1>1, <2>2, SettleAsErrorKeepsType DEF PostFailed
    <2>3. ProcessTypeOK'
      BY <1>1, <2>1, <2>2 DEF PostFailed
    <2>4. inflight' \subseteq InFlight
      BY <1>1, InFlightType DEF PostFailed
    <2> QED BY <1>1, <2>3, <2>4, FaultKeepsType, SapSame, WarehouseSame, PostgresSame DEF PostFailed
  <1>2. CASE PostRefused(p)
    <2>1. ProcessTypeOK'
      BY <1>2, SettleAsErrorKeepsType DEF PostRefused
    <2> QED BY <1>2, <2>1, FaultKeepsType, SapSame, WarehouseSame, PostgresSame DEF PostRefused
  <1>3. CASE Raise(p)
    <2>1. PostgresTypeOK'
      BY <1>3, SetStatusKeepsType DEF Raise, RunStatus
    <2>2. WarehouseTypeOK'
      BY <1>3, TornWriteKeepsType DEF Raise
    <2> QED BY <1>3, <2>1, <2>2, ExitKeepsType, FaultKeepsType, SapSame DEF Raise
  <1>4. CASE Crash(p)
    <2>1. WarehouseTypeOK'
      BY <1>4, TornWriteKeepsType DEF Crash
    <2>2. inflight' \subseteq InFlight
      BY <1>4, InFlightType DEF Crash
    <2> QED BY <1>4, <2>1, <2>2, ExitKeepsType, FaultKeepsType, SapSame, PostgresSame DEF Crash
  <1> QED BY <1>1, <1>2, <1>3, <1>4 DEF Failure

\* Starting an execution keeps the types.
LEMMA StartKeepsType ==
    ASSUME TypeInv, NEW p \in Proc, NEW r \in Run, Start(p, r)
    PROVE  TypeOK'
  <1> USE DEF TypeInv, TypeOK
  <1>1. [status |-> "RUNNING", attempt |-> pipeline_runs[r].attempt + 1]
            \in [status : RunStatus, attempt : 0 .. MaxAttempts]
    <2>1. pipeline_runs[r].attempt \in 0 .. MaxAttempts /\ pipeline_runs[r].attempt < MaxAttempts
      BY DEF Start, PostgresTypeOK
    <2> QED BY <2>1, BoundAssumption DEF RunStatus
  <1>2. PostgresTypeOK'
    BY <1>1 DEF Start, PostgresTypeOK
  <1>3. ProcessTypeOK'
    BY DEF Start, Goto, ProcessTypeOK, ControlPoint
  <1> QED BY <1>2, <1>3, SapSame, WarehouseSame, OthersSame DEF Start

\* A late request keeps the types.
LEMMA LateArrivalKeepsType ==
    ASSUME TypeInv, NEW m \in inflight, LateArrival(m)
    PROVE  TypeOK'
  <1> USE DEF TypeInv, TypeOK
  <1>1. m.run \in Run /\ m.batch \in Batch
    BY DEF InFlight
  <1>2. SapTypeOK'
    BY <1>1, PostKeepsType DEF LateArrival
  <1>3. ProcessTypeOK'
    BY ProcessSame DEF LateArrival
  <1>4. inflight' \subseteq InFlight /\ faults' \in 0 .. MaxFaults
    BY DEF LateArrival
  <1> QED BY <1>2, <1>3, <1>4, WarehouseSame, PostgresSame DEF LateArrival

------------------------------------------------------------------------------
(* SAP and its log                                                           *)

\* Every step of the pipeline is a step of SAP or leaves SAP alone.
LEMMA PipelineStepsOfSap ==
    ASSUME TypeInv, [Next]_vars
    PROVE  [SapNext]_sapVars
  <1> USE DEF TypeInv, TypeOK
  <1>1. ASSUME NEW p \in Proc, NEW r \in Run, Start(p, r)
        PROVE  UNCHANGED sapVars
    BY <1>1 DEF Start
  <1>2. ASSUME NEW p \in Proc, Step(p)
        PROVE  [SapNext]_sapVars
    <2>1. CASE PostAnswered(p)
      <3>1. run_id[p] \in Run /\ Payload(p) \in Batch /\ post_prices(run_id[p], Payload(p))
        BY <2>1, PayloadType DEF PostAnswered, At, RunsKnown
      <3> QED BY <3>1 DEF SapNext
    <2>2. CASE ~ PostAnswered(p)
      <3>1. UNCHANGED sapVars
        BY <1>2, <2>2 DEF Step, Fetch, Ingest, PriceWeek, SaveRecommendations, Validate, FinishBlocked,
              InitRecords, PlanSend, SendDone, SaveSendResults, RecordSendResults, GetConditions,
              SaveReconcile, RecordHistory, Finish
      <3> QED BY <3>1
    <2> QED BY <2>1, <2>2
  <1>3. ASSUME NEW p \in Proc, Failure(p)
        PROVE  UNCHANGED sapVars
    BY <1>3 DEF Failure, PostFailed, PostRefused, Raise, Crash
  <1>4. ASSUME NEW m \in inflight, LateArrival(m)
        PROVE  [SapNext]_sapVars
    <2>1. m.run \in Run /\ m.batch \in Batch
      BY DEF InFlight
    <2> QED BY <1>4, <2>1 DEF LateArrival, SapNext
  <1>5. CASE OutsideEdit
    BY <1>5 DEF OutsideEdit, SapNext
  <1>6. CASE UNCHANGED vars
    BY <1>6 DEF vars
  <1> QED BY <1>1, <1>2, <1>3, <1>4, <1>5, <1>6 DEF Next

\* SAP's log is append-only: what SAP once accepted stays on record.
LEMMA LogGrows ==
    ASSUME [SapNext]_sapVars
    PROVE  submission_log \subseteq submission_log'
  <1>1. ASSUME NEW r \in Run, NEW b \in Batch, post_prices(r, b)
        PROVE  submission_log \subseteq submission_log'
    BY <1>1, PostAdds
  <1>2. CASE SapEdit
    BY <1>2 DEF SapEdit, PublishList, SetPromotion, EndOldRecord, DeleteCondition
  <1>3. CASE UNCHANGED sapVars
    BY <1>3 DEF sapVars
  <1> QED BY <1>1, <1>2, <1>3 DEF SapNext

\* Every step keeps the types.
LEMMA NextKeepsType ==
    ASSUME TypeInv, SapInv, [Next]_vars
    PROVE  TypeOK'
  <1>1. ASSUME NEW p \in Proc, NEW r \in Run, Start(p, r)
        PROVE  TypeOK'
    BY <1>1, StartKeepsType
  <1>2. ASSUME NEW p \in Proc, Step(p)
        PROVE  TypeOK'
    BY <1>2, StepKeepsType
  <1>3. ASSUME NEW p \in Proc, Failure(p)
        PROVE  TypeOK'
    BY <1>3, FailureKeepsType
  <1>4. ASSUME NEW m \in inflight, LateArrival(m)
        PROVE  TypeOK'
    BY <1>4, LateArrivalKeepsType
  <1>5. CASE OutsideEdit
    <2>1. SapTypeOK'
      BY <1>5, EditKeepsInv DEF OutsideEdit, SapInv
    <2> QED BY <1>5, <2>1, WarehouseSame, PostgresSame, ProcessSame DEF OutsideEdit, TypeInv, TypeOK
  <1>6. CASE UNCHANGED vars
    BY <1>6, SapSame, WarehouseSame, PostgresSame, ProcessSame DEF vars, TypeInv, TypeOK
  <1> QED BY <1>1, <1>2, <1>3, <1>4, <1>5, <1>6 DEF Next

------------------------------------------------------------------------------
(* What processes know                                                       *)

\* The three facts about a process, kept by every step.
ProcInv == RunsKnown /\ SentArePriced /\ IdleIsBlank

\* A process that ends is blank and has nothing to send.
LEMMA ExitKeepsProc ==
    ASSUME TypeInv, ProcInv, NEW p \in Proc, Exit(p)
    PROVE  ProcInv'
  <1>1. p \in DOMAIN pc /\ p \in DOMAIN todo /\ p \in DOMAIN results
    BY DEF TypeInv, TypeOK, ProcessTypeOK
  <1> QED BY <1>1 DEF Exit, Goto, ProcInv, RunsKnown, SentArePriced, IdleIsBlank, TypeInv, TypeOK, ProcessTypeOK

\* A settled batch leaves less to send.
LEMMA SettleKeepsProc ==
    ASSUME TypeInv, ProcInv, NEW p \in Proc, At(p, "send"), NEW res, Settle(p, res),
           UNCHANGED <<pc, run_id, priced>>
    PROVE  ProcInv'
  BY DEF At, Settle, ProcInv, RunsKnown, SentArePriced, IdleIsBlank, TypeInv, TypeOK, ProcessTypeOK, Prices

\* Each action of a process that goes well keeps the three facts.
LEMMA StepKeepsProc ==
    ASSUME TypeInv, ProcInv, NEW p \in Proc, Step(p)
    PROVE  ProcInv'
  <1> USE DEF ProcInv, RunsKnown, SentArePriced, IdleIsBlank, TypeInv, TypeOK, ProcessTypeOK, At, Goto
  <1>1. CASE Fetch(p)
    BY <1>1 DEF Fetch
  <1>2. CASE Ingest(p)
    BY <1>2 DEF Ingest, memory
  <1>3. CASE PriceWeek(p)
    BY <1>3 DEF PriceWeek
  <1>4. CASE SaveRecommendations(p)
    BY <1>4 DEF SaveRecommendations, memory
  <1>5. CASE Validate(p)
    BY <1>5 DEF Validate, memory
  <1>6. CASE FinishBlocked(p)
    BY <1>6, ExitKeepsProc DEF FinishBlocked
  <1>7. CASE InitRecords(p)
    BY <1>7 DEF InitRecords, memory
  <1>8. CASE PlanSend(p)
    BY <1>8 DEF PlanSend
  <1>9. CASE PostAnswered(p)
    BY <1>9, SettleKeepsProc DEF PostAnswered
  <1>10. CASE SendDone(p)
    BY <1>10 DEF SendDone, memory
  <1>11. CASE SaveSendResults(p)
    BY <1>11 DEF SaveSendResults, memory
  <1>12. CASE RecordSendResults(p)
    BY <1>12 DEF RecordSendResults, memory
  <1>13. CASE GetConditions(p)
    BY <1>13 DEF GetConditions
  <1>14. CASE SaveReconcile(p)
    BY <1>14 DEF SaveReconcile, memory
  <1>15. CASE RecordHistory(p)
    BY <1>15 DEF RecordHistory, memory
  <1>16. CASE Finish(p)
    BY <1>16, ExitKeepsProc DEF Finish
  <1> QED BY <1>1, <1>2, <1>3, <1>4, <1>5, <1>6, <1>7, <1>8, <1>9, <1>10, <1>11, <1>12,
             <1>13, <1>14, <1>15, <1>16 DEF Step

\* So does every step of the system.
LEMMA NextKeepsProc ==
    ASSUME TypeInv, ProcInv, [Next]_vars
    PROVE  ProcInv'
  <1>1. ASSUME NEW p \in Proc, NEW r \in Run, Start(p, r)
        PROVE  ProcInv'
    BY <1>1 DEF Start, At, Goto, ProcInv, RunsKnown, SentArePriced, IdleIsBlank, TypeInv, TypeOK, ProcessTypeOK
  <1>2. ASSUME NEW p \in Proc, Step(p)
        PROVE  ProcInv'
    BY <1>2, StepKeepsProc
  <1>3. ASSUME NEW p \in Proc, Failure(p)
        PROVE  ProcInv'
    <2>1. CASE PostFailed(p)
      <3>1. CASE UNCHANGED <<results, todo>>
        BY <2>1, <3>1 DEF PostFailed, ProcInv, RunsKnown, SentArePriced, IdleIsBlank
      <3>2. CASE SettleAsError(p)
        BY <2>1, <3>2, SettleKeepsProc DEF PostFailed, SettleAsError
      <3> QED BY <2>1, <3>1, <3>2 DEF PostFailed
    <2>2. CASE PostRefused(p)
      BY <2>2, SettleKeepsProc DEF PostRefused, SettleAsError
    <2>3. CASE Raise(p) \/ Crash(p)
      BY <2>3, ExitKeepsProc DEF Raise, Crash
    <2> QED BY <1>3, <2>1, <2>2, <2>3 DEF Failure
  <1>4. ASSUME UNCHANGED <<pc, memory>>
        PROVE  ProcInv'
    BY <1>4 DEF memory, ProcInv, RunsKnown, SentArePriced, IdleIsBlank
  <1>5. ASSUME NEW m \in inflight, LateArrival(m)
        PROVE  ProcInv'
    BY <1>4, <1>5 DEF LateArrival
  <1>6. CASE OutsideEdit
    BY <1>4, <1>6 DEF OutsideEdit
  <1>7. CASE UNCHANGED vars
    BY <1>4, <1>7 DEF vars
  <1> QED BY <1>1, <1>2, <1>3, <1>5, <1>6, <1>7 DEF Next

------------------------------------------------------------------------------
(* What is believed to be accepted was accepted                              *)

\* The submission behind "SAP accepted an item of run r" stays in the log.
LEMMA AcceptedStays ==
    ASSUME [SapNext]_sapVars, NEW r, NEW i, \E price \in Price : AcceptedBySap(r, i, price)
    PROVE  \E price \in Price : AcceptedBySap(r, i, price)'
  BY LogGrows DEF AcceptedBySap

\* An answer OK or REPLAYED to a record means that SAP accepted it, now or before.
LEMMA AnswerIsReal ==
    ASSUME SapInv, NEW r \in Run, NEW b \in Batch, post_prices(r, b), NEW i \in DOMAIN b,
           StatusOf(Answer(r, b)[i]) = "ACCEPTED"
    PROVE  \E price \in Price : AcceptedBySap(r, i, price)'
  <1>1. Outcome(r, i, b[i]) \in {"OK", "REPLAYED"}
    BY DEF StatusOf, Answer, AcceptCodes
  <1>2. CASE Outcome(r, i, b[i]) = "OK"
    <2>1. b[i] \in Price
      BY <1>2, OutcomeCodes
    <2>2. [run |-> r, item |-> i, price |-> b[i], code |-> "OK"] \in submission_log'
      BY <1>2, PostAdds
    <2> QED BY <2>1, <2>2 DEF AcceptedBySap
  <1>3. CASE Outcome(r, i, b[i]) = "REPLAYED"
    <2>1. b[i] \in Price /\ StoredUnderKey(r, i, b[i])
      BY <1>3, OutcomeCodes
    <2>2. [run |-> r, item |-> i, price |-> b[i]] \in price_conditions
      BY <2>1 DEF StoredUnderKey
    <2>3. [run |-> r, item |-> i, price |-> b[i], code |-> "OK"] \in submission_log
      BY <2>2 DEF SapInv, LogExplains
    <2>4. [run |-> r, item |-> i, price |-> b[i], code |-> "OK"] \in submission_log'
      BY <2>3, PostAdds
    <2> QED BY <2>1, <2>4 DEF AcceptedBySap
  <1> QED BY <1>1, <1>2, <1>3

\* A step that leaves what processes believe alone.
LEMMA ResultsSame ==
    ASSUME ResultsAreReal, [SapNext]_sapVars, UNCHANGED <<run_id, results>>
    PROVE  ResultsAreReal'
  BY AcceptedStays DEF ResultsAreReal

\* A process that ends believes nothing any more.
LEMMA ExitKeepsResults ==
    ASSUME TypeInv, ResultsAreReal, [SapNext]_sapVars, NEW p \in Proc, Exit(p)
    PROVE  ResultsAreReal'
  <1> SUFFICES ASSUME NEW q \in Proc, NEW i \in Item, results'[q][i] = "ACCEPTED"
               PROVE  \E price \in Price : AcceptedBySap(run_id[q], i, price)'
    BY DEF ResultsAreReal
  <1>1. q # p
    BY DEF Exit, NoResults, Null, TypeInv, TypeOK, ProcessTypeOK
  <1>2. results[q][i] = "ACCEPTED" /\ run_id'[q] = run_id[q]
    BY <1>1 DEF Exit, TypeInv, TypeOK, ProcessTypeOK
  <1>3. \E price \in Price : AcceptedBySap(run_id[q], i, price)
    BY <1>2 DEF ResultsAreReal
  <1> QED BY <1>2, <1>3, AcceptedStays DEF AcceptedBySap

\* A settled batch whose accepted items were accepted.
LEMMA SettleKeepsResults ==
    ASSUME TypeInv, ResultsAreReal, [SapNext]_sapVars, NEW p \in Proc, NEW res, Settle(p, res),
           UNCHANGED run_id,
           \A i \in DOMAIN res : res[i] = "ACCEPTED" =>
              \E price \in Price : AcceptedBySap(run_id[p], i, price)'
    PROVE  ResultsAreReal'
  <1> SUFFICES ASSUME NEW q \in Proc, NEW i \in Item, results'[q][i] = "ACCEPTED"
               PROVE  \E price \in Price : AcceptedBySap(run_id[q], i, price)'
    BY DEF ResultsAreReal, AcceptedBySap
  <1>1. CASE q = p /\ i \in DOMAIN res
    <2>1. res[i] = "ACCEPTED"
      BY <1>1 DEF Settle, TypeInv, TypeOK, ProcessTypeOK
    <2> QED BY <1>1, <2>1 DEF AcceptedBySap
  <1>2. CASE ~ (q = p /\ i \in DOMAIN res)
    <2>1. results[q][i] = "ACCEPTED"
      BY <1>2 DEF Settle, TypeInv, TypeOK, ProcessTypeOK
    <2>2. \E price \in Price : AcceptedBySap(run_id[q], i, price)
      BY <2>1 DEF ResultsAreReal
    <2> QED BY <2>2, AcceptedStays DEF AcceptedBySap
  <1> QED BY <1>1, <1>2

\* Nothing is accepted in a batch given up on.
LEMMA SettleAsErrorKeepsResults ==
    ASSUME TypeInv, ResultsAreReal, [SapNext]_sapVars, NEW p \in Proc, SettleAsError(p),
           UNCHANGED run_id
    PROVE  ResultsAreReal'
  <1> DEFINE res == [i \in NextBatch(p) |-> "ERROR"]
  <1>1. Settle(p, res)
    BY DEF SettleAsError
  <1>2. \A i \in DOMAIN res : res[i] # "ACCEPTED"
    OBVIOUS
  <1> HIDE DEF res
  <1> QED BY <1>1, <1>2, SettleKeepsResults

\* A started execution has no results: what it remembers belongs to no earlier run.
LEMMA StartKeepsResults ==
    ASSUME TypeInv, ProcInv, ResultsAreReal, NEW p \in Proc, NEW r \in Run, Start(p, r)
    PROVE  ResultsAreReal'
  <1> SUFFICES ASSUME NEW q \in Proc, NEW i \in Item, results[q][i] = "ACCEPTED"
               PROVE  \E price \in Price : AcceptedBySap(run_id[q], i, price)'
    BY DEF ResultsAreReal, Start
  <1>1. q # p
    BY DEF Start, At, ProcInv, IdleIsBlank, NoResults, Null
  <1>2. run_id'[q] = run_id[q]
    BY <1>1 DEF Start, TypeInv, TypeOK, ProcessTypeOK
  <1>3. \E price \in Price : AcceptedBySap(run_id[q], i, price)
    BY DEF ResultsAreReal
  <1> QED BY <1>2, <1>3 DEF AcceptedBySap, Start, sapVars

\* What a process believes to be accepted was accepted, after every step.
LEMMA NextKeepsResults ==
    ASSUME TypeInv, SapInv, ProcInv, ResultsAreReal, [Next]_vars
    PROVE  ResultsAreReal'
  <1>s. [SapNext]_sapVars
    BY PipelineStepsOfSap
  <1>1. ASSUME NEW p \in Proc, NEW r \in Run, Start(p, r)
        PROVE  ResultsAreReal'
    BY <1>1, StartKeepsResults
  <1>2. ASSUME NEW p \in Proc, Step(p)
        PROVE  ResultsAreReal'
    <2>1. CASE PostAnswered(p)
      <3> DEFINE res == [i \in NextBatch(p) |-> StatusOf(Answer(run_id[p], Payload(p))[i])]
      <3>1. /\ run_id[p] \in Run /\ Payload(p) \in Batch
            /\ DOMAIN Payload(p) = NextBatch(p)
            /\ post_prices(run_id[p], Payload(p))
        BY <2>1, PayloadType DEF PostAnswered, At, RunsKnown, TypeInv, TypeOK
      <3>2. \A i \in DOMAIN res : res[i] = "ACCEPTED" =>
               \E price \in Price : AcceptedBySap(run_id[p], i, price)'
        <4> SUFFICES ASSUME NEW i \in NextBatch(p), res[i] = "ACCEPTED"
                     PROVE  \E price \in Price : AcceptedBySap(run_id[p], i, price)'
          OBVIOUS
        <4>1. \A r \in Run, b \in Batch :
                 post_prices(r, b) /\ i \in DOMAIN b /\ StatusOf(Answer(r, b)[i]) = "ACCEPTED"
                 => \E price \in Price : AcceptedBySap(r, i, price)'
          BY AnswerIsReal
        <4>2. run_id'[p] = run_id[p]
          BY <2>1 DEF PostAnswered
        <4> QED BY <3>1, <4>1, <4>2 DEF AcceptedBySap
      <3>3. Settle(p, res) /\ UNCHANGED run_id
        BY <2>1 DEF PostAnswered
      <3> HIDE DEF res
      <3> QED BY <1>s, <3>2, <3>3, SettleKeepsResults
    <2>2. CASE FinishBlocked(p) \/ Finish(p)
      BY <1>s, <2>2, ExitKeepsResults DEF FinishBlocked, Finish
    <2>3. CASE ~ (PostAnswered(p) \/ FinishBlocked(p) \/ Finish(p))
      <3>1. UNCHANGED <<run_id, results>>
        BY <1>2, <2>3 DEF Step, Fetch, Ingest, PriceWeek, SaveRecommendations, Validate,
              InitRecords, PlanSend, SendDone, SaveSendResults, RecordSendResults, GetConditions,
              SaveReconcile, RecordHistory, memory
      <3> QED BY <1>s, <3>1, ResultsSame
    <2> QED BY <2>1, <2>2, <2>3
  <1>3. ASSUME NEW p \in Proc, Failure(p)
        PROVE  ResultsAreReal'
    <2>1. CASE PostFailed(p)
      <3>1. CASE UNCHANGED <<results, todo>>
        BY <1>s, <2>1, <3>1, ResultsSame DEF PostFailed
      <3>2. CASE SettleAsError(p)
        BY <1>s, <2>1, <3>2, SettleAsErrorKeepsResults DEF PostFailed
      <3> QED BY <2>1, <3>1, <3>2 DEF PostFailed
    <2>2. CASE PostRefused(p)
      BY <1>s, <2>2, SettleAsErrorKeepsResults DEF PostRefused
    <2>3. CASE Raise(p) \/ Crash(p)
      BY <1>s, <2>3, ExitKeepsResults DEF Raise, Crash
    <2> QED BY <1>3, <2>1, <2>2, <2>3 DEF Failure
  <1>4. ASSUME NEW m \in inflight, LateArrival(m)
        PROVE  ResultsAreReal'
    BY <1>s, <1>4, ResultsSame DEF LateArrival, memory
  <1>5. CASE OutsideEdit
    BY <1>s, <1>5, ResultsSame DEF OutsideEdit, memory
  <1>6. CASE UNCHANGED vars
    BY <1>s, <1>6, ResultsSame DEF vars, memory
  <1> QED BY <1>1, <1>2, <1>3, <1>4, <1>5, <1>6 DEF Next

------------------------------------------------------------------------------
(* What is recorded as accepted was accepted                                 *)

\* AcceptedIsReal, store by store.
RecordsReal == \A r \in Run, i \in Item :
    pipeline_records[r][i].send_status = "ACCEPTED" => \E price \in Price : AcceptedBySap(r, i, price)
RowsReal == \A r \in Run, i \in Item :
    price_recommendations[r][i].sap_status = "ACCEPTED" => \E price \in Price : AcceptedBySap(r, i, price)

\* AcceptedIsReal is the two facts together, before a step ...
LEMMA AcceptedIsRealByStore == AcceptedIsReal <=> RecordsReal /\ RowsReal
  BY DEF AcceptedIsReal, RecordsReal, RowsReal

\* ... and after it.
LEMMA AcceptedIsRealFromStores ==
    ASSUME RecordsReal', RowsReal'
    PROVE  AcceptedIsReal'
  BY DEF AcceptedIsReal, RecordsReal, RowsReal

\* Records that keep their send status, or take it from what a process believes.
LEMMA RecordsRealKept ==
    ASSUME RecordsReal, ResultsAreReal, [SapNext]_sapVars,
           \A r \in Run, i \in Item :
              \/ pipeline_records'[r][i].send_status = pipeline_records[r][i].send_status
              \/ \E p \in Proc : run_id[p] = r /\ pipeline_records'[r][i].send_status = results[p][i]
    PROVE  RecordsReal'
  <1> SUFFICES ASSUME NEW r \in Run, NEW i \in Item, pipeline_records'[r][i].send_status = "ACCEPTED"
               PROVE  \E price \in Price : AcceptedBySap(r, i, price)'
    BY DEF RecordsReal
  <1>1. \E price \in Price : AcceptedBySap(r, i, price)
    BY DEF RecordsReal, ResultsAreReal
  <1> QED BY <1>1, AcceptedStays

\* Rows that are new or keep SAP's answer, or take it from what a process believes.
LEMMA RowsRealKept ==
    ASSUME RowsReal, ResultsAreReal, [SapNext]_sapVars,
           \A r \in Run, i \in Item :
              \/ price_recommendations'[r][i].sap_status = Null
              \/ price_recommendations'[r][i].sap_status = price_recommendations[r][i].sap_status
              \/ \E p \in Proc : run_id[p] = r /\ price_recommendations'[r][i].sap_status = results[p][i]
    PROVE  RowsReal'
  <1> SUFFICES ASSUME NEW r \in Run, NEW i \in Item, price_recommendations'[r][i].sap_status = "ACCEPTED"
               PROVE  \E price \in Price : AcceptedBySap(r, i, price)'
    BY DEF RowsReal
  <1>1. price_recommendations'[r][i].sap_status # Null
    BY DEF Null
  <1>2. \E price \in Price : AcceptedBySap(r, i, price)
    BY <1>1 DEF RowsReal, ResultsAreReal
  <1> QED BY <1>2, AcceptedStays

\* The row an update leaves has the old answer or the one the process believes.
LEMMA AnsweredRowStatus ==
    ASSUME TypeInv, NEW p \in Proc, run_id[p] \in Run, NEW i \in Item
    PROVE  \/ AnsweredRow(p, i).sap_status = price_recommendations[run_id[p]][i].sap_status
           \/ AnsweredRow(p, i).sap_status = results[p][i]
  <1>1. price_recommendations[run_id[p]][i] \in Recommendation
    BY DEF TypeInv, TypeOK, WarehouseTypeOK
  <1> QED BY <1>1 DEF AnsweredRow, Recommendation

\* An interrupted write of the warehouse invents no answer of SAP.
LEMMA TornWriteKeepsRows ==
    ASSUME TypeInv, RowsReal, ResultsAreReal, [SapNext]_sapVars,
           NEW p \in Proc, pc[p] # "idle", TornWrite(p)
    PROVE  RowsReal'
  <1>0. run_id[p] \in Run /\ price_recommendations \in [Run -> [Item -> Recommendation]]
    BY DEF TypeInv, TypeOK, RunsKnown, WarehouseTypeOK
  <1>1. CASE UNCHANGED price_recommendations
    BY <1>1, RowsRealKept
  <1>2. ASSUME NEW done \in SUBSET Candidates(source[p]),
               price_recommendations' = [price_recommendations EXCEPT ![run_id[p]] =
                   [i \in Item |-> IF i \in done THEN EngineRow(p, i) ELSE NoRecommendation]]
        PROVE  RowsReal'
    <2>1. \A r \in Run, i \in Item :
             \/ price_recommendations'[r][i].sap_status = Null
             \/ price_recommendations'[r][i].sap_status = price_recommendations[r][i].sap_status
      BY <1>0, <1>2 DEF EngineRow, NoRecommendation
    <2> QED BY <2>1, RowsRealKept
  <1>3. ASSUME NEW done \in SUBSET Item,
               price_recommendations' = [price_recommendations EXCEPT ![run_id[p]] =
                   [i \in Item |-> IF i \in done THEN AnsweredRow(p, i) ELSE @[i]]]
        PROVE  RowsReal'
    <2>1. \A r \in Run, i \in Item :
             \/ price_recommendations'[r][i].sap_status = price_recommendations[r][i].sap_status
             \/ run_id[p] = r /\ price_recommendations'[r][i].sap_status = results[p][i]
      <3> TAKE r \in Run, i \in Item
      <3>1. CASE r = run_id[p] /\ i \in done
        <4>1. price_recommendations'[r][i] = AnsweredRow(p, i)
          BY <1>0, <1>3, <3>1
        <4> QED BY <3>1, <4>1, AnsweredRowStatus
      <3>2. CASE ~ (r = run_id[p] /\ i \in done)
        BY <1>0, <1>3, <3>2
      <3> QED BY <3>1, <3>2
    <2> QED BY <2>1, RowsRealKept
  <1> QED BY <1>1, <1>2, <1>3 DEF TornWrite, warehouse

\* A step of a process records an acceptance only where SAP accepted.
LEMMA StepKeepsReal ==
    ASSUME TypeInv, ResultsAreReal, RecordsReal, RowsReal, [SapNext]_sapVars, NEW p \in Proc, Step(p)
    PROVE  RecordsReal' /\ RowsReal'
  <1>0. /\ pc[p] # "idle" => run_id[p] \in Run
        /\ price_recommendations \in [Run -> [Item -> Recommendation]]
        /\ pipeline_records \in [Run -> [Item -> Record]]
    BY DEF TypeInv, TypeOK, RunsKnown, WarehouseTypeOK, PostgresTypeOK
  <1>r. UNCHANGED pipeline_records => RecordsReal'
    BY RecordsRealKept
  <1>w. UNCHANGED price_recommendations => RowsReal'
    BY RowsRealKept
  <1>1. CASE SaveRecommendations(p)
    <2>1. \A r \in Run, i \in Item :
             \/ price_recommendations'[r][i].sap_status = Null
             \/ price_recommendations'[r][i].sap_status = price_recommendations[r][i].sap_status
      BY <1>0, <1>1 DEF SaveRecommendations, EngineRow
    <2> QED BY <1>1, <1>r, <2>1, RowsRealKept DEF SaveRecommendations, postgres
  <1>2. CASE InitRecords(p)
    <2>1. \A r \in Run, i \in Item :
             pipeline_records'[r][i].send_status = pipeline_records[r][i].send_status
      BY <1>0, <1>2 DEF InitRecords, Record
    <2> QED BY <1>2, <1>w, <2>1, RecordsRealKept DEF InitRecords, warehouse
  <1>3. CASE SaveSendResults(p)
    <2>1. \A r \in Run, i \in Item :
             \/ pipeline_records'[r][i].send_status = pipeline_records[r][i].send_status
             \/ run_id[p] = r /\ pipeline_records'[r][i].send_status = results[p][i]
      BY <1>0, <1>3 DEF SaveSendResults, Record
    <2> QED BY <1>3, <1>w, <2>1, RecordsRealKept DEF SaveSendResults, warehouse
  <1>4. CASE RecordSendResults(p)
    <2>1. run_id[p] \in Run
      BY <1>0, <1>4 DEF RecordSendResults, At
    <2>2. \A r \in Run, i \in Item :
             \/ price_recommendations'[r][i].sap_status = price_recommendations[r][i].sap_status
             \/ run_id[p] = r /\ price_recommendations'[r][i].sap_status = results[p][i]
      <3> TAKE r \in Run, i \in Item
      <3>1. CASE r = run_id[p]
        <4>1. price_recommendations'[r][i] = AnsweredRow(p, i)
          BY <1>0, <1>4, <3>1 DEF RecordSendResults
        <4> QED BY <2>1, <3>1, <4>1, AnsweredRowStatus
      <3>2. CASE r # run_id[p]
        BY <1>0, <1>4, <3>2 DEF RecordSendResults
      <3> QED BY <3>1, <3>2
    <2> QED BY <1>4, <1>r, <2>2, RowsRealKept DEF RecordSendResults, postgres
  <1>5. CASE SaveReconcile(p)
    <2>1. \A r \in Run, i \in Item :
             pipeline_records'[r][i].send_status = pipeline_records[r][i].send_status
      BY <1>0, <1>5 DEF SaveReconcile, Record
    <2> QED BY <1>5, <1>w, <2>1, RecordsRealKept DEF SaveReconcile, warehouse
  <1>6. CASE ~ (SaveRecommendations(p) \/ InitRecords(p) \/ SaveSendResults(p)
                \/ RecordSendResults(p) \/ SaveReconcile(p))
    <2>1. UNCHANGED <<pipeline_records, price_recommendations>>
      BY <1>6 DEF Step, Fetch, Ingest, PriceWeek, Validate, FinishBlocked, PlanSend, PostAnswered,
            SendDone, GetConditions, RecordHistory, Finish, warehouse, postgres
    <2> QED BY <1>r, <1>w, <2>1
  <1> QED BY <1>1, <1>2, <1>3, <1>4, <1>5, <1>6

\* So does every step of the system.
LEMMA NextKeepsReal ==
    ASSUME TypeInv, ResultsAreReal, AcceptedIsReal, [Next]_vars
    PROVE  AcceptedIsReal'
  <1>s. [SapNext]_sapVars
    BY PipelineStepsOfSap
  <1>a. RecordsReal /\ RowsReal
    BY AcceptedIsRealByStore
  <1>u. UNCHANGED <<pipeline_records, price_recommendations>> => AcceptedIsReal'
    BY <1>s, <1>a, RecordsRealKept, RowsRealKept, AcceptedIsRealFromStores
  <1>1. ASSUME NEW p \in Proc, NEW r \in Run, Start(p, r)
        PROVE  AcceptedIsReal'
    BY <1>u, <1>1 DEF Start, warehouse
  <1>2. ASSUME NEW p \in Proc, Step(p)
        PROVE  AcceptedIsReal'
    BY <1>s, <1>a, <1>2, StepKeepsReal, AcceptedIsRealFromStores
  <1>3. ASSUME NEW p \in Proc, Failure(p)
        PROVE  AcceptedIsReal'
    <2>1. CASE PostFailed(p) \/ PostRefused(p)
      BY <1>u, <2>1 DEF PostFailed, PostRefused, warehouse, postgres
    <2>2. CASE Raise(p) \/ Crash(p)
      <3>1. pc[p] # "idle" /\ TornWrite(p) /\ UNCHANGED pipeline_records
        BY <2>2 DEF Raise, Crash, postgres
      <3> QED BY <1>s, <1>a, <3>1, TornWriteKeepsRows, RecordsRealKept, AcceptedIsRealFromStores
    <2> QED BY <1>3, <2>1, <2>2 DEF Failure
  <1>4. ASSUME NEW m \in inflight, LateArrival(m)
        PROVE  AcceptedIsReal'
    BY <1>u, <1>4 DEF LateArrival, warehouse, postgres
  <1>5. CASE OutsideEdit
    BY <1>u, <1>5 DEF OutsideEdit, warehouse, postgres
  <1>6. CASE UNCHANGED vars
    BY <1>u, <1>6 DEF vars, warehouse, postgres
  <1> QED BY <1>1, <1>2, <1>3, <1>4, <1>5, <1>6 DEF Next

------------------------------------------------------------------------------
(* The invariant of the pipeline                                             *)

\* The empty stores and idle processes of the beginning satisfy it.
LEMMA InitPipelineInv == Init => PipelineInv
  <1> SUFFICES ASSUME Init
               PROVE  PipelineInv
    OBVIOUS
  <1>1. SapInv
    BY InitInv DEF Init
  <1>2. WarehouseTypeOK
    BY NoRecommendationType DEF Init, WarehouseTypeOK
  <1>3. PostgresTypeOK
    BY BoundAssumption DEF Init, PostgresTypeOK, RunStatus, NoRecord, Record
  <1>4. ProcessTypeOK
    <2>1. NoConditions \in HeldPrices
      BY NoConditionsType
    <2>2. NoPrices \in [Item -> Price \cup {NoPrice}] /\ 0 \in 0 .. MaxRetries
      BY BoundAssumption DEF NoPrices
    <2>3. /\ NoResults \in [Item -> SendStatus \cup {Null}]
          /\ NoResults \in [Item -> ReconcileStatus \cup {Null}]
      BY DEF NoResults
    <2> QED BY <2>1, <2>2, <2>3 DEF Init, ProcessTypeOK, ControlPoint
  <1>5. TypeOK
    <2>1. inflight \subseteq InFlight
      BY DEF Init
    <2>2. faults \in 0 .. MaxFaults
      BY BoundAssumption DEF Init
    <2> QED BY <1>1, <1>2, <1>3, <1>4, <2>1, <2>2 DEF TypeOK, SapInv
  <1>6. RunsKnown /\ SentArePriced /\ IdleIsBlank
    BY DEF Init, RunsKnown, SentArePriced, IdleIsBlank
  <1>7. ResultsAreReal
    BY DEF Init, ResultsAreReal, NoResults, Null
  <1>8. AcceptedIsReal
    BY DEF Init, AcceptedIsReal, NoRecord, NoRecommendation, Null
  <1> QED BY <1>1, <1>5, <1>6, <1>7, <1>8 DEF PipelineInv, TypeInv

\* Every step keeps it.
LEMMA NextKeepsPipelineInv == PipelineInv /\ [Next]_vars => PipelineInv'
  <1> SUFFICES ASSUME PipelineInv, [Next]_vars
               PROVE  PipelineInv'
    OBVIOUS
  <1>0. TypeInv /\ SapInv /\ ProcInv /\ ResultsAreReal /\ AcceptedIsReal
    BY DEF PipelineInv, TypeInv, ProcInv
  <1>1. TypeOK'
    BY <1>0, NextKeepsType
  <1>2. RunsKnown' /\ SentArePriced' /\ IdleIsBlank'
    BY <1>0, NextKeepsProc DEF ProcInv
  <1>3. SapInv'
    BY <1>0, PipelineStepsOfSap, NextKeepsInv
  <1>4. ResultsAreReal'
    BY <1>0, NextKeepsResults
  <1>5. AcceptedIsReal'
    BY <1>0, NextKeepsReal
  <1> QED BY <1>1, <1>2, <1>3, <1>4, <1>5 DEF PipelineInv, TypeInv

\* The pipeline's stores and processes are always well-typed.
THEOREM PipelineTyping == Spec => []TypeOK
  <1>1. PipelineInv => TypeOK
    BY DEF PipelineInv, TypeInv
  <1> QED BY <1>1, InitPipelineInv, NextKeepsPipelineInv, PTL DEF Spec

\* Whatever crashes, retries, late requests, reruns and concurrent runs there are, no two
\* prices of one item overlap in SAP.
THEOREM PipelineNoOverlap == Spec => []NoOverlap
  <1>1. PipelineInv => NoOverlap
    BY DEF PipelineInv, SapInv
  <1> QED BY <1>1, InitPipelineInv, NextKeepsPipelineInv, PTL DEF Spec

\* Whatever was lost, retried, replayed or killed, and however many executions of the same
\* run id there are, a record is marked ACCEPTED only if SAP accepted it under that run id.
THEOREM PipelineAcceptedIsReal == Spec => []AcceptedIsReal
  <1>1. PipelineInv => AcceptedIsReal
    BY DEF PipelineInv
  <1> QED BY <1>1, InitPipelineInv, NextKeepsPipelineInv, PTL DEF Spec

\* The executions and the operators use SAP only as its specification allows.
THEOREM PipelineUsesSap == Spec => SapSpec
  <1>1. Init => SapInit
    BY DEF Init
  <1>2. PipelineInv /\ [Next]_vars => [SapNext]_sapVars
    BY PipelineStepsOfSap DEF PipelineInv
  <1> QED BY <1>1, <1>2, InitPipelineInv, NextKeepsPipelineInv, PTL DEF Spec, SapSpec

\* Whatever the executions do, crashed, retried or concurrent, no accepted price is rewritten or
\* removed in SAP, unless somebody edits SAP itself.
THEOREM PipelinePriceStays == Spec => AcceptedPriceStays
  BY PipelineUsesSap, SapPriceStays

\* Whatever is posted late, twice or again, every condition and every replay in SAP has the
\* accepted submission of its run behind it.
THEOREM PipelineLogExplains == Spec => []LogExplains
  BY PipelineUsesSap, SapLogExplains

------------------------------------------------------------------------------
(* What a step leaves alone                                                  *)

\* A step of an execution leaves the other executions alone ...
SameProcess(q) ==
    /\ pc'[q] = pc[q] /\ run_id'[q] = run_id[q] /\ priced'[q] = priced[q] /\ source'[q] = source[q]
    /\ results'[q] = results[q] /\ conditions'[q] = conditions[q] /\ recon'[q] = recon[q]
\* ... and what the stores hold of other runs.
SameRows(r) == price_recommendations'[r] = price_recommendations[r]
SameRecords(r) == pipeline_records'[r] = pipeline_records[r]
SameStatus(r) == pipeline_runs'[r] = pipeline_runs[r]
SameRun(r) == SameRows(r) /\ SameRecords(r) /\ SameStatus(r)

\* The end of an execution.
LEMMA ExitIsAlone ==
    ASSUME TypeInv, NEW p \in Proc, Exit(p), NEW q \in Proc, q # p
    PROVE  SameProcess(q)
  BY DEF Exit, Goto, SameProcess, TypeInv, TypeOK, ProcessTypeOK

\* Setting the status of a run.
LEMMA StatusIsAlone ==
    ASSUME TypeInv, NEW r0, NEW status, SetStatus(r0, status), NEW r \in Run, r # r0
    PROVE  SameStatus(r)
  BY DEF SetStatus, SameStatus, TypeInv, TypeOK, PostgresTypeOK

\* An interrupted write.
LEMMA TornWriteIsAlone ==
    ASSUME TypeInv, NEW p \in Proc, TornWrite(p), NEW r \in Run, r # run_id[p]
    PROVE  SameRows(r)
  BY DEF TornWrite, SameRows, warehouse, TypeInv, TypeOK, WarehouseTypeOK

\* Only an execution takes steps.
LEMMA StepIsExecuting ==
    ASSUME NEW p \in Proc, Step(p) \/ Failure(p)
    PROVE  pc[p] # "idle"
  BY DEF Step, Failure, At, Fetch, Ingest, PriceWeek, SaveRecommendations, Validate, FinishBlocked,
     InitRecords, PlanSend, PostAnswered, SendDone, SaveSendResults, RecordSendResults,
     GetConditions, SaveReconcile, RecordHistory, Finish, PostFailed, PostRefused, Raise, Crash

\* A step that goes well changes its own process and run only.
LEMMA StepIsAlone ==
    ASSUME TypeInv, NEW p \in Proc, Step(p)
    PROVE  /\ \A q \in Proc \ {p} : SameProcess(q)
           /\ \A r \in Run \ {run_id[p]} : SameRun(r)
  <1>0. /\ pc \in [Proc -> ControlPoint] /\ run_id \in [Proc -> Run \cup {NoRun}]
        /\ priced \in [Proc -> [Item -> Price \cup {NoPrice}]]
        /\ source \in [Proc -> List \cup {NoList}]
        /\ results \in [Proc -> [Item -> SendStatus \cup {Null}]]
        /\ conditions \in [Proc -> HeldPrices]
        /\ recon \in [Proc -> [Item -> ReconcileStatus \cup {Null}]]
        /\ price_recommendations \in [Run -> [Item -> Recommendation]]
        /\ pipeline_records \in [Run -> [Item -> Record]]
    BY DEF TypeInv, TypeOK, ProcessTypeOK, WarehouseTypeOK, PostgresTypeOK
  <1>1. CASE FinishBlocked(p) \/ Finish(p)
    <2>1. \A q \in Proc \ {p} : SameProcess(q)
      BY <1>1, ExitIsAlone DEF FinishBlocked, Finish
    <2>2. \A r \in Run \ {run_id[p]} : SameStatus(r)
      BY <1>1, StatusIsAlone DEF FinishBlocked, Finish
    <2> QED BY <1>1, <2>1, <2>2 DEF FinishBlocked, Finish, warehouse, SameRun, SameRows, SameRecords
  <1>2. CASE Fetch(p) \/ Ingest(p) \/ PriceWeek(p) \/ Validate(p) \/ PlanSend(p) \/ SendDone(p) \/ RecordHistory(p)
    <2>1. \A q \in Proc \ {p} : SameProcess(q)
      BY <1>0, <1>2 DEF Fetch, Ingest, PriceWeek, Validate, PlanSend, SendDone, RecordHistory, Goto, memory, SameProcess
    <2> QED BY <1>2, <2>1 DEF Fetch, Ingest, PriceWeek, Validate, PlanSend, SendDone, RecordHistory,
               warehouse, postgres, SameRun, SameRows, SameRecords, SameStatus
  <1>3. CASE SaveRecommendations(p) \/ RecordSendResults(p)
    <2>1. \A q \in Proc \ {p} : SameProcess(q)
      BY <1>0, <1>3 DEF SaveRecommendations, RecordSendResults, Goto, memory, SameProcess
    <2> QED BY <1>0, <1>3, <2>1 DEF SaveRecommendations, RecordSendResults, postgres,
               SameRun, SameRows, SameRecords, SameStatus
  <1>4. CASE InitRecords(p) \/ SaveSendResults(p) \/ SaveReconcile(p)
    <2>1. \A q \in Proc \ {p} : SameProcess(q)
      BY <1>0, <1>4 DEF InitRecords, SaveSendResults, SaveReconcile, Goto, memory, SameProcess
    <2> QED BY <1>0, <1>4, <2>1 DEF InitRecords, SaveSendResults, SaveReconcile, warehouse,
               SameRun, SameRows, SameRecords, SameStatus
  <1>5. CASE PostAnswered(p)
    <2>1. \A q \in Proc \ {p} : SameProcess(q)
      BY <1>0, <1>5 DEF PostAnswered, Settle, SameProcess
    <2> QED BY <1>5, <2>1 DEF PostAnswered, warehouse, postgres, SameRun, SameRows, SameRecords, SameStatus
  <1>6. CASE GetConditions(p)
    <2>1. \A q \in Proc \ {p} : SameProcess(q)
      BY <1>0, <1>6 DEF GetConditions, Goto, SameProcess
    <2> QED BY <1>6, <2>1 DEF GetConditions, warehouse, postgres, SameRun, SameRows, SameRecords, SameStatus
  <1> QED BY <1>1, <1>2, <1>3, <1>4, <1>5, <1>6 DEF Step

\* So does a failure.
LEMMA FailureIsAlone ==
    ASSUME TypeInv, NEW p \in Proc, Failure(p)
    PROVE  /\ \A q \in Proc \ {p} : SameProcess(q)
           /\ \A r \in Run \ {run_id[p]} : SameRun(r)
  <1>1. CASE PostFailed(p) \/ PostRefused(p)
    <2>1. \A q \in Proc \ {p} : SameProcess(q)
      BY <1>1 DEF PostFailed, PostRefused, SettleAsError, Settle, SameProcess, TypeInv, TypeOK, ProcessTypeOK
    <2> QED BY <1>1, <2>1 DEF PostFailed, PostRefused, warehouse, postgres, SameRun, SameRows, SameRecords, SameStatus
  <1>2. CASE Raise(p) \/ Crash(p)
    <2>1. \A q \in Proc \ {p} : SameProcess(q)
      BY <1>2, ExitIsAlone DEF Raise, Crash
    <2>2. \A r \in Run \ {run_id[p]} : SameRows(r)
      BY <1>2, TornWriteIsAlone DEF Raise, Crash
    <2>3. \A r \in Run \ {run_id[p]} : SameStatus(r)
      BY <1>2, StatusIsAlone DEF Raise, Crash, postgres, SameStatus
    <2> QED BY <1>2, <2>1, <2>2, <2>3 DEF Raise, Crash, postgres, SameRun, SameRecords
  <1> QED BY <1>1, <1>2 DEF Failure

------------------------------------------------------------------------------
(* Rejections                                                                *)

\* An earlier record or another run stands in the way of the item.
Excused(r, i) == i \in open_ended \/ \E c \in price_conditions : c.item = i /\ c.run # r

\* An execution prices what SAP publishes, or nothing, and its rejections are excused.
ProcessClean(p) ==
    /\ source[p] \in {NoList, sap_list}
    /\ \A i \in Item : priced[p][i] \in {NoPrice, Offer[sap_list][i]}
    /\ \A i \in Item : results[p][i] = "REJECTED" => Excused(run_id[p], i)

\* One price per item is all that SAP hears, holds and will hear.
OnePricePerItem ==
    /\ \A m \in inflight : \A i \in DOMAIN m.batch : m.batch[i] = Offer[sap_list][i]
    /\ \A c \in price_conditions : c.price = Offer[sap_list][c.item]

RecordsExcused == \A r \in Run, i \in Item :
    pipeline_records[r][i].send_status = "REJECTED" => Excused(r, i)

Clean ==
    /\ wh_list \in {NoList, sap_list}
    /\ \A p \in Proc : ProcessClean(p)
    /\ OnePricePerItem
    /\ RecordsExcused

\* Nobody edits SAP in this step: it only takes more prices.
SapQuiet ==
    /\ UNCHANGED <<sap_list, open_ended>>
    /\ price_conditions \subseteq price_conditions'

\* A step after which nothing has been edited is quiet.
LEMMA UneditedIsQuiet ==
    ASSUME TypeInv, [Next]_vars, edits' = 0
    PROVE  edits = 0 /\ SapQuiet
  <1>0. [SapNext]_sapVars
    BY PipelineStepsOfSap
  <1>1. ASSUME NEW r \in Run, NEW b \in Batch, post_prices(r, b)
        PROVE  edits = 0 /\ SapQuiet
    BY <1>1 DEF post_prices, SapQuiet
  <1>2. CASE SapEdit
    BY <1>2, EditsAssumption DEF SapEdit, Edit, PublishList, SetPromotion, EndOldRecord, DeleteCondition,
       TypeInv, TypeOK, SapTypeOK
  <1>3. CASE UNCHANGED sapVars
    BY <1>3 DEF sapVars, SapQuiet
  <1> QED BY <1>0, <1>1, <1>2, <1>3 DEF SapNext

\* What stands in the way stays there.
LEMMA ExcusedStays ==
    ASSUME SapQuiet, NEW r, NEW i, Excused(r, i)
    PROVE  Excused(r, i)'
  BY DEF SapQuiet, Excused

\* A process left alone stays clean.
LEMMA CleanKept ==
    ASSUME SapQuiet, NEW q \in Proc, ProcessClean(q),
           UNCHANGED <<source[q], priced[q], results[q], run_id[q]>>
    PROVE  ProcessClean(q)'
  BY ExcusedStays DEF ProcessClean, SapQuiet

\* A process that ends is clean.
LEMMA ExitIsClean ==
    ASSUME TypeInv, NEW p \in Proc, Exit(p)
    PROVE  ProcessClean(p)'
  BY DEF Exit, ProcessClean, NoPrices, NoResults, Null, TypeInv, TypeOK, ProcessTypeOK

\* SAP rejects the offered price of an item only if something stands in its way.
LEMMA RejectionIsExcused ==
    ASSUME OnePricePerItem, SapTypeOK, NEW r, NEW i \in Item, Offer[sap_list][i] \in Price,
           StatusOf(Outcome(r, i, Offer[sap_list][i])) = "REJECTED"
    PROVE  Excused(r, i)
  <1>1. i \in Listed[sap_list]
    BY PriceAssumption, OfferAssumption DEF SapTypeOK
  <1>2. ~ KeyUsed(r, i)
    <2> SUFFICES ASSUME KeyUsed(r, i)
                 PROVE  FALSE
      OBVIOUS
    <2>1. PICK c \in price_conditions : c.run = r /\ c.item = i
      BY DEF KeyUsed
    <2>2. c = [run |-> r, item |-> i, price |-> Offer[sap_list][i]]
      BY <2>1 DEF OnePricePerItem, SapTypeOK, Condition
    <2>3. Outcome(r, i, Offer[sap_list][i]) = "REPLAYED"
      BY <2>2 DEF StoredUnderKey, Outcome
    <2> QED BY <2>3 DEF StatusOf, AcceptCodes
  <1>3. Overlaps(i)
    BY <1>1, <1>2 DEF Outcome, StatusOf, AcceptCodes
  <1> QED BY <1>2, <1>3 DEF Overlaps, KeyUsed, Excused

\* What a process posts is what the list in SAP offers.
LEMMA PayloadIsOffered ==
    ASSUME TypeInv, NEW p \in Proc, ProcessClean(p)
    PROVE  \A i \in NextBatch(p) : /\ i \in Item
                                   /\ Payload(p)[i] = Offer[sap_list][i]
                                   /\ Offer[sap_list][i] \in Price
  <1>1. NextBatch(p) \subseteq Prices(priced[p]) /\ priced[p] \in [Item -> Price \cup {NoPrice}]
    BY DEF NextBatch, TypeInv, SentArePriced, TypeOK, ProcessTypeOK
  <1> QED BY <1>1 DEF Payload, Prices, ProcessClean

\* A good step of a clean process leaves it clean.
LEMMA StepStaysClean ==
    ASSUME TypeInv, SapQuiet, Clean, NEW p \in Proc, Step(p)
    PROVE  ProcessClean(p)'
  <1>0. /\ source \in [Proc -> List \cup {NoList}] /\ results \in [Proc -> [Item -> SendStatus \cup {Null}]]
        /\ priced \in [Proc -> [Item -> Price \cup {NoPrice}]]
        /\ ProcessClean(p) /\ sap_list \in List
    BY DEF TypeInv, TypeOK, ProcessTypeOK, SapTypeOK, Clean
  <1>1. CASE Fetch(p)
    <2>1. source'[p] = sap_list /\ UNCHANGED <<priced, results, run_id, sap_list, open_ended, price_conditions>>
      BY <1>0, <1>1 DEF Fetch, sapVars
    <2> QED BY <1>0, <2>1 DEF ProcessClean, Excused
  <1>2. CASE PriceWeek(p)
    <2>1. /\ source'[p] = wh_list /\ priced'[p] = EnginePrices(wh_list)
          /\ UNCHANGED <<results, run_id, sap_list, open_ended, price_conditions>>
      BY <1>0, <1>2 DEF PriceWeek, sapVars
    <2>2. \A i \in Item : EnginePrices(wh_list)[i] \in {NoPrice, Offer[sap_list][i]}
      BY DEF EnginePrices, NoPrices, Clean
    <2> QED BY <1>0, <2>1, <2>2 DEF ProcessClean, Excused, Clean
  <1>3. CASE FinishBlocked(p) \/ Finish(p)
    BY <1>3, ExitIsClean DEF FinishBlocked, Finish
  <1>4. CASE PostAnswered(p)
    <2>1. /\ \A i \in Item : results'[p][i] = IF i \in NextBatch(p)
                THEN StatusOf(Outcome(run_id[p], i, Payload(p)[i])) ELSE results[p][i]
          /\ UNCHANGED <<source, priced, run_id>>
      BY <1>0, <1>4 DEF PostAnswered, Settle, Answer, Payload
    <2>2. ASSUME NEW i \in Item, results'[p][i] = "REJECTED"
          PROVE  Excused(run_id[p], i)
      <3>1. CASE i \in NextBatch(p)
        BY <1>0, <2>1, <2>2, <3>1, PayloadIsOffered, RejectionIsExcused DEF Clean, TypeInv, TypeOK
      <3>2. CASE i \notin NextBatch(p)
        BY <1>0, <2>1, <2>2, <3>2 DEF ProcessClean
      <3> QED BY <3>1, <3>2
    <2> QED BY <1>0, <2>1, <2>2, ExcusedStays DEF ProcessClean, SapQuiet
  <1>5. CASE ~ (Fetch(p) \/ PriceWeek(p) \/ FinishBlocked(p) \/ Finish(p) \/ PostAnswered(p))
    <2>1. UNCHANGED <<source, priced, results, run_id>>
      BY <1>5 DEF Step, Ingest, SaveRecommendations, Validate, InitRecords, PlanSend, SendDone,
         SaveSendResults, RecordSendResults, GetConditions, SaveReconcile, RecordHistory, memory
    <2> QED BY <1>0, <2>1, CleanKept
  <1> QED BY <1>1, <1>2, <1>3, <1>4, <1>5

\* A failure leaves the process clean: what could not be posted is an ERROR, not a rejection.
LEMMA FailureStaysClean ==
    ASSUME TypeInv, SapQuiet, Clean, NEW p \in Proc, Failure(p)
    PROVE  ProcessClean(p)'
  <1>1. CASE PostFailed(p) \/ PostRefused(p)
    <2>1. /\ \A i \in Item : results'[p][i] \in {results[p][i], "ERROR"}
          /\ UNCHANGED <<source, priced, run_id>>
      BY <1>1 DEF PostFailed, PostRefused, SettleAsError, Settle, TypeInv, TypeOK, ProcessTypeOK
    <2> QED BY <2>1, ExcusedStays DEF ProcessClean, Clean, SapQuiet
  <1>2. CASE Raise(p) \/ Crash(p)
    BY <1>2, ExitIsClean DEF Raise, Crash
  <1> QED BY <1>1, <1>2 DEF Failure

\* All processes stay clean.
LEMMA NextKeepsProcessesClean ==
    ASSUME TypeInv, IdleIsBlank, SapQuiet, Clean, [Next]_vars, NEW q \in Proc
    PROVE  ProcessClean(q)'
  <1>0. ProcessClean(q)
    BY DEF Clean
  <1>1. ASSUME NEW p \in Proc, NEW r \in Run, Start(p, r)
        PROVE  ProcessClean(q)'
    <2>1. UNCHANGED <<source, priced, results>> /\ results[p] = NoResults
          /\ (p # q => run_id'[q] = run_id[q])
      BY <1>1 DEF Start, At, IdleIsBlank, TypeInv, TypeOK, ProcessTypeOK
    <2>2. CASE p = q
      BY <1>0, <2>1, <2>2 DEF ProcessClean, NoResults, Null, SapQuiet
    <2>3. CASE p # q
      BY <1>0, <2>1, <2>3, CleanKept
    <2> QED BY <2>2, <2>3
  <1>2. ASSUME NEW p \in Proc, Step(p) \/ Failure(p)
        PROVE  ProcessClean(q)'
    <2>1. CASE p = q
      BY <1>2, <2>1, StepStaysClean, FailureStaysClean
    <2>2. CASE p # q
      BY <1>0, <1>2, <2>2, StepIsAlone, FailureIsAlone, CleanKept DEF SameProcess
    <2> QED BY <2>1, <2>2
  <1>3. UNCHANGED memory => ProcessClean(q)'
    BY <1>0, CleanKept DEF memory
  <1> QED BY <1>1, <1>2, <1>3 DEF Next, LateArrival, OutsideEdit, vars

\* The warehouse holds what SAP publishes, or nothing.
LEMMA NextKeepsWarehouseClean ==
    ASSUME SapQuiet, Clean, [Next]_vars
    PROVE  wh_list' \in {NoList, sap_list'}
  <1>1. ASSUME NEW p \in Proc, Step(p)
        PROVE  wh_list' \in {NoList, sap_list'}
    <2>1. CASE Ingest(p)
      BY <2>1 DEF Ingest, Clean, ProcessClean, SapQuiet
    <2>2. CASE ~ Ingest(p)
      <3>1. UNCHANGED wh_list
        BY <1>1, <2>2 DEF Step, Fetch, PriceWeek, SaveRecommendations, Validate, FinishBlocked,
           InitRecords, PlanSend, PostAnswered, SendDone, SaveSendResults, RecordSendResults,
           GetConditions, SaveReconcile, RecordHistory, Finish, warehouse
      <3> QED BY <3>1 DEF Clean, SapQuiet
    <2> QED BY <2>1, <2>2
  <1>2. ASSUME NEW p \in Proc, Failure(p)
        PROVE  wh_list' \in {NoList, sap_list'}
    <2>1. wh_list' \in {NoList, wh_list}
      BY <1>2 DEF Failure, PostFailed, PostRefused, Raise, Crash, TornWrite, warehouse
    <2> QED BY <2>1 DEF Clean, SapQuiet
  <1>3. UNCHANGED wh_list => wh_list' \in {NoList, sap_list'}
    BY DEF Clean, SapQuiet
  <1> QED BY <1>1, <1>2, <1>3 DEF Next, Start, LateArrival, OutsideEdit, vars, warehouse

\* What is stored and what is left in flight has the offered price.
LEMMA NextKeepsOnePrice ==
    ASSUME TypeInv, SapQuiet, Clean, [Next]_vars
    PROVE  OnePricePerItem'
  <1>0. sap_list' = sap_list /\ OnePricePerItem
    BY DEF SapQuiet, Clean
  <1>1. ASSUME NEW r, NEW b, \A i \in DOMAIN b : b[i] = Offer[sap_list][i], post_prices(r, b)
        PROVE  \A c \in price_conditions' : c.price = Offer[sap_list'][c.item]
    BY <1>0, <1>1 DEF post_prices, OnePricePerItem
  <1>2. ASSUME NEW p \in Proc
        PROVE  DOMAIN Payload(p) = NextBatch(p) /\ \A i \in DOMAIN Payload(p) : Payload(p)[i] = Offer[sap_list][i]
    BY PayloadIsOffered DEF Payload, Clean
  <1>3. ASSUME NEW p \in Proc, Step(p)
        PROVE  OnePricePerItem'
    <2>1. CASE PostAnswered(p)
      <3>1. \A c \in price_conditions' : c.price = Offer[sap_list'][c.item]
        BY <1>1, <1>2, <2>1 DEF PostAnswered
      <3> QED BY <1>0, <2>1, <3>1 DEF PostAnswered, OnePricePerItem
    <2>2. CASE ~ PostAnswered(p)
      <3>1. UNCHANGED <<inflight, price_conditions>>
        BY <1>3, <2>2 DEF Step, Fetch, Ingest, PriceWeek, SaveRecommendations, Validate, FinishBlocked,
           InitRecords, PlanSend, SendDone, SaveSendResults, RecordSendResults,
           GetConditions, SaveReconcile, RecordHistory, Finish, sapVars
      <3> QED BY <1>0, <3>1 DEF OnePricePerItem
    <2> QED BY <2>1, <2>2
  <1>4. ASSUME NEW p \in Proc, Failure(p)
        PROVE  OnePricePerItem'
    <2>1. \A m \in inflight' : m \in inflight \/ m = [run |-> run_id[p], batch |-> Payload(p)]
      BY <1>4 DEF Failure, PostFailed, PostRefused, Raise, Crash
    <2>2. UNCHANGED price_conditions
      BY <1>4 DEF Failure, PostFailed, PostRefused, Raise, Crash, sapVars
    <2> QED BY <1>0, <1>2, <2>1, <2>2 DEF OnePricePerItem
  <1>5. ASSUME NEW m \in inflight, LateArrival(m)
        PROVE  OnePricePerItem'
    <2>1. \A c \in price_conditions' : c.price = Offer[sap_list'][c.item]
      BY <1>0, <1>1, <1>5 DEF LateArrival, OnePricePerItem
    <2> QED BY <1>0, <1>5, <2>1 DEF LateArrival, OnePricePerItem
  <1>6. CASE OutsideEdit
    BY <1>0, <1>6 DEF OutsideEdit, SapEdit, PublishList, SetPromotion, EndOldRecord, DeleteCondition, OnePricePerItem
  <1>7. UNCHANGED <<inflight, sapVars>> => OnePricePerItem'
    BY <1>0 DEF OnePricePerItem, sapVars
  <1> QED BY <1>3, <1>4, <1>5, <1>6, <1>7 DEF Next, Start, vars

\* A rejection is recorded only as an execution got it.
LEMMA NextKeepsExcused ==
    ASSUME TypeInv, SapQuiet, Clean, [Next]_vars
    PROVE  RecordsExcused'
  <1>0. pipeline_records \in [Run -> [Item -> Record]]
    BY DEF TypeInv, TypeOK, PostgresTypeOK
  <1>1. ASSUME \A r \in Run, i \in Item :
                  \/ pipeline_records'[r][i].send_status = pipeline_records[r][i].send_status
                  \/ \E p \in Proc : run_id[p] = r /\ pipeline_records'[r][i].send_status = results[p][i]
        PROVE  RecordsExcused'
    BY <1>1, ExcusedStays DEF RecordsExcused, Clean, ProcessClean
  <1>2. ASSUME NEW p \in Proc, Step(p)
        PROVE  RecordsExcused'
    <2>1. CASE SaveSendResults(p)
      BY <1>0, <1>1, <2>1 DEF SaveSendResults, Record
    <2>2. CASE InitRecords(p)
      BY <1>0, <1>1, <2>2 DEF InitRecords, Record
    <2>3. CASE SaveReconcile(p)
      BY <1>0, <1>1, <2>3 DEF SaveReconcile, Record
    <2>4. CASE ~ (SaveSendResults(p) \/ InitRecords(p) \/ SaveReconcile(p))
      BY <1>1, <1>2, <2>4 DEF Step, Fetch, Ingest, PriceWeek, SaveRecommendations, Validate, FinishBlocked,
         PlanSend, PostAnswered, SendDone, RecordSendResults, GetConditions, RecordHistory, Finish, postgres
    <2> QED BY <2>1, <2>2, <2>3, <2>4
  <1>3. UNCHANGED pipeline_records => RecordsExcused'
    BY <1>1
  <1>4. ASSUME NEW p \in Proc, Failure(p)
        PROVE  RecordsExcused'
    BY <1>3, <1>4 DEF Failure, PostFailed, PostRefused, Raise, Crash, postgres
  <1> QED BY <1>2, <1>3, <1>4 DEF Next, Start, LateArrival, OutsideEdit, vars, postgres

\* With SAP's side untouched, no retry, replay, late request, rerun or second execution makes
\* SAP reject a record of the pipeline's own.
THEOREM PipelineNoSelfInflictedRejection == Spec => []NoSelfInflictedRejection
  <1> DEFINE Untampered == edits = 0 => Clean
  <1>1. Init => Untampered
    BY DEF Init, SapInit, Clean, ProcessClean, OnePricePerItem, RecordsExcused, NoPrices, NoResults,
       NoRecord, Null
  <1>2. PipelineInv /\ Untampered /\ [Next]_vars => Untampered'
    <2> SUFFICES ASSUME PipelineInv, Untampered, [Next]_vars, edits' = 0
                 PROVE  Clean'
      OBVIOUS
    <2>1. TypeInv /\ IdleIsBlank /\ SapQuiet /\ Clean
      BY UneditedIsQuiet DEF PipelineInv
    <2> QED BY <2>1, NextKeepsProcessesClean, NextKeepsWarehouseClean, NextKeepsOnePrice,
               NextKeepsExcused DEF Clean
  <1>3. Untampered => NoSelfInflictedRejection
    BY DEF Clean, RecordsExcused, Excused, NoSelfInflictedRejection
  <1> QED BY <1>1, <1>2, <1>3, InitPipelineInv, NextKeepsPipelineInv, PTL DEF Spec

==============================================================================
