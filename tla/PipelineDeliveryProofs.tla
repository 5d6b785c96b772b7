----------------------- MODULE PipelineDeliveryProofs -----------------------
(* Proofs about what the runs of module WeeklyPipeline send, record, claim  *)
(* and leave behind: what a first attempt sends and writes, what a rerun    *)
(* sends, what SUCCEEDED means, and the refinement of module PriceDelivery. *)
EXTENDS WeeklyPipelineProofs, FiniteSetTheorems

\* Process p executes run r.
Executes(p, r) == pc[p] # "idle" /\ run_id[p] = r

\* No record of the run has reached SAP, and none is on its way.
Untouched(r) ==
    /\ \A s \in submission_log : s.run # r
    /\ \A m \in inflight : m.run # r

\* The control points before the first POST.
BeforeSend == {"fetch", "ingest", "price", "save", "validate", "blocked", "init", "accepted"}

\* A run never started, a first attempt that has not begun to send, and one that ended
\* BLOCKED are untouched; a first attempt has one execution, and none once it is BLOCKED.
RunInv(r) ==
    /\ pipeline_runs[r].attempt = 0 => Untouched(r) /\ \A p \in Proc : ~ Executes(p, r)
    /\ pipeline_runs[r].attempt = 1 =>
          /\ \A p, q \in Proc : Executes(p, r) /\ Executes(q, r) => p = q
          /\ \A p \in Proc : Executes(p, r) /\ pc[p] \in BeforeSend => Untouched(r)
          /\ pipeline_runs[r].status = "BLOCKED" => Untouched(r) /\ \A p \in Proc : ~ Executes(p, r)

FirstAttempts == \A r \in Run : RunInv(r)

------------------------------------------------------------------------------

\* A step that sends nothing, starts and ends nothing, and does not go back before the POSTs.
LEMMA QuietStep ==
    ASSUME TypeInv, FirstAttempts, NEW p \in Proc, NEW c, c # "idle", pc[p] # "idle", Goto(p, c),
           c \in BeforeSend => pc[p] \in BeforeSend,
           UNCHANGED <<run_id, pipeline_runs, submission_log, inflight>>
    PROVE  FirstAttempts'
  <1> SUFFICES ASSUME NEW r \in Run
               PROVE  RunInv(r)'
    BY DEF FirstAttempts
  <1>1. RunInv(r)
    BY DEF FirstAttempts
  <1>2. \A q \in Proc : /\ Executes(q, r)' <=> Executes(q, r)
                        /\ pc'[q] \in BeforeSend /\ Executes(q, r) => pc[q] \in BeforeSend
    BY DEF Executes, Goto, TypeInv, TypeOK, ProcessTypeOK
  <1>3. Untouched(r)' <=> Untouched(r)
    BY DEF Untouched
  <1>4. UNCHANGED pipeline_runs
    OBVIOUS
  <1> QED BY <1>1, <1>2, <1>3, <1>4 DEF RunInv

\* A step of a process that sends: what is new in SAP's log or in flight is of its run.
LEMMA SendingStep ==
    ASSUME TypeInv, FirstAttempts, NEW p \in Proc, At(p, "send"),
           \A s \in submission_log' : s \in submission_log \/ s.run = run_id[p],
           \A m \in inflight' : m \in inflight \/ m.run = run_id[p],
           UNCHANGED <<pc, run_id, pipeline_runs>>
    PROVE  FirstAttempts'
  <1> SUFFICES ASSUME NEW r \in Run
               PROVE  RunInv(r)'
    BY DEF FirstAttempts
  <1>1. RunInv(r)
    BY DEF FirstAttempts
  <1>2. \A q \in Proc : Executes(q, r)' <=> Executes(q, r)
    BY DEF Executes
  <1>3. run_id[p] # r => (Untouched(r) => Untouched(r)')
    BY DEF Untouched
  <1>4. CASE run_id[p] = r
    <2>1. Executes(p, r) /\ pc[p] \notin BeforeSend
      BY <1>4 DEF Executes, At, BeforeSend
    <2> QED BY <1>1, <1>2, <2>1 DEF RunInv
  <1>5. CASE run_id[p] # r
    BY <1>1, <1>2, <1>3, <1>5 DEF RunInv
  <1> QED BY <1>4, <1>5

\* An execution ends; only one that has not sent ends BLOCKED.
LEMMA ExitStep ==
    ASSUME TypeInv, FirstAttempts, NEW p \in Proc, pc[p] # "idle", Exit(p),
           UNCHANGED submission_log,
           \A m \in inflight' : m \in inflight \/ m.run = run_id[p],
           \/ UNCHANGED pipeline_runs
           \/ \E status \in RunStatus :
                 /\ SetStatus(run_id[p], status)
                 /\ status = "BLOCKED" => pc[p] \in BeforeSend /\ UNCHANGED inflight
    PROVE  FirstAttempts'
  <1> SUFFICES ASSUME NEW r \in Run
               PROVE  RunInv(r)'
    BY DEF FirstAttempts
  <1>1. RunInv(r)
    BY DEF FirstAttempts
  <1>2. \A q \in Proc : Executes(q, r)' <=> (q # p /\ Executes(q, r))
    BY DEF Executes, Exit, Goto, TypeInv, TypeOK, ProcessTypeOK
  <1>3. \A q \in Proc : q # p => pc'[q] = pc[q]
    BY DEF Exit, Goto, TypeInv, TypeOK, ProcessTypeOK
  <1>4. pipeline_runs'[r].attempt = pipeline_runs[r].attempt
    <2>1. CASE UNCHANGED pipeline_runs
      BY <2>1
    <2>2. ASSUME NEW status \in RunStatus, SetStatus(run_id[p], status)
          PROVE  pipeline_runs'[r].attempt = pipeline_runs[r].attempt
      BY <2>2 DEF SetStatus, TypeInv, TypeOK, PostgresTypeOK
    <2> QED BY <2>1, <2>2
  <1>5. CASE run_id[p] = r
    <2>1. Executes(p, r)
      BY <1>5 DEF Executes
    <2>2. ASSUME pipeline_runs[r].attempt = 1
          PROVE  \A q \in Proc : ~ Executes(q, r)'
      BY <1>1, <1>2, <2>1, <2>2 DEF RunInv
    <2>3. ASSUME pipeline_runs[r].attempt = 1, pipeline_runs'[r].status = "BLOCKED"
          PROVE  Untouched(r)'
      <3>1. pipeline_runs[r].status # "BLOCKED"
        BY <1>1, <2>1, <2>3 DEF RunInv
      <3>2. pc[p] \in BeforeSend /\ UNCHANGED inflight
        BY <1>5, <2>3, <3>1 DEF SetStatus, TypeInv, TypeOK, PostgresTypeOK
      <3>3. Untouched(r)
        BY <1>1, <2>1, <2>3, <3>2 DEF RunInv
      <3> QED BY <3>2, <3>3 DEF Untouched
    <2> QED BY <1>1, <1>4, <2>1, <2>2, <2>3 DEF RunInv
  <1>6. CASE run_id[p] # r
    <2>1. Untouched(r) => Untouched(r)'
      BY <1>6 DEF Untouched
    <2>2. pipeline_runs'[r].status = pipeline_runs[r].status
      BY <1>6 DEF SetStatus, TypeInv, TypeOK, PostgresTypeOK
    <2> QED BY <1>1, <1>2, <1>3, <1>4, <2>1, <2>2 DEF RunInv
  <1> QED BY <1>5, <1>6

\* A good step of an execution does not change its run id, other than by ending.
LEMMA StepStaysInRun ==
    ASSUME TypeInv, NEW p \in Proc, Step(p) \/ Failure(p), NEW r \in Run, Executes(p, r)'
    PROVE  Executes(p, r)
  <1>1. CASE FinishBlocked(p) \/ Finish(p) \/ Raise(p) \/ Crash(p)
    BY <1>1 DEF FinishBlocked, Finish, Raise, Crash, Exit, Goto, Executes, TypeInv, TypeOK, ProcessTypeOK
  <1>2. CASE ~ (FinishBlocked(p) \/ Finish(p) \/ Raise(p) \/ Crash(p))
    BY <1>2 DEF Step, Failure, Fetch, Ingest, PriceWeek, SaveRecommendations, Validate, InitRecords,
       PlanSend, PostAnswered, PostFailed, PostRefused, SendDone, SaveSendResults, RecordSendResults,
       GetConditions, SaveReconcile, RecordHistory, memory, At, Executes
  <1> QED BY <1>1, <1>2

\* What a POST adds to the log is of its run.
LEMMA PostLogsItsRun ==
    ASSUME NEW r, NEW b, post_prices(r, b)
    PROVE  \A s \in submission_log' : s \in submission_log \/ s.run = r
  BY DEF post_prices

\* A step that touches neither runs nor processes, and sends nothing of an untouched run.
LEMMA AsideStep ==
    ASSUME TypeInv, FirstAttempts, UNCHANGED <<pc, run_id, pipeline_runs>>,
           \A r \in Run : Untouched(r) => Untouched(r)'
    PROVE  FirstAttempts'
  <1> SUFFICES ASSUME NEW r \in Run
               PROVE  RunInv(r)'
    BY DEF FirstAttempts
  <1>1. RunInv(r)
    BY DEF FirstAttempts
  <1>2. \A q \in Proc : Executes(q, r)' <=> Executes(q, r)
    BY DEF Executes
  <1> QED BY <1>1, <1>2 DEF RunInv

\* A first start finds its run untouched.
LEMMA StartKeepsFirst ==
    ASSUME TypeInv, FirstAttempts, NEW p \in Proc, NEW r0 \in Run, Start(p, r0)
    PROVE  FirstAttempts'
  <1> SUFFICES ASSUME NEW r \in Run
               PROVE  RunInv(r)'
    BY DEF FirstAttempts
  <1>1. RunInv(r)
    BY DEF FirstAttempts
  <1>2. Untouched(r)' <=> Untouched(r)
    BY DEF Untouched, Start, sapVars
  <1>3. \A q \in Proc : q # p => (Executes(q, r)' <=> Executes(q, r)) /\ pc'[q] = pc[q]
    BY DEF Executes, Start, Goto, TypeInv, TypeOK, ProcessTypeOK
  <1>4. ~ Executes(p, r) /\ (Executes(p, r)' <=> r = r0)
    BY DEF Executes, Start, Goto, At, TypeInv, TypeOK, ProcessTypeOK
  <1>5. pipeline_runs[r].attempt \in Nat
    BY DEF TypeInv, TypeOK, PostgresTypeOK
  <1>6. CASE r = r0
    <2>1. pipeline_runs'[r] = [status |-> "RUNNING", attempt |-> pipeline_runs[r].attempt + 1]
      BY <1>6 DEF Start, TypeInv, TypeOK, PostgresTypeOK
    <2>2. pipeline_runs'[r].status # "BLOCKED" /\ pipeline_runs'[r].attempt # 0
      BY <1>5, <2>1
    <2>3. pipeline_runs'[r].attempt = 1 => pipeline_runs[r].attempt = 0
      BY <1>5, <2>1
    <2> QED BY <1>1, <1>2, <1>3, <1>4, <1>6, <2>2, <2>3 DEF RunInv
  <1>7. CASE r # r0
    <2>1. pipeline_runs'[r] = pipeline_runs[r]
      BY <1>7 DEF Start, TypeInv, TypeOK, PostgresTypeOK
    <2>2. \A q \in Proc : Executes(q, r)' <=> Executes(q, r)
      BY <1>3, <1>4, <1>7
    <2>3. \A q \in Proc : Executes(q, r) => pc'[q] = pc[q]
      BY <1>3, <1>4
    <2> QED BY <1>1, <1>2, <2>1, <2>2, <2>3 DEF RunInv
  <1> QED BY <1>6, <1>7

\* The steps of a process: one case per action.
LEMMA StepKeepsFirst ==
    ASSUME TypeInv, FirstAttempts, NEW p \in Proc, Step(p)
    PROVE  FirstAttempts'
  <1> USE DEF BeforeSend, At
  <1>1. CASE Fetch(p)
    BY <1>1, QuietStep DEF Fetch, sapVars, postgres
  <1>2. CASE Ingest(p)
    BY <1>2, QuietStep DEF Ingest, sapVars, postgres, memory
  <1>3. CASE PriceWeek(p)
    BY <1>3, QuietStep DEF PriceWeek, sapVars, postgres
  <1>4. CASE SaveRecommendations(p)
    BY <1>4, QuietStep DEF SaveRecommendations, sapVars, postgres, memory
  <1>5. CASE Validate(p)
    <2> DEFINE c == IF Violations(source[p], wh_list) THEN "blocked" ELSE "init"
    <2>1. Goto(p, c) /\ pc[p] = "validate" /\ UNCHANGED <<run_id, pipeline_runs, submission_log, inflight>>
      BY <1>5 DEF Validate, sapVars, postgres, memory
    <2>2. c # "idle"
      OBVIOUS
    <2> HIDE DEF c
    <2> QED BY <2>1, <2>2, QuietStep
  <1>6. CASE FinishBlocked(p)
    <2>1. /\ pc[p] = "blocked" /\ Exit(p) /\ SetStatus(run_id[p], "BLOCKED")
          /\ UNCHANGED <<submission_log, inflight>>
      BY <1>6 DEF FinishBlocked, sapVars
    <2> QED BY <2>1, ExitStep DEF RunStatus
  <1>7. CASE InitRecords(p)
    BY <1>7, QuietStep DEF InitRecords, sapVars, memory
  <1>8. CASE PlanSend(p)
    BY <1>8, QuietStep DEF PlanSend, sapVars, postgres
  <1>9. CASE PostAnswered(p)
    <2>1. \A s \in submission_log' : s \in submission_log \/ s.run = run_id[p]
      BY <1>9, PostLogsItsRun DEF PostAnswered
    <2> QED BY <1>9, <2>1, SendingStep DEF PostAnswered, postgres
  <1>10. CASE SendDone(p)
    BY <1>10, QuietStep DEF SendDone, sapVars, postgres, memory
  <1>11. CASE SaveSendResults(p)
    BY <1>11, QuietStep DEF SaveSendResults, sapVars, memory
  <1>12. CASE RecordSendResults(p)
    BY <1>12, QuietStep DEF RecordSendResults, sapVars, postgres, memory
  <1>13. CASE GetConditions(p)
    BY <1>13, QuietStep DEF GetConditions, sapVars, postgres
  <1>14. CASE SaveReconcile(p)
    BY <1>14, QuietStep DEF SaveReconcile, sapVars, memory
  <1>15. CASE RecordHistory(p)
    BY <1>15, QuietStep DEF RecordHistory, sapVars, postgres, memory
  <1>16. CASE Finish(p)
    <2>1. FinalStatus(p) \in RunStatus /\ FinalStatus(p) # "BLOCKED"
      BY DEF FinalStatus, RunStatus
    <2>2. /\ pc[p] = "finish" /\ Exit(p) /\ SetStatus(run_id[p], FinalStatus(p))
          /\ UNCHANGED <<submission_log, inflight>>
      BY <1>16 DEF Finish, sapVars
    <2> QED BY <2>1, <2>2, ExitStep
  <1> QED BY <1>1, <1>2, <1>3, <1>4, <1>5, <1>6, <1>7, <1>8, <1>9, <1>10, <1>11, <1>12,
             <1>13, <1>14, <1>15, <1>16 DEF Step

\* The failures: a lost POST is of a run that sends; a killed execution is over.
LEMMA FailureKeepsFirst ==
    ASSUME TypeInv, FirstAttempts, NEW p \in Proc, Failure(p)
    PROVE  FirstAttempts'
  <1>1. CASE PostFailed(p)
    <2>1. \A m \in inflight' : m \in inflight \/ m.run = run_id[p]
      BY <1>1 DEF PostFailed
    <2> QED BY <1>1, <2>1, SendingStep DEF PostFailed, sapVars, postgres
  <1>2. CASE PostRefused(p)
    BY <1>2, SendingStep DEF PostRefused, sapVars, postgres
  <1>3. CASE Raise(p)
    <2>1. /\ pc[p] # "idle" /\ Exit(p) /\ SetStatus(run_id[p], "FAILED")
          /\ UNCHANGED <<submission_log, inflight>>
      BY <1>3 DEF Raise, sapVars
    <2> QED BY <2>1, ExitStep DEF RunStatus
  <1>4. CASE Crash(p)
    <2>1. \A m \in inflight' : m \in inflight \/ m.run = run_id[p]
      BY <1>4 DEF Crash
    <2>2. pc[p] # "idle" /\ Exit(p) /\ UNCHANGED <<submission_log, pipeline_runs>>
      BY <1>4 DEF Crash, sapVars, postgres
    <2> QED BY <2>1, <2>2, ExitStep
  <1> QED BY <1>1, <1>2, <1>3, <1>4 DEF Failure

\* Every step keeps what is known of first attempts.
LEMMA NextKeepsFirst ==
    ASSUME TypeInv, FirstAttempts, [Next]_vars
    PROVE  FirstAttempts'
  <1>1. ASSUME NEW p \in Proc, NEW r \in Run, Start(p, r)
        PROVE  FirstAttempts'
    BY <1>1, StartKeepsFirst
  <1>2. ASSUME NEW p \in Proc, Step(p)
        PROVE  FirstAttempts'
    BY <1>2, StepKeepsFirst
  <1>3. ASSUME NEW p \in Proc, Failure(p)
        PROVE  FirstAttempts'
    BY <1>3, FailureKeepsFirst
  <1>4. ASSUME NEW m \in inflight, LateArrival(m)
        PROVE  FirstAttempts'
    <2>1. \A s \in submission_log' : s \in submission_log \/ s.run = m.run
      BY <1>4, PostLogsItsRun DEF LateArrival
    <2>2. \A r \in Run : Untouched(r) => Untouched(r)'
      BY <1>4, <2>1 DEF LateArrival, Untouched
    <2> QED BY <1>4, <2>2, AsideStep DEF LateArrival, postgres, memory
  <1>5. CASE OutsideEdit
    <2>1. UNCHANGED <<submission_log, inflight, pc, run_id, pipeline_runs>>
      BY <1>5 DEF OutsideEdit, SapEdit, PublishList, SetPromotion, EndOldRecord, DeleteCondition,
            postgres, memory
    <2> QED BY <2>1, AsideStep DEF Untouched
  <1>6. CASE UNCHANGED vars
    BY <1>6, AsideStep DEF vars, sapVars, postgres, memory, Untouched
  <1> QED BY <1>1, <1>2, <1>3, <1>4, <1>5, <1>6 DEF Next

\* A run the gate blocked on its first attempt has sent nothing, whatever executions there
\* are of other runs, and whatever they crash into, resend or SAP still processes.
THEOREM PipelineBlockedSentNothing == Spec => []BlockedSentNothing
  <1>1. Init => FirstAttempts
    BY DEF Init, SapInit, FirstAttempts, RunInv, Untouched, Executes
  <1>2. PipelineInv /\ FirstAttempts /\ [Next]_vars => FirstAttempts'
    BY NextKeepsFirst DEF PipelineInv
  <1>3. FirstAttempts => BlockedSentNothing
    BY DEF FirstAttempts, RunInv, Untouched, BlockedSentNothing
  <1> QED BY <1>1, <1>2, <1>3, InitPipelineInv, NextKeepsPipelineInv, PTL DEF Spec

------------------------------------------------------------------------------
(* The two stores of a first attempt                                         *)

\* A row with a price is a row of the engine's table: the engine prices only what it lists.
RowsOffered ==
    /\ \A p \in Proc : pc[p] = "save" => priced[p] = EnginePrices(source[p])
    /\ \A r \in Run, i \in Item : price_recommendations[r][i].price # NoPrice => price_recommendations[r][i].row

\* Neither store has an answer; Postgres has what the execution remembers; both say the same.
Unanswered(r) == \A i \in Item :
    pipeline_records[r][i].send_status = Null /\ price_recommendations[r][i].sap_status = Null
Recorded(p, r) == \A i \in Item :
    pipeline_records[r][i].send_status = results[p][i] /\ price_recommendations[r][i].sap_status = Null
StoresAgree(r) == \A i \in Item : price_recommendations[r][i].price # NoPrice =>
    price_recommendations[r][i].sap_status = pipeline_records[r][i].send_status

\* How far a first attempt is, and what the stores say of it by then.
StoreInv(r) ==
    /\ pipeline_runs[r].attempt = 0 => Unanswered(r)
    /\ pipeline_runs[r].attempt = 1 =>
          /\ \A p \in Proc : Executes(p, r) =>
                /\ pc[p] \in BeforeSend \cup {"send", "saveSend"} => Unanswered(r)
                /\ pc[p] = "recordSend" => Recorded(p, r)
                /\ pc[p] \in {"getConditions", "saveReconcile", "history", "finish"} => StoresAgree(r)
          /\ pipeline_runs[r].status \in {"SUCCEEDED", "COMPLETED_WITH_ISSUES"} =>
                StoresAgree(r) /\ \A p \in Proc : ~ Executes(p, r)

StoresInv == \A r \in Run : StoreInv(r)

\* The engine's prices are of listed items.
LEMMA PricedIsListed ==
    ASSUME NEW l \in List \cup {NoList}, NEW i \in Item, EnginePrices(l)[i] # NoPrice
    PROVE  i \in Candidates(l)
  BY OfferAssumption DEF EnginePrices, NoPrices, Candidates

\* An interrupted write leaves rows that were whole or nothing.
LEMMA TornWriteIsOffered ==
    ASSUME TypeInv, RowsOffered, NEW p \in Proc, pc[p] # "idle", TornWrite(p), NEW r \in Run, NEW i \in Item,
           price_recommendations'[r][i].price # NoPrice
    PROVE  price_recommendations'[r][i].row
  <1>0. /\ price_recommendations \in [Run -> [Item -> Recommendation]] /\ run_id[p] \in Run
        /\ source[p] \in List \cup {NoList}
    BY DEF TypeInv, TypeOK, WarehouseTypeOK, ProcessTypeOK, RunsKnown
  <1>1. CASE UNCHANGED price_recommendations
    BY <1>1 DEF RowsOffered
  <1>2. ASSUME At(p, "save"), NEW done \in SUBSET Candidates(source[p]),
               price_recommendations' = [price_recommendations EXCEPT ![run_id[p]] =
                   [j \in Item |-> IF j \in done THEN EngineRow(p, j) ELSE NoRecommendation]]
        PROVE  price_recommendations'[r][i].row
    BY <1>0, <1>2 DEF RowsOffered, EngineRow, NoRecommendation
  <1>3. ASSUME NEW done \in SUBSET Item,
               price_recommendations' = [price_recommendations EXCEPT ![run_id[p]] =
                   [j \in Item |-> IF j \in done THEN AnsweredRow(p, j) ELSE @[j]]]
        PROVE  price_recommendations'[r][i].row
    <2>1. CASE r = run_id[p]
      <3>1. price_recommendations'[r][i] = IF i \in done THEN AnsweredRow(p, i) ELSE price_recommendations[r][i]
        BY <1>0, <1>3, <2>1
      <3> QED BY <1>0, <2>1, <3>1 DEF RowsOffered, AnsweredRow, Recommendation
    <2>2. CASE r # run_id[p]
      BY <1>0, <1>3, <2>2 DEF RowsOffered
    <2> QED BY <2>1, <2>2
  <1> QED BY <1>1, <1>2, <1>3 DEF TornWrite, warehouse

\* Every row with a price stays a row of the table.
LEMMA NextKeepsOffered ==
    ASSUME TypeInv, RowsOffered, [Next]_vars
    PROVE  RowsOffered'
  <1>0. /\ pc \in [Proc -> ControlPoint] /\ source \in [Proc -> List \cup {NoList}]
        /\ priced \in [Proc -> [Item -> Price \cup {NoPrice}]]
        /\ price_recommendations \in [Run -> [Item -> Recommendation]]
    BY DEF TypeInv, TypeOK, WarehouseTypeOK, ProcessTypeOK
  <1>a. ASSUME UNCHANGED price_recommendations,
               \A q \in Proc : pc'[q] = "save" => pc[q] = "save" /\ UNCHANGED <<priced[q], source[q]>>
        PROVE  RowsOffered'
    BY <1>a DEF RowsOffered
  <1>1. ASSUME NEW p \in Proc, NEW r \in Run, Start(p, r)
        PROVE  RowsOffered'
    BY <1>0, <1>1, <1>a DEF Start, warehouse, Goto, At
  <1>2. ASSUME NEW p \in Proc, Step(p)
        PROVE  RowsOffered'
    <2>0. run_id[p] \in Run /\ \A q \in Proc \ {p} : SameProcess(q)
      BY <1>2, StepIsExecuting, StepIsAlone DEF TypeInv, RunsKnown
    <2>1. CASE PriceWeek(p)
      <3>1. UNCHANGED price_recommendations /\ source'[p] = wh_list /\ priced'[p] = EnginePrices(wh_list)
        BY <1>0, <2>1 DEF PriceWeek, warehouse
      <3> QED BY <2>0, <3>1 DEF RowsOffered, SameProcess
    <2>2. CASE SaveRecommendations(p)
      <3>1. ASSUME NEW r \in Run, NEW i \in Item, price_recommendations'[r][i].price # NoPrice
            PROVE  price_recommendations'[r][i].row
        <4>1. CASE r = run_id[p]
          BY <1>0, <2>2, <3>1, <4>1, PricedIsListed DEF SaveRecommendations, At, EngineRow, RowsOffered
        <4>2. CASE r # run_id[p]
          BY <1>0, <2>2, <3>1, <4>2 DEF SaveRecommendations, RowsOffered
        <4> QED BY <4>1, <4>2
      <3>2. pc'[p] # "save"
        BY <1>0, <2>2 DEF SaveRecommendations, Goto
      <3> QED BY <2>0, <3>1, <3>2 DEF RowsOffered, SameProcess
    <2>3. CASE RecordSendResults(p)
      <3>1. ASSUME NEW r \in Run, NEW i \in Item, price_recommendations'[r][i].price # NoPrice
            PROVE  price_recommendations'[r][i].row
        <4>1. CASE r = run_id[p]
          <5>1. price_recommendations'[r][i] = AnsweredRow(p, i)
            BY <1>0, <2>3, <4>1 DEF RecordSendResults
          <5> QED BY <1>0, <3>1, <4>1, <5>1 DEF RowsOffered, AnsweredRow, Recommendation
        <4>2. CASE r # run_id[p]
          BY <1>0, <2>3, <3>1, <4>2 DEF RecordSendResults, RowsOffered
        <4> QED BY <4>1, <4>2
      <3>2. pc'[p] # "save"
        BY <1>0, <2>3 DEF RecordSendResults, Goto
      <3> QED BY <2>0, <3>1, <3>2 DEF RowsOffered, SameProcess
    <2>4. CASE ~ (PriceWeek(p) \/ SaveRecommendations(p) \/ RecordSendResults(p))
      <3>1. UNCHANGED price_recommendations
        BY <1>2, <2>4 DEF Step, Fetch, Ingest, Validate, FinishBlocked, InitRecords, PlanSend, PostAnswered,
           SendDone, SaveSendResults, GetConditions, SaveReconcile, RecordHistory, Finish, warehouse
      <3>2. CASE PostAnswered(p)
        BY <1>a, <3>1, <3>2 DEF PostAnswered
      <3>3. CASE ~ PostAnswered(p)
        <4>1. \E c \in ControlPoint \ {"save"} : Goto(p, c)
          BY <1>2, <2>4, <3>3 DEF Step, Fetch, Ingest, Validate, FinishBlocked, InitRecords, PlanSend,
             SendDone, SaveSendResults, GetConditions, SaveReconcile, RecordHistory, Finish, Exit, ControlPoint
        <4>2. pc'[p] # "save"
          BY <1>0, <4>1 DEF Goto
        <4> QED BY <1>a, <2>0, <3>1, <4>2 DEF SameProcess
      <3> QED BY <3>2, <3>3
    <2> QED BY <2>1, <2>2, <2>3, <2>4
  <1>3. ASSUME NEW p \in Proc, Failure(p)
        PROVE  RowsOffered'
    <2>1. CASE PostFailed(p) \/ PostRefused(p)
      BY <1>a, <2>1 DEF PostFailed, PostRefused, warehouse
    <2>2. CASE Raise(p) \/ Crash(p)
      <3>1. \A r \in Run, i \in Item : price_recommendations'[r][i].price # NoPrice => price_recommendations'[r][i].row
        BY <2>2, TornWriteIsOffered DEF Raise, Crash
      <3>2. \A q \in Proc : pc'[q] = "save" => pc[q] = "save" /\ UNCHANGED <<priced[q], source[q]>>
        BY <1>0, <2>2 DEF Raise, Crash, Exit, Goto
      <3> QED BY <3>1, <3>2 DEF RowsOffered
    <2> QED BY <1>3, <2>1, <2>2 DEF Failure
  <1>4. UNCHANGED <<price_recommendations, pc, priced, source>> => RowsOffered'
    BY <1>a
  <1> QED BY <1>1, <1>2, <1>3, <1>4 DEF Next, LateArrival, OutsideEdit, vars, warehouse, memory

\* A run whose stores, status and executions are left alone.
LEMMA StoreKept ==
    ASSUME NEW r \in Run, StoreInv(r), SameRun(r),
           \A q \in Proc : Executes(q, r)' =>
              Executes(q, r) /\ UNCHANGED <<pc[q], results[q]>>
    PROVE  StoreInv(r)'
  BY DEF StoreInv, Unanswered, Recorded, StoresAgree, SameRun, SameRows, SameRecords, SameStatus

\* A first attempt, alone on its run, goes on or ends.
LEMMA FirstAttemptGoesOn ==
    ASSUME TypeInv, FirstAttempts, NEW p \in Proc, NEW r \in Run, Executes(p, r),
           pipeline_runs'[r].attempt = pipeline_runs[r].attempt,
           \A q \in Proc \ {p} : SameProcess(q),
           pipeline_runs[r].attempt = 1 /\ Executes(p, r)' =>
              /\ pipeline_runs'[r].status \notin {"SUCCEEDED", "COMPLETED_WITH_ISSUES"}
              /\ pc'[p] \in BeforeSend \cup {"send", "saveSend"} => Unanswered(r)'
              /\ pc'[p] = "recordSend" => Recorded(p, r)'
              /\ pc'[p] \in {"getConditions", "saveReconcile", "history", "finish"} => StoresAgree(r)',
           pipeline_runs[r].attempt = 1 /\ ~ Executes(p, r)' =>
              (pipeline_runs'[r].status \in {"SUCCEEDED", "COMPLETED_WITH_ISSUES"} => StoresAgree(r)')
    PROVE  StoreInv(r)'
  <1>1. pipeline_runs[r].attempt # 0
    BY DEF FirstAttempts, RunInv
  <1>2. pipeline_runs[r].attempt = 1 => \A q \in Proc : Executes(q, r)' => q = p
    BY DEF FirstAttempts, RunInv, Executes, SameProcess
  <1> QED BY <1>1, <1>2 DEF StoreInv

\* A good step of a first attempt, from its own run's point of view.
LEMMA StepKeepsStore ==
    ASSUME TypeInv, FirstAttempts, RowsOffered, NEW p \in Proc, Step(p), NEW r \in Run,
           Executes(p, r), StoreInv(r)
    PROVE  StoreInv(r)'
  <1>0. /\ pc \in [Proc -> ControlPoint] /\ run_id \in [Proc -> Run \cup {NoRun}]
        /\ results \in [Proc -> [Item -> SendStatus \cup {Null}]]
        /\ price_recommendations \in [Run -> [Item -> Recommendation]]
        /\ pipeline_records \in [Run -> [Item -> Record]]
        /\ pipeline_runs \in [Run -> [status : RunStatus, attempt : 0 .. MaxAttempts]]
        /\ run_id[p] = r /\ pc[p] # "idle"
    BY DEF TypeInv, TypeOK, WarehouseTypeOK, PostgresTypeOK, ProcessTypeOK, Executes
  <1>1. \A q \in Proc \ {p} : SameProcess(q)
    BY StepIsAlone
  <1>a. pipeline_runs[r].attempt = 1 =>
           /\ pipeline_runs[r].status \notin {"SUCCEEDED", "COMPLETED_WITH_ISSUES"}
           /\ pc[p] \in BeforeSend \cup {"send", "saveSend"} => Unanswered(r)
           /\ pc[p] = "recordSend" => Recorded(p, r)
           /\ pc[p] \in {"getConditions", "saveReconcile", "history", "finish"} => StoresAgree(r)
    BY DEF StoreInv
  <1>2. CASE FinishBlocked(p) \/ Finish(p)
    <2>1. pipeline_runs'[r].attempt = pipeline_runs[r].attempt
      BY <1>0, <1>2 DEF FinishBlocked, Finish, SetStatus
    <2>2. ~ Executes(p, r)'
      BY <1>0, <1>2 DEF FinishBlocked, Finish, Exit, Goto, Executes
    <2>3. UNCHANGED <<price_recommendations, pipeline_records>>
      BY <1>2 DEF FinishBlocked, Finish, warehouse
    <2>4. CASE Finish(p)
      <3>1. pipeline_runs[r].attempt = 1 => StoresAgree(r)'
        BY <1>a, <2>3, <2>4 DEF Finish, At, StoresAgree
      <3> QED BY <1>1, <2>1, <2>2, <3>1, FirstAttemptGoesOn
    <2>5. CASE FinishBlocked(p)
      <3>1. pipeline_runs'[r].status = "BLOCKED"
        BY <1>0, <2>5 DEF FinishBlocked, SetStatus
      <3> QED BY <1>1, <2>1, <2>2, <3>1, FirstAttemptGoesOn
    <2> QED BY <1>2, <2>4, <2>5
  <1>3. ASSUME ~ (FinishBlocked(p) \/ Finish(p))
        PROVE  UNCHANGED pipeline_runs /\ Executes(p, r)
    BY <1>3 DEF Step, Fetch, Ingest, PriceWeek, SaveRecommendations, Validate, InitRecords,
       PlanSend, PostAnswered, SendDone, SaveSendResults, RecordSendResults, GetConditions, SaveReconcile,
       RecordHistory, postgres
  <1>4. ASSUME UNCHANGED pipeline_runs,
               pipeline_runs[r].attempt = 1 /\ Executes(p, r)' =>
                  /\ pc'[p] \in BeforeSend \cup {"send", "saveSend"} => Unanswered(r)'
                  /\ pc'[p] = "recordSend" => Recorded(p, r)'
                  /\ pc'[p] \in {"getConditions", "saveReconcile", "history", "finish"} => StoresAgree(r)',
               Executes(p, r)'
        PROVE  StoreInv(r)'
    BY <1>1, <1>4, <1>a, FirstAttemptGoesOn
  <1>5. ASSUME ~ (FinishBlocked(p) \/ Finish(p))
        PROVE  Executes(p, r)'
    <2>1. UNCHANGED run_id /\ (UNCHANGED pc \/ \E c \in ControlPoint \ {"idle"} : Goto(p, c))
      BY <1>5 DEF Step, Fetch, Ingest, PriceWeek, SaveRecommendations, Validate, InitRecords,
         PlanSend, PostAnswered, SendDone, SaveSendResults, RecordSendResults, GetConditions, SaveReconcile,
         RecordHistory, memory, ControlPoint
    <2> QED BY <1>0, <2>1 DEF Goto, Executes
  <1> USE DEF At, Goto, BeforeSend
  <1>6. CASE Fetch(p) \/ Ingest(p) \/ PriceWeek(p) \/ Validate(p) \/ PlanSend(p) \/ SendDone(p)
             \/ GetConditions(p) \/ RecordHistory(p) \/ PostAnswered(p)
    <2>1. /\ UNCHANGED <<price_recommendations, pipeline_records, pipeline_runs>>
          /\ pc[p] \in BeforeSend \cup {"send", "saveSend"} <=> pc'[p] \in BeforeSend \cup {"send", "saveSend"}
          /\ pc'[p] # "recordSend"
          /\ pc[p] \in {"getConditions", "saveReconcile", "history", "finish"}
                <=> pc'[p] \in {"getConditions", "saveReconcile", "history", "finish"}
      BY <1>0, <1>6 DEF Fetch, Ingest, PriceWeek, Validate, PlanSend, SendDone, GetConditions, RecordHistory,
         PostAnswered, warehouse, postgres
    <2>2. Executes(p, r)'
      BY <1>5, <1>6 DEF Fetch, Ingest, PriceWeek, Validate, PlanSend, SendDone, GetConditions, RecordHistory,
         PostAnswered, FinishBlocked, Finish
    <2> QED BY <1>4, <1>a, <2>1, <2>2 DEF Unanswered, StoresAgree
  <1>7. CASE SaveRecommendations(p)
    <2>1. pc[p] = "save" /\ pc'[p] = "validate" /\ UNCHANGED <<pipeline_runs, pipeline_records>>
      BY <1>0, <1>7 DEF SaveRecommendations, postgres
    <2>2. \A i \in Item : price_recommendations'[r][i].sap_status = Null
      BY <1>0, <1>7 DEF SaveRecommendations, EngineRow
    <2>3. Executes(p, r)'
      BY <1>5, <1>7 DEF SaveRecommendations, FinishBlocked, Finish
    <2> QED BY <1>4, <1>a, <2>1, <2>2, <2>3 DEF Unanswered
  <1>8. CASE InitRecords(p)
    <2>1. pc[p] = "init" /\ pc'[p] = "accepted" /\ UNCHANGED <<pipeline_runs, price_recommendations>>
      BY <1>0, <1>8 DEF InitRecords, warehouse
    <2>2. \A i \in Item : pipeline_records'[r][i].send_status = pipeline_records[r][i].send_status
      BY <1>0, <1>8 DEF InitRecords, Record
    <2>3. Executes(p, r)'
      BY <1>5, <1>8, <2>1 DEF FinishBlocked, Finish
    <2> QED BY <1>4, <1>a, <2>1, <2>2, <2>3 DEF Unanswered
  <1>9. CASE SaveSendResults(p)
    <2>1. pc[p] = "saveSend" /\ pc'[p] = "recordSend" /\ UNCHANGED <<pipeline_runs, price_recommendations, results>>
      BY <1>0, <1>9 DEF SaveSendResults, warehouse, memory
    <2>2. \A i \in Item : pipeline_records'[r][i].send_status =
             IF results[p][i] # Null THEN results[p][i] ELSE pipeline_records[r][i].send_status
      BY <1>0, <1>9 DEF SaveSendResults, Record
    <2>3. Executes(p, r)'
      BY <1>5, <1>9, <2>1 DEF FinishBlocked, Finish
    <2> QED BY <1>4, <1>a, <2>1, <2>2, <2>3 DEF Unanswered, Recorded
  <1>10. CASE RecordSendResults(p)
    <2>1. pc[p] = "recordSend" /\ pc'[p] = "getConditions" /\ UNCHANGED <<pipeline_runs, pipeline_records>>
      BY <1>0, <1>10 DEF RecordSendResults, postgres
    <2>2. \A i \in Item : LET row == price_recommendations[r][i] IN
             /\ price_recommendations'[r][i].price = row.price
             /\ price_recommendations'[r][i].sap_status =
                   IF results[p][i] # Null /\ row.row THEN results[p][i] ELSE row.sap_status
      BY <1>0, <1>10 DEF RecordSendResults, AnsweredRow, Recommendation
    <2>3. Executes(p, r)'
      BY <1>5, <1>10, <2>1 DEF FinishBlocked, Finish
    <2>4. pipeline_runs[r].attempt = 1 => StoresAgree(r)'
      BY <1>a, <2>1, <2>2 DEF Recorded, RowsOffered, StoresAgree
    <2> QED BY <1>4, <2>1, <2>3, <2>4
  <1>11. CASE SaveReconcile(p)
    <2>1. pc[p] = "saveReconcile" /\ pc'[p] = "history" /\ UNCHANGED <<pipeline_runs, price_recommendations>>
      BY <1>0, <1>11 DEF SaveReconcile, warehouse
    <2>2. \A i \in Item : pipeline_records'[r][i].send_status = pipeline_records[r][i].send_status
      BY <1>0, <1>11 DEF SaveReconcile, Record
    <2>3. Executes(p, r)'
      BY <1>5, <1>11, <2>1 DEF FinishBlocked, Finish
    <2> QED BY <1>4, <1>a, <2>1, <2>2, <2>3 DEF StoresAgree
  <1> QED BY <1>2, <1>6, <1>7, <1>8, <1>9, <1>10, <1>11 DEF Step

\* A failure of a first attempt: it waits on, or is over without having finished.
LEMMA FailureKeepsStore ==
    ASSUME TypeInv, FirstAttempts, NEW p \in Proc, Failure(p), NEW r \in Run, Executes(p, r), StoreInv(r)
    PROVE  StoreInv(r)'
  <1>1. \A q \in Proc \ {p} : SameProcess(q)
    BY FailureIsAlone
  <1>2. CASE PostFailed(p) \/ PostRefused(p)
    <2>1. UNCHANGED <<price_recommendations, pipeline_records, pipeline_runs, pc, run_id>> /\ pc[p] = "send"
      BY <1>2 DEF PostFailed, PostRefused, warehouse, postgres, At
    <2>2. pipeline_runs[r].attempt = 1 =>
             Unanswered(r) /\ pipeline_runs[r].status \notin {"SUCCEEDED", "COMPLETED_WITH_ISSUES"}
      BY <2>1 DEF StoreInv
    <2>3. Executes(p, r)' /\ (Unanswered(r) => Unanswered(r)')
      BY <2>1 DEF Executes, Unanswered
    <2>4. CASE pipeline_runs[r].attempt = 1
      BY <1>1, <2>1, <2>2, <2>3, <2>4, FirstAttemptGoesOn
    <2>5. CASE pipeline_runs[r].attempt # 1
      BY <2>1, <2>3, <2>5 DEF StoreInv
    <2> QED BY <2>4, <2>5
  <1>3. CASE Raise(p) \/ Crash(p)
    <2>1. pipeline_runs'[r].attempt = pipeline_runs[r].attempt
      BY <1>3 DEF Raise, Crash, SetStatus, postgres, TypeInv, TypeOK, PostgresTypeOK
    <2>2. ~ Executes(p, r)'
      BY <1>3 DEF Raise, Crash, Exit, Goto, Executes, TypeInv, TypeOK, ProcessTypeOK
    <2>3. pipeline_runs[r].attempt = 1 => pipeline_runs'[r].status \notin {"SUCCEEDED", "COMPLETED_WITH_ISSUES"}
      <3>1. CASE Raise(p)
        BY <3>1 DEF Raise, SetStatus, Executes, TypeInv, TypeOK, PostgresTypeOK
      <3>2. CASE Crash(p)
        BY <3>2 DEF Crash, postgres, StoreInv
      <3> QED BY <1>3, <3>1, <3>2
    <2> QED BY <1>1, <2>1, <2>2, <2>3, FirstAttemptGoesOn
  <1> QED BY <1>2, <1>3 DEF Failure

\* Every step keeps what the stores say of first attempts.
LEMMA NextKeepsStores ==
    ASSUME TypeInv, FirstAttempts, RowsOffered, StoresInv, [Next]_vars
    PROVE  StoresInv'
  <1> SUFFICES ASSUME NEW r \in Run
               PROVE  StoreInv(r)'
    BY DEF StoresInv
  <1>0. StoreInv(r)
    BY DEF StoresInv
  <1>1. ASSUME NEW p \in Proc, NEW r0 \in Run, Start(p, r0)
        PROVE  StoreInv(r)'
    <2>0. /\ pipeline_runs \in [Run -> [status : RunStatus, attempt : 0 .. MaxAttempts]]
          /\ pipeline_runs[r].attempt \in Nat
          /\ UNCHANGED <<price_recommendations, pipeline_records, results>>
          /\ \A q \in Proc \ {p} : pc'[q] = pc[q] /\ run_id'[q] = run_id[q]
          /\ pc'[p] = "fetch" /\ run_id'[p] = r0
      BY <1>1 DEF Start, Goto, warehouse, TypeInv, TypeOK, PostgresTypeOK, ProcessTypeOK
    <2>1. CASE r = r0
      <3>1. pipeline_runs'[r] = [status |-> "RUNNING", attempt |-> pipeline_runs[r].attempt + 1]
        BY <1>1, <2>0, <2>1 DEF Start
      <3>2. pipeline_runs'[r].attempt # 0 /\ pipeline_runs'[r].status = "RUNNING"
        BY <2>0, <3>1
      <3>3. pipeline_runs'[r].attempt = 1 => pipeline_runs[r].attempt = 0
        BY <2>0, <3>1
      <3>4. pipeline_runs'[r].attempt = 1 => Unanswered(r)' /\ \A q \in Proc : Executes(q, r)' => q = p
        BY <1>0, <2>0, <3>3 DEF StoreInv, Unanswered, FirstAttempts, RunInv, Executes
      <3> QED BY <2>0, <3>2, <3>4 DEF StoreInv
    <2>2. CASE r # r0
      <3>1. SameRun(r)
        BY <1>1, <2>0, <2>2 DEF Start, SameRun, SameRows, SameRecords, SameStatus
      <3>2. \A q \in Proc : Executes(q, r)' => Executes(q, r) /\ UNCHANGED <<pc[q], results[q]>>
        BY <2>0, <2>2 DEF Executes
      <3> QED BY <1>0, <3>1, <3>2, StoreKept
    <2> QED BY <2>1, <2>2
  <1>2. ASSUME NEW p \in Proc, Step(p) \/ Failure(p)
        PROVE  StoreInv(r)'
    <2>1. CASE run_id[p] = r
      BY <1>0, <1>2, <2>1, StepIsExecuting, StepKeepsStore, FailureKeepsStore DEF Executes
    <2>2. CASE run_id[p] # r
      <3>1. SameRun(r) /\ \A q \in Proc \ {p} : SameProcess(q)
        BY <1>2, <2>2, StepIsAlone, FailureIsAlone
      <3>2. \A q \in Proc : Executes(q, r)' => q # p
        BY <1>2, <2>2, StepStaysInRun DEF Executes
      <3> QED BY <1>0, <3>1, <3>2, StoreKept DEF SameProcess, Executes
    <2> QED BY <2>1, <2>2
  <1>3. UNCHANGED <<warehouse, postgres, pc, memory>> => StoreInv(r)'
    BY <1>0, StoreKept DEF warehouse, postgres, memory, SameRun, SameRows, SameRecords, SameStatus, Executes
  <1> QED BY <1>1, <1>2, <1>3 DEF Next, LateArrival, OutsideEdit, vars

\* When a first attempt has ended, the warehouse says of every priced item what Postgres
\* says, whatever was lost, refused or retried, and however many other runs there are.
THEOREM PipelineFirstAttemptStoresAgree == Spec => []FirstAttemptStoresAgree
  <1>1. Init => FirstAttempts /\ RowsOffered /\ StoresInv
    <2>1. Init => FirstAttempts
      BY DEF Init, SapInit, FirstAttempts, RunInv, Untouched, Executes
    <2>2. Init => RowsOffered
      BY DEF Init, RowsOffered, NoRecommendation
    <2>3. Init => StoresInv
      BY DEF Init, StoresInv, StoreInv, Unanswered, NoRecord, NoRecommendation
    <2> QED BY <2>1, <2>2, <2>3
  <1>2. PipelineInv /\ FirstAttempts /\ RowsOffered /\ StoresInv /\ [Next]_vars
        => FirstAttempts' /\ RowsOffered' /\ StoresInv'
    BY NextKeepsFirst, NextKeepsOffered, NextKeepsStores DEF PipelineInv
  <1>3. StoresInv => FirstAttemptStoresAgree
    BY DEF StoresInv, StoreInv, StoresAgree, FirstAttemptStoresAgree
  <1> QED BY <1>1, <1>2, <1>3, InitPipelineInv, NextKeepsPipelineInv, PTL DEF Spec

------------------------------------------------------------------------------
(* Reruns                                                                    *)

\* No run id is executed twice at once.
OneExecution == \A p, q \in Proc :
    pc[p] # "idle" /\ pc[q] # "idle" /\ run_id[p] = run_id[q] => p = q

\* Executions go on or end, and one may start for a run id that is not executing.
LEMMA NextKeepsOneExecution ==
    ASSUME Exclusive, TypeInv, OneExecution, [Next]_vars
    PROVE  OneExecution'
  <1>1. ASSUME NEW p \in Proc, NEW r \in Run, Start(p, r)
        PROVE  OneExecution'
    BY <1>1 DEF Start, Goto, OneExecution, TypeInv, TypeOK, ProcessTypeOK
  <1>2. ASSUME UNCHANGED run_id, \A p \in Proc : pc'[p] # "idle" => pc[p] # "idle"
        PROVE  OneExecution'
    BY <1>2 DEF OneExecution
  <1>3. ASSUME NEW p \in Proc, Exit(p)
        PROVE  OneExecution'
    BY <1>3 DEF Exit, Goto, OneExecution, TypeInv, TypeOK, ProcessTypeOK
  <1>4. ASSUME NEW p \in Proc, Step(p)
        PROVE  OneExecution'
    <2>1. CASE FinishBlocked(p) \/ Finish(p)
      BY <1>3, <2>1 DEF FinishBlocked, Finish
    <2>2. CASE ~ (FinishBlocked(p) \/ Finish(p))
      <3>1. UNCHANGED run_id /\ pc[p] # "idle" /\ (UNCHANGED pc \/ \E c \in ControlPoint : Goto(p, c))
        BY <1>4, <2>2 DEF Step, Fetch, Ingest, PriceWeek, SaveRecommendations, Validate, InitRecords,
              PlanSend, PostAnswered, SendDone, SaveSendResults, RecordSendResults, GetConditions,
              SaveReconcile, RecordHistory, memory, At, ControlPoint
      <3>2. \A q \in Proc : pc'[q] # "idle" => pc[q] # "idle"
        BY <3>1 DEF Goto, TypeInv, TypeOK, ProcessTypeOK
      <3> QED BY <1>2, <3>1, <3>2
    <2> QED BY <2>1, <2>2
  <1>5. ASSUME NEW p \in Proc, Failure(p)
        PROVE  OneExecution'
    <2>1. CASE PostFailed(p) \/ PostRefused(p)
      BY <1>2, <2>1 DEF PostFailed, PostRefused
    <2>2. CASE Raise(p) \/ Crash(p)
      BY <1>3, <2>2 DEF Raise, Crash
    <2> QED BY <1>5, <2>1, <2>2 DEF Failure
  <1>6. ASSUME NEW m \in inflight, LateArrival(m)
        PROVE  OneExecution'
    BY <1>2, <1>6 DEF LateArrival, memory
  <1>7. CASE OutsideEdit
    BY <1>2, <1>7 DEF OutsideEdit, memory
  <1>8. CASE UNCHANGED vars
    BY <1>2, <1>8 DEF vars, memory
  <1> QED BY <1>1, <1>4, <1>5, <1>6, <1>7, <1>8 DEF Next

\* A step after which every sending process was sending before, sends no more than it had
\* planned and finds the records of its run as they were.
LEMMA PlanKept ==
    ASSUME ResendsOnlyUnaccepted,
           \A p \in Proc : pc'[p] = "send" =>
              /\ pc[p] = "send" /\ todo'[p] \subseteq todo[p] /\ run_id'[p] = run_id[p]
              /\ \A i \in todo[p] :
                    pipeline_records'[run_id[p]][i].send_status = pipeline_records[run_id[p]][i].send_status
    PROVE  ResendsOnlyUnaccepted'
  BY DEF ResendsOnlyUnaccepted, At

\* Only the records of the executing run change their send status, and not while it sends.
LEMMA StepKeepsPlan ==
    ASSUME TypeInv, OneExecution, ResendsOnlyUnaccepted, NEW p \in Proc, Step(p)
    PROVE  ResendsOnlyUnaccepted'
  <1> DEFINE SentAsBefore == \A r \in Run, i \in Item :
                 pipeline_records'[r][i].send_status = pipeline_records[r][i].send_status
  <1>0. /\ pipeline_records \in [Run -> [Item -> Record]]
        /\ pc \in [Proc -> ControlPoint] /\ run_id \in [Proc -> Run \cup {NoRun}]
        /\ todo \in [Proc -> SUBSET Item]
        /\ \A q \in Proc : pc[q] # "idle" => run_id[q] \in Run
    BY DEF TypeInv, TypeOK, PostgresTypeOK, ProcessTypeOK, RunsKnown
  <1>1. CASE PlanSend(p)
    <2> SUFFICES ASSUME NEW q \in Proc, pc'[q] = "send", NEW i \in todo'[q]
                 PROVE  pipeline_records[run_id[q]][i].send_status # "ACCEPTED"
      BY <1>1 DEF PlanSend, postgres, ResendsOnlyUnaccepted, At
    <2>1. CASE q = p
      <3>1. i \in Item /\ i \notin AcceptedKeys(run_id[p])
        BY <1>0, <1>1, <2>1 DEF PlanSend, Prices, TypeInv, TypeOK, ProcessTypeOK
      <3> QED BY <2>1, <3>1 DEF AcceptedKeys
    <2>2. CASE q # p
      BY <1>0, <1>1, <2>2 DEF PlanSend, Goto, ResendsOnlyUnaccepted, At
    <2> QED BY <2>1, <2>2
  <1>2. ASSUME SentAsBefore, UNCHANGED <<run_id, todo>>, NEW c, c # "send", Goto(p, c)
        PROVE  ResendsOnlyUnaccepted'
    BY <1>0, <1>2, PlanKept DEF Goto
  <1>3. UNCHANGED pipeline_records => SentAsBefore
    OBVIOUS
  <1>4. CASE InitRecords(p)
    <2>1. SentAsBefore
      BY <1>0, <1>4 DEF InitRecords, Record
    <2> QED BY <1>2, <1>4, <2>1 DEF InitRecords, memory
  <1>5. CASE SaveReconcile(p)
    <2>1. SentAsBefore
      BY <1>0, <1>5 DEF SaveReconcile, Record
    <2> QED BY <1>2, <1>5, <2>1 DEF SaveReconcile, memory
  <1>6. CASE SaveSendResults(p)
    <2>1. \A q \in Proc : pc'[q] = "send" => q # p /\ pc[q] = "send" /\ run_id[q] # run_id[p]
      BY <1>0, <1>6 DEF SaveSendResults, Goto, At, OneExecution
    <2>2. \A q \in Proc : pc'[q] = "send" =>
             pipeline_records'[run_id[q]] = pipeline_records[run_id[q]]
      BY <1>0, <1>6, <2>1 DEF SaveSendResults
    <2>3. UNCHANGED <<run_id, todo>>
      BY <1>6 DEF SaveSendResults, memory
    <2> QED BY <2>1, <2>2, <2>3, PlanKept
  <1>7. CASE PostAnswered(p)
    <2>1. todo'[p] \subseteq todo[p] /\ \A q \in Proc : q # p => todo'[q] = todo[q]
      BY <1>0, <1>7 DEF PostAnswered, Settle
    <2> QED BY <1>7, <2>1, PlanKept DEF PostAnswered, postgres
  <1>8. CASE FinishBlocked(p) \/ Finish(p)
    <2>1. \A q \in Proc : pc'[q] = "send" =>
             pc[q] = "send" /\ todo'[q] = todo[q] /\ run_id'[q] = run_id[q]
      BY <1>0, <1>8 DEF FinishBlocked, Finish, Exit, Goto
    <2> QED BY <1>8, <2>1, PlanKept DEF FinishBlocked, Finish
  <1>9. CASE Fetch(p) \/ Ingest(p) \/ PriceWeek(p) \/ SaveRecommendations(p) \/ Validate(p)
             \/ SendDone(p) \/ RecordSendResults(p) \/ GetConditions(p) \/ RecordHistory(p)
    <2>1. /\ UNCHANGED <<pipeline_records, run_id, todo>>
          /\ \E c \in ControlPoint \ {"send"} : Goto(p, c)
      BY <1>9 DEF Fetch, Ingest, PriceWeek, SaveRecommendations, Validate, SendDone,
            RecordSendResults, GetConditions, RecordHistory, memory, postgres, ControlPoint
    <2> QED BY <1>2, <1>3, <2>1
  <1> QED BY <1>1, <1>4, <1>5, <1>6, <1>7, <1>8, <1>9 DEF Step

\* Every step leaves the sending processes nothing to send that is accepted.
LEMMA NextKeepsPlan ==
    ASSUME TypeInv, OneExecution, ResendsOnlyUnaccepted, [Next]_vars
    PROVE  ResendsOnlyUnaccepted'
  <1>0. pc \in [Proc -> ControlPoint] /\ todo \in [Proc -> SUBSET Item]
    BY DEF TypeInv, TypeOK, ProcessTypeOK
  <1>u. UNCHANGED <<pc, run_id, todo, pipeline_records>> => ResendsOnlyUnaccepted'
    BY PlanKept
  <1>1. ASSUME NEW p \in Proc, NEW r \in Run, Start(p, r)
        PROVE  ResendsOnlyUnaccepted'
    <2>1. \A q \in Proc : pc'[q] = "send" => pc[q] = "send" /\ q # p
      BY <1>0, <1>1 DEF Start, Goto, At
    <2> QED BY <1>1, <2>1, PlanKept DEF Start, TypeInv, TypeOK, ProcessTypeOK
  <1>2. ASSUME NEW p \in Proc, Step(p)
        PROVE  ResendsOnlyUnaccepted'
    BY <1>2, StepKeepsPlan
  <1>3. ASSUME NEW p \in Proc, Failure(p)
        PROVE  ResendsOnlyUnaccepted'
    <2>1. CASE PostFailed(p) \/ PostRefused(p)
      <3>1. \A q \in Proc : todo'[q] \subseteq todo[q]
        BY <1>0, <2>1 DEF PostFailed, PostRefused, SettleAsError, Settle
      <3> QED BY <2>1, <3>1, PlanKept DEF PostFailed, PostRefused, postgres
    <2>2. CASE Raise(p) \/ Crash(p)
      <3>1. Exit(p) /\ UNCHANGED pipeline_records
        BY <2>2 DEF Raise, Crash, postgres
      <3>2. \A q \in Proc : pc'[q] = "send" =>
               pc[q] = "send" /\ todo'[q] = todo[q] /\ run_id'[q] = run_id[q]
        BY <1>0, <3>1 DEF Exit, Goto, TypeInv, TypeOK, ProcessTypeOK
      <3> QED BY <3>1, <3>2, PlanKept
    <2> QED BY <1>3, <2>1, <2>2 DEF Failure
  <1>4. ASSUME NEW m \in inflight, LateArrival(m)
        PROVE  ResendsOnlyUnaccepted'
    BY <1>u, <1>4 DEF LateArrival, postgres, memory
  <1>5. CASE OutsideEdit
    BY <1>u, <1>5 DEF OutsideEdit, postgres, memory
  <1>6. CASE UNCHANGED vars
    BY <1>u, <1>6 DEF vars, postgres, memory
  <1> QED BY <1>1, <1>2, <1>3, <1>4, <1>5, <1>6 DEF Next

\* If no run id is executed twice at once, a rerun sends only records that are not yet
\* recorded as accepted, at any moment of its sending.
THEOREM PipelineResendsOnlyUnaccepted ==
    ASSUME Exclusive
    PROVE  Spec => []ResendsOnlyUnaccepted
  <1>1. Init => OneExecution /\ ResendsOnlyUnaccepted
    BY DEF Init, OneExecution, ResendsOnlyUnaccepted, At
  <1>2. PipelineInv /\ OneExecution /\ [Next]_vars => OneExecution'
    BY NextKeepsOneExecution DEF PipelineInv
  <1>3. PipelineInv /\ OneExecution /\ ResendsOnlyUnaccepted /\ [Next]_vars => ResendsOnlyUnaccepted'
    BY NextKeepsPlan DEF PipelineInv
  <1> QED BY <1>1, <1>2, <1>3, InitPipelineInv, NextKeepsPipelineInv, PTL DEF Spec

------------------------------------------------------------------------------
(* What SUCCEEDED means                                                      *)

\* The control points after the engine rows, the records and the comparison were written.
RowsWritten == {"validate", "blocked", "init", "accepted", "send", "saveSend", "recordSend",
                "getConditions", "saveReconcile", "history", "finish"}
RecordsWritten == {"accepted", "send", "saveSend", "recordSend", "getConditions", "saveReconcile",
                   "history", "finish"}
Compared == {"saveReconcile", "history", "finish"}

\* What an execution remembers is what the stores hold of its run, from the step on that
\* wrote it; and it compares only prices SAP accepted.
RowsKnown(p) == pc[p] \in RowsWritten =>
    \A i \in Item : price_recommendations[run_id[p]][i].price = priced[p][i]
RecordsKnown(p) == pc[p] \in RecordsWritten =>
    \A i \in Prices(priced[p]) : pipeline_records[run_id[p]][i].price = priced[p][i]
ComparisonKnown(p) == pc[p] \in Compared =>
    \A i \in Item : recon[p][i] # Null =>
        /\ i \in Prices(priced[p])
        /\ pipeline_records[run_id[p]][i].send_status = "ACCEPTED"
        /\ recon[p][i] = "CONFIRMED" => AcceptedUnderAnyRun(i, priced[p][i])
VerdictsKnown(p) == pc[p] \in {"history", "finish"} =>
    \A i \in Item : recon[p][i] # Null => pipeline_records[run_id[p]][i].reconcile_status = recon[p][i]
Knows(p) == RowsKnown(p) /\ RecordsKnown(p) /\ ComparisonKnown(p) /\ VerdictsKnown(p)

ExecutionsKnow == \A p \in Proc : Knows(p)

------------------------------------------------------------------------------

\* What SAP took stays taken.
LEMMA TakenStays ==
    ASSUME submission_log \subseteq submission_log', NEW i, NEW price, AcceptedUnderAnyRun(i, price)
    PROVE  AcceptedUnderAnyRun(i, price)'
  BY DEF AcceptedUnderAnyRun, AcceptedBySap

\* An execution whose memory and run are left alone knows what it knew.
LEMMA KnowsKept ==
    ASSUME NEW q \in Proc, Knows(q), submission_log \subseteq submission_log', SameProcess(q),
           pc[q] # "idle" => SameRows(run_id[q]) /\ SameRecords(run_id[q])
    PROVE  Knows(q)'
  <1> USE DEF SameProcess, SameRows, SameRecords
  <1>1. RowsKnown(q)'
    BY DEF Knows, RowsKnown, RowsWritten
  <1>2. RecordsKnown(q)'
    BY DEF Knows, RecordsKnown, RecordsWritten, Prices
  <1>3. ComparisonKnown(q)'
    BY TakenStays DEF Knows, ComparisonKnown, Compared, Prices
  <1>4. VerdictsKnown(q)'
    BY DEF Knows, VerdictsKnown
  <1> QED BY <1>1, <1>2, <1>3, <1>4 DEF Knows

\* What SAP holds at the price asked for was accepted.
LEMMA ConfirmedIsTaken ==
    ASSUME SapInv, NEW i \in Item, NEW price,
           Reconcile(price, ConditionsAnswer, i) = "CONFIRMED"
    PROVE  AcceptedUnderAnyRun(i, price)
  <1>1. i \in HeldItems /\ HeldPrice(i) = price
    BY DEF Reconcile, ConditionsAnswer
  <1>2. PICK c \in price_conditions : c.item = i /\ c.price = price
    BY <1>1 DEF HeldItems, HeldPrice
  <1>3. c.run \in Run /\ [run |-> c.run, item |-> i, price |-> price, code |-> "OK"] \in submission_log
    BY <1>2 DEF SapInv, SapTypeOK, Condition, LogExplains
  <1> QED BY <1>3 DEF AcceptedUnderAnyRun, AcceptedBySap

\* A step of an execution that goes well leaves it with what it should know.
LEMMA StepKnows ==
    ASSUME TypeInv, SapInv, NEW p \in Proc, Knows(p), submission_log \subseteq submission_log', Step(p)
    PROVE  Knows(p)'
  <1>0. /\ pc \in [Proc -> ControlPoint] /\ run_id \in [Proc -> Run \cup {NoRun}]
        /\ priced \in [Proc -> [Item -> Price \cup {NoPrice}]]
        /\ recon \in [Proc -> [Item -> ReconcileStatus \cup {Null}]]
        /\ price_recommendations \in [Run -> [Item -> Recommendation]]
        /\ pipeline_records \in [Run -> [Item -> Record]]
        /\ pc[p] # "idle" /\ run_id[p] \in Run
    BY StepIsExecuting DEF TypeInv, TypeOK, ProcessTypeOK, WarehouseTypeOK, PostgresTypeOK, RunsKnown
  <1> USE DEF Knows, RowsKnown, RecordsKnown, ComparisonKnown, VerdictsKnown, RowsWritten, RecordsWritten,
              Compared, At, Goto
  <1>1. CASE Fetch(p) \/ Ingest(p) \/ PriceWeek(p)
    BY <1>0, <1>1 DEF Fetch, Ingest, PriceWeek
  <1>2. CASE SaveRecommendations(p)
    <2>1. \A i \in Item : price_recommendations'[run_id[p]][i].price = priced[p][i]
      BY <1>0, <1>2 DEF SaveRecommendations, EngineRow
    <2> QED BY <1>0, <1>2, <2>1 DEF SaveRecommendations, memory
  <1>3. CASE Validate(p)
    BY <1>0, <1>3 DEF Validate, warehouse, memory
  <1>4. CASE FinishBlocked(p) \/ Finish(p)
    BY <1>0, <1>4 DEF FinishBlocked, Finish, Exit
  <1>5. CASE InitRecords(p)
    <2>1. \A i \in Prices(priced[p]) : pipeline_records'[run_id[p]][i].price = priced[p][i]
      BY <1>0, <1>5 DEF InitRecords, Prices, Record
    <2> QED BY <1>0, <1>5, <2>1 DEF InitRecords, memory, warehouse
  <1>6. CASE PlanSend(p) \/ SendDone(p)
    BY <1>0, <1>6 DEF PlanSend, SendDone, memory, warehouse, postgres
  <1>7. CASE PostAnswered(p)
    BY <1>0, <1>7 DEF PostAnswered, warehouse, postgres
  <1>8. CASE SaveSendResults(p)
    <2>1. \A i \in Item : pipeline_records'[run_id[p]][i].price = pipeline_records[run_id[p]][i].price
      BY <1>0, <1>8 DEF SaveSendResults, Record
    <2>2. Prices(priced[p]) \subseteq Item
      BY <1>0 DEF Prices
    <2> QED BY <1>0, <1>8, <2>1, <2>2 DEF SaveSendResults, memory, warehouse
  <1>9. CASE RecordSendResults(p)
    <2>1. \A i \in Item : price_recommendations'[run_id[p]][i].price = price_recommendations[run_id[p]][i].price
      BY <1>0, <1>9 DEF RecordSendResults, AnsweredRow, Recommendation
    <2> QED BY <1>0, <1>9, <2>1 DEF RecordSendResults, memory, postgres
  <1>10. CASE GetConditions(p)
    <2> DEFINE sent == Prices(priced[p]) \cap AcceptedKeys(run_id[p])
    <2>1. \A i \in Item : recon'[p][i] = IF i \in sent THEN Reconcile(priced[p][i], ConditionsAnswer, i) ELSE Null
      BY <1>0, <1>10 DEF GetConditions
    <2>2. \A i \in Item : recon'[p][i] # Null =>
             /\ i \in Prices(priced[p])
             /\ pipeline_records[run_id[p]][i].send_status = "ACCEPTED"
             /\ recon'[p][i] = "CONFIRMED" => AcceptedUnderAnyRun(i, priced[p][i])
      BY <2>1, ConfirmedIsTaken DEF AcceptedKeys
    <2>3. UNCHANGED <<submission_log, run_id, priced, pipeline_records, price_recommendations>>
      BY <1>10 DEF GetConditions, sapVars, warehouse, postgres
    <2>4. ComparisonKnown(p)'
      BY <2>2, <2>3 DEF AcceptedUnderAnyRun, AcceptedBySap
    <2> QED BY <1>0, <1>10, <2>3, <2>4 DEF GetConditions
  <1>11. CASE SaveReconcile(p)
    <2>1. \A i \in Item :
             /\ pipeline_records'[run_id[p]][i].price = pipeline_records[run_id[p]][i].price
             /\ pipeline_records'[run_id[p]][i].send_status = pipeline_records[run_id[p]][i].send_status
             /\ recon[p][i] # Null => pipeline_records'[run_id[p]][i].reconcile_status = recon[p][i]
      BY <1>0, <1>11 DEF SaveReconcile, Record
    <2>2. UNCHANGED <<submission_log, run_id, priced, recon, price_recommendations>>
      BY <1>11 DEF SaveReconcile, sapVars, warehouse, memory
    <2>3. Prices(priced[p]) \subseteq Item
      BY <1>0 DEF Prices
    <2>4. pc[p] = "saveReconcile" /\ pc'[p] = "history"
      BY <1>0, <1>11 DEF SaveReconcile
    <2>5. VerdictsKnown(p)' /\ RecordsKnown(p)' /\ RowsKnown(p)'
      BY <2>1, <2>2, <2>3, <2>4
    <2>6. ComparisonKnown(p)'
      BY <2>1, <2>2, <2>4 DEF AcceptedUnderAnyRun, AcceptedBySap
    <2> QED BY <2>5, <2>6
  <1>12. CASE RecordHistory(p)
    <2>1. UNCHANGED <<submission_log, run_id, priced, recon, price_recommendations, pipeline_records>>
      BY <1>12 DEF RecordHistory, sapVars, postgres, memory
    <2>2. pc[p] = "history" /\ pc'[p] = "finish"
      BY <1>0, <1>12 DEF RecordHistory
    <2> QED BY <2>1, <2>2 DEF AcceptedUnderAnyRun, AcceptedBySap
  <1> QED BY <1>1, <1>2, <1>3, <1>4, <1>5, <1>6, <1>7, <1>8, <1>9, <1>10, <1>11, <1>12 DEF Step

\* A failed POST leaves the execution what it knows; a failed execution knows nothing.
LEMMA FailureKnows ==
    ASSUME TypeInv, NEW p \in Proc, Knows(p), submission_log \subseteq submission_log', Failure(p)
    PROVE  Knows(p)'
  <1>1. CASE PostFailed(p) \/ PostRefused(p)
    BY <1>1 DEF PostFailed, PostRefused, At, warehouse, postgres, Knows, RowsKnown, RecordsKnown,
       ComparisonKnown, VerdictsKnown, RowsWritten, RecordsWritten, Compared, Prices
  <1>2. CASE Raise(p) \/ Crash(p)
    <2>1. pc'[p] = "idle"
      BY <1>2 DEF Raise, Crash, Exit, Goto, TypeInv, TypeOK, ProcessTypeOK
    <2> QED BY <2>1 DEF Knows, RowsKnown, RecordsKnown, ComparisonKnown, VerdictsKnown,
               RowsWritten, RecordsWritten, Compared
  <1> QED BY <1>1, <1>2 DEF Failure

\* The executions keep knowing their own runs, because no run has two of them.
LEMMA NextKeepsKnowledge ==
    ASSUME TypeInv, SapInv, OneExecution, ExecutionsKnow, [Next]_vars
    PROVE  ExecutionsKnow'
  <1>0. submission_log \subseteq submission_log'
    BY PipelineStepsOfSap, LogGrows
  <1> SUFFICES ASSUME NEW q \in Proc
               PROVE  Knows(q)'
    BY DEF ExecutionsKnow
  <1>k. Knows(q)
    BY DEF ExecutionsKnow
  <1>r. pc[q] # "idle" => run_id[q] \in Run
    BY DEF TypeInv, RunsKnown
  <1>1. ASSUME NEW p \in Proc, NEW r \in Run, Start(p, r)
        PROVE  Knows(q)'
    <2>1. CASE p = q
      <3>1. pc'[q] = "fetch"
        BY <1>1, <2>1 DEF Start, Goto, TypeInv, TypeOK, ProcessTypeOK
      <3> QED BY <3>1 DEF Knows, RowsKnown, RecordsKnown, ComparisonKnown, VerdictsKnown,
                 RowsWritten, RecordsWritten, Compared
    <2>2. CASE p # q
      BY <1>0, <1>1, <1>k, <2>2, KnowsKept DEF Start, warehouse, SameProcess, SameRows, SameRecords,
         Goto, TypeInv, TypeOK, ProcessTypeOK
    <2> QED BY <2>1, <2>2
  <1>2. ASSUME NEW p \in Proc, Step(p)
        PROVE  Knows(q)'
    <2>1. CASE p = q
      BY <1>0, <1>2, <1>k, <2>1, StepKnows
    <2>2. CASE p # q
      <3>1. pc[p] # "idle"
        BY <1>2, StepIsExecuting
      <3>2. SameProcess(q) /\ (pc[q] # "idle" => SameRun(run_id[q]))
        BY <1>2, <1>r, <2>2, <3>1, StepIsAlone DEF OneExecution
      <3> QED BY <1>0, <1>k, <3>2, KnowsKept DEF SameRun
    <2> QED BY <2>1, <2>2
  <1>3. ASSUME NEW p \in Proc, Failure(p)
        PROVE  Knows(q)'
    <2>1. CASE p = q
      BY <1>0, <1>3, <1>k, <2>1, FailureKnows
    <2>2. CASE p # q
      <3>1. pc[p] # "idle"
        BY <1>3, StepIsExecuting
      <3>2. SameProcess(q) /\ (pc[q] # "idle" => SameRun(run_id[q]))
        BY <1>3, <1>r, <2>2, <3>1, FailureIsAlone DEF OneExecution
      <3> QED BY <1>0, <1>k, <3>2, KnowsKept DEF SameRun
    <2> QED BY <2>1, <2>2
  <1>4. ASSUME UNCHANGED <<warehouse, postgres, pc, memory>>
        PROVE  Knows(q)'
    BY <1>0, <1>4, <1>k, KnowsKept DEF warehouse, postgres, memory, SameProcess, SameRows, SameRecords
  <1>5. ASSUME NEW m \in inflight, LateArrival(m)
        PROVE  Knows(q)'
    BY <1>4, <1>5 DEF LateArrival
  <1>6. CASE OutsideEdit
    BY <1>4, <1>6 DEF OutsideEdit
  <1>7. CASE UNCHANGED vars
    BY <1>4, <1>7 DEF vars
  <1> QED BY <1>1, <1>2, <1>3, <1>5, <1>6, <1>7 DEF Next

------------------------------------------------------------------------------

\* What SUCCEEDED says of one run.
Delivered(r) == \A i \in Item : LET rec == price_recommendations[r][i] IN
    rec.price # NoPrice =>
        /\ AcceptedUnderAnyRun(i, rec.price)
        /\ pipeline_records[r][i].price = rec.price
        /\ pipeline_records[r][i].send_status = "ACCEPTED"
        /\ pipeline_records[r][i].reconcile_status = "CONFIRMED"

\* As many confirmed as priced means each of them: the confirmed are among the priced.
LEMMA SuccessMeansAllConfirmed ==
    ASSUME TypeInv, NEW p \in Proc, Knows(p), At(p, "finish"), FinalStatus(p) = "SUCCEEDED"
    PROVE  Confirmed(p) = Prices(priced[p])
  <1>1. Confirmed(p) \subseteq Prices(priced[p])
    BY DEF Knows, ComparisonKnown, Compared, At, Confirmed, Null
  <1>2. Prices(priced[p]) \subseteq Item
    BY DEF Prices, TypeInv, TypeOK, ProcessTypeOK
  <1>3. IsFiniteSet(Prices(priced[p]))
    BY <1>2, OfferAssumption, FS_Subset
  <1>4. Cardinality(Confirmed(p)) = Cardinality(Prices(priced[p]))
    BY DEF FinalStatus
  <1> QED BY <1>1, <1>3, <1>4, FS_Subset

\* An execution that ends SUCCEEDED has delivered.
LEMMA FinishDelivers ==
    ASSUME TypeInv, NEW p \in Proc, Knows(p), At(p, "finish"), FinalStatus(p) = "SUCCEEDED"
    PROVE  Delivered(run_id[p])
  <1> SUFFICES ASSUME NEW i \in Item, price_recommendations[run_id[p]][i].price # NoPrice
               PROVE  /\ AcceptedUnderAnyRun(i, price_recommendations[run_id[p]][i].price)
                      /\ pipeline_records[run_id[p]][i].price = price_recommendations[run_id[p]][i].price
                      /\ pipeline_records[run_id[p]][i].send_status = "ACCEPTED"
                      /\ pipeline_records[run_id[p]][i].reconcile_status = "CONFIRMED"
    BY DEF Delivered
  <1>1. price_recommendations[run_id[p]][i].price = priced[p][i]
    BY DEF Knows, RowsKnown, RowsWritten, At
  <1>2. i \in Prices(priced[p])
    BY <1>1 DEF Prices, TypeInv, TypeOK, ProcessTypeOK
  <1>3. recon[p][i] = "CONFIRMED"
    BY <1>2, SuccessMeansAllConfirmed DEF Confirmed
  <1>4. pipeline_records[run_id[p]][i].price = priced[p][i]
    BY <1>2 DEF Knows, RecordsKnown, RecordsWritten, At
  <1>5. /\ pipeline_records[run_id[p]][i].send_status = "ACCEPTED"
        /\ AcceptedUnderAnyRun(i, priced[p][i])
    BY <1>3 DEF Knows, ComparisonKnown, Compared, At, Null
  <1>6. pipeline_records[run_id[p]][i].reconcile_status = "CONFIRMED"
    BY <1>3 DEF Knows, VerdictsKnown, At, Null
  <1> QED BY <1>1, <1>4, <1>5, <1>6

\* A run left alone stays delivered.
LEMMA DeliveredKept ==
    ASSUME submission_log \subseteq submission_log', NEW r, Delivered(r), SameRows(r), SameRecords(r)
    PROVE  Delivered(r)'
  BY TakenStays DEF Delivered, SameRows, SameRecords

\* A claim of run r is true, and final.
ClaimHolds(r) == pipeline_runs[r].status = "SUCCEEDED" =>
    Delivered(r) /\ \A p \in Proc : ~ Executes(p, r)
ClaimsHold == \A r \in Run : ClaimHolds(r)

\* Another run's step leaves a claim true.
LEMMA ClaimKept ==
    ASSUME submission_log \subseteq submission_log', NEW r \in Run, ClaimHolds(r), SameRun(r),
           \A q \in Proc : Executes(q, r)' => Executes(q, r)
    PROVE  ClaimHolds(r)'
  BY DeliveredKept DEF ClaimHolds, SameRun, SameStatus

\* A run claims success when its one execution ends having delivered, and in no other way.
LEMMA NextKeepsClaims ==
    ASSUME TypeInv, SapInv, OneExecution, ExecutionsKnow, ClaimsHold, [Next]_vars
    PROVE  ClaimsHold'
  <1>0. submission_log \subseteq submission_log'
    BY PipelineStepsOfSap, LogGrows
  <1> SUFFICES ASSUME NEW r \in Run
               PROVE  ClaimHolds(r)'
    BY DEF ClaimsHold
  <1>c. ClaimHolds(r)
    BY DEF ClaimsHold
  <1>t. pipeline_runs \in [Run -> [status : RunStatus, attempt : 0 .. MaxAttempts]]
    BY DEF TypeInv, TypeOK, PostgresTypeOK
  <1>1. ASSUME NEW p \in Proc, NEW r0 \in Run, Start(p, r0)
        PROVE  ClaimHolds(r)'
    <2>1. CASE r = r0
      <3>1. pipeline_runs'[r].status = "RUNNING"
        BY <1>1, <1>t, <2>1 DEF Start
      <3> QED BY <3>1 DEF ClaimHolds
    <2>2. CASE r # r0
      <3>1. SameRun(r)
        BY <1>1, <1>t, <2>2 DEF Start, warehouse, SameRun, SameRows, SameRecords, SameStatus
      <3>2. \A q \in Proc : Executes(q, r)' => Executes(q, r)
        BY <1>1, <2>2 DEF Start, Goto, Executes, TypeInv, TypeOK, ProcessTypeOK
      <3> QED BY <1>0, <1>c, <3>1, <3>2, ClaimKept
    <2> QED BY <2>1, <2>2
  <1>2. ASSUME NEW p \in Proc, Step(p) \/ Failure(p)
        PROVE  ClaimHolds(r)'
    <2>1. \A q \in Proc \ {p} : SameProcess(q)
      BY <1>2, StepIsAlone, FailureIsAlone
    <2>2. \A q \in Proc : Executes(q, r)' => Executes(q, r)
      BY <1>2, <2>1, StepStaysInRun DEF SameProcess, Executes
    <2>3. CASE run_id[p] # r
      <3>1. SameRun(r)
        BY <1>2, <2>3, StepIsAlone, FailureIsAlone
      <3> QED BY <1>0, <1>c, <2>2, <3>1, ClaimKept
    <2>4. CASE run_id[p] = r
      <3>1. pc[p] # "idle"
        BY <1>2, StepIsExecuting
      <3>2. Executes(p, r) /\ pipeline_runs[r].status # "SUCCEEDED"
        BY <1>c, <2>4, <3>1 DEF Executes, ClaimHolds
      <3>3. CASE Finish(p)
        <4>1. pipeline_runs'[r].status = FinalStatus(p)
          BY <1>t, <2>4, <3>3 DEF Finish, SetStatus
        <4>2. FinalStatus(p) = "SUCCEEDED" => Delivered(r)
          BY <2>4, <3>3, FinishDelivers DEF Finish, ExecutionsKnow
        <4>3. SameRows(r) /\ SameRecords(r)
          BY <3>3 DEF Finish, warehouse, SameRows, SameRecords
        <4>4. \A q \in Proc : ~ Executes(q, r)'
          <5>1. ~ Executes(p, r)'
            BY <3>3 DEF Finish, Exit, Goto, Executes, TypeInv, TypeOK, ProcessTypeOK
          <5> QED BY <2>2, <3>2, <5>1 DEF OneExecution, Executes
        <4> QED BY <1>0, <4>1, <4>2, <4>3, <4>4, DeliveredKept DEF ClaimHolds
      <3>4. CASE ~ Finish(p)
        <4>1. pipeline_runs'[r].status # "SUCCEEDED"
          <5>1. CASE FinishBlocked(p)
            BY <1>t, <2>4, <5>1 DEF FinishBlocked, SetStatus
          <5>2. CASE Raise(p)
            BY <1>t, <2>4, <5>2 DEF Raise, SetStatus
          <5>3. CASE ~ (FinishBlocked(p) \/ Raise(p))
            <6>1. UNCHANGED pipeline_runs
              BY <1>2, <3>4, <5>3 DEF Step, Failure, postgres, Fetch, Ingest, PriceWeek, SaveRecommendations,
                 Validate, InitRecords, PlanSend, PostAnswered, SendDone, SaveSendResults,
                 RecordSendResults, GetConditions, SaveReconcile, RecordHistory, PostFailed, PostRefused, Crash
            <6> QED BY <3>2, <6>1
          <5> QED BY <5>1, <5>2, <5>3
        <4> QED BY <4>1 DEF ClaimHolds
      <3> QED BY <3>3, <3>4
    <2> QED BY <2>3, <2>4
  <1>3. ASSUME UNCHANGED <<warehouse, postgres, pc, memory>>
        PROVE  ClaimHolds(r)'
    BY <1>0, <1>3, <1>c, ClaimKept DEF warehouse, postgres, memory, SameRun, SameRows, SameRecords,
       SameStatus, Executes
  <1>4. ASSUME NEW m \in inflight, LateArrival(m)
        PROVE  ClaimHolds(r)'
    BY <1>3, <1>4 DEF LateArrival
  <1>5. CASE OutsideEdit
    BY <1>3, <1>5 DEF OutsideEdit
  <1>6. CASE UNCHANGED vars
    BY <1>3, <1>6 DEF vars
  <1> QED BY <1>1, <1>2, <1>4, <1>5, <1>6 DEF Next

\* What holds of the executions and the claims at any moment.
DeliveryInv == PipelineInv /\ OneExecution /\ ExecutionsKnow /\ ClaimsHold

\* It holds at the start ...
LEMMA InitDeliveryInv == Init => DeliveryInv
  <1> SUFFICES ASSUME Init
               PROVE  DeliveryInv
    OBVIOUS
  <1>1. OneExecution /\ ClaimsHold
    BY DEF Init, OneExecution, ClaimsHold, ClaimHolds
  <1>2. ExecutionsKnow
    BY DEF Init, ExecutionsKnow, Knows, RowsKnown, RecordsKnown, ComparisonKnown, VerdictsKnown,
       RowsWritten, RecordsWritten, Compared
  <1> QED BY <1>1, <1>2, InitPipelineInv DEF DeliveryInv

\* ... and after every step, when no run id is started while it is executing.
LEMMA NextKeepsDeliveryInv ==
    ASSUME Exclusive, DeliveryInv, [Next]_vars
    PROVE  DeliveryInv'
  <1>1. PipelineInv'
    BY NextKeepsPipelineInv DEF DeliveryInv
  <1>2. OneExecution'
    BY NextKeepsOneExecution DEF DeliveryInv, PipelineInv
  <1>3. ExecutionsKnow'
    BY NextKeepsKnowledge DEF DeliveryInv, PipelineInv
  <1>4. ClaimsHold'
    BY NextKeepsClaims DEF DeliveryInv, PipelineInv
  <1> QED BY <1>1, <1>2, <1>3, <1>4 DEF DeliveryInv

\* SUCCEEDED means delivered: whatever was lost, retried, rerun, killed or edited in SAP,
\* if no run id is executed twice at once, each price recommended for a run that claims
\* success was accepted by SAP as it stands, and recorded as accepted and confirmed.
THEOREM PipelineSucceededIsDelivered ==
    ASSUME Exclusive
    PROVE  Spec => []SucceededIsDelivered
  <1>1. DeliveryInv => SucceededIsDelivered
    BY DEF DeliveryInv, ClaimsHold, ClaimHolds, Delivered, SucceededIsDelivered
  <1>2. DeliveryInv /\ [Next]_vars => DeliveryInv'
    BY NextKeepsDeliveryInv
  <1> QED BY <1>1, <1>2, InitDeliveryInv, PTL DEF Spec

------------------------------------------------------------------------------
(* The promise of module PriceDelivery                                       *)

\* The parts of a state that PriceDelivery sees.
HeldSame == UNCHANGED <<submission_log, price_conditions>>
WantedSame == \A r \in Run, i \in Item :
    price_recommendations'[r][i].price = price_recommendations[r][i].price
ReportsSame == \A r \in Run : AcceptedKeys(r)' = AcceptedKeys(r)
ClaimsSame == \A r \in Run :
    pipeline_runs'[r].status = "SUCCEEDED" <=> pipeline_runs[r].status = "SUCCEEDED"

\* Nothing it sees has changed.
LEMMA DeliveryStutters ==
    ASSUME HeldSame, WantedSame, ReportsSame, ClaimsSame
    PROVE  UNCHANGED Delivery!vars
  BY DEF HeldSame, WantedSame, ReportsSame, ClaimsSame, Delivery!vars

\* The rows of a run that claims nothing change.
LEMMA DeliveryRecommends ==
    ASSUME TypeInv, TypeOK', NEW r \in Run, pipeline_runs[r].status # "SUCCEEDED",
           \A q \in Run \ {r} : SameRows(q), HeldSame, ReportsSame, ClaimsSame
    PROVE  Delivery!Recommend(r)
  <1> DEFINE f == [i \in Item |-> price_recommendations'[r][i].price]
  <1>1. f \in [Item -> Price \cup {NoPrice}]
    BY DEF TypeOK, WarehouseTypeOK, Recommendation
  <1>2. [q \in Run |-> [i \in Item |-> price_recommendations[q][i].price]]'
        = [[q \in Run |-> [i \in Item |-> price_recommendations[q][i].price]] EXCEPT ![r] = f]
    BY DEF SameRows
  <1> HIDE DEF f
  <1> QED BY <1>1, <1>2 DEF Delivery!Recommend, HeldSame, ReportsSame, ClaimsSame

\* The prices that a log says SAP took.
Taken(log) == {[run |-> s.run, item |-> s.item, price |-> s.price] : s \in {t \in log : t.code = "OK"}}

\* What SAP accepted is among them.
LEMMA AcceptedIsTaken ==
    ASSUME NEW log, NEW r, NEW i, NEW price,
           [run |-> r, item |-> i, price |-> price, code |-> "OK"] \in log
    PROVE  [run |-> r, item |-> i, price |-> price] \in Taken(log)
  <1> DEFINE s == [run |-> r, item |-> i, price |-> price, code |-> "OK"]
  <1>1. s \in {t \in log : t.code = "OK"}
    OBVIOUS
  <1> QED BY <1>1 DEF Taken

\* The send status of a run that claims nothing changes, to ACCEPTED only for what SAP took.
LEMMA DeliveryReports ==
    ASSUME AcceptedIsReal', NEW r \in Run, pipeline_runs[r].status # "SUCCEEDED",
           \A q \in Run \ {r} : SameRecords(q), HeldSame, WantedSame, ClaimsSame
    PROVE  Delivery!Report(r)
  <1> DEFINE now == {i \in Item : pipeline_records'[r][i].send_status = "ACCEPTED"}
  <1>1. \A i \in now : \E d \in Taken(submission_log) : d.run = r /\ d.item = i
    <2> SUFFICES ASSUME NEW i \in now
                 PROVE  \E d \in Taken(submission_log) : d.run = r /\ d.item = i
      OBVIOUS
    <2>1. PICK price \in Price : [run |-> r, item |-> i, price |-> price, code |-> "OK"] \in submission_log'
      BY DEF AcceptedIsReal, AcceptedBySap
    <2>2. [run |-> r, item |-> i, price |-> price] \in Taken(submission_log)
      BY <2>1, AcceptedIsTaken DEF HeldSame
    <2> QED BY <2>2
  <1>2. now \in SUBSET {i \in Item : \E d \in Taken(submission_log) : d.run = r /\ d.item = i}
    BY <1>1
  <1>3. [q \in Run |-> AcceptedKeys(q)]' = [[q \in Run |-> AcceptedKeys(q)] EXCEPT ![r] = now]
    BY DEF AcceptedKeys, SameRecords
  <1>4. \E n \in SUBSET {i \in Item : \E d \in Taken(submission_log) : d.run = r /\ d.item = i} :
           [q \in Run |-> AcceptedKeys(q)]' = [[q \in Run |-> AcceptedKeys(q)] EXCEPT ![r] = n]
    BY <1>2, <1>3
  <1>5. UNCHANGED Taken(submission_log) /\ UNCHANGED price_conditions
    BY DEF HeldSame
  <1>6. UNCHANGED [q \in Run |-> [i \in Item |-> price_recommendations[q][i].price]]
    BY DEF WantedSame
  <1>7. UNCHANGED {q \in Run : pipeline_runs[q].status = "SUCCEEDED"}
    BY DEF ClaimsSame
  <1> HIDE DEF now
  <1> QED BY <1>4, <1>5, <1>6, <1>7 DEF Delivery!Report, Taken

\* A POST, in time or late, brings SAP prices for items it holds no price for.
LEMMA DeliveryTakes ==
    ASSUME NEW r \in Run, NEW b \in Batch, post_prices(r, b), WantedSame, ReportsSame, ClaimsSame
    PROVE  Delivery!Take(r)
  <1> DEFINE ok == {i \in DOMAIN b : Outcome(r, i, b[i]) = "OK"}
             new == {[run |-> r, item |-> i, price |-> b[i]] : i \in ok}
  <1>1. new \in SUBSET {d \in Delivery!Delivery : d.run = r}
    BY OutcomeCodes, BatchType DEF Delivery!Delivery
  <1>2. \A d \in new : \A h \in price_conditions \cup (new \ {d}) : h.item # d.item
    BY OutcomeCodes DEF Overlaps
  <1>3. price_conditions' = price_conditions \cup new
    BY DEF post_prices, Answer
  <1>4. Taken(submission_log') = Taken(submission_log) \cup new
    <2>1. submission_log' = submission_log \cup
             {[run |-> r, item |-> i, price |-> b[i], code |-> Outcome(r, i, b[i])] : i \in DOMAIN b}
      BY DEF post_prices, Answer
    <2>2. ASSUME NEW d \in Taken(submission_log')
          PROVE  d \in Taken(submission_log) \cup new
      <3>1. PICK s \in submission_log' : s.code = "OK" /\ d = [run |-> s.run, item |-> s.item, price |-> s.price]
        BY DEF Taken
      <3>2. CASE s \in submission_log
        BY <3>1, <3>2 DEF Taken
      <3>3. CASE s \notin submission_log
        <4>1. PICK i \in DOMAIN b : s = [run |-> r, item |-> i, price |-> b[i], code |-> Outcome(r, i, b[i])]
          BY <2>1, <3>3
        <4> QED BY <3>1, <4>1
      <3> QED BY <3>2, <3>3
    <2>3. Taken(submission_log) \subseteq Taken(submission_log')
      BY <2>1 DEF Taken
    <2>4. ASSUME NEW i \in ok
          PROVE  [run |-> r, item |-> i, price |-> b[i]] \in Taken(submission_log')
      BY <2>1, AcceptedIsTaken
    <2> QED BY <2>2, <2>3, <2>4
  <1>5. \E n \in SUBSET {d \in Delivery!Delivery : d.run = r} :
          /\ \A d \in n : \A h \in price_conditions \cup (n \ {d}) : h.item # d.item
          /\ Taken(submission_log') = Taken(submission_log) \cup n
          /\ price_conditions' = price_conditions \cup n
    BY <1>1, <1>2, <1>3, <1>4
  <1> QED BY <1>5 DEF Delivery!Take, Taken, WantedSame, ReportsSame, ClaimsSame

\* A run that has delivered ends SUCCEEDED.
LEMMA DeliveryClaims ==
    ASSUME TypeInv, NEW r \in Run, Delivered(r), pipeline_runs'[r].status = "SUCCEEDED",
           \A q \in Run \ {r} : SameStatus(q), HeldSame, WantedSame, ReportsSame
    PROVE  Delivery!Claim(r)
  <1>1. ASSUME NEW i \in Item, price_recommendations[r][i].price # NoPrice
        PROVE  /\ i \in AcceptedKeys(r)
               /\ \E d \in Taken(submission_log) : d.item = i /\ d.price = price_recommendations[r][i].price
    <2>1. i \in AcceptedKeys(r) /\ AcceptedUnderAnyRun(i, price_recommendations[r][i].price)
      BY <1>1 DEF Delivered, AcceptedKeys
    <2>2. PICK q \in Run : AcceptedBySap(q, i, price_recommendations[r][i].price)
      BY <2>1 DEF AcceptedUnderAnyRun
    <2>3. [run |-> q, item |-> i, price |-> price_recommendations[r][i].price] \in Taken(submission_log)
      BY <2>2, AcceptedIsTaken DEF AcceptedBySap
    <2> QED BY <2>1, <2>3
  <1>2. {q \in Run : pipeline_runs[q].status = "SUCCEEDED"}'
        = {q \in Run : pipeline_runs[q].status = "SUCCEEDED"} \cup {r}
    BY DEF SameStatus
  <1>3. UNCHANGED <<Taken(submission_log), price_conditions>>
    BY DEF HeldSame
  <1>4. UNCHANGED [q \in Run |-> [i \in Item |-> price_recommendations[q][i].price]]
    BY DEF WantedSame
  <1>5. UNCHANGED [q \in Run |-> AcceptedKeys(q)]
    BY DEF ReportsSame
  <1> QED BY <1>1, <1>2, <1>3, <1>4, <1>5 DEF Delivery!Claim, Taken

\* A run starts.
LEMMA DeliveryReopens ==
    ASSUME NEW r \in Run, pipeline_runs'[r].status # "SUCCEEDED",
           \A q \in Run \ {r} : SameStatus(q), HeldSame, WantedSame, ReportsSame
    PROVE  Delivery!Reopen(r)
  <1>1. {q \in Run : pipeline_runs[q].status = "SUCCEEDED"}'
        = {q \in Run : pipeline_runs[q].status = "SUCCEEDED"} \ {r}
    BY DEF SameStatus
  <1> QED BY <1>1 DEF Delivery!Reopen, HeldSame, WantedSame, ReportsSame

\* What the executions leave alone, PriceDelivery sees unchanged.
LEMMA StoresSame ==
    /\ UNCHANGED price_recommendations => WantedSame
    /\ UNCHANGED pipeline_records => ReportsSame
    /\ UNCHANGED pipeline_runs => ClaimsSame
    /\ UNCHANGED sapVars => HeldSame
  BY DEF WantedSame, ReportsSame, ClaimsSame, HeldSame, sapVars, AcceptedKeys

\* A status that is not a claim, for a run that made none.
LEMMA StatusIsNoClaim ==
    ASSUME TypeInv, NEW r0 \in Run, NEW status, SetStatus(r0, status), status # "SUCCEEDED",
           pipeline_runs[r0].status # "SUCCEEDED"
    PROVE  ClaimsSame
  BY DEF SetStatus, ClaimsSame, TypeInv, TypeOK, PostgresTypeOK

\* A step of an execution keeps the promise.
LEMMA StepKeepsPromise ==
    ASSUME DeliveryInv, DeliveryInv', NEW p \in Proc, Step(p)
    PROVE  [Delivery!Next]_(Delivery!vars)
  <1>r. PICK r \in Run : r = run_id[p]
    <2>1. pc[p] # "idle"
      BY StepIsExecuting
    <2> QED BY <2>1 DEF DeliveryInv, PipelineInv, TypeInv, RunsKnown
  <1>0. /\ pc[p] # "idle" /\ TypeInv /\ TypeOK' /\ AcceptedIsReal'
        /\ pipeline_runs[r].status # "SUCCEEDED"
        /\ \A q \in Run \ {r} : SameRun(q)
    <2>1. pc[p] # "idle"
      BY StepIsExecuting
    <2>2. TypeInv /\ TypeOK' /\ AcceptedIsReal'
      BY DEF DeliveryInv, PipelineInv, TypeInv
    <2> QED BY <1>r, <2>1, <2>2, StepIsAlone DEF DeliveryInv, ClaimsHold, ClaimHolds, Executes
  <1>t. /\ price_recommendations \in [Run -> [Item -> Recommendation]]
        /\ pipeline_records \in [Run -> [Item -> Record]]
    BY <1>0 DEF TypeInv, TypeOK, WarehouseTypeOK, PostgresTypeOK
  <1>1. CASE Fetch(p) \/ Ingest(p) \/ PriceWeek(p) \/ Validate(p) \/ PlanSend(p) \/ SendDone(p)
             \/ GetConditions(p) \/ RecordHistory(p)
    <2>1. UNCHANGED <<sapVars, price_recommendations, pipeline_runs, pipeline_records>>
      BY <1>1 DEF Fetch, Ingest, PriceWeek, Validate, PlanSend, SendDone, GetConditions, RecordHistory,
         warehouse, postgres
    <2> QED BY <2>1, StoresSame, DeliveryStutters
  <1>2. CASE SaveRecommendations(p)
    <2>1. UNCHANGED <<sapVars, pipeline_runs, pipeline_records>>
      BY <1>2 DEF SaveRecommendations, postgres
    <2>2. Delivery!Recommend(r)
      BY <1>0, <2>1, StoresSame, DeliveryRecommends DEF SameRun
    <2> QED BY <1>0, <2>2 DEF Delivery!Next
  <1>3. CASE FinishBlocked(p)
    <2>1. ClaimsSame
      BY <1>0, <1>r, <1>3, StatusIsNoClaim DEF FinishBlocked
    <2>2. UNCHANGED <<sapVars, price_recommendations, pipeline_records>>
      BY <1>3 DEF FinishBlocked, warehouse
    <2> QED BY <2>1, <2>2, StoresSame, DeliveryStutters
  <1>4. CASE InitRecords(p) \/ SaveReconcile(p)
    <2>1. \A q \in Run, i \in Item :
             pipeline_records'[q][i].send_status = pipeline_records[q][i].send_status
      <3>1. CASE InitRecords(p)
        BY <1>t, <3>1 DEF InitRecords, Record
      <3>2. CASE SaveReconcile(p)
        BY <1>t, <3>2 DEF SaveReconcile, Record
      <3> QED BY <1>4, <3>1, <3>2
    <2>2. ReportsSame
      BY <2>1 DEF ReportsSame, AcceptedKeys
    <2>3. UNCHANGED <<sapVars, price_recommendations, pipeline_runs>>
      BY <1>4 DEF InitRecords, SaveReconcile, warehouse
    <2> QED BY <2>2, <2>3, StoresSame, DeliveryStutters
  <1>5. CASE PostAnswered(p)
    <2>1. Payload(p) \in Batch /\ post_prices(r, Payload(p))
      BY <1>0, <1>r, <1>5, PayloadType DEF PostAnswered, TypeInv, TypeOK
    <2>2. UNCHANGED <<price_recommendations, pipeline_runs, pipeline_records>>
      BY <1>5 DEF PostAnswered, warehouse, postgres
    <2>3. Delivery!Take(r)
      BY <1>0, <2>1, <2>2, StoresSame, DeliveryTakes
    <2> QED BY <1>0, <2>3 DEF Delivery!Next
  <1>6. CASE SaveSendResults(p)
    <2>1. UNCHANGED <<sapVars, price_recommendations, pipeline_runs>>
      BY <1>6 DEF SaveSendResults, warehouse
    <2>2. Delivery!Report(r)
      BY <1>0, <2>1, StoresSame, DeliveryReports DEF SameRun
    <2> QED BY <1>0, <2>2 DEF Delivery!Next
  <1>7. CASE RecordSendResults(p)
    <2>1. WantedSame
      BY <1>0, <1>7, <1>t DEF RecordSendResults, AnsweredRow, Recommendation, WantedSame
    <2>2. UNCHANGED <<sapVars, pipeline_runs, pipeline_records>>
      BY <1>7 DEF RecordSendResults, postgres
    <2> QED BY <2>1, <2>2, StoresSame, DeliveryStutters
  <1>8. CASE Finish(p)
    <2>1. UNCHANGED <<sapVars, price_recommendations, pipeline_records>>
      BY <1>8 DEF Finish, warehouse
    <2>2. CASE FinalStatus(p) = "SUCCEEDED"
      <3>1. Delivered(r)
        BY <1>0, <1>r, <1>8, <2>2, FinishDelivers DEF Finish, DeliveryInv, ExecutionsKnow
      <3>2. pipeline_runs'[r].status = "SUCCEEDED"
        BY <1>0, <1>r, <1>8, <2>2 DEF Finish, SetStatus, TypeInv, TypeOK, PostgresTypeOK
      <3>3. Delivery!Claim(r)
        BY <1>0, <2>1, <3>1, <3>2, StoresSame, DeliveryClaims DEF SameRun
      <3> QED BY <1>0, <3>3 DEF Delivery!Next
    <2>3. CASE FinalStatus(p) # "SUCCEEDED"
      <3>1. ClaimsSame
        BY <1>0, <1>r, <1>8, <2>3, StatusIsNoClaim DEF Finish
      <3> QED BY <2>1, <3>1, StoresSame, DeliveryStutters
    <2> QED BY <2>2, <2>3
  <1> QED BY <1>1, <1>2, <1>3, <1>4, <1>5, <1>6, <1>7, <1>8 DEF Step

\* A failure at most leaves some of the engine's rows unwritten.
LEMMA FailureKeepsPromise ==
    ASSUME DeliveryInv, DeliveryInv', NEW p \in Proc, Failure(p)
    PROVE  [Delivery!Next]_(Delivery!vars)
  <1>r. PICK r \in Run : r = run_id[p]
    <2>1. pc[p] # "idle"
      BY StepIsExecuting
    <2> QED BY <2>1 DEF DeliveryInv, PipelineInv, TypeInv, RunsKnown
  <1>0. /\ pc[p] # "idle" /\ TypeInv /\ TypeOK'
        /\ pipeline_runs[r].status # "SUCCEEDED"
        /\ \A q \in Run \ {r} : SameRun(q)
    <2>1. pc[p] # "idle"
      BY StepIsExecuting
    <2>2. TypeInv /\ TypeOK'
      BY DEF DeliveryInv, PipelineInv, TypeInv
    <2> QED BY <1>r, <2>1, <2>2, FailureIsAlone DEF DeliveryInv, ClaimsHold, ClaimHolds, Executes
  <1>1. UNCHANGED <<sapVars, pipeline_records>>
    BY DEF Failure, PostFailed, PostRefused, Raise, Crash, postgres
  <1>2. ClaimsSame
    <2>1. CASE Raise(p)
      BY <1>0, <1>r, <2>1, StatusIsNoClaim DEF Raise
    <2>2. CASE ~ Raise(p)
      BY <2>2, StoresSame DEF Failure, PostFailed, PostRefused, Crash, postgres
    <2> QED BY <2>1, <2>2
  <1>3. Delivery!Recommend(r)
    BY <1>0, <1>1, <1>2, StoresSame, DeliveryRecommends DEF SameRun
  <1> QED BY <1>0, <1>3 DEF Delivery!Next

\* Every step of the pipeline, of SAP and of its operators is a step of the promise.
LEMMA NextKeepsPromise ==
    ASSUME DeliveryInv, DeliveryInv', [Next]_vars
    PROVE  [Delivery!Next]_(Delivery!vars)
  <1>t. TypeInv
    BY DEF DeliveryInv, PipelineInv
  <1>1. ASSUME NEW p \in Proc, NEW r \in Run, Start(p, r)
        PROVE  [Delivery!Next]_(Delivery!vars)
    <2>1. UNCHANGED <<sapVars, price_recommendations, pipeline_records>>
      BY <1>1 DEF Start, warehouse
    <2>2. pipeline_runs'[r].status # "SUCCEEDED" /\ \A q \in Run \ {r} : SameStatus(q)
      BY <1>t, <1>1 DEF Start, SameStatus, TypeInv, TypeOK, PostgresTypeOK
    <2>3. Delivery!Reopen(r)
      BY <2>1, <2>2, StoresSame, DeliveryReopens
    <2> QED BY <2>3 DEF Delivery!Next
  <1>2. ASSUME NEW p \in Proc, Step(p)
        PROVE  [Delivery!Next]_(Delivery!vars)
    BY <1>2, StepKeepsPromise
  <1>3. ASSUME NEW p \in Proc, Failure(p)
        PROVE  [Delivery!Next]_(Delivery!vars)
    BY <1>3, FailureKeepsPromise
  <1>4. ASSUME NEW m \in inflight, LateArrival(m)
        PROVE  [Delivery!Next]_(Delivery!vars)
    <2>1. m.run \in Run /\ m.batch \in Batch
      BY <1>t, <1>4 DEF TypeInv, TypeOK, InFlight
    <2>2. post_prices(m.run, m.batch) /\ UNCHANGED <<price_recommendations, pipeline_runs, pipeline_records>>
      BY <1>4 DEF LateArrival, warehouse, postgres
    <2>3. Delivery!Take(m.run)
      BY <2>1, <2>2, StoresSame, DeliveryTakes
    <2> QED BY <2>1, <2>3 DEF Delivery!Next
  <1>5. CASE OutsideEdit
    <2>1. UNCHANGED <<price_recommendations, pipeline_runs, pipeline_records>>
      BY <1>5 DEF OutsideEdit, warehouse, postgres
    <2>2. UNCHANGED submission_log
      BY <1>5 DEF OutsideEdit, SapEdit, PublishList, SetPromotion, EndOldRecord, DeleteCondition
    <2>3. UNCHANGED price_conditions \/ \E c \in price_conditions : price_conditions' = price_conditions \ {c}
      BY <1>5 DEF OutsideEdit, SapEdit, PublishList, SetPromotion, EndOldRecord, DeleteCondition
    <2>4. CASE UNCHANGED price_conditions
      BY <2>1, <2>2, <2>4, StoresSame, DeliveryStutters DEF HeldSame
    <2>5. CASE \E c \in price_conditions : price_conditions' = price_conditions \ {c}
      <3>1. UNCHANGED <<Taken(submission_log), [q \in Run |-> [i \in Item |-> price_recommendations[q][i].price]],
                        [q \in Run |-> AcceptedKeys(q)], {q \in Run : pipeline_runs[q].status = "SUCCEEDED"}>>
        BY <2>1, <2>2, StoresSame DEF WantedSame, ReportsSame, ClaimsSame
      <3>2. Delivery!Remove
        BY <2>5, <3>1 DEF Delivery!Remove, Taken
      <3> QED BY <3>2 DEF Delivery!Next
    <2> QED BY <2>3, <2>4, <2>5
  <1>6. CASE UNCHANGED vars
    <2>1. UNCHANGED <<sapVars, price_recommendations, pipeline_runs, pipeline_records>>
      BY <1>6 DEF vars, warehouse, postgres
    <2> QED BY <2>1, StoresSame, DeliveryStutters
  <1> QED BY <1>1, <1>2, <1>3, <1>4, <1>5, <1>6 DEF Next

\* The pipeline, its crashes, retries and late requests and SAP's own changes included,
\* implements PriceDelivery if no run id is executed twice at once: success is claimed only
\* for what SAP took, and nothing is reported that SAP did not take.
THEOREM PipelineImplementsDelivery ==
    ASSUME Exclusive
    PROVE  Spec => ImplementsDelivery
  <1>1. Init => Delivery!Init
    BY DEF Init, SapInit, Delivery!Init, NoRecommendation, NoRecord, AcceptedKeys, Null
  <1>2. DeliveryInv /\ DeliveryInv' /\ [Next]_vars => [Delivery!Next]_(Delivery!vars)
    BY NextKeepsPromise
  <1>3. DeliveryInv /\ [Next]_vars => DeliveryInv'
    BY NextKeepsDeliveryInv
  <1> QED BY <1>1, <1>2, <1>3, InitDeliveryInv, PTL DEF Spec, ImplementsDelivery, Delivery!Spec

------------------------------------------------------------------------------
(* Two run ids of one week                                                   *)

\* As long as nobody edited SAP, it holds whatever it accepted.
NothingRemoved == edits = 0 => \A s \in submission_log : s.code = "OK" =>
    [run |-> s.run, item |-> s.item, price |-> s.price] \in price_conditions

\* A POST logs OK for exactly what it stores; anything else SAP does is an edit.
LEMMA NextKeepsHeld ==
    ASSUME TypeInv, NothingRemoved, [Next]_vars
    PROVE  NothingRemoved'
  <1> SUFFICES ASSUME edits' = 0, NEW s \in submission_log', s.code = "OK"
               PROVE  [run |-> s.run, item |-> s.item, price |-> s.price] \in price_conditions'
    BY DEF NothingRemoved
  <1>0. [SapNext]_sapVars
    BY PipelineStepsOfSap
  <1>1. ASSUME NEW r \in Run, NEW b \in Batch, post_prices(r, b)
        PROVE  [run |-> s.run, item |-> s.item, price |-> s.price] \in price_conditions'
    <2>1. price_conditions \subseteq price_conditions' /\ edits = 0
      BY <1>1 DEF post_prices
    <2>2. CASE s \in submission_log
      BY <2>1, <2>2 DEF NothingRemoved
    <2>3. CASE s \notin submission_log
      <3>1. PICK i \in DOMAIN b : s = [run |-> r, item |-> i, price |-> b[i], code |-> Outcome(r, i, b[i])]
        BY <1>1, <2>3, PostAdds
      <3>2. Outcome(r, i, b[i]) = "OK"
        BY <3>1
      <3>3. [run |-> r, item |-> i, price |-> b[i]] \in price_conditions'
        BY <1>1, <3>2 DEF post_prices, Answer
      <3> QED BY <3>1, <3>3
    <2> QED BY <2>2, <2>3
  <1>2. CASE SapEdit
    <2>1. edits' = edits + 1 /\ edits \in Nat
      BY <1>2, EditsAssumption DEF SapEdit, Edit, PublishList, SetPromotion, EndOldRecord, DeleteCondition,
         TypeInv, TypeOK, SapTypeOK
    <2> QED BY <2>1
  <1>3. CASE UNCHANGED sapVars
    BY <1>3 DEF sapVars, NothingRemoved
  <1> QED BY <1>0, <1>1, <1>2, <1>3 DEF SapNext

\* Two run ids never both claim to have delivered an item: each has its own accepted record,
\* SAP still holds both, and its validity periods do not overlap.
THEOREM PipelineOneRunDelivers ==
    ASSUME Exclusive
    PROVE  Spec => []OneRunDelivers
  <1>1. DeliveryInv /\ NothingRemoved => OneRunDelivers
    <2> SUFFICES ASSUME DeliveryInv, NothingRemoved, edits = 0, NEW r \in Run, NEW q \in Run, NEW i \in Item,
                        pipeline_runs[r].status = "SUCCEEDED", price_recommendations[r][i].price # NoPrice,
                        pipeline_runs[q].status = "SUCCEEDED", price_recommendations[q][i].price # NoPrice
                 PROVE  r = q
      BY DEF OneRunDelivers
    <2>1. ASSUME NEW x \in {r, q}
          PROVE  \E c \in price_conditions : c.run = x /\ c.item = i
      <3>1. x \in Run /\ pipeline_records[x][i].send_status = "ACCEPTED"
        BY <2>1 DEF DeliveryInv, ClaimsHold, ClaimHolds, Delivered
      <3>2. PICK price \in Price : AcceptedBySap(x, i, price)
        BY <3>1 DEF DeliveryInv, PipelineInv, AcceptedIsReal
      <3>3. [run |-> x, item |-> i, price |-> price] \in price_conditions
        BY <3>2 DEF NothingRemoved, AcceptedBySap
      <3> QED BY <3>3
    <2>2. NoOverlap
      BY DEF DeliveryInv, PipelineInv, SapInv
    <2> QED BY <2>1, <2>2 DEF NoOverlap
  <1>2. Init => NothingRemoved
    BY DEF Init, SapInit, NothingRemoved
  <1>3. DeliveryInv /\ NothingRemoved /\ [Next]_vars => NothingRemoved'
    BY NextKeepsHeld DEF DeliveryInv, PipelineInv
  <1>4. DeliveryInv /\ [Next]_vars => DeliveryInv'
    BY NextKeepsDeliveryInv
  <1> QED BY <1>1, <1>2, <1>3, <1>4, InitDeliveryInv, PTL DEF Spec

------------------------------------------------------------------------------
(* The price history                                                         *)

\* One execution at a time, of any run: the operators' habit, and what price_history needs.
OneProcess == \A p, q \in Proc : p = q

\* What was confirmed is what SAP showed, and what the history holds once it is written.
HistoryKnown(p) ==
    /\ pc[p] \in Compared => \A i \in Item : recon[p][i] = "CONFIRMED" =>
          i \in DOMAIN conditions[p] /\ conditions[p][i].effective_price = priced[p][i]
    /\ pc[p] = "finish" => \A i \in Item : recon[p][i] = "CONFIRMED" => price_history[i] = priced[p][i]

HistoryInv == \A p \in Proc : HistoryKnown(p)

\* The history is written from the answer that confirmed the prices, and nobody else writes it.
LEMMA NextKeepsHistory ==
    ASSUME OneProcess, TypeInv, HistoryInv, [Next]_vars
    PROVE  HistoryInv'
  <1> SUFFICES ASSUME NEW p \in Proc
               PROVE  HistoryKnown(p)'
    BY DEF HistoryInv
  <1>0. /\ pc \in [Proc -> ControlPoint] /\ recon \in [Proc -> [Item -> ReconcileStatus \cup {Null}]]
        /\ conditions \in [Proc -> HeldPrices] /\ HistoryKnown(p)
    BY DEF TypeInv, TypeOK, ProcessTypeOK, HistoryInv
  <1>1. ASSUME pc'[p] \notin Compared
        PROVE  HistoryKnown(p)'
    BY <1>1 DEF HistoryKnown, Compared
  <1>2. ASSUME NEW r \in Run, Start(p, r)
        PROVE  HistoryKnown(p)'
    BY <1>0, <1>1, <1>2 DEF Start, Goto, Compared
  <1>3. CASE GetConditions(p)
    <2>1. conditions'[p] = ConditionsAnswer /\ pc'[p] = "saveReconcile" /\ UNCHANGED priced
      BY <1>0, <1>3 DEF GetConditions, Goto
    <2>2. \A i \in Item : recon'[p][i] \in {Null, Reconcile(priced[p][i], ConditionsAnswer, i)}
      BY <1>0, <1>3 DEF GetConditions
    <2> QED BY <2>1, <2>2 DEF HistoryKnown, Reconcile, Null
  <1>4. CASE SaveReconcile(p)
    BY <1>0, <1>4 DEF SaveReconcile, memory, At, Goto, HistoryKnown, Compared
  <1>5. CASE RecordHistory(p)
    <2>1. pc[p] = "history" /\ pc'[p] = "finish" /\ UNCHANGED <<conditions, recon, priced>>
      BY <1>0, <1>5 DEF RecordHistory, At, Goto, memory
    <2>2. \A i \in Item : i \in DOMAIN conditions[p] => price_history'[i] = conditions[p][i].effective_price
      BY <1>5 DEF RecordHistory
    <2> QED BY <1>0, <2>1, <2>2 DEF HistoryKnown, Compared
  <1>6. CASE FinishBlocked(p) \/ Finish(p) \/ Raise(p) \/ Crash(p)
    <2>1. pc'[p] = "idle"
      BY <1>0, <1>6 DEF FinishBlocked, Finish, Raise, Crash, Exit, Goto
    <2> QED BY <1>1, <2>1 DEF Compared
  <1>7. CASE PostAnswered(p) \/ PostFailed(p) \/ PostRefused(p)
    BY <1>1, <1>7 DEF PostAnswered, PostFailed, PostRefused, At, Compared
  <1>8. CASE Fetch(p) \/ Ingest(p) \/ PriceWeek(p) \/ SaveRecommendations(p) \/ Validate(p) \/ InitRecords(p)
             \/ PlanSend(p) \/ SendDone(p) \/ SaveSendResults(p) \/ RecordSendResults(p)
    <2>1. pc'[p] \notin Compared
      BY <1>0, <1>8 DEF Fetch, Ingest, PriceWeek, SaveRecommendations, Validate, InitRecords, PlanSend,
         SendDone, SaveSendResults, RecordSendResults, Goto, Compared
    <2> QED BY <1>1, <2>1
  <1>9. UNCHANGED <<pc, memory, warehouse>> => HistoryKnown(p)'
    BY <1>0 DEF memory, warehouse, HistoryKnown
  <1> QED BY <1>2, <1>3, <1>4, <1>5, <1>6, <1>7, <1>8, <1>9 DEF OneProcess, Next, Step, Failure, LateArrival,
             OutsideEdit, vars

\* If runs are executed one at a time, a run that ends SUCCEEDED leaves its prices in the
\* price history, in the very step that claims success.
THEOREM PipelineSucceededIsInHistory ==
    ASSUME OneProcess
    PROVE  Spec => SucceededIsInHistory
  <1> DEFINE Inv == DeliveryInv /\ HistoryInv
  <1>1. Init => Inv
    <2>1. Init => HistoryInv
      BY DEF Init, HistoryInv, HistoryKnown, Compared
    <2> QED BY <2>1, InitDeliveryInv
  <1>2. Inv /\ [Next]_vars => Inv'
    <2> SUFFICES ASSUME DeliveryInv, HistoryInv, [Next]_vars
                 PROVE  Inv'
      OBVIOUS
    <2>1. PipelineInv' /\ HistoryInv'
      BY NextKeepsPipelineInv, NextKeepsHistory DEF DeliveryInv, PipelineInv
    <2>2. OneExecution'
      BY DEF OneProcess, OneExecution
    <2>3. ExecutionsKnow' /\ ClaimsHold'
      BY NextKeepsKnowledge, NextKeepsClaims DEF DeliveryInv, PipelineInv
    <2> QED BY <2>1, <2>2, <2>3 DEF DeliveryInv
  <1>3. ASSUME DeliveryInv, HistoryInv, [Next]_vars
        PROVE  [\A r \in Run :
                   pipeline_runs[r].status # "SUCCEEDED" /\ pipeline_runs'[r].status = "SUCCEEDED" =>
                       \A i \in Item : price_recommendations[r][i].price # NoPrice =>
                           price_history[i] = price_recommendations[r][i].price]_vars
    <2> SUFFICES ASSUME Next, NEW r \in Run,
                        pipeline_runs[r].status # "SUCCEEDED", pipeline_runs'[r].status = "SUCCEEDED",
                        NEW i \in Item, price_recommendations[r][i].price # NoPrice
                 PROVE  price_history[i] = price_recommendations[r][i].price
      BY <1>3
    <2>0. TypeInv /\ pipeline_runs \in [Run -> [status : RunStatus, attempt : 0 .. MaxAttempts]]
      BY <1>3 DEF DeliveryInv, PipelineInv, TypeInv, TypeOK, PostgresTypeOK
    <2>1. PICK p \in Proc : Finish(p)
      <3>1. ASSUME NEW p \in Proc, NEW r0 \in Run
            PROVE  ~ Start(p, r0)
        BY <2>0, <3>1 DEF Start
      <3>2. ASSUME NEW p \in Proc
            PROVE  ~ (FinishBlocked(p) \/ Raise(p))
        BY <2>0, <3>2 DEF FinishBlocked, Raise, SetStatus
      <3>3. ~ UNCHANGED pipeline_runs
        OBVIOUS
      <3> QED BY <3>1, <3>2, <3>3 DEF Next, Step, Failure, Fetch, Ingest, PriceWeek, SaveRecommendations,
                 Validate, InitRecords, PlanSend, PostAnswered, SendDone, SaveSendResults, RecordSendResults,
                 GetConditions, SaveReconcile, RecordHistory, PostFailed, PostRefused, Crash, LateArrival,
                 OutsideEdit, postgres
    <2>2. run_id[p] = r /\ FinalStatus(p) = "SUCCEEDED" /\ pc[p] = "finish"
      BY <2>0, <2>1 DEF Finish, SetStatus, At
    <2>3. price_recommendations[r][i].price = priced[p][i] /\ Knows(p)
      BY <1>3, <2>2 DEF DeliveryInv, ExecutionsKnow, Knows, RowsKnown, RowsWritten
    <2>4. i \in Prices(priced[p])
      BY <2>0, <2>3 DEF Prices, TypeInv, TypeOK, ProcessTypeOK
    <2>5. recon[p][i] = "CONFIRMED"
      BY <2>0, <2>2, <2>3, <2>4, SuccessMeansAllConfirmed DEF Confirmed, At
    <2> QED BY <1>3, <2>2, <2>3, <2>5 DEF HistoryInv, HistoryKnown
  <1> QED BY <1>1, <1>2, <1>3, PTL DEF Spec, SucceededIsInHistory

==============================================================================
