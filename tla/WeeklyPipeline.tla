--------------------------- MODULE WeeklyPipeline ---------------------------
(***************************************************************************)
(* The weekly run: ingest -> price -> validate -> send -> reconcile ->     *)
(* history (jobs/weekly_pipeline/pipeline.py) for one pricing week, with   *)
(* its run state in Postgres (state.py), its tables in the warehouse       *)
(* (engine.py, sap_ingest.py, history.py), the sender with its retries     *)
(* (sender.py) and the SAP service of module MockSap.                      *)
(*                                                                         *)
(* A process is one execution of run_pipeline.  Each of its steps is one   *)
(* Postgres transaction, one DuckDB connection or one HTTP exchange, and   *)
(* the process can die or an exception can end the run between any two.    *)
(* pipeline_steps is written and never read by the program: it is left out.*)
(***************************************************************************)
EXTENDS MockSap

CONSTANTS
    Proc,          \* executions of run_pipeline that may be alive at once
    Offer,         \* Offer[l][i]: the price the engine computes from list l, NoPrice if skipped
    GateBlocks,    \* <<l, m>>: the gate rejects the prices of list l under the rules of m
    NoList,        \* the warehouse before the week was ingested
    BatchSize,     \* records per POST
    MaxRetries,    \* retries of one batch
    MaxAttempts,   \* bound: executions started per run id
    MaxFaults,     \* bound: crashes, exceptions and failed requests
    Absent,        \* a row that is not in price_history
    Carried,       \* last week's price carried forward
    Order,         \* the order of the engine's rows, which is the order they are sent in
    Exclusive      \* operators never start a run id that is already being executed

ASSUME OfferAssumption ==
    /\ IsFiniteSet(Item)                  \* a week's list is a table
    /\ NoList \notin List
    /\ {Absent, Carried} \cap (Price \cup {NoPrice}) = {}
    /\ Offer \in [List -> [Item -> Price \cup {NoPrice}]]
    /\ \A l \in List : Listed[l] # {}      \* an empty list is a 404
    /\ \A l \in List, i \in Item : Offer[l][i] # NoPrice => i \in Listed[l]
    /\ GateBlocks \subseteq List \X List
    /\ Order \in [Item -> Nat]
    /\ \A i, j \in Item : Order[i] = Order[j] => i = j

ASSUME BoundAssumption ==
    /\ BatchSize \in Nat \ {0}
    /\ MaxRetries \in Nat
    /\ MaxAttempts \in Nat
    /\ MaxFaults \in Nat
    /\ Exclusive \in BOOLEAN

VARIABLES
    wh_list,                 \* warehouse: the ingested list and rules
    price_recommendations,   \* warehouse: engine rows per run, with SAP's answer
    price_history,           \* warehouse: the week's rows, Absent until written
    pipeline_runs,           \* Postgres: status and attempt per run id
    pipeline_records,        \* Postgres: send and reconcile status per run and item
    pc, run_id,              \* per process: control point and run id
    priced,                  \* per process: rows the engine priced
    source,                  \* per process: the list they were priced from
    todo,                    \* per process: items not yet posted
    tries,                   \* per process: attempts at the current batch
    results,                 \* per process: send results so far
    conditions,              \* per process: SAP's answer to GET /pricing/conditions
    recon,                   \* per process: result of the reconciliation
    inflight,                \* requests the client gave up on that SAP may still process
    faults                   \* crashes, exceptions and failed requests so far

warehouse == <<wh_list, price_recommendations, price_history>>
postgres == <<pipeline_runs, pipeline_records>>
memory == <<run_id, priced, source, todo, tries, results, conditions, recon>>
vars == <<sapVars, warehouse, postgres, pc, memory, inflight, faults>>

Null == "NULL"           \* a status column that was never set
NoRun == "NO_RUN"        \* an idle process executes no run

SendStatus == {"ACCEPTED", "REJECTED", "ERROR"}
ReconcileStatus == {"CONFIRMED", "NOT_EFFECTIVE", "PRICE_MISMATCH", "MISSING_IN_SAP"}
RunStatus == {"NONE", "RUNNING", "SUCCEEDED", "COMPLETED_WITH_ISSUES", "BLOCKED", "FAILED"}
Finished == RunStatus \ {"NONE", "RUNNING"}
ControlPoint == {"idle", "fetch", "ingest", "price", "save", "validate", "blocked", "init",
                 "accepted", "send", "saveSend", "recordSend", "getConditions",
                 "saveReconcile", "history", "finish"}

\* An engine row of a run; price is NoPrice when the row is SKIPPED or there is none.
Recommendation == [row : BOOLEAN, price : Price \cup {NoPrice}, sap_status : SendStatus \cup {Null}]
NoRecommendation == [row |-> FALSE, price |-> NoPrice, sap_status |-> Null]

Record == [price : Price \cup {NoPrice}, send_status : SendStatus \cup {Null},
           reconcile_status : ReconcileStatus \cup {Null}]
NoRecord == [price |-> NoPrice, send_status |-> Null, reconcile_status |-> Null]

Prices(f) == {i \in DOMAIN f : f[i] # NoPrice}
NoPrices == [i \in Item |-> NoPrice]
NoResults == [i \in Item |-> Null]
NoConditions == [i \in {} |-> NoPrice]

Init ==
    /\ SapInit
    /\ wh_list = NoList
    /\ price_recommendations = [r \in Run |-> [i \in Item |-> NoRecommendation]]
    /\ price_history = [i \in Item |-> Absent]
    /\ pipeline_runs = [r \in Run |-> [status |-> "NONE", attempt |-> 0]]
    /\ pipeline_records = [r \in Run |-> [i \in Item |-> NoRecord]]
    /\ pc = [p \in Proc |-> "idle"]
    /\ run_id = [p \in Proc |-> NoRun]
    /\ priced = [p \in Proc |-> NoPrices]
    /\ source = [p \in Proc |-> NoList]
    /\ todo = [p \in Proc |-> {}]
    /\ tries = [p \in Proc |-> 0]
    /\ results = [p \in Proc |-> NoResults]
    /\ conditions = [p \in Proc |-> NoConditions]
    /\ recon = [p \in Proc |-> NoResults]
    /\ inflight = {}
    /\ faults = 0

------------------------------------------------------------------------------

\* What the warehouse holds of list version l; NoList has no candidates.
Candidates(l) == IF l = NoList THEN {} ELSE Listed[l]
EnginePrices(l) == IF l = NoList THEN NoPrices ELSE Offer[l]

\* validate_rows: rows priced from list l, checked against the rules of list m.
Violations(l, m) == IF m = NoList THEN Prices(EnginePrices(l)) # {} ELSE <<l, m>> \in GateBlocks

\* run_id[p] is being executed by p.
At(p, point) == pc[p] = point
Goto(p, point) == pc' = [pc EXCEPT ![p] = point]
SetStatus(r, status) == pipeline_runs' = [pipeline_runs EXCEPT ![r].status = status]

\* The process is gone: its memory with it.
Exit(p) ==
    /\ Goto(p, "idle")
    /\ run_id' = [run_id EXCEPT ![p] = NoRun]
    /\ priced' = [priced EXCEPT ![p] = NoPrices]
    /\ source' = [source EXCEPT ![p] = NoList]
    /\ todo' = [todo EXCEPT ![p] = {}]
    /\ tries' = [tries EXCEPT ![p] = 0]
    /\ results' = [results EXCEPT ![p] = NoResults]
    /\ conditions' = [conditions EXCEPT ![p] = NoConditions]
    /\ recon' = [recon EXCEPT ![p] = NoResults]

\* RunState.__init__: a first start and a rerun of the same run id.
Start(p, r) ==
    /\ At(p, "idle")
    /\ pipeline_runs[r].attempt < MaxAttempts
    /\ Exclusive => \A q \in Proc : run_id[q] # r
    /\ pipeline_runs' = [pipeline_runs EXCEPT ![r] =
                            [status |-> "RUNNING", attempt |-> pipeline_runs[r].attempt + 1]]
    /\ run_id' = [run_id EXCEPT ![p] = r]
    /\ Goto(p, "fetch")
    /\ UNCHANGED <<sapVars, warehouse, pipeline_records, priced, source, todo, tries, results,
                   conditions, recon, inflight, faults>>

\* ingest: GET /clearance/candidates ...
Fetch(p) ==
    /\ At(p, "fetch")
    /\ source' = [source EXCEPT ![p] = sap_list]
    /\ Goto(p, "ingest")
    /\ UNCHANGED <<sapVars, warehouse, postgres, run_id, priced, todo, tries, results, conditions,
                   recon, inflight, faults>>

\* ... and replace the week's candidates and rules in the warehouse.
Ingest(p) ==
    /\ At(p, "ingest")
    /\ wh_list' = source[p]
    /\ Goto(p, "price")
    /\ UNCHANGED <<sapVars, price_recommendations, price_history, postgres, memory, inflight, faults>>

\* price_week: the engine prices what the warehouse holds now.
PriceWeek(p) ==
    /\ At(p, "price")
    /\ source' = [source EXCEPT ![p] = wh_list]
    /\ priced' = [priced EXCEPT ![p] = EnginePrices(wh_list)]
    /\ Goto(p, "save")
    /\ UNCHANGED <<sapVars, warehouse, postgres, run_id, todo, tries, results, conditions, recon,
                   inflight, faults>>

\* The row save_recommendations inserts for item i: its SAP columns are NULL.
EngineRow(p, i) == [row |-> i \in Candidates(source[p]), price |-> priced[p][i], sap_status |-> Null]

\* save_recommendations: delete the run's rows, insert the new ones.
SaveRecommendations(p) ==
    /\ At(p, "save")
    /\ price_recommendations' = [price_recommendations EXCEPT ![run_id[p]] = [i \in Item |-> EngineRow(p, i)]]
    /\ Goto(p, "validate")
    /\ UNCHANGED <<sapVars, wh_list, price_history, postgres, memory, inflight, faults>>

\* The gate reads the rules again and re-checks every row.
Validate(p) ==
    /\ At(p, "validate")
    /\ Goto(p, IF Violations(source[p], wh_list) THEN "blocked" ELSE "init")
    /\ UNCHANGED <<sapVars, warehouse, postgres, memory, inflight, faults>>

FinishBlocked(p) ==
    /\ At(p, "blocked")
    /\ SetStatus(run_id[p], "BLOCKED")
    /\ Exit(p)
    /\ UNCHANGED <<sapVars, warehouse, pipeline_records, inflight, faults>>

\* init_records: upsert that touches nothing but the recommended price.
InitRecords(p) ==
    /\ At(p, "init")
    /\ pipeline_records' = [pipeline_records EXCEPT ![run_id[p]] = [i \in Item |->
           IF priced[p][i] # NoPrice THEN [@[i] EXCEPT !.price = priced[p][i]] ELSE @[i]]]
    /\ Goto(p, "accepted")
    /\ UNCHANGED <<sapVars, warehouse, pipeline_runs, memory, inflight, faults>>

\* Items of a run recorded as accepted by SAP.
AcceptedKeys(r) == {i \in Item : pipeline_records[r][i].send_status = "ACCEPTED"}

\* Mutant of PlanSend: everything is sent again.
PlanSend_All(p) ==
    /\ At(p, "accepted")
    /\ todo' = [todo EXCEPT ![p] = Prices(priced[p])]
    /\ Goto(p, "send")
    /\ UNCHANGED <<sapVars, warehouse, postgres, run_id, priced, source, tries, results, conditions,
                   recon, inflight, faults>>

\* accepted_keys: only records SAP has not accepted yet will be sent.
PlanSend(p) ==
    /\ At(p, "accepted")
    /\ todo' = [todo EXCEPT ![p] = Prices(priced[p]) \ AcceptedKeys(run_id[p])]
    /\ Goto(p, "send")
    /\ UNCHANGED <<sapVars, warehouse, postgres, run_id, priced, source, tries, results, conditions,
                   recon, inflight, faults>>

------------------------------------------------------------------------------
(* sender.send                                                             *)

\* The next batch: the first BatchSize of the records still to send.
NextBatch(p) == {i \in todo[p] : Cardinality({j \in todo[p] : Order[j] < Order[i]}) < BatchSize}
Payload(p) == [i \in NextBatch(p) |-> priced[p][i]]

\* Mutant of StatusOf: an answered record is an accepted one.
StatusOf_AllAccepted(code) == "ACCEPTED"

StatusOf(code) == IF code \in AcceptCodes THEN "ACCEPTED" ELSE "REJECTED"

\* Mutant of Settle: rejected records go back on the list.
Settle_RequeuesRejected(p, res) ==
    /\ results' = [results EXCEPT ![p] = [i \in Item |-> IF i \in DOMAIN res THEN res[i] ELSE @[i]]]
    /\ todo' = [todo EXCEPT ![p] = @ \ {i \in DOMAIN res : res[i] # "REJECTED"}]
    /\ tries' = [tries EXCEPT ![p] = 0]

\* The current batch is settled with these per-record results; go on with the next one.
Settle(p, res) ==
    /\ results' = [results EXCEPT ![p] = [i \in Item |-> IF i \in DOMAIN res THEN res[i] ELSE @[i]]]
    /\ todo' = [todo EXCEPT ![p] = @ \ DOMAIN res]
    /\ tries' = [tries EXCEPT ![p] = 0]

\* A batch that still fails is an ERROR for each of its records.
SettleAsError(p) == Settle(p, [i \in NextBatch(p) |-> "ERROR"])

Fault == faults < MaxFaults /\ faults' = faults + 1

\* SAP answers 200 with one result per record.
PostAnswered(p) ==
    /\ At(p, "send") /\ todo[p] # {}
    /\ post_prices(run_id[p], Payload(p))
    /\ LET answer == Answer(run_id[p], Payload(p)) IN
          Settle(p, [i \in NextBatch(p) |-> StatusOf(answer[i])])
    /\ UNCHANGED <<warehouse, postgres, pc, run_id, priced, source, conditions, recon, inflight, faults>>

\* 429, 5xx or a transport error: retried, then given up.  After a transport error SAP
\* may have the request and may still process it: it is left in flight.
PostFailed(p) ==
    /\ At(p, "send") /\ todo[p] # {}
    /\ Fault
    /\ \/ inflight' = inflight
       \/ inflight' = inflight \cup {[run |-> run_id[p], batch |-> Payload(p)]}
    /\ \/ /\ tries[p] < MaxRetries
          /\ tries' = [tries EXCEPT ![p] = @ + 1]
          /\ UNCHANGED <<results, todo>>
       \/ /\ tries[p] >= MaxRetries
          /\ SettleAsError(p)
    /\ UNCHANGED <<sapVars, warehouse, postgres, pc, run_id, priced, source, conditions, recon>>

\* 400, 401, 403, 413, 422: no retry.
PostRefused(p) ==
    /\ At(p, "send") /\ todo[p] # {}
    /\ Fault
    /\ SettleAsError(p)
    /\ UNCHANGED <<sapVars, warehouse, postgres, pc, run_id, priced, source, conditions, recon, inflight>>

\* SAP processes a request whose client no longer waits for the answer.
LateArrival(m) ==
    /\ m \in inflight
    /\ inflight' = inflight \ {m}
    /\ post_prices(m.run, m.batch)
    /\ UNCHANGED <<warehouse, postgres, pc, memory, faults>>

SendDone(p) ==
    /\ At(p, "send") /\ todo[p] = {}
    /\ Goto(p, "saveSend")
    /\ UNCHANGED <<sapVars, warehouse, postgres, memory, inflight, faults>>

\* save_send_results: only records that were sent get a new status.
SaveSendResults(p) ==
    /\ At(p, "saveSend")
    /\ pipeline_records' = [pipeline_records EXCEPT ![run_id[p]] = [i \in Item |->
           IF results[p][i] # Null THEN [@[i] EXCEPT !.send_status = results[p][i]] ELSE @[i]]]
    /\ Goto(p, "recordSend")
    /\ UNCHANGED <<sapVars, warehouse, pipeline_runs, memory, inflight, faults>>

\* Mutant of AnsweredRow: only good news reach the warehouse.
AnsweredRow_AcceptedOnly(p, i) ==
    LET r == price_recommendations[run_id[p]][i] IN
    IF results[p][i] = "ACCEPTED" /\ r.row THEN [r EXCEPT !.sap_status = results[p][i]] ELSE r

\* The engine row of item i after record_send_results updated it.
AnsweredRow(p, i) ==
    LET r == price_recommendations[run_id[p]][i] IN
    IF results[p][i] # Null /\ r.row THEN [r EXCEPT !.sap_status = results[p][i]] ELSE r

RecordSendResults(p) ==
    /\ At(p, "recordSend")
    /\ price_recommendations' = [price_recommendations EXCEPT ![run_id[p]] = [i \in Item |-> AnsweredRow(p, i)]]
    /\ Goto(p, "getConditions")
    /\ UNCHANGED <<sapVars, wh_list, price_history, postgres, memory, inflight, faults>>

------------------------------------------------------------------------------
(* reconcile, history and the end of the run                               *)

\* reconcile: what SAP holds for an item against the price this execution computed.
Reconcile(price, held, i) ==
    IF i \notin DOMAIN held THEN "MISSING_IN_SAP"
    ELSE IF held[i].price # price THEN "PRICE_MISMATCH"
    ELSE IF held[i].effective_price # held[i].price THEN "NOT_EFFECTIVE"
    ELSE "CONFIRMED"

\* Mutant of GetConditions: every priced record is reconciled, accepted or not.
GetConditions_AllPriced(p) ==
    /\ At(p, "getConditions")
    /\ conditions' = [conditions EXCEPT ![p] = ConditionsAnswer]
    /\ recon' = [recon EXCEPT ![p] = [i \in Item |->
           IF i \in Prices(priced[p]) THEN Reconcile(priced[p][i], ConditionsAnswer, i) ELSE Null]]
    /\ Goto(p, "saveReconcile")
    /\ UNCHANGED <<sapVars, warehouse, postgres, run_id, priced, source, todo, tries, results,
                   inflight, faults>>

\* Read the accepted records of the run and GET /pricing/conditions, then compare.
GetConditions(p) ==
    /\ At(p, "getConditions")
    /\ conditions' = [conditions EXCEPT ![p] = ConditionsAnswer]
    /\ LET sent == Prices(priced[p]) \cap AcceptedKeys(run_id[p]) IN
       recon' = [recon EXCEPT ![p] = [i \in Item |->
           IF i \in sent THEN Reconcile(priced[p][i], ConditionsAnswer, i) ELSE Null]]
    /\ Goto(p, "saveReconcile")
    /\ UNCHANGED <<sapVars, warehouse, postgres, run_id, priced, source, todo, tries, results,
                   inflight, faults>>

SaveReconcile(p) ==
    /\ At(p, "saveReconcile")
    /\ pipeline_records' = [pipeline_records EXCEPT ![run_id[p]] = [i \in Item |->
           IF recon[p][i] # Null THEN [@[i] EXCEPT !.reconcile_status = recon[p][i]] ELSE @[i]]]
    /\ Goto(p, "history")
    /\ UNCHANGED <<sapVars, warehouse, pipeline_runs, memory, inflight, faults>>

\* Mutant of RecordHistory: the COALESCE takes last week's price first.
RecordHistory_PreviousFirst(p) ==
    /\ At(p, "history")
    /\ price_history' = [i \in Item |-> Carried]
    /\ Goto(p, "finish")
    /\ UNCHANGED <<sapVars, wh_list, price_recommendations, postgres, memory, inflight, faults>>

\* record_history: the effective price where SAP holds a condition, else last week's.
RecordHistory(p) ==
    /\ At(p, "history")
    /\ price_history' = [i \in Item |->
           IF i \in DOMAIN conditions[p] THEN conditions[p][i].effective_price ELSE Carried]
    /\ Goto(p, "finish")
    /\ UNCHANGED <<sapVars, wh_list, price_recommendations, postgres, memory, inflight, faults>>

Confirmed(p) == {i \in Item : recon[p][i] = "CONFIRMED"}

\* Mutants of FinalStatus: confirmed is compared with what was accepted; the gate is
\* asked again at the end.
FinalStatus_OfAccepted(p) ==
    IF Confirmed(p) = {i \in Item : recon[p][i] # Null} THEN "SUCCEEDED" ELSE "COMPLETED_WITH_ISSUES"

FinalStatus_LateGate(p) ==
    IF Violations(source[p], wh_list) THEN "BLOCKED"
    ELSE IF Cardinality(Confirmed(p)) = Cardinality(Prices(priced[p])) THEN "SUCCEEDED"
    ELSE "COMPLETED_WITH_ISSUES"

\* As many records confirmed as were priced?
FinalStatus(p) ==
    IF Cardinality(Confirmed(p)) = Cardinality(Prices(priced[p])) THEN "SUCCEEDED"
    ELSE "COMPLETED_WITH_ISSUES"

Finish(p) ==
    /\ At(p, "finish")
    /\ SetStatus(run_id[p], FinalStatus(p))
    /\ Exit(p)
    /\ UNCHANGED <<sapVars, warehouse, pipeline_records, inflight, faults>>

------------------------------------------------------------------------------
(* Failures                                                                *)

\* What an interrupted DuckDB write leaves: every statement commits by itself, so the
\* DELETE can be there without all of the INSERTs or UPDATEs that follow it.
TornWrite(p) ==
    \/ UNCHANGED warehouse
    \/ /\ At(p, "ingest")
       /\ wh_list' = NoList
       /\ UNCHANGED <<price_recommendations, price_history>>
    \/ /\ At(p, "save")
       /\ \E done \in SUBSET Candidates(source[p]) :
             price_recommendations' = [price_recommendations EXCEPT ![run_id[p]] =
                 [i \in Item |-> IF i \in done THEN EngineRow(p, i) ELSE NoRecommendation]]
       /\ UNCHANGED <<wh_list, price_history>>
    \/ /\ At(p, "recordSend")
       /\ \E done \in SUBSET Item :
             price_recommendations' = [price_recommendations EXCEPT ![run_id[p]] =
                 [i \in Item |-> IF i \in done THEN AnsweredRow(p, i) ELSE @[i]]]
       /\ UNCHANGED <<wh_list, price_history>>
    \/ /\ At(p, "history")
       /\ price_history' = [i \in Item |-> Absent]
       /\ UNCHANGED <<wh_list, price_recommendations>>

\* A step raises (SAP unreachable, a locked warehouse, a lost database connection): the
\* run is FAILED.  The last step is outside the try block.
Raise(p) ==
    /\ pc[p] \notin {"idle", "finish"}
    /\ Fault
    /\ TornWrite(p)
    /\ SetStatus(run_id[p], "FAILED")
    /\ Exit(p)
    /\ UNCHANGED <<sapVars, pipeline_records, inflight>>

\* The process is killed: nothing is written, the run stays RUNNING.  A request it was
\* waiting for may still be processed by SAP.
Crash(p) ==
    /\ pc[p] # "idle"
    /\ Fault
    /\ TornWrite(p)
    /\ \/ inflight' = inflight
       \/ /\ At(p, "send") /\ todo[p] # {}
          /\ inflight' = inflight \cup {[run |-> run_id[p], batch |-> Payload(p)]}
    /\ Exit(p)
    /\ UNCHANGED <<sapVars, postgres>>

------------------------------------------------------------------------------

\* One step of a process that goes well.
Step(p) ==
    \/ Fetch(p) \/ Ingest(p) \/ PriceWeek(p) \/ SaveRecommendations(p)
    \/ Validate(p) \/ FinishBlocked(p)
    \/ InitRecords(p) \/ PlanSend(p) \/ PostAnswered(p) \/ SendDone(p)
    \/ SaveSendResults(p) \/ RecordSendResults(p)
    \/ GetConditions(p) \/ SaveReconcile(p) \/ RecordHistory(p) \/ Finish(p)

\* A failure in or around a process.
Failure(p) == PostFailed(p) \/ PostRefused(p) \/ Raise(p) \/ Crash(p)

OutsideEdit == SapEdit /\ UNCHANGED <<warehouse, postgres, pc, memory, inflight, faults>>

Next ==
    \/ \E p \in Proc : (\E r \in Run : Start(p, r)) \/ Step(p) \/ Failure(p)
    \/ \E m \in inflight : LateArrival(m)
    \/ OutsideEdit

Spec == Init /\ [][Next]_vars

\* A run that has not succeeded is rerun with the same run id.
Rerun(r) == pipeline_runs[r].status # "SUCCEEDED" /\ \E p \in Proc : Start(p, r)

\* A started process keeps executing until it ends or dies: the program never waits for
\* anything but bounded HTTP timeouts and back-offs.
Fairness ==
    /\ \A p \in Proc : WF_vars(Step(p))
    /\ \A r \in Run : WF_vars(Rerun(r))

FairSpec == Spec /\ Fairness

------------------------------------------------------------------------------

InFlight == [run : Run, batch : Batch]

\* Answers of GET /pricing/conditions.
HeldPrices == UNION {[S -> [price : Price, effective_price : Price]] : S \in SUBSET Item}

WarehouseTypeOK ==
    /\ wh_list \in List \cup {NoList}
    /\ price_recommendations \in [Run -> [Item -> Recommendation]]
    /\ price_history \in [Item -> Price \cup {Absent, Carried}]

PostgresTypeOK ==
    /\ pipeline_runs \in [Run -> [status : RunStatus, attempt : 0 .. MaxAttempts]]
    /\ pipeline_records \in [Run -> [Item -> Record]]

ProcessTypeOK ==
    /\ pc \in [Proc -> ControlPoint]
    /\ run_id \in [Proc -> Run \cup {NoRun}]
    /\ priced \in [Proc -> [Item -> Price \cup {NoPrice}]]
    /\ source \in [Proc -> List \cup {NoList}]
    /\ todo \in [Proc -> SUBSET Item]
    /\ tries \in [Proc -> 0 .. MaxRetries]
    /\ results \in [Proc -> [Item -> SendStatus \cup {Null}]]
    /\ conditions \in [Proc -> HeldPrices]
    /\ recon \in [Proc -> [Item -> ReconcileStatus \cup {Null}]]

TypeOK ==
    /\ SapTypeOK
    /\ WarehouseTypeOK
    /\ PostgresTypeOK
    /\ ProcessTypeOK
    /\ inflight \subseteq InFlight
    /\ faults \in 0 .. MaxFaults

------------------------------------------------------------------------------
(* Properties                                                              *)

\* SAP accepted this price for the item, under this run id or under any.
AcceptedBySap(r, i, price) ==
    [run |-> r, item |-> i, price |-> price, code |-> "OK"] \in submission_log
AcceptedUnderAnyRun(i, price) == \E r \in Run : AcceptedBySap(r, i, price)

\* Whatever was lost, retried, replayed or killed, a record is marked ACCEPTED in
\* Postgres or in the warehouse only if SAP did accept a price for it under this run id.
AcceptedIsReal ==
    \A r \in Run, i \in Item :
        \/ pipeline_records[r][i].send_status = "ACCEPTED"
        \/ price_recommendations[r][i].sap_status = "ACCEPTED"
        => \E price \in Price : AcceptedBySap(r, i, price)

\* SUCCEEDED means delivered (REF-PIPELINE-STATUSES: every priced record was accepted and
\* confirmed effective): each price the warehouse recommends for the run was accepted by
\* SAP as it stands, and Postgres agrees.
SucceededIsDelivered ==
    \A r \in Run : pipeline_runs[r].status = "SUCCEEDED" =>
        \A i \in Item : LET rec == price_recommendations[r][i] IN
            rec.price # NoPrice =>
                /\ AcceptedUnderAnyRun(i, rec.price)
                /\ pipeline_records[r][i].price = rec.price
                /\ pipeline_records[r][i].send_status = "ACCEPTED"
                /\ pipeline_records[r][i].reconcile_status = "CONFIRMED"

\* A rerun resends only records SAP has not accepted yet: no record waiting to be posted
\* is recorded as accepted.
ResendsOnlyUnaccepted ==
    \A p \in Proc : At(p, "send") =>
        \A i \in todo[p] : pipeline_records[run_id[p]][i].send_status # "ACCEPTED"

\* A run the gate blocked on its first attempt has sent nothing: SAP never heard of it
\* and no request of it is under way.
BlockedSentNothing ==
    \A r \in Run : pipeline_runs[r].status = "BLOCKED" /\ pipeline_runs[r].attempt = 1 =>
        /\ \A s \in submission_log : s.run # r
        /\ \A m \in inflight : m.run # r

\* Two run ids of one week never both claim to have delivered the same item, although
\* each reconciles against all that SAP holds and their prices may be equal.
OneRunDelivers ==
    edits = 0 => \A r, q \in Run : r # q =>
        ~ \E i \in Item :
            /\ pipeline_runs[r].status = "SUCCEEDED" /\ price_recommendations[r][i].price # NoPrice
            /\ pipeline_runs[q].status = "SUCCEEDED" /\ price_recommendations[q][i].price # NoPrice

\* The two records of a first attempt agree once it is over: the warehouse, which the
\* diagnosis reads, says of every priced item what Postgres says.
FirstAttemptStoresAgree ==
    \A r \in Run :
        /\ pipeline_runs[r].status \in {"SUCCEEDED", "COMPLETED_WITH_ISSUES"}
        /\ pipeline_runs[r].attempt = 1
        => \A i \in Item : price_recommendations[r][i].price # NoPrice =>
              price_recommendations[r][i].sap_status = pipeline_records[r][i].send_status

\* A run that ends SUCCEEDED leaves its prices in the price history: what was confirmed in
\* SAP is what next week's ladder and outcome checks will read.
SucceededIsInHistory ==
    [][\A r \in Run :
          pipeline_runs[r].status # "SUCCEEDED" /\ pipeline_runs'[r].status = "SUCCEEDED" =>
              \A i \in Item : price_recommendations[r][i].price # NoPrice =>
                  price_history[i] = price_recommendations[r][i].price]_vars

\* Each execution ends once posts stop failing: a settled batch is not sent again.
ExecutionsEnd == \A p \in Proc : pc[p] # "idle" ~> pc[p] = "idle"

\* Rerunning the same run id converges: once faults cease, every item the engine prices
\* and no earlier record overlaps is accepted by SAP and recorded as accepted, although
\* answers were lost, processes killed and requests processed late or twice.
EventuallyDelivered ==
    \A r \in Run, i \in Item :
        Offer[sap_list][i] # NoPrice /\ i \notin open_ended
        ~> /\ AcceptedUnderAnyRun(i, Offer[sap_list][i])
           /\ pipeline_records[r][i].send_status = "ACCEPTED"

\* With SAP's side untouched, no retry, replay, late request or rerun makes SAP reject a
\* record of the pipeline's own: a rejected item is overlapped by an earlier record or by
\* the same item of another run id.
NoSelfInflictedRejection ==
    edits = 0 => \A r \in Run, i \in Item :
        pipeline_records[r][i].send_status = "REJECTED" =>
            i \in open_ended \/ \E c \in price_conditions : c.item = i /\ c.run # r

\* The pipeline implements its promise (module PriceDelivery).
Delivery == INSTANCE PriceDelivery WITH
    taken <- {[run |-> s.run, item |-> s.item, price |-> s.price] : s \in {t \in submission_log : t.code = "OK"}},
    held <- price_conditions,
    wanted <- [r \in Run |-> [i \in Item |-> price_recommendations[r][i].price]],
    reported <- [r \in Run |-> AcceptedKeys(r)],
    succeeded <- {r \in Run : pipeline_runs[r].status = "SUCCEEDED"}

ImplementsDelivery == Delivery!Spec

\* PB-NOT-SENT: when the diagnosis of a finished run says NOT_SENT (a priced row whose
\* sap_status is NULL), SAP holds nothing for the item from this run.
NotSentMeansNothingHeld ==
    \A r \in Run, i \in Item :
        /\ pipeline_runs[r].status \in {"SUCCEEDED", "COMPLETED_WITH_ISSUES", "BLOCKED"}
        /\ price_recommendations[r][i].price # NoPrice
        /\ price_recommendations[r][i].sap_status = Null
        => ~ KeyUsed(r, i)

==============================================================================
