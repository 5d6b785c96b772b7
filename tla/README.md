# Verification of the AI pricing system

TLA+ models of the weekly markdown pricing system, the TLC configurations that check
them and the TLAPS proofs about them. Every module is translated from the source; paths
below are relative to the repository root.

## 1. The system

Once a week the system prices clearance items and pushes the prices to SAP. A diagnostic API
then explains to people, in a chat and in a weekly triage, which prices are wrong and why,
and follows up until somebody has decided or fixed each problem.

| Component | State it keeps | Operations | Hard behaviour |
|---|---|---|---|
| Pricing rules and engine (`shared/pricing_rules.py`, `jobs/pricing_engine/engine.py`) | warehouse table `price_recommendations` | `recommend`, `price_week`, `save_recommendations`, `record_send_results` | rounding at bounds; multipacks depend on Singles priced before; delete-and-insert in DuckDB |
| Pre-send gate (`jobs/weekly_pipeline/validate.py`) | none | `validate_rows` | must agree with the engine although it is computed differently; reads the rules again |
| Mock SAP (`services/mock_sap/main.py`) | `price_conditions`, `submission_log`, lists, rules, promotions | `POST /pricing/markdown-prices`, `GET` of candidates, conditions, submissions | idempotent replay, overlap check, repricing under a used key |
| Sender (`jobs/pricing_engine/sender.py`) | none | `send` | retries, lost answers, partial failure |
| Weekly pipeline (`jobs/weekly_pipeline/`) | Postgres `pipeline_runs`, `pipeline_records`; warehouse `price_history` | `run_pipeline`, `RunState` | crash between any two steps, rerun of the same run id, concurrent executions |
| SAP ingest (`jobs/sap_ingest.py`) | warehouse `clearance_candidates`, `business_rules` | `ingest` | not atomic; another run may read in between |
| Run resolver (`services/diagnostic_api/runs.py`) | none | `latest`, `newest_status` | reruns of a run id, killed runs that stay RUNNING |
| Diagnosis, tools, cache (`core.py`, `tools.py`, `cache.py`) | `tool_cache` | `diagnose`, `execute_tool` | one answer is read from three stores, one after the other; it is cached and shared between users |
| Findings (`findings.py`) | `findings` | `create`, `resolve`, `auto_resolve` | closed by diagnoses that may be old or partial |
| Chat session (`sessions.py`, `state.py`, `app.py`, `services/ui/client.py`) | `sessions`, `turn_transcripts` | `post_message`, `turn_lock`, `save_turn`, `add_group`, `record_check`, `compact_history` | two turns at once, a lock that can be lost, a client that gives up first, limits |
| Router and tool loop (`router.py`, `agent.py`) | none | `run_turn` in both modes | a bounded loop around a language model that may do anything |
| Triage cases (`triage_store.py`, `triage_rules.py`) | `triage_cases`, `triage_events`, `triage_notifications` | `sync`, `accept`, `waive`, `reject`, `sweep`, `notify` | scans racing with people, circuit breaker, deadlines |
| Triage scan (`jobs/weekly_triage/scan.py`) | none | `run_triage`, `run_sweep` | crash between storing and telling anyone |
| Sales outcome and investigation (`outcome.py`, `investigation_tools.py`, `investigate.py`) | none | `low_sell_through`, `supported_signals`, `investigate` | thresholds; the model names causes, code has to confirm them |
| Knowledge base (`jobs/rag_ingest/`, `knowledge.py`) | `docs`, `chunks`, `kb_meta` | `chunk_doc`, `ingest`, `playbook_sections` | incremental ingest under changing documents and models; chunk limits |
| LLM and embedding adapters, command-line chat, rest of the UI, data generation, evaluations | - | - | see section 7 |

The parts interact through stores and HTTP: the pipeline reads SAP and writes the
warehouse and Postgres; the diagnosis reads the warehouse, the newest finished run from
Postgres and SAP's conditions; chat and triage both act on what the diagnosis says and both
close findings; people decide cases and resolve findings through the API; the triage quotes
the knowledge base.

What makes each part correct, in short. SAP never holds two overlapping prices of an item
and never rewrites one it accepted; the engine's price obeys every hard rule, is the nearest
such price to the schedule and passes the gate; a record is reported as accepted only if it
was; SUCCEEDED means delivered; BLOCKED means nothing was sent; reruns converge. An answer
of a tool stays within what its reader may see and is never older than the run it is given
for; nothing is reported or closed as resolved without evidence. A session forgets no turn,
never gives a handle a second meaning and tells its clients the truth. Only people decide
cases, no case waits silently for ever, owners hear of what is theirs, and what is fixed ends
closed. A cause that is confirmed is supported by the sales of the case. The knowledge base
is what a rebuild would leave.

## 2. Modules

| Module | Models | State and actions |
|---|---|---|
| `PricingRules` | `shared/pricing_rules.py` | operators `scheduled_price`, `ceil_cents`, `recommend`; integer cents, limits in thousandths |
| `PricingEngine` | `engine.py` `price_week`, `validate.py` | `rows` grow by `PriceRow` (the loop body), then `Gate` |
| `MockSap` | `services/mock_sap/main.py` | `price_conditions`, `submission_log`, `promotions`, ...; `post_prices`, `ConditionsAnswer`, and `SapEdit` for what people do in SAP |
| `WeeklyPipeline` | `pipeline.py`, `state.py`, `sender.py`, `sap_ingest.py`, `history.py`, `reconcile.py`, persistence in `engine.py` | EXTENDS `MockSap`; a process per execution of `run_pipeline` |
| `PriceDelivery` | the promise of the pipeline | what SAP took, holds, what a run wants, reports and claims |
| `Diagnosis` | `core.py`, `diff_checks` and `record_check` of `state.py` | operators `verdict`, `diagnose`, `Gone` |
| `ToolCache` | `tools.py` (`execute_tool` and the reads of the tools), `cache.py`, `runs.py`, `auto_resolve`, the checks of a session | EXTENDS `Diagnosis`; a tool call per caller, the week changing around it |
| `SessionState` | `state.py` | operators `add_group`, `compact_history`, `note_dropped` |
| `ChatSession` | `app.py` `post_message`, `sessions.py`, `router.py`, `agent.py`, the client | EXTENDS `SessionState`; one session, a handler per message |
| `Conversation` | the promise of a chat session | the messages answered, what is remembered of them, what handles stand for, what clients know |
| `TriageCases` | `triage_store.py`, `triage_rules.py`, `findings.py`, `scan.py` | `cases`, `findings`, the scan (`pc`, `scan`), decisions on the way (`request`); scans, people, sweeps |
| `TriageNotices` | the messages of `scan.py`, `notify` | EXTENDS `TriageCases`; its steps with what they hand on, and the messages |
| `SalesOutcome` | `outcome.py`, signals of `investigation_tools.py` | operators `low_sell_through`, `supported_signals` |
| `Investigation` | `outcome_cases`, `investigate.py`, `_llm_steps` | EXTENDS `SalesOutcome`; one case, a loop around the model |
| `Knowledge` | `jobs/rag_ingest/`, `playbook_sections` | `folder`, `embedder`, `kb`; `Edit`, `Configure`, `Ingest` |
| `MCWeeklyPipeline`, `MCToolCache`, `MCChatSession`, `MCTriageCases`, `MCTriageNotices`, `MCGrids` | instances for TLC | `MCWeeklyPipeline` computes prices and gate verdicts with the operators of `PricingEngine`; `MCGrids` runs the parts that only compute (`PricingEngine`, `Investigation`, `Knowledge`) on grids of inputs |
| `MockSapProofs`, `WeeklyPipelineProofs`, `PipelineDeliveryProofs`, `PricingProofs`, `ToolCacheProofs`, `ChatSessionProofs`, `TriageProofs`, `GridsProofs` | theorems and their lemmas | see section 5 |

Definitions whose name holds an underscore and a capitalised word (`Relisted_AsSynced`)
are mutants: the bug of that name, used to see that a property can fail.

### How WeeklyPipeline follows the code

The control point `pc[p]` of a process walks through `run_pipeline`: `fetch`, `ingest`,
`price`, `save`, `validate`, (`blocked`), `init`, `accepted`, `send`, `saveSend`,
`recordSend`, `getConditions`, `saveReconcile`, `history`, `finish`. Each action is one
Postgres transaction, one DuckDB connection or one HTTP exchange. `todo`, `tries` and
`results` are the locals of `send`; `PostAnswered`, `PostFailed` and `PostRefused` are the
outcomes of one POST. A POST whose answer is lost leaves its batch in `inflight`, and
`LateArrival` lets SAP process it at any later time or never: this covers both an answer
lost after SAP committed and a request delayed past the end of its run. `Raise` is the
`except` branch, `Crash` a killed process; both can leave a torn DuckDB write
(`TornWrite`), because DuckDB commits every statement by itself here.

The SAP handler is one atomic action: it is an `async def` without an `await` after the
body is read, in one transaction.

Abstractions, and why they are sound for the properties:

- One pricing week. Run ids are per week by default (`{week}-pipeline`), and `(run, item)`
  is the idempotency key. Behaviours over two weeks (a run id reused for another week, the
  ladder taken from a later week's history) are outside it (section 6).
- A batch is a function from items to prices: the gate rejects duplicate keys.
- Prices are whole cents, percentages thousandths (SAP's `NUMERIC(10,2)`, `NUMERIC(4,3)`);
  bounds are exact where the code rounds float noise away.
- The engine's four warehouse reads are one read. The gate's later read of the rules is a
  step of its own, so a list ingested in between is seen.
- A torn ingest leaves no candidates (`NoList`): DELETEs first, INSERTs last. A partly
  inserted list is not distinguished from an empty one.
- `pipeline_steps`, `weeks.status`, messages, timestamps, warnings and attempt counts per
  record are written and not read by the program: left out.
- Back-off delays only take time.

### How ToolCache follows the code

A call walks through `execute_tool`: `Ask` (the model's arguments), `Plan` (`_cache_plan`:
the key, made before anything is read), `Get`, the reads of the tool in the order the code
makes them (`Reads`: the list, the newest finished run, its rows, SAP, the rules, the log),
`Save` and `Finish` (`auto_resolve` and `record_check`). Every read is a step, so an answer
can be put together from different moments: the run that answers may finish again, SAP may
change, a list or rules may be ingested between two reads. `Fails` is a `ToolError`; a cache
that cannot be read is a miss, and one that cannot be written is skipped, as in the code.

Abstractions, and why they are sound for the properties:

- Prices are compared and never shown: a condition in SAP is ours, another one, or ours and
  overridden, ours being the price of the row that SAP accepted. The code compares two values read
  at different moments (`core.py:43-47`): the row, and later the condition. The two differ if the row
  is repriced between the reads. But a rerun deletes the row and inserts it again with a NULL
  `sap_status` (`engine.py:87-90`), so before another price of it can be ACCEPTED the item has, within
  the same call, none of the problems that the comparison finds. Whichever of them an answer then
  does not show, in the code or in the model, was absent at a moment of the call, which is what the
  evidence properties ask.
- A call answers about the newest finished run or, without one, about the run the model names. The
  run id that a service can pin (`tools.py:150-151`) is set by the command-line chat alone
  (`chat.py:37`), which is not modelled.
- Whether a price breaks a rule is a set of items (`strict`), as the rules are
  ingested; the rules themselves are `PricingEngine`.
- A call takes less than a tick. The time to live is minutes and a call is bounded by its
  HTTP timeouts; without this no bound on the age of an answer could hold.
- The findings are those about the problems in `Tracked`, so that their number is a bound of
  the instance, not of the module.
- `clear` is a history variable: the last tick at which an item did not have a problem. The
  program has nothing like it; the evidence properties compare its decisions with it.
- `search_docs` and `get_findings` only read. The data version of a call without a finished
  run is 0, as in the code.

### How ChatSession follows the code

A message walks through `post_message`: `Get` (is the session live), `TakeLock`, `Read` (the
latest version, now under the lock; the history is compacted here), the turn, `SaveTurn`,
`Respond`. A turn in router mode is `Classify` or `Validate`, `Products`, `ScopedTools`,
`Render`; in loop mode `ModelCall`, `LoopTool` and `Escalate`. `TurnFails` is the `except`
branch that answers 502.

Abstractions, and why they are sound for the properties:

- The model is arbitrary: it classifies a question in any way, names any list, group or
  regions, calls tools or answers. Of a tool call the session sees products and regions.
- A message is its own question, and a stored turn is its question. Texts are left out.
- The configuration (`allowed`, the week) is read once per message, as in the handler.
- The advisory lock belongs to a connection; `LockLost` is that connection dropping while the
  turn goes on. It is never re-taken by the same turn.
- `GiveUp` is the client's timeout (30 s), independent of the handler. It also stands for an HTTP
  500: if the database fails at `save_turn`, or after its commit when the lock's connection is
  closed, the turn may be stored or not, and the client knows as little as one that gave up. The
  refusals that `ToldTheTruth` is about are 409, 410 and the 502 that says "nothing was saved".
- `set_scope` is left out (only the model reads it), and so are the checks, which are in
  `ToolCache`.

`Conversation` says what remains of all this for a user: messages are answered one after
another, each at most once, and clients hear of it or give up. It is instantiated in
`ChatSession` with the transcript's questions, the remembered list joined with the history, the
handles in the transcript, and `Heard(m)` for what the client of `m` was told. The points where
a session seems to change are then the save of a turn (`Answer`) and the answer on its way out
(`Tell`, `Refuse`); locks, reads, model and tool calls, crashes and lost locks are stutters.

### How TriageCases and TriageNotices follow the code

`run_triage` is the scanner: `ReadWeek` (the checks, with their troubles: playbooks
unreadable, no sales yet, circuit breaker), `ReadKnown` (`_known`), `SyncRead` and
`SyncWrite` (`sync`), `ResolveEarlierOutcomes`, `AutoResolve`, one `SaveProposal` per case
for the model, `EndScan`; `NoUsableWeek` is `_incident`, and `ScanDies` a crash or an
exception anywhere. `sync` is two steps because it selects the rows without a lock and
computes the new status from them; its writes are one step, since a row it has updated stays
locked until the commit. `_decide` uses `FOR UPDATE`: `Locked` is that lock, held by an
Accept while it writes its findings on connections of their own. `AcceptRead` and
`WaiveRead` are the unlocked reads before it.

`TriageNotices` keeps these steps and adds the locals that carry a case to its message:
`to_tell` (the rows that `sync` and the proposals returned, with the owner they had then)
and `to_page` (what the sweep escalated). `Tell` and `Page` are one message each, in a
transaction of its own; `DiesNotified` and `SweepDies` lose the locals. `untold` and
`unpaged` are history variables that say so.

Abstractions, and why they are sound for the properties:

- Scans are of one week and one at a time (one scheduled job), and so are sweeps; at most one
  sweep dies. A case of an earlier week is there from the start, for `resolve_earlier_outcomes`.
- A deadline is set or not; which of the open cases with a deadline are late by now is a
  free choice of `Sweep`. `Business` stands for the column `route`, which the code always
  sets together with the owner (`route_for`).
- What the checks find is the set of records that fail at that moment; the statistics and
  the breaker's shares are free choices, bounded by `MaxFaults`.
- The candidate list (`week.listed`) is the items of the records that can fail. A rerun can ingest
  a list that lost an item, or has it again. What is not listed fails no check (`scan.py:51` drops
  NOT_IN_LIST). A scan checks the list it read (`scan.checked`), and `auto_resolve` skips a finding
  about a region or a product outside it (`InScope`): a finding about an item that left the list
  stays open. Sales outcomes are about the list of the week before, which reruns leave alone.
- In `TriageCases` an investigation is an arbitrary owner or none: a superset of what module
  `Investigation` lets it be.
- A message counts for a case until the case is reopened.

### How the parts that only compute follow the code

- `SalesOutcome`: the sales of one region, by record. A baseline is kept in sixths of a unit,
  which is exact for the mean of two or three weeks; comparisons are cross-multiplied. The
  tables shown to people are left out.
- `Investigation`: the model may submit any causes with any products, at any step, or stop,
  refuse or fail. What its tools show has no effect but on what it submits, so a round of
  tools is one step. `_check` is modelled whole.
- `Knowledge`: a document is its sections, paragraphs and sentences with their lengths; the
  limits are in the same unit (about 50 characters: `MAX_CHARS` 1100, `MIN_CHARS` 140). A sentence
  longer than `MAX_CHARS` comes with the parts it is cut into (`Parts`); what is cut off is a piece
  at once, before the sentences that wait in `current`. Quoting is compared by `Words`, that is up
  to where a sentence was cut: white space is left out, and with it the blank that a cut puts into a
  word longer than a chunk. `Edit` is what people do to the folder; `Loads` is `load_corpus`, which
  refuses the whole folder if one document breaks a rule (`valid`).
  Ranking by similarity is vector arithmetic and is left out; looking a section up by its
  name is not.

## 3. Runs

| Run | Instance | Question |
|---|---|---|
| `grids` | a Single and a 3-pack, 16,848 snapshots; 128 weeks of sales, one cause, two steps; two documents of six bodies, two embedding models, three edits | does the engine price legally and nearest to schedule, and does the gate agree? is a confirmed cause supported? is an incremental ingest a rebuild? are long sections, and a long sentence that comes first, quoted? |
| `weekly_run` | 1 run id, 2 attempts, batches of 1, 1 retry, 2 faults, 2 edits in SAP | are the reports true through crashes, lost answers and reruns? is SAP sound under every post and replay? refinement of `PriceDelivery` |
| `concurrent_runs` | 2 run ids, 2 processes, 1 fault, 1 edit; `Exclusive` off | runs of one week, and one run id, at once |
| `recovery` | `FairSpec`, 3 attempts, 2 faults | once faults stop, does every execution end, do reruns deliver? |
| `diagnosis` | one product in 2 regions, 2 users of whom one sees one region, 1 run; 2 calls, 2 changes, 1 finding, TTL 1 | do answers stay within access and after their run, is what closes or is called resolved really gone? |
| `chat` | a session after 2 turns, 2 more messages, 2 lists, limits of 1 group, 1 turn and 1 remembered question, 2 model calls, 1 fault | does a session keep its promises at its limits, under overlap and faults? refinement of `Conversation` |
| `triage_cases` | `FairSpec`, 2 records of one code in 2 regions and an incident, 1 decision, 2 changes of what fails or is listed, 1 fault | do decisions, waivers, deadlines and closing hold up against scans? |
| `notices` | `FairNotices`, a brand flagged this week and the week before, an incident, nobody decides, 2 changes, 1 fault | does the present owner hear of a case, does every case become known, do outcome cases of both weeks close? |
| `rerun_wipes_answers` | 2 attempts, no fault | finding: after a rerun the warehouse says NOT_SENT of delivered prices |
| `lost_decision` | 1 decision, no fault | finding: a scan takes a decision back |
| `lost_escalation` | one record, 1 change, nobody decides | finding: a sweep that dies leaves its escalations silent |
| `short_section` | `grids`, the knowledge base alone | finding: a short section is quoted under another |

Bounds and why they are enough:

- A Single and its multipack are the smallest list with a ladder and, with batches of one,
  with a partial failure between batches. Two list versions (in the second the Single is gone
  and a floor was raised, so the pack's price changes) give changed prices, items off the list
  and gate violations. Two faults allow a lost answer followed by a crash; two attempts are a
  run and its rerun, a third allows recovery from a failed rerun.
- The pricing grid puts shelf prices, limits and last week's price on, next to and between
  the cent boundaries; the sales grid puts sales, baselines, rises and stock on both sides of
  each threshold, and has weeks without sales; the documents have a paragraph longer than a
  chunk, a sentence cut in three, first in its paragraph and after another, chunks that repeat a paragraph of the chunk before, a section that repeats one itself,
  and a section shorter than `MIN_CHARS`.
- `diagnosis` starts in a week that was priced and sent (`MCInit`), since the runs before it
  would use up the changes; the theorems are about `Spec`, which starts from nothing. Two
  calls are one that fills the cache and one that is answered from it, or a check and the next
  one; two changes are a problem that goes and a rerun or another change, or a failure of the
  cache; two ticks let a live answer expire.
- `chat` starts after two turns with history and questions at their limits, so the next save
  drops at both (`ImplementsConversation` is therefore about steps; that a new session starts as
  a conversation does is in its theorem); two more messages overlap in every way, and the lists do not fit into one
  group. One fault is a lost lock, a crash, an impatient client, an expiry or new permissions.
- For triage, two records in two regions are the least with a case that shrinks and grows, a
  waiver that covers part of it and an Accept that can fail between two findings. One decision
  and two changes let a case be found, decided, change and be found again, or a finding be recorded and
  its item leave the list and come back; one fault is an
  outage, a mass failure, or a crash at any point. Scans and sweeps are not bounded.
- `notices` has one record per week: who is told depends on a case's owner and state, and an
  outcome case is the one whose owner the investigation chooses in between. The case of the
  week before is closed by `resolve_earlier_outcomes`. Decisions are left out of this run to
  keep it small; `NoticesOwnersHear` is proved for any number of them, and `triage_cases` has
  them for `FixedCaseCloses`.

Type invariants: `ChatSession`'s is checked in `chat` and proved; those of the SAP, the
pipeline, the engine, the tool calls, the triage and its notices are theorems (section 5), and
no run repeats them.

Deadlock is off where the system stops by itself: all executions over, the gate done, the
messages answered, the calls used up, or a week in which nothing changes any more.

## 4. Properties and fairness

**Pipeline.** `AcceptedIsReal`, `SucceededIsDelivered`, `BlockedSentNothing`,
`FirstAttemptStoresAgree`, `SucceededIsInHistory`, `OneRunDelivers`,
`NoSelfInflictedRejection` and `ResendsOnlyUnaccepted` relate SAP, Postgres and the warehouse;
each is stated with its reason in the module. `FirstAttemptStoresAgree` is limited to first
attempts on purpose: `rerun_wipes_answers` shows that it fails on reruns.
`SucceededIsDelivered`, `OneRunDelivers`, `ResendsOnlyUnaccepted` and the refinement assume that
an operator does not start a run id that is already executing (`Exclusive`); the others do not,
and `concurrent_runs` runs without it. `SucceededIsInHistory` holds if one process executes at a
time: `price_history` belongs to the week, and another run of the week replaces its rows
between this run's `record_history` and its `finish`. `NoOverlap`, `LogExplains` and `AcceptedPriceStays` are
SAP's side, checked in the composition.

Fairness: `WF(Step(p))`, because a process waits for nothing but bounded HTTP timeouts and
back-offs, and `WF(Rerun(r))`, because the playbooks ask the operator to rerun an
unsuccessful run with the same run id, and the code relies on it to recover. No fairness
is assumed for faults, late requests or edits in SAP. Faults are bounded (`MaxFaults`), so
`ExecutionsEnd` says that an execution ends once posts stop failing, because a settled batch is not
sent again; that `send` gives up on a batch after `max_retries` failures is part of the model
(`MaxRetries`) and not a result. In `weekly_run` and `recovery` one process executes at a time; two at once are
in `concurrent_runs`, and `AcceptedIsReal` for any number of processes of one run id is the theorem
`PipelineAcceptedIsReal`. `EventuallyDelivered` is checked
with SAP's side untouched: an operator who edits SAP can keep a price out for ever.

**Diagnosis.** `CacheNeverWidens` and `NeverOlderThanTheRun` are about the key: what must be
in it so that a shared answer is neither too wide nor too old. `ReportedGoneWasGone` and
`ResolvedByEvidence` are about what is done with an answer that was cached, or read piece by
piece: what it makes the session or the findings say has been true, in the run that was
diagnosed, within the time to live. They say nothing of a problem that came back within that
time, nor does the code. `ToolCache` has safety only: a call waits for nothing but HTTP.

**Chat.** `NoTurnForgotten` joins transcript, history and remembered questions across lost
locks and failed turns; `HandlesNeverReused` compares what any two turns were told of a
handle; `ResultsWithinPermission` looks at groups older than the permissions;
`ToldTheTruth` compares the clients with the database; `RefusedForCause` says that a turn is
thrown away only if a lock was lost. `ImplementsConversation` is what they amount to, step by
step: an answer is appended to all earlier ones, under a memory that is a newest stretch of them,
to a message that was not answered before and whose client was not told otherwise.
`EveryMessageEnds` needs `WF(Handle(m))` for each
message: model and tool calls have timeouts, and `MAX_STEPS` bounds their number.

**Triage.** `OnlyPeopleDecide` and `WaiverCovers` are about the race of a scan with people;
`NothingWaitsForEver`, `FixedCaseCloses` and `FixedFindingCloses` say that cases and findings
end, also after crashes, outages and half-written Accepts. A case ends also when its items leave
the list; a finding only if the list that is left at last covers it (see below). `FairSpec` assumes
`WF(ScanStep)`, because the scan is a scheduled job run after every weekly run
(`jobs/weekly_triage/__main__.py`), weak fairness of the sweep for each case that stays due
(the same job with `--sweep`), and that a request that was started ends. The schedule itself
is outside the repository: without it nothing in triage makes progress.

`OwnersHear` says that the present owner is told, not the one that a row had when the
announcement was prepared; `NothingStaysUnknown` that a crash of a scan before its messages
only delays them, because the deadline and the sweep are there. `FairNotices` is `FairSpec`
with the messages: a job that has a message to send sends it unless it dies. Here the sweep is
strongly fair for each case, because a sweep waits until the messages of the one before it are
sent: it is enabled again and again, not continually, and when it runs it takes every late case. A dying sweep
is excepted from `NothingStaysUnknown`, because `StopsWaitingSilently` shows what it does.

**Grids.** `NearestLegalPrice`, `LadderHolds` and `GateAcceptsEngine` for pricing: a price is the
legal one nearest to the schedule, and only an item without a legal price gets none. `EvidenceIsTheCases`: whatever products the model names with
a cause, the ones it is confirmed for are flagged and supported by the case's own sales.
`IncrementalIsRebuild`: whichever documents an ingest left alone. `LongSectionsQuoted`: the
overlap of chunks is taken out again, for sections that do not repeat a block right after
itself and share their name with no other, in documents without a piece that is too short, and
with a sentence longer than a chunk only at the start of a paragraph. The code breaks the promise
where one of the last two conditions fails: see `SectionsQuoted` and `LongOnesFirst` below.

What the code does not keep of its own documentation is in `PROJECT.json` under findings:

- `NotSentMeansNothingHeld`: a rerun erases SAP's answers from the warehouse.
- `DecisionStands`: `sync` writes a status computed from a row read before the decision.
- `StopsWaitingSilently`: a sweep that dies after its commit leaves its cases escalated,
  without a deadline and with nobody told.
- `SectionsQuoted`: a section shorter than `MIN_CHARS` is quoted as the end of the section
  before it.

Two more have no run of their own; passing properties name them as conditions, and TLC shows each of
them as soon as its condition is taken away:

- `LongOnesFirst` in `LongSectionsQuoted`: `_split_long` stores what it cuts off a sentence longer than
  `MAX_CHARS` (`chunker.py:42`) before the sentences that wait in `current` (`chunker.py:44-48`). The
  paragraph "A. <long sentence>" becomes the first part of the long sentence, then "A." with the
  rest, and is quoted so, though `knowledge.py:146` says "word for word" and
  `tests/test_step6_ingest.py:76` expects the words of the pieces in their order.
- `InScope` in `FixedFindingCloses`: `scan.py:212` says "this scan is the whole scope", but it passes
  the items of the present list to `auto_resolve` (`scan.py:213`), which skips a finding about
  another one (`findings.py:99`). A finding whose item a rerun took off the list is closed by no
  scan, though its case is; a person can still resolve it.

## 5. Proofs

The theorems hold for every value of the constants that satisfies the named assumptions:
any number of items, prices, lists, runs, processes, users, regions, messages, cases, people and
documents, any sales tables, any batch size, and any limits and bounds on retries, attempts,
faults, calls and edits.

| Module | Theorems | Assumptions used |
|---|---|---|
| `MockSapProofs` | `SapTyping`, `SapNoOverlap`, `SapLogExplains`, `SapPriceStays` | `EditsAssumption` |
| `WeeklyPipelineProofs` | `PipelineTyping`, `PipelineNoOverlap`, `PipelineAcceptedIsReal`, `PipelineUsesSap`, `PipelinePriceStays`, `PipelineLogExplains`, `PipelineNoSelfInflictedRejection` | also `OfferAssumption`, `BoundAssumption` |
| `PipelineDeliveryProofs` | `PipelineBlockedSentNothing`, `PipelineFirstAttemptStoresAgree` | the same |
| | `PipelineResendsOnlyUnaccepted`, `PipelineSucceededIsDelivered`, `PipelineImplementsDelivery`, `PipelineOneRunDelivers` | also `Exclusive` |
| | `PipelineSucceededIsInHistory` | also `OneProcess` |
| `PricingProofs` | `EngineTyping`, `EngineNearestLegalPrice`, `EngineLadderHolds`, `GateAcceptsEveryEngineRow` | `SnapshotsAssumption` |
| `ToolCacheProofs` | `ToolCacheTyping`, `AnswersStayWithinAccess`, `AnswersKnowTheirRun`, `ReportedGoneIsGone`, `ClosedByEvidence` | `ToolCacheAssumption` |
| `ChatSessionProofs` | `ChatTyping`, `SessionInvariant`, `ChatForgetsNothing`, `ChatHandlesStand`, `ChatWithinPermission`, `ChatTellsTheTruth`, `ChatRefusesForCause`, `ChatImplementsConversation` | `SessionStateAssumption`, `ChatAssumption` |
| `TriageProofs` | `TriageTyping`, `TriageOnlyPeopleDecide`, `TriageWaiverCovers`; `NoticesUseTriage`, `NoticesTyping`, `NoticesOwnersHear` | `TriageAssumption` |
| `GridsProofs` | `InvestigationEvidence` | `InvestigationAssumption` |
| | `IngestIsRebuild` | none |
| | `LongSectionsAreQuoted` | `KnowledgeAssumption` |

**SAP.** `SapInv` is `SapTypeOK /\ NoOverlap /\ LogExplains`, and it is inductive as it
stands. `OutcomeCodes` says when the handler answers OK and REPLAYED, `PostAdds` what a POST
adds to the two tables; every other step rests on these two.

**Pipeline.** `AcceptedIsReal` is not inductive: a status reaches Postgres and the warehouse
from a process's memory, some steps after SAP answered. `PipelineInv` adds

- `ResultsAreReal`: what a process believes to be accepted was accepted under its run id. It
  needs `LogExplains`, because ACCEPTED also stands for a replay, whose acceptance lies in
  the past, and the fact that SAP's log only grows (`LogGrows`);
- `IdleIsBlank`: a process that starts another run id brings no results along, or
  `ResultsAreReal` would break at the next `Start`;
- `RunsKnown` and `SentArePriced`: what is posted is a batch of well-formed prices of a
  known run, so the POST is a step of SAP (`PipelineStepsOfSap`) and `SapInv` carries over.

`PipelineUsesSap` states the composition: the pipeline implements `SapSpec`. No assumption
on concurrency is made: several processes may execute one run id.

**Rejections.** `PipelineNoSelfInflictedRejection` needs no assumption on concurrency either. As
long as nobody edits SAP there is one list, so whatever is read, ingested, priced, in flight or
held is that list's one price of the item (`Clean`: `ProcessClean`, `OnePricePerItem`). A post
that meets a used key is then a replay, never a repricing, and what SAP still rejects has one of
the excuses that the property names (`RejectionIsExcused`); an excuse does not go away
(`ExcusedStays`).

**Sending.** `BlockedSentNothing` needs to know why nobody else sent for the run: the
invariant `FirstAttempts` says that a run never started is untouched, that a first attempt
has a single execution, and that it stays untouched up to its first POST. `QuietStep`,
`SendingStep` and `ExitStep` are the three ways a step of a process can matter to it.
`FirstAttemptStoresAgree` rests on the same: during a first attempt one process writes both
stores, and `StoresInv` says at each control point how far each of them follows its results.
`ResendsOnlyUnaccepted` holds if no run id is executed twice at once (`OneExecution`, which
follows from `Exclusive`); without it the plan of one process goes stale when another saves.

**Delivery.** `DeliveryInv` is `PipelineInv` with `OneExecution` and

- `ExecutionsKnow`: what an execution knows at a control point of its run's records and of its
  rows in the warehouse. It breaks at the first step of a second execution of the run id;
- `ClaimsHold`: what SUCCEEDED claims stays so until the run is started again. The log and the
  records of a run that is not executed do not change, apart from late requests, which only add.

`PipelineSucceededIsDelivered` follows at once. `PipelineImplementsDelivery` is the refinement
of `PriceDelivery`, one lemma for each kind of step: `Start` reopens a claim, the new rows are
what the run wants, `SaveSendResults` reports, a POST answered or late is what SAP takes,
`Finish` claims, `DeleteCondition` removes, and everything else stutters.
`PipelineOneRunDelivers` adds `NothingRemoved`: without edits every accepted submission still
has its condition, so two runs that delivered one item would have two conditions that overlap.
For `PipelineSucceededIsInHistory` two processes are too many (section 4), which `OneProcess`
says; its invariant follows the confirmed prices through `record_history` to `finish`.

**Pricing.** `CeilCents` and `LoIsLeast` show that a whole-cent price obeys the three lower
bounds exactly when it reaches `Lo`; `RecommendClamps` that the price is the schedule moved
into `Lo .. current`; from both follows that it is legal and nearest. The loop's invariant
`RowsAreCurrent` says that each row is what the engine would compute from the rows there
are now: rows priced later change no earlier one, because a pack is priced only after all
Singles. The gate then looks up the Single's price that the engine used, or none.

**Tool calls.** `Typed` carries the types through the call, the cache, the checks and the
findings. On it rest three invariants, each about what is written down before it is used:

- `AccessInv`: an entry's regions are within the access in its key, a call's key carries its
  caller's access, and what a call has read so far is within it too;
- `VersionInv`: finishes are stamped in order, so an entry under a version was computed when
  that finish was known (`FoundIsNewest`, `AnswerKnows`): the key is made before the reads,
  and finishes only grow;
- `EvidenceInv`: a record that an answer does not show was clear, in the run the answer is
  about, at some moment of the call. A verdict depends on a single stored value at a time
  (`VerdictBySource`), so an answer put together from several moments can only miss a problem
  that was absent at the moment its source was read (`AbsentNow`, `SeenAfterRead`). With
  `NoTickInCall` and the freshness test of the cache this bounds the age of the evidence.

**Chat.** `SessionInv` is about the turns that can still be saved (`Fresh`: at work, and started
from the version that is stored), because `save_turn` compares versions. For each of them, and
for the row,

- `Memory`: the list of earlier questions and the history are together the newest stretch of the
  transcript's questions, and all of them until the list is full (`Remembers`).
  `CompactionRemembers` and `QuestionRemembered` carry it through `compact_history` and the save;
- `Handed`: groups agree with every handle given out in any stored turn, and in this one
  (`Consistent`). Handles are numbered upwards, so one that was dropped is never taken again.

A turn that was overtaken satisfies neither, and need not: it is thrown away.
`ChatTellsTheTruth` is a second invariant, `Truth`: an outcome `answer` has its turn in the
transcript from the save on, and every other message is in no turn. `ChatRefusesForCause` is a
third, `Locked`: as long as no lock was lost, whoever works holds the lock and started from the
stored version, so nobody saves between its second look at the row and its save.

`ChatImplementsConversation` takes `SessionInv`, `Truth` and `Posted` (whoever posted is waiting,
was told, or gave up) and maps each step (`StepIsSaid`). The save is the step that needs all
three: `Memory` makes what is remembered a stretch of the transcript, `Handed` keeps the meaning
of handles, and `Truth` says that the message was not answered before. `HeardStays` is why every
other step of a handler is a stutter.

**Triage.** `TriageInv` adds to typing and `OnlyPeopleDecide`

- `FrozenRows`: while a scan holds rows it has read, those it read as absent, accepted, waived
  or resolved are still as it read them, because people and the sweep touch only open and
  escalated cases. This is why the stale read can take a decision back (`DecisionStands`) but
  can never invent one, and why a waiver is judged by the records it really names;
- `LockInv`: an Accept that writes its findings holds its row alone, and the row is still
  undecided at the commit;
- `CasesInv`, `RequestInv`, `ScanInv`: every case but an incident has records, so its Accept
  has a region and thus a finding; ids refer to findings about the same problem
  (`FindingsGrow`: findings are added and closed, never changed otherwise).

`RowsSuffice` and `UndecidedRows` reduce a step to the rows it writes, `RequestMoves` and
`LocksMove` to the request that moves. Any number of people may act at once.

**Notices.** `NoticesUseTriage` is the refinement: every behaviour with messages is one of
`TriageCases`, so its theorems carry over. `OwnersHear` rests on `HeardInv`: every undecided
case of the week that is escalated or has a deadline is known, that is, its owner was told,
or will be by the list of a normal scan or of the sweep, or the message was lost with a
process. Two facts carry it through a scan: `RowsAsRead` (while a scan holds stale rows, a
case that is still undecided is as it was read, or was escalated meanwhile) and `SyncedInv`
(after the sync of a normal scan every waiting case it found is known: it got its deadline
now and is on the list, or had it before).

**Evidence.** A cause is confirmed on the products named with it, and the property asks whether
the signal holds on the case's own: `SignalsAreLocal` says that a signal
found on a product together with others is found on it without them. For the signals of one
product this is direct. `SUBSTITUTION` compares what was lost with what promoted products
gained, and the loss grows with the products (`LossGrows`). That is a fact about sums over
finite sets, and the induction it needs is done on sets instead of predicates: the subsets of a
finite set with a property are all of them if none is a least exception (`SubsetInduction`,
from the well-foundedness of the strict subset order). On it rest that a fold exists and has the
values expected (`FoldExists`, `FoldTyped`), that a sum may be taken in any order and grows with
what is added (`SumInAnyOrder`, `SumGrows`), and what the community modules' `SumFunction` computes
(`SumFunctionIs`). `KeepsOnly` says the same of `_check`'s loop over the submitted causes.

**Knowledge.** `IncrementalIsRebuild` is inductive. An ingest keeps the chunks of a document only
if body and model are those the chunks were made from (`KeptIsCut`), so what is kept is what
would be cut now, whatever `chunk_doc` computes.

`LongSectionsAreQuoted` is about what it computes: four folds inside each other, over the
sentences of a paragraph, the blocks of a section, the pieces of a document, and back. The
prover has no induction for operators, so induction is again done on sets: a set of sequences
that holds the empty one and every sequence with one more element holds all of them
(`SequenceInduction`). With it, a fold to the left exists as a function of sequences and is
what the community modules' `FoldLeft` computes (`FoldedExists`, `FoldsAgree`, `LeftFold`;
`SplitFolds`, `PackFolds`, `CutFolds`, `JoinFolds` for the four steps of the code), and flattening
and mapping go element by element (`Flattening`, `Mapping`, `Spreading`). The argument is then

- `SplitLong`, `BlocksSay`: the blocks of a section, read one after another, have its words in their
  order, if a sentence longer than a chunk is the first of its paragraph (`LongOneFirst`), so that
  nothing waits when it is cut. Cutting again what was cut changes nothing (`PartsAre`,
  `WordsTwice`), and words go sentence by sentence (`WordsSpread`);
- `PackedJoins`: reading back the chunks made so far and the one being filled gives exactly the
  blocks packed so far. This is the invariant of the loop; it needs the overlap to be one block,
  and that no block repeats the one before it (`SaysOnce`), or the reader would drop it;
- `PiecesStand`, `DocumentUnder`: with no short piece, the chunks are the pieces, and those under
  a section's name are the section's own if no other section has it (`NamedOnce`);
- `SectionReads` puts them together, and `KnownBodies` with `IncrementalIsRebuild` carries it to
  what is stored: the chunks of a stored document are those of its body.

Model-checked only:

- liveness (`ExecutionsEnd`, `EventuallyDelivered`, `EveryMessageEnds`, `NothingWaitsForEver`,
  `FixedCaseCloses`, `FixedFindingCloses`, `NothingStaysUnknown`): liveness under fairness and
  ENABLED are beyond the prover;
- the properties of the four runs that expect a violation: the code breaks them.

## 6. Observations without a property

Behaviour of the code that the models show or the reading found, which no document of the
repository clearly calls right or wrong. Those that are worth a property once the model reaches them are
in `PROJECT.json` under hazards too.

- While the playbooks cannot be read, every record case of the week gets another key: its
  owner's case closes and a new one opens for the development team.
- `save_proposal` writes its owner whatever a person or the sweep did meanwhile, and the owner
  that a reject names is not told.
- Two overlapping scans of a week collide on the unique key, and one loses its whole sync.
- A held case whose records changed is "changed", not "released", and gets its deadline only
  from a later scan that finds it unchanged.
- A case covered by known findings that gains records no finding covers is announced to nobody.
- SAP can reject a Single after the gate checked its multipack against the Single's new price.
- The model that investigates a case can suppress evidence by naming further products, never
  create it.
- A snapshot for a requested run id is cached under that id while no run has finished.
- A section of a playbook that repeats a paragraph right after itself is quoted without the
  repetition, which looks like the overlap of two chunks.
- A word longer than a chunk is cut in the middle and quoted with a blank or a paragraph break in it.
- Two concurrent ingests of documents, and a change of the chunker's own code, which does not
  count as a change of any document.
- A turn that fails may already have closed findings; a client that gives up is not told that
  its turn was saved.
- Run ids reused across weeks, killed runs that stay RUNNING, and ladder references from a
  later week.

## 7. Not modelled

- LLM and embedding providers: adapters to external services. The model is arbitrary wherever
  it is used.
- The command-line chat (a loop over `run_turn` with its history in memory) and the standalone
  engine run (a prefix of the weekly run, used by hand): nothing of their own to state.
- The web UI beyond its client and timeout: it renders what the API answers.
- Ranking by similarity, the rank of a case, samples, tables and all texts.
- Data generation, seeding, notebooks and evaluations: offline, not part of the running system.
- Configuration and connections: settings are constants, tables are variables.

## 8. Plan

1. (done) pricing, SAP, weekly pipeline, refinement of `PriceDelivery`, first proofs.
2. (done) triage cases, scans, decisions, sweeps, findings and their proofs.
3. (done) tool calls with run resolver, cache and findings, and their proofs; chat session,
   router and loop; sales outcome and investigation; knowledge base; notices and their proofs.
4. (done) proofs of the chat session, of delivery with the refinement of `PriceDelivery`, of
   rejections, of an investigation's evidence and of incremental ingests.
5. (done) the proof of `LongSectionsQuoted`; `Conversation` and the proof that a chat session
   implements it. Every safety and action property of a passing run is now a theorem.
6. (done) lists that lose items between scans, sentences longer than a chunk.
7. An abstract case lifecycle that `TriageCases` implements; two overlapping scans of a week,
   with the row-by-row locks of `sync`.
8. `WeeklyPipeline` over two weeks, and the engine's reads one by one.
