------------------------------ MODULE ToolCache ------------------------------
(***************************************************************************)
(* A tool call of the diagnostic API (services/diagnostic_api/tools.py),   *)
(* the cache it goes through (cache.py), the run it is answered from       *)
(* (runs.py), and what a diagnosis does to the session and to the findings *)
(* (state.py, findings.py), while the pipeline reruns, SAP changes and a   *)
(* new list and new rules are ingested.                                    *)
(*                                                                         *)
(* A call reads the warehouse, Postgres and SAP one after the other, and   *)
(* each read is a step.  resolve_products and get_findings are not cached; *)
(* search_docs is keyed by the version of the documents (Knowledge).       *)
(***************************************************************************)
EXTENDS Diagnosis, Sequences, SequencesExt, FiniteSetsExt

CONSTANTS
    Run,           \* run ids, 1..n in the order of their names
    Caller,        \* a session of a user
    Allowed,       \* Allowed[u]: the regions the user may see
    Tool,          \* the cached tools the model calls
    TTL,           \* ticks that a live answer may be reused
    KEEP,          \* SNAPSHOT_KEEP: ticks after which an entry is purged
    MAX_CHECKS,    \* remembered checks of a session
    Tracked,       \* bound: the problems that people confirm
    Moving,        \* bound: the items whose row, condition, listing or rules change
    RowValues,     \* bound: the row statuses a run writes
    HeldValues,    \* bound: the conditions SAP comes to hold
    Narrowed,      \* bound: the regions arguments of the model
    RunArguments,  \* bound: its run_id arguments, {} (none) or {run}
    MaxTime,       \* bound: ticks
    MaxCalls,      \* bound: tool calls
    MaxChanges,    \* bound: changes in the week, and failures of SAP and of the cache
    MaxFindings    \* bound: findings people confirm

\* What a tool reads, in order.  A live tool reads SAP as it is now.
Reads == [diagnose_batch |-> <<"list", "run", "rows", "sap", "rules">>,
          check_rules |-> <<"list", "run", "rows", "rules">>,
          get_sap_conditions |-> <<"list", "sap">>,
          get_api_log |-> <<"list", "run", "log">>]
CACHE_KIND == [diagnose_batch |-> "live", check_rules |-> "snapshot",
               get_sap_conditions |-> "live", get_api_log |-> "snapshot"]

ASSUME ToolCacheAssumption ==
    /\ Run \subseteq Nat \ {0}
    /\ Allowed \in [Caller -> SUBSET Region] /\ Tool \subseteq DOMAIN Reads
    /\ NoPack \notin Pack
    /\ TTL \in Nat \ {0} /\ KEEP \in Nat /\ TTL <= KEEP /\ MAX_CHECKS \in Nat \ {0}
    /\ Tracked \subseteq Code \ {OK, "NOT_IN_LIST"}
    /\ RowValues \subseteq RowStatus /\ HeldValues \subseteq Held /\ Moving \subseteq Item
    /\ Narrowed \subseteq SUBSET Region /\ \A a \in RunArguments : a = {} \/ \E r \in Run : a = {r}
    /\ {MaxTime, MaxCalls, MaxChanges, MaxFindings} \subseteq Nat

VARIABLES
    now,
    runs,          \* pipeline_runs: status, and the count of finishes when it finished
    finishes,      \* runs that have finished so far: the clock of finished_at
    rows,          \* price_recommendations: per run, the items with a row
    listed,        \* clearance_candidates
    strict,        \* the items whose price breaks business_rules as ingested last
    held,          \* SAP's conditions
    findings,      \* the findings table; a finding's id is its position
    cache,         \* tool_cache: per key, the result and when it was saved
    call,          \* per caller: the tool call on its way
    checks,        \* per caller: last_checks of the session
    clear,         \* per run, item and problem: the last tick at which the item did not have it
    calls, changes

pipeline == <<runs, finishes, rows>>
week == <<runs, finishes, rows, listed, strict, held>>
vars == <<now, runs, finishes, rows, listed, strict, held, findings, cache, call, checks,
          clear, calls, changes>>

FINISHED == {"SUCCEEDED", "COMPLETED_WITH_ISSUES", "BLOCKED"}
Empty == [x \in {} |-> x]

\* The view a diagnosis of run r would have if it read everything at once; r = 0: no run has rows.
ViewOf(r) == [listed |-> listed, rows |-> IF r = 0 THEN Empty ELSE rows[r],
              breaks |-> strict, held |-> held]
Has(r, i, c) == i \in listed /\ verdict(ViewOf(r), i) = c

Version == Nat \X Nat
Key == [tool : Tool, skus : SUBSET Sku, asked : SUBSET SUBSET Region, allowed : SUBSET Region,
        run : SUBSET Run, version : SUBSET Version]
Result == [regions : SUBSET Region, as_of : Nat, run : Run \cup {0}, failing : Failing, seen : Nat]
Check == [as_of : Nat, regions : SUBSET Region, failing : Failing]
Entry == [result : Result, saved : Nat, live : BOOLEAN]
Finding == [region : Region, code : Tracked, skus : SUBSET Sku, status : {"open", "auto", "closed"}]

NoResult == [regions |-> {}, as_of |-> 0, run |-> 0, failing |-> Empty, seen |-> 0]
\* key: {} (no caching) or {key}.  asked: {} (all) or {regions}.  requested: {} or {run}.
\* newest: the finish of the newest finished run when the call made its key.
NoCall == [pc |-> "idle", tool |-> "none", skus |-> {}, asked |-> {}, requested |-> {}, key |-> {},
           newest |-> 0, step |-> 1, regions |-> {}, run |-> {}, seen |-> 0,
           view |-> [listed |-> {}, rows |-> Empty, breaks |-> {}, held |-> Empty], row_run |-> 0,
           result |-> NoResult]
Call == [pc : {"idle", "plan", "get", "read", "finish"}, tool : Tool \cup {"none"}, skus : SUBSET Sku,
         asked : SUBSET SUBSET Region, requested : SUBSET Run, key : SUBSET Key, newest : Nat, step : Nat,
         regions : SUBSET Region, run : SUBSET Run, seen : Nat, view : View, row_run : Run \cup {0}, result : Result]

Init ==
    /\ now = 1
    /\ runs = [r \in Run |-> [status |-> "absent", stamp |-> 0]]
    /\ finishes = 0
    /\ rows = [r \in Run |-> Empty]
    /\ listed = Item /\ strict = {} /\ held = Empty
    /\ findings = <<>>
    /\ cache = Empty
    /\ call = [u \in Caller |-> NoCall]
    /\ checks = [u \in Caller |-> Empty]
    /\ clear = [x \in (Run \cup {0}) \X Item \X Tracked |-> IF Has(x[1], x[2], x[3]) THEN 0 ELSE 1]
    /\ calls = 0 /\ changes = 0

------------------------------------------------------------------------------
(* The week around the calls *)

\* Every step remembers when each problem was last absent.
Watch == clear' = [x \in DOMAIN clear |-> IF Has(x[1], x[2], x[3])' THEN clear[x] ELSE now']

Counted == changes < MaxChanges /\ changes' = changes + 1
WeekChanges == Counted
               /\ UNCHANGED <<now, findings, cache, call, checks, calls>> /\ Watch

\* start_run, also of a run id that finished before.
RunStarts(r) ==
    /\ runs[r].status # "RUNNING"
    /\ runs' = [runs EXCEPT ![r].status = "RUNNING"]
    /\ UNCHANGED <<finishes, rows, listed, strict, held>>
    /\ WeekChanges

\* The engine replaces a row of the run or removes it, or the sender stores SAP's answer.
RunWrites(r, i) ==
    /\ runs[r].status = "RUNNING"
    /\ \/ \E s \in RowValues : rows' = [rows EXCEPT ![r] = [x \in DOMAIN @ \cup {i} |-> IF x = i THEN s ELSE @[x]]]
       \/ i \in DOMAIN rows[r] /\ rows' = [rows EXCEPT ![r] = Restrict(@, DOMAIN @ \ {i})]
    /\ UNCHANGED <<runs, finishes, listed, strict, held>>
    /\ WeekChanges

RunEnds(r, status) ==
    /\ runs[r].status = "RUNNING"
    /\ IF status \in FINISHED
       THEN runs' = [runs EXCEPT ![r] = [status |-> status, stamp |-> finishes + 1]] /\ finishes' = finishes + 1
       ELSE runs' = [runs EXCEPT ![r].status = status] /\ UNCHANGED finishes
    /\ UNCHANGED <<rows, listed, strict, held>>
    /\ WeekChanges

\* The sender, another system or a promotion changes what SAP holds.
SapChanges(i) ==
    /\ \/ \E h \in HeldValues : ~Is(held, i, h) /\ held' = [x \in DOMAIN held \cup {i} |-> IF x = i THEN h ELSE held[x]]
       \/ i \in DOMAIN held /\ held' = Restrict(held, DOMAIN held \ {i})
    /\ UNCHANGED <<pipeline, listed, strict>>
    /\ WeekChanges

\* A run of the week ingests its list and its rules again.
Ingest(i) ==
    /\ \/ listed' = SymDiff(listed, {i}) /\ UNCHANGED strict
       \/ strict' = SymDiff(strict, {i}) /\ UNCHANGED listed
    /\ UNCHANGED <<pipeline, held>>
    /\ WeekChanges

\* A call takes less than a tick.
Tick ==
    /\ now < MaxTime /\ \A u \in Caller : call[u].pc = "idle"
    /\ now' = now + 1
    /\ UNCHANGED <<week, findings, cache, call, checks, calls, changes>>
    /\ Watch

------------------------------------------------------------------------------
(* The run that answers, and the cache *)

Finished == {r \in Run : runs[r].status \in FINISHED}
\* RunResolver.latest: the newest finish, if any.
Latest == {r \in Finished : \A x \in Finished : runs[x].stamp <= runs[r].stamp}
\* The finish of the newest finished run.
Newest == IF Latest = {} THEN 0 ELSE runs[CHOOSE r \in Latest : TRUE].stamp

\* _run: the newest finished run and its data_version, or what the model asked for.
_run(requested) ==
    IF Latest # {} THEN [run |-> Latest, version |-> {<<r, runs[r].stamp>> : r \in Latest}]
    ELSE [run |-> requested, version |-> {<<r, 0>> : r \in requested}]

\* get_recommendations: without a run, the last run id that has rows.
LastWithRows == {r \in Run : DOMAIN rows[r] # {} /\ \A x \in Run : DOMAIN rows[x] # {} => x <= r}
RowRuns(run) == IF run # {} THEN run ELSE IF LastWithRows # {} THEN LastWithRows ELSE {0}

\* MUTANT: users with different access share entries.
key_NoAllowed(u, name, skus, asked, found) ==
    [tool |-> name, skus |-> skus, asked |-> asked, allowed |-> {}, run |-> found.run, version |-> found.version]
\* MUTANT: the version of the run is not part of the key.
key_NoVersion(u, name, skus, asked, found) ==
    [tool |-> name, skus |-> skus, asked |-> asked, allowed |-> Allowed[u], run |-> found.run,
     version |-> {<<v[1], 0>> : v \in found.version}]
key(u, name, skus, asked, found) ==
    [tool |-> name, skus |-> skus, asked |-> asked, allowed |-> Allowed[u], run |-> found.run, version |-> found.version]

\* MUTANT: an answer is reused in the tick in which it expires.
Fresh_AtExpiry(entry) == entry.live => now <= entry.saved + TTL
Fresh(entry) == entry.live => now < entry.saved + TTL
Cached(k) == k \in DOMAIN cache /\ Fresh(cache[k])

\* The model calls a tool on some products, in all regions or in some.
Ask(u) ==
    /\ call[u].pc = "idle" /\ calls < MaxCalls
    /\ \E name \in Tool, skus \in (SUBSET Sku) \ {{}}, asked \in {{}} \cup {{R} : R \in Narrowed},
          requested \in RunArguments :
          call' = [call EXCEPT ![u] = [NoCall EXCEPT !.pc = "plan", !.tool = name, !.skus = skus, !.asked = asked,
                                                     !.requested = requested]]
    /\ calls' = calls + 1
    /\ UNCHANGED <<now, week, findings, cache, checks, clear, changes>>

\* _cache_plan: the key; a snapshot needs a version.
Plan(u) ==
    /\ call[u].pc = "plan"
    /\ LET found == _run(call[u].requested)
           none  == CACHE_KIND[call[u].tool] = "snapshot" /\ found.version = {}
       IN  call' = [call EXCEPT ![u].pc = IF none THEN "read" ELSE "get",
                                ![u].key = IF none THEN {} ELSE {key(u, call[u].tool, call[u].skus, call[u].asked, found)},
                                ![u].newest = Newest]
    /\ UNCHANGED <<now, week, findings, cache, checks, clear, calls, changes>>

Answered(c, result) == [NoCall EXCEPT !.pc = "finish", !.tool = c.tool, !.skus = c.skus, !.key = c.key,
                                      !.newest = c.newest, !.result = result]

\* ToolCache.get; a cache that cannot be read is a miss.
Get(u) ==
    /\ call[u].pc = "get"
    /\ \/ \E k \in call[u].key : Cached(k) /\ call' = [call EXCEPT ![u] = Answered(@, cache[k].result)]
          /\ UNCHANGED changes
       \/ (\A k \in call[u].key : ~Cached(k)) /\ call' = [call EXCEPT ![u].pc = "read"] /\ UNCHANGED changes
       \/ call' = [call EXCEPT ![u].pc = "read"] /\ Counted
    /\ UNCHANGED <<now, week, findings, cache, checks, clear, calls>>

------------------------------------------------------------------------------
(* The tool itself *)

\* _regions: the listed regions that the user may see; others cannot be asked for.
Available(u) == {i[3] : i \in listed} \cap Allowed[u]

Next_is(u, what) == call[u].pc = "read" /\ call[u].step \in DOMAIN Reads[call[u].tool]
                    /\ Reads[call[u].tool][call[u].step] = what
Reading(u, c) == call' = [call EXCEPT ![u] = [c EXCEPT !.step = @ + 1]]
                 /\ UNCHANGED <<now, week, findings, cache, checks, clear, calls, changes>>

ReadList(u) ==
    /\ Next_is(u, "list") /\ UNION call[u].asked \subseteq Available(u)
    /\ Reading(u, [call[u] EXCEPT !.view.listed = listed,
                                  !.regions = IF call[u].asked = {} THEN Available(u) ELSE UNION call[u].asked])
ReadRun(u) ==
    /\ Next_is(u, "run")
    /\ Reading(u, [call[u] EXCEPT !.run = _run(call[u].requested).run, !.seen = finishes])
ReadRows(u) ==
    /\ Next_is(u, "rows")
    /\ \E r \in RowRuns(call[u].run) : Reading(u, [call[u] EXCEPT !.row_run = r, !.view.rows = ViewOf(r).rows])
ReadRules(u) == Next_is(u, "rules") /\ Reading(u, [call[u] EXCEPT !.view.breaks = strict])
ReadSap(u) == Next_is(u, "sap") /\ Reading(u, [call[u] EXCEPT !.view.held = held])
ReadLog(u) == Next_is(u, "log") /\ Reading(u, call[u])

\* A ToolError: regions that are not available, or SAP does not answer.
Fails(u) ==
    /\ \/ Next_is(u, "list") /\ ~(UNION call[u].asked \subseteq Available(u)) /\ UNCHANGED changes
       \/ (Next_is(u, "sap") \/ Next_is(u, "log")) /\ Counted
    /\ call' = [call EXCEPT ![u] = NoCall]
    /\ UNCHANGED <<now, week, findings, cache, checks, clear, calls>>

\* A tool that never asks which run is current has seen what is current now.
Answer(u) ==
    LET c == call[u]
    IN  [regions |-> c.regions, as_of |-> now, run |-> c.row_run,
         failing |-> IF c.tool = "diagnose_batch" THEN diagnose(c.view, c.skus, c.regions) ELSE Empty,
         seen |-> IF "run" \in Range(Reads[c.tool]) THEN c.seen ELSE finishes]

\* ToolCache.save: purge, then insert or replace.  A cache that cannot be written is left alone.
Save(u) ==
    /\ call[u].pc = "read" /\ call[u].step > Len(Reads[call[u].tool])
    /\ call' = [call EXCEPT ![u] = Answered(@, Answer(u))]
    /\ LET kept == {k \in DOMAIN cache : Fresh(cache[k]) /\ now <= cache[k].saved + KEEP}
           entry == [result |-> Answer(u), saved |-> now, live |-> CACHE_KIND[call[u].tool] = "live"]
       IN  \/ call[u].key = {} /\ UNCHANGED <<cache, changes>>
           \/ call[u].key # {} /\ UNCHANGED cache /\ Counted
           \/ call[u].key # {} /\ UNCHANGED changes
              /\ cache' = [k \in kept \cup call[u].key |-> IF k \in call[u].key THEN entry ELSE cache[k]]
    /\ UNCHANGED <<now, week, findings, checks, clear, calls>>

------------------------------------------------------------------------------
(* After the answer: the findings and the session *)

\* auto_resolve: the open findings whose whole scope was checked and that no record shows any more.
Covers(result, skus, f) == f.region \in result.regions /\ f.skus \subseteq skus
Shows(failing, f) == \E x \in DOMAIN failing : x[3] = f.region /\ x[1] \in f.skus /\ failing[x] = f.code
Closes(result, skus, f) == f.status = "open" /\ Covers(result, skus, f) /\ ~Shows(result.failing, f)

CheckOf(result) == [as_of |-> result.as_of, regions |-> result.regions, failing |-> result.failing]
\* record_check: what is reported as resolved since the last check of the same products.
Reported(u) ==
    IF call[u].skus \in DOMAIN checks[u] THEN Gone(checks[u][call[u].skus], CheckOf(call[u].result)) ELSE {}

\* record_check: remember the diagnosis, forgetting the oldest beyond MAX_CHECKS.
Remember(u, skus, check) ==
    LET all == [s \in DOMAIN checks[u] \cup {skus} |-> IF s = skus THEN check ELSE checks[u][s]]
    IN  IF Cardinality(DOMAIN all) <= MAX_CHECKS THEN checks' = [checks EXCEPT ![u] = all]
        ELSE \E old \in DOMAIN all :
                /\ \A s \in DOMAIN all : all[old].as_of <= all[s].as_of
                /\ checks' = [checks EXCEPT ![u] = Restrict(all, DOMAIN all \ {old})]

Finish(u) ==
    /\ call[u].pc = "finish"
    /\ LET c == call[u]
       IN  IF c.tool # "diagnose_batch" THEN UNCHANGED <<findings, checks>>
           ELSE /\ findings' = [n \in DOMAIN findings |-> IF Closes(c.result, c.skus, findings[n])
                                   THEN [findings[n] EXCEPT !.status = "auto"] ELSE findings[n]]
                /\ Remember(u, c.skus, CheckOf(c.result))
    /\ call' = [call EXCEPT ![u] = NoCall]
    /\ UNCHANGED <<now, week, cache, clear, calls, changes>>

\* A person confirms what fails now, or closes a finding.
Confirm(region, code) ==
    /\ Len(findings) < MaxFindings
    /\ LET failing == diagnose(ViewOf(IF Latest = {} THEN 0 ELSE CHOOSE r \in Latest : TRUE), Sku, Region)
           skus == {x[1] : x \in {y \in DOMAIN failing : y[3] = region /\ failing[y] = code}}
       IN  /\ skus # {}
           /\ findings' = Append(findings, [region |-> region, code |-> code, skus |-> skus, status |-> "open"])
    /\ UNCHANGED <<now, week, cache, call, checks, clear, calls, changes>>

Resolve(n) ==
    /\ findings[n].status = "open"
    /\ findings' = [findings EXCEPT ![n].status = "closed"]
    /\ UNCHANGED <<now, week, cache, call, checks, clear, calls, changes>>

Next ==
    \/ \E r \in Run : RunStarts(r) \/ \E i \in Moving : RunWrites(r, i)
    \/ \E r \in Run, status \in {"SUCCEEDED", "FAILED"} : RunEnds(r, status)
    \/ \E i \in Moving : SapChanges(i) \/ Ingest(i)
    \/ Tick
    \/ \E u \in Caller :
          \/ Ask(u) \/ Plan(u) \/ Get(u)
          \/ ReadList(u) \/ ReadRun(u) \/ ReadRows(u) \/ ReadRules(u) \/ ReadSap(u) \/ ReadLog(u) \/ Fails(u)
          \/ Save(u) \/ Finish(u)
    \/ \E region \in Region, code \in Tracked : Confirm(region, code)
    \/ \E n \in DOMAIN findings : Resolve(n)

Spec == Init /\ [][Next]_vars

------------------------------------------------------------------------------
(* Properties *)

TypeOK ==
    /\ now \in Nat /\ finishes \in Nat /\ calls \in Nat /\ changes \in Nat
    /\ runs \in [Run -> [status : {"absent", "RUNNING", "FAILED"} \cup FINISHED, stamp : Nat]]
    /\ rows \in [Run -> Partial(Item, RowStatus)]
    /\ listed \subseteq Item /\ strict \subseteq Item /\ held \in Partial(Item, Held)
    /\ findings \in Seq(Finding)
    /\ cache \in [DOMAIN cache -> Entry] /\ DOMAIN cache \subseteq Key
    /\ call \in [Caller -> Call]
    /\ checks = [u \in Caller |-> checks[u]]
    /\ \A u \in Caller : checks[u] \in [DOMAIN checks[u] -> Check] /\ DOMAIN checks[u] \subseteq SUBSET Sku
    /\ clear \in [(Run \cup {0}) \X Item \X Tracked -> Nat]

\* Whatever is shared between users, a user is answered only about regions he may see.
CacheNeverWidens == \A u \in Caller : call[u].pc = "finish" => call[u].result.regions \subseteq Allowed[u]

\* An answer that comes under the version of a finished run was computed when that finish was
\* known: a rerun of the same run id never gets an answer about the run before it.
NeverOlderThanTheRun ==
    \A u \in Caller : call[u].pc = "finish" => call[u].result.seen >= call[u].newest

\* A finding that a diagnosis closes was gone: each of its records was seen without the problem,
\* in the run that was diagnosed, within the time a live answer may be reused.
ResolvedByEvidence ==
    [][\A n \in DOMAIN findings, u \in Caller :
          findings[n].status = "open" /\ findings'[n].status = "auto" /\ call[u].pc = "finish" /\ call'[u].pc = "idle"
          => \A i \in Item : i[1] \in findings[n].skus /\ i[3] = findings[n].region
                => clear[<<call[u].result.run, i, findings[n].code>>] + TTL > now]_vars

\* A record reported as resolved since the last check was without the problem it had, in the run
\* that was diagnosed, within the same time.
ReportedGoneWasGone ==
    \A u \in Caller : call[u].pc = "finish" /\ call[u].tool = "diagnose_batch"
        => \A x \in Item, c \in Tracked : <<x, c>> \in Reported(u) => clear[<<call[u].result.run, x, c>>] + TTL > now

==============================================================================
