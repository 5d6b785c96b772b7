--------------------------- MODULE ToolCacheProofs ---------------------------
(* Proofs about module ToolCache, for any users, regions, runs, products and  *)
(* tools: what a tool call is answered with, and what a diagnosis closes or   *)
(* reports as resolved.                                                       *)
EXTENDS ToolCache, TLAPS

(* Operators *)

LEMMA ReadsSeq == \A t \in DOMAIN Reads : Len(Reads[t]) \in Nat /\ DOMAIN Reads[t] = 1 .. Len(Reads[t])
  <1>1. DOMAIN Reads = {"diagnose_batch", "check_rules", "get_sap_conditions", "get_api_log"}
    BY DEF Reads
  <1>2. Reads["diagnose_batch"] = <<"list", "run", "rows", "sap", "rules">>
    BY DEF Reads
  <1>3. Reads["check_rules"] = <<"list", "run", "rows", "rules">>
    BY DEF Reads
  <1>4. Reads["get_sap_conditions"] = <<"list", "sap">>
    BY DEF Reads
  <1>5. Reads["get_api_log"] = <<"list", "run", "log">>
    BY DEF Reads
  <1> DEFINE P(q) == Len(q) \in Nat /\ DOMAIN q = 1 .. Len(q)
  <1>6. P(<<"list", "run", "rows", "sap", "rules">>) /\ P(<<"list", "run", "rows", "rules">>)
    OBVIOUS
  <1>7. P(<<"list", "sap">>) /\ P(<<"list", "run", "log">>)
    OBVIOUS
  <1> QED BY <1>1, <1>2, <1>3, <1>4, <1>5, <1>6, <1>7

LEMMA PartialElim ==
    ASSUME NEW S, NEW T, NEW f \in Partial(S, T)
    PROVE  f = [x \in DOMAIN f |-> f[x]] /\ DOMAIN f \subseteq S /\ \A x \in DOMAIN f : f[x] \in T
  BY DEF Partial

LEMMA PartialIntro ==
    ASSUME NEW S, NEW T, NEW D \in SUBSET S, NEW f \in [D -> T]
    PROVE  f \in Partial(S, T)
  BY DEF Partial

LEMMA EmptyPartial == \A S, T : Empty \in Partial(S, T)
  BY DEF Partial, Empty

LEMMA NotAcceptedCodes == \A s \in DOMAIN NotAccepted : NotAccepted[s] \in {"NOT_SENT", "API_REJECTED"}
  BY DEF NotAccepted

LEMMA VerdictType == \A view, i : verdict(view, i) \in Code \ {"NOT_IN_LIST"}
  BY NotAcceptedCodes DEF verdict, reconcile, Code

\* A diagnosis fails records of the products and regions it was asked about.
LEMMA DiagnoseType ==
    ASSUME NEW view, view.listed \subseteq Item, NEW skus \in SUBSET Sku, NEW regions \in SUBSET Region
    PROVE  /\ diagnose(view, skus, regions) \in Failing
           /\ \A x \in DOMAIN diagnose(view, skus, regions) : x[1] \in skus /\ x[3] \in regions
  <1> DEFINE D == DOMAIN diagnose(view, skus, regions)
  <1>1. \A x \in D : x \in Record /\ x[1] \in skus /\ x[3] \in regions
    <2> SUFFICES ASSUME NEW x \in D
                 PROVE  x \in Record /\ x[1] \in skus /\ x[3] \in regions
      OBVIOUS
    <2> DEFINE L == {i \in view.listed : <<i[1], i[3]>> \in skus \X regions}
    <2>1. x \in L \/ \E p \in skus \X regions : x = <<p[1], NoPack, p[2]>>
      BY DEF diagnose
    <2>2. CASE x \in L
      BY <2>2 DEF Record, Item
    <2>3. CASE \E p \in skus \X regions : x = <<p[1], NoPack, p[2]>>
      BY <2>3 DEF Record
    <2> QED BY <2>1, <2>2, <2>3
  <1>2. diagnose(view, skus, regions) \in [D -> Code]
    BY VerdictType DEF diagnose, Code
  <1> QED BY <1>1, <1>2, PartialIntro DEF Failing

\* What each source must show for the verdict on a listed item to be c.
RowsAllow(known, i, c) ==
    IF i \notin DOMAIN known THEN c = "NO_RECOMMENDATION"
    ELSE IF known[i] = "SKIPPED" THEN c = "SKIPPED"
    ELSE \/ c = "RULE_VIOLATION"
         \/ IF known[i] \in DOMAIN NotAccepted THEN c = NotAccepted[known[i]]
            ELSE c \in {"MISSING_IN_SAP", "PRICE_MISMATCH", "NOT_EFFECTIVE", "CONFIRMED"}
RulesAllow(breaks, i, c) == c \in {"NO_RECOMMENDATION", "SKIPPED"} \/ (c = "RULE_VIOLATION" <=> i \in breaks)
SapAllows(known, i, c) ==
    c \in {"MISSING_IN_SAP", "PRICE_MISMATCH", "NOT_EFFECTIVE", "CONFIRMED"} => c = reconcile([held |-> known], i)

LEMMA VerdictBySource ==
    ASSUME NEW view, NEW i, NEW c
    PROVE  verdict(view, i) = c <=>
              RowsAllow(view.rows, i, c) /\ RulesAllow(view.breaks, i, c) /\ SapAllows(view.held, i, c)
  <1>1. reconcile(view, i) = reconcile([held |-> view.held], i)
    BY DEF reconcile, Is
  <1>2. reconcile(view, i) \in {"MISSING_IN_SAP", "PRICE_MISMATCH", "NOT_EFFECTIVE", "CONFIRMED"}
    BY DEF reconcile
  <1> QED BY <1>1, <1>2, NotAcceptedCodes DEF verdict, RowsAllow, RulesAllow, SapAllows

(***************************************************************************)
(* Types                                                                   *)
(***************************************************************************)

\* A caller that is not idle is in one of the model's tools.
Busy == \A u \in Caller : call[u].pc # "idle" => call[u].tool \in Tool
Typed == TypeOK /\ Busy

LEMMA NoCallType == NoCall \in Call /\ NoResult \in Result
  <1>1. NoResult \in Result
    BY EmptyPartial DEF NoResult, Result, Failing
  <1>2. NoCall.view \in View
    BY EmptyPartial DEF NoCall, View
  <1> QED BY <1>1, <1>2 DEF NoCall, Call

LEMMA ToolsRead == \A t \in Tool : t \in DOMAIN Reads /\ t \in DOMAIN CACHE_KIND
  BY ToolCacheAssumption DEF Reads, CACHE_KIND

\* The runs that are found are runs.
LEMMA RunsFound ==
    ASSUME TypeOK
    PROVE  /\ Latest \subseteq Run
           /\ \A q \in SUBSET Run : _run(q).run \subseteq Run /\ _run(q).version \subseteq Version
           /\ \A q \in SUBSET Run : RowRuns(q) \subseteq Run \cup {0}
           /\ \A r \in Run \cup {0} : ViewOf(r).rows \in Partial(Item, RowStatus)
  <1>1. Latest \subseteq Run
    BY DEF Latest, Finished
  <1>2. \A q \in SUBSET Run : _run(q).run \subseteq Run /\ _run(q).version \subseteq Version
    BY <1>1, ToolCacheAssumption DEF _run, Version, TypeOK
  <1>3. \A q \in SUBSET Run : RowRuns(q) \subseteq Run \cup {0}
    BY DEF RowRuns, LastWithRows
  <1>4. \A r \in Run \cup {0} : ViewOf(r).rows \in Partial(Item, RowStatus)
    BY EmptyPartial DEF ViewOf, TypeOK
  <1> QED BY <1>1, <1>2, <1>3, <1>4

\* The steps of a call, each with what becomes of the call.
LEMMA CallAsk ==
    ASSUME Typed, NEW u \in Caller, Ask(u)
    PROVE  call' \in [Caller -> Call] /\ Busy'
  <1>1. PICK name \in Tool, skus \in (SUBSET Sku) \ {{}}, asked \in {{}} \cup {{R} : R \in Narrowed},
             requested \in RunArguments :
          call' = [call EXCEPT ![u] = [NoCall EXCEPT !.pc = "plan", !.tool = name, !.skus = skus, !.asked = asked,
                                                     !.requested = requested]]
    BY DEF Ask
  <1> DEFINE c == [NoCall EXCEPT !.pc = "plan", !.tool = name, !.skus = skus, !.asked = asked,
                                 !.requested = requested]
  <1>2. asked \in SUBSET SUBSET Region /\ requested \in SUBSET Run
    BY ToolCacheAssumption
  <1>3. c \in Call /\ c.tool \in Tool
    BY <1>2, NoCallType DEF Call
  <1> QED BY <1>1, <1>3 DEF Typed, TypeOK, Busy

LEMMA CallPlan ==
    ASSUME Typed, NEW u \in Caller, Plan(u)
    PROVE  call' \in [Caller -> Call] /\ Busy'
  <1> DEFINE found == _run(call[u].requested)
  <1>1. call[u] \in Call /\ call[u].tool \in Tool /\ call[u].pc = "plan"
    BY DEF Typed, TypeOK, Busy, Plan
  <1>2. found.run \subseteq Run /\ found.version \subseteq Version
    BY <1>1, RunsFound DEF Typed, Call
  <1>3. key(u, call[u].tool, call[u].skus, call[u].asked, found) \in Key
    BY <1>1, <1>2, ToolCacheAssumption DEF key, Key, Call
  <1>4. Newest \in Nat
    BY RunsFound DEF Newest, Typed, TypeOK
  <1>5. PICK p \in {"read", "get"}, K \in SUBSET Key :
            call' = [call EXCEPT ![u].pc = p, ![u].key = K, ![u].newest = Newest]
    <2> DEFINE none  == CACHE_KIND[call[u].tool] = "snapshot" /\ found.version = {}
    <2>1. CASE none
      BY <1>3, <1>4, <2>1 DEF Plan
    <2>2. CASE ~none
      BY <1>3, <1>4, <2>2 DEF Plan
    <2> QED BY <2>1, <2>2
  <1>6. call' = [call EXCEPT ![u] = [call[u] EXCEPT !.pc = p, !.key = K, !.newest = Newest]]
    BY <1>5, <1>1 DEF Typed, TypeOK, Call
  <1>7. [call[u] EXCEPT !.pc = p, !.key = K, !.newest = Newest] \in Call
    BY <1>1, <1>4 DEF Call
  <1> QED BY <1>1, <1>6, <1>7 DEF Typed, TypeOK, Busy, Call

LEMMA AnsweredType ==
    ASSUME NEW c \in Call, NEW result \in Result
    PROVE  /\ Answered(c, result) \in Call
           /\ Answered(c, result).pc = "finish" /\ Answered(c, result).tool = c.tool
           /\ Answered(c, result).skus = c.skus /\ Answered(c, result).key = c.key
           /\ Answered(c, result).newest = c.newest /\ Answered(c, result).result = result
           /\ Answered(c, result).regions = {}
  BY NoCallType DEF Answered, Call, NoCall

LEMMA CallGet ==
    ASSUME Typed, NEW u \in Caller, Get(u)
    PROVE  call' \in [Caller -> Call] /\ Busy'
  <1>1. call[u] \in Call /\ call[u].tool \in Tool /\ call[u].pc = "get" /\ call \in [Caller -> Call]
    BY DEF Typed, TypeOK, Busy, Get
  <1>2. CASE \E k \in call[u].key : Cached(k) /\ call' = [call EXCEPT ![u] = Answered(@, cache[k].result)]
    <2>1. PICK k \in call[u].key : Cached(k) /\ call' = [call EXCEPT ![u] = Answered(@, cache[k].result)]
      BY <1>2
    <2>2. cache[k].result \in Result
      BY <2>1 DEF Cached, Typed, TypeOK, Entry
    <2>3. Answered(call[u], cache[k].result) \in Call /\ Answered(call[u], cache[k].result).tool \in Tool
      BY <1>1, <2>2, AnsweredType
    <2> QED BY <1>1, <2>1, <2>3 DEF Typed, Busy
  <1>3. CASE call' = [call EXCEPT ![u].pc = "read"]
    <2>1. call' = [call EXCEPT ![u] = [call[u] EXCEPT !.pc = "read"]]
      BY <1>3, <1>1 DEF Call
    <2>2. [call[u] EXCEPT !.pc = "read"] \in Call /\ [call[u] EXCEPT !.pc = "read"].tool = call[u].tool
      BY <1>1 DEF Call
    <2> QED BY <1>1, <2>1, <2>2 DEF Typed, Busy
  <1> QED BY <1>2, <1>3 DEF Get

LEMMA CallReading ==
    ASSUME Typed, NEW u \in Caller, NEW c \in Call, Reading(u, c), c.tool \in Tool
    PROVE  call' \in [Caller -> Call] /\ Busy'
  <1>1. call' = [call EXCEPT ![u] = [c EXCEPT !.step = c.step + 1]]
    BY DEF Reading
  <1>2. [c EXCEPT !.step = c.step + 1] \in Call /\ [c EXCEPT !.step = c.step + 1].tool \in Tool
    BY DEF Call
  <1> QED BY <1>1, <1>2 DEF Typed, TypeOK, Busy

\* What each read brings.
LEMMA CallReads ==
    ASSUME Typed, NEW u \in Caller,
           ReadList(u) \/ ReadRun(u) \/ ReadRows(u) \/ ReadRules(u) \/ ReadSap(u) \/ ReadLog(u)
    PROVE  call' \in [Caller -> Call] /\ Busy'
  <1>1. call[u] \in Call /\ call[u].tool \in Tool /\ call[u].view \in View
    BY DEF Typed, TypeOK, Busy, Call, ReadList, ReadRun, ReadRows, ReadRules, ReadSap, ReadLog, Next_is
  <1>2. listed \subseteq Item /\ strict \subseteq Item /\ held \in Partial(Item, Held) /\ finishes \in Nat
    BY DEF Typed, TypeOK
  <1>3. CASE ReadList(u)
    <2> DEFINE R == IF call[u].asked = {} THEN Available(u) ELSE UNION call[u].asked
               c == [call[u] EXCEPT !.view.listed = listed, !.regions = R]
               v == [call[u].view EXCEPT !.listed = listed]
    <2>1. Reading(u, c)
      BY <1>3 DEF ReadList
    <2>2. R \subseteq Region
      BY <1>3, <1>2 DEF ReadList, Available, Item
    <2>3. v \in View
      BY <1>1, <1>2 DEF View
    <2>4. c = [call[u] EXCEPT !.view = v, !.regions = R]
      BY <1>1 DEF Call
    <2>5. c \in Call /\ c.tool = call[u].tool
      BY <1>1, <2>2, <2>3, <2>4 DEF Call
    <2> QED BY <1>1, <2>1, <2>5, CallReading
  <1>4. CASE ReadRun(u)
    <2> DEFINE R == _run(call[u].requested).run
               c == [call[u] EXCEPT !.run = R, !.seen = finishes]
    <2>1. Reading(u, c)
      BY <1>4 DEF ReadRun
    <2>2. R \subseteq Run
      BY <1>1, RunsFound DEF Call, Typed
    <2>3. c \in Call /\ c.tool = call[u].tool
      BY <1>1, <1>2, <2>2 DEF Call
    <2> QED BY <1>1, <2>1, <2>3, CallReading
  <1>5. CASE ReadRows(u)
    <2>1. PICK r \in RowRuns(call[u].run) :
                 Reading(u, [call[u] EXCEPT !.row_run = r, !.view.rows = ViewOf(r).rows])
      BY <1>5 DEF ReadRows
    <2> DEFINE c == [call[u] EXCEPT !.row_run = r, !.view.rows = ViewOf(r).rows]
               v == [call[u].view EXCEPT !.rows = ViewOf(r).rows]
    <2>2. r \in Run \cup {0} /\ ViewOf(r).rows \in Partial(Item, RowStatus)
      BY <1>1, RunsFound DEF Call, Typed
    <2>3. v \in View
      BY <1>1, <2>2 DEF View
    <2>4. c = [call[u] EXCEPT !.row_run = r, !.view = v]
      BY <1>1 DEF Call
    <2>5. c \in Call /\ c.tool = call[u].tool
      BY <1>1, <2>2, <2>3, <2>4 DEF Call
    <2> QED BY <1>1, <2>1, <2>5, CallReading
  <1>6. CASE ReadRules(u)
    <2> DEFINE c == [call[u] EXCEPT !.view.breaks = strict]
               v == [call[u].view EXCEPT !.breaks = strict]
    <2>1. v \in View
      BY <1>1, <1>2 DEF View
    <2>2. c = [call[u] EXCEPT !.view = v]
      BY <1>1 DEF Call
    <2>3. c \in Call /\ c.tool = call[u].tool
      BY <1>1, <2>1, <2>2 DEF Call
    <2> QED BY <1>1, <1>6, <2>3, CallReading DEF ReadRules
  <1>7. CASE ReadSap(u)
    <2> DEFINE c == [call[u] EXCEPT !.view.held = held]
               v == [call[u].view EXCEPT !.held = held]
    <2>1. v \in View
      BY <1>1, <1>2 DEF View
    <2>2. c = [call[u] EXCEPT !.view = v]
      BY <1>1 DEF Call
    <2>3. c \in Call /\ c.tool = call[u].tool
      BY <1>1, <2>1, <2>2 DEF Call
    <2> QED BY <1>1, <1>7, <2>3, CallReading DEF ReadSap
  <1>8. CASE ReadLog(u)
    BY <1>1, <1>8, CallReading DEF ReadLog
  <1> QED BY <1>3, <1>4, <1>5, <1>6, <1>7, <1>8

LEMMA CallIdle ==
    ASSUME Typed, NEW u \in Caller, call' = [call EXCEPT ![u] = NoCall]
    PROVE  call' \in [Caller -> Call] /\ Busy'
  BY NoCallType DEF Typed, TypeOK, Busy, NoCall

LEMMA AnswerType ==
    ASSUME Typed, NEW u \in Caller, call[u].pc = "read"
    PROVE  /\ Answer(u) \in Result
           /\ Answer(u).regions = call[u].regions /\ Answer(u).run = call[u].row_run
           /\ \A x \in DOMAIN Answer(u).failing : x[1] \in call[u].skus /\ x[3] \in call[u].regions
  <1>1. call[u] \in Call /\ call[u].tool \in Tool
    BY DEF Typed, TypeOK, Busy
  <1>2. diagnose(call[u].view, call[u].skus, call[u].regions) \in Failing
        /\ \A x \in DOMAIN diagnose(call[u].view, call[u].skus, call[u].regions) :
               x[1] \in call[u].skus /\ x[3] \in call[u].regions
    <2>1. call[u].view.listed \subseteq Item /\ call[u].skus \in SUBSET Sku /\ call[u].regions \in SUBSET Region
      BY <1>1 DEF Call, View
    <2> QED BY <2>1, DiagnoseType
  <1>3. Empty \in Failing /\ DOMAIN Empty = {}
    BY EmptyPartial DEF Failing, Empty
  <1>4. Answer(u).failing \in Failing
        /\ \A x \in DOMAIN Answer(u).failing : x[1] \in call[u].skus /\ x[3] \in call[u].regions
    BY <1>2, <1>3 DEF Answer
  <1>5. Answer(u).seen \in Nat /\ Answer(u).as_of \in Nat /\ Answer(u).run \in Run \cup {0} /\ Answer(u).regions \in SUBSET Region
    BY <1>1 DEF Answer, Typed, TypeOK, Call
  <1>6. Answer(u) = [regions |-> Answer(u).regions, as_of |-> Answer(u).as_of, run |-> Answer(u).run,
                     failing |-> Answer(u).failing, seen |-> Answer(u).seen]
    BY DEF Answer
  <1>7. Answer(u) \in Result
    BY <1>4, <1>5, <1>6 DEF Result
  <1> QED BY <1>4, <1>7 DEF Answer

LEMMA CallSave ==
    ASSUME Typed, NEW u \in Caller, Save(u)
    PROVE  call' \in [Caller -> Call] /\ Busy'
  <1>1. call[u] \in Call /\ call[u].tool \in Tool /\ call[u].pc = "read"
    BY DEF Typed, TypeOK, Busy, Save
  <1>2. Answered(call[u], Answer(u)) \in Call /\ Answered(call[u], Answer(u)).tool \in Tool
    BY <1>1, AnswerType, AnsweredType
  <1>3. call' = [call EXCEPT ![u] = Answered(call[u], Answer(u))]
    BY DEF Save
  <1> QED BY <1>2, <1>3 DEF Typed, TypeOK, Busy

\* The steps that leave the calls alone.
CallsKept ==
    \/ \E r \in Run : RunStarts(r) \/ \E i \in Moving : RunWrites(r, i)
    \/ \E r \in Run, status \in {"SUCCEEDED", "FAILED"} : RunEnds(r, status)
    \/ \E i \in Moving : SapChanges(i) \/ Ingest(i)
    \/ Tick
    \/ \E region \in Region, code \in Tracked : Confirm(region, code)
    \/ \E n \in DOMAIN findings : Resolve(n)

LEMMA CallsKeptSame == CallsKept => UNCHANGED <<call, cache, checks>>
  BY DEF CallsKept, RunStarts, RunWrites, RunEnds, SapChanges, Ingest, WeekChanges, Tick, Confirm, Resolve

LEMMA CallTyped ==
    ASSUME Typed, [Next]_vars
    PROVE  call' \in [Caller -> Call] /\ Busy'
  <1>1. CASE CallsKept \/ UNCHANGED vars
    BY <1>1, CallsKeptSame DEF vars, Typed, TypeOK, Busy
  <1>2. ASSUME NEW u \in Caller, Ask(u) \/ Plan(u) \/ Get(u) PROVE call' \in [Caller -> Call] /\ Busy'
    BY <1>2, CallAsk, CallPlan, CallGet
  <1>3. ASSUME NEW u \in Caller,
               ReadList(u) \/ ReadRun(u) \/ ReadRows(u) \/ ReadRules(u) \/ ReadSap(u) \/ ReadLog(u)
        PROVE call' \in [Caller -> Call] /\ Busy'
    BY <1>3, CallReads
  <1>4. ASSUME NEW u \in Caller, Fails(u) \/ Finish(u) PROVE call' \in [Caller -> Call] /\ Busy'
    BY <1>4, CallIdle DEF Fails, Finish
  <1>5. ASSUME NEW u \in Caller, Save(u) PROVE call' \in [Caller -> Call] /\ Busy'
    BY <1>5, CallSave
  <1> QED BY <1>1, <1>2, <1>3, <1>4, <1>5 DEF Next, CallsKept

LEMMA RestrictPartial ==
    ASSUME NEW S, NEW T, NEW f \in Partial(S, T), NEW i
    PROVE  Restrict(f, DOMAIN f \ {i}) \in Partial(S, T)
  <1>1. Restrict(f, DOMAIN f \ {i}) = [x \in DOMAIN f \ {i} |-> f[x]]
    BY DEF Restrict
  <1>2. [x \in DOMAIN f \ {i} |-> f[x]] \in [DOMAIN f \ {i} -> T]
    BY PartialElim
  <1>3. DOMAIN f \ {i} \in SUBSET S
    BY PartialElim
  <1> QED BY <1>1, <1>2, <1>3, PartialIntro

LEMMA SetPartial ==
    ASSUME NEW S, NEW T, NEW f \in Partial(S, T), NEW i \in S, NEW v \in T
    PROVE  [x \in DOMAIN f \cup {i} |-> IF x = i THEN v ELSE f[x]] \in Partial(S, T)
  <1>1. [x \in DOMAIN f \cup {i} |-> IF x = i THEN v ELSE f[x]] \in [DOMAIN f \cup {i} -> T]
    BY PartialElim
  <1>2. DOMAIN f \cup {i} \in SUBSET S
    BY PartialElim
  <1> QED BY <1>1, <1>2, PartialIntro

WeekTyped ==
    /\ now \in Nat /\ finishes \in Nat /\ calls \in Nat /\ changes \in Nat
    /\ runs \in [Run -> [status : {"absent", "RUNNING", "FAILED"} \cup FINISHED, stamp : Nat]]
    /\ rows \in [Run -> Partial(Item, RowStatus)]
    /\ listed \subseteq Item /\ strict \subseteq Item /\ held \in Partial(Item, Held)

LEMMA WeekIsTyped ==
    ASSUME Typed, [Next]_vars
    PROVE  WeekTyped'
  <1> USE DEF WeekTyped
  <1>0. WeekTyped
    BY DEF Typed, TypeOK
  <1>1. ASSUME NEW r \in Run, RunStarts(r) PROVE WeekTyped'
    BY <1>0, <1>1 DEF RunStarts, WeekChanges, Counted
  <1>2. ASSUME NEW r \in Run, NEW i \in Moving, RunWrites(r, i) PROVE WeekTyped'
    <2>1. i \in Item /\ rows[r] \in Partial(Item, RowStatus) /\ RowValues \subseteq RowStatus
      BY <1>0, ToolCacheAssumption
    <2>2. PICK f \in Partial(Item, RowStatus) : rows' = [rows EXCEPT ![r] = f]
      <3>1. CASE \E s \in RowValues : rows' = [rows EXCEPT ![r] = [x \in DOMAIN @ \cup {i} |-> IF x = i THEN s ELSE @[x]]]
        BY <2>1, <3>1, SetPartial
      <3>2. CASE rows' = [rows EXCEPT ![r] = Restrict(@, DOMAIN @ \ {i})]
        BY <2>1, <3>2, RestrictPartial
      <3> QED BY <1>2, <3>1, <3>2 DEF RunWrites
    <2> QED BY <1>0, <1>2, <2>2 DEF RunWrites, WeekChanges, Counted
  <1>3. ASSUME NEW r \in Run, NEW status \in {"SUCCEEDED", "FAILED"}, RunEnds(r, status) PROVE WeekTyped'
    BY <1>0, <1>3 DEF RunEnds, WeekChanges, Counted, FINISHED
  <1>4. ASSUME NEW i \in Moving, SapChanges(i) PROVE WeekTyped'
    <2>1. i \in Item /\ HeldValues \subseteq Held
      BY ToolCacheAssumption
    <2>2. held' \in Partial(Item, Held)
      <3>1. CASE \E h \in HeldValues : held' = [x \in DOMAIN held \cup {i} |-> IF x = i THEN h ELSE held[x]]
        BY <1>0, <2>1, <3>1, SetPartial
      <3>2. CASE held' = Restrict(held, DOMAIN held \ {i})
        BY <1>0, <2>1, <3>2, RestrictPartial
      <3> QED BY <1>4, <3>1, <3>2 DEF SapChanges
    <2> QED BY <1>0, <1>4, <2>2 DEF SapChanges, WeekChanges, Counted, pipeline
  <1>5. ASSUME NEW i \in Moving, Ingest(i) PROVE WeekTyped'
    <2>1. i \in Item
      BY ToolCacheAssumption
    <2>2. ASSUME NEW S \in SUBSET Item PROVE SymDiff(S, {i}) \in SUBSET Item
      BY <2>1 DEF SymDiff
    <2>3. listed' \in SUBSET Item /\ strict' \in SUBSET Item
      BY <1>0, <1>5, <2>2 DEF Ingest
    <2>4. now' = now /\ finishes' = finishes /\ calls' = calls /\ changes' = changes + 1
          /\ runs' = runs /\ rows' = rows /\ held' = held
      BY <1>5 DEF Ingest, WeekChanges, Counted, pipeline
    <2> QED BY <1>0, <2>3, <2>4
  <1>6. ASSUME Tick PROVE WeekTyped'
    BY <1>0, <1>6 DEF Tick, week
  <1>7. ASSUME NEW u \in Caller, Ask(u) \/ Plan(u) \/ Get(u) \/ Fails(u) \/ Save(u) \/ Finish(u) PROVE WeekTyped'
    <2>1. UNCHANGED <<now, week>> /\ (UNCHANGED calls \/ calls' = calls + 1) /\ (UNCHANGED changes \/ Counted)
      <3>1. CASE Ask(u)
        BY <3>1 DEF Ask
      <3>2. CASE Plan(u)
        BY <3>2 DEF Plan
      <3>3. CASE Get(u)
        BY <3>3 DEF Get
      <3>4. CASE Fails(u)
        BY <3>4 DEF Fails
      <3>5. CASE Save(u)
        BY <3>5 DEF Save
      <3>6. CASE Finish(u)
        BY <3>6 DEF Finish
      <3> QED BY <1>7, <3>1, <3>2, <3>3, <3>4, <3>5, <3>6
    <2> QED BY <1>0, <2>1 DEF week, Counted
  <1>8. ASSUME NEW u \in Caller,
               ReadList(u) \/ ReadRun(u) \/ ReadRows(u) \/ ReadRules(u) \/ ReadSap(u) \/ ReadLog(u)
        PROVE WeekTyped'
    BY <1>0, <1>8 DEF ReadList, ReadRun, ReadRows, ReadRules, ReadSap, ReadLog, Reading, week
  <1>9. ASSUME NEW region \in Region, NEW code \in Tracked, Confirm(region, code) PROVE WeekTyped'
    BY <1>0, <1>9 DEF Confirm, week
  <1>10. ASSUME NEW n \in DOMAIN findings, Resolve(n) PROVE WeekTyped'
    BY <1>0, <1>10 DEF Resolve, week
  <1>11. CASE UNCHANGED vars
    BY <1>0, <1>11 DEF vars
  <1> QED BY <1>1, <1>2, <1>3, <1>4, <1>5, <1>6, <1>7, <1>8, <1>9, <1>10, <1>11 DEF Next

\* The ticks that Watch keeps.
LEMMA WatchStep ==
    ASSUME Typed, Watch
    PROVE  /\ DOMAIN clear' = (Run \cup {0}) \X Item \X Tracked
           /\ \A x \in (Run \cup {0}) \X Item \X Tracked :
                 clear'[x] = IF Has(x[1], x[2], x[3])' THEN clear[x] ELSE now'
  <1>1. DOMAIN clear = (Run \cup {0}) \X Item \X Tracked
    BY DEF Typed, TypeOK
  <1> QED BY <1>1 DEF Watch

LEMMA ClearKept ==
    ASSUME [Next]_vars
    PROVE  Watch \/ clear' = clear
  <1>1. ASSUME NEW u \in Caller, Ask(u) \/ Plan(u) \/ Get(u) \/ Fails(u) \/ Save(u) \/ Finish(u) PROVE clear' = clear
    BY <1>1 DEF Ask, Plan, Get, Fails, Save, Finish
  <1>2. ASSUME NEW u \in Caller,
               ReadList(u) \/ ReadRun(u) \/ ReadRows(u) \/ ReadRules(u) \/ ReadSap(u) \/ ReadLog(u)
        PROVE clear' = clear
    BY <1>2 DEF ReadList, ReadRun, ReadRows, ReadRules, ReadSap, ReadLog, Reading
  <1>3. CASE CallsKept
    BY <1>3 DEF CallsKept, RunStarts, RunWrites, RunEnds, SapChanges, Ingest, WeekChanges, Tick, Confirm, Resolve
  <1>4. CASE UNCHANGED vars
    BY <1>4 DEF vars
  <1> QED BY <1>1, <1>2, <1>3, <1>4 DEF Next, CallsKept

LEMMA ClearTyped ==
    ASSUME Typed, [Next]_vars
    PROVE  clear' \in [(Run \cup {0}) \X Item \X Tracked -> Nat]
  <1>1. clear \in [(Run \cup {0}) \X Item \X Tracked -> Nat] /\ now' \in Nat
    BY WeekIsTyped DEF Typed, TypeOK, WeekTyped
  <1>2. CASE Watch
    <2> DEFINE D == (Run \cup {0}) \X Item \X Tracked
    <2>1. clear' = [x \in D |-> IF Has(x[1], x[2], x[3])' THEN clear[x] ELSE now']
      BY <1>1, <1>2 DEF Watch
    <2>2. \A x \in D : clear[x] \in Nat
      BY <1>1
    <2>3. \A x \in D : (IF Has(x[1], x[2], x[3])' THEN clear[x] ELSE now') \in Nat
      BY <1>1, <2>2
    <2> QED BY <2>1, <2>3
  <1> QED BY <1>1, <1>2, ClearKept

\* What a function is that takes one value on T and those of g elsewhere.
LEMMA Overlay ==
    ASSUME NEW f, NEW g, NEW e, NEW S, S \subseteq DOMAIN g, NEW T,
           f = [k \in S \cup T |-> IF k \in T THEN e ELSE g[k]]
    PROVE  /\ \A k \in DOMAIN f : k \notin T => k \in DOMAIN g /\ f[k] = g[k]
           /\ \A k \in DOMAIN f : k \in T => f[k] = e
           /\ f = [k \in DOMAIN f |-> f[k]]
  OBVIOUS

\* Only Save writes the cache, and only under the key of its call.
LEMMA CacheStep ==
    ASSUME Typed, [Next]_vars
    PROVE  \/ cache' = cache
           \/ \E u \in Caller :
                 /\ Save(u)
                 /\ \A k \in DOMAIN cache' : k \notin call[u].key => k \in DOMAIN cache /\ cache'[k] = cache[k]
                 /\ \A k \in DOMAIN cache' : k \in call[u].key =>
                       cache'[k] = [result |-> Answer(u), saved |-> now, live |-> CACHE_KIND[call[u].tool] = "live"]
                 /\ cache' = [k \in DOMAIN cache' |-> cache'[k]]
  <1>1. ASSUME NEW u \in Caller, Ask(u) \/ Plan(u) \/ Get(u) \/ Fails(u) \/ Finish(u) PROVE cache' = cache
    BY <1>1 DEF Ask, Plan, Get, Fails, Finish
  <1>2. ASSUME NEW u \in Caller,
               ReadList(u) \/ ReadRun(u) \/ ReadRows(u) \/ ReadRules(u) \/ ReadSap(u) \/ ReadLog(u)
        PROVE cache' = cache
    BY <1>2 DEF ReadList, ReadRun, ReadRows, ReadRules, ReadSap, ReadLog, Reading
  <1>3. CASE CallsKept \/ UNCHANGED vars
    BY <1>3, CallsKeptSame DEF vars
  <1>4. ASSUME NEW u \in Caller, Save(u), cache' # cache
        PROVE  /\ \A k \in DOMAIN cache' : k \notin call[u].key => k \in DOMAIN cache /\ cache'[k] = cache[k]
               /\ \A k \in DOMAIN cache' : k \in call[u].key =>
                     cache'[k] = [result |-> Answer(u), saved |-> now, live |-> CACHE_KIND[call[u].tool] = "live"]
               /\ cache' = [k \in DOMAIN cache' |-> cache'[k]]
    <2> DEFINE kept == {k \in DOMAIN cache : Fresh(cache[k]) /\ now <= cache[k].saved + KEEP}
               entry == [result |-> Answer(u), saved |-> now, live |-> CACHE_KIND[call[u].tool] = "live"]
    <2>1. cache' = [k \in kept \cup call[u].key |-> IF k \in call[u].key THEN entry ELSE cache[k]]
      BY <1>4 DEF Save
    <2>2. kept \subseteq DOMAIN cache
      OBVIOUS
    <2> QED BY <2>1, <2>2, Overlay
  <1> QED BY <1>1, <1>2, <1>3, <1>4 DEF Next, CallsKept

LEMMA CacheTyped ==
    ASSUME Typed, [Next]_vars
    PROVE  cache' \in [DOMAIN cache' -> Entry] /\ DOMAIN cache' \subseteq Key
  <1>1. cache \in [DOMAIN cache -> Entry] /\ DOMAIN cache \subseteq Key /\ now \in Nat
    BY DEF Typed, TypeOK
  <1>2. CASE cache' = cache
    BY <1>1, <1>2
  <1>3. ASSUME NEW u \in Caller, Save(u),
               \A k \in DOMAIN cache' : k \notin call[u].key => k \in DOMAIN cache /\ cache'[k] = cache[k],
               \A k \in DOMAIN cache' : k \in call[u].key =>
                     cache'[k] = [result |-> Answer(u), saved |-> now, live |-> CACHE_KIND[call[u].tool] = "live"],
               cache' = [k \in DOMAIN cache' |-> cache'[k]]
        PROVE  cache' \in [DOMAIN cache' -> Entry] /\ DOMAIN cache' \subseteq Key
    <2>1. call[u].pc = "read" /\ call[u] \in Call
      BY <1>3 DEF Save, Typed, TypeOK
    <2>2. Answer(u) \in Result
      BY <2>1, AnswerType
    <2>3. [result |-> Answer(u), saved |-> now, live |-> CACHE_KIND[call[u].tool] = "live"] \in Entry
      BY <1>1, <2>2 DEF Entry
    <2>4. call[u].key \subseteq Key
      BY <2>1 DEF Call
    <2>5. \A k \in DOMAIN cache' : cache'[k] \in Entry /\ k \in Key
      BY <1>1, <1>3, <2>3, <2>4
    <2> QED BY <1>3, <2>5
  <1> QED BY <1>2, <1>3, CacheStep

LEMMA CheckOfType ==
    ASSUME NEW result \in Result
    PROVE  CheckOf(result) \in Check
  BY DEF CheckOf, Check, Result

\* A check of a caller is one it had, or the one it just made.
LEMMA ChecksStep ==
    ASSUME Typed, [Next]_vars
    PROVE  /\ checks' = [u \in Caller |-> checks'[u]]
           /\ \A u \in Caller : checks'[u] = [s \in DOMAIN checks'[u] |-> checks'[u][s]]
           /\ \A u \in Caller : \A s \in DOMAIN checks'[u] :
                 \/ s \in DOMAIN checks[u] /\ checks'[u][s] = checks[u][s]
                 \/ Finish(u) /\ call[u].tool = "diagnose_batch" /\ s = call[u].skus
                    /\ checks'[u][s] = CheckOf(call[u].result)
  <1> DEFINE Q == /\ checks' = [u \in Caller |-> checks'[u]]
                  /\ \A u \in Caller : checks'[u] = [s \in DOMAIN checks'[u] |-> checks'[u][s]]
                  /\ \A u \in Caller : \A s \in DOMAIN checks'[u] :
                       \/ s \in DOMAIN checks[u] /\ checks'[u][s] = checks[u][s]
                       \/ Finish(u) /\ call[u].tool = "diagnose_batch" /\ s = call[u].skus
                          /\ checks'[u][s] = CheckOf(call[u].result)
  <1>0. checks = [u \in Caller |-> checks[u]] /\ \A u \in Caller : checks[u] = [s \in DOMAIN checks[u] |-> checks[u][s]]
    BY DEF Typed, TypeOK
  <1>1. CASE checks' = checks
    BY <1>0, <1>1
  <1>2. ASSUME NEW u \in Caller, Finish(u), call[u].tool = "diagnose_batch" PROVE Q
    <2> DEFINE skus == call[u].skus
               check == CheckOf(call[u].result)
               all == [s \in DOMAIN checks[u] \cup {skus} |-> IF s = skus THEN check ELSE checks[u][s]]
    <2>1. PICK f : checks' = [checks EXCEPT ![u] = f] /\ (f = all \/ \E old \in DOMAIN all : f = Restrict(all, DOMAIN all \ {old}))
      <3>1. Remember(u, skus, check)
        BY <1>2 DEF Finish
      <3> QED BY <3>1 DEF Remember
    <2>2. f = [s \in DOMAIN f |-> f[s]] /\ \A s \in DOMAIN f : s \in DOMAIN all /\ f[s] = all[s]
      BY <2>1 DEF Restrict
    <2>3. checks'[u] = f /\ \A w \in Caller : w # u => checks'[w] = checks[w]
      BY <1>0, <2>1
    <2>4. \A s \in DOMAIN f : (s \in DOMAIN checks[u] /\ f[s] = checks[u][s]) \/ (s = skus /\ f[s] = check)
      BY <2>2
    <2>5. checks' = [w \in Caller |-> checks'[w]]
      BY <1>0, <2>1
    <2> QED BY <1>0, <1>2, <2>2, <2>3, <2>4, <2>5
  <1>3. ASSUME NEW u \in Caller, Finish(u), call[u].tool # "diagnose_batch" PROVE checks' = checks
    BY <1>3 DEF Finish
  <1>4. ASSUME NEW u \in Caller, Ask(u) \/ Plan(u) \/ Get(u) \/ Fails(u) \/ Save(u) PROVE checks' = checks
    BY <1>4 DEF Ask, Plan, Get, Fails, Save
  <1>5. ASSUME NEW u \in Caller,
               ReadList(u) \/ ReadRun(u) \/ ReadRows(u) \/ ReadRules(u) \/ ReadSap(u) \/ ReadLog(u)
        PROVE checks' = checks
    BY <1>5 DEF ReadList, ReadRun, ReadRows, ReadRules, ReadSap, ReadLog, Reading
  <1>6. CASE CallsKept \/ UNCHANGED vars
    BY <1>1, <1>6, CallsKeptSame DEF vars
  <1> QED BY <1>1, <1>2, <1>3, <1>4, <1>5, <1>6 DEF Next, CallsKept

LEMMA ChecksTyped ==
    ASSUME Typed, [Next]_vars
    PROVE  /\ checks' = [u \in Caller |-> checks'[u]]
           /\ \A u \in Caller : checks'[u] \in [DOMAIN checks'[u] -> Check] /\ DOMAIN checks'[u] \subseteq SUBSET Sku
  <1>1. \A u \in Caller : checks[u] \in [DOMAIN checks[u] -> Check] /\ DOMAIN checks[u] \subseteq SUBSET Sku
    BY DEF Typed, TypeOK
  <1>2. \A u \in Caller : CheckOf(call[u].result) \in Check /\ call[u].skus \in SUBSET Sku
    BY CheckOfType DEF Typed, TypeOK, Call
  <1>3. \A u \in Caller : \A s \in DOMAIN checks'[u] : checks'[u][s] \in Check /\ s \in SUBSET Sku
    BY <1>1, <1>2, ChecksStep
  <1> QED BY <1>3, ChecksStep

LEMMA FindingsTyped ==
    ASSUME Typed, [Next]_vars
    PROVE  findings' \in Seq(Finding)
  <1>0. findings \in Seq(Finding)
    BY DEF Typed, TypeOK
  <1>1. ASSUME NEW s \in {"open", "auto", "closed"}, NEW f \in Finding
        PROVE  [f EXCEPT !.status = s] \in Finding
    BY DEF Finding
  <1>2. ASSUME NEW u \in Caller, Finish(u) PROVE findings' \in Seq(Finding)
    <2> DEFINE c == call[u]
               G(f) == IF Closes(c.result, c.skus, f) THEN [f EXCEPT !.status = "auto"] ELSE f
    <2>1. CASE findings' = [n \in DOMAIN findings |-> G(findings[n])]
      <3>1. DOMAIN findings = 1 .. Len(findings) /\ Len(findings) \in Nat
            /\ \A n \in 1 .. Len(findings) : findings[n] \in Finding
        BY <1>0
      <3>2. \A n \in 1 .. Len(findings) : G(findings[n]) \in Finding
        BY <1>1, <3>1
      <3> HIDE DEF G
      <3>3. findings' \in [1 .. Len(findings) -> Finding]
        BY <2>1, <3>1, <3>2
      <3> QED BY <3>1, <3>3
    <2> QED BY <1>0, <1>2, <2>1 DEF Finish
  <1>3. ASSUME NEW region \in Region, NEW code \in Tracked, Confirm(region, code) PROVE findings' \in Seq(Finding)
    <2> DEFINE r == IF Latest = {} THEN 0 ELSE CHOOSE x \in Latest : TRUE
               failing == diagnose(ViewOf(r), Sku, Region)
               skus == {x[1] : x \in {y \in DOMAIN failing : y[3] = region /\ failing[y] = code}}
    <2>1. findings' = Append(findings, [region |-> region, code |-> code, skus |-> skus, status |-> "open"])
      BY <1>3 DEF Confirm
    <2>2. ViewOf(r).listed \subseteq Item
      BY DEF ViewOf, Typed, TypeOK
    <2>3. \A x \in DOMAIN failing : x[1] \in Sku
      BY <2>2, DiagnoseType
    <2>4. [region |-> region, code |-> code, skus |-> skus, status |-> "open"] \in Finding
      BY <2>3 DEF Finding
    <2> QED BY <1>0, <2>1, <2>4
  <1>4. ASSUME NEW n \in DOMAIN findings, Resolve(n) PROVE findings' \in Seq(Finding)
    <2>1. findings' = [findings EXCEPT ![n] = [findings[n] EXCEPT !.status = "closed"]]
      BY <1>4 DEF Resolve
    <2>2. findings[n] \in Finding
      BY <1>0
    <2>3. [findings[n] EXCEPT !.status = "closed"] \in Finding
      BY <1>1, <2>2
    <2> QED BY <1>0, <2>1, <2>3
  <1>5. ASSUME NEW u \in Caller, Ask(u) \/ Plan(u) \/ Get(u) \/ Fails(u) \/ Save(u) PROVE findings' = findings
    BY <1>5 DEF Ask, Plan, Get, Fails, Save
  <1>6. ASSUME NEW u \in Caller,
               ReadList(u) \/ ReadRun(u) \/ ReadRows(u) \/ ReadRules(u) \/ ReadSap(u) \/ ReadLog(u)
        PROVE findings' = findings
    BY <1>6 DEF ReadList, ReadRun, ReadRows, ReadRules, ReadSap, ReadLog, Reading
  <1>7. CASE UNCHANGED vars
    BY <1>0, <1>7 DEF vars
  <1>8. ASSUME \/ \E r \in Run : RunStarts(r) \/ \E i \in Moving : RunWrites(r, i)
               \/ \E r \in Run, status \in {"SUCCEEDED", "FAILED"} : RunEnds(r, status)
               \/ \E i \in Moving : SapChanges(i) \/ Ingest(i)
               \/ Tick
        PROVE findings' = findings
    BY <1>8 DEF RunStarts, RunWrites, RunEnds, SapChanges, Ingest, WeekChanges, Tick
  <1> QED BY <1>0, <1>2, <1>3, <1>4, <1>5, <1>6, <1>7, <1>8 DEF Next

LEMMA InitTyped == Init => Typed
  <1> SUFFICES ASSUME Init PROVE Typed
    OBVIOUS
  <1>1. Empty \in Partial(Item, RowStatus) /\ Empty \in Partial(Item, Held) /\ DOMAIN Empty = {}
    BY EmptyPartial DEF Empty
  <1>2. runs \in [Run -> [status : {"absent", "RUNNING", "FAILED"} \cup FINISHED, stamp : Nat]]
    BY DEF Init
  <1>3. call \in [Caller -> Call] /\ Busy
    BY NoCallType DEF Init, NoCall, Busy
  <1>4. cache \in [DOMAIN cache -> Entry] /\ DOMAIN cache \subseteq Key
    BY <1>1 DEF Init, Empty
  <1>5. checks = [u \in Caller |-> checks[u]]
        /\ \A u \in Caller : checks[u] \in [DOMAIN checks[u] -> Check] /\ DOMAIN checks[u] \subseteq SUBSET Sku
    BY <1>1 DEF Init, Empty
  <1>6. findings \in Seq(Finding)
    BY DEF Init
  <1>7. clear \in [(Run \cup {0}) \X Item \X Tracked -> Nat]
    BY DEF Init
  <1>8. rows \in [Run -> Partial(Item, RowStatus)] /\ held \in Partial(Item, Held) /\ listed \subseteq Item /\ strict \subseteq Item
    BY <1>1 DEF Init
  <1>9. now \in Nat /\ finishes \in Nat /\ calls \in Nat /\ changes \in Nat
    BY DEF Init
  <1> QED BY <1>2, <1>3, <1>4, <1>5, <1>6, <1>7, <1>8, <1>9 DEF Typed, TypeOK

LEMMA StepTyped == Typed /\ [Next]_vars => Typed'
  <1> SUFFICES ASSUME Typed, [Next]_vars PROVE Typed'
    OBVIOUS
  <1> QED BY WeekIsTyped, CallTyped, CacheTyped, ChecksTyped, ClearTyped, FindingsTyped DEF Typed, TypeOK, WeekTyped

\* Every variable of the tools, the cache, the session and the findings keeps its type, and a
\* caller on its way is in one of the model's tools (tools.py, cache.py, state.py, findings.py).
THEOREM ToolCacheTyping == Spec => []Typed
  <1>1. Init => Typed
    BY InitTyped
  <1>2. Typed /\ [Next]_vars => Typed'
    BY StepTyped
  <1> QED BY <1>1, <1>2, PTL DEF Spec

(***************************************************************************)
(* What each step of a call does to it                                     *)
(***************************************************************************)

Asked(u) ==
    /\ call[u].pc = "idle" /\ call'[u].pc = "plan" /\ call'[u].key = {} /\ call'[u].regions = {}
    /\ call'[u].step = 1 /\ call'[u].newest = 0
Planned(u) ==
    /\ Plan(u)
    /\ \E p \in {"read", "get"}, K \in SUBSET {key(u, call[u].tool, call[u].skus, call[u].asked, _run(call[u].requested))} :
          call'[u] = [call[u] EXCEPT !.pc = p, !.key = K,
                                     !.newest = Newest]
Missed(u) == call[u].pc = "get" /\ call'[u] = [call[u] EXCEPT !.pc = "read"]
Hit(u) == call[u].pc = "get" /\ \E k \in call[u].key : Cached(k) /\ call'[u] = Answered(call[u], cache[k].result)
Read(u) ==
    LET c    == call[u]
        d    == call'[u]
        what == Reads[c.tool][c.step]
    IN  /\ c.pc = "read" /\ d.pc = "read" /\ d.tool = c.tool /\ d.skus = c.skus /\ d.key = c.key /\ d.newest = c.newest
        /\ c.step \in DOMAIN Reads[c.tool] /\ d.step = c.step + 1
        /\ IF what = "list" THEN d.view.listed = listed /\ d.regions \subseteq Available(u)
           ELSE d.view.listed = c.view.listed /\ d.regions = c.regions
        /\ IF what = "run" THEN d.seen = finishes ELSE d.seen = c.seen
        /\ IF what = "rows" THEN d.row_run \in Run \cup {0} /\ d.view.rows = ViewOf(d.row_run).rows
           ELSE d.row_run = c.row_run /\ d.view.rows = c.view.rows
        /\ d.view.breaks = IF what = "rules" THEN strict ELSE c.view.breaks
        /\ d.view.held = IF what = "sap" THEN held ELSE c.view.held
        /\ UNCHANGED <<now, week, clear, cache, checks>>
Saved(u) == Save(u) /\ call'[u] = Answered(call[u], Answer(u))

LEMMA GetFields ==
    ASSUME Typed, NEW u \in Caller, Get(u)
    PROVE  Missed(u) \/ Hit(u)
  <1>1. call[u] \in Call /\ call \in [Caller -> Call] /\ call[u].pc = "get"
    BY DEF Typed, TypeOK, Get
  <1>2. CASE \E k \in call[u].key : Cached(k) /\ call' = [call EXCEPT ![u] = Answered(@, cache[k].result)]
    <2>1. PICK k \in call[u].key : Cached(k) /\ call' = [call EXCEPT ![u] = Answered(@, cache[k].result)]
      BY <1>2
    <2>2. call'[u] = Answered(call[u], cache[k].result)
      BY <1>1, <2>1
    <2> QED BY <1>1, <2>1, <2>2 DEF Hit
  <1>3. CASE call' = [call EXCEPT ![u].pc = "read"]
    BY <1>1, <1>3 DEF Missed
  <1> QED BY <1>2, <1>3 DEF Get

LEMMA PlanFields ==
    ASSUME Typed, NEW u \in Caller, Plan(u)
    PROVE  Planned(u)
  <1> DEFINE found == _run(call[u].requested)
             none  == CACHE_KIND[call[u].tool] = "snapshot" /\ found.version = {}
             mine  == key(u, call[u].tool, call[u].skus, call[u].asked, found)
  <1>1. call[u] \in Call /\ call \in [Caller -> Call]
    BY DEF Typed, TypeOK
  <1>2. CASE none
    <2>1. call' = [call EXCEPT ![u].pc = "read", ![u].key = {}, ![u].newest = Newest]
      BY <1>2 DEF Plan
    <2>2. call'[u] = [call[u] EXCEPT !.pc = "read", !.key = {}, !.newest = Newest]
      BY <1>1, <2>1 DEF Call
    <2> QED BY <2>2 DEF Planned
  <1>3. CASE ~none
    <2>1. call' = [call EXCEPT ![u].pc = "get", ![u].key = {mine}, ![u].newest = Newest]
      BY <1>3 DEF Plan
    <2>2. call'[u] = [call[u] EXCEPT !.pc = "get", !.key = {mine}, !.newest = Newest]
      BY <1>1, <2>1 DEF Call
    <2> QED BY <2>2 DEF Planned
  <1> QED BY <1>2, <1>3

LEMMA AskFields ==
    ASSUME Typed, NEW u \in Caller, Ask(u)
    PROVE  Asked(u)
  <1>1. PICK name \in Tool, skus \in (SUBSET Sku) \ {{}}, asked \in {{}} \cup {{R} : R \in Narrowed},
             requested \in RunArguments :
          call' = [call EXCEPT ![u] = [NoCall EXCEPT !.pc = "plan", !.tool = name, !.skus = skus, !.asked = asked,
                                                     !.requested = requested]]
    BY DEF Ask
  <1>2. call'[u] = [NoCall EXCEPT !.pc = "plan", !.tool = name, !.skus = skus, !.asked = asked, !.requested = requested]
    BY <1>1 DEF Typed, TypeOK
  <1>3. call[u].pc = "idle"
    BY DEF Ask
  <1> QED BY <1>2, <1>3 DEF Asked, NoCall

LEMMA ReadFields ==
    ASSUME Typed, NEW u \in Caller,
           ReadList(u) \/ ReadRun(u) \/ ReadRows(u) \/ ReadRules(u) \/ ReadSap(u) \/ ReadLog(u)
    PROVE  Read(u)
  <1> DEFINE c == call[u]
  <1>1. c \in Call /\ c.view \in View /\ call \in [Caller -> Call]
    BY DEF Typed, TypeOK, Call
  <1>2. c.pc = "read" /\ c.step \in DOMAIN Reads[c.tool] /\ UNCHANGED <<now, week, clear, cache, checks>>
    BY DEF ReadList, ReadRun, ReadRows, ReadRules, ReadSap, ReadLog, Next_is, Reading
  <1>3. ASSUME NEW e, call' = [call EXCEPT ![u] = e] PROVE call'[u] = e
    BY <1>1, <1>3
  <1>4. CASE ReadList(u)
    <2> DEFINE R == IF c.asked = {} THEN Available(u) ELSE UNION c.asked
               e == [[c EXCEPT !.view.listed = listed, !.regions = R] EXCEPT !.step = @ + 1]
    <2>1. Reads[c.tool][c.step] = "list" /\ R \subseteq Available(u)
      BY <1>4 DEF ReadList, Next_is
    <2>2. call'[u] = e
      BY <1>4, <1>3 DEF ReadList, Reading
    <2> QED BY <1>1, <1>2, <2>1, <2>2 DEF Read, Call, View
  <1>5. CASE ReadRun(u)
    <2> DEFINE e == [[c EXCEPT !.run = _run(c.requested).run, !.seen = finishes] EXCEPT !.step = @ + 1]
    <2>1. Reads[c.tool][c.step] = "run"
      BY <1>5 DEF ReadRun, Next_is
    <2>2. call'[u] = e
      BY <1>5, <1>3 DEF ReadRun, Reading
    <2> QED BY <1>1, <1>2, <2>1, <2>2 DEF Read, Call, View
  <1>6. CASE ReadRows(u)
    <2>1. Reads[c.tool][c.step] = "rows"
      BY <1>6 DEF ReadRows, Next_is
    <2>2. PICK r \in RowRuns(c.run) : Reading(u, [c EXCEPT !.row_run = r, !.view.rows = ViewOf(r).rows])
      BY <1>6 DEF ReadRows
    <2> DEFINE e == [[c EXCEPT !.row_run = r, !.view.rows = ViewOf(r).rows] EXCEPT !.step = @ + 1]
    <2>3. call'[u] = e
      BY <2>2, <1>3 DEF Reading
    <2>4. r \in Run \cup {0}
      BY <1>1, <2>2, RunsFound DEF Call, Typed
    <2> QED BY <1>1, <1>2, <2>1, <2>3, <2>4 DEF Read, Call, View
  <1>7. CASE ReadRules(u)
    <2> DEFINE e == [[c EXCEPT !.view.breaks = strict] EXCEPT !.step = @ + 1]
    <2>1. Reads[c.tool][c.step] = "rules"
      BY <1>7 DEF ReadRules, Next_is
    <2>2. call'[u] = e
      BY <1>7, <1>3 DEF ReadRules, Reading
    <2> QED BY <1>1, <1>2, <2>1, <2>2 DEF Read, Call, View
  <1>8. CASE ReadSap(u)
    <2> DEFINE e == [[c EXCEPT !.view.held = held] EXCEPT !.step = @ + 1]
    <2>1. Reads[c.tool][c.step] = "sap"
      BY <1>8 DEF ReadSap, Next_is
    <2>2. call'[u] = e
      BY <1>8, <1>3 DEF ReadSap, Reading
    <2> QED BY <1>1, <1>2, <2>1, <2>2 DEF Read, Call, View
  <1>9. CASE ReadLog(u)
    <2> DEFINE e == [c EXCEPT !.step = @ + 1]
    <2>1. Reads[c.tool][c.step] = "log"
      BY <1>9 DEF ReadLog, Next_is
    <2>2. call'[u] = e
      BY <1>9, <1>3 DEF ReadLog, Reading
    <2> QED BY <1>1, <1>2, <2>1, <2>2 DEF Read, Call, View
  <1> QED BY <1>4, <1>5, <1>6, <1>7, <1>8, <1>9

\* A step leaves a call alone, ends it, or is one of the steps above.
LEMMA CallStep ==
    ASSUME Typed, [Next]_vars, NEW u \in Caller
    PROVE  \/ call'[u] = call[u] \/ call'[u] = NoCall
           \/ Asked(u) \/ Planned(u) \/ Missed(u) \/ Hit(u) \/ Read(u) \/ Saved(u)
  <1> DEFINE Q == \/ call'[u] = call[u] \/ call'[u] = NoCall
                  \/ Asked(u) \/ Planned(u) \/ Missed(u) \/ Hit(u) \/ Read(u) \/ Saved(u)
             Reads_(w) == ReadList(w) \/ ReadRun(w) \/ ReadRows(w) \/ ReadRules(w) \/ ReadSap(w) \/ ReadLog(w)
  <1>0. call \in [Caller -> Call]
    BY DEF Typed, TypeOK
  <1>1. CASE CallsKept \/ UNCHANGED vars
    BY <1>1, CallsKeptSame DEF vars
  <1>2. ASSUME Ask(u) \/ Plan(u) \/ Get(u) \/ Reads_(u) PROVE Q
    BY <1>2, AskFields, PlanFields, GetFields, ReadFields
  <1>3. ASSUME Fails(u) \/ Finish(u) PROVE Q
    BY <1>0, <1>3 DEF Fails, Finish
  <1>4. ASSUME Save(u) PROVE Q
    BY <1>0, <1>4 DEF Save, Saved
  <1>5. ASSUME NEW w \in Caller, w # u,
               Ask(w) \/ Plan(w) \/ Get(w) \/ Reads_(w) \/ Fails(w) \/ Save(w) \/ Finish(w)
        PROVE  call'[u] = call[u]
    <2>1. ASSUME NEW e, call' = [call EXCEPT ![w] = e] PROVE call'[u] = call[u]
      BY <1>0, <1>5, <2>1
    <2>2. CASE Ask(w)
      BY <2>1, <2>2 DEF Ask
    <2>3. CASE Plan(w)
      BY <1>0, <1>5, <2>3 DEF Plan
    <2>4. CASE Get(w)
      BY <1>0, <1>5, <2>4 DEF Get
    <2>5. CASE Reads_(w)
      BY <2>1, <2>5 DEF ReadList, ReadRun, ReadRows, ReadRules, ReadSap, ReadLog, Reading
    <2>6. CASE Fails(w) \/ Finish(w) \/ Save(w)
      BY <2>1, <2>6 DEF Fails, Finish, Save
    <2> QED BY <1>5, <2>2, <2>3, <2>4, <2>5, <2>6
  <1> QED BY <1>1, <1>2, <1>3, <1>4, <1>5 DEF Next, CallsKept

(***************************************************************************)
(* Access: entries are shared only between users who may see the same      *)
(***************************************************************************)

KeyIsMine ==
    \A u \in Caller : \A k \in call[u].key : k.allowed = Allowed[u] /\ k.skus = call[u].skus /\ k.tool = call[u].tool
AccessInv ==
    /\ KeyIsMine
    /\ \A u \in Caller : call[u].regions \subseteq Allowed[u]
    /\ \A k \in DOMAIN cache : cache[k].result.regions \subseteq k.allowed
    /\ CacheNeverWidens

LEMMA AccessStep == Typed /\ AccessInv /\ [Next]_vars => AccessInv'
  <1> SUFFICES ASSUME Typed, AccessInv, [Next]_vars PROVE AccessInv'
    OBVIOUS
  <1>1. ASSUME NEW u \in Caller
        PROVE  /\ \A k \in call'[u].key : k.allowed = Allowed[u] /\ k.skus = call'[u].skus /\ k.tool = call'[u].tool
               /\ call'[u].regions \subseteq Allowed[u]
               /\ call'[u].pc = "finish" => call'[u].result.regions \subseteq Allowed[u]
    <2> DEFINE c == call[u]
               d == call'[u]
               G == /\ \A k \in d.key : k.allowed = Allowed[u] /\ k.skus = d.skus /\ k.tool = d.tool
                    /\ d.regions \subseteq Allowed[u]
                    /\ d.pc = "finish" => d.result.regions \subseteq Allowed[u]
    <2>0. c \in Call
      BY DEF Typed, TypeOK
    <2>1. CASE d = c
      BY <2>1 DEF AccessInv, KeyIsMine, CacheNeverWidens
    <2>2. CASE d = NoCall
      BY <2>2 DEF NoCall
    <2>3. CASE Asked(u)
      BY <2>3 DEF Asked
    <2>4. CASE Planned(u)
      <3>1. PICK p \in {"read", "get"}, K \in SUBSET {key(u, c.tool, c.skus, c.asked, _run(c.requested))} :
                  d = [c EXCEPT !.pc = p, !.key = K, !.newest = Newest]
        BY <2>4 DEF Planned
      <3>2. \A k \in K : k.allowed = Allowed[u] /\ k.skus = c.skus /\ k.tool = c.tool
        BY DEF key
      <3>3. d.pc = p /\ d.key = K /\ d.skus = c.skus /\ d.tool = c.tool /\ d.regions = c.regions
        BY <2>0, <3>1 DEF Call
      <3> QED BY <3>2, <3>3 DEF AccessInv
    <2>5. CASE Missed(u)
      <3>1. d.pc = "read" /\ d.key = c.key /\ d.skus = c.skus /\ d.tool = c.tool /\ d.regions = c.regions
        BY <2>0, <2>5 DEF Call, Missed
      <3> QED BY <3>1 DEF AccessInv, KeyIsMine
    <2>6. CASE Hit(u)
      <3>1. PICK k \in c.key : Cached(k) /\ d = Answered(c, cache[k].result)
        BY <2>6 DEF Hit
      <3>2. cache[k].result \in Result /\ cache[k].result.regions \subseteq k.allowed /\ k.allowed = Allowed[u]
        BY <3>1 DEF Cached, Typed, TypeOK, Entry, AccessInv, KeyIsMine
      <3>3. d.key = c.key /\ d.skus = c.skus /\ d.tool = c.tool /\ d.regions = {} /\ d.result = cache[k].result
        BY <2>0, <3>1, <3>2, AnsweredType
      <3> QED BY <3>2, <3>3 DEF AccessInv, KeyIsMine
    <2>7. CASE Read(u)
      <3>1. Available(u) \subseteq Allowed[u]
        BY DEF Available
      <3>2. d.pc = "read" /\ d.key = c.key /\ d.skus = c.skus /\ d.tool = c.tool
            /\ (d.regions \subseteq Available(u) \/ d.regions = c.regions)
        BY <2>7 DEF Read
      <3> QED BY <3>1, <3>2 DEF AccessInv, KeyIsMine
    <2>8. CASE Saved(u)
      <3>1. c.pc = "read" /\ d = Answered(c, Answer(u))
        BY <2>8 DEF Saved, Save
      <3>2. Answer(u) \in Result /\ Answer(u).regions = c.regions
        BY <3>1, AnswerType
      <3>3. d.key = c.key /\ d.skus = c.skus /\ d.tool = c.tool /\ d.regions = {} /\ d.result = Answer(u)
        BY <2>0, <3>1, <3>2, AnsweredType
      <3> QED BY <3>2, <3>3 DEF AccessInv, KeyIsMine
    <2> QED BY <2>1, <2>2, <2>3, <2>4, <2>5, <2>6, <2>7, <2>8, CallStep
  <1>2. \A k \in DOMAIN cache' : cache'[k].result.regions \subseteq k.allowed
    <2>1. CASE cache' = cache
      BY <2>1 DEF AccessInv
    <2>2. ASSUME NEW u \in Caller, Save(u), NEW k \in DOMAIN cache',
                 k \notin call[u].key => k \in DOMAIN cache /\ cache'[k] = cache[k],
                 k \in call[u].key =>
                    cache'[k] = [result |-> Answer(u), saved |-> now, live |-> CACHE_KIND[call[u].tool] = "live"]
          PROVE  cache'[k].result.regions \subseteq k.allowed
      <3>1. Answer(u).regions = call[u].regions
        BY <2>2, AnswerType DEF Save
      <3> QED BY <2>2, <3>1 DEF AccessInv, KeyIsMine
    <2> QED BY <2>1, <2>2, CacheStep
  <1> QED BY <1>1, <1>2 DEF AccessInv, KeyIsMine, CacheNeverWidens

\* Whatever users share the cache, and whatever is ingested meanwhile, an answer is only about
\* regions its reader may see (tools.py 402-438, cache.py).
THEOREM AnswersStayWithinAccess == Spec => []CacheNeverWidens
  <1>1. Init => AccessInv
    BY DEF Init, AccessInv, KeyIsMine, CacheNeverWidens, NoCall, Empty
  <1>2. AccessInv => CacheNeverWidens
    BY DEF AccessInv
  <1> QED BY <1>1, <1>2, AccessStep, ToolCacheTyping, PTL DEF Spec

(***************************************************************************)
(* Version: an answer knows of the finish it is filed under                *)
(***************************************************************************)

\* A call that has asked which run is current, or will never ask.
KnowsRun(c) == \E j \in 1 .. c.step - 1 : j \in DOMAIN Reads[c.tool] /\ Reads[c.tool][j] = "run"
KeyIsNewest ==
    \A u \in Caller : \A k \in call[u].key :
        /\ \A v \in k.version : v[2] = call[u].newest
        /\ k.version = {} => call[u].newest = 0
VersionInv ==
    /\ \A r \in Run : runs[r].stamp <= finishes
    /\ \A u \in Caller : call[u].newest <= finishes
    /\ KeyIsNewest
    /\ \A u \in Caller : call[u].pc \in {"plan", "get"} => call[u].step = 1
    /\ \A u \in Caller : call[u].pc = "read" /\ KnowsRun(call[u]) => call[u].seen >= call[u].newest
    /\ \A k \in DOMAIN cache : \A v \in k.version : cache[k].result.seen >= v[2]
    /\ NeverOlderThanTheRun

LEMMA StampsStep == Typed /\ VersionInv /\ [Next]_vars => finishes' >= finishes /\ \A r \in Run : runs'[r].stamp <= finishes'
  <1> SUFFICES ASSUME Typed, VersionInv, [Next]_vars
               PROVE  finishes' >= finishes /\ \A r \in Run : runs'[r].stamp <= finishes'
    OBVIOUS
  <1>0. /\ finishes \in Nat /\ runs \in [Run -> [status : {"absent", "RUNNING", "FAILED"} \cup FINISHED, stamp : Nat]]
        /\ \A r \in Run : runs[r].stamp <= finishes
    BY DEF Typed, TypeOK, VersionInv
  <1>1. CASE UNCHANGED <<runs, finishes>>
    BY <1>0, <1>1
  <1>2. ASSUME NEW r \in Run, RunStarts(r) PROVE finishes' >= finishes /\ \A x \in Run : runs'[x].stamp <= finishes'
    BY <1>0, <1>2 DEF RunStarts
  <1>3. ASSUME NEW r \in Run, NEW status \in {"SUCCEEDED", "FAILED"}, RunEnds(r, status)
        PROVE finishes' >= finishes /\ \A x \in Run : runs'[x].stamp <= finishes'
    BY <1>0, <1>3 DEF RunEnds
  <1>4. ASSUME NEW u \in Caller, Ask(u) \/ Plan(u) \/ Get(u) \/ Fails(u) \/ Save(u) \/ Finish(u)
        PROVE UNCHANGED <<runs, finishes>>
    BY <1>4 DEF Ask, Plan, Get, Fails, Save, Finish, week
  <1>5. ASSUME NEW u \in Caller,
               ReadList(u) \/ ReadRun(u) \/ ReadRows(u) \/ ReadRules(u) \/ ReadSap(u) \/ ReadLog(u)
        PROVE UNCHANGED <<runs, finishes>>
    BY <1>5 DEF ReadList, ReadRun, ReadRows, ReadRules, ReadSap, ReadLog, Reading, week
  <1>6. ASSUME \/ \E r \in Run, i \in Moving : RunWrites(r, i)
               \/ \E i \in Moving : SapChanges(i) \/ Ingest(i)
               \/ Tick
               \/ \E region \in Region, code \in Tracked : Confirm(region, code)
               \/ \E n \in DOMAIN findings : Resolve(n)
               \/ UNCHANGED vars
        PROVE UNCHANGED <<runs, finishes>>
    BY <1>6 DEF RunWrites, SapChanges, Ingest, Tick, Confirm, Resolve, pipeline, week, vars
  <1> QED BY <1>1, <1>2, <1>3, <1>4, <1>5, <1>6 DEF Next

\* The version found is the newest finish.
LEMMA FoundIsNewest ==
    ASSUME Typed, NEW q \in SUBSET Run
    PROVE  (\A v \in _run(q).version : v[2] = Newest) /\ (_run(q).version = {} => Newest = 0)
  <1>0. \A r \in Run : runs[r].stamp \in Nat
    BY DEF Typed, TypeOK
  <1>1. CASE Latest = {}
    BY <1>1 DEF _run, Newest
  <1>2. CASE Latest # {}
    <2>1. \A r, x \in Latest : runs[r].stamp <= runs[x].stamp
      BY DEF Latest
    <2>2. \A r, x \in Latest : runs[r].stamp = runs[x].stamp
      BY <1>0, <2>1 DEF Latest, Finished
    <2>3. \A r \in Latest : runs[r].stamp = Newest
      BY <1>2, <2>2 DEF Newest
    <2>4. _run(q).version = {<<r, runs[r].stamp>> : r \in Latest}
      BY <1>2 DEF _run
    <2>5. \A v \in _run(q).version : v[2] = Newest
      BY <2>3, <2>4
    <2>6. _run(q).version # {}
      BY <1>2, <2>4
    <2> QED BY <2>5, <2>6
  <1> QED BY <1>1, <1>2

LEMMA AnswerKnows ==
    ASSUME Typed, VersionInv, NEW u \in Caller, Save(u)
    PROVE  Answer(u).seen >= call[u].newest
  <1> DEFINE c == call[u]
  <1>1. c \in Call /\ c.pc = "read" /\ c.tool \in Tool /\ c.step > Len(Reads[c.tool])
    BY DEF Save, Typed, TypeOK, Busy
  <1>2. c.step \in Nat /\ finishes \in Nat
    BY <1>1 DEF Call, Typed, TypeOK
  <1>3. Len(Reads[c.tool]) \in Nat /\ DOMAIN Reads[c.tool] = 1 .. Len(Reads[c.tool])
    BY <1>1, ToolsRead, ReadsSeq
  <1>4. CASE "run" \in Range(Reads[c.tool])
    <2>1. PICK j \in DOMAIN Reads[c.tool] : Reads[c.tool][j] = "run"
      BY <1>4 DEF Range
    <2>2. KnowsRun(c)
      BY <1>1, <1>2, <1>3, <2>1 DEF KnowsRun
    <2> QED BY <1>1, <1>4, <2>2 DEF Answer, VersionInv
  <1>5. CASE "run" \notin Range(Reads[c.tool])
    BY <1>5 DEF Answer, VersionInv
  <1> QED BY <1>4, <1>5

LEMMA VersionStep == Typed /\ VersionInv /\ [Next]_vars => VersionInv'
  <1> SUFFICES ASSUME Typed, VersionInv, [Next]_vars PROVE VersionInv'
    OBVIOUS
  <1>0. finishes \in Nat /\ finishes' \in Nat /\ finishes' >= finishes /\ \A r \in Run : runs'[r].stamp <= finishes'
    BY StampsStep, WeekIsTyped DEF Typed, TypeOK, WeekTyped
  <1>1. ASSUME NEW u \in Caller
        PROVE  /\ call'[u].newest <= finishes'
               /\ \A k \in call'[u].key : (\A v \in k.version : v[2] = call'[u].newest)
                                          /\ (k.version = {} => call'[u].newest = 0)
               /\ call'[u].pc \in {"plan", "get"} => call'[u].step = 1
               /\ call'[u].pc = "read" /\ KnowsRun(call'[u]) => call'[u].seen >= call'[u].newest
               /\ call'[u].pc = "finish" => call'[u].result.seen >= call'[u].newest
    <2> DEFINE c == call[u]
               d == call'[u]
               N(x) == x.newest <= finishes'
               K(x) == \A k \in x.key : (\A v \in k.version : v[2] = x.newest) /\ (k.version = {} => x.newest = 0)
               S(x) == x.pc \in {"plan", "get"} => x.step = 1
               R(x) == x.pc = "read" /\ KnowsRun(x) => x.seen >= x.newest
               F(x) == x.pc = "finish" => x.result.seen >= x.newest
               G == N(d) /\ K(d) /\ S(d) /\ R(d) /\ F(d)
    <2>0. c \in Call /\ c.newest \in Nat /\ c.newest <= finishes /\ K(c) /\ S(c) /\ R(c) /\ F(c) /\ N(c)
      <3>1. c \in Call /\ c.newest \in Nat
        BY DEF Typed, TypeOK, Call
      <3> QED BY <1>0, <3>1 DEF VersionInv, KeyIsNewest, NeverOlderThanTheRun
    <2>1. CASE d = c
      BY <2>0, <2>1
    <2>2. CASE d = NoCall
      <3>1. d.newest = 0 /\ d.key = {} /\ d.pc = "idle"
        BY <2>2 DEF NoCall
      <3> QED BY <1>0, <3>1
    <2>3. CASE Asked(u)
      <3>1. d.newest = 0 /\ d.key = {} /\ d.pc = "plan" /\ d.step = 1
        BY <2>3 DEF Asked
      <3> QED BY <1>0, <3>1
    <2>4. CASE Planned(u)
      <3>1. PICK p \in {"read", "get"}, Z \in SUBSET {key(u, c.tool, c.skus, c.asked, _run(c.requested))} :
                  d = [c EXCEPT !.pc = p, !.key = Z, !.newest = Newest]
        BY <2>4 DEF Planned
      <3>2. c.step = 1 /\ c.requested \in SUBSET Run
        <4>1. c.step = 1
          BY <2>0, <2>4 DEF Planned, Plan
        <4>2. c.requested \in SUBSET Run
          BY <2>0 DEF Call
        <4> QED BY <4>1, <4>2
      <3>3. (\A v \in _run(c.requested).version : v[2] = Newest) /\ (_run(c.requested).version = {} => Newest = 0)
        BY <3>2, FoundIsNewest
      <3>4. Newest <= finishes
        BY <1>0, RunsFound DEF VersionInv, Newest, Typed
      <3>5. d.pc = p /\ d.key = Z /\ d.newest = Newest /\ d.step = 1
        BY <2>0, <3>1, <3>2 DEF Call
      <3>6. \A k \in Z : k.version = _run(c.requested).version
        BY DEF key
      <3>7. K(d)
        BY <3>3, <3>5, <3>6
      <3>8. Newest \in Nat
        BY RunsFound DEF Newest, Typed, TypeOK
      <3>9. ~KnowsRun(d)
        BY <3>5 DEF KnowsRun
      <3> QED BY <1>0, <3>4, <3>5, <3>7, <3>8, <3>9
    <2>5. CASE Missed(u)
      <3>1. d.pc = "read" /\ d.key = c.key /\ d.newest = c.newest /\ d.step = c.step /\ c.pc = "get"
        BY <2>0, <2>5 DEF Call, Missed
      <3>2. ~KnowsRun(d)
        BY <2>0, <3>1 DEF KnowsRun
      <3> QED BY <2>0, <3>1, <3>2
    <2>6. CASE Hit(u)
      <3>1. PICK k \in c.key : Cached(k) /\ d = Answered(c, cache[k].result)
        BY <2>6 DEF Hit
      <3>2. cache[k].result \in Result /\ cache[k].result.seen \in Nat /\ k \in DOMAIN cache
        BY <3>1 DEF Cached, Typed, TypeOK, Entry, Result
      <3>3. d.pc = "finish" /\ d.key = c.key /\ d.newest = c.newest /\ d.result = cache[k].result
        BY <2>0, <3>1, <3>2, AnsweredType
      <3>4. cache[k].result.seen >= c.newest
        <4>1. CASE k.version = {}
          BY <2>0, <3>2, <4>1
        <4>2. CASE k.version # {}
          BY <2>0, <3>2, <4>2 DEF VersionInv
        <4> QED BY <4>1, <4>2
      <3> QED BY <2>0, <3>3, <3>4
    <2>7. CASE Read(u)
      <3>1. d.pc = "read" /\ c.pc = "read" /\ d.key = c.key /\ d.newest = c.newest /\ d.tool = c.tool /\ d.step = c.step + 1
            /\ (d.seen = finishes \/ (Reads[c.tool][c.step] # "run" /\ d.seen = c.seen))
        BY <2>7 DEF Read
      <3>2. CASE d.seen = finishes
        BY <2>0, <3>1, <3>2, <1>0
      <3>3. CASE Reads[c.tool][c.step] # "run" /\ d.seen = c.seen
        <4>1. KnowsRun(d) => KnowsRun(c)
          <5> SUFFICES ASSUME NEW j \in 1 .. d.step - 1, j \in DOMAIN Reads[d.tool], Reads[d.tool][j] = "run"
                       PROVE  KnowsRun(c)
            BY DEF KnowsRun
          <5>1. c.step \in Nat /\ j # c.step
            BY <2>0, <3>1, <3>3 DEF Call
          <5>2. j \in 1 .. c.step - 1
            BY <3>1, <5>1
          <5> QED BY <3>1, <5>2 DEF KnowsRun
        <4> QED BY <2>0, <3>1, <3>3, <4>1
      <3> QED BY <3>1, <3>2, <3>3
    <2>8. CASE Saved(u)
      <3>1. Save(u) /\ c.pc = "read" /\ d = Answered(c, Answer(u))
        BY <2>8 DEF Saved, Save
      <3>2. Answer(u) \in Result
        BY <3>1, AnswerType
      <3>3. d.pc = "finish" /\ d.key = c.key /\ d.newest = c.newest /\ d.result = Answer(u)
        BY <2>0, <3>1, <3>2, AnsweredType
      <3>4. Answer(u).seen >= c.newest
        BY <3>1, AnswerKnows
      <3> QED BY <2>0, <3>3, <3>4
    <2>9. G
      BY <2>1, <2>2, <2>3, <2>4, <2>5, <2>6, <2>7, <2>8, CallStep
    <2> QED BY <2>9
  <1>2. \A k \in DOMAIN cache' : \A v \in k.version : cache'[k].result.seen >= v[2]
    <2>1. CASE cache' = cache
      BY <2>1 DEF VersionInv
    <2>2. ASSUME NEW u \in Caller, Save(u), NEW k \in DOMAIN cache', NEW v \in k.version,
                 k \notin call[u].key => k \in DOMAIN cache /\ cache'[k] = cache[k],
                 k \in call[u].key =>
                    cache'[k] = [result |-> Answer(u), saved |-> now, live |-> CACHE_KIND[call[u].tool] = "live"]
          PROVE  cache'[k].result.seen >= v[2]
      <3>1. Answer(u).seen >= call[u].newest
        BY <2>2, AnswerKnows
      <3>2. k \in call[u].key => v[2] = call[u].newest
        BY <2>2 DEF VersionInv, KeyIsNewest
      <3> QED BY <2>2, <3>1, <3>2 DEF VersionInv
    <2> QED BY <2>1, <2>2, CacheStep
  <1> QED BY <1>0, <1>1, <1>2 DEF VersionInv, KeyIsNewest, NeverOlderThanTheRun

\* An answer under the version of a finished run was computed when that finish was known, so a
\* rerun of the same run id is never answered from before it (runs.py 24-46, tools.py 402-438).
THEOREM AnswersKnowTheirRun == Spec => []NeverOlderThanTheRun
  <1>1. Init => VersionInv
    BY DEF Init, VersionInv, KeyIsNewest, NeverOlderThanTheRun, NoCall, Empty
  <1>2. VersionInv => NeverOlderThanTheRun
    BY DEF VersionInv
  <1> QED BY <1>1, <1>2, VersionStep, ToolCacheTyping, PTL DEF Spec

(***************************************************************************)
(* Evidence: what a diagnosis does not show was not there                  *)
(***************************************************************************)

ClearInv ==
    \A r \in Run \cup {0}, i \in Item, e \in Tracked :
        clear[<<r, i, e>>] <= now /\ (~Has(r, i, e) => clear[<<r, i, e>>] = now)

LEMMA ClearStep ==
    ASSUME Typed, ClearInv, [Next]_vars
    PROVE  /\ ClearInv'
           /\ \A r \in Run \cup {0}, i \in Item, e \in Tracked : clear'[<<r, i, e>>] >= clear[<<r, i, e>>]
  <1> DEFINE D == (Run \cup {0}) \X Item \X Tracked
  <1>0. now \in Nat /\ clear \in [D -> Nat]
    BY DEF Typed, TypeOK
  <1>1. now' \in Nat /\ now' >= now /\ (now' = now \/ Watch)
    <2>1. CASE Tick
      BY <1>0, <2>1 DEF Tick
    <2>2. CASE UNCHANGED now
      BY <1>0, <2>2
    <2>3. CASE CallsKept /\ ~Tick
      BY <1>0, <2>2, <2>3 DEF CallsKept, RunStarts, RunWrites, RunEnds, SapChanges, Ingest, WeekChanges, Confirm, Resolve
    <2>4. ASSUME NEW u \in Caller, Ask(u) \/ Plan(u) \/ Get(u) \/ Fails(u) \/ Save(u) \/ Finish(u) PROVE UNCHANGED now
      BY <2>4 DEF Ask, Plan, Get, Fails, Save, Finish
    <2>5. ASSUME NEW u \in Caller,
                 ReadList(u) \/ ReadRun(u) \/ ReadRows(u) \/ ReadRules(u) \/ ReadSap(u) \/ ReadLog(u)
          PROVE UNCHANGED now
      BY <2>5 DEF ReadList, ReadRun, ReadRows, ReadRules, ReadSap, ReadLog, Reading
    <2>6. CASE UNCHANGED vars
      BY <2>2, <2>6 DEF vars
    <2> QED BY <2>1, <2>2, <2>3, <2>4, <2>5, <2>6 DEF Next, CallsKept
  <1>2. CASE Watch
    <2>1. \A x \in D : clear'[x] = IF Has(x[1], x[2], x[3])' THEN clear[x] ELSE now'
      BY <1>2, WatchStep
    <2>2. ASSUME NEW r \in Run \cup {0}, NEW i \in Item, NEW e \in Tracked
          PROVE  clear'[<<r, i, e>>] = IF Has(r, i, e)' THEN clear[<<r, i, e>>] ELSE now'
      BY <2>1
    <2>3. ASSUME NEW r \in Run \cup {0}, NEW i \in Item, NEW e \in Tracked
          PROVE  clear[<<r, i, e>>] <= now /\ clear[<<r, i, e>>] \in Nat
      BY <1>0 DEF ClearInv
    <2> QED BY <1>0, <1>1, <2>2, <2>3 DEF ClearInv
  <1>3. CASE ~Watch
    <2>1. clear' = clear /\ now' = now
      BY <1>1, <1>3, ClearKept
    <2>2. UNCHANGED week
      <3>1. CASE CallsKept
        BY <1>3, <3>1 DEF CallsKept, RunStarts, RunWrites, RunEnds, SapChanges, Ingest, WeekChanges, Tick, Confirm, Resolve
      <3>2. ASSUME NEW u \in Caller, Ask(u) \/ Plan(u) \/ Get(u) \/ Fails(u) \/ Save(u) \/ Finish(u) PROVE UNCHANGED week
        BY <3>2 DEF Ask, Plan, Get, Fails, Save, Finish
      <3>3. ASSUME NEW u \in Caller,
                   ReadList(u) \/ ReadRun(u) \/ ReadRows(u) \/ ReadRules(u) \/ ReadSap(u) \/ ReadLog(u)
            PROVE UNCHANGED week
        BY <3>3 DEF ReadList, ReadRun, ReadRows, ReadRules, ReadSap, ReadLog, Reading
      <3>4. CASE UNCHANGED vars
        BY <3>4 DEF vars, week
      <3> QED BY <3>1, <3>2, <3>3, <3>4 DEF Next, CallsKept
    <2>3. \A r, i, e : Has(r, i, e)' = Has(r, i, e)
      BY <2>2 DEF Has, ViewOf, week
    <2>4. \A r \in Run \cup {0}, i \in Item, e \in Tracked : clear[<<r, i, e>>] \in Nat
      BY <1>0
    <2> QED BY <2>1, <2>3, <2>4 DEF ClearInv
  <1> QED BY <1>2, <1>3

\* Time does not pass while a call is on its way.
LEMMA NoTickInCall ==
    ASSUME Typed, [Next]_vars, NEW u \in Caller, call[u].pc # "idle"
    PROVE  now' = now
  <1>1. ~Tick
    BY DEF Tick
  <1>2. CASE CallsKept
    BY <1>1, <1>2 DEF CallsKept, RunStarts, RunWrites, RunEnds, SapChanges, Ingest, WeekChanges, Confirm, Resolve
  <1>3. ASSUME NEW w \in Caller, Ask(w) \/ Plan(w) \/ Get(w) \/ Fails(w) \/ Save(w) \/ Finish(w) PROVE now' = now
    BY <1>3 DEF Ask, Plan, Get, Fails, Save, Finish
  <1>4. ASSUME NEW w \in Caller,
               ReadList(w) \/ ReadRun(w) \/ ReadRows(w) \/ ReadRules(w) \/ ReadSap(w) \/ ReadLog(w)
        PROVE now' = now
    BY <1>4 DEF ReadList, ReadRun, ReadRows, ReadRules, ReadSap, ReadLog, Reading
  <1>5. CASE UNCHANGED vars
    BY <1>5 DEF vars
  <1> QED BY <1>2, <1>3, <1>4, <1>5 DEF Next, CallsKept

\* What a result does not show, among the products that were asked for, was absent at t or later.
Evidence(since, result, skus, t) ==
    \A i \in Item, e \in Tracked :
        i[1] \in skus /\ i[3] \in result.regions /\ ~Is(result.failing, i, e) => since[<<result.run, i, e>>] >= t
InScope(failing, skus) == \A x \in DOMAIN failing : x[1] \in skus
\* What a diagnosis on its way has read so far.
SeenSoFar(since, n, c) ==
    \A i \in Item, e \in Tracked :
        /\ c.step > 1 /\ i \notin c.view.listed => \A r \in Run \cup {0} : since[<<r, i, e>>] = n
        /\ c.step > 3 /\ ~RowsAllow(c.view.rows, i, e) => since[<<c.row_run, i, e>>] = n
        /\ c.step > 4 /\ ~SapAllows(c.view.held, i, e) => \A r \in Run \cup {0} : since[<<r, i, e>>] = n
        /\ c.step > 5 /\ ~RulesAllow(c.view.breaks, i, e) => \A r \in Run \cup {0} : since[<<r, i, e>>] = n
Recent(since, n, result, skus) == \E t \in Nat : t + TTL > n /\ Evidence(since, result, skus, t)
EvidenceInv ==
    /\ ClearInv
    /\ \A u \in Caller : call[u].pc \in {"plan", "get"} => call[u].step = 1
    /\ \A u \in Caller : call[u].pc = "read" /\ call[u].tool = "diagnose_batch" => SeenSoFar(clear, now, call[u])
    /\ \A u \in Caller : call[u].pc = "finish" /\ call[u].tool = "diagnose_batch" =>
          Recent(clear, now, call[u].result, call[u].skus) /\ InScope(call[u].result.failing, call[u].skus)
    /\ \A k \in DOMAIN cache : k.tool = "diagnose_batch" =>
          cache[k].live /\ Evidence(clear, cache[k].result, k.skus, cache[k].saved) /\ InScope(cache[k].result.failing, k.skus)
    /\ \A u \in Caller : \A s \in DOMAIN checks[u] : InScope(checks[u][s].failing, s)

LEMMA DiagnoseReads ==
    /\ Reads["diagnose_batch"] = <<"list", "run", "rows", "sap", "rules">>
    /\ Len(Reads["diagnose_batch"]) = 5 /\ DOMAIN Reads["diagnose_batch"] = 1 .. 5
    /\ \A j \in 1 .. 5 : Reads["diagnose_batch"][j] = CASE j = 1 -> "list" [] j = 2 -> "run" [] j = 3 -> "rows"
                                                       [] j = 4 -> "sap" [] j = 5 -> "rules"
    /\ CACHE_KIND["diagnose_batch"] = "live"
  <1>1. Reads["diagnose_batch"] = <<"list", "run", "rows", "sap", "rules">>
    BY DEF Reads
  <1> DEFINE q == <<"list", "run", "rows", "sap", "rules">>
  <1>2. Len(q) = 5 /\ DOMAIN q = 1 .. 5
    OBVIOUS
  <1>3. q[1] = "list" /\ q[2] = "run" /\ q[3] = "rows" /\ q[4] = "sap" /\ q[5] = "rules"
    OBVIOUS
  <1>4. CACHE_KIND["diagnose_batch"] = "live"
    BY DEF CACHE_KIND
  <1> QED BY <1>1, <1>2, <1>3, <1>4

\* What is absent now has been absent now.
LEMMA AbsentNow ==
    ASSUME ClearInv, NEW r \in Run \cup {0}, NEW i \in Item, NEW e \in Tracked,
           \/ i \notin listed \/ ~RowsAllow(ViewOf(r).rows, i, e)
           \/ ~RulesAllow(strict, i, e) \/ ~SapAllows(held, i, e)
    PROVE  clear[<<r, i, e>>] = now
  <1>1. ~Has(r, i, e)
    <2>1. ViewOf(r).breaks = strict /\ ViewOf(r).held = held
      BY DEF ViewOf
    <2>2. verdict(ViewOf(r), i) = e <=>
              RowsAllow(ViewOf(r).rows, i, e) /\ RulesAllow(strict, i, e) /\ SapAllows(held, i, e)
      BY <2>1, VerdictBySource
    <2> QED BY <2>2 DEF Has
  <1> QED BY <1>1 DEF ClearInv

LEMMA SeenAfterRead ==
    ASSUME Typed, EvidenceInv, NEW u \in Caller, Read(u), call[u].tool = "diagnose_batch"
    PROVE  SeenSoFar(clear, now, call'[u])
  <1> DEFINE c == call[u]
             d == call'[u]
             what == Reads["diagnose_batch"][c.step]
  <1>0. c \in Call /\ SeenSoFar(clear, now, c) /\ c.pc = "read" /\ c.step \in 1 .. 5
    BY DiagnoseReads DEF Typed, TypeOK, EvidenceInv, Read
  <1>1. what = CASE c.step = 1 -> "list" [] c.step = 2 -> "run" [] c.step = 3 -> "rows"
                 [] c.step = 4 -> "sap" [] c.step = 5 -> "rules"
    BY <1>0, DiagnoseReads
  <1>2. /\ d.step = c.step + 1
        /\ IF what = "list" THEN d.view.listed = listed ELSE d.view.listed = c.view.listed
        /\ IF what = "rows" THEN d.row_run \in Run \cup {0} /\ d.view.rows = ViewOf(d.row_run).rows
           ELSE d.row_run = c.row_run /\ d.view.rows = c.view.rows
        /\ d.view.breaks = IF what = "rules" THEN strict ELSE c.view.breaks
        /\ d.view.held = IF what = "sap" THEN held ELSE c.view.held
    BY DEF Read
  <1> SUFFICES ASSUME NEW i \in Item, NEW e \in Tracked
               PROVE  /\ d.step > 1 /\ i \notin d.view.listed => \A r \in Run \cup {0} : clear[<<r, i, e>>] = now
                      /\ d.step > 3 /\ ~RowsAllow(d.view.rows, i, e) => clear[<<d.row_run, i, e>>] = now
                      /\ d.step > 4 /\ ~SapAllows(d.view.held, i, e) => \A r \in Run \cup {0} : clear[<<r, i, e>>] = now
                      /\ d.step > 5 /\ ~RulesAllow(d.view.breaks, i, e) => \A r \in Run \cup {0} : clear[<<r, i, e>>] = now
    BY DEF SeenSoFar
  <1> DEFINE All == \A r \in Run \cup {0} : clear[<<r, i, e>>] = now
  <1>3. /\ c.step > 1 /\ i \notin c.view.listed => All
        /\ c.step > 3 /\ ~RowsAllow(c.view.rows, i, e) => clear[<<c.row_run, i, e>>] = now
        /\ c.step > 4 /\ ~SapAllows(c.view.held, i, e) => All
        /\ c.step > 5 /\ ~RulesAllow(c.view.breaks, i, e) => All
    BY <1>0 DEF SeenSoFar
  <1>4. /\ i \notin listed => All
        /\ ~SapAllows(held, i, e) => All
        /\ ~RulesAllow(strict, i, e) => All
        /\ \A r \in Run \cup {0} : ~RowsAllow(ViewOf(r).rows, i, e) => clear[<<r, i, e>>] = now
    BY AbsentNow DEF EvidenceInv
  <1> HIDE DEF All
  <1>5. CASE c.step = 1
    BY <1>1, <1>2, <1>4, <1>5 DEF All
  <1>6. CASE c.step = 2
    BY <1>1, <1>2, <1>3, <1>6 DEF All
  <1>7. CASE c.step = 3
    BY <1>1, <1>2, <1>3, <1>4, <1>7 DEF All
  <1>8. CASE c.step = 4
    BY <1>1, <1>2, <1>3, <1>4, <1>8 DEF All
  <1>9. CASE c.step = 5
    BY <1>1, <1>2, <1>3, <1>4, <1>9 DEF All
  <1> QED BY <1>0, <1>5, <1>6, <1>7, <1>8, <1>9

\* A diagnosis that has read everything leaves out only what was absent.
LEMMA AnswerEvidence ==
    ASSUME Typed, EvidenceInv, NEW u \in Caller, Save(u), call[u].tool = "diagnose_batch"
    PROVE  Evidence(clear, Answer(u), call[u].skus, now) /\ InScope(Answer(u).failing, call[u].skus)
  <1> DEFINE c == call[u]
             v == c.view
             f == Answer(u).failing
  <1>0. c \in Call /\ c.pc = "read" /\ c.step > 5 /\ SeenSoFar(clear, now, c) /\ c.row_run \in Run \cup {0}
        /\ now \in Nat /\ clear \in [(Run \cup {0}) \X Item \X Tracked -> Nat]
    BY DiagnoseReads DEF Save, Typed, TypeOK, EvidenceInv, Call
  <1>1. Answer(u).regions = c.regions /\ Answer(u).run = c.row_run /\ InScope(f, c.skus)
    BY <1>0, AnswerType DEF InScope
  <1>2. f = diagnose(v, c.skus, c.regions)
    BY DEF Answer
  <1>3. ASSUME NEW i \in Item, NEW e \in Tracked, i[1] \in c.skus, i[3] \in c.regions, ~Is(f, i, e)
        PROVE  clear[<<c.row_run, i, e>>] >= now
    <2>1. i[2] # NoPack /\ e # OK
      BY ToolCacheAssumption DEF Item
    <2>2. CASE i \in v.listed
      <3>1. verdict(v, i) # e
        <4> SUFFICES ASSUME verdict(v, i) = e PROVE FALSE
          OBVIOUS
        <4>1. i \in DOMAIN diagnose(v, c.skus, c.regions)
          BY <1>3, <2>1, <2>2 DEF diagnose
        <4>2. diagnose(v, c.skus, c.regions)[i] = e
          BY <2>1, <4>1 DEF diagnose
        <4> QED BY <1>2, <1>3, <4>1, <4>2 DEF Is
      <3>2. ~(RowsAllow(v.rows, i, e) /\ RulesAllow(v.breaks, i, e) /\ SapAllows(v.held, i, e))
        BY <3>1, VerdictBySource
      <3>3. c.step > 3 /\ c.step > 4 /\ c.step > 5
        BY <1>0 DEF Call
      <3>4. clear[<<c.row_run, i, e>>] = now
        BY <1>0, <3>2, <3>3 DEF SeenSoFar
      <3> QED BY <1>0, <3>4
    <2>3. CASE i \notin v.listed
      <3>1. c.step > 1
        BY <1>0 DEF Call
      <3>2. clear[<<c.row_run, i, e>>] = now
        BY <1>0, <2>3, <3>1 DEF SeenSoFar
      <3> QED BY <1>0, <3>2
    <2> QED BY <2>2, <2>3
  <1>4. Evidence(clear, Answer(u), c.skus, now)
    BY <1>1, <1>3 DEF Evidence
  <1> QED BY <1>1, <1>4

LEMMA EvidenceLasts ==
    ASSUME Typed, ClearInv, [Next]_vars, NEW result \in Result, NEW skus, NEW t \in Nat, Evidence(clear, result, skus, t)
    PROVE  Evidence(clear', result, skus, t)
  <1>1. result.run \in Run \cup {0}
    BY DEF Result
  <1>2. ASSUME NEW i \in Item, NEW e \in Tracked, clear[<<result.run, i, e>>] >= t
        PROVE  clear'[<<result.run, i, e>>] >= t
    <2>1. clear[<<result.run, i, e>>] \in Nat /\ clear'[<<result.run, i, e>>] \in Nat
          /\ clear'[<<result.run, i, e>>] >= clear[<<result.run, i, e>>]
      <3>1. clear'[<<result.run, i, e>>] >= clear[<<result.run, i, e>>]
        BY <1>1, ClearStep
      <3>2. clear \in [(Run \cup {0}) \X Item \X Tracked -> Nat]
        BY DEF Typed, TypeOK
      <3>3. clear' \in [(Run \cup {0}) \X Item \X Tracked -> Nat]
        BY ClearTyped
      <3> QED BY <1>1, <3>1, <3>2, <3>3
    <2> QED BY <1>2, <2>1
  <1> QED BY <1>2 DEF Evidence

LEMMA EvidenceStep == Typed /\ AccessInv /\ EvidenceInv /\ [Next]_vars => EvidenceInv'
  <1> SUFFICES ASSUME Typed, AccessInv, EvidenceInv, [Next]_vars PROVE EvidenceInv'
    OBVIOUS
  <1>0. ClearInv /\ ClearInv' /\ now \in Nat /\ clear \in [(Run \cup {0}) \X Item \X Tracked -> Nat]
        /\ TTL \in Nat /\ TTL > 0
    BY ClearStep, ToolCacheAssumption DEF EvidenceInv, Typed, TypeOK
  <1>1. ASSUME NEW u \in Caller
        PROVE  /\ call'[u].pc \in {"plan", "get"} => call'[u].step = 1
               /\ call'[u].pc = "read" /\ call'[u].tool = "diagnose_batch" => SeenSoFar(clear', now', call'[u])
               /\ call'[u].pc = "finish" /\ call'[u].tool = "diagnose_batch" =>
                     Recent(clear', now', call'[u].result, call'[u].skus) /\ InScope(call'[u].result.failing, call'[u].skus)
    <2> DEFINE c == call[u]
               d == call'[u]
               G1 == d.pc \in {"plan", "get"} => d.step = 1
               G2 == d.pc = "read" /\ d.tool = "diagnose_batch" => SeenSoFar(clear', now', d)
               G3 == d.pc = "finish" /\ d.tool = "diagnose_batch" =>
                        Recent(clear', now', d.result, d.skus) /\ InScope(d.result.failing, d.skus)
    <2>0. /\ c \in Call
          /\ c.pc \in {"plan", "get"} => c.step = 1
          /\ c.pc = "read" /\ c.tool = "diagnose_batch" => SeenSoFar(clear, now, c)
          /\ c.pc = "finish" /\ c.tool = "diagnose_batch" =>
                Recent(clear, now, c.result, c.skus) /\ InScope(c.result.failing, c.skus)
      BY DEF Typed, TypeOK, EvidenceInv
    <2>1. CASE d = c
      <3>1. ASSUME d.pc = "read", d.tool = "diagnose_batch" PROVE SeenSoFar(clear', now', d)
        <4>1. now' = now
          BY <2>1, <3>1, NoTickInCall
        <4>2. SeenSoFar(clear, now, c) /\ c.row_run \in Run \cup {0}
          BY <2>0, <2>1, <3>1 DEF Call
        <4>3. ASSUME NEW r \in Run \cup {0}, NEW i \in Item, NEW e \in Tracked, clear[<<r, i, e>>] = now
              PROVE  clear'[<<r, i, e>>] = now'
          <5>1. clear'[<<r, i, e>>] >= clear[<<r, i, e>>] /\ clear'[<<r, i, e>>] <= now'
            BY <1>0, ClearStep DEF ClearInv
          <5>2. clear' \in [(Run \cup {0}) \X Item \X Tracked -> Nat]
            BY ClearTyped
          <5>3. clear'[<<r, i, e>>] \in Nat
            BY <5>2
          <5> QED BY <1>0, <4>1, <4>3, <5>1, <5>3
        <4> QED BY <2>1, <4>2, <4>3 DEF SeenSoFar
      <3>2. ASSUME d.pc = "finish", d.tool = "diagnose_batch"
            PROVE  Recent(clear', now', d.result, d.skus) /\ InScope(d.result.failing, d.skus)
        <4>1. now' = now
          BY <2>1, <3>2, NoTickInCall
        <4>2. PICK t \in Nat : t + TTL > now /\ Evidence(clear, c.result, c.skus, t)
          BY <2>0, <2>1, <3>2 DEF Recent
        <4>3. c.result \in Result
          BY <2>0 DEF Call
        <4>4. Evidence(clear', d.result, d.skus, t)
          BY <1>0, <2>1, <4>2, <4>3, EvidenceLasts
        <4> QED BY <2>0, <2>1, <3>2, <4>1, <4>2, <4>4 DEF Recent
      <3> QED BY <2>0, <2>1, <3>1, <3>2
    <2>2. CASE d = NoCall
      BY <2>2 DEF NoCall
    <2>3. CASE Asked(u)
      BY <2>3 DEF Asked
    <2>4. CASE Planned(u)
      <3>1. PICK p \in {"read", "get"}, Z \in SUBSET {key(u, c.tool, c.skus, c.asked, _run(c.requested))} :
                  d = [c EXCEPT !.pc = p, !.key = Z, !.newest = Newest]
        BY <2>4 DEF Planned
      <3>2. d.pc = p /\ d.step = 1
        <4>1. c.step = 1
          BY <2>0, <2>4 DEF Planned, Plan
        <4> QED BY <2>0, <3>1, <4>1 DEF Call
      <3>3. SeenSoFar(clear', now', d)
        BY <3>2 DEF SeenSoFar
      <3> QED BY <3>2, <3>3
    <2>5. CASE Missed(u)
      <3>1. d.pc = "read" /\ d.step = 1
        BY <2>0, <2>5 DEF Call, Missed
      <3>2. SeenSoFar(clear', now', d)
        BY <3>1 DEF SeenSoFar
      <3> QED BY <3>1, <3>2
    <2>6. CASE Hit(u)
      <3>1. PICK k \in c.key : Cached(k) /\ d = Answered(c, cache[k].result)
        BY <2>6 DEF Hit
      <3>2. cache[k].result \in Result /\ k \in DOMAIN cache /\ cache[k].saved \in Nat
        BY <3>1 DEF Cached, Typed, TypeOK, Entry
      <3>3. d.pc = "finish" /\ d.skus = c.skus /\ d.tool = c.tool /\ d.result = cache[k].result
        BY <2>0, <3>1, <3>2, AnsweredType
      <3>4. k.skus = c.skus /\ k.tool = c.tool
        BY <3>1 DEF AccessInv, KeyIsMine
      <3>5. ASSUME d.tool = "diagnose_batch"
            PROVE  Recent(clear', now', d.result, d.skus) /\ InScope(d.result.failing, d.skus)
        <4> DEFINE t == cache[k].saved
        <4>1. cache[k].live /\ Evidence(clear, cache[k].result, k.skus, t) /\ InScope(cache[k].result.failing, k.skus)
          BY <3>2, <3>3, <3>4, <3>5 DEF EvidenceInv
        <4>2. t + TTL > now
          BY <1>0, <3>1, <3>2, <4>1 DEF Cached, Fresh
        <4>3. now' = now
          BY <2>6, NoTickInCall DEF Hit
        <4>4. Evidence(clear', d.result, d.skus, t)
          BY <1>0, <3>2, <3>3, <3>4, <4>1, EvidenceLasts
        <4> QED BY <3>2, <3>3, <3>4, <4>1, <4>2, <4>3, <4>4 DEF Recent
      <3> QED BY <3>3, <3>5
    <2>7. CASE Read(u)
      <3>1. now' = now /\ clear' = clear /\ d.pc = "read" /\ d.tool = c.tool
        BY <2>7 DEF Read
      <3>2. ASSUME c.tool = "diagnose_batch" PROVE SeenSoFar(clear', now', d)
        BY <2>7, <3>1, <3>2, SeenAfterRead DEF SeenSoFar
      <3> QED BY <3>1, <3>2
    <2>8. CASE Saved(u)
      <3>1. Save(u) /\ c.pc = "read" /\ d = Answered(c, Answer(u)) /\ now' = now /\ clear' = clear
        BY <2>8 DEF Saved, Save
      <3>2. Answer(u) \in Result
        BY <3>1, AnswerType
      <3>3. d.pc = "finish" /\ d.skus = c.skus /\ d.tool = c.tool /\ d.result = Answer(u)
        BY <2>0, <3>1, <3>2, AnsweredType
      <3>4. ASSUME c.tool = "diagnose_batch"
            PROVE  Recent(clear', now', d.result, d.skus) /\ InScope(d.result.failing, d.skus)
        <4>1. Evidence(clear, Answer(u), c.skus, now) /\ InScope(Answer(u).failing, c.skus)
          BY <3>1, <3>4, AnswerEvidence
        <4>2. now + TTL > now
          BY <1>0
        <4> QED BY <1>0, <3>1, <3>3, <4>1, <4>2 DEF Recent
      <3> QED BY <3>3, <3>4
    <2>9. G1 /\ G2 /\ G3
      BY <2>1, <2>2, <2>3, <2>4, <2>5, <2>6, <2>7, <2>8, CallStep
    <2> QED BY <2>9
  <1>2. ASSUME NEW k \in DOMAIN cache', k.tool = "diagnose_batch"
        PROVE  cache'[k].live /\ Evidence(clear', cache'[k].result, k.skus, cache'[k].saved) /\ InScope(cache'[k].result.failing, k.skus)
    <2> DEFINE G(x) == x.live /\ Evidence(clear', x.result, k.skus, x.saved) /\ InScope(x.result.failing, k.skus)
    <2>1. ASSUME k \in DOMAIN cache PROVE G(cache[k])
      <3>1. cache[k].live /\ Evidence(clear, cache[k].result, k.skus, cache[k].saved) /\ InScope(cache[k].result.failing, k.skus)
        BY <1>2, <2>1 DEF EvidenceInv
      <3>2. cache[k].result \in Result /\ cache[k].saved \in Nat
        BY <2>1 DEF Typed, TypeOK, Entry
      <3>3. Evidence(clear', cache[k].result, k.skus, cache[k].saved)
        BY <1>0, <3>1, <3>2, EvidenceLasts
      <3> QED BY <3>1, <3>3
    <2>2. ASSUME NEW u \in Caller, Save(u), k \in call[u].key,
                 NEW x, x = [result |-> Answer(u), saved |-> now, live |-> CACHE_KIND[call[u].tool] = "live"]
          PROVE  G(x)
      <3>1. call[u].tool = "diagnose_batch" /\ k.skus = call[u].skus
        BY <1>2, <2>2 DEF AccessInv, KeyIsMine
      <3>2. Evidence(clear, Answer(u), k.skus, now) /\ InScope(Answer(u).failing, k.skus)
        BY <2>2, <3>1, AnswerEvidence
      <3>3. clear' = clear
        BY <2>2 DEF Save
      <3>4. CACHE_KIND[call[u].tool] = "live"
        BY <3>1, DiagnoseReads
      <3> QED BY <2>2, <3>2, <3>3, <3>4
    <2> HIDE DEF G
    <2>3. G(cache'[k])
      BY <2>1, <2>2, <1>2, CacheStep
    <2> QED BY <2>3 DEF G
  <1>3. ASSUME NEW u \in Caller, NEW s \in DOMAIN checks'[u]
        PROVE  InScope(checks'[u][s].failing, s)
    <2>1. CASE s \in DOMAIN checks[u] /\ checks'[u][s] = checks[u][s]
      BY <2>1 DEF EvidenceInv
    <2>2. CASE Finish(u) /\ call[u].tool = "diagnose_batch" /\ s = call[u].skus
               /\ checks'[u][s] = CheckOf(call[u].result)
      <3>1. InScope(call[u].result.failing, call[u].skus)
        BY <2>2 DEF EvidenceInv, Finish
      <3> QED BY <2>2, <3>1 DEF CheckOf
    <2> QED BY <2>1, <2>2, ChecksStep
  <1> QED BY <1>0, <1>1, <1>2, <1>3 DEF EvidenceInv

LEMMA EvidenceAlways == Spec => [](Typed /\ AccessInv /\ EvidenceInv)
  <1>1. Init => AccessInv
    BY DEF Init, AccessInv, KeyIsMine, CacheNeverWidens, NoCall, Empty
  <1>2. Init => EvidenceInv
    <2> SUFFICES ASSUME Init PROVE EvidenceInv
      OBVIOUS
    <2>1. ClearInv
      BY DEF Init, ClearInv
    <2>2. \A u \in Caller : call[u].pc = "idle" /\ DOMAIN checks[u] = {}
      BY DEF Init, NoCall, Empty
    <2>3. DOMAIN cache = {}
      BY DEF Init, Empty
    <2> QED BY <2>1, <2>2, <2>3 DEF EvidenceInv
  <1> QED BY <1>1, <1>2, InitTyped, StepTyped, AccessStep, EvidenceStep, PTL DEF Spec

\* A record that a user is told is resolved was without the problem it had in the last check of
\* the same products, in the run that was diagnosed, within the time a live answer is reused:
\* whatever changed between the reads, whoever computed the answer and whichever regions the two
\* checks covered (state.py 106-141).
THEOREM ReportedGoneIsGone == Spec => []ReportedGoneWasGone
  <1>1. Typed /\ EvidenceInv => ReportedGoneWasGone
    <2> SUFFICES ASSUME Typed, EvidenceInv, NEW u \in Caller, call[u].pc = "finish", call[u].tool = "diagnose_batch",
                        NEW x \in Item, NEW e \in Tracked, <<x, e>> \in Reported(u)
                 PROVE  clear[<<call[u].result.run, x, e>>] + TTL > now
      BY DEF ReportedGoneWasGone
    <2> DEFINE c == call[u]
               before == checks[u][c.skus]
               common == before.regions \cap c.result.regions
    <2>1. c \in Call /\ c.result \in Result /\ now \in Nat /\ TTL \in Nat
          /\ clear[<<c.result.run, x, e>>] \in Nat
      <3>1. c \in Call /\ c.result \in Result /\ c.result.run \in Run \cup {0}
        BY DEF Typed, TypeOK, Call, Result
      <3> QED BY <3>1, ToolCacheAssumption DEF Typed, TypeOK
    <2>2. c.skus \in DOMAIN checks[u] /\ <<x, e>> \in Gone(before, CheckOf(c.result))
      BY DEF Reported
    <2>3. x \in DOMAIN In(before.failing, common) /\ x \notin DOMAIN In(c.result.failing, common)
      BY <2>2 DEF Gone, Resolved, CheckOf
    <2>4. x \in DOMAIN before.failing /\ x[3] \in common /\ x \notin DOMAIN c.result.failing
      BY <2>3 DEF In
    <2>5. x[1] \in c.skus
      BY <2>2, <2>4 DEF EvidenceInv, InScope
    <2>6. PICK t \in Nat : t + TTL > now /\ Evidence(clear, c.result, c.skus, t)
      BY DEF EvidenceInv, Recent
    <2>7. clear[<<c.result.run, x, e>>] >= t
      BY <2>4, <2>5, <2>6 DEF Evidence, Is
    <2> QED BY <2>1, <2>6, <2>7
  <1> QED BY <1>1, EvidenceAlways, PTL

\* A finding that a diagnosis closes by itself was gone: each of its records was without the
\* problem, in the run that was diagnosed, within the time a live answer is reused
\* (findings.py 85-116, tools.py 441-446).
THEOREM ClosedByEvidence == Spec => ResolvedByEvidence
  <1> DEFINE A == \A n \in DOMAIN findings, u \in Caller :
                     findings[n].status = "open" /\ findings'[n].status = "auto" /\ call[u].pc = "finish" /\ call'[u].pc = "idle"
                     => \A i \in Item : i[1] \in findings[n].skus /\ i[3] = findings[n].region
                           => clear[<<call[u].result.run, i, findings[n].code>>] + TTL > now
  <1>1. Typed /\ EvidenceInv /\ [Next]_vars => A
    <2> SUFFICES ASSUME Typed, EvidenceInv, [Next]_vars, NEW n \in DOMAIN findings, NEW u \in Caller,
                        findings[n].status = "open", findings'[n].status = "auto", call[u].pc = "finish", call'[u].pc = "idle",
                        NEW i \in Item, i[1] \in findings[n].skus, i[3] = findings[n].region
                 PROVE  clear[<<call[u].result.run, i, findings[n].code>>] + TTL > now
      OBVIOUS
    <2> DEFINE c == call[u]
               f == findings[n]
    <2>0. f \in Finding /\ findings \in Seq(Finding) /\ call \in [Caller -> Call] /\ c.result.run \in Run \cup {0}
          /\ now \in Nat /\ TTL \in Nat
      <3>1. findings \in Seq(Finding) /\ call \in [Caller -> Call] /\ now \in Nat /\ TTL \in Nat
        BY ToolCacheAssumption DEF Typed, TypeOK
      <3>2. f \in Finding
        BY <3>1
      <3>3. c \in Call
        BY <3>1
      <3>4. c.result \in Result
        BY <3>3 DEF Call
      <3> QED BY <3>1, <3>2, <3>4 DEF Result
    <2>1. Finish(u)
      <3>1. ASSUME CallsKept \/ UNCHANGED vars PROVE FALSE
        BY <3>1, CallsKeptSame DEF vars
      <3>2. ASSUME NEW w \in Caller, Ask(w) \/ Plan(w) \/ Get(w) \/ Fails(w) \/ Save(w) PROVE findings' = findings
        BY <3>2 DEF Ask, Plan, Get, Fails, Save
      <3>3. ASSUME NEW w \in Caller,
                   ReadList(w) \/ ReadRun(w) \/ ReadRows(w) \/ ReadRules(w) \/ ReadSap(w) \/ ReadLog(w)
            PROVE findings' = findings
        BY <3>3 DEF ReadList, ReadRun, ReadRows, ReadRules, ReadSap, ReadLog, Reading
      <3>4. ASSUME NEW w \in Caller, Finish(w) PROVE w = u
        BY <2>0, <3>4 DEF Finish
      <3> QED BY <3>1, <3>2, <3>3, <3>4 DEF Next, CallsKept
    <2>2. c.tool = "diagnose_batch" /\ Closes(c.result, c.skus, f)
      <3>1. CASE c.tool # "diagnose_batch"
        BY <2>1, <3>1 DEF Finish
      <3>2. CASE c.tool = "diagnose_batch"
        <4>1. findings' = [m \in DOMAIN findings |-> IF Closes(c.result, c.skus, findings[m])
                              THEN [findings[m] EXCEPT !.status = "auto"] ELSE findings[m]]
          BY <2>1, <3>2 DEF Finish
        <4> QED BY <3>2, <4>1
      <3> QED BY <3>1, <3>2
    <2>3. i[1] \in c.skus /\ i[3] \in c.result.regions /\ ~Is(c.result.failing, i, f.code)
      BY <2>2 DEF Closes, Covers, Shows, Is
    <2>4. PICK t \in Nat : t + TTL > now /\ Evidence(clear, c.result, c.skus, t)
      BY <2>2 DEF EvidenceInv, Recent
    <2>5. f.code \in Tracked
      BY <2>0 DEF Finding
    <2>6. clear[<<c.result.run, i, f.code>>] >= t
      BY <2>3, <2>4, <2>5 DEF Evidence
    <2>7. clear[<<c.result.run, i, f.code>>] \in Nat
      BY <2>0, <2>5 DEF Typed, TypeOK
    <2> QED BY <2>0, <2>4, <2>6, <2>7
  <1>2. Typed /\ EvidenceInv /\ [Next]_vars => [A]_vars
    BY <1>1
  <1> QED BY <1>2, EvidenceAlways, PTL DEF Spec, ResolvedByEvidence

==============================================================================
