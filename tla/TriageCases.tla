----------------------------- MODULE TriageCases -----------------------------
(***************************************************************************)
(* Triage cases in Postgres (services/diagnostic_api/triage_store.py), the *)
(* weekly scan that writes them (jobs/weekly_triage/scan.py), the people   *)
(* who decide them, the deadline sweep, and the findings an Accept leaves  *)
(* (findings.py).  The scans are of one week and do not overlap.           *)
(*                                                                         *)
(* An action is one transaction, or one statement of a transaction that    *)
(* reads without a lock and writes later.  sync locks the rows it updates  *)
(* until it commits, so all of its writes are one step at the commit.      *)
(* Left out, since nothing here reads them back: events, the log of scans, *)
(* the texts of proposals and the reason an investigation writes into an   *)
(* outcome case.  Who is told of the cases is in module TriageNotices.     *)
(***************************************************************************)
EXTENDS Naturals, Sequences, FiniteSetsExt

CONSTANTS
    Code,          \* what can be wrong: (error code, reason), (brand, region), or an incident
    Kind,          \* Kind[c]: "record", "outcome" or "incident"
    Playbook,      \* Playbook[c]: the owner that a new case of c has while the playbooks can be read
    Record,        \* the ways a record can fail
    CodeOf,        \* CodeOf[r], RegionOf[r], SkuOf[r]: what is wrong with which record
    RegionOf,
    SkuOf,
    Earlier,       \* Earlier[c]: this week's outcome code of the brand and region that c flagged earlier
    Owner,
    DevelopmentTeam,
    DecisionOwner,
    Business,      \* the owners outside the technical teams
    Person,
    MaxDecisions,  \* bound: requests people start
    MaxChanges,    \* bound: times the failing records or the list change
    MaxFaults      \* bound: crashes, failed requests, outages and mass failures

ASSUME TriageAssumption ==
    /\ Kind \in [Code -> {"record", "outcome", "incident"}]
    /\ Playbook \in [Code -> Owner]
    /\ \A c \in Code : Kind[c] = "outcome" => Playbook[c] = DevelopmentTeam
    /\ CodeOf \in [Record -> Code]
    /\ \A r \in Record : Kind[CodeOf[r]] # "incident"
    /\ \A c \in DOMAIN Earlier :
          /\ {c, Earlier[c]} \subseteq Code /\ Kind[c] = "outcome" /\ Earlier[c] \notin DOMAIN Earlier
          /\ \E r \in Record : CodeOf[r] = c
    /\ Business \subseteq Owner /\ DecisionOwner \in Business /\ DevelopmentTeam \in Owner \ Business
    /\ MaxDecisions \in Nat /\ MaxChanges \in Nat /\ MaxFaults \in Nat

VARIABLES
    week,        \* which records fail a check now, and what the week's candidate list holds
    cases,       \* triage_cases
    findings,    \* the findings table; a finding's id is its position
    pc, scan,    \* the running scan: control point and what it has read
    request,     \* per person: the decision being carried out
    decisions, changes, faults

vars == <<week, cases, findings, pc, scan, request, decisions, changes, faults>>
scanner == <<pc, scan>>

Status == {"none", "open", "accepted", "escalated", "waived", "resolved"}
Decision == {"none", "accept", "waive", "known_finding", "wrong_cause", "wrong_owner", "action_refused"}
Trouble == {"kb_down", "no_sales", "breaker"}

\* A case is keyed by what is wrong and by the owner its playbook names: the
\* development team when there is no playbook or it cannot be read.
Key(c, kb_down) == <<c, IF Kind[c] = "record" /\ kb_down THEN DevelopmentTeam ELSE Playbook[c]>>
CaseKey == {Key(c, d) : c \in Code, d \in BOOLEAN}
ThisWeek(k) == k[1] \notin DOMAIN Earlier

\* deadline: whether a response is due; time itself is not modelled.
Case == [status : Status, records : SUBSET Record, waived_records : SUBSET Record, deadline : BOOLEAN,
         decision : Decision, owner : Owner, finding_ids : SUBSET Nat]
Absent == [status |-> "none", records |-> {}, waived_records |-> {}, deadline |-> FALSE,
           decision |-> "none", owner |-> DevelopmentTeam, finding_ids |-> {}]

\* The items of the week's candidate list: the products and regions whose records can fail.
Item(r) == <<SkuOf[r], RegionOf[r]>>
Items == {Item(r) : r \in {x \in Record : Kind[CodeOf[x]] = "record"}}
\* A finding is within the scope of a check of these items.
InScope(f, items) == f.region \in {i[2] : i \in items} /\ f.skus \subseteq {i[1] : i \in items}

Regions(records) == {RegionOf[r] : r \in records}
SkusIn(records, region) == {SkuOf[r] : r \in {x \in records : RegionOf[x] = region}}

Finding == [code : Code, region : Regions(Record), skus : SUBSET {SkuOf[r] : r \in Record},
            status : {"open", "resolved"}]
OpenFindings == {i \in DOMAIN findings : findings[i].status = "open"}

\* What a scan has read: what went wrong, the incident if there is one, the list, the failing records,
\* the findings that cover each case, the rows of the week, and the cases left for the model.
Scan == [trouble : SUBSET Trouble, incident : SUBSET Code, checked : SUBSET Items, found : SUBSET Record,
         known : [CaseKey -> SUBSET Nat], rows : [CaseKey -> Case], pending : SUBSET CaseKey]
NoScan == [trouble |-> {}, incident |-> {}, checked |-> {}, found |-> {}, known |-> [k \in CaseKey |-> {}],
           rows |-> [k \in CaseKey |-> Absent], pending |-> {}]
\* A decision on the way: the case, the records as they were read, the regions still
\* without a finding and the ids of those written.
Request == [op : {"none", "accept", "accepting", "waive"}, key : CaseKey \cup {<<>>},
            seen : SUBSET Record, todo : SUBSET Regions(Record), ids : SUBSET Nat]
NoRequest == [op |-> "none", key |-> <<>>, seen |-> {}, todo |-> {}, ids |-> {}]

\* A case an earlier week's scan left behind.
LeftOpen(k) == [Absent EXCEPT !.status = "open", !.deadline = TRUE, !.records = {r \in Record : CodeOf[r] = k[1]}]

Init ==
    /\ week = [failing |-> {}, listed |-> Items]
    /\ cases = [k \in CaseKey |-> IF ThisWeek(k) THEN Absent ELSE LeftOpen(k)]
    /\ findings = <<>>
    /\ pc = "idle"
    /\ scan = NoScan
    /\ request = [u \in Person |-> NoRequest]
    /\ decisions = 0 /\ changes = 0 /\ faults = 0

\* The row is locked by a decision that has not committed yet.
Locked(k) == \E u \in Person : request[u].op = "accepting" /\ request[u].key = k

------------------------------------------------------------------------------
(* The scan *)

\* The checks: the list and what fails of it now, whether the playbooks and the sales could be read, and
\* whether so much of the week fails that it is held as one incident.
ReadWeek ==
    /\ pc = "idle"
    /\ \E trouble \in SUBSET Trouble :
          /\ faults + Cardinality(trouble) <= MaxFaults
          /\ faults' = faults + Cardinality(trouble)
          /\ scan' = [NoScan EXCEPT !.trouble = trouble, !.checked = week.listed,
                 !.found = {r \in week.failing : Kind[CodeOf[r]] = "outcome" => "no_sales" \notin trouble}]
    /\ pc' = "known"
    /\ UNCHANGED <<week, cases, findings, request, decisions, changes>>

\* No finished run, a failed one, or SAP cannot be read: the incident itself is synced.
NoUsableWeek ==
    /\ pc = "idle"
    /\ faults < MaxFaults
    /\ faults' = faults + 1
    /\ \E c \in {x \in Code : Kind[x] = "incident"} : scan' = [NoScan EXCEPT !.incident = {c}]
    /\ pc' = "sync"
    /\ UNCHANGED <<week, cases, findings, request, decisions, changes>>

KbDown == "kb_down" \in scan.trouble
Hold == "breaker" \in scan.trouble
ScannedKinds ==
    IF scan.incident # {} THEN {"incident"}
    ELSE {"record", "incident"} \cup (IF "no_sales" \in scan.trouble THEN {} ELSE {"outcome"})

FoundKeys == {Key(c, KbDown) : c \in {CodeOf[r] : r \in scan.found} \cup scan.incident}
FoundRecords(k) == {r \in scan.found : CodeOf[r] = k[1]}

\* Cases that open findings cover completely, with the ids of those findings.
Covering(k, region) ==
    {i \in OpenFindings : /\ findings[i].code = k[1] /\ findings[i].region = region
                          /\ SkusIn(FoundRecords(k), region) \subseteq findings[i].skus}
KnownIds(k) ==
    LET regions == Regions(FoundRecords(k)) IN
    IF \A region \in regions : Covering(k, region) # {} THEN UNION {Covering(k, x) : x \in regions} ELSE {}

ReadKnown ==
    /\ pc = "known"
    /\ scan' = [scan EXCEPT !.known = [k \in CaseKey |-> IF k \in FoundKeys THEN KnownIds(k) ELSE {}]]
    /\ pc' = "sync"
    /\ UNCHANGED <<week, cases, findings, request, decisions, changes, faults>>

\* sync reads the cases of the week, without a lock ...
SyncRead ==
    /\ pc = "sync"
    /\ scan' = [scan EXCEPT !.rows = [k \in CaseKey |-> IF ThisWeek(k) THEN cases[k] ELSE Absent]]
    /\ pc' = "write"
    /\ UNCHANGED <<week, cases, findings, request, decisions, changes, faults>>

NewDeadline == ~Hold

Inserted(k) ==
    [Absent EXCEPT !.records = FoundRecords(k), !.owner = k[2], !.finding_ids = scan.known[k],
        !.status = IF scan.known[k] # {} THEN "accepted" ELSE "open",
        !.decision = IF scan.known[k] # {} THEN "known_finding" ELSE "none",
        !.deadline = scan.known[k] = {} /\ NewDeadline]

\* MUTANTS: a waiver covers whatever fails later; held cases are never released.
Event_WaivedQuiet(row, records) ==
    CASE row.status = "resolved" -> "reopened"
      [] row.status = "open" /\ row.records = records /\ ~row.deadline /\ ~Hold -> "released"
      [] row.status \notin {"resolved", "waived"} /\ records # row.records -> "changed"
      [] OTHER -> "unchanged"
Event_NeverReleased(row, records) ==
    CASE row.status = "resolved" -> "reopened"
      [] row.status = "waived" -> IF records \subseteq row.waived_records THEN "unchanged" ELSE "reopened"
      [] row.status \notin {"resolved", "waived"} /\ records # row.records -> "changed"
      [] OTHER -> "unchanged"

\* What happens to a case that was found again, judged by the row as it was read.
Event(row, records) ==
    CASE row.status = "resolved" -> "reopened"
      [] row.status = "waived" -> IF records \subseteq row.waived_records THEN "unchanged" ELSE "reopened"
      [] row.status \notin {"resolved", "waived"} /\ records # row.records -> "changed"
      [] row.status = "open" /\ row.records = records /\ ~row.deadline /\ ~Hold -> "released"
      [] OTHER -> "unchanged"

\* MUTANT: the decision is cleared for a changed case as for a reopened one.
Updated_ClearsDecision(k) ==
    LET row == scan.rows[k]
        event == Event(row, FoundRecords(k))
    IN  [cases[k] EXCEPT !.status = IF event = "reopened" THEN "open" ELSE row.status,
            !.records = FoundRecords(k),
            !.deadline = IF event \in {"reopened", "released"} THEN NewDeadline ELSE @,
            !.decision = IF event # "unchanged" THEN "none" ELSE @]

\* ... and writes status and records from what it read, the rest over the current row.
Updated(k) ==
    LET row == scan.rows[k]
        event == Event(row, FoundRecords(k))
    IN  [cases[k] EXCEPT !.status = IF event = "reopened" THEN "open" ELSE row.status,
            !.records = FoundRecords(k),
            !.deadline = IF event \in {"reopened", "released"} THEN NewDeadline ELSE @,
            !.decision = IF event = "reopened" THEN "none" ELSE @]

\* MUTANT: only cases nobody decided are closed.
Gone_Undecided == {k \in CaseKey : /\ ThisWeek(k) /\ scan.rows[k].status \in {"open", "escalated"}
                                   /\ k \notin FoundKeys /\ Kind[k[1]] \in ScannedKinds}

Gone == {k \in CaseKey : /\ ThisWeek(k) /\ scan.rows[k].status \notin {"none", "resolved"}
                         /\ k \notin FoundKeys /\ Kind[k[1]] \in ScannedKinds}

Fresh == {k \in FoundKeys : \/ scan.rows[k].status = "none"
                            \/ Event(scan.rows[k], FoundRecords(k)) = "reopened"}

\* Outcome cases and record cases without a playbook go to the language model.
NeedsModel(k) == Kind[k[1]] = "outcome" \/ (Kind[k[1]] = "record" /\ k[2] = DevelopmentTeam)

SyncWrite ==
    /\ pc = "write"
    /\ \A k \in FoundKeys \cup Gone : ~Locked(k)
    /\ cases' = [k \in CaseKey |->
          IF k \in FoundKeys THEN (IF scan.rows[k].status = "none" THEN Inserted(k) ELSE Updated(k))
          ELSE IF k \in Gone THEN [cases[k] EXCEPT !.status = "resolved"]
          ELSE cases[k]]
    /\ scan' = [scan EXCEPT !.rows = NoScan.rows, !.known = NoScan.known,
                    !.pending = {k \in Fresh : NeedsModel(k) /\ cases'[k].decision # "known_finding"}]
    /\ pc' = IF scan.incident # {} THEN "log" ELSE "earlier"
    /\ UNCHANGED <<week, findings, request, decisions, changes, faults>>

\* MUTANT: open cases are closed even if the brand is flagged again, decided ones never.
ClosedLater_OpenOnly ==
    IF "no_sales" \in scan.trouble THEN {} ELSE {k \in CaseKey : ~ThisWeek(k) /\ cases[k].status = "open"}

\* A later week's scan, which did look at sales, no longer flags the brand in the region.
ClosedLater ==
    IF "no_sales" \in scan.trouble THEN {}
    ELSE {k \in CaseKey : /\ ~ThisWeek(k) /\ cases[k].status # "resolved"
                          /\ \A r \in scan.found : CodeOf[r] # Earlier[k[1]]}

ResolveEarlierOutcomes ==
    /\ pc = "earlier"
    /\ \A k \in ClosedLater : ~Locked(k)
    /\ cases' = [k \in CaseKey |-> IF k \in ClosedLater THEN [cases[k] EXCEPT !.status = "resolved"] ELSE cases[k]]
    /\ pc' = "auto"
    /\ UNCHANGED <<week, findings, scan, request, decisions, changes, faults>>

\* Findings close when the list that was read covers them and none of their records fails their way.
StillFails(f) == \E r \in scan.found : CodeOf[r] = f.code /\ RegionOf[r] = f.region /\ SkuOf[r] \in f.skus
\* MUTANT: what the check covered is what fails.
ClosedFindings_FailingItems ==
    {i \in OpenFindings : /\ Kind[findings[i].code] = "record" /\ ~StillFails(findings[i])
                          /\ InScope(findings[i], {Item(r) : r \in scan.found})}
ClosedFindings ==
    {i \in OpenFindings : /\ Kind[findings[i].code] = "record" /\ ~StillFails(findings[i])
                          /\ InScope(findings[i], scan.checked)}

AutoResolve ==
    /\ pc = "auto"
    /\ findings' = [i \in DOMAIN findings |->
          IF i \in ClosedFindings THEN [findings[i] EXCEPT !.status = "resolved"] ELSE findings[i]]
    /\ pc' = "model"
    /\ UNCHANGED <<week, cases, scan, request, decisions, changes, faults>>

\* save_proposal: an investigation of an outcome names a cause, and code picks the owner from it.
\* Held, over budget or failed, and for a summary, the owner stays.
SaveProposal(k) ==
    /\ pc = "model"
    /\ k \in scan.pending
    /\ ~Locked(k)
    /\ \/ /\ Kind[k[1]] = "outcome" /\ ~Hold
          /\ \E o \in Owner : cases' = [cases EXCEPT ![k].owner = o]
       \/ UNCHANGED cases
    /\ scan' = [scan EXCEPT !.pending = @ \ {k}]
    /\ UNCHANGED <<week, findings, pc, request, decisions, changes, faults>>

\* The owners are told and the scan is logged.
EndScan ==
    /\ pc = "log" \/ (pc = "model" /\ scan.pending = {})
    /\ pc' = "idle"
    /\ scan' = NoScan
    /\ UNCHANGED <<week, cases, findings, request, decisions, changes, faults>>

\* The process dies, or an exception ends it: what it committed stays.
ScanDies ==
    /\ pc # "idle"
    /\ faults < MaxFaults
    /\ faults' = faults + 1
    /\ pc' = "idle"
    /\ scan' = NoScan
    /\ UNCHANGED <<week, cases, findings, request, decisions, changes>>

ScanStep ==
    \/ ReadWeek \/ ReadKnown \/ SyncRead \/ SyncWrite
    \/ ResolveEarlierOutcomes \/ AutoResolve \/ EndScan
    \/ \E k \in CaseKey : SaveProposal(k)

------------------------------------------------------------------------------
(* What people decide *)

Undecided(k) == cases[k].status \in {"open", "escalated"}

Begin(u) ==
    /\ request[u].op = "none"
    /\ decisions < MaxDecisions
    /\ decisions' = decisions + 1

\* accept reads the case, without a lock ...
AcceptRead(u, k) ==
    /\ Begin(u)
    /\ cases[k].status # "none"
    /\ request' = [request EXCEPT ![u] = [NoRequest EXCEPT !.op = "accept", !.key = k, !.seen = cases[k].records]]
    /\ UNCHANGED <<week, cases, findings, scanner, changes, faults>>

\* ... locks the row and checks it (a conflict ends the request) ...
AcceptDecide(u) ==
    LET k == request[u].key IN
    /\ request[u].op = "accept"
    /\ ~Locked(k)
    /\ request' = [request EXCEPT ![u] =
          IF Undecided(k) THEN [@ EXCEPT !.op = "accepting", !.todo = Regions(request[u].seen)] ELSE NoRequest]
    /\ UNCHANGED <<week, cases, findings, scanner, decisions, changes, faults>>

\* ... writes one finding per region, each committed on a connection of its own ...
AcceptFinding(u) ==
    /\ request[u].op = "accepting"
    /\ \E region \in request[u].todo :
          /\ findings' = Append(findings, [code |-> request[u].key[1], region |-> region,
                                           skus |-> SkusIn(request[u].seen, region), status |-> "open"])
          /\ request' = [request EXCEPT ![u].todo = @ \ {region}, ![u].ids = @ \cup {Len(findings')}]
    /\ UNCHANGED <<week, cases, scanner, decisions, changes, faults>>

\* ... and commits the decision with the ids.
AcceptCommit(u) ==
    /\ request[u].op = "accepting"
    /\ request[u].todo = {}
    /\ cases' = [cases EXCEPT ![request[u].key] = [@ EXCEPT
          !.status = "accepted", !.decision = "accept", !.deadline = FALSE, !.finding_ids = request[u].ids]]
    /\ request' = [request EXCEPT ![u] = NoRequest]
    /\ UNCHANGED <<week, findings, scanner, decisions, changes, faults>>

\* A connection fails: the decision is rolled back, the findings already written stay.
AcceptFails(u) ==
    /\ request[u].op = "accepting"
    /\ faults < MaxFaults
    /\ faults' = faults + 1
    /\ request' = [request EXCEPT ![u] = NoRequest]
    /\ UNCHANGED <<week, cases, findings, scanner, decisions, changes>>

\* waive reads the records it will cover, without a lock, and then decides.
WaiveRead(u, k) ==
    /\ Begin(u)
    /\ cases[k].status # "none"
    /\ request' = [request EXCEPT ![u] = [NoRequest EXCEPT !.op = "waive", !.key = k, !.seen = cases[k].records]]
    /\ UNCHANGED <<week, cases, findings, scanner, changes, faults>>

WaiveDecide(u) ==
    LET k == request[u].key IN
    /\ request[u].op = "waive"
    /\ ~Locked(k)
    /\ cases' = IF Undecided(k)
                THEN [cases EXCEPT ![k] = [@ EXCEPT !.status = "waived", !.decision = "waive",
                         !.deadline = FALSE, !.waived_records = request[u].seen]]
                ELSE cases
    /\ request' = [request EXCEPT ![u] = NoRequest]
    /\ UNCHANGED <<week, findings, scanner, decisions, changes, faults>>

\* reject: the reason says who is next; only a new owner gets a new deadline.
Reject(u, k) ==
    /\ Begin(u)
    /\ Undecided(k)
    /\ ~Locked(k)
    /\ \/ cases' = [cases EXCEPT ![k] = [@ EXCEPT !.status = "escalated", !.decision = "wrong_cause",
                       !.deadline = FALSE, !.owner = DevelopmentTeam]]
       \/ \E o \in Owner : cases' = [cases EXCEPT ![k] = [@ EXCEPT !.status = "open", !.decision = "wrong_owner",
                       !.deadline = TRUE, !.owner = o]]
       \/ cases' = [cases EXCEPT ![k] = [@ EXCEPT !.status = "escalated", !.decision = "action_refused",
                       !.deadline = FALSE, !.owner = DecisionOwner]]
    /\ UNCHANGED <<week, findings, scanner, request, changes, faults>>

\* An analyst records a finding by hand, or closes one (each at most once, so it needs no bound).
ConfirmFinding(u) ==
    /\ Begin(u)
    /\ \E r \in Record : findings' = Append(findings, [code |-> CodeOf[r], region |-> RegionOf[r],
                                                       skus |-> {SkuOf[r]}, status |-> "open"])
    /\ UNCHANGED <<week, cases, scanner, request, changes, faults>>

ResolveFinding(u) ==
    /\ request[u].op = "none"
    /\ \E i \in OpenFindings : findings' = [findings EXCEPT ![i].status = "resolved"]
    /\ UNCHANGED <<week, cases, scanner, request, decisions, changes, faults>>

FinishRequest(u) == AcceptDecide(u) \/ AcceptFinding(u) \/ AcceptCommit(u) \/ WaiveDecide(u)
PersonStep(u) ==
    \/ FinishRequest(u) \/ AcceptFails(u) \/ ConfirmFinding(u) \/ ResolveFinding(u)
    \/ \E k \in CaseKey : AcceptRead(u, k) \/ WaiveRead(u, k) \/ Reject(u, k)

------------------------------------------------------------------------------
(* Deadlines and the week itself *)

Due == {k \in CaseKey : cases[k].status = "open" /\ cases[k].deadline}

\* The sweep escalates the cases whose deadline has passed by now.
Sweep(late) ==
    /\ late # {}
    /\ \A k \in late : ~Locked(k)
    /\ cases' = [k \in CaseKey |->
          IF k \in late
          THEN [cases[k] EXCEPT !.status = "escalated", !.deadline = FALSE,
                    !.owner = IF @ \in Business THEN DecisionOwner ELSE @]
          ELSE cases[k]]
    /\ UNCHANGED <<week, findings, scanner, request, decisions, changes, faults>>

\* What is not listed has no record that a check could find failing; sales are another list's.
CanFail(listed) == {r \in Record : CodeOf[r] \notin DOMAIN Earlier /\ (Kind[CodeOf[r]] = "record" => Item(r) \in listed)}

\* A record starts to fail or is fixed; a rerun ingests a list that lost an item, or has it again.
WeekChanges ==
    /\ changes < MaxChanges
    /\ changes' = changes + 1
    /\ \/ \E r \in CanFail(week.listed) : week' = [week EXCEPT !.failing = SymDiff(@, {r})]
       \/ \E i \in Items : LET listed == SymDiff(week.listed, {i})
                           IN  week' = [failing |-> week.failing \cap CanFail(listed), listed |-> listed]
    /\ UNCHANGED <<cases, findings, scanner, request, decisions, faults>>

Next ==
    \/ ScanStep \/ NoUsableWeek \/ ScanDies
    \/ \E u \in Person : PersonStep(u)
    \/ \E late \in SUBSET Due : Sweep(late)
    \/ WeekChanges

Spec == Init /\ [][Next]_vars

\* The week is scanned again after every run, deadlines pass and are swept, and a request
\* that was started ends.
FairSpec ==
    /\ Spec
    /\ WF_vars(ScanStep)
    /\ \A k \in CaseKey : WF_vars(\E late \in SUBSET Due : k \in late /\ Sweep(late))
    /\ \A u \in Person : WF_vars(FinishRequest(u))

------------------------------------------------------------------------------
(* Properties *)

TypeOK ==
    /\ week \in [failing : SUBSET Record, listed : SUBSET Items]
    /\ cases \in [CaseKey -> Case]
    /\ findings \in Seq(Finding)
    /\ pc \in {"idle", "known", "sync", "write", "earlier", "auto", "model", "log"}
    /\ scan \in Scan
    /\ request \in [Person -> Request]
    /\ \A u \in Person : request[u].todo \subseteq Regions(request[u].seen)

\* Only people decide: a case is accepted because a person accepted it, or because open
\* findings covered it when it was found, and those findings exist and are about its
\* problem; it is waived because a person waived it.  (triage_store.py:3-5)
OnlyPeopleDecide ==
    \A k \in CaseKey :
       /\ cases[k].status = "accepted" =>
             /\ cases[k].decision \in {"accept", "known_finding"}
             /\ Kind[k[1]] # "incident" => cases[k].finding_ids # {}
             /\ \A i \in cases[k].finding_ids : i \in DOMAIN findings /\ findings[i].code = k[1]
       /\ cases[k].status = "waived" => cases[k].decision = "waive"

SyncStep == pc = "write" /\ pc' \in {"log", "earlier"}

\* A waiver covers the records it named and no others: no scan leaves a case waived that
\* it found with a record the waiver does not name.  (triage_store.py:117-119, 209)
WaiverCovers ==
    [][SyncStep => \A k \in FoundKeys :
          cases'[k].status = "waived" => FoundRecords(k) \subseteq cases'[k].waived_records]_vars

\* No case waits silently: an open one is decided, closed or escalated at last, a held
\* one too, and so is one whose owners were never told because the scan died.
\* (triage_store.py:232-234, scan.py:8-10)
NothingWaitsForEver ==
    \A k \in CaseKey : []<>(cases[k].status # "open")

FailsNow(c) == \E r \in week.failing : CodeOf[r] = IF c \in DOMAIN Earlier THEN Earlier[c] ELSE c

\* A problem that is fixed for good ends as closed cases, under whichever owner they were
\* opened and whatever was decided about them.  (triage_store.py:84-92, 126-142)
FixedCaseCloses ==
    \A k \in CaseKey : Kind[k[1]] # "incident" =>
       (<>[]~FailsNow(k[1]) => <>[](cases[k].status \in {"none", "resolved"}))

\* And as closed findings, those of decisions that failed half-way included, if the list that is left
\* at last covers them: a scan closes none about an item that is not listed, although scan.py:212 says
\* "this scan is the whole scope".  (findings.py:91-107)
FixedFindingCloses ==
    \A c \in Code : Kind[c] = "record" =>
       (<>[]~FailsNow(c) => <>[](\A i \in OpenFindings : findings[i].code = c => ~InScope(findings[i], week.listed)))

\* "Only people decide ... the scan, the agent and the deadline sweep cannot"
\* (triage_store.py:4): an accepted or waived case is open again only if the waiver does
\* not name what fails.
DecisionStands ==
    [][\A k \in CaseKey :
          cases[k].status \in {"accepted", "waived"} /\ cases'[k].status = "open"
             => cases[k].status = "waived" /\ ~(cases'[k].records \subseteq cases[k].waived_records)]_vars

==============================================================================
