---------------------------- MODULE TriageProofs ----------------------------
(* Proofs about module TriageCases, for any codes, records, owners and      *)
(* people and any bounds: typing, that only people accept and waive, and    *)
(* that a scan never leaves a case waived beyond its waiver.                *)
EXTENDS TriageNotices, SequenceTheorems, TLAPS

Incident(k) == Kind[k[1]] = "incident"

\* A set of ids names findings about the problem of case k.
About(ids, k) == \A i \in ids : i \in DOMAIN findings /\ findings[i].code = k[1]

\* Every case but an incident was opened for some record, its ids are of its findings, and
\* those of earlier weeks are there.
CasesInv == \A k \in CaseKey :
    /\ ThisWeek(k) \/ cases[k].status # "none"
    /\ cases[k].status # "none" /\ ~Incident(k) => cases[k].records # {}
    /\ About(cases[k].finding_ids, k)

\* What a scan read: its incident is one, and the findings it knows are about the cases.
ScanInv ==
    /\ \A c \in scan.incident : Kind[c] = "incident"
    /\ \A k \in CaseKey : About(scan.known[k], k)

\* While a scan holds stale rows, those that nobody may decide are still as it read them.
FrozenRows ==
    pc = "write" => \A k \in CaseKey : ThisWeek(k) =>
       /\ scan.rows[k].status \notin {"open", "escalated"} => cases[k] = scan.rows[k]
       /\ cases[k].status = "none" => scan.rows[k].status = "none"

\* Scans are of this week: they find no record of an earlier one.
FoundThisWeek == \A r \in week.failing \cup scan.found : CodeOf[r] \notin DOMAIN Earlier

\* An Accept on the way has written a finding or still has one to write.
RequestInv == \A u \in Person :
    LET q == request[u] IN
    /\ q.op # "none" => q.key \in CaseKey /\ About(q.ids, q.key) /\ (~Incident(q.key) => q.seen # {})
    /\ q.op = "accepting" /\ ~Incident(q.key) => q.todo # {} \/ q.ids # {}

\* Its row is locked by it alone, and nobody else has decided the case meanwhile.
LockInv == \A u \in Person : request[u].op = "accepting" =>
    /\ Undecided(request[u].key)
    /\ \A v \in Person : request[v].op = "accepting" /\ request[v].key = request[u].key => v = u

TriageInv ==
    /\ TypeOK
    /\ CasesInv
    /\ ScanInv
    /\ FrozenRows
    /\ FoundThisWeek
    /\ RequestInv
    /\ LockInv
    /\ OnlyPeopleDecide

------------------------------------------------------------------------------
(* Typing of the values the steps compute                                    *)

\* A key names its code, and every case key comes from a code.
LEMMA KeyOfCode ==
    ASSUME NEW c \in Code, NEW d \in BOOLEAN
    PROVE  Key(c, d) \in CaseKey /\ Key(c, d)[1] = c
  BY DEF Key, CaseKey

\* A case key is made of a code and an owner.
LEMMA CodeOfKey ==
    ASSUME NEW k \in CaseKey
    PROVE  k[1] \in Code /\ k[2] \in Owner
  BY TriageAssumption DEF Key, CaseKey

\* The rows the program starts from are rows.
LEMMA BlankRows ==
    /\ Absent \in Case /\ NoScan \in Scan /\ NoRequest \in Request
    /\ \A k \in CaseKey : LeftOpen(k) \in Case
  <1>1. Absent \in Case
    BY TriageAssumption DEF Absent, Case, Status, Decision
  <1>2. \A k \in CaseKey : LeftOpen(k) \in Case
    BY <1>1 DEF LeftOpen, Case, Status, Absent
  <1>3. NoScan \in Scan
    BY <1>1 DEF NoScan, Scan
  <1>4. NoRequest \in Request
    BY DEF NoRequest, Request
  <1>. QED  BY <1>1, <1>2, <1>3, <1>4

\* What a scan finds are cases of this week, each with the records that fail its way;
\* those without records are incidents.
LEMMA FoundCases ==
    ASSUME TypeOK, ScanInv, FoundThisWeek, NEW k \in FoundKeys
    PROVE  /\ k \in CaseKey /\ ThisWeek(k)
           /\ FoundRecords(k) \subseteq Record
           /\ ~Incident(k) => FoundRecords(k) # {}
  <1>1. PICK c \in {CodeOf[r] : r \in scan.found} \cup scan.incident : k = Key(c, KbDown)
    BY DEF FoundKeys
  <1>2. scan.found \subseteq Record /\ scan.incident \subseteq Code /\ KbDown \in BOOLEAN
    BY DEF TypeOK, Scan, KbDown
  <1>3. c \in Code
    BY <1>2, TriageAssumption
  <1>4. k \in CaseKey /\ k[1] = c
    BY <1>1, <1>2, <1>3, KeyOfCode
  <1>5. c \notin DOMAIN Earlier
    BY <1>2, TriageAssumption DEF FoundThisWeek, ScanInv
  <1>6. ~Incident(k) => \E r \in scan.found : CodeOf[r] = c
    BY <1>4 DEF Incident, ScanInv
  <1>. QED  BY <1>2, <1>4, <1>5, <1>6 DEF ThisWeek, FoundRecords

------------------------------------------------------------------------------
(* What the steps leave alone                                                *)

\* Findings are added and closed; none changes what it is about.
FindingsGrow == \A i \in DOMAIN findings : i \in DOMAIN findings' /\ findings'[i].code = findings[i].code

\* Cases, findings and requests left alone.
LEMMA Unmoved ==
    CasesInv /\ RequestInv /\ LockInv /\ OnlyPeopleDecide /\ UNCHANGED <<cases, findings, request>>
    => CasesInv' /\ RequestInv' /\ LockInv' /\ OnlyPeopleDecide'
  BY DEF CasesInv, RequestInv, LockInv, Undecided, OnlyPeopleDecide, About

\* A step that only moves the scan keeps what the others hold.
LEMMA ScanOnly ==
    ASSUME TriageInv, UNCHANGED <<week, cases, findings, request>>,
           pc' \in {"idle", "known", "sync", "write", "earlier", "auto", "model", "log"},
           (scan \in Scan)', ScanInv', FrozenRows', scan'.found \subseteq week.failing \cup scan.found
    PROVE  TriageInv'
  <1>1. TypeOK'
    BY DEF TriageInv, TypeOK
  <1>2. FoundThisWeek'
    BY DEF TriageInv, FoundThisWeek
  <1>. QED  BY <1>1, <1>2, Unmoved DEF TriageInv

\* The checks find records of this week only.
LEMMA ReadWeekInv == TriageInv /\ ReadWeek => TriageInv'
  <1>. SUFFICES ASSUME TriageInv, ReadWeek PROVE TriageInv'
    OBVIOUS
  <1>1. PICK trouble \in SUBSET Trouble :
          scan' = [NoScan EXCEPT !.trouble = trouble, !.checked = week.listed,
             !.found = {r \in week.failing : Kind[CodeOf[r]] = "outcome" => "no_sales" \notin trouble}]
    BY DEF ReadWeek
  <1>2. week.failing \subseteq Record /\ week.listed \subseteq Items
    BY DEF TriageInv, TypeOK
  <1>3. scan' \in Scan /\ scan'.incident = {} /\ scan'.known = NoScan.known /\ scan'.found \subseteq week.failing
    BY <1>1, <1>2, BlankRows DEF Scan, NoScan
  <1>4. ScanInv'
    BY <1>3 DEF ScanInv, About, NoScan
  <1>5. FrozenRows'
    BY DEF ReadWeek, FrozenRows
  <1>. QED  BY <1>3, <1>4, <1>5, ScanOnly DEF ReadWeek

\* A week that cannot be scanned is an incident.
LEMMA NoUsableWeekInv == TriageInv /\ NoUsableWeek => TriageInv'
  <1>. SUFFICES ASSUME TriageInv, NoUsableWeek PROVE TriageInv'
    OBVIOUS
  <1>1. PICK c \in {x \in Code : Kind[x] = "incident"} : scan' = [NoScan EXCEPT !.incident = {c}]
    BY DEF NoUsableWeek
  <1>2. scan' \in Scan /\ scan'.incident = {c} /\ scan'.known = NoScan.known /\ scan'.found = {}
    BY <1>1, BlankRows DEF Scan, NoScan
  <1>3. ScanInv'
    BY <1>2 DEF ScanInv, About, NoScan
  <1>4. FrozenRows'
    BY DEF NoUsableWeek, FrozenRows
  <1>. QED  BY <1>2, <1>3, <1>4, ScanOnly DEF NoUsableWeek

\* The findings that cover a case are findings about its problem.
LEMMA ReadKnownInv == TriageInv /\ ReadKnown => TriageInv'
  <1>. SUFFICES ASSUME TriageInv, ReadKnown PROVE TriageInv'
    OBVIOUS
  <1>. DEFINE known == [k \in CaseKey |-> IF k \in FoundKeys THEN KnownIds(k) ELSE {}]
  <1>1. \A k \in CaseKey : KnownIds(k) \in SUBSET Nat /\ About(KnownIds(k), k)
    BY DEF KnownIds, Covering, OpenFindings, About, TriageInv, TypeOK
  <1>2. scan \in Scan /\ scan' = [scan EXCEPT !.known = known]
    BY DEF ReadKnown, TriageInv, TypeOK
  <1>3. known \in [CaseKey -> SUBSET Nat]
    BY <1>1
  <1>4. scan' \in Scan /\ scan'.known = known /\ scan'.incident = scan.incident /\ scan'.found = scan.found
    BY <1>2, <1>3 DEF Scan
  <1>5. ScanInv'
    BY <1>1, <1>4 DEF ScanInv, About, TriageInv, ReadKnown
  <1>6. FrozenRows'
    BY DEF ReadKnown, FrozenRows
  <1>. QED  BY <1>4, <1>5, <1>6, ScanOnly DEF ReadKnown

\* As they are read, all rows are as they are.
LEMMA SyncReadInv == TriageInv /\ SyncRead => TriageInv'
  <1>. SUFFICES ASSUME TriageInv, SyncRead PROVE TriageInv'
    OBVIOUS
  <1>. DEFINE rows == [k \in CaseKey |-> IF ThisWeek(k) THEN cases[k] ELSE Absent]
  <1>1. scan \in Scan /\ scan' = [scan EXCEPT !.rows = rows] /\ rows \in [CaseKey -> Case]
    BY BlankRows DEF SyncRead, TriageInv, TypeOK
  <1>2. /\ scan' \in Scan /\ scan'.known = scan.known /\ scan'.incident = scan.incident
        /\ scan'.found = scan.found /\ scan'.rows = rows
    BY <1>1 DEF Scan
  <1>3. ScanInv'
    BY <1>2 DEF ScanInv, About, TriageInv, SyncRead
  <1>4. FrozenRows'
    BY <1>2 DEF SyncRead, FrozenRows, ThisWeek
  <1>. QED  BY <1>2, <1>3, <1>4, ScanOnly DEF SyncRead

\* The scan ends, or dies.
LEMMA ScanEndsInv == TriageInv /\ (EndScan \/ ScanDies) => TriageInv'
  <1>. SUFFICES ASSUME TriageInv, EndScan \/ ScanDies PROVE TriageInv'
    OBVIOUS
  <1>1. scan' = NoScan /\ pc' = "idle" /\ UNCHANGED <<week, cases, findings, request>>
    BY DEF EndScan, ScanDies
  <1>2. ScanInv' /\ FrozenRows'
    BY <1>1 DEF ScanInv, About, NoScan, FrozenRows
  <1>3. scan' \in Scan /\ scan'.found = {}
    BY <1>1, BlankRows DEF NoScan
  <1>. QED  BY <1>1, <1>2, <1>3, ScanOnly

------------------------------------------------------------------------------
(* What the steps write into cases                                           *)

\* The value of a row, alone: typed, with records, and decided by people.
GoodRow(row, k) ==
    /\ row \in Case
    /\ ThisWeek(k) \/ row.status # "none"
    /\ row.status # "none" /\ ~Incident(k) => row.records # {}
    /\ About(row.finding_ids, k)
    /\ row.status = "accepted" =>
          /\ row.decision \in {"accept", "known_finding"}
          /\ ~Incident(k) => row.finding_ids # {}
    /\ row.status = "waived" => row.decision = "waive"

\* Every row is a good one ...
LEMMA RowsAreGood ==
    ASSUME TriageInv, NEW k \in CaseKey
    PROVE  GoodRow(cases[k], k)
  BY DEF TriageInv, TypeOK, CasesInv, OnlyPeopleDecide, GoodRow, Incident, ThisWeek

\* ... and a step over cases and requests that writes good rows keeps the invariant.
LEMMA RowsSuffice ==
    ASSUME TriageInv, UNCHANGED <<week, findings>>,
           pc' \in {"idle", "known", "sync", "write", "earlier", "auto", "model", "log"},
           (scan \in Scan)', scan'.incident = scan.incident, scan'.found = scan.found,
           \A k \in CaseKey : scan'.known[k] \subseteq scan.known[k],
           cases' = [k \in CaseKey |-> cases'[k]], \A k \in CaseKey : GoodRow(cases'[k], k),
           (request \in [Person -> Request])',
           \A u \in Person : request'[u].todo \subseteq Regions(request'[u].seen),
           FrozenRows', RequestInv', LockInv'
    PROVE  TriageInv'
  <1>2. cases' \in [CaseKey -> Case]
    BY DEF GoodRow
  <1>3. TypeOK'
    BY <1>2 DEF TriageInv, TypeOK
  <1>4. CasesInv' /\ OnlyPeopleDecide'
    BY DEF GoodRow, CasesInv, OnlyPeopleDecide, About, Incident, ThisWeek
  <1>5. ScanInv'
    BY DEF TriageInv, ScanInv, About
  <1>6. FoundThisWeek'
    BY DEF TriageInv, FoundThisWeek
  <1>. QED  BY <1>3, <1>4, <1>5, <1>6 DEF TriageInv

\* What a sync inserts is a good row ...
LEMMA InsertedIsGood ==
    ASSUME TriageInv, NEW k \in FoundKeys
    PROVE  GoodRow(Inserted(k), k)
  <1>1. k \in CaseKey /\ FoundRecords(k) \subseteq Record /\ (~Incident(k) => FoundRecords(k) # {})
    BY FoundCases DEF TriageInv
  <1>2. k[2] \in Owner
    BY <1>1, CodeOfKey
  <1>3. scan.known[k] \in SUBSET Nat /\ About(scan.known[k], k)
    BY <1>1 DEF TriageInv, TypeOK, Scan, ScanInv
  <1>4. Absent \in Case /\ NewDeadline \in BOOLEAN
    BY BlankRows DEF NewDeadline
  <1>. DEFINE deadline == scan.known[k] = {} /\ NewDeadline
  <1>5. deadline \in BOOLEAN
    OBVIOUS
  <1>. HIDE DEF deadline
  <1>6. /\ Inserted(k) \in Case
        /\ Inserted(k).records = FoundRecords(k) /\ Inserted(k).finding_ids = scan.known[k]
        /\ Inserted(k).status = IF scan.known[k] # {} THEN "accepted" ELSE "open"
        /\ Inserted(k).decision = IF scan.known[k] # {} THEN "known_finding" ELSE "none"
    BY <1>1, <1>2, <1>3, <1>4, <1>5 DEF Inserted, Case, Status, Decision, deadline
  <1>. QED  BY <1>1, <1>3, <1>6, FoundCases DEF GoodRow, TriageInv

\* ... and so is what it updates: a row that was decided when it was read is still as read.
LEMMA UpdatedIsGood ==
    ASSUME TriageInv, pc = "write", NEW k \in FoundKeys, scan.rows[k].status # "none"
    PROVE  GoodRow(Updated(k), k)
  <1>. DEFINE row == scan.rows[k]
              event == Event(row, FoundRecords(k))
              status == IF event = "reopened" THEN "open" ELSE row.status
              deadline == IF event \in {"reopened", "released"} THEN NewDeadline ELSE cases[k].deadline
              decision == IF event = "reopened" THEN "none" ELSE cases[k].decision
  <1>1. /\ k \in CaseKey /\ ThisWeek(k) /\ FoundRecords(k) \subseteq Record
        /\ ~Incident(k) => FoundRecords(k) # {}
    BY FoundCases DEF TriageInv
  <1>2. row \in Case /\ cases[k] \in Case
    BY <1>1 DEF TriageInv, TypeOK, Scan
  <1>3. GoodRow(cases[k], k)
    BY <1>1, RowsAreGood
  <1>5. Hold \in BOOLEAN
    BY DEF Hold
  <1>6. status \in Status /\ deadline \in BOOLEAN /\ decision \in Decision
    BY <1>2, <1>5 DEF Case, Status, Decision, NewDeadline
  <1>7. /\ Updated(k) \in Case
        /\ Updated(k).status = status /\ Updated(k).records = FoundRecords(k)
        /\ Updated(k).decision = decision /\ Updated(k).finding_ids = cases[k].finding_ids
    BY <1>1, <1>2, <1>6 DEF Case, Updated
  <1>8. status \in {"accepted", "waived"} => row.status = status /\ cases[k] = row /\ decision = cases[k].decision
    BY <1>1 DEF TriageInv, FrozenRows
  <1>. QED  BY <1>1, <1>3, <1>7, <1>8 DEF GoodRow

\* Requests are kept by whatever leaves them and the findings alone ...
LEMMA RequestsKept == RequestInv /\ UNCHANGED <<findings, request>> => RequestInv'
  BY DEF RequestInv, About

\* ... and locks by whatever leaves the status of locked rows alone.
LEMMA LocksKept ==
    ASSUME TriageInv, UNCHANGED request, \A k \in CaseKey : Locked(k) => cases'[k].status = cases[k].status
    PROVE  LockInv'
  BY DEF TriageInv, LockInv, RequestInv, Undecided, Locked

\* A row that is closed stays a good one.
LEMMA ClosedIsGood ==
    ASSUME NEW row, NEW k, GoodRow(row, k), row.status # "none"
    PROVE  GoodRow([row EXCEPT !.status = "resolved"], k)
  BY DEF GoodRow, Case, Status

\* A sync writes good rows, over those that nobody has locked.
LEMMA SyncWriteInv == TriageInv /\ SyncWrite => TriageInv'
  <1>. SUFFICES ASSUME TriageInv, SyncWrite PROVE TriageInv'
    OBVIOUS
  <1>. DEFINE pending == {k \in Fresh : NeedsModel(k) /\ cases'[k].decision # "known_finding"}
  <1>1. \A k \in CaseKey :
          cases'[k] = IF k \in FoundKeys THEN (IF scan.rows[k].status = "none" THEN Inserted(k) ELSE Updated(k))
                      ELSE IF k \in Gone THEN [cases[k] EXCEPT !.status = "resolved"]
                      ELSE cases[k]
    BY DEF SyncWrite
  <1>2. \A k \in CaseKey : GoodRow(cases'[k], k)
    <2>. SUFFICES ASSUME NEW k \in CaseKey PROVE GoodRow(cases'[k], k)
      OBVIOUS
    <2>1. CASE k \in FoundKeys
      BY <1>1, <2>1, InsertedIsGood, UpdatedIsGood DEF SyncWrite
    <2>2. CASE k \notin FoundKeys /\ k \in Gone
      <3>1. cases[k].status # "none"
        BY <2>2 DEF Gone, TriageInv, FrozenRows, SyncWrite
      <3>2. GoodRow([cases[k] EXCEPT !.status = "resolved"], k)
        BY <3>1, ClosedIsGood, RowsAreGood, Zenon
      <3>. QED  BY <1>1, <2>2, <3>2
    <2>3. CASE k \notin FoundKeys /\ k \notin Gone
      BY <1>1, <2>3, RowsAreGood
    <2>. QED  BY <2>1, <2>2, <2>3
  <1>3. FoundKeys \subseteq CaseKey
    BY FoundCases DEF TriageInv
  <1>4. pending \subseteq CaseKey
    BY <1>3 DEF Fresh
  <1>5. scan' = [scan EXCEPT !.rows = NoScan.rows, !.known = NoScan.known, !.pending = pending]
    BY DEF SyncWrite
  <1>. HIDE DEF pending
  <1>6. /\ scan' \in Scan /\ scan'.incident = scan.incident /\ scan'.found = scan.found
        /\ \A k \in CaseKey : scan'.known[k] \subseteq scan.known[k]
    BY <1>4, <1>5, BlankRows DEF TriageInv, TypeOK, Scan, NoScan
  <1>7. FrozenRows' /\ pc' \in {"idle", "known", "sync", "write", "earlier", "auto", "model", "log"}
    BY DEF SyncWrite, FrozenRows
  <1>8. LockInv'
    BY <1>1, LocksKept DEF SyncWrite
  <1>9. RequestInv'
    BY RequestsKept DEF SyncWrite, TriageInv
  <1>10. cases' = [k \in CaseKey |-> cases'[k]]
    BY DEF SyncWrite
  <1>11. UNCHANGED <<week, findings, request>>
    BY DEF SyncWrite
  <1>12. (request \in [Person -> Request])' /\ \A u \in Person : request'[u].todo \subseteq Regions(request'[u].seen)
    BY <1>11 DEF TriageInv, TypeOK
  <1>. QED  BY <1>2, <1>6, <1>7, <1>8, <1>9, <1>10, <1>11, <1>12, RowsSuffice

\* Cases of earlier weeks are rows that exist; closing them leaves good rows.
LEMMA ResolveEarlierInv == TriageInv /\ ResolveEarlierOutcomes => TriageInv'
  <1>. SUFFICES ASSUME TriageInv, ResolveEarlierOutcomes PROVE TriageInv'
    OBVIOUS
  <1>1. \A k \in CaseKey :
          cases'[k] = IF k \in ClosedLater THEN [cases[k] EXCEPT !.status = "resolved"] ELSE cases[k]
    BY DEF ResolveEarlierOutcomes
  <1>2. \A k \in CaseKey : GoodRow(cases'[k], k)
    <2>. SUFFICES ASSUME NEW k \in CaseKey PROVE GoodRow(cases'[k], k)
      OBVIOUS
    <2>1. CASE k \in ClosedLater
      <3>1. cases[k].status # "none"
        BY <2>1 DEF ClosedLater, TriageInv, CasesInv
      <3>2. GoodRow([cases[k] EXCEPT !.status = "resolved"], k)
        BY <3>1, ClosedIsGood, RowsAreGood, Zenon
      <3>. QED  BY <1>1, <2>1, <3>2
    <2>2. CASE k \notin ClosedLater
      BY <1>1, <2>2, RowsAreGood
    <2>. QED  BY <2>1, <2>2
  <1>3. UNCHANGED <<week, findings, scan, request>> /\ pc' = "auto" /\ cases' = [k \in CaseKey |-> cases'[k]]
    BY DEF ResolveEarlierOutcomes
  <1>4. LockInv'
    BY <1>1, <1>3, LocksKept DEF ResolveEarlierOutcomes
  <1>5. RequestInv' /\ FrozenRows'
    BY <1>3, RequestsKept DEF FrozenRows, TriageInv
  <1>6. /\ (scan \in Scan)' /\ (request \in [Person -> Request])'
        /\ \A u \in Person : request'[u].todo \subseteq Regions(request'[u].seen)
    BY <1>3 DEF TriageInv, TypeOK
  <1>. QED  BY <1>2, <1>3, <1>4, <1>5, <1>6, RowsSuffice

\* While nobody holds the row, a step that writes good rows and changes only cases that
\* are not decided keeps the invariant: what the sync has read stays what it may rely on.
LEMMA UndecidedRows ==
    ASSUME TriageInv, UNCHANGED <<week, findings, pc>>, (scan \in Scan)',
           scan'.incident = scan.incident, scan'.found = scan.found, scan'.known = scan.known,
           scan'.rows = scan.rows,
           cases' = [k \in CaseKey |-> cases'[k]], \A k \in CaseKey : GoodRow(cases'[k], k),
           \A k \in CaseKey : \/ cases'[k] = cases[k]
                              \/ pc # "write"
                              \/ Undecided(k) /\ cases'[k].status # "none",
           (request \in [Person -> Request])',
           \A u \in Person : request'[u].todo \subseteq Regions(request'[u].seen),
           RequestInv', LockInv'
    PROVE  TriageInv'
  <1>1. FrozenRows'
    BY DEF TriageInv, FrozenRows, Undecided
  <1>2. pc' \in {"idle", "known", "sync", "write", "earlier", "auto", "model", "log"}
    BY DEF TriageInv, TypeOK
  <1>. QED  BY <1>1, <1>2, RowsSuffice

\* A proposal changes at most the owner.
LEMMA SaveProposalInv == ASSUME NEW k \in CaseKey PROVE TriageInv /\ SaveProposal(k) => TriageInv'
  <1>. SUFFICES ASSUME TriageInv, SaveProposal(k) PROVE TriageInv'
    OBVIOUS
  <1>1. cases \in [CaseKey -> Case] /\ scan \in Scan
    BY DEF TriageInv, TypeOK
  <1>2. \/ UNCHANGED cases
        \/ \E o \in Owner : cases' = [cases EXCEPT ![k].owner = o]
    BY DEF SaveProposal
  <1>3. cases' = [x \in CaseKey |-> cases'[x]]
    BY <1>1, <1>2
  <1>4. \A x \in CaseKey : GoodRow(cases'[x], x) /\ cases'[x].status = cases[x].status
    BY <1>1, <1>2, RowsAreGood DEF GoodRow, Case
  <1>5. /\ scan' = [scan EXCEPT !.pending = @ \ {k}]
        /\ UNCHANGED <<week, findings, pc, request>> /\ pc = "model"
    BY DEF SaveProposal
  <1>6. /\ scan' \in Scan /\ scan'.incident = scan.incident /\ scan'.found = scan.found
        /\ scan'.known = scan.known /\ scan'.rows = scan.rows
    BY <1>1, <1>5 DEF Scan
  <1>7. LockInv' /\ RequestInv'
    BY <1>4, <1>5, LocksKept, RequestsKept DEF TriageInv
  <1>8. (request \in [Person -> Request])' /\ \A u \in Person : request'[u].todo \subseteq Regions(request'[u].seen)
    BY <1>5 DEF TriageInv, TypeOK
  <1>. QED  BY <1>3, <1>4, <1>5, <1>6, <1>7, <1>8, UndecidedRows

\* Findings that are added or closed disturb nothing that refers to them.
LEMMA FindingsStep ==
    ASSUME TriageInv, UNCHANGED <<week, cases, scan>>, (findings \in Seq(Finding))', FindingsGrow,
           pc' = pc \/ pc' = "model",
           (request \in [Person -> Request])',
           \A u \in Person : request'[u].todo \subseteq Regions(request'[u].seen),
           RequestInv', LockInv'
    PROVE  TriageInv'
  <1>1. TypeOK'
    BY DEF TriageInv, TypeOK
  <1>2. CasesInv'
    BY DEF TriageInv, CasesInv, About, FindingsGrow, Incident, ThisWeek
  <1>3. ScanInv' /\ FoundThisWeek' /\ FrozenRows'
    BY DEF TriageInv, ScanInv, FoundThisWeek, FrozenRows, About, FindingsGrow, ThisWeek
  <1>4. OnlyPeopleDecide'
    BY DEF TriageInv, OnlyPeopleDecide, FindingsGrow
  <1>. QED  BY <1>1, <1>2, <1>3, <1>4 DEF TriageInv

\* With the requests left alone too.
LEMMA FindingsOnly ==
    ASSUME TriageInv, UNCHANGED <<week, cases, scan, request>>, (findings \in Seq(Finding))', FindingsGrow,
           pc' = pc \/ pc' = "model"
    PROVE  TriageInv'
  <1>1. (request \in [Person -> Request])' /\ \A u \in Person : request'[u].todo \subseteq Regions(request'[u].seen)
    BY DEF TriageInv, TypeOK
  <1>2. RequestInv'
    BY DEF TriageInv, RequestInv, About, FindingsGrow, Incident
  <1>3. LockInv'
    BY LocksKept
  <1>. QED  BY <1>1, <1>2, <1>3, FindingsStep

\* The scan closes findings ...
LEMMA AutoResolveInv == TriageInv /\ AutoResolve => TriageInv'
  <1>. SUFFICES ASSUME TriageInv, AutoResolve PROVE TriageInv'
    OBVIOUS
  <1>1. findings \in Seq(Finding)
    BY DEF TriageInv, TypeOK
  <1>. DEFINE after == [i \in DOMAIN findings |->
          IF i \in ClosedFindings THEN [findings[i] EXCEPT !.status = "resolved"] ELSE findings[i]]
  <1>2. \A i \in DOMAIN findings : after[i] \in Finding /\ after[i].code = findings[i].code
    <2>. SUFFICES ASSUME NEW i \in DOMAIN findings PROVE after[i] \in Finding /\ after[i].code = findings[i].code
      OBVIOUS
    <2>1. findings[i] \in Finding
      BY <1>1
    <2>2. after[i] = findings[i] \/ after[i] = [findings[i] EXCEPT !.status = "resolved"]
      OBVIOUS
    <2>. HIDE DEF after
    <2>. QED  BY <2>1, <2>2 DEF Finding
  <1>3. DOMAIN findings = 1..Len(findings) /\ Len(findings) \in Nat
    BY <1>1
  <1>4. after \in Seq(Finding)
    BY <1>2, <1>3, SeqDef
  <1>5. findings' = after /\ UNCHANGED <<week, cases, scan, request>> /\ pc' = "model"
    BY DEF AutoResolve
  <1>6. FindingsGrow
    BY <1>2, <1>5 DEF FindingsGrow
  <1>. QED  BY <1>4, <1>5, <1>6, FindingsOnly

\* ... and so do people, ...
LEMMA ResolveFindingInv == ASSUME NEW u \in Person PROVE TriageInv /\ ResolveFinding(u) => TriageInv'
  <1>. SUFFICES ASSUME TriageInv, ResolveFinding(u) PROVE TriageInv'
    OBVIOUS
  <1>1. findings \in Seq(Finding)
    BY DEF TriageInv, TypeOK
  <1>2. PICK i \in DOMAIN findings : findings' = [findings EXCEPT ![i].status = "resolved"]
    BY DEF ResolveFinding, OpenFindings
  <1>. DEFINE closed == [findings[i] EXCEPT !.status = "resolved"]
  <1>3. closed \in Finding /\ closed.code = findings[i].code
    <2>1. findings[i] \in Finding
      BY <1>1
    <2>. QED  BY <2>1 DEF Finding
  <1>4. findings' = [findings EXCEPT ![i] = closed]
    BY <1>2
  <1>. HIDE DEF closed
  <1>5. findings' \in Seq(Finding)
    BY <1>1, <1>3, <1>4
  <1>6. FindingsGrow
    BY <1>3, <1>4 DEF FindingsGrow
  <1>. QED  BY <1>5, <1>6, FindingsOnly DEF ResolveFinding, scanner

\* A finding added at the end keeps the others.
LEMMA Appended ==
    ASSUME findings \in Seq(Finding), NEW f \in Finding, findings' = Append(findings, f)
    PROVE  /\ findings' \in Seq(Finding) /\ FindingsGrow
           /\ Len(findings') \in DOMAIN findings' /\ Len(findings') \in Nat /\ findings'[Len(findings')] = f
  BY AppendProperties DEF FindingsGrow

\* ... who also record them.
LEMMA ConfirmFindingInv == ASSUME NEW u \in Person PROVE TriageInv /\ ConfirmFinding(u) => TriageInv'
  <1>. SUFFICES ASSUME TriageInv, ConfirmFinding(u) PROVE TriageInv'
    OBVIOUS
  <1>1. PICK r \in Record : findings' = Append(findings, [code |-> CodeOf[r], region |-> RegionOf[r],
                                                         skus |-> {SkuOf[r]}, status |-> "open"])
    BY DEF ConfirmFinding
  <1>2. [code |-> CodeOf[r], region |-> RegionOf[r], skus |-> {SkuOf[r]}, status |-> "open"] \in Finding
    BY TriageAssumption DEF Finding, Regions
  <1>3. findings' \in Seq(Finding) /\ FindingsGrow
    BY <1>1, <1>2, Appended DEF TriageInv, TypeOK
  <1>. QED  BY <1>3, FindingsOnly DEF ConfirmFinding, scanner

------------------------------------------------------------------------------
(* What people do                                                            *)

\* What a request moves on to must be a good one, about findings that exist by then.
GoodRequest(q) ==
    /\ q \in Request
    /\ q.todo \subseteq Regions(q.seen)
    /\ q.op # "none" => /\ q.key \in CaseKey
                        /\ \A i \in q.ids : i \in DOMAIN findings' /\ findings'[i].code = q.key[1]
                        /\ ~Incident(q.key) => q.seen # {}
    /\ q.op = "accepting" /\ ~Incident(q.key) => q.todo # {} \/ q.ids # {}

\* A person's request that moves leaves the others as they were.
LEMMA RequestMoves ==
    ASSUME TriageInv, FindingsGrow, NEW u \in Person,
           request' = [request EXCEPT ![u] = request'[u]], GoodRequest(request'[u])
    PROVE  /\ (request \in [Person -> Request])'
           /\ \A v \in Person : request'[v].todo \subseteq Regions(request'[v].seen)
           /\ RequestInv'
  <1>1. /\ request \in [Person -> Request]
        /\ \A v \in Person : request[v].todo \subseteq Regions(request[v].seen)
    BY DEF TriageInv, TypeOK
  <1>2. \A v \in Person : v # u => request'[v] = request[v]
    BY <1>1
  <1>3. /\ (request \in [Person -> Request])'
        /\ \A v \in Person : request'[v].todo \subseteq Regions(request'[v].seen)
    BY <1>1, <1>2 DEF GoodRequest
  <1>4. RequestInv'
    BY <1>2 DEF GoodRequest, TriageInv, RequestInv, About, FindingsGrow, Incident
  <1>. QED  BY <1>3, <1>4

\* Locks stay exclusive if a request takes a free row or keeps its own, and nobody else's
\* row changes its status.
LEMMA LocksMove ==
    ASSUME TriageInv, NEW u \in Person, request' = [request EXCEPT ![u] = request'[u]],
           request'[u].op = "accepting" =>
              /\ UNCHANGED cases /\ Undecided(request'[u].key)
              /\ \/ ~Locked(request'[u].key)
                 \/ request[u].op = "accepting" /\ request[u].key = request'[u].key,
           \A k \in CaseKey : \/ ~Locked(k)
                              \/ request[u].op = "accepting" /\ request[u].key = k
                              \/ cases'[k].status = cases[k].status
    PROVE  LockInv'
  <1>1. \A v \in Person : v # u => request'[v] = request[v]
    BY DEF TriageInv, TypeOK
  <1>2. \A v, w \in Person : /\ request[v].op = "accepting" /\ request[w].op = "accepting"
                             /\ request[v].key = request[w].key
                             => v = w
    BY DEF TriageInv, LockInv
  <1>3. \A v \in Person : request[v].op = "accepting" =>
          request[v].key \in CaseKey /\ Undecided(request[v].key) /\ Locked(request[v].key)
    BY DEF TriageInv, LockInv, RequestInv, Locked
  <1>4. ASSUME NEW v \in Person, request'[v].op = "accepting"
        PROVE  /\ cases'[request'[v].key].status \in {"open", "escalated"}
               /\ \A w \in Person : request'[w].op = "accepting" /\ request'[w].key = request'[v].key => w = v
    <2>1. CASE v = u
      BY <1>1, <1>2, <1>4, <2>1 DEF Undecided, Locked
    <2>2. CASE v # u
      <3>1. /\ request'[v] = request[v] /\ request[v].op = "accepting" /\ request[v].key \in CaseKey
            /\ Undecided(request[v].key) /\ Locked(request[v].key)
        BY <1>1, <1>3, <1>4, <2>2
      <3>2. ~(request[u].op = "accepting" /\ request[u].key = request[v].key)
        BY <1>2, <2>2, <3>1
      <3>3. cases'[request[v].key].status = cases[request[v].key].status
        BY <3>1, <3>2
      <3>4. ASSUME NEW w \in Person, request'[w].op = "accepting", request'[w].key = request'[v].key PROVE w = v
        <4>1. CASE w = u
          BY <3>1, <3>2, <3>4, <4>1
        <4>2. CASE w # u
          BY <1>1, <1>2, <3>1, <3>4, <4>2
        <4>. QED  BY <4>1, <4>2
      <3>. QED  BY <3>1, <3>3, <3>4 DEF Undecided
    <2>. QED  BY <2>1, <2>2
  <1>. QED  BY <1>4 DEF LockInv, Undecided

\* A step of a request that leaves cases alone.
LEMMA RequestOnly ==
    ASSUME TriageInv, NEW u \in Person, UNCHANGED <<week, cases, scanner>>,
           (findings \in Seq(Finding))', FindingsGrow,
           request' = [request EXCEPT ![u] = request'[u]], GoodRequest(request'[u]),
           request'[u].op = "accepting" =>
              /\ Undecided(request'[u].key)
              /\ \/ ~Locked(request'[u].key)
                 \/ request[u].op = "accepting" /\ request[u].key = request'[u].key
    PROVE  TriageInv'
  <1>1. LockInv'
    BY LocksMove
  <1>. QED  BY <1>1, RequestMoves, FindingsStep DEF scanner

\* The row that is read is there, so it has records.
LEMMA ReadsInv ==
    ASSUME NEW u \in Person, NEW k \in CaseKey
    PROVE  TriageInv /\ (AcceptRead(u, k) \/ WaiveRead(u, k)) => TriageInv'
  <1>. SUFFICES ASSUME TriageInv, AcceptRead(u, k) \/ WaiveRead(u, k) PROVE TriageInv'
    OBVIOUS
  <1>1. PICK op \in {"accept", "waive"} :
          request' = [request EXCEPT ![u] = [NoRequest EXCEPT !.op = op, !.key = k, !.seen = cases[k].records]]
    BY DEF AcceptRead, WaiveRead
  <1>2. UNCHANGED <<week, cases, findings, scanner>> /\ cases[k].status # "none"
    BY DEF AcceptRead, WaiveRead
  <1>3. GoodRow(cases[k], k)
    BY RowsAreGood
  <1>4. request'[u] = [NoRequest EXCEPT !.op = op, !.key = k, !.seen = cases[k].records]
    BY <1>1 DEF TriageInv, TypeOK
  <1>5. GoodRequest(request'[u]) /\ request'[u].op # "accepting"
    BY <1>2, <1>3, <1>4 DEF GoodRequest, GoodRow, Request, NoRequest, Case
  <1>6. request' = [request EXCEPT ![u] = request'[u]]
    BY <1>1, <1>4
  <1>7. (findings \in Seq(Finding))' /\ FindingsGrow
    BY <1>2 DEF TriageInv, TypeOK, FindingsGrow
  <1>. QED  BY <1>2, <1>5, <1>6, <1>7, RequestOnly

\* A request that ends is a good one.
LEMMA NoRequestIsGood == GoodRequest(NoRequest) /\ NoRequest.op = "none"
  BY BlankRows DEF GoodRequest, NoRequest

\* The row is free and undecided when an Accept locks it, and it has a region to cover
\* unless it is an incident.
LEMMA AcceptDecideInv == ASSUME NEW u \in Person PROVE TriageInv /\ AcceptDecide(u) => TriageInv'
  <1>. SUFFICES ASSUME TriageInv, AcceptDecide(u) PROVE TriageInv'
    OBVIOUS
  <1>. DEFINE q == request[u]
  <1>1. /\ UNCHANGED <<week, cases, findings, scanner>> /\ q.op = "accept" /\ ~Locked(q.key)
        /\ request' = [request EXCEPT ![u] =
              IF Undecided(q.key) THEN [q EXCEPT !.op = "accepting", !.todo = Regions(q.seen)] ELSE NoRequest]
    BY DEF AcceptDecide
  <1>2. request \in [Person -> Request] /\ q \in Request
    BY DEF TriageInv, TypeOK
  <1>3. request'[u] = IF Undecided(q.key) THEN [q EXCEPT !.op = "accepting", !.todo = Regions(q.seen)] ELSE NoRequest
    BY <1>1, <1>2
  <1>4. q.key \in CaseKey /\ (~Incident(q.key) => q.seen # {})
    BY <1>1 DEF TriageInv, RequestInv
  <1>5. (findings \in Seq(Finding))' /\ FindingsGrow /\ request' = [request EXCEPT ![u] = request'[u]]
    BY <1>1, <1>3 DEF TriageInv, TypeOK, FindingsGrow
  <1>6. CASE ~Undecided(q.key)
    BY <1>1, <1>3, <1>5, <1>6, NoRequestIsGood, RequestOnly
  <1>7. CASE Undecided(q.key)
    <2>. DEFINE after == [q EXCEPT !.op = "accepting", !.todo = Regions(q.seen)]
    <2>1. q.seen \subseteq Record /\ q.ids \subseteq Nat
      BY <1>2 DEF Request
    <2>2. Regions(q.seen) \subseteq Regions(Record) /\ (q.seen # {} => Regions(q.seen) # {})
      BY <2>1 DEF Regions
    <2>3. /\ after \in Request /\ after.op = "accepting" /\ after.key = q.key /\ after.seen = q.seen
          /\ after.todo = Regions(q.seen) /\ after.ids = q.ids
      BY <1>2, <2>2 DEF Request
    <2>4. \A i \in q.ids : i \in DOMAIN findings' /\ findings'[i].code = q.key[1]
      BY <1>1 DEF TriageInv, RequestInv, About
    <2>. HIDE DEF after
    <2>5. GoodRequest(after)
      BY <1>4, <2>2, <2>3, <2>4 DEF GoodRequest
    <2>6. request'[u] = after
      BY <1>3, <1>7 DEF after
    <2>. QED  BY <1>1, <1>5, <1>7, <2>3, <2>5, <2>6, RequestOnly
  <1>. QED  BY <1>6, <1>7

\* An Accept that fails leaves its findings.
LEMMA AcceptFailsInv == ASSUME NEW u \in Person PROVE TriageInv /\ AcceptFails(u) => TriageInv'
  <1>. SUFFICES ASSUME TriageInv, AcceptFails(u) PROVE TriageInv'
    OBVIOUS
  <1>1. request' = [request EXCEPT ![u] = NoRequest] /\ UNCHANGED <<week, cases, findings, scanner>>
    BY DEF AcceptFails
  <1>2. request'[u] = NoRequest /\ request' = [request EXCEPT ![u] = request'[u]]
    BY <1>1 DEF TriageInv, TypeOK
  <1>3. (findings \in Seq(Finding))' /\ FindingsGrow
    BY <1>1 DEF TriageInv, TypeOK, FindingsGrow
  <1>. QED  BY <1>1, <1>2, <1>3, NoRequestIsGood, RequestOnly

\* A finding that an Accept writes is about the case, and its id is kept in the request.
LEMMA AcceptFindingInv == ASSUME NEW u \in Person PROVE TriageInv /\ AcceptFinding(u) => TriageInv'
  <1>. SUFFICES ASSUME TriageInv, AcceptFinding(u) PROVE TriageInv'
    OBVIOUS
  <1>. DEFINE q == request[u]
  <1>1. PICK region \in q.todo :
          /\ findings' = Append(findings, [code |-> q.key[1], region |-> region,
                                           skus |-> SkusIn(q.seen, region), status |-> "open"])
          /\ request' = [request EXCEPT ![u].todo = @ \ {region}, ![u].ids = @ \cup {Len(findings')}]
    BY DEF AcceptFinding
  <1>2. q.op = "accepting" /\ UNCHANGED <<week, cases, scanner>>
    BY DEF AcceptFinding
  <1>3. request \in [Person -> Request] /\ q \in Request /\ q.todo \subseteq Regions(q.seen)
    BY DEF TriageInv, TypeOK
  <1>4. /\ q.key \in CaseKey /\ Undecided(q.key) /\ (~Incident(q.key) => q.seen # {})
        /\ \A i \in q.ids : i \in DOMAIN findings /\ findings[i].code = q.key[1]
    BY <1>2 DEF TriageInv, RequestInv, LockInv, About
  <1>. DEFINE f == [code |-> q.key[1], region |-> region, skus |-> SkusIn(q.seen, region), status |-> "open"]
  <1>5. f \in Finding /\ f.code = q.key[1]
    <2>1. q.key[1] \in Code
      BY <1>4, CodeOfKey
    <2>2. region \in Regions(Record) /\ q.seen \subseteq Record
      BY <1>1, <1>3 DEF Request
    <2>3. SkusIn(q.seen, region) \subseteq {SkuOf[r] : r \in Record}
      BY <2>2 DEF SkusIn
    <2>. QED  BY <2>1, <2>2, <2>3 DEF Finding
  <1>6. findings' = Append(findings, f)
    BY <1>1
  <1>. HIDE DEF f
  <1>7. /\ findings' \in Seq(Finding) /\ FindingsGrow
        /\ Len(findings') \in DOMAIN findings' /\ Len(findings') \in Nat
        /\ findings'[Len(findings')].code = q.key[1]
    BY <1>5, <1>6, Appended DEF TriageInv, TypeOK
  <1>. DEFINE after == [q EXCEPT !.todo = @ \ {region}, !.ids = @ \cup {Len(findings')}]
  <1>8. /\ after \in Request /\ after.op = q.op /\ after.key = q.key /\ after.seen = q.seen
        /\ after.todo = q.todo \ {region} /\ after.ids = q.ids \cup {Len(findings')}
    BY <1>3, <1>7 DEF Request
  <1>9. request'[u] = after /\ request' = [request EXCEPT ![u] = request'[u]]
    BY <1>1, <1>3
  <1>. HIDE DEF after
  <1>10. GoodRequest(after)
    BY <1>3, <1>4, <1>7, <1>8 DEF GoodRequest, FindingsGrow
  <1>. QED  BY <1>2, <1>4, <1>7, <1>8, <1>9, <1>10, RequestOnly

\* The row that an Accept commits has a finding for each region, all about its problem.
LEMMA AcceptCommitInv == ASSUME NEW u \in Person PROVE TriageInv /\ AcceptCommit(u) => TriageInv'
  <1>. SUFFICES ASSUME TriageInv, AcceptCommit(u) PROVE TriageInv'
    OBVIOUS
  <1>. DEFINE q == request[u]
              row == [cases[q.key] EXCEPT !.status = "accepted", !.decision = "accept", !.deadline = FALSE,
                                          !.finding_ids = q.ids]
  <1>1. /\ q.op = "accepting" /\ q.todo = {} /\ UNCHANGED <<week, findings, scanner>>
        /\ cases' = [cases EXCEPT ![q.key] = row] /\ request' = [request EXCEPT ![u] = NoRequest]
    BY DEF AcceptCommit
  <1>2. /\ cases \in [CaseKey -> Case] /\ scan \in Scan
        /\ request \in [Person -> Request] /\ q \in Request
    BY DEF TriageInv, TypeOK
  <1>3. q.key \in CaseKey /\ About(q.ids, q.key) /\ (~Incident(q.key) => q.ids # {}) /\ Undecided(q.key)
    BY <1>1 DEF TriageInv, RequestInv, LockInv
  <1>4. q.ids \subseteq Nat /\ GoodRow(cases[q.key], q.key) /\ cases[q.key].status # "none"
    BY <1>2, <1>3, RowsAreGood DEF Request, Undecided
  <1>5. GoodRow(row, q.key) /\ row.status = "accepted"
    BY <1>3, <1>4 DEF GoodRow, Case, Status, Decision
  <1>. HIDE DEF row
  <1>6. /\ cases' = [k \in CaseKey |-> cases'[k]]
        /\ \A k \in CaseKey : cases'[k] = IF k = q.key THEN row ELSE cases[k]
    BY <1>1, <1>2, <1>3
  <1>7. \A k \in CaseKey : GoodRow(cases'[k], k)
    BY <1>5, <1>6, RowsAreGood
  <1>8. request'[u] = NoRequest /\ request' = [request EXCEPT ![u] = request'[u]] /\ FindingsGrow
    BY <1>1, <1>2 DEF FindingsGrow
  <1>9. LockInv'
    BY <1>1, <1>6, <1>8, NoRequestIsGood, LocksMove
  <1>10. /\ RequestInv' /\ (request \in [Person -> Request])'
         /\ \A v \in Person : request'[v].todo \subseteq Regions(request'[v].seen)
    BY <1>8, NoRequestIsGood, RequestMoves
  <1>11. \A k \in CaseKey : cases'[k] = cases[k] \/ (Undecided(k) /\ cases'[k].status # "none")
    BY <1>3, <1>5, <1>6
  <1>. QED  BY <1>1, <1>2, <1>6, <1>7, <1>9, <1>10, <1>11, UndecidedRows DEF scanner

\* Reject and the sweep write good rows over undecided ones that nobody holds.
LEMMA FreeRows ==
    ASSUME TriageInv, UNCHANGED <<week, findings, scanner, request>>,
           cases' = [k \in CaseKey |-> cases'[k]],
           \A k \in CaseKey : \/ cases'[k] = cases[k]
                              \/ /\ Undecided(k) /\ ~Locked(k)
                                 /\ cases'[k].status # "none" /\ GoodRow(cases'[k], k)
    PROVE  TriageInv'
  <1>1. \A k \in CaseKey : GoodRow(cases'[k], k)
    BY RowsAreGood
  <1>2. LockInv' /\ RequestInv'
    BY LocksKept, RequestsKept DEF TriageInv
  <1>3. /\ (scan \in Scan)' /\ (request \in [Person -> Request])'
        /\ \A v \in Person : request'[v].todo \subseteq Regions(request'[v].seen)
    BY DEF TriageInv, TypeOK, scanner
  <1>. QED  BY <1>1, <1>2, <1>3, UndecidedRows DEF scanner

\* A waiver is a person's.
LEMMA WaiveDecideInv == ASSUME NEW u \in Person PROVE TriageInv /\ WaiveDecide(u) => TriageInv'
  <1>. SUFFICES ASSUME TriageInv, WaiveDecide(u) PROVE TriageInv'
    OBVIOUS
  <1>. DEFINE q == request[u]
              row == [cases[q.key] EXCEPT !.status = "waived", !.decision = "waive", !.deadline = FALSE,
                                          !.waived_records = q.seen]
  <1>1. /\ q.op = "waive" /\ ~Locked(q.key) /\ UNCHANGED <<week, findings, scanner>>
        /\ cases' = IF Undecided(q.key) THEN [cases EXCEPT ![q.key] = row] ELSE cases
        /\ request' = [request EXCEPT ![u] = NoRequest]
    BY DEF WaiveDecide
  <1>2. /\ cases \in [CaseKey -> Case] /\ scan \in Scan
        /\ request \in [Person -> Request] /\ q \in Request
    BY DEF TriageInv, TypeOK
  <1>3. q.key \in CaseKey
    BY <1>1 DEF TriageInv, RequestInv
  <1>4. q.seen \subseteq Record /\ GoodRow(cases[q.key], q.key)
    BY <1>2, <1>3, RowsAreGood DEF Request
  <1>5. Undecided(q.key) => GoodRow(row, q.key) /\ row.status = "waived"
    BY <1>4 DEF GoodRow, Case, Status, Decision, Undecided
  <1>. HIDE DEF row
  <1>6. /\ cases' = [k \in CaseKey |-> cases'[k]]
        /\ \A k \in CaseKey : cases'[k] = IF k = q.key /\ Undecided(k) THEN row ELSE cases[k]
    BY <1>1, <1>2, <1>3
  <1>7. \A k \in CaseKey : GoodRow(cases'[k], k)
    BY <1>5, <1>6, RowsAreGood
  <1>8. request'[u] = NoRequest /\ request' = [request EXCEPT ![u] = request'[u]] /\ FindingsGrow
    BY <1>1, <1>2 DEF FindingsGrow
  <1>9. LockInv'
    BY <1>1, <1>6, <1>8, NoRequestIsGood, LocksMove
  <1>10. /\ RequestInv' /\ (request \in [Person -> Request])'
         /\ \A v \in Person : request'[v].todo \subseteq Regions(request'[v].seen)
    BY <1>8, NoRequestIsGood, RequestMoves
  <1>11. \A k \in CaseKey : cases'[k] = cases[k] \/ (Undecided(k) /\ cases'[k].status # "none")
    BY <1>5, <1>6
  <1>. QED  BY <1>1, <1>2, <1>6, <1>7, <1>9, <1>10, <1>11, UndecidedRows DEF scanner

\* A rejected case is open or escalated.
LEMMA RejectInv ==
    ASSUME NEW u \in Person, NEW k \in CaseKey
    PROVE  TriageInv /\ Reject(u, k) => TriageInv'
  <1>. SUFFICES ASSUME TriageInv, Reject(u, k) PROVE TriageInv'
    OBVIOUS
  <1>1. /\ Undecided(k) /\ ~Locked(k) /\ UNCHANGED <<week, findings, scanner, request>>
        /\ \E status \in {"open", "escalated"}, decision \in Decision, deadline \in BOOLEAN, owner \in Owner :
              cases' = [cases EXCEPT ![k] = [@ EXCEPT !.status = status, !.decision = decision,
                                                      !.deadline = deadline, !.owner = owner]]
    BY TriageAssumption DEF Reject, Decision
  <1>2. PICK status \in {"open", "escalated"}, decision \in Decision, deadline \in BOOLEAN, owner \in Owner :
          cases' = [cases EXCEPT ![k] = [@ EXCEPT !.status = status, !.decision = decision,
                                                  !.deadline = deadline, !.owner = owner]]
    BY <1>1
  <1>. DEFINE row == [cases[k] EXCEPT !.status = status, !.decision = decision,
                                      !.deadline = deadline, !.owner = owner]
  <1>3. GoodRow(cases[k], k) /\ cases[k].status # "none" /\ cases \in [CaseKey -> Case]
    BY <1>1, RowsAreGood DEF Undecided, TriageInv, TypeOK
  <1>4. GoodRow(row, k) /\ row.status # "none"
    BY <1>3 DEF GoodRow, Case, Status
  <1>5. cases' = [cases EXCEPT ![k] = row]
    BY <1>2
  <1>. HIDE DEF row
  <1>6. /\ cases' = [x \in CaseKey |-> cases'[x]]
        /\ \A x \in CaseKey : cases'[x] = IF x = k THEN row ELSE cases[x]
    BY <1>3, <1>5
  <1>. QED  BY <1>1, <1>4, <1>6, FreeRows

\* The sweep escalates open cases.
LEMMA SweepInv == ASSUME NEW late \in SUBSET Due PROVE TriageInv /\ Sweep(late) => TriageInv'
  <1>. SUFFICES ASSUME TriageInv, Sweep(late) PROVE TriageInv'
    OBVIOUS
  <1>1. /\ \A k \in late : k \in CaseKey /\ cases[k].status = "open" /\ ~Locked(k)
        /\ UNCHANGED <<week, findings, scanner, request>>
        /\ cases' = [k \in CaseKey |-> cases'[k]]
    BY DEF Sweep, Due
  <1>2. \A k \in CaseKey : \E owner \in Owner : cases'[k] =
          IF k \in late
          THEN [cases[k] EXCEPT !.status = "escalated", !.deadline = FALSE, !.owner = owner]
          ELSE cases[k]
    <2>. SUFFICES ASSUME NEW k \in CaseKey
                  PROVE  \E owner \in Owner : cases'[k] =
                           IF k \in late
                           THEN [cases[k] EXCEPT !.status = "escalated", !.deadline = FALSE, !.owner = owner]
                           ELSE cases[k]
      OBVIOUS
    <2>. DEFINE owner == IF cases[k].owner \in Business THEN DecisionOwner ELSE cases[k].owner
    <2>1. owner \in Owner
      BY TriageAssumption DEF TriageInv, TypeOK, Case
    <2>2. cases'[k] = IF k \in late
                      THEN [cases[k] EXCEPT !.status = "escalated", !.deadline = FALSE, !.owner = owner]
                      ELSE cases[k]
      BY DEF Sweep
    <2>. QED  BY <2>1, <2>2
  <1>3. ASSUME NEW k \in late PROVE GoodRow(cases'[k], k) /\ cases'[k].status = "escalated"
    <2>1. PICK owner \in Owner :
            cases'[k] = [cases[k] EXCEPT !.status = "escalated", !.deadline = FALSE, !.owner = owner]
      BY <1>1, <1>2
    <2>2. GoodRow(cases[k], k) /\ cases[k].status = "open"
      BY <1>1, RowsAreGood
    <2>. QED  BY <2>1, <2>2 DEF GoodRow, Case, Status
  <1>. QED  BY <1>1, <1>2, <1>3, FreeRows DEF Undecided

\* Only records of this week start and cease to fail.
LEMMA WeekChangesInv == TriageInv /\ WeekChanges => TriageInv'
  <1>. SUFFICES ASSUME TriageInv, WeekChanges PROVE TriageInv'
    OBVIOUS
  <1>0. /\ week \in [failing : SUBSET Record, listed : SUBSET Items]
        /\ \A r \in week.failing : CodeOf[r] \notin DOMAIN Earlier
    BY DEF TriageInv, TypeOK, FoundThisWeek
  <1>1. /\ week' \in [failing : SUBSET Record, listed : SUBSET Items]
        /\ \A r \in week'.failing : CodeOf[r] \notin DOMAIN Earlier
    <2>1. CASE \E r \in CanFail(week.listed) : week' = [week EXCEPT !.failing = SymDiff(@, {r})]
      BY <1>0, <2>1 DEF CanFail, SymDiff
    <2>2. CASE \E i \in Items : LET listed == SymDiff(week.listed, {i})
                              IN  week' = [failing |-> week.failing \cap CanFail(listed), listed |-> listed]
      BY <1>0, <2>2 DEF SymDiff
    <2>. QED  BY <2>1, <2>2 DEF WeekChanges
  <1>4. UNCHANGED <<cases, findings, scan, pc, request>>
    BY DEF WeekChanges, scanner
  <1>2. TypeOK'
    BY <1>1, <1>4 DEF TriageInv, TypeOK
  <1>3. ScanInv' /\ FrozenRows' /\ FoundThisWeek'
    BY <1>1, <1>4 DEF TriageInv, ScanInv, FrozenRows, FoundThisWeek, About, ThisWeek
  <1>. QED  BY <1>2, <1>3, <1>4, Unmoved DEF TriageInv

------------------------------------------------------------------------------
(* The theorems                                                              *)

\* Initially no scan runs, nobody decides, and the cases of earlier weeks are open.
LEMMA TriageInitInv == Init => TriageInv
  <1>. SUFFICES ASSUME Init PROVE TriageInv
    OBVIOUS
  <1>1. TypeOK
    BY BlankRows DEF Init, TypeOK, NoRequest, Regions
  <1>2. CasesInv /\ OnlyPeopleDecide
    <2>. SUFFICES ASSUME NEW k \in CaseKey
                  PROVE  GoodRow(cases[k], k) /\ cases[k].status \in {"none", "open"}
      BY DEF CasesInv, OnlyPeopleDecide, GoodRow
    <2>1. CASE ThisWeek(k)
      BY <2>1, BlankRows DEF Init, GoodRow, Absent, About
    <2>2. CASE ~ThisWeek(k)
      <3>1. \E r \in Record : CodeOf[r] = k[1]
        BY <2>2, TriageAssumption DEF ThisWeek
      <3>. QED  BY <2>2, <3>1, BlankRows DEF Init, GoodRow, LeftOpen, Absent, About
    <2>. QED  BY <2>1, <2>2
  <1>3. ScanInv /\ FrozenRows /\ FoundThisWeek
    BY DEF Init, ScanInv, FrozenRows, FoundThisWeek, NoScan, About
  <1>4. RequestInv /\ LockInv
    BY DEF Init, RequestInv, LockInv, NoRequest
  <1>. QED  BY <1>1, <1>2, <1>3, <1>4 DEF TriageInv

\* Every step of the scanner, of a person, of the sweep and of the week keeps it.
LEMMA TriageNextInv == TriageInv /\ [Next]_vars => TriageInv'
  <1>. SUFFICES ASSUME TriageInv, [Next]_vars PROVE TriageInv'
    OBVIOUS
  <1>1. CASE ScanStep
    BY <1>1, ReadWeekInv, ReadKnownInv, SyncReadInv, SyncWriteInv, ResolveEarlierInv, AutoResolveInv,
       ScanEndsInv, SaveProposalInv DEF ScanStep
  <1>2. CASE NoUsableWeek \/ ScanDies
    BY <1>2, NoUsableWeekInv, ScanEndsInv
  <1>3. ASSUME NEW u \in Person, PersonStep(u) PROVE TriageInv'
    BY <1>3, AcceptDecideInv, AcceptFindingInv, AcceptCommitInv, WaiveDecideInv, AcceptFailsInv,
       ConfirmFindingInv, ResolveFindingInv, ReadsInv, RejectInv DEF PersonStep, FinishRequest
  <1>4. CASE \E late \in SUBSET Due : Sweep(late)
    BY <1>4, SweepInv
  <1>5. CASE WeekChanges
    BY <1>5, WeekChangesInv
  <1>6. CASE UNCHANGED vars
    <2>1. TypeOK' /\ ScanInv' /\ FrozenRows' /\ FoundThisWeek'
      BY <1>6 DEF TriageInv, TypeOK, ScanInv, FrozenRows, FoundThisWeek, About, ThisWeek, vars
    <2>. QED  BY <1>6, <2>1, Unmoved DEF TriageInv, vars
  <1>. QED  BY <1>1, <1>2, <1>3, <1>4, <1>5, <1>6 DEF Next

\* The strengthening holds of every behaviour.
LEMMA TriageAlways == Spec => []TriageInv
  BY TriageInitInv, TriageNextInv, PTL DEF Spec

\* Cases, findings, scans and requests keep their types, for any codes, records and people,
\* and an Accept covers only regions of the records it read.
THEOREM TriageTyping == Spec => []TypeOK
  <1>1. TriageInv => TypeOK
    BY DEF TriageInv
  <1>. QED  BY <1>1, TriageAlways, PTL

\* Only people decide: whatever the scans, sweeps and decisions that interleave, an accepted
\* case was accepted by a person or by findings about its problem, and a waived one was
\* waived by a person.
THEOREM TriageOnlyPeopleDecide == Spec => []OnlyPeopleDecide
  <1>1. TriageInv => OnlyPeopleDecide
    BY DEF TriageInv
  <1>. QED  BY <1>1, TriageAlways, PTL

\* No scan leaves a case waived that it found with a record the waiver does not name.
THEOREM TriageWaiverCovers == Spec => WaiverCovers
  <1>1. ASSUME TriageInv, Next, SyncStep, NEW k \in FoundKeys, cases'[k].status = "waived"
        PROVE  FoundRecords(k) \subseteq cases'[k].waived_records
    <2>. DEFINE row == scan.rows[k]
    <2>1. SyncWrite
      BY <1>1 DEF Next, ScanStep, SyncStep, ReadWeek, ReadKnown, SyncRead, ResolveEarlierOutcomes, AutoResolve,
         EndScan, SaveProposal, NoUsableWeek, ScanDies, PersonStep, FinishRequest, AcceptRead, AcceptDecide,
         AcceptFinding, AcceptCommit, AcceptFails, WaiveRead, WaiveDecide, Reject, ConfirmFinding,
         ResolveFinding, Sweep, WeekChanges, scanner
    <2>2. k \in CaseKey /\ ThisWeek(k) /\ cases[k] \in Case
      BY <1>1, FoundCases DEF TriageInv, TypeOK
    <2>3. cases'[k] = IF row.status = "none" THEN Inserted(k) ELSE Updated(k)
      BY <1>1, <2>1, <2>2 DEF SyncWrite
    <2>4. Inserted(k).status # "waived"
      BY BlankRows DEF Inserted, Case, Absent
    <2>5. /\ Updated(k).status = IF Event(row, FoundRecords(k)) = "reopened" THEN "open" ELSE row.status
          /\ Updated(k).waived_records = cases[k].waived_records
      BY <2>2 DEF Updated, Case
    <2>6. row.status = "waived" /\ Event(row, FoundRecords(k)) # "reopened"
      BY <1>1, <2>3, <2>4, <2>5
    <2>7. FoundRecords(k) \subseteq row.waived_records
      BY <2>6 DEF Event
    <2>8. cases[k] = row
      BY <1>1, <2>1, <2>2, <2>6 DEF TriageInv, FrozenRows, SyncWrite
    <2>. QED  BY <2>3, <2>5, <2>6, <2>7, <2>8
  <1>2. TriageInv /\ [Next]_vars =>
          [SyncStep => \A k \in FoundKeys :
              cases'[k].status = "waived" => FoundRecords(k) \subseteq cases'[k].waived_records]_vars
    BY <1>1
  <1>. QED  BY <1>2, TriageAlways, PTL DEF Spec, WaiverCovers

------------------------------------------------------------------------------
(* Messages: what module TriageNotices adds leaves the cases to the steps    *)
(* above, and owners hear of the cases that a normal scan leaves open.       *)

\* Only the scan, the sweep, people and the week touch the cases, each by a step of their own.
LEMMA NoticesStep == [NoticesNext]_nvars => [Next]_vars
  <1>. SUFFICES ASSUME [NoticesNext]_nvars PROVE [Next]_vars
    OBVIOUS
  <1>1. CASE ScanAndTell
    BY <1>1 DEF ScanAndTell, SyncAndList, EndNotified, ProposeAndList, Tell, Next, ScanStep
  <1>2. CASE DiesNotified
    BY <1>2 DEF DiesNotified, Next
  <1>3. CASE \E late \in SUBSET Due : SweepAndList(late)
    BY <1>3 DEF SweepAndList, Next
  <1>4. CASE (\E team \in Owner : Page(team)) \/ SweepDies
    BY <1>4 DEF Page, SweepDies
  <1>5. CASE NoUsableWeek \/ (\E u \in Person : PersonStep(u)) \/ WeekChanges
    BY <1>5 DEF Next
  <1>6. CASE UNCHANGED nvars
    BY <1>6 DEF nvars
  <1>. QED  BY <1>1, <1>2, <1>3, <1>4, <1>5, <1>6 DEF NoticesNext

\* Telling people changes no case: every behaviour with its messages is one of module TriageCases,
\* so that only people decide, and waivers cover what they name, here too.
THEOREM NoticesUseTriage == NoticesSpec => Spec
  <1>1. NoticesInit => Init
    BY DEF NoticesInit
  <1>. QED  BY <1>1, NoticesStep, PTL DEF NoticesSpec, Spec

------------------------------------------------------------------------------
(* Typing                                                                    *)

\* A case has an owner.
LEMMA OwnersAre == ASSUME TypeOK, NEW k \in CaseKey PROVE cases[k].owner \in Owner
  BY DEF TypeOK, Case

\* The list of a scan holds cases with their owners.
LEMMA SyncAndListTyping == TriageInv /\ TriageInv' /\ NoticesTypeOK /\ SyncAndList => NoticesTypeOK'
  <1>. SUFFICES ASSUME TriageInv, TriageInv', NoticesTypeOK, SyncAndList PROVE NoticesTypeOK'
    OBVIOUS
  <1>1. FoundKeys \subseteq CaseKey /\ Announced \subseteq FoundKeys
    BY FoundCases DEF TriageInv, Announced, Fresh
  <1>2. \A k \in CaseKey : cases'[k].owner \in Owner
    BY OwnersAre DEF TriageInv, TypeOK, Case
  <1>3. to_tell' \subseteq Addressed
    BY <1>1, <1>2 DEF SyncAndList, Addressed
  <1>4. pc' \in {"log", "earlier"}
    BY DEF SyncAndList, SyncWrite
  <1>. QED  BY <1>3, <1>4 DEF SyncAndList, NoticesTypeOK

\* Every step keeps the messages typed, and a list only while there is a scan that has synced.
LEMMA NoticesTypeStep == TriageInv /\ TriageInv' /\ NoticesTypeOK /\ [NoticesNext]_nvars => NoticesTypeOK'
  <1>. SUFFICES ASSUME TriageInv, TriageInv', NoticesTypeOK, [NoticesNext]_nvars PROVE NoticesTypeOK'
    OBVIOUS
  <1>1. CASE (ReadWeek \/ ReadKnown \/ SyncRead \/ ResolveEarlierOutcomes \/ AutoResolve) /\ UNCHANGED notices
    BY <1>1 DEF ReadWeek, ReadKnown, SyncRead, ResolveEarlierOutcomes, AutoResolve, NoticesTypeOK, notices
  <1>2. CASE SyncAndList
    BY <1>2, SyncAndListTyping
  <1>3. CASE EndNotified
    BY <1>3 DEF EndNotified, NoticesTypeOK, notices
  <1>4. ASSUME NEW k \in CaseKey, ProposeAndList(k) PROVE NoticesTypeOK'
    <2>1. cases'[k].owner \in Owner
      BY OwnersAre DEF TriageInv, TypeOK, Case
    <2>2. to_tell' \subseteq Addressed
      BY <1>4, <2>1 DEF ProposeAndList, Relisted, Addressed, NoticesTypeOK
    <2>. QED  BY <1>4, <2>2 DEF ProposeAndList, SaveProposal, NoticesTypeOK
  <1>5. ASSUME NEW team \in Owner \cup {DataPlatform}, Tell(team) PROVE NoticesTypeOK'
    <2>1. pc' = pc /\ pc \notin {"idle", "known", "sync", "write"}
      BY <1>5 DEF Tell, Listening, vars
    <2>2. to_tell' \subseteq to_tell /\ told' \subseteq told \cup {<<x[1], team>> : x \in to_tell}
      BY <1>5 DEF Tell
    <2>. QED  BY <1>5, <2>1, <2>2 DEF Tell, NoticesTypeOK, Addressed
  <1>6. CASE DiesNotified
    BY <1>6 DEF DiesNotified, NoticesTypeOK, Addressed
  <1>7. ASSUME NEW late \in SUBSET Due, SweepAndList(late) PROVE NoticesTypeOK'
    <2>1. late \subseteq CaseKey
      BY DEF Due
    <2>2. \A k \in late : cases'[k].owner \in Owner
      BY <2>1, OwnersAre DEF TriageInv, TypeOK, Case
    <2>3. to_page' \subseteq Addressed
      BY <1>7, <2>1, <2>2 DEF SweepAndList, Addressed
    <2>4. UNCHANGED <<pc, told, to_tell, untold, unpaged>>
      BY <1>7 DEF SweepAndList, Sweep, scanner
    <2>. QED  BY <2>3, <2>4 DEF NoticesTypeOK
  <1>8. CASE (\E team \in Owner : Page(team)) \/ SweepDies
    BY <1>8 DEF Page, SweepDies, NoticesTypeOK, Addressed, vars
  <1>9. CASE NoUsableWeek /\ UNCHANGED notices
    BY <1>9 DEF NoUsableWeek, NoticesTypeOK, notices
  <1>10. CASE ((\E u \in Person : PersonStep(u)) \/ WeekChanges) /\ UNCHANGED notices
    BY <1>10 DEF PersonStep, FinishRequest, AcceptDecide, AcceptFinding, AcceptCommit, WaiveDecide, AcceptFails,
       ConfirmFinding, ResolveFinding, AcceptRead, WaiveRead, Reject, WeekChanges, Begin, scanner, NoticesTypeOK, notices
  <1>11. CASE UNCHANGED nvars
    BY <1>11 DEF nvars, vars, notices, NoticesTypeOK
  <1>. QED  BY <1>1, <1>2, <1>3, <1>4, <1>5, <1>6, <1>7, <1>8, <1>9, <1>10, <1>11 DEF NoticesNext, ScanAndTell

\* Messages name cases and teams, for any of them, and no announcement outlives its scan.
THEOREM NoticesTyping == NoticesSpec => []NoticesTypeOK
  <1>1. NoticesInit => NoticesTypeOK
    BY DEF NoticesInit, NoticesTypeOK
  <1>2. NoticesSpec => []TriageInv
    BY NoticesUseTriage, TriageAlways, PTL
  <1>. QED  BY <1>1, <1>2, NoticesTypeStep, PTL DEF NoticesSpec

------------------------------------------------------------------------------
(* Owners hear of their cases                                                *)

\* The owner has been told, will be told by this scan or the sweep, or a process died before it.
Known(k) ==
    \/ k \in untold
    \/ \E x \in unpaged : x[1] = k
    \/ <<k, cases[k].owner>> \in told \cup to_page
    \/ <<k, cases[k].owner>> \in to_tell /\ ~Hold

Concerns(k) == ThisWeek(k) /\ ~Incident(k)
Pressing(k) ==
    /\ cases[k].decision = "none"
    /\ cases[k].status = "escalated" \/ (cases[k].status = "open" /\ cases[k].deadline)

\* An undecided case that is escalated, or that has a deadline, is known.  The rest was held.
HeardInv == \A k \in CaseKey : Concerns(k) /\ Pressing(k) => Known(k)

\* An undecided case is still as the scan read it, unless the sweep has escalated it.
RowsAsRead ==
    pc = "write" => \A k \in CaseKey :
       Concerns(k) /\ scan.rows[k].status \in {"open", "escalated"} /\ cases[k].decision = "none"
         => \/ cases[k].status = scan.rows[k].status /\ cases[k].deadline = scan.rows[k].deadline
            \/ cases[k].status = "escalated"

\* Once a normal scan has synced, no case it found waits unknown.
SyncedInv ==
    pc \in {"earlier", "auto", "model"} /\ ~Hold => \A k \in FoundKeys : Waits(k) => Known(k)

\* A scan of an incident looks at no record, and announces the incident alone.
IncidentScan ==
    /\ pc \in {"known", "earlier", "auto", "model"} => scan.incident = {}
    /\ pc = "log" => scan.incident # {}
    /\ scan.incident # {} => scan.found = {} /\ \A x \in to_tell : Incident(x[1])

HearingInv == HeardInv /\ RowsAsRead /\ SyncedInv /\ IncidentScan
NoticesInv == TriageInv /\ NoticesTypeOK /\ HearingInv

\* The checks of a scan and what it reads touch no case of this week and no message.
LEMMA ReadsHear ==
    NoticesInv /\ (ReadKnown \/ SyncRead \/ ResolveEarlierOutcomes \/ AutoResolve) /\ UNCHANGED notices => HearingInv'
  <1>. SUFFICES ASSUME NoticesInv, ReadKnown \/ SyncRead \/ ResolveEarlierOutcomes \/ AutoResolve, UNCHANGED notices
                PROVE  HearingInv'
    OBVIOUS
  <1>0. scan \in Scan
    BY DEF NoticesInv, TriageInv, TypeOK
  <1>1. /\ scan'.trouble = scan.trouble /\ scan'.found = scan.found /\ scan'.incident = scan.incident
        /\ <<pc, pc'>> \in {<<"known", "sync">>, <<"sync", "write">>, <<"earlier", "auto">>, <<"auto", "model">>}
    <2>1. CASE ReadKnown
      BY <1>0, <2>1 DEF ReadKnown, Scan
    <2>2. CASE SyncRead
      BY <1>0, <2>2 DEF SyncRead, Scan
    <2>3. CASE ResolveEarlierOutcomes \/ AutoResolve
      BY <2>3 DEF ResolveEarlierOutcomes, AutoResolve
    <2>. QED  BY <2>1, <2>2, <2>3
  <1>2. \A k \in CaseKey : ThisWeek(k) => cases'[k] = cases[k]
    BY DEF NoticesInv, TriageInv, TypeOK, ReadKnown, SyncRead, ResolveEarlierOutcomes, AutoResolve, ClosedLater
  <1>3. Hold' = Hold /\ FoundKeys' = FoundKeys
    BY <1>1 DEF Hold, FoundKeys, KbDown
  <1>4. \A k \in CaseKey : ThisWeek(k) => Known(k)' = Known(k)
    BY <1>2, <1>3 DEF Known, notices
  <1>5. HeardInv'
    BY <1>2, <1>4 DEF NoticesInv, HearingInv, HeardInv, Concerns, Pressing, ThisWeek, Incident
  <1>6. RowsAsRead'
    <2>1. ASSUME pc' = "write", NEW k \in CaseKey, ThisWeek(k) PROVE cases'[k] = scan'.rows[k]
      BY <1>0, <1>1, <2>1 DEF SyncRead, ReadKnown, ResolveEarlierOutcomes, AutoResolve, Scan
    <2>. QED  BY <2>1 DEF RowsAsRead, Concerns, ThisWeek, Incident
  <1>7. SyncedInv'
    <2>1. \A k \in FoundKeys : k \in CaseKey /\ ThisWeek(k)
      BY FoundCases DEF NoticesInv, TriageInv
    <2>. QED  BY <1>1, <1>2, <1>3, <1>4, <2>1 DEF NoticesInv, HearingInv, SyncedInv, Waits
  <1>8. IncidentScan'
    BY <1>1 DEF NoticesInv, HearingInv, IncidentScan, notices, Incident
  <1>. QED  BY <1>5, <1>6, <1>7, <1>8 DEF HearingInv

\* A scan that starts or ends takes no message with it, or leaves it behind as untold.
LEMMA EndsHear ==
    NoticesInv /\ (((ReadWeek \/ NoUsableWeek) /\ UNCHANGED notices) \/ EndNotified \/ DiesNotified) => HearingInv'
  <1>. SUFFICES ASSUME NoticesInv, ((ReadWeek \/ NoUsableWeek) /\ UNCHANGED notices) \/ EndNotified \/ DiesNotified
                PROVE  HearingInv'
    OBVIOUS
  <1>1. cases' = cases /\ pc' \in {"known", "sync", "idle"} /\ UNCHANGED <<told, to_page, unpaged>>
    BY DEF ReadWeek, NoUsableWeek, EndNotified, EndScan, DiesNotified, ScanDies, notices
  <1>2. to_tell' = {}
    BY DEF NoticesInv, NoticesTypeOK, ReadWeek, NoUsableWeek, EndNotified, DiesNotified, notices
  <1>3. untold \subseteq untold' /\ \A x \in to_tell : x[1] \in untold'
    BY DEF NoticesInv, NoticesTypeOK, ReadWeek, NoUsableWeek, EndNotified, DiesNotified, notices
  <1>4. \A k \in CaseKey : Known(k) => Known(k)'
    BY <1>1, <1>3 DEF Known
  <1>5. HeardInv'
    BY <1>1, <1>4 DEF NoticesInv, HearingInv, HeardInv, Concerns, Pressing, ThisWeek, Incident
  <1>6. IncidentScan'
    <2>1. CASE ReadWeek
      BY <1>2, <2>1 DEF ReadWeek, IncidentScan, NoScan
    <2>2. CASE NoUsableWeek
      BY <1>2, <2>2 DEF NoUsableWeek, IncidentScan, NoScan
    <2>3. CASE EndNotified \/ DiesNotified
      BY <1>2, <2>3 DEF EndNotified, EndScan, DiesNotified, ScanDies, IncidentScan, NoScan
    <2>. QED  BY <2>1, <2>2, <2>3
  <1>. QED  BY <1>1, <1>5, <1>6 DEF HearingInv, RowsAsRead, SyncedInv

\* What a scan of the week finds are cases of records or sales, never incidents.
LEMMA WeekFound ==
    ASSUME NoticesInv, scan.incident = {}, NEW k \in FoundKeys
    PROVE  k \in CaseKey /\ Concerns(k)
  <1>1. PICK r \in scan.found : k = Key(CodeOf[r], KbDown)
    BY DEF FoundKeys
  <1>2. r \in Record /\ CodeOf[r] \in Code /\ Kind[CodeOf[r]] # "incident"
    BY TriageAssumption DEF NoticesInv, TriageInv, TypeOK, Scan
  <1>3. KbDown \in BOOLEAN
    BY DEF KbDown
  <1>4. ~Incident(k)
    BY <1>1, <1>2, <1>3, KeyOfCode DEF Incident
  <1>. QED  BY <1>4, FoundCases DEF NoticesInv, TriageInv, Concerns

\* A case that no scan is announcing and that sync does not open again stays known.
LEMMA KnownThroughSync ==
    ASSUME NoticesInv, SyncAndList, NEW k \in CaseKey, Known(k), k \notin Fresh, cases'[k].owner = cases[k].owner
    PROVE  Known(k)'
  <1>1. to_tell = {}
    BY DEF NoticesInv, NoticesTypeOK, SyncAndList, SyncWrite
  <1>2. \A x \in told : x[1] = k => x \in told'
    <2>1. ASSUME NEW x \in told, x[1] = k, NEW y \in Fresh PROVE x \notin MessagesOf(y)
      BY <2>1 DEF MessagesOf
    <2>. QED  BY <2>1 DEF SyncAndList
  <1>3. k \in untold => k \in untold'
    BY DEF SyncAndList
  <1>. QED  BY <1>1, <1>2, <1>3 DEF Known, SyncAndList

\* What sync makes of a case of this week.
LEMMA Synced ==
    ASSUME NoticesInv, SyncWrite, NEW k \in CaseKey
    PROVE  LET row == scan.rows[k]
               event == Event(row, FoundRecords(k))
           IN  CASE k \in FoundKeys /\ row.status = "none" -> cases'[k] = Inserted(k)
                 [] k \in FoundKeys /\ row.status # "none" ->
                      /\ cases'[k].status = IF event = "reopened" THEN "open" ELSE row.status
                      /\ cases'[k].deadline = IF event \in {"reopened", "released"} THEN ~Hold ELSE cases[k].deadline
                      /\ cases'[k].decision = IF event = "reopened" THEN "none" ELSE cases[k].decision
                      /\ cases'[k].owner = cases[k].owner
                 [] k \notin FoundKeys -> cases'[k] = cases[k] \/ cases'[k].status = "resolved"
  <1>. DEFINE row == scan.rows[k]
  <1>1. cases[k] \in Case
    BY DEF NoticesInv, TriageInv, TypeOK
  <1>2. CASE k \in FoundKeys /\ row.status = "none"
    BY <1>2 DEF SyncWrite
  <1>3. CASE k \in FoundKeys /\ row.status # "none"
    <2>1. cases'[k] = Updated(k)
      BY <1>3 DEF SyncWrite
    <2>. QED  BY <1>1, <1>3, <2>1 DEF Updated, Case, NewDeadline
  <1>4. CASE k \notin FoundKeys
    BY <1>1, <1>4 DEF SyncWrite, Case
  <1>. QED  BY <1>2, <1>3, <1>4

\* An undecided case that sync left as it was had been known, if it is escalated or was not held.
LEMMA KeptIsKnown ==
    ASSUME NoticesInv, SyncAndList, NEW k \in CaseKey, Concerns(k), k \notin Fresh,
           cases[k].decision = "none", cases'[k].owner = cases[k].owner,
           \/ cases[k].status = "escalated"
           \/ scan.rows[k].status = "escalated"
           \/ scan.rows[k].status = "open" /\ (cases[k].deadline \/ scan.rows[k].deadline)
    PROVE  Known(k)'
  <1>1. pc = "write" /\ ThisWeek(k)
    BY DEF SyncAndList, SyncWrite, Concerns
  <1>2. Pressing(k)
    BY <1>1 DEF NoticesInv, HearingInv, RowsAsRead, Pressing
  <1>3. Known(k)
    BY <1>2 DEF NoticesInv, HearingInv, HeardInv
  <1>. QED  BY <1>3, KnownThroughSync

\* What a scan that is not held announces, it will tell the owner.
LEMMA ListedIsKnown ==
    ASSUME SyncAndList, NEW k \in Announced, cases'[k].decision = "none", ~Hold, scan'.trouble = scan.trouble
    PROVE  Known(k)'
  <1>1. <<k, cases'[k].owner>> \in to_tell'
    BY DEF SyncAndList
  <1>2. ~Hold'
    BY DEF Hold
  <1>. QED  BY <1>1, <1>2 DEF Known

\* sync announces what it inserts, opens, releases or changes, and the rest was known before.
LEMMA SyncHears == NoticesInv /\ SyncAndList => HearingInv'
  <1>. SUFFICES ASSUME NoticesInv, SyncAndList PROVE HearingInv'
    OBVIOUS
  <1>0. scan \in Scan /\ SyncWrite
    BY DEF NoticesInv, TriageInv, TypeOK, SyncAndList
  <1>1. /\ scan'.trouble = scan.trouble /\ scan'.found = scan.found /\ scan'.incident = scan.incident
        /\ pc' = IF scan.incident # {} THEN "log" ELSE "earlier"
    BY <1>0 DEF SyncWrite, Scan
  <1>2. Hold' = Hold /\ FoundKeys' = FoundKeys
    BY <1>1 DEF Hold, FoundKeys, KbDown
  <1>3. \A k \in FoundKeys :
          k \in CaseKey /\ ThisWeek(k) /\ FoundRecords(k) \subseteq Record /\ (~Incident(k) => FoundRecords(k) # {})
    BY FoundCases DEF NoticesInv, TriageInv
  <1>4. Fresh \subseteq FoundKeys /\ Fresh \subseteq Announced /\ Announced \subseteq FoundKeys
    BY DEF Fresh, Announced
  <1>5. \A k \in FoundKeys : ~Incident(k) => scan.incident = {}
    BY <1>3 DEF NoticesInv, HearingInv, IncidentScan, FoundRecords
  <1>6. HeardInv'
    <2>. SUFFICES ASSUME NEW k \in CaseKey, Concerns(k), Pressing(k)' PROVE Known(k)'
      BY DEF HeardInv, Concerns, ThisWeek, Incident
    <2>. DEFINE row == scan.rows[k]
                event == Event(row, FoundRecords(k))
    <2>1. CASE k \in FoundKeys /\ row.status = "none"
      <3>1. cases'[k] = Inserted(k)
        BY <1>0, <2>1, Synced
      <3>2. Inserted(k).decision = "none" /\ Inserted(k).status \in {"open", "escalated"} /\ Inserted(k).deadline => ~Hold
        BY BlankRows DEF Inserted, Absent, NewDeadline, Case
      <3>3. Inserted(k).status # "escalated"
        BY BlankRows DEF Inserted, Absent, Case
      <3>4. ~Hold /\ cases'[k].decision = "none"
        BY <3>1, <3>2, <3>3 DEF Pressing
      <3>. QED  BY <1>1, <1>4, <2>1, <3>4, ListedIsKnown DEF Fresh
    <2>2. CASE k \in FoundKeys /\ row.status # "none" /\ event = "reopened"
      <3>1. ~Hold /\ cases'[k].decision = "none"
        BY <1>0, <2>2, Synced DEF Pressing
      <3>. QED  BY <1>1, <1>4, <2>2, <3>1, ListedIsKnown DEF Fresh
    <2>3. CASE k \in FoundKeys /\ row.status # "none" /\ event = "released"
      <3>1. ~Hold /\ cases'[k].decision = "none"
        BY <1>0, <2>3, Synced DEF Pressing, Event
      <3>2. k \in Announced
        BY <1>5, <2>3 DEF Announced, Concerns
      <3>. QED  BY <1>1, <3>1, <3>2, ListedIsKnown
    <2>4. CASE k \in FoundKeys /\ row.status # "none" /\ event \notin {"reopened", "released"}
      <3>1. /\ cases'[k].status = row.status /\ cases'[k].deadline = cases[k].deadline
            /\ cases'[k].decision = cases[k].decision /\ cases'[k].owner = cases[k].owner
        BY <1>0, <2>4, Synced
      <3>2. k \notin Fresh
        BY <2>4 DEF Fresh
      <3>. QED  BY <3>1, <3>2, KeptIsKnown DEF Pressing
    <2>5. CASE k \notin FoundKeys
      <3>1. cases'[k] = cases[k]
        BY <1>0, <2>5, Synced DEF Pressing
      <3>2. k \notin Fresh /\ Known(k)
        BY <1>4, <2>5, <3>1 DEF NoticesInv, HearingInv, HeardInv, Pressing
      <3>. QED  BY <3>1, <3>2, KnownThroughSync
    <2>. QED  BY <2>1, <2>2, <2>3, <2>4, <2>5
  <1>7. SyncedInv'
    <2>. SUFFICES ASSUME NEW k \in FoundKeys, ~Hold, scan.incident = {}, Waits(k)' PROVE Known(k)'
      BY <1>1, <1>2 DEF SyncedInv
    <2>. DEFINE row == scan.rows[k]
                event == Event(row, FoundRecords(k))
    <2>0. k \in CaseKey /\ Concerns(k) /\ cases'[k].status = "open" /\ cases'[k].decision = "none"
      BY WeekFound DEF Waits
    <2>1. CASE k \in Announced
      BY <1>1, <2>0, <2>1, ListedIsKnown
    <2>2. CASE k \notin Announced
      <3>1. row.status # "none" /\ event = "unchanged"
        BY <2>2 DEF Announced
      <3>2. row.status = "open" /\ cases[k].decision = "none" /\ cases'[k].owner = cases[k].owner
        BY <1>0, <2>0, <3>1, Synced
      <3>3. row.deadline
        BY <3>1, <3>2 DEF Event
      <3>. QED  BY <1>4, <2>0, <2>2, <3>2, <3>3, KeptIsKnown
    <2>. QED  BY <2>1, <2>2
  <1>8. RowsAsRead'
    BY <1>1 DEF RowsAsRead
  <1>9. IncidentScan'
    <2>1. ASSUME scan.incident # {}, NEW x \in to_tell' PROVE Incident(x[1])
      BY <1>4, <1>5, <2>1 DEF SyncAndList
    <2>. QED  BY <1>1, <2>1 DEF NoticesInv, HearingInv, IncidentScan, Incident
  <1>. QED  BY <1>6, <1>7, <1>8, <1>9 DEF HearingInv

\* A case is decided, or it stays undecided and known; if it is escalated now, it is known.
StaysKnown(k) ==
    cases'[k].decision = "none" =>
       /\ cases[k].decision = "none" /\ (Known(k) => Known(k)')
       /\ \/ cases'[k].status = cases[k].status /\ cases'[k].deadline = cases[k].deadline
          \/ cases'[k].status = "escalated" /\ Known(k)'

\* Steps of others leave the scan alone, and no case unknown.
LEMMA OthersHear ==
    ASSUME NoticesInv, UNCHANGED <<pc, scan>>, \A k \in CaseKey : Concerns(k) => StaysKnown(k),
           scan.incident = {} \/ to_tell' \subseteq to_tell
    PROVE  HearingInv'
  <1>1. HeardInv'
    BY DEF NoticesInv, HearingInv, HeardInv, StaysKnown, Pressing, Concerns, ThisWeek, Incident
  <1>2. SyncedInv'
    <2>1. FoundKeys' = FoundKeys /\ Hold' = Hold
      BY DEF FoundKeys, KbDown, Hold
    <2>2. pc \in {"earlier", "auto", "model"} => \A k \in FoundKeys : k \in CaseKey /\ Concerns(k)
      BY WeekFound DEF NoticesInv, HearingInv, IncidentScan
    <2>. QED  BY <2>1, <2>2 DEF NoticesInv, HearingInv, SyncedInv, StaysKnown, Waits
  <1>3. IncidentScan'
    BY DEF NoticesInv, HearingInv, IncidentScan, Incident
  <1>4. RowsAsRead'
    BY DEF NoticesInv, HearingInv, RowsAsRead, StaysKnown, Concerns, ThisWeek, Incident
  <1>. QED  BY <1>1, <1>2, <1>3, <1>4 DEF HearingInv

\* Messages move cases from the lists to what teams were told, or are lost with their sweep.
LEMMA MessagesHear ==
    NoticesInv /\ ((\E team \in Owner \cup {DataPlatform} : Tell(team)) \/ (\E team \in Owner : Page(team)) \/ SweepDies)
    => HearingInv'
  <1>. SUFFICES ASSUME NoticesInv,
                       (\E team \in Owner \cup {DataPlatform} : Tell(team)) \/ (\E team \in Owner : Page(team)) \/ SweepDies
                PROVE  HearingInv'
    OBVIOUS
  <1>1. UNCHANGED vars
    BY DEF Tell, Page, SweepDies
  <1>2. to_tell' \subseteq to_tell /\ UNCHANGED <<pc, scan, cases>> /\ Hold' = Hold
    BY <1>1 DEF Tell, Page, SweepDies, vars, Hold
  <1>3. ASSUME NEW k \in CaseKey, Concerns(k), Known(k) PROVE Known(k)'
    <2>. DEFINE mine == <<k, cases[k].owner>>
    <2>0. mine[1] = k /\ mine[2] = cases[k].owner /\ (scan.incident # {} => mine \notin to_tell)
      BY <1>3 DEF NoticesInv, HearingInv, IncidentScan, Concerns
    <2>. HIDE DEF mine
    <2>1. CASE k \in untold \/ (\E x \in unpaged : x[1] = k) \/ mine \in told
      BY <1>2, <2>1 DEF Tell, Page, SweepDies, Known, mine
    <2>2. CASE mine \in to_page
      <3>1. mine \in to_page' \/ mine \in told' \/ mine \in unpaged'
        BY <2>2 DEF Tell, Page, SweepDies
      <3>. QED  BY <1>2, <2>0, <3>1 DEF Known, mine
    <2>3. CASE mine \in to_tell /\ ~Hold
      <3>1. scan.incident = {}
        BY <2>0, <2>3
      <3>2. ASSUME NEW team \in Owner \cup {DataPlatform}, Tell(team), mine \notin to_tell' PROVE mine \in told'
        <4>1. mine[2] = team /\ <<mine[1], team>> \in told'
          BY <2>3, <3>1, <3>2 DEF Tell
        <4>. QED  BY <2>0, <4>1 DEF mine
      <3>3. mine \in to_tell' \/ mine \in told'
        BY <2>3, <3>2 DEF Page, SweepDies
      <3>. QED  BY <1>2, <2>3, <3>3 DEF Known, mine
    <2>. QED  BY <1>3, <2>1, <2>2, <2>3 DEF Known, mine
  <1>4. \A k \in CaseKey : Concerns(k) => StaysKnown(k)
    BY <1>2, <1>3 DEF StaysKnown
  <1>. QED  BY <1>2, <1>4, OthersHear

\* A proposal replaces the case's row in the announcement by the one with its new owner.
LEMMA ProposalHears == ASSUME NEW k \in CaseKey PROVE NoticesInv /\ ProposeAndList(k) => HearingInv'
  <1>. SUFFICES ASSUME NoticesInv, ProposeAndList(k) PROVE HearingInv'
    OBVIOUS
  <1>0. scan \in Scan /\ cases \in [CaseKey -> Case] /\ pc = "model" /\ pc' = pc
    BY DEF NoticesInv, TriageInv, TypeOK, ProposeAndList, SaveProposal
  <1>1. /\ scan'.trouble = scan.trouble /\ scan'.found = scan.found
        /\ scan'.incident = scan.incident /\ scan.incident = {}
    BY <1>0 DEF ProposeAndList, SaveProposal, Scan, NoticesInv, HearingInv, IncidentScan
  <1>2. Hold' = Hold /\ FoundKeys' = FoundKeys
    BY <1>1 DEF Hold, FoundKeys, KbDown
  <1>3. \A i \in CaseKey : /\ cases'[i].status = cases[i].status /\ cases'[i].deadline = cases[i].deadline
                           /\ cases'[i].decision = cases[i].decision
                           /\ i # k \/ Hold => cases'[i].owner = cases[i].owner
    BY <1>0 DEF ProposeAndList, SaveProposal, Case
  <1>4. UNCHANGED <<told, to_page, untold, unpaged>> /\ <<k, cases'[k].owner>> \in to_tell'
    BY DEF ProposeAndList, Relisted
  <1>5. \A i \in CaseKey : i # k /\ <<i, cases[i].owner>> \in to_tell => <<i, cases[i].owner>> \in to_tell'
    BY DEF ProposeAndList, Relisted
  <1>6. \A i \in CaseKey : Known(i) => Known(i)'
    BY <1>2, <1>3, <1>4, <1>5 DEF Known
  <1>7. HeardInv'
    BY <1>3, <1>6 DEF NoticesInv, HearingInv, HeardInv, Pressing, Concerns, ThisWeek, Incident
  <1>8. SyncedInv'
    <2>1. \A i \in FoundKeys : i \in CaseKey
      BY <1>1, WeekFound
    <2>. QED  BY <1>0, <1>2, <1>3, <1>6, <2>1 DEF NoticesInv, HearingInv, SyncedInv, Waits
  <1>9. RowsAsRead' /\ IncidentScan'
    BY <1>0, <1>1 DEF RowsAsRead, IncidentScan
  <1>. QED  BY <1>7, <1>8, <1>9 DEF HearingInv

\* The sweep lists every case that it escalates.
LEMMA SweepHears == ASSUME NEW late \in SUBSET Due PROVE NoticesInv /\ SweepAndList(late) => HearingInv'
  <1>. SUFFICES ASSUME NoticesInv, SweepAndList(late) PROVE HearingInv'
    OBVIOUS
  <1>0. cases \in [CaseKey -> Case] /\ late \subseteq CaseKey
    BY DEF NoticesInv, TriageInv, TypeOK, Due
  <1>1. UNCHANGED <<pc, scan, told, to_tell, untold, unpaged>> /\ to_page = {} /\ Hold' = Hold
    BY DEF SweepAndList, Sweep, scanner, Hold
  <1>2. \A k \in late : /\ cases'[k].status = "escalated" /\ cases'[k].decision = cases[k].decision
                        /\ <<k, cases'[k].owner>> \in to_page'
    BY <1>0 DEF SweepAndList, Sweep, Case
  <1>3. \A k \in CaseKey \ late : cases'[k] = cases[k]
    BY <1>0 DEF SweepAndList, Sweep
  <1>4. \A k \in late : StaysKnown(k)
    BY <1>2 DEF StaysKnown, Known
  <1>5. \A k \in CaseKey \ late : StaysKnown(k)
    BY <1>1, <1>3 DEF StaysKnown, Known
  <1>. QED  BY <1>1, <1>4, <1>5, OthersHear

\* What people do leaves a case alone or decides it; what fails in the week touches none.
LEMMA PeopleHear ==
    NoticesInv /\ ((\E u \in Person : PersonStep(u)) \/ WeekChanges) /\ UNCHANGED notices => HearingInv'
  <1>. SUFFICES ASSUME NoticesInv, (\E u \in Person : PersonStep(u)) \/ WeekChanges, UNCHANGED notices PROVE HearingInv'
    OBVIOUS
  <1>0. cases \in [CaseKey -> Case] /\ \A u \in Person : request[u].op # "none" => request[u].key \in CaseKey
    BY DEF NoticesInv, TriageInv, TypeOK, RequestInv
  <1>1. UNCHANGED <<pc, scan>>
    BY DEF PersonStep, FinishRequest, AcceptDecide, AcceptFinding, AcceptCommit, WaiveDecide, AcceptFails,
       ConfirmFinding, ResolveFinding, AcceptRead, WaiveRead, Reject, WeekChanges, Begin, scanner
  <1>2. \A k \in CaseKey : cases'[k] = cases[k] \/ cases'[k].decision # "none"
    <2>1. ASSUME NEW u \in Person, AcceptCommit(u) \/ WaiveDecide(u), NEW k \in CaseKey
          PROVE  cases'[k] = cases[k] \/ cases'[k].decision # "none"
      BY <1>0, <2>1 DEF AcceptCommit, WaiveDecide, Case
    <2>2. ASSUME NEW u \in Person, NEW i \in CaseKey, Reject(u, i), NEW k \in CaseKey
          PROVE  cases'[k] = cases[k] \/ cases'[k].decision # "none"
      <3>1. cases[i] \in Case /\ i \in DOMAIN cases
        BY <1>0
      <3>2. k # i => cases'[k] = cases[k]
        BY <1>0, <2>2 DEF Reject
      <3>3. cases'[i].decision \in {"wrong_cause", "wrong_owner", "action_refused"}
        BY <2>2, <3>1 DEF Reject, Case
      <3>. QED  BY <3>2, <3>3
    <2>. QED  BY <2>1, <2>2 DEF PersonStep, FinishRequest, AcceptDecide, AcceptFinding, AcceptFails,
                 ConfirmFinding, ResolveFinding, AcceptRead, WaiveRead, WeekChanges
  <1>3. \A k \in CaseKey : StaysKnown(k)
    BY <1>1, <1>2 DEF StaysKnown, Known, Hold, notices
  <1>4. to_tell' \subseteq to_tell
    BY DEF notices
  <1>. QED  BY <1>1, <1>3, <1>4, OthersHear

\* Nothing happens: everything stays as it is.
LEMMA NobodyHears == NoticesInv /\ UNCHANGED nvars => HearingInv'
  <1>. SUFFICES ASSUME NoticesInv, UNCHANGED nvars PROVE HearingInv'
    OBVIOUS
  <1>1. UNCHANGED <<cases, pc, scan, told, to_tell, to_page, untold, unpaged>>
    BY DEF nvars, vars, notices
  <1>2. \A k \in CaseKey : StaysKnown(k)
    BY <1>1 DEF StaysKnown, Known, Hold
  <1>. QED  BY <1>1, <1>2, OthersHear

\* Every step keeps every pressing case known.
LEMMA NoticesNextInv == NoticesInv /\ [NoticesNext]_nvars => NoticesInv'
  <1>. SUFFICES ASSUME NoticesInv, [NoticesNext]_nvars PROVE NoticesInv'
    OBVIOUS
  <1>1. TriageInv'
    BY NoticesStep, TriageNextInv DEF NoticesInv
  <1>2. NoticesTypeOK'
    BY <1>1, NoticesTypeStep DEF NoticesInv
  <1>3. HearingInv'
    <2>1. CASE ScanAndTell
      BY <2>1, ReadsHear, EndsHear, SyncHears, ProposalHears, MessagesHear DEF ScanAndTell
    <2>2. CASE DiesNotified \/ (NoUsableWeek /\ UNCHANGED notices)
      BY <2>2, EndsHear
    <2>3. CASE \E late \in SUBSET Due : SweepAndList(late)
      BY <2>3, SweepHears
    <2>4. CASE (\E team \in Owner : Page(team)) \/ SweepDies
      BY <2>4, MessagesHear
    <2>5. CASE ((\E u \in Person : PersonStep(u)) \/ WeekChanges) /\ UNCHANGED notices
      BY <2>5, PeopleHear
    <2>6. CASE UNCHANGED nvars
      BY <2>6, NobodyHears
    <2>. QED  BY <2>1, <2>2, <2>3, <2>4, <2>5, <2>6 DEF NoticesNext
  <1>. QED  BY <1>1, <1>2, <1>3 DEF NoticesInv

\* No case of this week waits at the beginning.
LEMMA NoticesInitInv == NoticesInit => NoticesInv
  <1>. SUFFICES ASSUME NoticesInit PROVE NoticesInv
    OBVIOUS
  <1>1. TriageInv /\ NoticesTypeOK
    BY TriageInitInv DEF NoticesInit, NoticesTypeOK
  <1>2. \A k \in CaseKey : ThisWeek(k) => cases[k].status = "none"
    BY DEF NoticesInit, Init, Absent
  <1>3. HeardInv
    BY <1>2 DEF HeardInv, Concerns, Pressing
  <1>4. RowsAsRead /\ SyncedInv /\ IncidentScan
    BY DEF NoticesInit, Init, NoScan, RowsAsRead, SyncedInv, IncidentScan
  <1>. QED  BY <1>1, <1>3, <1>4 DEF NoticesInv, HearingInv

\* Owners hear about what is left, whatever scans, people, sweeps and crashes come between: when a
\* normal scan ends, the owner of every undisturbed undecided case that it found has been told of it.
THEOREM NoticesOwnersHear == NoticesSpec => OwnersHear
  <1>1. ASSUME NoticesInv, EndNotified, scan.incident = {}, ~Hold, NEW k \in FoundKeys, Undisturbed(k)
        PROVE  <<k, cases[k].owner>> \in told
    <2>1. pc = "model" /\ to_tell = {}
      BY <1>1 DEF EndNotified, EndScan, NoticesInv, HearingInv, IncidentScan
    <2>2. Known(k)
      BY <1>1, <2>1 DEF NoticesInv, HearingInv, SyncedInv, Undisturbed
    <2>3. <<k, cases[k].owner>>[1] = k
      OBVIOUS
    <2>. QED  BY <1>1, <2>1, <2>2, <2>3 DEF Known, Undisturbed
  <1>2. NoticesInv /\ [NoticesNext]_nvars =>
          [EndNotified /\ scan.incident = {} /\ ~Hold =>
              \A k \in FoundKeys : Undisturbed(k) => <<k, cases[k].owner>> \in told]_nvars
    BY <1>1
  <1>. QED  BY <1>2, NoticesInitInv, NoticesNextInv, PTL DEF NoticesSpec, OwnersHear

=============================================================================
