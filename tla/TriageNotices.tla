---------------------------- MODULE TriageNotices ----------------------------
(***************************************************************************)
(* Who is told of a triage case.  The scan sends one digest per team, or   *)
(* one incident message, after it has committed its cases                  *)
(* (jobs/weekly_triage/scan.py); the sweep tells the teams of the cases it *)
(* has escalated (run_sweep).  Each message is a transaction of its own    *)
(* (notify in services/diagnostic_api/triage_store.py).                    *)
(*                                                                         *)
(* The steps of module TriageCases go on as they are; this module adds     *)
(* what they hand to the messages, and the messages.  One sweep runs at a  *)
(* time.  A message counts for a case until the case is opened again.      *)
(***************************************************************************)
EXTENDS TriageCases

CONSTANT DataPlatform      \* the team that is told of incidents

VARIABLES
    told,          \* triage_notifications: <<case, team>>
    to_tell,       \* the scan: the cases to announce, with the owner they will be announced to
    to_page,       \* the sweep: the cases it escalated, with their owner
    untold,        \* cases whose announcement a dying scan took with it
    unpaged        \* escalations that a dying sweep took with it (bound: one sweep dies)

notices == <<told, to_tell, to_page, untold, unpaged>>
nvars == <<vars, notices>>

Addressed == CaseKey \X Owner
MessagesOf(k) == {k} \X (Owner \cup {DataPlatform})

NoticesInit ==
    /\ Init
    /\ told = {} /\ to_tell = {} /\ to_page = {} /\ untold = {} /\ unpaged = {}

------------------------------------------------------------------------------
(* The scan *)

\* NOTIFIED: new, changed, reopened, and released counts as changed; of an incident new and reopened.
Announced ==
    IF scan.incident # {} THEN Fresh
    ELSE {k \in FoundKeys : scan.rows[k].status = "none" \/ Event(scan.rows[k], FoundRecords(k)) # "unchanged"}

\* sync returns the rows as it wrote them; those a known finding covers stay quiet.
SyncAndList ==
    /\ SyncWrite
    /\ to_tell' = {<<k, cases'[k].owner>> : k \in {x \in Announced : cases'[x].decision # "known_finding"}}
    /\ told' = told \ UNION {MessagesOf(k) : k \in Fresh}
    /\ untold' = untold \ Fresh
    /\ UNCHANGED <<to_page, unpaged>>

\* MUTANT: the announcement keeps the owner the case had when it was synced.
Relisted_AsSynced(k) == to_tell
\* The proposal's row replaces the one of sync, with the owner the case has by now.
Relisted(k) == {x \in to_tell : x[1] # k} \cup {<<k, cases'[k].owner>>}

ProposeAndList(k) ==
    /\ SaveProposal(k)
    /\ to_tell' = Relisted(k)
    /\ UNCHANGED <<told, to_page, untold, unpaged>>

\* One message to Data Platform for an incident or a mass failure, otherwise one digest to a team.
Listening == pc = "log" \/ (pc = "model" /\ scan.pending = {})
Tell(team) ==
    /\ Listening
    /\ LET all == scan.incident # {} \/ Hold
           mine == {x \in to_tell : all \/ x[2] = team}
       IN  /\ mine # {} /\ (all => team = DataPlatform)
           /\ told' = told \cup {<<x[1], team>> : x \in mine}
           /\ to_tell' = to_tell \ mine
    /\ UNCHANGED <<vars, to_page, untold, unpaged>>

EndNotified == EndScan /\ to_tell = {} /\ UNCHANGED notices

\* Nobody is told of these cases later, unless they change or their deadline passes.
DiesNotified ==
    /\ ScanDies
    /\ untold' = untold \cup {x[1] : x \in to_tell}
    /\ to_tell' = {}
    /\ UNCHANGED <<told, to_page, unpaged>>

ScanAndTell ==
    \/ (ReadWeek \/ ReadKnown \/ SyncRead \/ ResolveEarlierOutcomes \/ AutoResolve) /\ UNCHANGED notices
    \/ SyncAndList \/ EndNotified
    \/ \E k \in CaseKey : ProposeAndList(k)
    \/ \E team \in Owner \cup {DataPlatform} : Tell(team)

------------------------------------------------------------------------------
(* The sweep *)

SweepAndList(late) ==
    /\ to_page = {}
    /\ Sweep(late)
    /\ to_page' = {<<k, cases'[k].owner>> : k \in late}
    /\ UNCHANGED <<told, to_tell, untold, unpaged>>

\* MUTANT: only the decision owner is told of what was escalated.
Page_DecisionOwnerOnly(team) ==
    /\ \E x \in to_page : x[2] = team
    /\ told' = told \cup {x \in to_page : x[2] = team /\ team = DecisionOwner}
    /\ to_page' = {x \in to_page : x[2] # team}
    /\ UNCHANGED <<vars, to_tell, untold, unpaged>>

Page(team) ==
    /\ \E x \in to_page : x[2] = team
    /\ told' = told \cup {x \in to_page : x[2] = team}
    /\ to_page' = {x \in to_page : x[2] # team}
    /\ UNCHANGED <<vars, to_tell, untold, unpaged>>

SweepDies ==
    /\ to_page # {} /\ unpaged = {}
    /\ unpaged' = to_page
    /\ to_page' = {}
    /\ UNCHANGED <<vars, told, to_tell, untold>>

NoticesNext ==
    \/ ScanAndTell \/ DiesNotified
    \/ \E late \in SUBSET Due : SweepAndList(late)
    \/ \E team \in Owner : Page(team)
    \/ SweepDies
    \/ (NoUsableWeek \/ (\E u \in Person : PersonStep(u)) \/ WeekChanges) /\ UNCHANGED notices

NoticesSpec == NoticesInit /\ [][NoticesNext]_nvars

\* As in FairSpec of TriageCases; a job that has a message to send sends it.  A sweep takes every case
\* that is late, so sweeps do not go on for ever without one that stays due.
FairNotices ==
    /\ NoticesSpec
    /\ WF_nvars(ScanAndTell)
    /\ \A k \in CaseKey : SF_nvars(\E late \in SUBSET Due : k \in late /\ SweepAndList(late))
    /\ \A team \in Owner : WF_nvars(Page(team))
    /\ \A u \in Person : WF_nvars(FinishRequest(u) /\ UNCHANGED notices)

------------------------------------------------------------------------------
(* Properties *)

NoticesTypeOK ==
    /\ told \subseteq CaseKey \X (Owner \cup {DataPlatform})
    /\ to_tell \subseteq Addressed /\ to_page \subseteq Addressed /\ unpaged \subseteq Addressed
    /\ untold \subseteq CaseKey
    /\ pc \in {"idle", "known", "sync", "write"} => to_tell = {}

Waits(k) == cases[k].status = "open" /\ cases[k].decision = "none"
Undisturbed(k) == Waits(k) /\ k \notin untold /\ \A x \in to_page \cup unpaged : x[1] # k

\* Owners hear about what is left: when a normal scan ends, the present owner of every case that it
\* found, that is open and undecided, has been told of it since it was opened, also if the case was
\* held by an incident or its owner was chosen by an investigation.  It is otherwise only if a process
\* died before its messages, or a person or the sweep moved the case on.  (run_triage, _notify_owners)
OwnersHear ==
    [][EndNotified /\ scan.incident = {} /\ ~Hold =>
          \A k \in FoundKeys : Undisturbed(k) => <<k, cases[k].owner>> \in told]_nvars

\* No open case stays unknown: at last a team that owns it has been told since it was opened, by a
\* digest or by the sweep, or it is decided or closed; also if the scan that found it died before it
\* sent anything.  A sweep that dies is the exception (StopsWaitingSilently).  (scan.py:161-170, 241-250)
KnownToAnOwner(k) ==
    \E team \in Owner : <<k, team>> \in told /\ (team = DataPlatform => cases[k].owner = team)
NothingStaysUnknown ==
    \A k \in CaseKey :
        [](unpaged = {}) =>
            (Waits(k) ~> KnownToAnOwner(k) \/ cases[k].decision # "none" \/ cases[k].status \in {"none", "resolved"})

\* "either way it stops waiting silently" (triage_store.py:230): the team of an escalated case is
\* told of it, unless the case has moved on.
StopsWaitingSilently ==
    \A x \in Addressed : x \in to_page ~> x \in told \/ cases[x[1]].status # "escalated"

==============================================================================
