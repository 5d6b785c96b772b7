---------------------------- MODULE Investigation ----------------------------
(***************************************************************************)
(* One outcome case of the weekly triage: the records flagged for a brand  *)
(* (jobs/weekly_triage/scan.py, triage_rules.py), the loop in which the    *)
(* model looks at the sales and submits causes, and the check of what it   *)
(* submits (services/diagnostic_api/investigate.py).  The model may stop,  *)
(* refuse, fail, call tools or submit anything.  What a tool shows it has  *)
(* no effect but on what it submits, so a round of tools is one step.      *)
(***************************************************************************)
EXTENDS SalesOutcome, SequencesExt

CONSTANTS
    Sales,         \* the sales of a week the scan may find
    CauseOwner,    \* CAUSE_OWNERS
    DevelopmentTeam,
    max_steps,     \* model calls per investigation
    MaxCauses      \* bound: causes in one submission

ASSUME InvestigationAssumption ==
    /\ CauseOwner \in [Cause -> STRING] /\ DevelopmentTeam \in STRING
    /\ max_steps \in Nat \ {0} /\ MaxCauses \in Nat
    \* A sales table is finite, its units are counts, and a pack holds at least one unit.
    /\ \A s \in Sales : IsFiniteSet(DOMAIN s.units) /\
          \A k \in DOMAIN s.units : k[2] \in Nat \ {0} /\ s.units[k] \in [0 .. BASELINE_WEEKS -> Nat \cup {NoUnits}]

VARIABLES
    sales,         \* what the sales tables and SAP held for the week
    inv            \* the case and its investigation

ivars == <<sales, inv>>

Skus(records) == {k[1] : k \in records}
\* outcome_cases: a case is a brand's flagged records.
CaseOf(s, b) == {k \in low_sell_through(s) : Brand[k[1]] = b}

\* status: "none" before the loop ends.
NoInvestigation == [status |-> "none", records |-> {}, step |-> 0, causes |-> <<>>, owner |-> DevelopmentTeam]

InvestigationInit ==
    /\ sales \in Sales
    /\ \E b \in {Brand[k[1]] : k \in low_sell_through(sales)} :
          inv = [NoInvestigation EXCEPT !.records = CaseOf(sales, b), !.step = 1]

------------------------------------------------------------------------------
(* investigate *)

\* A submission: causes in their order of importance, each with the products it names.
Submission == UNION {[1 .. n -> [cause : Cause \cup {"OTHER"}, skus : SUBSET Skus(DOMAIN sales.units)]] : n \in 0 .. MaxCauses}
Named(submitted) == UNION {submitted[n].skus : n \in DOMAIN submitted}

\* MUTANT: the signals of the products the submission names.
Wanted_NamedOnly(records, submitted) == Named(submitted)
Wanted(records, submitted) == Skus(records) \cup Named(submitted)

\* _check: a cause stands for the flagged products that code finds its signal on, or not at all.
_check(records, submitted) ==
    LET signals == supported_signals(sales, Wanted(records, submitted))
        hits(c) == IF c.cause = "OTHER" THEN {} ELSE Skus(signals[c.cause])
        kept(c) == [c EXCEPT !.skus = @ \cap hits(c) \cap Skus(records)]
        all == [n \in DOMAIN submitted |-> kept(submitted[n])]
    IN  FoldLeft(LAMBDA causes, c : IF c.skus = {} THEN causes ELSE Append(causes, c), <<>>, all)

\* _proposal_from: the first confirmed cause decides the owner.
OwnerOf(causes) == IF causes = <<>> THEN DevelopmentTeam ELSE CauseOwner[causes[1].cause]

Running == inv.status = "none"
Saved(status, causes) == inv' = [inv EXCEPT !.status = status, !.causes = causes, !.owner = OwnerOf(causes)]

\* The model submits, at any step, or does not answer the request.
Submit ==
    /\ Running
    /\ \E submitted \in Submission : Saved("submitted", _check(inv.records, submitted))
    /\ UNCHANGED sales

Refuse == Running /\ Saved("refused", <<>>) /\ UNCHANGED sales

\* An exception: the case keeps its owner (_llm_steps).
LlmFails == Running /\ inv' = [inv EXCEPT !.status = "failed"] /\ UNCHANGED sales

\* It calls tools, or says something; the last step must submit.
Looks ==
    /\ Running
    /\ IF inv.step = max_steps THEN Saved("step_limit", <<>>) ELSE inv' = [inv EXCEPT !.step = @ + 1]
    /\ UNCHANGED sales

InvestigationNext == Submit \/ Refuse \/ LlmFails \/ Looks
InvestigationSpec == InvestigationInit /\ [][InvestigationNext]_ivars

------------------------------------------------------------------------------
(* Properties *)

\* The model can leave evidence out, never create it: a confirmed cause names flagged products only,
\* and the sales of the case's own products support it, whatever else the submission named.
EvidenceIsTheCases ==
    \A n \in DOMAIN inv.causes :
        LET c == inv.causes[n]
        IN  c.skus \subseteq Skus(inv.records) \cap Skus(supported_signals(sales, Skus(inv.records))[c.cause])

==============================================================================
