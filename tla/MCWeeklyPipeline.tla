-------------------------- MODULE MCWeeklyPipeline --------------------------
(***************************************************************************)
(* WeeklyPipeline with the prices and gate verdicts of the real engine: a  *)
(* Single and a 3-pack, and two versions of SAP's list.                    *)
(***************************************************************************)
EXTENDS WeeklyPipeline, TLC

CONSTANTS p1, p2, r1, r2

Engine == INSTANCE PricingEngine WITH
    Snapshots <- {}, snap <- 0, rows <- 0, violations <- 0

Single == [sku |-> "A", qty |-> 1, region |-> "NSW"]
Pack == [sku |-> "A", qty |-> 3, region |-> "NSW"]
MCItem == {Single, Pack}
MCOrder == (Single :> 1) @@ (Pack :> 2)

Cand(shelf, current) == [shelf |-> shelf, week_no |-> 3, current |-> current, in_products |-> TRUE]
Rule(floor) == [floor |-> floor, pct |-> 500, max_weeks |-> 10]

\* On "revised" the Single has left the list and the floor of the pack was raised.
MCList == {"first", "revised"}
Snapshot ==
    ("first" :> [cand |-> (Single :> Cand(30, 29)) @@ (Pack :> Cand(95, 90)),
                 rule |-> (<<"A", 1>> :> Rule(10)) @@ (<<"A", 3>> :> Rule(20)),
                 latest |-> (<<"A", "NSW">> :> 29)])
    @@ ("revised" :> [cand |-> (Pack :> Cand(95, 90)),
                      rule |-> (<<"A", 3>> :> Rule(89)),
                      latest |-> (<<"A", "NSW">> :> 29)])

MCListed == [l \in MCList |-> DOMAIN Snapshot[l].cand]

SingleRows(s) == [k \in DOMAIN s.cand \ {Pack} |-> Engine!EngineRow(s, <<>>, k)]
Rows == [l \in MCList |-> [k \in MCListed[l] |-> Engine!EngineRow(Snapshot[l], SingleRows(Snapshot[l]), k)]]

MCOffer == [l \in MCList |-> [i \in MCItem |->
    IF i \in MCListed[l] /\ Engine!Priced(Rows[l][i]) THEN Rows[l][i].price ELSE NoPrice]]

\* The gate checks the rows of one list against the rules of another.
MixedSnapshot(l, m) == [Snapshot[l] EXCEPT !.rule = Snapshot[m].rule]
MCGateBlocks == {lm \in MCList \X MCList :
    LET v == Engine!validate_rows(MixedSnapshot(lm[1], lm[2]), Rows[lm[1]]) IN
    \E k \in DOMAIN v : v[k] # {}}

MCPrice == {MCOffer[l][i] : l \in MCList, i \in MCItem} \ {NoPrice}

==============================================================================
