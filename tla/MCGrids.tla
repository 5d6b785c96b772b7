------------------------------- MODULE MCGrids -------------------------------
(***************************************************************************)
(* The algorithms that only compute, on every input of a small grid:       *)
(* pricing, the sales outcome and its investigation, and the knowledge     *)
(* base.  They share no state: while one is run, the others wait.          *)
(***************************************************************************)
EXTENDS PricingEngine, Investigation, Knowledge, TLC

CONSTANTS low_a, low_b, other, riser, drinks, snacks, brand, another

------------------------------------------------------------------------------
(* Pricing: a Single and a 3-pack of one sku in one region, either of which  *)
(* may be missing from the list.                                             *)

Single == [sku |-> "A", qty |-> 1, region |-> "NSW"]
Pack == [sku |-> "A", qty |-> 3, region |-> "NSW"]

\* Shelf prices at which the schedule and the markdown limit fall on half cents and
\* between cents; week 11 is the last within a 50% limit; a current price below the
\* floor, between the bounds and above the schedule.
Cand(shelfs, currents) ==
    [shelf : shelfs, week_no : {1, 3, 11}, current : currents, in_products : {TRUE}]
SingleCands == Cand({11, 30}, {5, 8, 26})
PackCands == Cand({31}, {15, 24, 31})
SingleRules == [floor : {1, 7}, pct : {500, 335}, max_weeks : {10}]
PackRules == [floor : {1, 16}, pct : {500, 335}, max_weeks : {11}]

CandFunctions ==
    {Single :> c : c \in SingleCands} \cup {Pack :> c : c \in PackCands}
    \cup {(Single :> c) @@ (Pack :> d) : c \in SingleCands, d \in PackCands}
    \cup {(Single :> [c EXCEPT !.in_products = FALSE]) @@ (Pack :> d) : c \in SingleCands, d \in PackCands}

RuleFunctions ==
    {(<<"A", 1>> :> r) @@ (<<"A", 3>> :> q) : r \in SingleRules, q \in PackRules}
    \cup {(<<"A", 3>> :> q) : q \in PackRules}
    \cup {(<<"A", 1>> :> r) : r \in SingleRules}

LatestFunctions == {(<<"A", "NSW">> :> 6), [k \in {} |-> 0]}

MCSnapshots == [cand : CandFunctions, rule : RuleFunctions, latest : LatestFunctions]

------------------------------------------------------------------------------
(* Sales: two products that fell, a Single and a 3-pack of the first, one    *)
(* that may have risen under a promotion, and one of another brand.          *)

MCBrand == [x \in {low_a, low_b, riser, other} |-> IF x = other THEN another ELSE brand]
MCCategory == [x \in {low_a, low_b, riser, other} |-> IF x = other THEN snacks ELSE drinks]
Owners == [POS_PRICE_GAP |-> "sap", STOCK_SHORTAGE |-> "merchandising", DISCOUNT_STALLED |-> "science",
           CANNIBALIZATION |-> "promotions", SUBSTITUTION |-> "promotions"]

Records == {<<low_a, 1>>, <<low_a, 3>>, <<low_b, 1>>, <<riser, 1>>, <<other, 1>>}
\* A record that sold base units in the earlier weeks and now in this one.
Weeks(now, base, gap) == [w \in 0 .. 3 |-> IF w = 0 THEN now ELSE IF w = 3 /\ gap THEN NoUnits ELSE base]
Condition(price, effective, source) == [price |-> price, effective |-> effective, source |-> source]
Ours(price) == Condition(price, price, "MARKDOWN")

MCSales ==
    {[units |-> (<<low_a, 1>> :> Weeks(a, 40, gap)) @@ (<<low_a, 3>> :> Weeks(p, 40, FALSE)) @@ (<<low_b, 1>> :> Weeks(b, 60, FALSE))
                @@ (<<riser, 1>> :> Weeks(r, 20, gap)) @@ (<<other, 1>> :> Weeks(0, 30, FALSE)),
      till |-> [k \in Records |-> IF k = <<low_b, 1>> THEN 7 ELSE 5],
      listed |-> Records,
      held |-> (<<low_a, 1>> :> single) @@ (<<low_a, 3>> :> Ours(15)) @@ (<<low_b, 1>> :> Ours(5))
               @@ (<<riser, 1>> :> Condition(5, 4, "PROMOTION")) @@ (<<other, 1>> :> Ours(5)),
      stock |-> (<<low_a, 1>> :> 10) @@ (<<other, 1>> :> 0),
      prices |-> (<<low_b, 1>> :> [w \in {0, 1} |-> IF w = 1 /\ gap THEN NoUnits ELSE 5])] :
        a \in {0, 10, 24, NoUnits}, p \in {0, 30}, b \in {0, 36, 37}, r \in {20, 29, 30, 35}, gap \in BOOLEAN,
        single \in {Ours(5), Condition(5, 3, "PROMOTION")}}

------------------------------------------------------------------------------
(* Knowledge: sections of one and of several paragraphs, a paragraph longer  *)
(* than a chunk, a sentence longer than a chunk, at the start of its         *)
(* paragraph and after another, a repeated paragraph, and sections too short *)
(* to stand alone.  A unit is about 50 characters.                           *)

Lengths == [s1 |-> 2, s2 |-> 12, s3 |-> 9, s4 |-> 5, s5 |-> 14, s6 |-> 13, s7 |-> 3, s8 |-> 50,
            p1 |-> 22, p2 |-> 21, p3 |-> 6]
MCParts == [s \in DOMAIN Lengths |-> IF s = "s8" THEN <<"p1", "p2", "p3">> ELSE <<s>>]
LongText == <<<<"s2">>, <<"s4">>, <<"s3">>, <<"s5", "s6">>>>
Section(name, text) == [name |-> name, text |-> text]
LongBodies == {<<Section("why", <<<<"s7">>>>), Section("do", LongText)>>, <<Section("why", LongText), Section("do", <<<<"s7">>>>)>>}
\* A sentence cut in three: first in its paragraph, and after one that waits.
CutBodies == {<<Section("why", <<<<"s2">>, <<"s8", "s4", "s5">>, <<"s3">>>>)>>}
LateCutBodies == {<<Section("do", <<<<"s4", "s8">>>>)>>}
RepeatingBodies == {<<Section("do", <<<<"s2">>, <<"s2">>, <<"s3">>>>)>>}
ShortBodies == {<<Section("why", LongText), Section("do", <<<<"s1">>>>)>>}
Playbooks == LongBodies \cup ShortBodies
MCBodies == Playbooks \cup RepeatingBodies \cup CutBodies \cup LateCutBodies

------------------------------------------------------------------------------

\* What is being computed.
VARIABLE part

NoSales == [units |-> [k \in {} |-> 0]]
FirstModel == embedder = CHOOSE e \in Embedder : TRUE

PricingWaits == snap = (CHOOSE s \in Snapshots : TRUE) /\ rows = [k \in {} |-> {}] /\ violations = NotChecked
SalesWait == sales = NoSales /\ inv = NoInvestigation

GridInit ==
    \/ part = "pricing" /\ Init /\ SalesWait /\ FirstModel /\ KnowledgeInit
    \/ part = "sales" /\ PricingWaits /\ InvestigationInit /\ FirstModel /\ KnowledgeInit
    \/ part = "knowledge" /\ PricingWaits /\ SalesWait /\ KnowledgeInit

GridNext ==
    /\ \/ part = "pricing" /\ Next /\ UNCHANGED <<ivars, kbvars>>
       \/ part = "sales" /\ InvestigationNext /\ UNCHANGED <<vars, kbvars>>
       \/ part = "knowledge" /\ KnowledgeNext /\ UNCHANGED <<vars, ivars>>
    /\ UNCHANGED part

GridSpec == GridInit /\ [][GridNext]_<<part, vars, ivars, kbvars>>

\* The knowledge base alone.
LibrarySpec == GridInit /\ part = "knowledge" /\ [][GridNext]_<<part, vars, ivars, kbvars>>

==============================================================================
