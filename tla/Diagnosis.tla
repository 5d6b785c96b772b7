------------------------------ MODULE Diagnosis ------------------------------
(***************************************************************************)
(* The verdict on a price (services/diagnostic_api/core.py) and what       *)
(* changed between two checks (state.py).  A view is what a diagnosis is   *)
(* computed from: the week's list, the engine's rows with SAP's answers,   *)
(* the items whose price breaks a rule of the week (PricingEngine) and the *)
(* conditions SAP holds.  Prices are compared, never shown: a condition is *)
(* ours, another price, or ours and overridden.  Ours is the price SAP     *)
(* accepted of the row; a row that is priced again starts UNSENT.          *)
(***************************************************************************)
EXTENDS Naturals

CONSTANTS Sku, Pack, Region,
          NoPack           \* the pack of a verdict on a product that is not on the list

Item == Sku \X Pack \X Region
Record == Item \cup (Sku \X {NoPack} \X Region)

RowStatus == {"SKIPPED", "UNSENT", "REJECTED", "ERROR", "ACCEPTED"}
Held == {"other", "overridden", "ours"}
\* The functions from a part of S to T.
Partial(S, T) == UNION {[D -> T] : D \in SUBSET S}
View == [listed : SUBSET Item, rows : Partial(Item, RowStatus), breaks : SUBSET Item, held : Partial(Item, Held)]

Is(f, i, value) == i \in DOMAIN f /\ f[i] = value

\* reconcile, for a price that SAP accepted.
reconcile(view, i) ==
    IF i \notin DOMAIN view.held THEN "MISSING_IN_SAP"
    ELSE IF view.held[i] = "other" THEN "PRICE_MISMATCH"
    ELSE IF view.held[i] = "overridden" THEN "NOT_EFFECTIVE"
    ELSE "CONFIRMED"

\* The verdict on a listed item.
NotAccepted == [UNSENT |-> "NOT_SENT", REJECTED |-> "API_REJECTED", ERROR |-> "API_REJECTED"]
verdict(view, i) ==
    IF i \notin DOMAIN view.rows THEN "NO_RECOMMENDATION"
    ELSE IF view.rows[i] = "SKIPPED" THEN "SKIPPED"
    ELSE IF i \in view.breaks THEN "RULE_VIOLATION"
    ELSE IF view.rows[i] \in DOMAIN NotAccepted THEN NotAccepted[view.rows[i]]
    ELSE reconcile(view, i)
OK == "CONFIRMED"
Code == {"NOT_IN_LIST", "NO_RECOMMENDATION", "SKIPPED", "RULE_VIOLATION", "NOT_SENT", "API_REJECTED",
         "MISSING_IN_SAP", "PRICE_MISMATCH", "NOT_EFFECTIVE", "CONFIRMED"}
Failing == Partial(Record, Code)

\* The failing records among some products in some regions, each with its code.
diagnose(view, skus, regions) ==
    LET places == skus \X regions
        listed == {i \in view.listed : <<i[1], i[3]>> \in places}
        absent == {p \in places : \A i \in listed : <<i[1], i[3]>> # p}
        bad    == {i \in listed : verdict(view, i) # OK}
    IN  [x \in bad \cup {<<p[1], NoPack, p[2]>> : p \in absent} |->
            IF x[2] = NoPack THEN "NOT_IN_LIST" ELSE verdict(view, x)]

\* diff_checks: the records that no longer fail, with what was wrong with them.
Resolved(before, now) == {<<x, before[x]>> : x \in DOMAIN before \ DOMAIN now}

\* record_check: the failures of the regions that both checks covered are compared.
In(failing, regions) == [x \in {y \in DOMAIN failing : y[3] \in regions} |-> failing[x]]
\* MUTANT: everything both checks found is compared.
Gone_All(previous, now) == Resolved(previous.failing, now.failing)
Gone(previous, now) ==
    LET common == previous.regions \cap now.regions
    IN  Resolved(In(previous.failing, common), In(now.failing, common))

==============================================================================
