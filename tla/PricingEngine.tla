---------------------------- MODULE PricingEngine ----------------------------
(***************************************************************************)
(* One week's pricing: the engine that prices every candidate row          *)
(* (jobs/pricing_engine/engine.py) and the independent pre-send gate       *)
(* (jobs/weekly_pipeline/validate.py).                                     *)
(*                                                                         *)
(* A snapshot is what the engine reads from the warehouse:                 *)
(*   cand    candidate rows by key [sku, qty, region]                      *)
(*   rule    SAP's rules by <<sku, qty>>                                   *)
(*   latest  the last known price of a Single by <<sku, region>>           *)
(* A row's inventory warning changes no price and is left out.             *)
(***************************************************************************)
EXTENDS PricingRules

CONSTANT Snapshots       \* the snapshots the engine may be run on

\* Week numbers, pack sizes and prices are positive.
ASSUME SnapshotsAssumption ==
    \A s \in Snapshots :
        /\ \A k \in DOMAIN s.cand :
              /\ k = [sku |-> k.sku, qty |-> k.qty, region |-> k.region]
              /\ k.qty \in Nat \ {0}
              /\ s.cand[k].shelf \in Nat /\ s.cand[k].week_no \in Nat /\ s.cand[k].current \in Nat \ {0}
              /\ s.cand[k].in_products \in BOOLEAN
        /\ \A x \in DOMAIN s.rule :
              /\ s.rule[x].floor \in Nat \ {0} /\ s.rule[x].pct \in Nat
              /\ s.rule[x].max_weeks \in Nat
        /\ \A x \in DOMAIN s.latest : s.latest[x] \in Nat \ {0}

VARIABLES
    snap,                \* the snapshot of this run
    rows,                \* engine rows so far, by key
    violations           \* result of the gate: the codes of each priced row

vars == <<snap, rows, violations>>

Priced(row) == row.status = "PRICED"

SingleOf(k) == [k EXCEPT !.qty = 1]
RuleKey(k) == <<k.sku, k.qty>>

\* The Single's price a multipack is held against: priced in this run, else its current
\* price if it is on the list, else its latest known price, else none.
LadderReference(s, done, k) ==
    LET single == SingleOf(k) IN
    IF single \in DOMAIN done /\ Priced(done[single]) THEN done[single].price
    ELSE IF single \in DOMAIN s.cand THEN s.cand[single].current
    ELSE IF <<k.sku, k.region>> \in DOMAIN s.latest THEN s.latest[<<k.sku, k.region>>]
    ELSE None

Ladder(s, done, k) == IF k.qty > 1 THEN k.qty * LadderReference(s, done, k) ELSE None

Skipped(reason) == [status |-> "SKIPPED", price |-> None, reason |-> reason]

\* The engine row of candidate k, given the rows done before it.
EngineRow(s, done, k) ==
    LET c == s.cand[k]
        rule == s.rule[RuleKey(k)]
        res == recommend(c.shelf, c.week_no, c.current, rule.floor, rule.pct, Ladder(s, done, k))
    IN  IF ~ c.in_products THEN Skipped("NOT_IN_PRODUCTS")
        ELSE IF RuleKey(k) \notin DOMAIN s.rule THEN Skipped("MISSING_RULE")
        ELSE IF c.week_no > rule.max_weeks THEN Skipped("EXCEEDED_MAX_WEEKS")
        ELSE IF res.error # "NONE" THEN Skipped(res.error)
        ELSE [status |-> "PRICED", price |-> res.price, reason |-> "NONE"]

Remaining == DOMAIN snap.cand \ DOMAIN rows

\* Mutant of PriceRow: the candidates are not sorted.
PriceRow_Unsorted(k) ==
    /\ k \in Remaining
    /\ rows' = [j \in DOMAIN rows \cup {k} |->
                   IF j = k THEN EngineRow(snap, rows, k) ELSE rows[j]]
    /\ UNCHANGED <<snap, violations>>

\* price_week's loop: Singles first; the order among the rest changes nothing.
PriceRow(k) ==
    /\ k \in Remaining
    /\ k.qty > 1 => \A j \in Remaining : j.qty > 1
    /\ rows' = [j \in DOMAIN rows \cup {k} |->
                   IF j = k THEN EngineRow(snap, rows, k) ELSE rows[j]]
    /\ UNCHANGED <<snap, violations>>

------------------------------------------------------------------------------
(* The gate                                                                *)

\* The Single's price as the gate sees it: it does not look at the price history.
GateReference(s, done, k) ==
    LET single == SingleOf(k) IN
    IF single \notin DOMAIN done THEN None
    ELSE IF Priced(done[single]) THEN done[single].price ELSE s.cand[single].current

\* Codes of the rules that price p breaks for row k; half a cent of tolerance on the
\* markdown limit and on the ladder, which is less than one cent on whole cents.
BrokenRules(s, done, k, p) ==
    LET c == s.cand[k]
        known == RuleKey(k) \in DOMAIN s.rule
        rule == s.rule[RuleKey(k)]
        ref == GateReference(s, done, k)
    IN  IF p <= 0 THEN {"BAD_PRICE_FORMAT"}
        ELSE {code \in {"PRICE_ABOVE_LAST_WEEK"} : p > c.current}
             \cup {code \in {"MISSING_RULE"} : ~ known}
             \cup {code \in {"BELOW_FLOOR"} : known /\ p < rule.floor}
             \cup {code \in {"BELOW_MAX_MARKDOWN"} : known /\ 1000 * p < c.shelf * (1000 - rule.pct) - 500}
             \cup {code \in {"EXCEEDS_MAX_WEEKS"} : known /\ c.week_no > rule.max_weeks}
             \cup {code \in {"LADDER_VIOLATION"} :
                      known /\ k.qty > 1 /\ ref # None /\ p < k.qty * ref}

\* validate_rows: codes per row; skipped rows are not checked.
validate_rows(s, done) ==
    [k \in DOMAIN done |-> IF Priced(done[k]) THEN BrokenRules(s, done, k, done[k].price) ELSE {}]

NotChecked == [k \in {} |-> {}]

Gate ==
    /\ Remaining = {}
    /\ violations = NotChecked
    /\ violations' = validate_rows(snap, rows)
    /\ UNCHANGED <<snap, rows>>

------------------------------------------------------------------------------

Init ==
    /\ snap \in Snapshots
    /\ rows = [k \in {} |-> {}]
    /\ violations = NotChecked

Next == (\E k \in DOMAIN snap.cand : PriceRow(k)) \/ Gate

Spec == Init /\ [][Next]_vars

------------------------------------------------------------------------------

\* A whole-cent price that obeys every hard rule for row k: the rules of the module
\* header of pricing_rules.py, exactly.
LegalPrice(s, done, k, p) ==
    LET c == s.cand[k]
        rule == s.rule[RuleKey(k)]
    IN  /\ p >= rule.floor
        /\ 1000 * p >= c.shelf * (1000 - rule.pct)
        /\ p >= Ladder(s, done, k)
        /\ p <= c.current

Distance(a, b) == IF a >= b THEN a - b ELSE b - a

Reasons == {"NONE", "NOT_IN_PRODUCTS", "MISSING_RULE", "EXCEEDED_MAX_WEEKS",
            "FLOOR_ABOVE_PRICE", "LADDER_ABOVE_PRICE"}

\* Rows are for listed items only, and a row has a price exactly when it is PRICED.
TypeOK ==
    /\ snap \in Snapshots
    /\ DOMAIN rows \subseteq DOMAIN snap.cand
    /\ \A k \in DOMAIN rows :
          /\ rows[k] \in [status : {"PRICED", "SKIPPED"}, price : Nat, reason : Reasons]
          /\ Priced(rows[k]) <=> rows[k].price # None
          /\ Priced(rows[k]) <=> rows[k].reason = "NONE"

\* The gate is an independent re-check that never stops a correct engine: whatever the
\* list and the rules, no row the engine prices is a violation.  The two compute the
\* ladder, the rounding and the limits in different ways.
GateAcceptsEngine == \A k \in DOMAIN violations : violations[k] = {}

\* The engine's price is the legal price nearest to the schedule: it leaves the schedule
\* no further than the rules force it to, and an item is left without a price for its
\* bounds only when no legal price exists (recommend, price_week).
NearestLegalPrice ==
    \A k \in DOMAIN rows :
        LET c == snap.cand[k]
            sched == scheduled_price(c.shelf, c.week_no)
            Legal(p) == LegalPrice(snap, rows, k, p)
        IN  /\ Priced(rows[k]) =>
                  /\ Legal(rows[k].price)
                  /\ \A p \in 1 .. c.current : Legal(p) => Distance(rows[k].price, sched) <= Distance(p, sched)
            /\ rows[k].reason \in {"FLOOR_ABOVE_PRICE", "LADDER_ABOVE_PRICE"} => \A p \in 1 .. c.current : ~Legal(p)

\* The ladder holds between the rows that are sent, in whichever order they were priced:
\* a pack costs at least as much per item as its Single in the same region.
LadderHolds ==
    \A k \in DOMAIN rows : k.qty > 1 /\ Priced(rows[k]) /\ SingleOf(k) \in DOMAIN snap.cand =>
        /\ SingleOf(k) \in DOMAIN rows
        /\ Priced(rows[SingleOf(k)]) => rows[k].price >= k.qty * rows[SingleOf(k)].price

==============================================================================
