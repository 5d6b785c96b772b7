---------------------------- MODULE PricingProofs ----------------------------
(* Proofs about modules PricingRules and PricingEngine, for every list, rule  *)
(* book and price history.                                                    *)
EXTENDS PricingEngine, TLAPS

(* The rules                                                                 *)

\* ceil_cents returns the least whole cent that is not below its argument.
LEMMA CeilCents ==
    ASSUME NEW x \in Int
    PROVE  /\ ceil_cents(x) \in Int
           /\ \A q \in Int : 1000 * q >= x <=> q >= ceil_cents(x)
  BY SMT DEF ceil_cents

\* The winning bound is the highest of the three.
LEMMA HighestBoundIsMax ==
    ASSUME NEW shelf \in Nat, NEW floor \in Nat, NEW pct \in Nat, NEW ladder \in Nat
    PROVE  /\ HighestBound(shelf, floor, pct, ladder).value >= 1000 * floor
           /\ HighestBound(shelf, floor, pct, ladder).value >= shelf * (1000 - pct)
           /\ HighestBound(shelf, floor, pct, ladder).value >= 1000 * ladder
           /\ HighestBound(shelf, floor, pct, ladder).value
                 \in {1000 * floor, shelf * (1000 - pct), 1000 * ladder}
  <1> DEFINE a == shelf * (1000 - pct)
  <1>1. a \in Int
    OBVIOUS
  <1>2. LowerBounds(shelf, floor, pct, ladder) =
            << [name |-> "FLOOR", value |-> 1000 * floor],
               [name |-> "MAX_MARKDOWN", value |-> a],
               [name |-> "LADDER", value |-> 1000 * ladder] >>
    BY DEF LowerBounds
  <1> HIDE DEF a
  <1>3. /\ HighestBound(shelf, floor, pct, ladder).value >= 1000 * floor
        /\ HighestBound(shelf, floor, pct, ladder).value >= a
        /\ HighestBound(shelf, floor, pct, ladder).value >= 1000 * ladder
        /\ HighestBound(shelf, floor, pct, ladder).value \in {1000 * floor, a, 1000 * ladder}
    BY <1>1, <1>2 DEF HighestBound
  <1> QED BY <1>3 DEF a

\* A whole-cent price q obeys the three lower bounds; the least that should.
Reaches(q, shelf, floor, pct, ladder) ==
    q >= floor /\ 1000 * q >= shelf * (1000 - pct) /\ q >= ladder
Lo(shelf, floor, pct, ladder) == ceil_cents(HighestBound(shelf, floor, pct, ladder).value)

\* A whole-cent price obeys the three lower bounds exactly when it is not below Lo.
LEMMA LoIsLeast ==
    ASSUME NEW shelf \in Nat, NEW floor \in Nat, NEW pct \in Nat, NEW ladder \in Nat
    PROVE  /\ Lo(shelf, floor, pct, ladder) \in Int
           /\ \A q \in Int : q >= Lo(shelf, floor, pct, ladder) <=> Reaches(q, shelf, floor, pct, ladder)
  <1> DEFINE a == shelf * (1000 - pct)
             v == HighestBound(shelf, floor, pct, ladder).value
  <1>0. a \in Int
    OBVIOUS
  <1>a. /\ v >= 1000 * floor /\ v >= a /\ v >= 1000 * ladder
        /\ v \in {1000 * floor, a, 1000 * ladder}
    BY HighestBoundIsMax
  <1>b. Lo(shelf, floor, pct, ladder) = ceil_cents(v)
    BY DEF Lo
  <1> HIDE DEF a, v
  <1>1. v \in Int
    BY <1>0, <1>a
  <1>2. /\ Lo(shelf, floor, pct, ladder) \in Int
        /\ \A q \in Int : 1000 * q >= v <=> q >= Lo(shelf, floor, pct, ladder)
    BY <1>1, <1>b, CeilCents
  <1>3. \A q \in Int : 1000 * q >= v <=> q >= floor /\ 1000 * q >= a /\ q >= ladder
    BY <1>0, <1>1, <1>a
  <1>4. \A q \in Int : q >= Lo(shelf, floor, pct, ladder) <=> q >= floor /\ 1000 * q >= a /\ q >= ladder
    BY <1>2, <1>3
  <1> QED BY <1>2, <1>4 DEF a, Reaches

\* The scheduled price is a whole number of cents, possibly negative.
LEMMA ScheduleType ==
    ASSUME NEW shelf \in Nat, NEW week_no \in Nat
    PROVE  scheduled_price(shelf, week_no) \in Int
  <1> DEFINE n == shelf * (100 - DISCOUNT_STEP * (week_no - 1)) + 50
  <1>1. n \in Int
    BY DEF DISCOUNT_STEP
  <1>2. scheduled_price(shelf, week_no) = n \div 100
    BY DEF scheduled_price
  <1> HIDE DEF n
  <1> QED BY <1>1, <1>2

\* recommend fails exactly when lo is above last week's price; else its price is the
\* schedule's, moved into lo .. current.
LEMMA RecommendClamps ==
    ASSUME NEW shelf \in Nat, NEW week_no \in Nat, NEW current \in Nat,
           NEW floor \in Nat, NEW pct \in Nat, NEW ladder \in Nat
    PROVE  LET res == recommend(shelf, week_no, current, floor, pct, ladder)
               lo == Lo(shelf, floor, pct, ladder)
               sched == scheduled_price(shelf, week_no)
           IN  /\ res.error \in {"NONE", "FLOOR_ABOVE_PRICE", "LADDER_ABOVE_PRICE"}
               /\ res.error = "NONE" <=> lo <= current
               /\ res.error = "NONE" =>
                     /\ res.price \in Int /\ res.price >= lo /\ res.price <= current
                     /\ \/ res.price = sched
                        \/ res.price = lo /\ sched <= lo
                        \/ res.price = current /\ sched >= current
  <1> DEFINE lo == Lo(shelf, floor, pct, ladder)
             sched == scheduled_price(shelf, week_no)
             bound == HighestBound(shelf, floor, pct, ladder)
             raised == IF sched >= lo THEN sched ELSE lo
  <1>1. lo \in Int /\ sched \in Int
    BY LoIsLeast, ScheduleType
  <1>2. recommend(shelf, week_no, current, floor, pct, ladder) =
          IF lo > current
          THEN [price |-> None, binding |-> "NONE",
                error |-> IF bound.name = "LADDER" THEN "LADDER_ABOVE_PRICE" ELSE "FLOOR_ABOVE_PRICE"]
          ELSE [price |-> IF raised > current THEN current ELSE raised,
                binding |-> IF raised > current THEN "LAST_WEEK"
                            ELSE IF sched >= lo THEN "SCHEDULE" ELSE bound.name,
                error |-> "NONE"]
    BY DEF recommend, Lo
  <1> HIDE DEF lo, sched, bound
  <1>3. LET res == recommend(shelf, week_no, current, floor, pct, ladder)
        IN  /\ res.error \in {"NONE", "FLOOR_ABOVE_PRICE", "LADDER_ABOVE_PRICE"}
            /\ res.error = "NONE" <=> lo <= current
            /\ res.error = "NONE" =>
                  /\ res.price \in Int /\ res.price >= lo /\ res.price <= current
                  /\ \/ res.price = sched
                     \/ res.price = lo /\ sched <= lo
                     \/ res.price = current /\ sched >= current
    BY <1>1, <1>2
  <1> QED BY <1>3 DEF lo, sched

------------------------------------------------------------------------------
(* The rows                                                                  *)

\* Singles have all been priced when a multipack is.
SinglesDone(s, done) == \A j \in DOMAIN s.cand : j.qty = 1 => j \in DOMAIN done

\* Every row is what the engine computes for its candidate from the rows there are now.
RowsAreCurrent ==
    /\ snap \in Snapshots
    /\ DOMAIN rows \subseteq DOMAIN snap.cand
    /\ \A k \in DOMAIN rows : rows[k] = EngineRow(snap, rows, k)
    /\ \A k \in DOMAIN rows : k.qty > 1 => SinglesDone(snap, rows)
    /\ \A k \in DOMAIN rows : rows[k].price \in Nat

\* The gate has looked at all rows, and no row changes after that.
GateIsCurrent ==
    violations = NotChecked \/ (Remaining = {} /\ violations = validate_rows(snap, rows))

PricingInv == RowsAreCurrent /\ GateIsCurrent

\* A ladder is a whole number of cents.
LEMMA LadderType ==
    ASSUME NEW s \in Snapshots, NEW k \in DOMAIN s.cand, NEW done,
           \A j \in DOMAIN done : done[j].price \in Nat
    PROVE  LadderReference(s, done, k) \in Nat /\ Ladder(s, done, k) \in Nat
  <1>1. /\ \A j \in DOMAIN s.cand : s.cand[j].current \in Nat
        /\ \A x \in DOMAIN s.latest : s.latest[x] \in Nat
        /\ k.qty \in Nat
    BY SnapshotsAssumption
  <1>2. LadderReference(s, done, k) \in Nat
    BY <1>1 DEF LadderReference, None
  <1>3. \A q, x \in Nat : q * x \in Nat
    OBVIOUS
  <1> QED BY <1>1, <1>2, <1>3 DEF Ladder, None

\* What recommend returns for candidate k.
Recommended(s, done, k) ==
    recommend(s.cand[k].shelf, s.cand[k].week_no, s.cand[k].current,
              s.rule[RuleKey(k)].floor, s.rule[RuleKey(k)].pct, Ladder(s, done, k))

\* The three ways to end a row: skipped before pricing, skipped for its bounds, priced.
LEMMA RowCases ==
    ASSUME NEW s, NEW k, NEW done
    PROVE  \/ \E why \in {"NOT_IN_PRODUCTS", "MISSING_RULE", "EXCEEDED_MAX_WEEKS"} :
                 EngineRow(s, done, k) = [status |-> "SKIPPED", price |-> None, reason |-> why]
           \/ /\ RuleKey(k) \in DOMAIN s.rule
              /\ ~ (s.cand[k].week_no > s.rule[RuleKey(k)].max_weeks)
              /\ \/ /\ Recommended(s, done, k).error # "NONE"
                    /\ EngineRow(s, done, k) = [status |-> "SKIPPED", price |-> None,
                                                reason |-> Recommended(s, done, k).error]
                 \/ /\ Recommended(s, done, k).error = "NONE"
                    /\ EngineRow(s, done, k) = [status |-> "PRICED",
                                                price |-> Recommended(s, done, k).price,
                                                reason |-> "NONE"]
  BY DEF EngineRow, Recommended, Skipped

\* What a row says: the reason is one of the codes; a priced row is legal and nearest to the
\* schedule; a row skipped for its bounds has no legal price.
LEMMA RowIsRight ==
    ASSUME NEW s \in Snapshots, NEW k \in DOMAIN s.cand, NEW done,
           \A j \in DOMAIN done : done[j].price \in Nat
    PROVE  LET row == EngineRow(s, done, k)
               c == s.cand[k]
               rule == s.rule[RuleKey(k)]
               sched == scheduled_price(c.shelf, c.week_no)
           IN  /\ row \in [status : {"PRICED", "SKIPPED"}, price : Nat, reason : Reasons]
               /\ Priced(row) <=> row.price # None
               /\ Priced(row) <=> row.reason = "NONE"
               /\ Priced(row) =>
                     /\ RuleKey(k) \in DOMAIN s.rule
                     /\ ~ (c.week_no > rule.max_weeks)
                     /\ LegalPrice(s, done, k, row.price)
                     /\ \A p \in Nat : LegalPrice(s, done, k, p) =>
                           Distance(row.price, sched) <= Distance(p, sched)
               /\ row.reason \in {"FLOOR_ABOVE_PRICE", "LADDER_ABOVE_PRICE"} =>
                     \A p \in Nat : ~ LegalPrice(s, done, k, p)
  <1> DEFINE row == EngineRow(s, done, k)
             c == s.cand[k]
             rule == s.rule[RuleKey(k)]
             res == Recommended(s, done, k)
             ladder == Ladder(s, done, k)
             sched == scheduled_price(c.shelf, c.week_no)
             lo == Lo(c.shelf, rule.floor, rule.pct, ladder)
  <1>1. CASE \E why \in {"NOT_IN_PRODUCTS", "MISSING_RULE", "EXCEEDED_MAX_WEEKS"} :
                 row = [status |-> "SKIPPED", price |-> None, reason |-> why]
    BY <1>1 DEF Priced, Reasons, None
  <1>2. CASE /\ RuleKey(k) \in DOMAIN s.rule
             /\ ~ (c.week_no > rule.max_weeks)
             /\ \/ res.error # "NONE" /\ row = [status |-> "SKIPPED", price |-> None, reason |-> res.error]
                \/ res.error = "NONE" /\ row = [status |-> "PRICED", price |-> res.price, reason |-> "NONE"]
    <2>1. /\ c.shelf \in Nat /\ c.week_no \in Nat /\ c.current \in Nat
          /\ rule.floor \in Nat \ {0} /\ rule.pct \in Nat
      <3>1. c.shelf \in Nat /\ c.week_no \in Nat /\ c.current \in Nat
        BY SnapshotsAssumption
      <3>2. \A x \in DOMAIN s.rule : s.rule[x].floor \in Nat \ {0} /\ s.rule[x].pct \in Nat
        BY SnapshotsAssumption
      <3>3. RuleKey(k) \in DOMAIN s.rule
        BY <1>2
      <3> QED BY <3>1, <3>2, <3>3
    <2>2. ladder \in Nat
      BY LadderType
    <2>3. /\ lo \in Int
          /\ \A q \in Int : q >= lo <=> Reaches(q, c.shelf, rule.floor, rule.pct, ladder)
      <3>1. rule.floor \in Nat
        BY <2>1
      <3> HIDE DEF c, rule, ladder
      <3> QED BY <2>1, <2>2, <3>1, LoIsLeast
    <2>4. sched \in Int
      BY <2>1, ScheduleType
    <2>5. /\ res.error \in {"NONE", "FLOOR_ABOVE_PRICE", "LADDER_ABOVE_PRICE"}
          /\ res.error = "NONE" <=> lo <= c.current
          /\ res.error = "NONE" =>
                /\ res.price \in Int /\ res.price >= lo /\ res.price <= c.current
                /\ \/ res.price = sched
                   \/ res.price = lo /\ sched <= lo
                   \/ res.price = c.current /\ sched >= c.current
      BY <2>1, <2>2, RecommendClamps DEF Recommended
    <2>6. \A p \in Int : LegalPrice(s, done, k, p) <=> p >= lo /\ p <= c.current
      BY <2>3 DEF LegalPrice, Reaches
    <2> HIDE DEF c, rule, res, ladder, sched, lo
    <2>7. CASE res.error # "NONE"
      <3>1. row = [status |-> "SKIPPED", price |-> None, reason |-> res.error]
        BY <1>2, <2>7
      <3>2. \A p \in Nat : ~ LegalPrice(s, done, k, p)
        BY <2>1, <2>3, <2>5, <2>6, <2>7
      <3> QED BY <2>5, <2>7, <3>1, <3>2 DEF Priced, Reasons, None
    <2>8. CASE res.error = "NONE"
      <3>1. row = [status |-> "PRICED", price |-> res.price, reason |-> "NONE"]
        BY <1>2, <2>8
      <3>2. res.price \in Nat /\ res.price # 0
        <4>1. res.price \in Int /\ res.price >= lo
          BY <2>5, <2>8
        <4>2. Reaches(res.price, c.shelf, rule.floor, rule.pct, ladder)
          BY <2>3, <4>1
        <4>3. res.price >= rule.floor
          BY <4>2 DEF Reaches
        <4> QED BY <2>1, <4>1, <4>3
      <3>3. LegalPrice(s, done, k, res.price)
        BY <2>5, <2>6, <2>8
      <3>4. \A p \in Nat : p >= lo /\ p <= c.current => Distance(res.price, sched) <= Distance(p, sched)
        BY <2>1, <2>3, <2>4, <2>5, <2>8, <3>2 DEF Distance
      <3> HIDE DEF row
      <3>5. /\ Priced(row) /\ row.reason = "NONE" /\ row.price = res.price /\ row.price # None
            /\ row \in [status : {"PRICED", "SKIPPED"}, price : Nat, reason : Reasons]
        BY <3>1, <3>2 DEF Priced, Reasons, None
      <3>6. \A p \in Nat : LegalPrice(s, done, k, p) =>
                Distance(row.price, sched) <= Distance(p, sched)
        BY <2>6, <3>4, <3>5
      <3> QED BY <1>2, <3>3, <3>5, <3>6 DEF row, c, rule, sched
    <2> QED BY <2>7, <2>8
  <1> QED BY <1>1, <1>2, RowCases

------------------------------------------------------------------------------
(* The loop                                                                  *)

\* The Single of a multipack is another row.
LEMMA SingleIsOther ==
    ASSUME NEW s \in Snapshots, NEW k \in DOMAIN s.cand
    PROVE  k.qty \in Nat /\ SingleOf(k).qty = 1
  <1>1. k = [sku |-> k.sku, qty |-> k.qty, region |-> k.region] /\ k.qty \in Nat
    BY SnapshotsAssumption
  <1> QED BY <1>1 DEF SingleOf

\* A row depends on the rows before it only through the Single of a multipack.
LEMMA RowStable ==
    ASSUME NEW s, NEW k, NEW done, NEW more,
           k.qty > 1 => /\ SingleOf(k) \in DOMAIN done <=> SingleOf(k) \in DOMAIN more
                        /\ SingleOf(k) \in DOMAIN done => more[SingleOf(k)] = done[SingleOf(k)]
    PROVE  EngineRow(s, more, k) = EngineRow(s, done, k)
  <1>1. k.qty > 1 => LadderReference(s, more, k) = LadderReference(s, done, k)
    BY DEF LadderReference
  <1>2. Ladder(s, more, k) = Ladder(s, done, k)
    BY <1>1 DEF Ladder
  <1> QED BY <1>2 DEF EngineRow

\* Pricing one more row changes no row priced before, and leaves it current.
LEMMA PriceRowKeepsRows ==
    ASSUME RowsAreCurrent, NEW k \in DOMAIN snap.cand, PriceRow(k)
    PROVE  RowsAreCurrent'
  <1>0. /\ snap \in Snapshots /\ snap' = snap
        /\ k \notin DOMAIN rows
        /\ DOMAIN rows' = DOMAIN rows \cup {k}
        /\ rows'[k] = EngineRow(snap, rows, k)
        /\ \A j \in DOMAIN rows : rows'[j] = rows[j]
        /\ DOMAIN rows \subseteq DOMAIN snap.cand
    BY DEF RowsAreCurrent, PriceRow, Remaining
  <1>1. k.qty > 1 => SinglesDone(snap, rows)
    <2> SUFFICES ASSUME k.qty > 1, NEW j \in DOMAIN snap.cand, j.qty = 1, j \notin DOMAIN rows
                 PROVE  FALSE
      BY DEF SinglesDone
    <2>1. j.qty > 1
      BY DEF PriceRow, Remaining
    <2> QED BY <2>1
  <1>2. \A j \in DOMAIN rows : j.qty > 1 => SinglesDone(snap, rows)
    BY DEF RowsAreCurrent
  <1>3. ASSUME NEW j \in DOMAIN rows'
        PROVE  EngineRow(snap, rows', j) = EngineRow(snap, rows, j)
    <2>1. j \in DOMAIN snap.cand
      BY <1>0
    <2>2. j.qty > 1 => SingleOf(j) # k
      <3> SUFFICES ASSUME j.qty > 1, SingleOf(j) = k
                   PROVE  FALSE
        OBVIOUS
      <3>1. k.qty = 1
        BY <1>0, <2>1, SingleIsOther
      <3>2. j # k
        BY <3>1
      <3>3. SinglesDone(snap, rows)
        BY <1>0, <1>2, <3>2
      <3> QED BY <1>0, <3>1, <3>3 DEF SinglesDone
    <2> HIDE DEF SingleOf
    <2>3. j.qty > 1 => /\ SingleOf(j) \in DOMAIN rows <=> SingleOf(j) \in DOMAIN rows'
                       /\ SingleOf(j) \in DOMAIN rows => rows'[SingleOf(j)] = rows[SingleOf(j)]
      BY <1>0, <2>2
    <2> QED BY <2>3, RowStable
  <1>4. \A j \in DOMAIN rows' : rows'[j] = EngineRow(snap, rows', j)
    BY <1>0, <1>3 DEF RowsAreCurrent
  <1>5. \A j \in DOMAIN rows' : j.qty > 1 => SinglesDone(snap, rows')
    BY <1>0, <1>1, <1>2 DEF SinglesDone
  <1>6. \A j \in DOMAIN rows' : rows'[j].price \in Nat
    <2>1. EngineRow(snap, rows, k).price \in Nat
      BY <1>0, RowIsRight DEF RowsAreCurrent
    <2> QED BY <1>0, <2>1 DEF RowsAreCurrent
  <1> QED BY <1>0, <1>4, <1>5, <1>6 DEF RowsAreCurrent

\* No row and no verdict yet.
LEMMA InitPricing == Init => PricingInv
  BY DEF Init, PricingInv, RowsAreCurrent, GateIsCurrent, NotChecked

\* Every step of the engine and of the gate keeps the invariant.
LEMMA NextKeepsPricing == PricingInv /\ [Next]_vars => PricingInv'
  <1> SUFFICES ASSUME PricingInv, [Next]_vars
               PROVE  PricingInv'
    OBVIOUS
  <1>1. ASSUME NEW k \in DOMAIN snap.cand, PriceRow(k)
        PROVE  PricingInv'
    <2>1. violations = NotChecked
      BY <1>1 DEF PriceRow, PricingInv, GateIsCurrent
    <2> QED BY <1>1, <2>1, PriceRowKeepsRows DEF PriceRow, PricingInv, GateIsCurrent, NotChecked
  <1>2. CASE Gate
    BY <1>2 DEF Gate, PricingInv, RowsAreCurrent, GateIsCurrent, Remaining
  <1>3. CASE UNCHANGED vars
    BY <1>3 DEF vars, PricingInv, RowsAreCurrent, GateIsCurrent, Remaining
  <1> QED BY <1>1, <1>2, <1>3 DEF Next

------------------------------------------------------------------------------
(* What the invariant says                                                   *)

\* RowIsRight for the rows there are.
LEMMA RowsAreRight ==
    ASSUME RowsAreCurrent, NEW k \in DOMAIN rows
    PROVE  LET c == snap.cand[k]
               rule == snap.rule[RuleKey(k)]
               sched == scheduled_price(c.shelf, c.week_no)
           IN  /\ rows[k] \in [status : {"PRICED", "SKIPPED"}, price : Nat, reason : Reasons]
               /\ Priced(rows[k]) <=> rows[k].price # None
               /\ Priced(rows[k]) <=> rows[k].reason = "NONE"
               /\ Priced(rows[k]) =>
                     /\ RuleKey(k) \in DOMAIN snap.rule
                     /\ ~ (c.week_no > rule.max_weeks)
                     /\ LegalPrice(snap, rows, k, rows[k].price)
                     /\ \A p \in Nat : LegalPrice(snap, rows, k, p) =>
                           Distance(rows[k].price, sched) <= Distance(p, sched)
               /\ rows[k].reason \in {"FLOOR_ABOVE_PRICE", "LADDER_ABOVE_PRICE"} =>
                     \A p \in Nat : ~ LegalPrice(snap, rows, k, p)
  <1>1. snap \in Snapshots /\ k \in DOMAIN snap.cand /\ rows[k] = EngineRow(snap, rows, k)
        /\ \A j \in DOMAIN rows : rows[j].price \in Nat
    BY DEF RowsAreCurrent
  <1> QED BY <1>1, RowIsRight

\* The gate finds nothing in a legal price: the Single's price it looks up is the engine's.
LEMMA GateFindsNothing ==
    ASSUME RowsAreCurrent, NEW k \in DOMAIN rows, Priced(rows[k])
    PROVE  BrokenRules(snap, rows, k, rows[k].price) = {}
  <1> DEFINE p == rows[k].price
             c == snap.cand[k]
             rule == snap.rule[RuleKey(k)]
             a == c.shelf * (1000 - rule.pct)
             ref == GateReference(snap, rows, k)
  <1>1. /\ p \in Nat /\ p # 0
        /\ RuleKey(k) \in DOMAIN snap.rule /\ ~ (c.week_no > rule.max_weeks)
        /\ LegalPrice(snap, rows, k, p)
    BY RowsAreRight DEF None
  <1>2. p >= rule.floor /\ 1000 * p >= a /\ p >= Ladder(snap, rows, k) /\ p <= c.current
    BY <1>1 DEF LegalPrice
  <1>3. /\ snap \in Snapshots /\ k \in DOMAIN snap.cand
        /\ \A j \in DOMAIN rows : j \in DOMAIN snap.cand /\ rows[j].price \in Nat
    BY DEF RowsAreCurrent
  <1>4. rule.floor \in Nat /\ c.current \in Nat /\ c.shelf \in Nat /\ rule.pct \in Nat /\ k.qty \in Nat
    <2>1. c.current \in Nat /\ c.shelf \in Nat /\ k.qty \in Nat
      BY <1>3, SnapshotsAssumption
    <2>2. \A x \in DOMAIN snap.rule : snap.rule[x].floor \in Nat /\ snap.rule[x].pct \in Nat
      BY <1>3, SnapshotsAssumption
    <2> QED BY <1>1, <2>1, <2>2
  <1>5. a \in Int
    BY <1>4
  <1>6. ref # None => ref = LadderReference(snap, rows, k)
    BY <1>3 DEF GateReference, LadderReference
  <1>7. k.qty > 1 /\ ref # None => ~ (p < k.qty * ref)
    <2> SUFFICES ASSUME k.qty > 1, ref # None
                 PROVE  ~ (p < k.qty * ref)
      OBVIOUS
    <2>1. Ladder(snap, rows, k) = k.qty * ref /\ Ladder(snap, rows, k) \in Nat
      BY <1>3, <1>6, LadderType DEF Ladder
    <2> QED BY <1>1, <1>2, <2>1
  <1>8. /\ ~ (p <= 0) /\ ~ (p > c.current) /\ ~ (p < rule.floor)
        /\ ~ (1000 * p < a - 500)
    <2> HIDE DEF p, a, c, rule
    <2> QED BY <1>1, <1>2, <1>4, <1>5
  <1> QED BY <1>1, <1>7, <1>8 DEF BrokenRules

\* A pack is priced against the price of its Single in the same run.
LEMMA RowsKeepLadder == RowsAreCurrent => LadderHolds
  <1> SUFFICES ASSUME RowsAreCurrent, NEW k \in DOMAIN rows, k.qty > 1, Priced(rows[k]),
                      SingleOf(k) \in DOMAIN snap.cand
               PROVE  /\ SingleOf(k) \in DOMAIN rows
                      /\ Priced(rows[SingleOf(k)]) => rows[k].price >= k.qty * rows[SingleOf(k)].price
    BY DEF LadderHolds
  <1>1. SingleOf(k) \in DOMAIN rows
    <2>1. SingleOf(k).qty = 1
      BY SingleIsOther DEF RowsAreCurrent
    <2> QED BY <2>1 DEF RowsAreCurrent, SinglesDone
  <1>2. ASSUME Priced(rows[SingleOf(k)])
        PROVE  rows[k].price >= k.qty * rows[SingleOf(k)].price
    <2>1. Ladder(snap, rows, k) = k.qty * rows[SingleOf(k)].price
      BY <1>1, <1>2 DEF Ladder, LadderReference
    <2>2. rows[k].price >= Ladder(snap, rows, k)
      BY RowsAreRight DEF LegalPrice
    <2> QED BY <2>1, <2>2
  <1> QED BY <1>1, <1>2

------------------------------------------------------------------------------

\* Rows are typed, and have a price exactly when they are PRICED.
THEOREM EngineTyping == Spec => []TypeOK
  <1>1. PricingInv => TypeOK
    BY RowsAreRight DEF PricingInv, RowsAreCurrent, TypeOK
  <1> QED BY <1>1, InitPricing, NextKeepsPricing, PTL DEF Spec

\* A price is legal and no legal price is nearer to the schedule; a row skipped for its bounds has
\* no legal price (recommend, price_week).
THEOREM EngineNearestLegalPrice == Spec => []NearestLegalPrice
  <1>1. PricingInv => NearestLegalPrice
    <2> SUFFICES ASSUME RowsAreCurrent, NEW k \in DOMAIN rows
                 PROVE  LET c == snap.cand[k]
                            sched == scheduled_price(c.shelf, c.week_no)
                            Legal(p) == LegalPrice(snap, rows, k, p)
                        IN  /\ Priced(rows[k]) =>
                                  /\ Legal(rows[k].price)
                                  /\ \A p \in 1 .. c.current : Legal(p) =>
                                        Distance(rows[k].price, sched) <= Distance(p, sched)
                            /\ rows[k].reason \in {"FLOOR_ABOVE_PRICE", "LADDER_ABOVE_PRICE"} =>
                                  \A p \in 1 .. c.current : ~Legal(p)
      BY DEF PricingInv, NearestLegalPrice
    <2>1. 1 .. snap.cand[k].current \subseteq Nat
      OBVIOUS
    <2> QED BY <2>1, RowsAreRight
  <1> QED BY <1>1, InitPricing, NextKeepsPricing, PTL DEF Spec

\* The ladder holds between the rows of every list, priced in every order the loop allows.
THEOREM EngineLadderHolds == Spec => []LadderHolds
  <1>1. PricingInv => LadderHolds
    BY RowsKeepLadder DEF PricingInv
  <1> QED BY <1>1, InitPricing, NextKeepsPricing, PTL DEF Spec

\* The gate accepts every row the engine prices, for every list, rules and history.
THEOREM GateAcceptsEveryEngineRow == Spec => []GateAcceptsEngine
  <1>1. PricingInv => GateAcceptsEngine
    BY GateFindsNothing DEF PricingInv, GateIsCurrent, NotChecked, GateAcceptsEngine, validate_rows
  <1> QED BY <1>1, InitPricing, NextKeepsPricing, PTL DEF Spec

==============================================================================
