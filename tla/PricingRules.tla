---------------------------- MODULE PricingRules ----------------------------
(***************************************************************************)
(* The markdown schedule and the hard price rules (shared/pricing_rules).  *)
(* Prices are integer cents and max_markdown_pct is in thousandths, the    *)
(* scales of SAP's NUMERIC columns; a bound that need not be a whole cent  *)
(* is kept in thousandths of a cent.  The code computes with floats whose  *)
(* error it rounds away (6 decimals of a cent) before a bound is used.     *)
(***************************************************************************)
EXTENDS Integers

DISCOUNT_STEP == 5       \* percentage points of the shelf price per week

None == 0             \* None: no price, no ladder bound

\* Shelf price after the scheduled discount, rounded half-up to cents.
scheduled_price(shelf, week_no) == (shelf * (100 - DISCOUNT_STEP * (week_no - 1)) + 50) \div 100

\* Mutant of ceil_cents: rounded down.
ceil_cents_Down(x) == x \div 1000

\* Thousandths of a cent, rounded up to cents.
ceil_cents(x) == (x + 999) \div 1000

\* The lower bounds in the order of the dict, and the one that wins: max() keeps the
\* first of equal values.
LowerBounds(shelf, floor, pct, ladder) ==
    << [name |-> "FLOOR", value |-> 1000 * floor],
       [name |-> "MAX_MARKDOWN", value |-> shelf * (1000 - pct)],
       [name |-> "LADDER", value |-> 1000 * ladder] >>

HighestBound(shelf, floor, pct, ladder) ==
    LET b == LowerBounds(shelf, floor, pct, ladder)
        first == IF b[2].value > b[1].value THEN b[2] ELSE b[1]
    IN  IF b[3].value > first.value THEN b[3] ELSE first

\* MUTANT: a bound equal to last week's price is an error.
recommend_StrictBound(shelf, week_no, current, floor, pct, ladder) ==
    LET bound == HighestBound(shelf, floor, pct, ladder)
        lo == ceil_cents(bound.value)
        sched == scheduled_price(shelf, week_no)
        raised == IF sched >= lo THEN sched ELSE lo
    IN  IF lo >= current
        THEN [price |-> None, binding |-> "NONE",
              error |-> IF bound.name = "LADDER" THEN "LADDER_ABOVE_PRICE" ELSE "FLOOR_ABOVE_PRICE"]
        ELSE [price |-> IF raised > current THEN current ELSE raised, binding |-> "SCHEDULE", error |-> "NONE"]

\* The recommended price of one item with what set it, or the reason there is none.
recommend(shelf, week_no, current, floor, pct, ladder) ==
    LET bound == HighestBound(shelf, floor, pct, ladder)
        lo == ceil_cents(bound.value)
        sched == scheduled_price(shelf, week_no)
        raised == IF sched >= lo THEN sched ELSE lo
    IN  IF lo > current
        THEN [price |-> None, binding |-> "NONE",
              error |-> IF bound.name = "LADDER" THEN "LADDER_ABOVE_PRICE" ELSE "FLOOR_ABOVE_PRICE"]
        ELSE [price |-> IF raised > current THEN current ELSE raised,
              binding |-> IF raised > current THEN "LAST_WEEK"
                          ELSE IF sched >= lo THEN "SCHEDULE" ELSE bound.name,
              error |-> "NONE"]

==============================================================================
