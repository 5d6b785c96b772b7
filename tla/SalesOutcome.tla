---------------------------- MODULE SalesOutcome ----------------------------
(***************************************************************************)
(* Did the clearance sell?  Which clean records sold far below their       *)
(* baseline (services/diagnostic_api/outcome.py), and which causes the     *)
(* data supports (investigation_tools.py).                                 *)
(*                                                                         *)
(* Sales are those of one region, as every function looks at the region of *)
(* one case.  A baseline, the mean of up to three weeks, is kept in sixths *)
(* of a unit; the code rounds the rise of a product to a tenth.  The tools *)
(* that only show the model a table are not here.                          *)
(*                                                                         *)
(* A record is <<sku, qty>>.  The sales of a week:                         *)
(*   units    by record: units[0] of the week, units[i] of i weeks before, *)
(*            None without a sales row                                     *)
(*   till     the highest price a store recorded                           *)
(*   listed   the candidates                                               *)
(*   held     SAP's conditions: price, effective price and its source      *)
(*   stock    on hand when the week opened                                 *)
(*   prices   price_history: of the week and of the week before, or None   *)
(***************************************************************************)
EXTENDS Integers, FiniteSetsExt

CONSTANTS
    Brand, Category,       \* by sku, as in the products table
    DropRatio,             \* percent of the baseline at which sales are low
    MinBaseline            \* units a week below which a baseline says nothing

BASELINE_WEEKS == 3
MIN_BASELINE_WEEKS == 2
NoUnits == -1

------------------------------------------------------------------------------
(* outcome.py *)

Sold(s, k) == IF s.units[k][0] = NoUnits THEN 0 ELSE s.units[k][0]
WeeksSold(s, k) == {w \in 1 .. BASELINE_WEEKS : s.units[k][w] # NoUnits}

\* baselines, in sixths: 6 * sum / weeks.
baseline(s, k) == (6 * SumFunction([w \in WeeksSold(s, k) |-> s.units[k][w]])) \div Cardinality(WeeksSold(s, k))
HasBaseline(s, k) == Cardinality(WeeksSold(s, k)) >= MIN_BASELINE_WEEKS

\* is_low: down to the ratio, and by three standard deviations of a Poisson count.
is_low(s, k) ==
    LET base == baseline(s, k)
        fall == base - 6 * Sold(s, k)
    IN  /\ base >= 6 * MinBaseline
        /\ 600 * Sold(s, k) <= DropRatio * base
        /\ fall > 0 /\ fall * fall >= 54 * base

clean_records(s) == {k \in s.listed \cap DOMAIN s.held :
                        s.held[k].source = "MARKDOWN" /\ s.held[k].effective = s.held[k].price}
low_sell_through(s) == {k \in clean_records(s) \cap DOMAIN s.units : HasBaseline(s, k) /\ is_low(s, k)}

pos_gaps(s, records) == {k \in records \cap DOMAIN s.held : s.till[k] > s.held[k].effective}
sold_out(s, records) ==
    {k \in records \cap DOMAIN s.stock : HasBaseline(s, k) /\ 6 * s.stock[k] < baseline(s, k) /\ Sold(s, k) >= s.stock[k]}
stalled(s, records) ==
    {k \in records \cap DOMAIN s.prices : \A w \in {0, 1} : s.prices[k][w] # NoUnits /\ s.prices[k][0] >= s.prices[k][1]}

\* pack_gaps: per unit, an override moved the pack ten points further from its Single.
gap_widened(s, records) ==
    {k \in records \cap DOMAIN s.held :
        /\ k[2] # 1 /\ <<k[1], 1>> \in DOMAIN s.held
        /\ LET pack == s.held[k]
               single == s.held[<<k[1], 1>>]
           IN  10 * (pack.effective * single.price - pack.price * single.effective) >= k[2] * single.effective * single.price}

rising(s) == {k \in DOMAIN s.units : HasBaseline(s, k) /\ baseline(s, k) >= 6 * MinBaseline /\ 12 * Sold(s, k) >= 3 * baseline(s, k)}

------------------------------------------------------------------------------
(* investigation_tools.py: what the data supports about some products *)

RecordsOf(s, skus) == {k \in DOMAIN s.units : k[1] \in skus}
low(s, skus) == {k \in RecordsOf(s, skus) : HasBaseline(s, k) /\ is_low(s, k)}

\* In sixths of single units, so packs compare fairly.
Change(s, k) == k[2] * (6 * Sold(s, k) - baseline(s, k))
explains_loss(gained, lost) == lost > 0 /\ 4 * gained >= lost

\* _substituted: the low records of a category in which promoted products rose enough.
_substituted(s, skus) ==
    LET promoted == {k \in rising(s) \cap DOMAIN s.held : s.held[k].source = "PROMOTION"}
        of(c, records) == {k \in records : Category[k[1]] = c}
        Gained(c) == SumFunction([k \in of(c, promoted) |-> Change(s, k)])
        Lost(c) == SumFunction([k \in of(c, low(s, skus)) |-> -Change(s, k)])
    IN  UNION {of(c, low(s, skus)) : c \in {Category[k[1]] : k \in promoted} \cap {x \in {Category[k[1]] : k \in low(s, skus)} :
                                                explains_loss(Gained(x), Lost(x))}}

Cause == {"POS_PRICE_GAP", "STOCK_SHORTAGE", "DISCOUNT_STALLED", "CANNIBALIZATION", "SUBSTITUTION"}
supported_signals(s, skus) ==
    [POS_PRICE_GAP |-> pos_gaps(s, RecordsOf(s, skus)),
     STOCK_SHORTAGE |-> sold_out(s, RecordsOf(s, skus)),
     DISCOUNT_STALLED |-> stalled(s, RecordsOf(s, skus)),
     CANNIBALIZATION |-> gap_widened(s, RecordsOf(s, skus)) \cap low(s, skus),
     SUBSTITUTION |-> _substituted(s, skus)]

==============================================================================
