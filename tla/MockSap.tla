------------------------------- MODULE MockSap -------------------------------
(***************************************************************************)
(* The SAP service the prices are pushed to (services/mock_sap/main.py),   *)
(* for one pricing week.                                                   *)
(*                                                                         *)
(* A record is identified by an item (sku, pack_qty, region).  Every       *)
(* record of the week has the same validity period, so two conditions of   *)
(* one item always overlap, and the idempotency key                        *)
(* run|sku|pack_qty|region|valid_from is the pair (run, item).             *)
(* The POST handler is an `async def` that never awaits once the body is   *)
(* read, and it runs in one database transaction: it is one atomic action. *)
(***************************************************************************)
EXTENDS Naturals, FiniteSets

CONSTANTS
    Item,        \* (sku, pack_qty, region) keys
    Run,         \* run ids
    Price,       \* well-formed prices: positive, at most two decimals
    BadPrice,    \* a markdown_price that fails the format check
    NoPrice,     \* SQL NULL where a price could be
    List,        \* versions of SAP's clearance list and rules for the week
    Listed,      \* Listed[l]: the items on list version l
    MaxEdits     \* bound on changes made on the SAP side

ASSUME PriceAssumption == BadPrice \notin Price /\ NoPrice \notin Price

ASSUME ListAssumption == Listed \in [List -> SUBSET Item]

ASSUME EditsAssumption == MaxEdits \in Nat

VARIABLES
    sap_list,           \* the list version SAP publishes now
    price_conditions,   \* conditions of the week: who set which price for an item
    open_ended,         \* items with a condition of an earlier week that has no end
    promotions,         \* promotion price per item, or NoPrice
    submission_log,     \* every record SAP ever received, with the code it answered
    edits               \* changes made on the SAP side so far

sapVars == <<sap_list, price_conditions, open_ended, promotions, submission_log, edits>>

Condition == [run : Run, item : Item, price : Price]

AcceptCodes == {"OK", "REPLAYED"}
RejectCodes == {"BAD_FORMAT", "IDEMPOTENCY_CONFLICT", "NOT_ON_LIST", "VALIDITY_OVERLAP"}

Submission == [run : Run, item : Item, price : Price \cup {BadPrice},
               code : AcceptCodes \cup RejectCodes]

\* A batch holds each item once: the pre-send gate rejects duplicate keys.
Batch == UNION {[S -> Price \cup {BadPrice}] : S \in SUBSET Item}

SapTypeOK ==
    /\ sap_list \in List
    /\ price_conditions \subseteq Condition
    /\ open_ended \subseteq Item
    /\ promotions \in [Item -> Price \cup {NoPrice}]
    /\ submission_log \subseteq Submission
    /\ edits \in 0 .. MaxEdits

------------------------------------------------------------------------------

\* A condition stored under the idempotency key (run, item) has this price.
StoredUnderKey(run, item, price) == [run |-> run, item |-> item, price |-> price] \in price_conditions

KeyUsed(run, item) == \E c \in price_conditions : c.run = run /\ c.item = item

\* The validity period of a record for this item overlaps an existing condition.
Overlaps(item) == item \in open_ended \/ \E c \in price_conditions : c.item = item

\* Mutants of Outcome, one check of the handler missing or too weak in each.
Outcome_NoReplay(run, item, price) ==
    IF price \notin Price THEN "BAD_FORMAT"
    ELSE IF item \notin Listed[sap_list] THEN "NOT_ON_LIST"
    ELSE IF Overlaps(item) THEN "VALIDITY_OVERLAP"
    ELSE "OK"

Outcome_ReplayAnyPrice(run, item, price) ==
    IF price \notin Price THEN "BAD_FORMAT"
    ELSE IF KeyUsed(run, item) THEN "REPLAYED"
    ELSE IF item \notin Listed[sap_list] THEN "NOT_ON_LIST"
    ELSE IF Overlaps(item) THEN "VALIDITY_OVERLAP"
    ELSE "OK"

Outcome_NoClash(run, item, price) ==
    IF price \notin Price THEN "BAD_FORMAT"
    ELSE IF KeyUsed(run, item)
         THEN IF StoredUnderKey(run, item, price) THEN "REPLAYED" ELSE "IDEMPOTENCY_CONFLICT"
    ELSE IF item \notin Listed[sap_list] THEN "NOT_ON_LIST"
    ELSE IF item \in open_ended THEN "VALIDITY_OVERLAP"
    ELSE "OK"

\* The code answered for one record; the checks are made in this order.
Outcome(run, item, price) ==
    IF price \notin Price THEN "BAD_FORMAT"
    ELSE IF KeyUsed(run, item)
         THEN IF StoredUnderKey(run, item, price) THEN "REPLAYED" ELSE "IDEMPOTENCY_CONFLICT"
    ELSE IF item \notin Listed[sap_list] THEN "NOT_ON_LIST"
    ELSE IF Overlaps(item) THEN "VALIDITY_OVERLAP"
    ELSE "OK"

\* The per-record results of a batch. Its items differ, so no record sees another's insert.
Answer(run, batch) == [i \in DOMAIN batch |-> Outcome(run, i, batch[i])]

\* Mutant of post_prices: the INSERT is an upsert on the idempotency key.
post_prices_Upsert(run, batch) ==
    LET answer == Answer(run, batch)
        stored == {j \in DOMAIN batch : answer[j] \in {"OK", "IDEMPOTENCY_CONFLICT"}}
    IN
    /\ price_conditions' = {c \in price_conditions : c.run # run \/ c.item \notin stored}
           \cup {[run |-> run, item |-> i, price |-> batch[i]] : i \in stored}
    /\ submission_log' = submission_log \cup
           {[run |-> run, item |-> i, price |-> batch[i], code |-> answer[i]] : i \in DOMAIN batch}
    /\ UNCHANGED <<sap_list, open_ended, promotions, edits>>

\* POST /pricing/markdown-prices
post_prices(run, batch) ==
    LET answer == Answer(run, batch) IN
    /\ price_conditions' = price_conditions \cup
           {[run |-> run, item |-> i, price |-> batch[i]] : i \in {j \in DOMAIN batch : answer[j] = "OK"}}
    /\ submission_log' = submission_log \cup
           {[run |-> run, item |-> i, price |-> batch[i], code |-> answer[i]] : i \in DOMAIN batch}
    /\ UNCHANGED <<sap_list, open_ended, promotions, edits>>

\* GET /pricing/conditions: the price SAP holds per item and what shoppers pay.
HeldItems == {c.item : c \in price_conditions}
HeldPrice(item) == (CHOOSE c \in price_conditions : c.item = item).price
EffectivePrice(item) == IF promotions[item] = NoPrice THEN HeldPrice(item) ELSE promotions[item]
ConditionsAnswer == [i \in HeldItems |-> [price |-> HeldPrice(i), effective_price |-> EffectivePrice(i)]]

------------------------------------------------------------------------------
(* What people and other systems do on the SAP side.                       *)

Edit == edits < MaxEdits /\ edits' = edits + 1

\* A new version of the list or of the rules is published.
PublishList(l) ==
    /\ Edit
    /\ l # sap_list
    /\ sap_list' = l
    /\ UNCHANGED <<price_conditions, open_ended, promotions, submission_log>>

\* A promotion starts (p \in Price) or ends (p = NoPrice).
SetPromotion(item, p) ==
    /\ Edit
    /\ promotions[item] # p
    /\ promotions' = [promotions EXCEPT ![item] = p]
    /\ UNCHANGED <<sap_list, price_conditions, open_ended, submission_log>>

\* The SAP Pricing team ends the old record that overlapped the week.
EndOldRecord(item) ==
    /\ Edit
    /\ item \in open_ended
    /\ open_ended' = open_ended \ {item}
    /\ UNCHANGED <<sap_list, price_conditions, promotions, submission_log>>

\* A condition of the week is deleted by hand.
DeleteCondition(c) ==
    /\ Edit
    /\ price_conditions' = price_conditions \ {c}
    /\ UNCHANGED <<sap_list, open_ended, promotions, submission_log>>

SapEdit ==
    \/ \E l \in List : PublishList(l)
    \/ \E i \in Item, p \in Price \cup {NoPrice} : SetPromotion(i, p)
    \/ \E i \in Item : EndOldRecord(i)
    \/ \E c \in price_conditions : DeleteCondition(c)

SapInit ==
    /\ sap_list \in List
    /\ price_conditions = {}
    /\ open_ended \in SUBSET Item
    /\ promotions = [i \in Item |-> NoPrice]
    /\ submission_log = {}
    /\ edits = 0

SapNext ==
    \/ \E r \in Run, b \in Batch : post_prices(r, b)
    \/ SapEdit

SapSpec == SapInit /\ [][SapNext]_sapVars

------------------------------------------------------------------------------

\* Two validity periods of one item never overlap in SAP, whatever runs, retries and
\* replays were posted: an item has at most one condition of the week, and none
\* beside an open-ended record of an earlier week.
NoOverlap ==
    /\ \A c, d \in price_conditions : c.item = d.item => c = d
    /\ \A c \in price_conditions : c.item \notin open_ended

\* The append-only log explains what SAP holds: every condition has the submission
\* that created it, and a replay was only ever answered for a (run, item) whose first
\* submission with that very price was accepted.
LogExplains ==
    /\ \A c \in price_conditions :
          [run |-> c.run, item |-> c.item, price |-> c.price, code |-> "OK"] \in submission_log
    /\ \A s \in submission_log : s.code = "REPLAYED" =>
          [run |-> s.run, item |-> s.item, price |-> s.price, code |-> "OK"] \in submission_log

\* A price SAP accepted is never rewritten by a later post of any run, however often it
\* is replayed or repriced: only somebody deleting the record in SAP removes it.
AcceptedPriceStays ==
    [][\A c \in price_conditions : c \in price_conditions' \/ edits' # edits]_sapVars

==============================================================================
