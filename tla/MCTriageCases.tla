---------------------------- MODULE MCTriageCases ----------------------------
(***************************************************************************)
(* TriageCases with a small week: two records that fail the same way in    *)
(* two regions, and the incident of a week that cannot be scanned.         *)
(***************************************************************************)
EXTENDS TriageCases, TLC

CONSTANTS promo, no_run, x, y, vic, nsw, dev, lead, promotions

RecordsKind == (promo :> "record") @@ (no_run :> "incident")
RecordsPlaybook == (promo :> promotions) @@ (no_run :> dev)
RecordsCodeOf == [r \in {x, y} |-> promo]
RecordsRegionOf == (x :> vic) @@ (y :> nsw)
RecordsSkuOf == [r \in {x, y} |-> r]
NoEarlier == [c \in {} |-> c]

==============================================================================
