--------------------------- MODULE MCTriageNotices ---------------------------
(***************************************************************************)
(* TriageNotices with a brand that stopped selling, this week and the week *)
(* before, or with a problem that a playbook gives to a business team; and *)
(* the incident of a week that cannot be scanned.                          *)
(***************************************************************************)
EXTENDS TriageNotices

CONSTANTS promo, low, low_before, no_run, x, o, b, vic, dev, lead, promotions, platform

WeekKind == [c \in Code |-> IF c = promo THEN "record" ELSE IF c = no_run THEN "incident" ELSE "outcome"]
WeekPlaybook == [c \in Code |-> IF c = promo THEN promotions ELSE dev]
WeekCodeOf == [r \in Record |-> IF r = o THEN low ELSE IF r = b THEN low_before ELSE promo]
WeekRegionOf == [r \in Record |-> vic]
WeekSkuOf == [r \in Record |-> r]
NoEarlier == [c \in {} |-> c]
LowEarlier == [c \in {low_before} |-> low]

==============================================================================
