----------------------------- MODULE MCToolCache -----------------------------
(***************************************************************************)
(* ToolCache with one product in two regions, one run and two users, one   *)
(* of whom may see one region only.  The week has been priced and sent.    *)
(***************************************************************************)
EXTENDS ToolCache, TLC

CONSTANTS vic, nsw, s, narrow, wide

Access == (narrow :> {vic}) @@ (wide :> {vic, nsw})

MovingItems == {<<s, 1, vic>>}
JustNsw == {{nsw}}

MCInit ==
    /\ now = 1
    /\ runs = [r \in Run |-> [status |-> "SUCCEEDED", stamp |-> r]]
    /\ finishes = Cardinality(Run)
    /\ rows = [r \in Run |-> [i \in Item |-> "ACCEPTED"]]
    /\ listed = Item /\ strict = {}
    /\ held = [i \in Item |-> IF i[3] = nsw THEN "overridden" ELSE "ours"]
    /\ findings = <<>>
    /\ cache = Empty
    /\ call = [u \in Caller |-> NoCall]
    /\ checks = [u \in Caller |-> Empty]
    /\ clear = [x \in (Run \cup {0}) \X Item \X Tracked |-> IF Has(x[1], x[2], x[3]) THEN 0 ELSE 1]
    /\ calls = 0 /\ changes = 0

MCSpec == MCInit /\ [][Next]_vars

==============================================================================
