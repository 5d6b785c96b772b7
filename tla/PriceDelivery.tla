---------------------------- MODULE PriceDelivery ----------------------------
(***************************************************************************)
(* What the weekly pipeline promises its readers, with nothing said about  *)
(* steps, retries or tables: SAP takes prices; a run reports items as      *)
(* accepted; a run may claim success.  Module WeeklyPipeline implements it.*)
(***************************************************************************)
CONSTANTS Item, Run, Price, NoPrice

VARIABLES
    taken,      \* every price SAP ever took for an item, and the run that brought it
    held,       \* those it holds now
    wanted,     \* the price a run recommends for an item, or NoPrice
    reported,   \* the items a run reports as accepted
    succeeded   \* the runs that claim success

vars == <<taken, held, wanted, reported, succeeded>>

Delivery == [run : Run, item : Item, price : Price]

Init ==
    /\ taken = {}
    /\ held = {}
    /\ wanted = [r \in Run |-> [i \in Item |-> NoPrice]]
    /\ reported = [r \in Run |-> {}]
    /\ succeeded = {}

\* SAP takes some prices of one run, each for an item it holds no price for.
Take(r) ==
    /\ \E new \in SUBSET {d \in Delivery : d.run = r} :
          /\ \A d \in new : \A h \in held \cup (new \ {d}) : h.item # d.item
          /\ taken' = taken \cup new
          /\ held' = held \cup new
    /\ UNCHANGED <<wanted, reported, succeeded>>

\* Somebody removes a price in SAP.
Remove ==
    /\ \E d \in held : held' = held \ {d}
    /\ UNCHANGED <<taken, wanted, reported, succeeded>>

\* A run that has not claimed success computes its prices, anew or for the first time.
Recommend(r) ==
    /\ r \notin succeeded
    /\ \E f \in [Item -> Price \cup {NoPrice}] : wanted' = [wanted EXCEPT ![r] = f]
    /\ UNCHANGED <<taken, held, reported, succeeded>>

\* Only what SAP took from this run is reported as accepted.
Report(r) ==
    /\ r \notin succeeded
    /\ \E s \in SUBSET {i \in Item : \E d \in taken : d.run = r /\ d.item = i} :
          reported' = [reported EXCEPT ![r] = s]
    /\ UNCHANGED <<taken, held, wanted, succeeded>>

\* Success is claimed only when every wanted price was reported, and taken as it is.
Claim(r) ==
    /\ \A i \in Item : wanted[r][i] # NoPrice =>
          /\ i \in reported[r]
          /\ \E d \in taken : d.item = i /\ d.price = wanted[r][i]
    /\ succeeded' = succeeded \cup {r}
    /\ UNCHANGED <<taken, held, wanted, reported>>

\* The run is started again: the claim is withdrawn until it ends.
Reopen(r) ==
    /\ succeeded' = succeeded \ {r}
    /\ UNCHANGED <<taken, held, wanted, reported>>

Next ==
    \/ \E r \in Run : Take(r) \/ Recommend(r) \/ Report(r) \/ Claim(r) \/ Reopen(r)
    \/ Remove

Spec == Init /\ [][Next]_vars

==============================================================================
