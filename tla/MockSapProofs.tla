---------------------------- MODULE MockSapProofs ----------------------------
(* Proofs about module MockSap, for any items, runs, prices and lists.       *)
EXTENDS MockSap, TLAPS

\* A batch is a function from items to prices.
LEMMA BatchType ==
    ASSUME NEW b \in Batch
    PROVE  DOMAIN b \subseteq Item /\ \A i \in DOMAIN b : b[i] \in Price \cup {BadPrice}
  BY DEF Batch

\* An answer is one of the codes, and OK is answered for well-formed prices of items
\* that are neither used under this key nor overlapped.
LEMMA OutcomeCodes ==
    ASSUME NEW r, NEW i, NEW p
    PROVE  /\ Outcome(r, i, p) \in AcceptCodes \cup RejectCodes
           /\ Outcome(r, i, p) = "OK" => p \in Price /\ ~ KeyUsed(r, i) /\ ~ Overlaps(i)
           /\ Outcome(r, i, p) = "REPLAYED" => p \in Price /\ StoredUnderKey(r, i, p)
  BY DEF Outcome, AcceptCodes, RejectCodes

\* What the handler adds to the conditions and to the log.
LEMMA PostAdds ==
    ASSUME NEW r \in Run, NEW b \in Batch, post_prices(r, b)
    PROVE  /\ \A c \in price_conditions' : c \notin price_conditions =>
                 \E i \in DOMAIN b : /\ c = [run |-> r, item |-> i, price |-> b[i]]
                                     /\ Outcome(r, i, b[i]) = "OK"
           /\ \A s \in submission_log' : s \notin submission_log =>
                 \E i \in DOMAIN b : s = [run |-> r, item |-> i, price |-> b[i],
                                          code |-> Outcome(r, i, b[i])]
           /\ \A i \in DOMAIN b :
                 /\ Outcome(r, i, b[i]) = "OK" =>
                       [run |-> r, item |-> i, price |-> b[i]] \in price_conditions'
                 /\ [run |-> r, item |-> i, price |-> b[i], code |-> Outcome(r, i, b[i])] \in submission_log'
           /\ price_conditions \subseteq price_conditions'
           /\ submission_log \subseteq submission_log'
  BY DEF post_prices, Answer

------------------------------------------------------------------------------

\* The state invariant of SAP taken together.
SapInv == SapTypeOK /\ NoOverlap /\ LogExplains

\* What a POST stores is well-typed.
LEMMA PostKeepsType ==
    ASSUME NEW r \in Run, NEW b \in Batch, SapTypeOK, post_prices(r, b)
    PROVE  SapTypeOK'
  <1>1. price_conditions' \subseteq Condition
    <2> SUFFICES ASSUME NEW c \in price_conditions', c \notin price_conditions
                 PROVE  c \in Condition
      BY DEF SapTypeOK
    <2>1. PICK i \in DOMAIN b : c = [run |-> r, item |-> i, price |-> b[i]] /\ Outcome(r, i, b[i]) = "OK"
      BY PostAdds
    <2>2. b[i] \in Price /\ i \in Item
      BY <2>1, OutcomeCodes, BatchType
    <2> QED BY <2>1, <2>2 DEF Condition
  <1>2. submission_log' \subseteq Submission
    <2> SUFFICES ASSUME NEW s \in submission_log', s \notin submission_log
                 PROVE  s \in Submission
      BY DEF SapTypeOK
    <2>1. PICK i \in DOMAIN b : s = [run |-> r, item |-> i, price |-> b[i], code |-> Outcome(r, i, b[i])]
      BY PostAdds
    <2>2. b[i] \in Price \cup {BadPrice} /\ i \in Item
      BY BatchType
    <2> QED BY <2>1, <2>2, OutcomeCodes DEF Submission
  <1> QED BY <1>1, <1>2 DEF SapTypeOK, post_prices

\* A POST stores no period that overlaps another.
LEMMA PostKeepsNoOverlap ==
    ASSUME NEW r \in Run, NEW b \in Batch, NoOverlap, post_prices(r, b)
    PROVE  NoOverlap'
  <1>1. ASSUME NEW c \in price_conditions', NEW d \in price_conditions', c.item = d.item
        PROVE  c = d
    <2>1. CASE c \in price_conditions /\ d \in price_conditions
      BY <2>1, <1>1 DEF NoOverlap
    <2>2. ASSUME NEW x \in price_conditions', NEW y \in price_conditions', x.item = y.item,
                 x \notin price_conditions
          PROVE  y \notin price_conditions
      <3>1. PICK i \in DOMAIN b : x = [run |-> r, item |-> i, price |-> b[i]] /\ Outcome(r, i, b[i]) = "OK"
        BY <2>2, PostAdds
      <3>2. ~ Overlaps(i)
        BY <3>1, OutcomeCodes
      <3> QED BY <3>1, <3>2, <2>2 DEF Overlaps
    <2>3. CASE c \notin price_conditions /\ d \notin price_conditions
      <3>1. PICK i \in DOMAIN b : c = [run |-> r, item |-> i, price |-> b[i]]
        BY <2>3, PostAdds
      <3>2. PICK j \in DOMAIN b : d = [run |-> r, item |-> j, price |-> b[j]]
        BY <2>3, PostAdds
      <3> QED BY <3>1, <3>2, <1>1
    <2> QED BY <2>1, <2>2, <2>3, <1>1
  <1>2. ASSUME NEW c \in price_conditions'
        PROVE  c.item \notin open_ended'
    <2>1. open_ended' = open_ended
      BY DEF post_prices
    <2>2. CASE c \in price_conditions
      BY <2>1, <2>2 DEF NoOverlap
    <2>3. CASE c \notin price_conditions
      <3>1. PICK i \in DOMAIN b : c = [run |-> r, item |-> i, price |-> b[i]] /\ Outcome(r, i, b[i]) = "OK"
        BY <2>3, PostAdds
      <3>2. ~ Overlaps(i)
        BY <3>1, OutcomeCodes
      <3> QED BY <2>1, <3>1, <3>2 DEF Overlaps
    <2> QED BY <2>2, <2>3
  <1> QED BY <1>1, <1>2 DEF NoOverlap

\* A POST logs what it stores, and replays only what was accepted.
LEMMA PostKeepsLogExplains ==
    ASSUME NEW r \in Run, NEW b \in Batch, LogExplains, post_prices(r, b)
    PROVE  LogExplains'
  <1>1. ASSUME NEW c \in price_conditions'
        PROVE  [run |-> c.run, item |-> c.item, price |-> c.price, code |-> "OK"] \in submission_log'
    <2>1. CASE c \in price_conditions
      BY <2>1, PostAdds DEF LogExplains
    <2>2. CASE c \notin price_conditions
      <3>1. PICK i \in DOMAIN b : c = [run |-> r, item |-> i, price |-> b[i]] /\ Outcome(r, i, b[i]) = "OK"
        BY <2>2, PostAdds
      <3>2. [run |-> r, item |-> i, price |-> b[i], code |-> "OK"] \in submission_log'
        BY <3>1, PostAdds
      <3> QED BY <3>1, <3>2
    <2> QED BY <2>1, <2>2
  <1>2. ASSUME NEW s \in submission_log', s.code = "REPLAYED"
        PROVE  [run |-> s.run, item |-> s.item, price |-> s.price, code |-> "OK"] \in submission_log'
    <2>1. CASE s \in submission_log
      BY <2>1, <1>2, PostAdds DEF LogExplains
    <2>2. CASE s \notin submission_log
      <3>1. PICK i \in DOMAIN b : s = [run |-> r, item |-> i, price |-> b[i], code |-> Outcome(r, i, b[i])]
        BY <2>2, PostAdds
      <3>2. StoredUnderKey(r, i, b[i])
        BY <3>1, <1>2, OutcomeCodes
      <3>3. [run |-> r, item |-> i, price |-> b[i]] \in price_conditions
        BY <3>2 DEF StoredUnderKey
      <3>4. [run |-> r, item |-> i, price |-> b[i], code |-> "OK"] \in submission_log
        BY <3>3 DEF LogExplains
      <3> QED BY <3>1, <3>4, PostAdds
    <2> QED BY <2>1, <2>2
  <1> QED BY <1>1, <1>2 DEF LogExplains

\* What people do in SAP breaks neither.
LEMMA EditKeepsInv ==
    ASSUME SapInv, SapEdit
    PROVE  SapInv'
  <1> USE DEF SapInv, SapTypeOK, NoOverlap, LogExplains
  <1>0. edits' \in 0 .. MaxEdits
    BY EditsAssumption DEF SapEdit, Edit, PublishList, SetPromotion, EndOldRecord, DeleteCondition
  <1>1. ASSUME NEW l \in List, PublishList(l)
        PROVE  SapInv'
    BY <1>0, <1>1 DEF PublishList
  <1>2. ASSUME NEW i \in Item, NEW p \in Price \cup {NoPrice}, SetPromotion(i, p)
        PROVE  SapInv'
    BY <1>0, <1>2 DEF SetPromotion
  <1>3. ASSUME NEW i \in Item, EndOldRecord(i)
        PROVE  SapInv'
    BY <1>0, <1>3 DEF EndOldRecord
  <1>4. ASSUME NEW c \in price_conditions, DeleteCondition(c)
        PROVE  SapInv'
    BY <1>0, <1>4 DEF DeleteCondition
  <1> QED BY <1>1, <1>2, <1>3, <1>4 DEF SapEdit

\* SAP begins with no condition of the week.
LEMMA InitInv == SapInit => SapInv
  BY EditsAssumption DEF SapInit, SapInv, SapTypeOK, NoOverlap, LogExplains

\* Every step of SAP keeps the invariant.
LEMMA NextKeepsInv == SapInv /\ [SapNext]_sapVars => SapInv'
  <1> SUFFICES ASSUME SapInv, [SapNext]_sapVars
               PROVE  SapInv'
    OBVIOUS
  <1>1. ASSUME NEW r \in Run, NEW b \in Batch, post_prices(r, b)
        PROVE  SapInv'
    BY <1>1, PostKeepsType, PostKeepsNoOverlap, PostKeepsLogExplains DEF SapInv
  <1>2. CASE SapEdit
    BY <1>2, EditKeepsInv
  <1>3. CASE UNCHANGED sapVars
    BY <1>3 DEF sapVars, SapInv, SapTypeOK, NoOverlap, LogExplains
  <1> QED BY <1>1, <1>2, <1>3 DEF SapNext

------------------------------------------------------------------------------

\* SAP's tables only ever hold well-typed rows.
THEOREM SapTyping == SapSpec => []SapTypeOK
  <1>1. SapInv => SapTypeOK
    BY DEF SapInv
  <1> QED BY <1>1, InitInv, NextKeepsInv, PTL DEF SapSpec

\* No two validity periods of an item overlap in SAP, for any runs, prices and batches.
THEOREM SapNoOverlap == SapSpec => []NoOverlap
  <1>1. SapInv => NoOverlap
    BY DEF SapInv
  <1> QED BY <1>1, InitInv, NextKeepsInv, PTL DEF SapSpec

\* Every condition and every replay answered has the submission that was accepted.
THEOREM SapLogExplains == SapSpec => []LogExplains
  <1>1. SapInv => LogExplains
    BY DEF SapInv
  <1> QED BY <1>1, InitInv, NextKeepsInv, PTL DEF SapSpec

\* No post changes or removes an accepted price.
THEOREM SapPriceStays == SapSpec => AcceptedPriceStays
  <1>1. SapTypeOK /\ [SapNext]_sapVars =>
            [\A c \in price_conditions : c \in price_conditions' \/ edits' # edits]_sapVars
    <2> SUFFICES ASSUME SapTypeOK, SapNext, NEW c \in price_conditions
                 PROVE  c \in price_conditions' \/ edits' # edits
      OBVIOUS
    <2>1. ASSUME NEW r \in Run, NEW b \in Batch, post_prices(r, b)
          PROVE  c \in price_conditions'
      BY <2>1, PostAdds
    <2>2. CASE SapEdit
      <3>1. edits' = edits + 1
        BY <2>2 DEF SapEdit, PublishList, SetPromotion, EndOldRecord, DeleteCondition, Edit
      <3>2. edits \in Nat
        BY EditsAssumption DEF SapTypeOK
      <3> QED BY <3>1, <3>2
    <2> QED BY <2>1, <2>2 DEF SapNext
  <1> QED BY <1>1, SapTyping, PTL DEF SapSpec, AcceptedPriceStays

==============================================================================
