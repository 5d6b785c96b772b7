-------------------------- MODULE ChatSessionProofs --------------------------
(* Proofs about module ChatSession: what a session remembers, the handles it *)
(* gives out, the regions a tool result may cover, and what its clients are  *)
(* told, for any number of messages, turns, lists, regions and faults.       *)
EXTENDS ChatSession, SequenceTheorems, FiniteSetTheorems, TLAPS

------------------------------------------------------------------------------
(* The newest items of a sequence                                            *)

LEMMA NewestIs ==
  ASSUME NEW S, NEW s \in Seq(S), NEW n \in Nat
  PROVE  /\ Newest(n, s) \in Seq(S)
         /\ Len(Newest(n, s)) = IF Len(s) > n THEN n ELSE Len(s)
         /\ \A i \in 1..Len(Newest(n, s)) : Newest(n, s)[i] = s[Len(s) - Len(Newest(n, s)) + i]
  <1>. DEFINE first == IF Len(s) > n THEN Len(s) - n + 1 ELSE 1
  <1>1. Len(s) \in Nat /\ first \in Nat /\ first >= 1
    BY LenProperties
  <1>2. \A i \in first..Len(s) : s[i] \in S
    BY <1>1, ElementOfSeq
  <1>3. /\ SubSeq(s, first, Len(s)) \in Seq(S)
        /\ Len(SubSeq(s, first, Len(s))) = IF first <= Len(s) THEN Len(s) - first + 1 ELSE 0
        /\ \A i \in 1..Len(s) - first + 1 : SubSeq(s, first, Len(s))[i] = s[first + i - 1]
    <2>. HIDE DEF first
    <2>. QED  BY <1>1, <1>2, SubSeqProperties
  <1>4. Newest(n, s) = SubSeq(s, first, Len(s))
    BY DEF Newest
  <1>5. Len(Newest(n, s)) = IF Len(s) > n THEN n ELSE Len(s)
    <2>1. CASE Len(s) > n
      <3>1. first = Len(s) - n + 1
        BY <2>1
      <3>. HIDE DEF first
      <3>. QED  BY <1>1, <1>3, <1>4, <2>1, <3>1
    <2>2. CASE ~(Len(s) > n)
      <3>1. first = 1
        BY <2>2
      <3>. HIDE DEF first
      <3>. QED  BY <1>1, <1>3, <1>4, <2>2, <3>1
    <2>. QED  BY <2>1, <2>2
  <1>6. ASSUME NEW i \in 1..Len(Newest(n, s))
        PROVE  Newest(n, s)[i] = s[Len(s) - Len(Newest(n, s)) + i]
    <2>1. i \in 1..Len(s) - first + 1 /\ first + i - 1 = Len(s) - Len(Newest(n, s)) + i
      BY <1>1, <1>5, <1>6
    <2>. QED  BY <2>1, <1>3, <1>4
  <1>. QED  BY <1>3, <1>4, <1>5, <1>6

LEMMA DroppedIs ==
  ASSUME NEW S, NEW h \in Seq(S)
  PROVE  /\ Dropped(h) \in Seq(S)
         /\ Len(Dropped(h)) = IF Len(h) > MAX_TURNS THEN Len(h) - MAX_TURNS ELSE 0
         /\ \A i \in 1..Len(Dropped(h)) : Dropped(h)[i] = h[i]
  <1>1. Len(h) \in Nat /\ MAX_TURNS \in Nat
    BY LenProperties, SessionStateAssumption
  <1>2. \A i \in 1..Len(h) - MAX_TURNS : h[i] \in S
    BY <1>1, ElementOfSeq
  <1>. QED  BY <1>1, <1>2, SubSeqProperties DEF Dropped

------------------------------------------------------------------------------
(* What a session remembers of its questions                                 *)

\* Earlier questions e and history h are the newest of the questions q, in order, and all of them
\* until the earlier ones are full.
Remembers(e, h, q) ==
    /\ Len(e) + Len(h) <= Len(q)
    /\ \A i \in 1..Len(h) : h[i] = q[Len(q) - Len(h) + i]
    /\ \A i \in 1..Len(e) : e[i] = q[Len(q) - Len(h) - Len(e) + i]
    /\ Len(e) < MAX_EARLIER => Len(e) + Len(h) = Len(q)

\* Compaction moves questions out of the history and the oldest ones out of the list, no others.
LEMMA CompactionRemembers ==
  ASSUME NEW S, NEW e \in Seq(S), NEW h \in Seq(S), NEW q \in Seq(S), Remembers(e, h, q)
  PROVE  Remembers(Newest(MAX_EARLIER, e \o Dropped(h)), compact_history(h), q)
  <1>. DEFINE d == Dropped(h)
              h2 == compact_history(h)
              e2 == Newest(MAX_EARLIER, e \o d)
  <1>1. /\ Len(e) \in Nat /\ Len(h) \in Nat /\ Len(q) \in Nat
        /\ MAX_TURNS \in Nat /\ MAX_EARLIER \in Nat
    BY LenProperties, SessionStateAssumption
  <1>2. /\ d \in Seq(S) /\ Len(d) = IF Len(h) > MAX_TURNS THEN Len(h) - MAX_TURNS ELSE 0
        /\ \A i \in 1..Len(d) : d[i] = h[i]
    BY DroppedIs
  <1>3. /\ Len(h2) = IF Len(h) > MAX_TURNS THEN MAX_TURNS ELSE Len(h)
        /\ \A i \in 1..Len(h2) : h2[i] = h[Len(h) - Len(h2) + i]
    BY <1>1, NewestIs DEF compact_history
  <1>. HIDE DEF d, h2
  <1>4. /\ e \o d \in Seq(S) /\ Len(e \o d) = Len(e) + Len(d)
        /\ \A i \in 1..Len(e) + Len(d) : (e \o d)[i] = IF i <= Len(e) THEN e[i] ELSE d[i - Len(e)]
    BY <1>2, ConcatProperties
  <1>5. /\ Len(e2) = IF Len(e \o d) > MAX_EARLIER THEN MAX_EARLIER ELSE Len(e \o d)
        /\ \A i \in 1..Len(e2) : e2[i] = (e \o d)[Len(e \o d) - Len(e2) + i]
    BY <1>1, <1>4, NewestIs
  <1>. HIDE DEF e2
  <1>6. Len(d) = Len(h) - Len(h2) /\ Len(d) \in Nat /\ Len(h2) \in Nat /\ Len(e2) \in Nat
    BY <1>1, <1>2, <1>3, <1>4, <1>5
  <1>7. Len(e2) + Len(h2) <= Len(q) /\ (Len(e2) < MAX_EARLIER => Len(e2) + Len(h2) = Len(q))
    BY <1>1, <1>4, <1>5, <1>6 DEF Remembers
  <1>8. ASSUME NEW i \in 1..Len(h2) PROVE h2[i] = q[Len(q) - Len(h2) + i]
    <2>1. Len(h) - Len(h2) + i \in 1..Len(h) /\ h2[i] = h[Len(h) - Len(h2) + i]
      <3>1. Len(h2) <= Len(h)
        BY <1>1, <1>3
      <3>2. h2[i] = h[Len(h) - Len(h2) + i]
        BY <1>3
      <3>. QED  BY <3>1, <3>2, <1>1, <1>6
    <2>2. h[Len(h) - Len(h2) + i] = q[Len(q) - Len(h) + (Len(h) - Len(h2) + i)]
      BY <2>1 DEF Remembers
    <2>3. Len(q) - Len(h) + (Len(h) - Len(h2) + i) = Len(q) - Len(h2) + i
      BY <1>1, <1>6
    <2>. QED  BY <2>1, <2>2, <2>3
  <1>9. ASSUME NEW i \in 1..Len(e2) PROVE e2[i] = q[Len(q) - Len(h2) - Len(e2) + i]
    <2>. DEFINE j == Len(e) + Len(d) - Len(e2) + i
    <2>1. j \in 1..Len(e) + Len(d) /\ e2[i] = IF j <= Len(e) THEN e[j] ELSE d[j - Len(e)]
      <3>1. Len(e2) <= Len(e) + Len(d)
        BY <1>1, <1>4, <1>5, <1>6
      <3>2. j \in 1..Len(e) + Len(d)
        BY <3>1, <1>1, <1>6
      <3>3. e2[i] = (e \o d)[j]
        <4>1. e2[i] = (e \o d)[Len(e \o d) - Len(e2) + i]
          BY <1>5
        <4>2. j = Len(e \o d) - Len(e2) + i
          BY <1>4
        <4>. HIDE DEF j
        <4>. QED  BY <4>1, <4>2
      <3>. HIDE DEF j
      <3>. QED  BY <3>2, <3>3, <1>4
    <2>2. CASE j <= Len(e)
      <3>1. e[j] = q[Len(q) - Len(h) - Len(e) + j]
        BY <2>1, <2>2, <1>1, <1>6 DEF Remembers
      <3>2. Len(q) - Len(h) - Len(e) + j = Len(q) - Len(h2) - Len(e2) + i
        BY <1>1, <1>6
      <3>. QED  BY <2>1, <2>2, <3>1, <3>2
    <2>3. CASE j > Len(e)
      <3>1. j - Len(e) \in 1..Len(d) /\ j - Len(e) \in 1..Len(h)
        BY <2>1, <2>3, <1>1, <1>6
      <3>2. d[j - Len(e)] = q[Len(q) - Len(h) + (j - Len(e))]
        BY <3>1, <1>2 DEF Remembers
      <3>3. Len(q) - Len(h) + (j - Len(e)) = Len(q) - Len(h2) - Len(e2) + i
        BY <1>1, <1>6
      <3>. QED  BY <2>1, <2>3, <1>1, <1>6, <3>2, <3>3
    <2>. QED  BY <2>1, <2>2, <2>3, <1>1, <1>6
  <1>. QED  BY <1>7, <1>8, <1>9 DEF Remembers, d, h2, e2

\* A new question joins the history and the questions.
LEMMA QuestionRemembered ==
  ASSUME NEW S, NEW e \in Seq(S), NEW h \in Seq(S), NEW q \in Seq(S), NEW m \in S, Remembers(e, h, q)
  PROVE  Remembers(e, Append(h, m), Append(q, m))
  <1>1. Len(e) \in Nat /\ Len(h) \in Nat /\ Len(q) \in Nat /\ MAX_EARLIER \in Nat
    BY LenProperties, SessionStateAssumption
  <1>2. /\ Len(Append(h, m)) = Len(h) + 1 /\ Append(h, m)[Len(h) + 1] = m
        /\ \A i \in 1..Len(h) : Append(h, m)[i] = h[i]
    BY AppendProperties
  <1>3. /\ Len(Append(q, m)) = Len(q) + 1 /\ Append(q, m)[Len(q) + 1] = m
        /\ \A i \in 1..Len(q) : Append(q, m)[i] = q[i]
    BY AppendProperties
  <1>4. ASSUME NEW i \in 1..Len(h) + 1
        PROVE  Append(h, m)[i] = Append(q, m)[(Len(q) + 1) - (Len(h) + 1) + i]
    <2>1. CASE i = Len(h) + 1
      BY <2>1, <1>1, <1>2, <1>3
    <2>2. CASE i # Len(h) + 1
      <3>1. i \in 1..Len(h) /\ Len(q) - Len(h) + i \in 1..Len(q)
        BY <2>2, <1>1 DEF Remembers
      <3>2. (Len(q) + 1) - (Len(h) + 1) + i = Len(q) - Len(h) + i
        BY <1>1
      <3>. QED  BY <3>1, <3>2, <1>2, <1>3 DEF Remembers
    <2>. QED  BY <2>1, <2>2
  <1>5. ASSUME NEW i \in 1..Len(e)
        PROVE  e[i] = Append(q, m)[(Len(q) + 1) - (Len(h) + 1) - Len(e) + i]
    <2>1. Len(q) - Len(h) - Len(e) + i \in 1..Len(q)
      BY <1>1 DEF Remembers
    <2>2. (Len(q) + 1) - (Len(h) + 1) - Len(e) + i = Len(q) - Len(h) - Len(e) + i
      BY <1>1
    <2>. QED  BY <2>1, <2>2, <1>3 DEF Remembers
  <1>6. /\ Len(e) + (Len(h) + 1) <= Len(q) + 1
        /\ Len(e) < MAX_EARLIER => Len(e) + (Len(h) + 1) = Len(q) + 1
    BY <1>1 DEF Remembers
  <1>. QED
    <2>. DEFINE h2 == Append(h, m)
                q2 == Append(q, m)
    <2>1. Len(h2) = Len(h) + 1 /\ Len(q2) = Len(q) + 1
      BY <1>2, <1>3
    <2>2. /\ \A i \in 1..Len(h2) : h2[i] = q2[Len(q2) - Len(h2) + i]
          /\ \A i \in 1..Len(e) : e[i] = q2[Len(q2) - Len(h2) - Len(e) + i]
      BY <1>4, <1>5, <2>1
    <2>3. /\ Len(e) + Len(h2) <= Len(q2)
          /\ Len(e) < MAX_EARLIER => Len(e) + Len(h2) = Len(q2)
      BY <1>6, <2>1
    <2>. HIDE DEF h2, q2
    <2>4. Remembers(e, h2, q2)
      BY <2>2, <2>3 DEF Remembers
    <2>. QED  BY <2>4 DEF h2, q2

\* What is remembered is one stretch of the questions, up to the last one.
LEMMA RememberedStretch ==
  ASSUME NEW S, NEW e \in Seq(S), NEW h \in Seq(S), NEW q \in Seq(S), Remembers(e, h, q)
  PROVE  /\ e \o h = Newest(Len(e \o h), q)
         /\ Len(e) < MAX_EARLIER => e \o h = q
  <1>. DEFINE n == Len(e) + Len(h)
  <1>1. Len(e) \in Nat /\ Len(h) \in Nat /\ Len(q) \in Nat /\ n \in Nat /\ n <= Len(q)
    BY LenProperties DEF Remembers
  <1>2. /\ e \o h \in Seq(S) /\ Len(e \o h) = n
        /\ \A i \in 1..n : (e \o h)[i] = IF i <= Len(e) THEN e[i] ELSE h[i - Len(e)]
    BY ConcatProperties
  <1>3. /\ Newest(n, q) \in Seq(S) /\ Len(Newest(n, q)) = n
        /\ \A i \in 1..n : Newest(n, q)[i] = q[Len(q) - n + i]
    <2>. HIDE DEF n
    <2>1. Len(Newest(n, q)) = n
      BY <1>1, NewestIs
    <2>2. /\ Newest(n, q) \in Seq(S)
          /\ \A i \in 1..Len(Newest(n, q)) : Newest(n, q)[i] = q[Len(q) - Len(Newest(n, q)) + i]
      BY <1>1, NewestIs
    <2>. QED  BY <2>1, <2>2
  <1>4. ASSUME NEW i \in 1..n PROVE (e \o h)[i] = q[Len(q) - n + i]
    <2>1. CASE i <= Len(e)
      <3>1. e[i] = q[Len(q) - Len(h) - Len(e) + i]
        BY <1>1, <2>1 DEF Remembers
      <3>2. Len(q) - Len(h) - Len(e) + i = Len(q) - n + i
        BY <1>1
      <3>. QED  BY <2>1, <1>2, <3>1, <3>2
    <2>2. CASE i > Len(e)
      <3>1. i - Len(e) \in 1..Len(h)
        BY <1>1, <2>2
      <3>2. h[i - Len(e)] = q[Len(q) - Len(h) + (i - Len(e))]
        BY <3>1 DEF Remembers
      <3>3. Len(q) - Len(h) + (i - Len(e)) = Len(q) - n + i
        BY <1>1
      <3>. QED  BY <1>1, <2>2, <1>2, <3>2, <3>3
    <2>. QED  BY <2>1, <2>2, <1>1
  <1>5. e \o h = Newest(n, q)
    <2>1. \A i \in 1..n : (e \o h)[i] = Newest(n, q)[i]
      BY <1>3, <1>4
    <2>. QED  BY <2>1, <1>2, <1>3, SeqEqual
  <1>6. ASSUME Len(e) < MAX_EARLIER PROVE e \o h = q
    <2>1. n = Len(q)
      BY <1>6 DEF Remembers
    <2>2. ASSUME NEW i \in 1..n PROVE (e \o h)[i] = q[i]
      <3>1. Len(q) - n + i = i
        BY <2>1, <1>1
      <3>. QED  BY <3>1, <1>4
    <2>. QED  BY <2>1, <2>2, <1>2, SeqEqual
  <1>. QED  BY <1>2, <1>5, <1>6

------------------------------------------------------------------------------
(* The newest handles of a set                                               *)

LEMMA LeastElement ==
  ASSUME NEW T, T \subseteq Nat, T # {}
  PROVE  \E x \in T : \A y \in T : x <= y
  <1>1. \E x \in T : \A y \in T : ~ (<<y, x>> \in OpToRel(<, Nat))
    BY NatLessThanWellFounded, WFMin
  <1>2. PICK x \in T : \A y \in T : ~ (<<y, x>> \in OpToRel(<, Nat))
    BY <1>1
  <1>3. ASSUME NEW y \in T PROVE x <= y
    <2>1. x \in Nat /\ y \in Nat
      OBVIOUS
    <2>2. ASSUME y < x PROVE FALSE
      <3>1. <<y, x>> \in OpToRel(<, Nat)
        BY <2>1, <2>2 DEF OpToRel
      <3>. QED  BY <3>1, <1>2
    <2>. QED  BY <2>1, <2>2
  <1>. QED  BY <1>3

\* At most n handles are the n newest.
LEMMA LargestIs ==
  ASSUME NEW S, S \subseteq Nat, IsFiniteSet(S), NEW n \in Nat
  PROVE  /\ Largest(n, S) \subseteq S
         /\ IsFiniteSet(Largest(n, S)) /\ Cardinality(Largest(n, S)) <= n
  <1>. DEFINE L == Largest(n, S)
  <1>1. L \subseteq S /\ IsFiniteSet(L)
    BY FS_Subset DEF Largest
  <1>2. CASE L = {}
    BY <1>1, <1>2, FS_EmptySet
  <1>3. CASE L # {}
    <2>1. PICK m \in L : \A y \in L : m <= y
      <3>1. L \subseteq Nat
        BY <1>1
      <3>. HIDE DEF L
      <3>. QED  BY <3>1, <1>3, LeastElement
    <2>. DEFINE newer == {k \in S : k > m}
    <2>2. Cardinality(newer) < n
      BY <2>1 DEF Largest
    <2>3. IsFiniteSet(newer) /\ Cardinality(newer) \in Nat
      BY FS_Subset, FS_CardinalityType
    <2>4. ASSUME NEW k \in L \ {m} PROVE k \in newer
      <3>1. k \in S /\ k \in Nat /\ m \in Nat /\ m <= k /\ k # m
        BY <2>1, <1>1
      <3>. QED  BY <3>1
    <2>. HIDE DEF L, newer
    <2>5. Cardinality(L \ {m}) <= Cardinality(newer) /\ Cardinality(L \ {m}) = Cardinality(L) - 1
      BY <2>1, <2>3, <2>4, <1>1, FS_Subset, FS_RemoveElement
    <2>6. Cardinality(L) \in Nat
      BY <1>1, FS_CardinalityType
    <2>. QED  BY <2>2, <2>3, <2>5, <2>6, <1>1 DEF L
  <1>. QED  BY <1>2, <1>3

\* A handle that is greater than all others is among the newest.
LEMMA NewestHandleKept ==
  ASSUME NEW S, S \subseteq Nat, NEW n \in Nat \ {0}, NEW h \in S, \A k \in S : k <= h
  PROVE  h \in Largest(n, S)
  <1>1. \A k \in S : ~(k > h)
    OBVIOUS
  <1>2. {k \in S : k > h} = {}
    BY <1>1
  <1>3. Cardinality({k \in S : k > h}) < n
    BY <1>2, FS_EmptySet
  <1>. QED  BY <1>3 DEF Largest

------------------------------------------------------------------------------
(* States of a session                                                       *)

State == {s \in [groups : UNION {[D -> Group] : D \in SUBSET Nat},
                 next_group : Nat \ {0}, earlier : Seq(Message)] : IsState(s)}

LEMMA StateIs ==
  ASSUME NEW s \in State
  PROVE  /\ s = [groups |-> s.groups, next_group |-> s.next_group, earlier |-> s.earlier]
         /\ IsState(s) /\ s.next_group \in Nat \ {0}
         /\ DOMAIN s.groups \subseteq Nat /\ IsFiniteSet(DOMAIN s.groups)
         /\ Cardinality(DOMAIN s.groups) \in Nat
  <1>1. IsState(s) /\ s.next_group \in Nat \ {0}
        /\ s = [groups |-> s.groups, next_group |-> s.next_group, earlier |-> s.earlier]
    BY DEF State
  <1>2. DOMAIN s.groups \subseteq 1..s.next_group - 1
    BY <1>1 DEF IsState
  <1>3. IsFiniteSet(1..s.next_group - 1)
    BY <1>1, FS_Interval
  <1>4. IsFiniteSet(DOMAIN s.groups)
    BY <1>2, <1>3, FS_Subset
  <1>5. 1..s.next_group - 1 \subseteq Nat
    BY <1>1
  <1>. QED  BY <1>1, <1>2, <1>4, <1>5, FS_CardinalityType

LEMMA StateBuilt ==
  ASSUME NEW D, NEW f \in [D -> Group], NEW n \in Nat \ {0}, NEW e \in Seq(Message),
         D \subseteq 1..n - 1, Cardinality(D) <= MAX_GROUPS, Len(e) <= MAX_EARLIER
  PROVE  [groups |-> f, next_group |-> n, earlier |-> e] \in State
  <1>. DEFINE s == [groups |-> f, next_group |-> n, earlier |-> e]
  <1>1. D \in SUBSET Nat
    OBVIOUS
  <1>2. f \in UNION {[C -> Group] : C \in SUBSET Nat}
    BY <1>1
  <1>3. s \in [groups : UNION {[C -> Group] : C \in SUBSET Nat},
               next_group : Nat \ {0}, earlier : Seq(Message)]
    BY <1>2
  <1>4. IsState(s)
    BY DEF IsState
  <1>. QED  BY <1>3, <1>4 DEF State

LEMMA NewStateIs == NewState \in State
  <1>. DEFINE f == [h \in {} |-> {}]
              e == <<>>
  <1>1. f \in [{} -> Group] /\ Cardinality({}) <= MAX_GROUPS
    BY FS_EmptySet, SessionStateAssumption
  <1>2. e \in Seq(Message) /\ Len(e) <= MAX_EARLIER
    BY EmptySeq, SessionStateAssumption
  <1>3. NewState = [groups |-> f, next_group |-> 1, earlier |-> e]
    BY DEF NewState
  <1>. HIDE DEF f, e
  <1>4. ASSUME NEW n \in Nat \ {0}, n = 1 PROVE [groups |-> f, next_group |-> n, earlier |-> e] \in State
    <2>1. {} \subseteq 1..n - 1
      OBVIOUS
    <2>. QED  BY <2>1, <1>1, <1>2, StateBuilt
  <1>. QED  BY <1>3, <1>4

\* Noting dropped questions changes the remembered questions only.
LEMMA NoteDroppedIs ==
  ASSUME NEW s \in State, NEW q \in Seq(Message)
  PROVE  /\ note_dropped(s, q) \in State
         /\ note_dropped(s, q).groups = s.groups /\ note_dropped(s, q).next_group = s.next_group
         /\ note_dropped(s, q).earlier = Newest(MAX_EARLIER, s.earlier \o q)
  <1>. DEFINE e == Newest(MAX_EARLIER, s.earlier \o q)
  <1>1. IsState(s) /\ s.next_group \in Nat \ {0}
    BY StateIs
  <1>2. s.earlier \o q \in Seq(Message)
    BY <1>1, ConcatProperties DEF IsState
  <1>3. e \in Seq(Message) /\ Len(e) <= MAX_EARLIER
    <2>1. MAX_EARLIER \in Nat /\ Len(s.earlier \o q) \in Nat
      BY <1>2, LenProperties, SessionStateAssumption
    <2>2. e \in Seq(Message) /\ Len(e) = IF Len(s.earlier \o q) > MAX_EARLIER THEN MAX_EARLIER ELSE Len(s.earlier \o q)
      BY <1>2, <2>1, NewestIs
    <2>. QED  BY <2>1, <2>2
  <1>. HIDE DEF e
  <1>4. note_dropped(s, q) = [groups |-> s.groups, next_group |-> s.next_group, earlier |-> e]
    BY StateIs DEF note_dropped, e
  <1>5. [groups |-> s.groups, next_group |-> s.next_group, earlier |-> e] \in State
    BY <1>1, <1>3, StateBuilt DEF IsState
  <1>. QED  BY <1>4, <1>5 DEF e

\* Adding a group keeps at most MAX_GROUPS handles, the new one among them, and gives a handle
\* that was never given before; the handles that stay stand for what they stood for.
LEMMA AddGroupIs ==
  ASSUME NEW s \in State, NEW g \in Group
  PROVE  LET a == add_group(s, g)
         IN  /\ a \in State /\ a.earlier = s.earlier
             /\ s.next_group <= a.next_group
             /\ HandlesOf(a, g) # {}
             /\ \A k \in DOMAIN a.groups :
                   IF k \in DOMAIN s.groups THEN a.groups[k] = s.groups[k]
                   ELSE k = s.next_group /\ a.groups[k] = g /\ s.next_group < a.next_group
  <1>. DEFINE a == add_group(s, g)
              h == s.next_group
              H == DOMAIN s.groups \cup {h}
              L == Largest(MAX_GROUPS, H)
              f == [k \in L |-> IF k = h THEN g ELSE s.groups[k]]
  <1>1. /\ IsState(s) /\ h \in Nat \ {0} /\ MAX_GROUPS \in Nat \ {0}
        /\ DOMAIN s.groups \subseteq Nat /\ IsFiniteSet(DOMAIN s.groups)
        /\ DOMAIN s.groups \subseteq 1..h - 1
        /\ s = [groups |-> s.groups, next_group |-> s.next_group, earlier |-> s.earlier]
    BY StateIs, SessionStateAssumption DEF IsState
  <1>2. CASE HandlesOf(s, g) # {}
    <2>1. a = s
      BY <1>2 DEF add_group
    <2>. QED  BY <1>1, <1>2, <2>1
  <1>3. CASE HandlesOf(s, g) = {}
    <2>1. H \subseteq Nat /\ IsFiniteSet(H) /\ H \subseteq 1..(h + 1) - 1
      BY <1>1, FS_AddElement
    <2>2. L \subseteq H /\ Cardinality(L) <= MAX_GROUPS
      BY <1>1, <2>1, LargestIs
    <2>3. \A k \in H : k <= h
      BY <1>1
    <2>4. h \in L
      BY <1>1, <2>1, <2>3, NewestHandleKept
    <2>5. f \in [L -> Group]
      BY <2>2, <1>1 DEF IsState
    <2>6. a = [groups |-> f, next_group |-> h + 1, earlier |-> s.earlier]
      BY <1>1, <1>3 DEF add_group
    <2>. HIDE DEF L, f
    <2>7. L \subseteq 1..(h + 1) - 1 /\ h + 1 \in Nat \ {0}
      BY <2>1, <2>2, <1>1
    <2>8. a \in State
      BY <2>2, <2>5, <2>6, <2>7, <1>1, StateBuilt DEF IsState
    <2>9. DOMAIN a.groups = L /\ a.next_group = h + 1 /\ a.earlier = s.earlier
          /\ \A k \in L : a.groups[k] = IF k = h THEN g ELSE s.groups[k]
      BY <2>6 DEF f
    <2>10. h \in HandlesOf(a, g)
      BY <2>4, <2>9 DEF HandlesOf
    <2>11. h \notin DOMAIN s.groups
      BY <1>1
    <2>. QED  BY <2>2, <2>8, <2>9, <2>10, <2>11, <1>1
  <1>. QED  BY <1>2, <1>3

------------------------------------------------------------------------------
(* Handles that were given out                                               *)

\* No handle of G stands for two groups, none is yet to be given, and those that the state still
\* holds stand there for the same group.
Consistent(s, G) ==
    \A g \in G : /\ g[1] < s.next_group
                 /\ g[1] \in DOMAIN s.groups => s.groups[g[1]] = g[2]
                 /\ \A k \in G : g[1] = k[1] => g[2] = k[2]

LEMMA AddedConsistent ==
  ASSUME NEW s \in State, NEW g \in Group, NEW G \in SUBSET (Nat \X Group), Consistent(s, G)
  PROVE  Consistent(add_group(s, g), G)
  <1>. DEFINE a == add_group(s, g)
  <1>1. /\ a \in State /\ s.next_group <= a.next_group
        /\ \A k \in DOMAIN a.groups :
              IF k \in DOMAIN s.groups THEN a.groups[k] = s.groups[k] ELSE k = s.next_group
    BY AddGroupIs
  <1>2. s.next_group \in Nat /\ a.next_group \in Nat
    BY <1>1, StateIs
  <1>. HIDE DEF a
  <1>3. ASSUME NEW x \in G
        PROVE  /\ x[1] < a.next_group
               /\ x[1] \in DOMAIN a.groups => a.groups[x[1]] = x[2]
               /\ \A k \in G : x[1] = k[1] => x[2] = k[2]
    <2>1. /\ x[1] \in Nat /\ x[1] < s.next_group /\ (x[1] \in DOMAIN s.groups => s.groups[x[1]] = x[2])
          /\ \A k \in G : x[1] = k[1] => x[2] = k[2]
      BY DEF Consistent
    <2>. QED  BY <2>1, <1>1, <1>2
  <1>. QED  BY <1>3 DEF Consistent, a

LEMMA GivenConsistent ==
  ASSUME NEW s \in State, NEW G \in SUBSET (Nat \X Group), Consistent(s, G), NEW h \in DOMAIN s.groups
  PROVE  Consistent(s, G \cup {<<h, s.groups[h]>>})
  <1>1. h < s.next_group
    BY StateIs DEF IsState
  <1>. QED  BY <1>1 DEF Consistent

------------------------------------------------------------------------------
(* Turns                                                                     *)

Working == {"classify", "products", "scoped", "render", "loop", "save"}
ControlPoint == {"idle", "get", "lock", "read", "release", "done"} \cup Working

\* The values of a turn, whatever the other turns hold.
TurnValue == [pc : ControlPoint, outcome : Outcome, number : Nat, allowed : SUBSET Region, over : BOOLEAN,
              base : Nat, state : State, history : Seq(Message),
              group : Nat, asked : SUBSET SUBSET Region, lists : BOOLEAN,
              steps : 0..MAX_STEPS, uses : 0..MaxUses,
              given : SUBSET (Nat \X Group), shown : SUBSET Region]

LEMMA NoTurnIs ==
  /\ NoTurn \in TurnValue
  /\ NoTurn.pc = "idle" /\ NoTurn.outcome = "none" /\ NoTurn.base = 0
  /\ NoTurn.history \in Seq(Message) /\ Len(NoTurn.history) <= MAX_TURNS
  /\ NoTurn.given = {} /\ NoTurn.shown = {}
  <1>1. <<>> \in Seq(Message) /\ Len(<<>>) <= MAX_TURNS
    BY EmptySeq, SessionStateAssumption
  <1>2. NoTurn \in TurnValue
    BY <1>1, NewStateIs, ChatAssumption DEF NoTurn, TurnValue, ControlPoint, Outcome
  <1>. QED  BY <1>1, <1>2 DEF NoTurn

\* What a tool call, or any other step of a turn, changes: never the remembered questions, only
\* handles that were not given before, and results within the permission.
Tooled(t, u) ==
    /\ u \in TurnValue
    /\ u.outcome = t.outcome /\ u.number = t.number /\ u.allowed = t.allowed /\ u.base = t.base
    /\ u.history = t.history /\ u.state.earlier = t.state.earlier
    /\ t.shown \subseteq t.allowed => u.shown \subseteq u.allowed
    /\ \A G \in SUBSET (Nat \X Group) :
          Consistent(t.state, G \cup t.given) => Consistent(u.state, G \cup u.given)

LEMMA RegionsAre ==
  ASSUME NEW t \in TurnValue, NEW asked \in SUBSET SUBSET Region
  PROVE  RegionsOf(t, asked) \in SUBSET Region
  BY DEF RegionsOf, TurnValue

LEMMA ArgumentsAre == RegionArguments \subseteq SUBSET SUBSET Region
  BY DEF RegionArguments

LEMMA ResolveIs ==
  ASSUME NEW t \in TurnValue, NEW list \in List, NEW asked \in SUBSET SUBSET Region
  PROVE  Tooled(t, Resolve(t, list, asked)) /\ Resolve(t, list, asked).pc = t.pc
  <1>. DEFINE regions == RegionsOf(t, asked)
              group == [list |-> list, regions |-> regions]
              state == add_group(t.state, group)
              h == CHOOSE k \in HandlesOf(state, group) : TRUE
              u == [t EXCEPT !.state = state, !.group = h, !.given = @ \cup {<<h, group>>},
                             !.shown = group.regions]
  <1>1. CASE ~Permitted(t, asked) \/ group.regions = {}
    <2>1. Resolve(t, list, asked) = t
      BY <1>1 DEF Resolve
    <2>. QED  BY <2>1 DEF Tooled
  <1>2. CASE ~(~Permitted(t, asked) \/ group.regions = {})
    <2>1. Resolve(t, list, asked) = u
      BY <1>2 DEF Resolve
    <2>2. group \in Group /\ t.state \in State
      BY RegionsAre DEF Group, TurnValue
    <2>3. state \in State /\ state.earlier = t.state.earlier /\ HandlesOf(state, group) # {}
      BY <2>2, AddGroupIs
    <2>4. h \in HandlesOf(state, group)
      BY <2>3
    <2>5. group.regions \subseteq t.allowed /\ group.regions \in SUBSET Region
      BY <1>2, RegionsAre DEF Permitted
    <2>6. \A G \in SUBSET (Nat \X Group) : Consistent(t.state, G) => Consistent(state, G)
      BY <2>2, AddedConsistent
    <2>. HIDE DEF state, h, group
    <2>7. h \in DOMAIN state.groups /\ state.groups[h] = group /\ h \in Nat
      BY <2>3, <2>4, StateIs DEF HandlesOf
    <2>8. u \in TurnValue
      <3>. DEFINE given == t.given \cup {<<h, group>>}
                  shown == group.regions
      <3>1. given \in SUBSET (Nat \X Group)
        BY <2>2, <2>7 DEF TurnValue
      <3>2. shown \in SUBSET Region
        BY <2>5
      <3>3. u = [t EXCEPT !.state = state, !.group = h, !.given = given, !.shown = shown]
        BY DEF TurnValue
      <3>. HIDE DEF given, shown, u
      <3>. QED  BY <3>1, <3>2, <3>3, <2>3, <2>7 DEF TurnValue
    <2>9. ASSUME NEW G \in SUBSET (Nat \X Group), Consistent(t.state, G \cup t.given)
          PROVE  Consistent(u.state, G \cup u.given)
      <3>1. G \cup t.given \in SUBSET (Nat \X Group)
        BY DEF TurnValue
      <3>2. Consistent(state, G \cup t.given)
        BY <3>1, <2>6, <2>9
      <3>3. Consistent(state, (G \cup t.given) \cup {<<h, group>>})
        BY <3>1, <3>2, <2>3, <2>7, GivenConsistent
      <3>4. u.state = state /\ G \cup u.given = (G \cup t.given) \cup {<<h, group>>}
        BY DEF TurnValue
      <3>. QED  BY <3>3, <3>4
    <2>10. u.shown \subseteq u.allowed /\ u.state.earlier = t.state.earlier /\ u.pc = t.pc
           /\ u.outcome = t.outcome /\ u.number = t.number /\ u.allowed = t.allowed
           /\ u.base = t.base /\ u.history = t.history
      BY <2>3, <2>5 DEF TurnValue
    <2>. HIDE DEF u
    <2>. QED  BY <2>1, <2>8, <2>9, <2>10 DEF Tooled
  <1>. QED  BY <1>1, <1>2

LEMMA ScopedIs ==
  ASSUME NEW t \in TurnValue, NEW h \in Nat, NEW asked \in SUBSET SUBSET Region
  PROVE  Tooled(t, Scoped(t, h, asked)) /\ Scoped(t, h, asked).pc = t.pc
  <1>. DEFINE wanted == IF h # 0 /\ asked = {} THEN {t.state.groups[h].regions} ELSE asked
              u == [t EXCEPT !.shown = RegionsOf(t, wanted)]
  <1>1. CASE ~((h # 0 => h \in DOMAIN t.state.groups) /\ Permitted(t, wanted))
    <2>1. Scoped(t, h, asked) = t
      BY <1>1 DEF Scoped
    <2>. QED  BY <2>1 DEF Tooled
  <1>2. CASE (h # 0 => h \in DOMAIN t.state.groups) /\ Permitted(t, wanted)
    <2>1. Scoped(t, h, asked) = u
      BY <1>2 DEF Scoped
    <2>2. RegionsOf(t, wanted) \subseteq t.allowed
      BY <1>2 DEF Permitted
    <2>. HIDE DEF wanted
    <2>3. u \in TurnValue /\ u.state = t.state /\ u.given = t.given /\ u.shown \subseteq u.allowed
          /\ u.outcome = t.outcome /\ u.number = t.number /\ u.allowed = t.allowed
          /\ u.base = t.base /\ u.history = t.history /\ u.pc = t.pc
      BY <2>2 DEF TurnValue
    <2>. QED  BY <2>1, <2>3 DEF Tooled
  <1>. QED  BY <1>1, <1>2

\* The fields that no property of a session looks at.
SameSession(t, u) ==
    /\ u.outcome = t.outcome /\ u.number = t.number /\ u.allowed = t.allowed /\ u.base = t.base
    /\ u.history = t.history /\ u.state = t.state /\ u.given = t.given /\ u.shown = t.shown

LEMMA SameIsTooled ==
  ASSUME NEW t, NEW u \in TurnValue, NEW w \in TurnValue, Tooled(t, u), SameSession(u, w)
  PROVE  Tooled(t, w)
  BY DEF Tooled, SameSession

LEMMA TooledTwice ==
  ASSUME NEW t, NEW u, NEW w, Tooled(t, u), Tooled(u, w)
  PROVE  Tooled(t, w)
  BY DEF Tooled

\* One step of the work of a turn.
Works(m) == \E u \in TurnValue :
                /\ turn[m].pc \in Working /\ u.pc \in Working /\ Tooled(turn[m], u)
                /\ Moves(m, u)

LEMMA WorkingSteps ==
  ASSUME NEW m \in Message, turn[m] \in TurnValue,
         \/ Classify(m) \/ Validate(m) \/ Products(m) \/ ScopedTools(m) \/ Render(m)
         \/ ModelCall(m) \/ LoopTool(m) \/ Escalate(m)
  PROVE  Works(m)
  <1>. DEFINE t == turn[m]
  <1>0. t \in TurnValue /\ Tooled(t, t)
    BY DEF Tooled
  <1>1. ASSUME NEW u \in TurnValue, t.pc \in Working, u.pc \in Working, SameSession(t, u), Moves(m, u)
        PROVE  Works(m)
    <2>1. Tooled(t, u)
      BY <1>0, <1>1, SameIsTooled
    <2>. QED  BY <1>1, <2>1 DEF Works
  <1>2. ASSUME NEW u, NEW w \in TurnValue, t.pc \in Working, w.pc \in Working, Tooled(t, u), SameSession(u, w), Moves(m, w)
        PROVE  Works(m)
    <2>0. u \in TurnValue
      BY <1>2 DEF Tooled
    <2>1. Tooled(t, w)
      BY <1>2, <2>0, SameIsTooled
    <2>. QED  BY <1>2, <2>1 DEF Works
  <1>3. CASE Classify(m)
    <2>1. PICK pc \in {"loop", "save", "render"} : Moves(m, [t EXCEPT !.pc = pc])
      BY <1>3 DEF Classify
    <2>. DEFINE u == [t EXCEPT !.pc = pc]
    <2>2. u \in TurnValue /\ u.pc \in Working /\ SameSession(t, u)
      BY <1>0 DEF TurnValue, ControlPoint, Working, SameSession
    <2>. QED  BY <2>1, <2>2, <1>1, <1>3 DEF Classify, Working
  <1>4. CASE Validate(m)
    <2>0. t.group \in Nat /\ t.asked \in SUBSET SUBSET Region /\ t.lists \in BOOLEAN /\ Handles(t) \subseteq Nat
      <3>1. t.state.next_group \in Nat
        BY <1>0, StateIs DEF TurnValue
      <3>. QED  BY <3>1, <1>0 DEF Handles, TurnValue
    <2>1. PICK pc \in Working, group \in Nat, a \in SUBSET SUBSET Region, l \in BOOLEAN :
             Moves(m, [t EXCEPT !.pc = pc, !.group = group, !.asked = a, !.lists = l])
      <3>1. PICK h \in Handles(t), asked \in RegionArguments, lists \in BOOLEAN :
               LET u == [t EXCEPT !.asked = asked, !.lists = lists]
               IN  IF asked # {} /\ ~Permitted(u, asked) THEN Moves(m, [t EXCEPT !.pc = "save"])
                   ELSE IF ~lists /\ h \in DOMAIN u.state.groups THEN Moves(m, [u EXCEPT !.pc = "scoped", !.group = h])
                   ELSE \E pc \in {"products", "scoped"} : (lists => pc = "products") /\ Moves(m, [u EXCEPT !.pc = pc])
        BY <1>4 DEF Validate
      <3>. DEFINE u == [t EXCEPT !.asked = asked, !.lists = lists]
      <3>0. h \in Nat /\ asked \in SUBSET SUBSET Region
        BY <2>0, ArgumentsAre
      <3>2. CASE Moves(m, [t EXCEPT !.pc = "save"])
        <4>1. [t EXCEPT !.pc = "save"] = [t EXCEPT !.pc = "save", !.group = t.group, !.asked = t.asked, !.lists = t.lists]
          BY <1>0 DEF TurnValue
        <4>. QED  BY <2>0, <3>2, <4>1 DEF Working
      <3>3. CASE Moves(m, [u EXCEPT !.pc = "scoped", !.group = h])
        <4>1. [u EXCEPT !.pc = "scoped", !.group = h] = [t EXCEPT !.pc = "scoped", !.group = h, !.asked = asked, !.lists = lists]
          BY <1>0 DEF TurnValue
        <4>. QED  BY <3>0, <3>3, <4>1 DEF Working
      <3>4. CASE \E pc \in {"products", "scoped"} : Moves(m, [u EXCEPT !.pc = pc])
        <4>1. ASSUME NEW pc \in Working
              PROVE  [u EXCEPT !.pc = pc] = [t EXCEPT !.pc = pc, !.group = t.group, !.asked = asked, !.lists = lists]
          BY <1>0 DEF TurnValue
        <4>2. CASE Moves(m, [u EXCEPT !.pc = "products"])
          <5>1. [u EXCEPT !.pc = "products"] = [t EXCEPT !.pc = "products", !.group = t.group, !.asked = asked, !.lists = lists]
            BY <4>1 DEF Working
          <5>. QED  BY <2>0, <3>0, <4>2, <5>1 DEF Working
        <4>3. CASE Moves(m, [u EXCEPT !.pc = "scoped"])
          <5>1. [u EXCEPT !.pc = "scoped"] = [t EXCEPT !.pc = "scoped", !.group = t.group, !.asked = asked, !.lists = lists]
            BY <4>1 DEF Working
          <5>. QED  BY <2>0, <3>0, <4>3, <5>1 DEF Working
        <4>. QED  BY <3>4, <4>2, <4>3
      <3>. QED  BY <3>1, <3>2, <3>3, <3>4
    <2>. DEFINE u == [t EXCEPT !.pc = pc, !.group = group, !.asked = a, !.lists = l]
    <2>3. u \in TurnValue /\ u.pc \in Working /\ SameSession(t, u)
      BY <1>0 DEF TurnValue, ControlPoint, SameSession
    <2>4. t.pc \in Working
      BY <1>4 DEF Validate, Working
    <2>. HIDE DEF u
    <2>. QED  BY <2>1, <2>3, <2>4, <1>1 DEF u
  <1>5. CASE Products(m)
    <2>1. t.pc \in Working
      BY <1>5 DEF Products, Working
    <2>2. CASE Moves(m, [t EXCEPT !.pc = "render"])
      <3>. DEFINE u == [t EXCEPT !.pc = "render"]
      <3>1. u \in TurnValue /\ u.pc \in Working /\ SameSession(t, u)
        BY <1>0 DEF TurnValue, ControlPoint, Working, SameSession
      <3>. QED  BY <2>1, <2>2, <3>1, <1>1
    <2>3. CASE \E list \in List : Moves(m, [Resolve(t, list, t.asked) EXCEPT !.pc = IF t.lists THEN "render" ELSE "scoped"])
      <3>1. PICK list \in List : Moves(m, [Resolve(t, list, t.asked) EXCEPT !.pc = IF t.lists THEN "render" ELSE "scoped"])
        BY <2>3
      <3>. DEFINE u == Resolve(t, list, t.asked)
                  w == [u EXCEPT !.pc = IF t.lists THEN "render" ELSE "scoped"]
      <3>2. t.asked \in SUBSET SUBSET Region
        BY <1>0 DEF TurnValue
      <3>3. Tooled(t, u) /\ u \in TurnValue
        BY <1>0, <3>2, ResolveIs DEF Tooled
      <3>. HIDE DEF u
      <3>4. w \in TurnValue /\ w.pc \in Working /\ SameSession(u, w)
        BY <3>3 DEF TurnValue, ControlPoint, Working, SameSession
      <3>. HIDE DEF w
      <3>. QED  BY <2>1, <3>1, <3>3, <3>4, <1>2 DEF u, w
    <2>. QED  BY <1>5, <2>2, <2>3 DEF Products
  <1>6. CASE ScopedTools(m)
    <2>. DEFINE u == Scoped(t, t.group, t.asked)
                w == [u EXCEPT !.pc = "render"]
    <2>1. t.group \in Nat /\ t.asked \in SUBSET SUBSET Region
      BY <1>0 DEF TurnValue
    <2>2. Tooled(t, u) /\ u \in TurnValue
      BY <1>0, <2>1, ScopedIs DEF Tooled
    <2>. HIDE DEF u
    <2>3. w \in TurnValue /\ w.pc \in Working /\ SameSession(u, w)
      BY <2>2 DEF TurnValue, ControlPoint, Working, SameSession
    <2>4. t.pc \in Working /\ Moves(m, w)
      BY <1>6 DEF ScopedTools, Working, u
    <2>. HIDE DEF w
    <2>. QED  BY <2>2, <2>3, <2>4, <1>2
  <1>7. CASE Render(m)
    <2>. DEFINE u == [t EXCEPT !.pc = "save", !.group = 0, !.asked = {}, !.lists = FALSE]
    <2>1. u \in TurnValue /\ u.pc \in Working /\ SameSession(t, u)
      BY <1>0 DEF TurnValue, ControlPoint, Working, SameSession
    <2>2. t.pc \in Working /\ Moves(m, u)
      BY <1>7 DEF Render, Working
    <2>. QED  BY <2>1, <2>2, <1>1
  <1>8. CASE ModelCall(m)
    <2>1. PICK n \in 0..MaxUses : Moves(m, [t EXCEPT !.steps = Step(t), !.uses = n, !.pc = IF n = 0 THEN "save" ELSE "loop"])
      BY <1>8 DEF ModelCall
    <2>. DEFINE u == [t EXCEPT !.steps = Step(t), !.uses = n, !.pc = IF n = 0 THEN "save" ELSE "loop"]
    <2>2. Step(t) \in 0..MAX_STEPS
      <3>1. t.steps \in 0..MAX_STEPS /\ t.steps < MAX_STEPS
        BY <1>0, <1>8 DEF ModelCall, StepsLeft, TurnValue
      <3>2. t.steps + 1 \in 0..MAX_STEPS
        BY <3>1, ChatAssumption
      <3>. QED  BY <3>2 DEF Step
    <2>3. u \in TurnValue /\ u.pc \in Working /\ SameSession(t, u)
      BY <1>0, <2>2 DEF TurnValue, ControlPoint, Working, SameSession
    <2>4. t.pc \in Working
      BY <1>8 DEF ModelCall, Working
    <2>. QED  BY <2>1, <2>3, <2>4, <1>1
  <1>9. CASE LoopTool(m)
    <2>. DEFINE u == [t EXCEPT !.uses = @ - 1]
    <2>1. t.uses - 1 \in 0..MaxUses /\ t.pc \in Working
      BY <1>0, <1>9, ChatAssumption DEF LoopTool, Working, TurnValue
    <2>2. u \in TurnValue /\ u.pc \in Working /\ SameSession(t, u)
      BY <1>0, <2>1 DEF TurnValue, ControlPoint, Working, SameSession
    <2>3. Tooled(t, u)
      BY <1>0, <2>2, SameIsTooled
    <2>4. PICK asked \in RegionArguments :
             \/ \E list \in List : Moves(m, Resolve(u, list, asked))
             \/ \E h \in Handles(u) : Moves(m, Scoped(u, h, asked))
      BY <1>9 DEF LoopTool
    <2>. HIDE DEF u
    <2>5. asked \in SUBSET SUBSET Region
      BY ArgumentsAre
    <2>6. ASSUME NEW w, Tooled(u, w), w.pc = u.pc, Moves(m, w) PROVE Works(m)
      <3>1. Tooled(t, w) /\ w \in TurnValue
        BY <2>3, <2>6, TooledTwice DEF Tooled
      <3>. QED  BY <3>1, <2>1, <2>2, <2>6 DEF Works
    <2>7. CASE \E list \in List : Moves(m, Resolve(u, list, asked))
      BY <2>2, <2>5, <2>6, <2>7, ResolveIs
    <2>8. CASE \E h \in Handles(u) : Moves(m, Scoped(u, h, asked))
      <3>1. Handles(u) \subseteq Nat
        <4>1. u.state.next_group \in Nat
          BY <2>2, StateIs DEF TurnValue
        <4>. QED  BY <4>1 DEF Handles
      <3>. QED  BY <2>2, <2>5, <2>6, <2>8, <3>1, ScopedIs
    <2>. QED  BY <2>4, <2>7, <2>8
  <1>10. CASE Escalate(m)
    <2>. DEFINE u == [t EXCEPT !.pc = "save"]
    <2>1. u \in TurnValue /\ u.pc \in Working /\ SameSession(t, u)
      BY <1>0 DEF TurnValue, ControlPoint, Working, SameSession
    <2>2. t.pc \in Working /\ Moves(m, u)
      BY <1>10 DEF Escalate, Working
    <2>. QED  BY <2>1, <2>2, <1>1
  <1>. QED  BY <1>3, <1>4, <1>5, <1>6, <1>7, <1>8, <1>9, <1>10

------------------------------------------------------------------------------
(* Typing                                                                    *)

Typed ==
    /\ row \in [version : Nat, state : State, history : Seq(Message)]
    /\ row.version = Len(transcripts) /\ Len(row.history) <= MAX_TURNS + 1
    /\ transcripts \in Seq(Transcript)
    /\ idle \in BOOLEAN /\ week_over \in BOOLEAN
    /\ allowed \in Permission
    /\ lock \in SUBSET Message
    /\ turn \in [Message -> TurnValue] /\ \A m \in Message : Len(turn[m].history) <= MAX_TURNS
    /\ told \in [Message -> {"nothing", "waiting", "gave_up"} \cup Outcome]
    /\ faults \in 0..MaxFaults /\ locks_lost \in BOOLEAN

LEMMA EmptyHistory == <<>> \in Seq(Message) /\ Len(<<>>) = 0
  BY EmptySeq

\* What a handler reads before its turn.
LEMMA ReadIs ==
  ASSUME Typed
  PROVE  /\ Dropped(row.history) \in Seq(Message)
         /\ compact_history(row.history) \in Seq(Message) /\ Len(compact_history(row.history)) <= MAX_TURNS
         /\ note_dropped(row.state, Dropped(row.history)) \in State
  <1>1. row.history \in Seq(Message) /\ row.state \in State /\ MAX_TURNS \in Nat
    BY SessionStateAssumption DEF Typed
  <1>2. Dropped(row.history) \in Seq(Message)
    BY <1>1, DroppedIs
  <1>3. /\ compact_history(row.history) \in Seq(Message)
        /\ Len(compact_history(row.history)) = IF Len(row.history) > MAX_TURNS THEN MAX_TURNS ELSE Len(row.history)
    BY <1>1, NewestIs DEF compact_history
  <1>4. Len(row.history) \in Nat
    BY <1>1, LenProperties
  <1>5. Len(compact_history(row.history)) <= MAX_TURNS
    BY <1>1, <1>3, <1>4
  <1>. QED  BY <1>1, <1>2, <1>3, <1>5, NoteDroppedIs

\* One turn of a typed session may take any value of a turn.
LEMMA OneTurnTyped ==
  ASSUME Typed, NEW m \in Message, NEW u \in TurnValue, Len(u.history) <= MAX_TURNS, turn' = [turn EXCEPT ![m] = u]
  PROVE  turn' \in [Message -> TurnValue] /\ \A k \in Message : Len(turn'[k].history) <= MAX_TURNS
  BY DEF Typed

LEMMA TypedInit == Init => Typed
  <1>. SUFFICES ASSUME Init PROVE Typed
    OBVIOUS
  <1>1. row \in [version : Nat, state : State, history : Seq(Message)]
    BY NewStateIs, EmptyHistory DEF Init
  <1>2. row.version = Len(transcripts) /\ Len(row.history) <= MAX_TURNS + 1
    BY EmptyHistory, SessionStateAssumption DEF Init
  <1>3. transcripts \in Seq(Transcript)
    BY EmptySeq DEF Init
  <1>4. turn \in [Message -> TurnValue] /\ \A m \in Message : Len(turn[m].history) <= MAX_TURNS
    BY NoTurnIs DEF Init
  <1>5. /\ told \in [Message -> {"nothing", "waiting", "gave_up"} \cup Outcome]
        /\ faults \in 0..MaxFaults /\ lock \in SUBSET Message
    BY ChatAssumption DEF Init
  <1>. QED  BY <1>1, <1>2, <1>3, <1>4, <1>5 DEF Init, Typed

\* A handler's step keeps the session typed.
LEMMA HandleTyped ==
  ASSUME Typed, NEW m \in Message,
         Post(m) \/ Get(m) \/ TakeLock(m) \/ Read(m) \/ Works(m) \/ TurnFails(m) \/ SaveTurn(m) \/ Respond(m)
  PROVE  Typed'
  <1>. DEFINE t == turn[m]
  <1>0. /\ t \in TurnValue /\ Len(t.history) <= MAX_TURNS
        /\ turn \in [Message -> TurnValue] /\ allowed \in SUBSET Region /\ week_over \in BOOLEAN
        /\ row.version \in Nat
    BY ChatAssumption DEF Typed
  <1>1. ASSUME NEW u \in TurnValue, Len(u.history) <= MAX_TURNS, turn' = [turn EXCEPT ![m] = u],
               UNCHANGED <<row, transcripts, clock, config>>, lock' \in SUBSET Message,
               told' \in [Message -> {"nothing", "waiting", "gave_up"} \cup Outcome]
        PROVE  Typed'
    BY <1>1, OneTurnTyped DEF Typed, clock, config
  <1>2. ASSUME NEW o \in Outcome
        PROVE  /\ [t EXCEPT !.pc = "release", !.outcome = o] \in TurnValue
               /\ [t EXCEPT !.pc = "release", !.outcome = o].history = t.history
               /\ [turn EXCEPT ![m].pc = "release", ![m].outcome = o]
                      = [turn EXCEPT ![m] = [t EXCEPT !.pc = "release", !.outcome = o]]
    BY <1>0 DEF TurnValue, ControlPoint
  <1>3. lock \in SUBSET Message /\ told \in [Message -> {"nothing", "waiting", "gave_up"} \cup Outcome]
    BY DEF Typed
  <1>4. ASSUME NEW o \in Outcome, Ends(m, o), UNCHANGED <<row, transcripts, clock, config, lock, told>>
        PROVE  Typed'
    <2>. DEFINE u == [t EXCEPT !.pc = "release", !.outcome = o]
    <2>1. u \in TurnValue /\ Len(u.history) <= MAX_TURNS /\ turn' = [turn EXCEPT ![m] = u]
      BY <1>0, <1>2, <1>4 DEF Ends
    <2>. HIDE DEF u
    <2>. QED  BY <2>1, <1>1, <1>3, <1>4
  <1>5. CASE Post(m)
    <2>. DEFINE u == [NoTurn EXCEPT !.pc = "get", !.allowed = allowed, !.over = week_over]
    <2>1. u \in TurnValue /\ Len(u.history) <= MAX_TURNS
      BY <1>0, NoTurnIs DEF TurnValue, ControlPoint
    <2>2. told' \in [Message -> {"nothing", "waiting", "gave_up"} \cup Outcome]
      BY <1>3, <1>5 DEF Post
    <2>. HIDE DEF u
    <2>3. turn' = [turn EXCEPT ![m] = u] /\ UNCHANGED <<row, transcripts, clock, config>> /\ lock' \in SUBSET Message
      BY <1>3, <1>5 DEF Post, u
    <2>. QED  BY <2>1, <2>2, <2>3, <1>1
  <1>6. CASE Get(m)
    <2>1. CASE Expired(m)
      BY <1>4, <1>6, <2>1 DEF Get, Outcome
    <2>2. CASE ~Expired(m)
      <3>. DEFINE u == [t EXCEPT !.pc = "lock", !.base = row.version]
      <3>1. u \in TurnValue /\ Len(u.history) <= MAX_TURNS
        BY <1>0 DEF TurnValue, ControlPoint
      <3>2. turn' = [turn EXCEPT ![m] = u]
        BY <1>0, <1>6, <2>2 DEF Get
      <3>. HIDE DEF u
      <3>. QED  BY <3>1, <3>2, <1>1, <1>3, <1>6 DEF Get
    <2>. QED  BY <2>1, <2>2
  <1>7. CASE TakeLock(m)
    <2>1. CASE lock # {}
      <3>1. Ends(m, "busy") /\ UNCHANGED <<row, transcripts, clock, config, lock, told>>
        BY <1>7, <2>1 DEF TakeLock
      <3>. QED  BY <1>4, <3>1 DEF Outcome
    <2>2. CASE lock = {}
      <3>. DEFINE u == [t EXCEPT !.pc = "read"]
      <3>1. u \in TurnValue /\ Len(u.history) <= MAX_TURNS
        BY <1>0 DEF TurnValue, ControlPoint
      <3>2. turn' = [turn EXCEPT ![m] = u] /\ lock' \in SUBSET Message
            /\ UNCHANGED <<row, transcripts, clock, config, told>>
        BY <1>0, <1>7, <2>2 DEF TakeLock
      <3>. HIDE DEF u
      <3>. QED  BY <3>1, <3>2, <1>1, <1>3
    <2>. QED  BY <2>1, <2>2
  <1>8. CASE Read(m)
    <2>1. CASE Expired(m)
      BY <1>4, <1>8, <2>1 DEF Read, Outcome
    <2>2. CASE ~Expired(m)
      <3>1. PICK pc \in {"classify", "loop"} :
               turn' = [turn EXCEPT ![m].pc = pc, ![m].base = row.version,
                                    ![m].history = compact_history(row.history),
                                    ![m].state = note_dropped(row.state, Dropped(row.history))]
        BY <1>8, <2>2 DEF Read
      <3>. DEFINE h == compact_history(row.history)
                  s == note_dropped(row.state, Dropped(row.history))
                  u == [t EXCEPT !.pc = pc, !.base = row.version, !.history = h, !.state = s]
      <3>2. turn' = [turn EXCEPT ![m] = u]
        BY <1>0, <3>1
      <3>3. h \in Seq(Message) /\ Len(h) <= MAX_TURNS /\ s \in State
        BY ReadIs
      <3>. HIDE DEF h, s
      <3>4. u \in TurnValue /\ Len(u.history) <= MAX_TURNS
        BY <1>0, <3>3 DEF TurnValue, ControlPoint, Working
      <3>. HIDE DEF u
      <3>. QED  BY <3>2, <3>4, <1>1, <1>3, <1>8 DEF Read
    <2>. QED  BY <2>1, <2>2
  <1>9. CASE Works(m)
    <2>1. PICK u \in TurnValue : Tooled(t, u) /\ Moves(m, u)
      BY <1>9 DEF Works
    <2>2. Len(u.history) <= MAX_TURNS
      BY <1>0, <2>1 DEF Tooled
    <2>. QED  BY <2>1, <2>2, <1>1, <1>3 DEF Moves
  <1>10. CASE TurnFails(m)
    BY <1>4, <1>10 DEF TurnFails, Outcome
  <1>11. CASE SaveTurn(m)
    <2>1. CASE ~Unchanged(m)
      <3>1. Ends(m, "conflict") /\ UNCHANGED <<row, transcripts, clock, config, lock, told>>
        BY <1>11, <2>1 DEF SaveTurn, clock
      <3>. QED  BY <1>4, <3>1 DEF Outcome
    <2>2. CASE Unchanged(m)
      <3>1. /\ row' = [version |-> row.version + 1, state |-> t.state, history |-> Append(t.history, m)]
            /\ transcripts' = Append(transcripts, [question |-> m, given |-> t.given])
            /\ idle' = FALSE
            /\ turn' = [turn EXCEPT ![m].pc = "release", ![m].outcome = "answer", ![m].number = row.version + 1]
            /\ UNCHANGED <<week_over, config, lock, told>>
        BY <1>11, <2>2 DEF SaveTurn
      <3>. DEFINE u == [t EXCEPT !.pc = "release", !.outcome = "answer", !.number = row.version + 1]
      <3>2. turn' = [turn EXCEPT ![m] = u]
        BY <1>0, <3>1
      <3>3. u \in TurnValue /\ Len(u.history) <= MAX_TURNS
        <4>1. row.version + 1 \in Nat
          BY <1>0
        <4>. QED  BY <4>1, <1>0 DEF TurnValue, ControlPoint, Outcome
      <3>. HIDE DEF u
      <3>4. turn' \in [Message -> TurnValue] /\ \A k \in Message : Len(turn'[k].history) <= MAX_TURNS
        BY <3>2, <3>3, OneTurnTyped
      <3>5. t.history \in Seq(Message) /\ t.state \in State /\ t.given \in SUBSET (Nat \X Group)
        BY <1>0 DEF TurnValue
      <3>6. Append(t.history, m) \in Seq(Message) /\ Len(Append(t.history, m)) = Len(t.history) + 1
        BY <3>5, AppendProperties
      <3>7. Len(t.history) \in Nat /\ MAX_TURNS \in Nat
        BY <3>5, LenProperties, SessionStateAssumption
      <3>8. row' \in [version : Nat, state : State, history : Seq(Message)] /\ row'.version = row.version + 1
            /\ row'.history = Append(t.history, m)
        BY <1>0, <3>1, <3>5, <3>6
      <3>9. [question |-> m, given |-> t.given] \in Transcript
        BY <3>5 DEF Transcript
      <3>10. transcripts' \in Seq(Transcript) /\ Len(transcripts') = Len(transcripts) + 1
        BY <3>1, <3>9, AppendProperties DEF Typed
      <3>11. row'.version = Len(transcripts') /\ Len(row'.history) <= MAX_TURNS + 1
        BY <1>0, <3>6, <3>7, <3>8, <3>10 DEF Typed
      <3>. QED  BY <3>1, <3>4, <3>8, <3>10, <3>11 DEF Typed, config
    <2>. QED  BY <2>1, <2>2
  <1>12. CASE Respond(m)
    <2>. DEFINE u == [NoTurn EXCEPT !.pc = "done", !.outcome = t.outcome, !.number = t.number]
    <2>1. t.outcome \in Outcome /\ t.number \in Nat
      BY <1>0 DEF TurnValue
    <2>2. u \in TurnValue /\ Len(u.history) <= MAX_TURNS
      BY <2>1, NoTurnIs DEF TurnValue, ControlPoint
    <2>3. turn' = [turn EXCEPT ![m] = u] /\ UNCHANGED <<row, transcripts, clock, config>> /\ lock' \in SUBSET Message
      BY <1>3, <1>12 DEF Respond
    <2>4. told' \in [Message -> {"nothing", "waiting", "gave_up"} \cup Outcome]
      BY <1>3, <1>12, <2>1 DEF Respond
    <2>. HIDE DEF u
    <2>. QED  BY <2>2, <2>3, <2>4, <1>1
  <1>. QED  BY <1>5, <1>6, <1>7, <1>8, <1>9, <1>10, <1>11, <1>12

\* What happens around the handlers.
World == (\E m \in Message : GiveUp(m)) \/ LockLost \/ Crash \/ Reconfigure \/ TimePasses

\* The steps of one message.
Steps(m) ==
    Post(m) \/ Get(m) \/ TakeLock(m) \/ Read(m) \/ Works(m) \/ TurnFails(m) \/ SaveTurn(m) \/ Respond(m)

LEMMA StepCases ==
  ASSUME Typed, Next
  PROVE  World \/ \E m \in Message : Steps(m)
  <1>1. ASSUME NEW m \in Message, Handle(m) PROVE Steps(m)
    <2>1. turn[m] \in TurnValue
      BY DEF Typed
    <2>. QED  BY <1>1, <2>1, WorkingSteps DEF Handle, Steps
  <1>. QED  BY <1>1 DEF Next, World, Steps

LEMMA FaultsCounted == ASSUME Typed, faults < MaxFaults PROVE faults + 1 \in 0..MaxFaults
  BY ChatAssumption DEF Typed

\* A crash leaves the turns that were over, and only the end of the others.
Crashed(m) == [NoTurn EXCEPT !.pc = "done"]
LEMMA CrashedIs ==
  ASSUME NEW m
  PROVE  Crashed(m) \in TurnValue /\ Crashed(m).pc = "done" /\ Crashed(m).outcome = "none"
         /\ Crashed(m).base = 0 /\ Len(Crashed(m).history) <= MAX_TURNS
         /\ Crashed(m).given = {} /\ Crashed(m).shown = {}
  BY NoTurnIs DEF Crashed, TurnValue, ControlPoint

LEMMA WorldTyped == ASSUME Typed, World PROVE Typed'
  <1>1. CASE \E m \in Message : GiveUp(m)
    <2>1. PICK m \in Message : GiveUp(m)
      BY <1>1
    <2>2. told' \in [Message -> {"nothing", "waiting", "gave_up"} \cup Outcome]
      BY <2>1 DEF GiveUp, Typed
    <2>. QED  BY <2>1, <2>2, FaultsCounted DEF GiveUp, Typed, clock
  <1>2. CASE LockLost
    BY <1>2, FaultsCounted DEF LockLost, Typed, clock
  <1>3. CASE Crash
    <2>1. told' \in [Message -> {"nothing", "waiting", "gave_up"} \cup Outcome]
      BY <1>3 DEF Crash, Typed
    <2>2. turn' \in [Message -> TurnValue] /\ \A m \in Message : Len(turn'[m].history) <= MAX_TURNS
      <3>1. turn' = [m \in Message |-> IF InFlight(m) THEN Crashed(m) ELSE turn[m]]
        BY <1>3 DEF Crash, Crashed
      <3>. QED  BY <3>1, CrashedIs DEF Typed
    <2>. QED  BY <1>3, <2>1, <2>2, FaultsCounted DEF Crash, Typed, clock
  <1>4. CASE Reconfigure
    BY <1>4, FaultsCounted DEF Reconfigure, Typed, clock
  <1>5. CASE TimePasses
    BY <1>5, FaultsCounted DEF TimePasses, Typed
  <1>. QED  BY <1>1, <1>2, <1>3, <1>4, <1>5 DEF World

LEMMA TypedNext == Typed /\ [Next]_vars => Typed'
  <1>. SUFFICES ASSUME Typed, [Next]_vars PROVE Typed'
    OBVIOUS
  <1>1. CASE Next
    BY <1>1, StepCases, HandleTyped, WorldTyped DEF Steps
  <1>2. CASE UNCHANGED vars
    BY <1>2 DEF vars, Typed
  <1>. QED  BY <1>1, <1>2

LEMMA TypedIsTypeOK == Typed => TypeOK
  <1>. SUFFICES ASSUME Typed PROVE TypeOK
    OBVIOUS
  <1>1. IsState(row.state) /\ IsHistory(row.history)
    BY StateIs DEF Typed, IsHistory
  <1>2. ASSUME NEW m \in Message
        PROVE  turn[m] \in Turn /\ IsState(turn[m].state) /\ IsHistory(turn[m].history)
    <2>1. turn[m] \in TurnValue /\ Len(turn[m].history) <= MAX_TURNS
      BY DEF Typed
    <2>2. turn[m] \in Turn
      BY <2>1 DEF TurnValue, Turn, ControlPoint, Working
    <2>3. turn[m].history \in Seq(Message) /\ turn[m].state \in State
      BY <2>1 DEF TurnValue
    <2>4. Len(turn[m].history) \in Nat /\ MAX_TURNS \in Nat
      BY <2>3, LenProperties, SessionStateAssumption
    <2>. QED  BY <2>1, <2>2, <2>3, <2>4, StateIs DEF IsHistory
  <1>3. turn \in [Message -> Turn]
    BY <1>2 DEF Typed
  <1>. QED  BY <1>1, <1>2, <1>3 DEF Typed, TypeOK

\* The session's row and transcripts, the turns in flight and what clients are told are typed, a
\* state never holds more than MAX_GROUPS handles or MAX_EARLIER questions, and the version is
\* the number of turns in the transcript (save_turn, state.py).
THEOREM ChatTyping == Spec => []TypeOK
  BY TypedInit, TypedNext, TypedIsTypeOK, PTL DEF Spec

------------------------------------------------------------------------------
(* Memory, handles and permissions                                           *)

\* A turn that can still be saved: it started from the row as it is.
Fresh(m) == turn[m].pc \in Working /\ turn[m].base = row.version
Early == {"get", "lock", "read"}

BasesPast == \A m \in Message : turn[m].base <= row.version
NothingGivenYet == \A m \in Message : turn[m].pc \in Early => turn[m].given = {}
Memory ==
    /\ Remembers(row.state.earlier, row.history, Questions)
    /\ \A m \in Message : Fresh(m) => Remembers(turn[m].state.earlier, turn[m].history, Questions)
Handed ==
    /\ Consistent(row.state, Given)
    /\ \A m \in Message : Fresh(m) => Consistent(turn[m].state, Given \cup turn[m].given)

\* The inductive invariant: a turn that can still be saved remembers what the row remembers, and
\* its handles agree with all that were given out.
SessionInv == Typed /\ BasesPast /\ NothingGivenYet /\ Memory /\ Handed /\ ResultsWithinPermission

Saves(m) == SaveTurn(m) /\ Unchanged(m)
Starts(m) == Read(m) /\ ~Expired(m)
\* A turn that does nothing, or is not in its work after the step.
Rests(m) ==
    \/ turn'[m] = turn[m]
    \/ /\ turn'[m].pc \notin Working /\ turn'[m].base \in {0, turn[m].base, row.version}
       /\ turn'[m].pc \in Early =>
             turn'[m].given = {} \/ (turn[m].pc \in Early /\ turn'[m].given = turn[m].given)
       /\ turn[m].shown \subseteq turn[m].allowed => turn'[m].shown \subseteq turn'[m].allowed
Quiet == UNCHANGED <<row, transcripts>> /\ \A m \in Message : Rests(m)

LEMMA EndsRests ==
  ASSUME Typed, NEW m \in Message, NEW o, Ends(m, o)
  PROVE  \A k \in Message : Rests(k)
  <1>1. turn[m] \in TurnValue /\ turn \in [Message -> TurnValue]
    BY DEF Typed
  <1>2. \A k \in Message \ {m} : turn'[k] = turn[k]
    BY <1>1 DEF Ends
  <1>3. /\ turn'[m].pc = "release" /\ turn'[m].base = turn[m].base
        /\ turn'[m].shown = turn[m].shown /\ turn'[m].allowed = turn[m].allowed
    BY <1>1 DEF Ends, TurnValue
  <1>. QED  BY <1>2, <1>3 DEF Rests, Working, Early

LEMMA StepKinds ==
  ASSUME Typed, [Next]_vars
  PROVE  Quiet \/ \E m \in Message : Saves(m) \/ Starts(m) \/ Works(m)
  <1>0. turn \in [Message -> TurnValue]
    BY DEF Typed
  <1>1. ASSUME NEW m \in Message, Post(m) PROVE Quiet
    <2>1. /\ turn'[m].pc = "get" /\ turn'[m].base = 0 /\ turn'[m].given = {} /\ turn'[m].shown = {}
          /\ \A k \in Message \ {m} : turn'[k] = turn[k]
      BY <1>0, <1>1, NoTurnIs DEF Post, TurnValue
    <2>. QED  BY <1>1, <2>1 DEF Quiet, Rests, Post, Working
  <1>2. ASSUME NEW m \in Message, Get(m) PROVE Quiet
    <2>1. CASE Expired(m)
      BY <1>2, <2>1, EndsRests DEF Get, Quiet
    <2>2. CASE ~Expired(m)
      <3>1. /\ turn'[m].pc = "lock" /\ turn'[m].base = row.version /\ turn'[m].given = turn[m].given
            /\ turn'[m].shown = turn[m].shown /\ turn'[m].allowed = turn[m].allowed
            /\ turn[m].pc \in Early
            /\ \A k \in Message \ {m} : turn'[k] = turn[k]
        BY <1>0, <1>2, <2>2 DEF Get, TurnValue, Early
      <3>. QED  BY <1>2, <3>1 DEF Quiet, Rests, Get, Working
    <2>. QED  BY <2>1, <2>2
  <1>3. ASSUME NEW m \in Message, TakeLock(m) PROVE Quiet
    <2>1. CASE lock # {}
      BY <1>3, <2>1, EndsRests DEF TakeLock, Quiet
    <2>2. CASE lock = {}
      <3>1. /\ turn'[m].pc = "read" /\ turn'[m].base = turn[m].base /\ turn'[m].given = turn[m].given
            /\ turn'[m].shown = turn[m].shown /\ turn'[m].allowed = turn[m].allowed
            /\ turn[m].pc \in Early
            /\ \A k \in Message \ {m} : turn'[k] = turn[k]
        BY <1>0, <1>3, <2>2 DEF TakeLock, TurnValue, Early
      <3>. QED  BY <1>3, <3>1 DEF Quiet, Rests, TakeLock, Working
    <2>. QED  BY <2>1, <2>2
  <1>4. ASSUME NEW m \in Message, Read(m), Expired(m) PROVE Quiet
    BY <1>4, EndsRests DEF Read, Quiet
  <1>5. ASSUME NEW m \in Message, TurnFails(m) PROVE Quiet
    BY <1>5, EndsRests DEF TurnFails, Quiet
  <1>6. ASSUME NEW m \in Message, SaveTurn(m), ~Unchanged(m) PROVE Quiet
    BY <1>6, EndsRests DEF SaveTurn, Quiet
  <1>7. ASSUME NEW m \in Message, Respond(m) PROVE Quiet
    <2>1. /\ turn'[m].pc = "done" /\ turn'[m].base = 0 /\ turn'[m].given = {} /\ turn'[m].shown = {}
          /\ \A k \in Message \ {m} : turn'[k] = turn[k]
      BY <1>0, <1>7, NoTurnIs DEF Respond, TurnValue
    <2>. QED  BY <1>7, <2>1 DEF Quiet, Rests, Respond, Working
  <1>8. ASSUME NEW m \in Message, Steps(m)
        PROVE  Quiet \/ Saves(m) \/ Starts(m) \/ Works(m)
    BY <1>1, <1>2, <1>3, <1>4, <1>5, <1>6, <1>7, <1>8 DEF Steps, Saves, Starts
  <1>9. ASSUME World PROVE Quiet
    <2>1. CASE Crash
      <3>1. \A m \in Message : turn'[m] = IF InFlight(m) THEN Crashed(m) ELSE turn[m]
        BY <2>1 DEF Crash, Crashed
      <3>2. ASSUME NEW m \in Message PROVE Rests(m)
        BY <3>1, CrashedIs DEF Rests, Working
      <3>. QED  BY <2>1, <3>2 DEF Quiet, Crash
    <2>2. CASE UNCHANGED <<row, transcripts, turn>>
      BY <2>2 DEF Quiet, Rests
    <2>. QED  BY <1>9, <2>1, <2>2 DEF World, GiveUp, LockLost, Reconfigure, TimePasses
  <1>10. CASE UNCHANGED vars
    BY <1>10 DEF vars, Quiet, Rests
  <1>. QED  BY <1>8, <1>9, <1>10, StepCases

LEMMA SameLength == ASSUME NEW a \in Nat, NEW b \in Nat, 1..a = 1..b PROVE a = b
  <1>1. CASE a < b
    <2>1. b \in 1..b /\ b \notin 1..a
      BY <1>1
    <2>. QED  BY <2>1
  <1>2. CASE b < a
    <2>1. a \in 1..a /\ a \notin 1..b
      BY <1>2
    <2>. QED  BY <2>1
  <1>. QED  BY <1>1, <1>2

\* The questions of any transcripts.
QuestionsOf(T) == [i \in DOMAIN T |-> T[i].question]

LEMMA QuestionsOfAre ==
  ASSUME NEW T \in Seq(Transcript)
  PROVE  /\ QuestionsOf(T) \in Seq(Message) /\ Len(QuestionsOf(T)) = Len(T)
         /\ DOMAIN T = 1..Len(T) /\ Len(T) \in Nat
         /\ \A i \in DOMAIN T : T[i] \in Transcript /\ QuestionsOf(T)[i] = T[i].question
  <1>. DEFINE q == QuestionsOf(T)
  <1>1. DOMAIN T = 1..Len(T) /\ Len(T) \in Nat
    BY LenProperties
  <1>2. \A i \in DOMAIN T : T[i] \in Transcript
    BY <1>1, ElementOfSeq
  <1>3. q \in [1..Len(T) -> Message]
    BY <1>1, <1>2 DEF QuestionsOf, Transcript
  <1>. HIDE DEF q
  <1>4. q \in Seq(Message)
    BY <1>1, <1>3, SeqDef
  <1>5. DOMAIN q = 1..Len(q) /\ Len(q) \in Nat
    BY <1>4, LenProperties
  <1>6. 1..Len(q) = 1..Len(T)
    BY <1>3, <1>5
  <1>7. Len(q) = Len(T)
    BY <1>1, <1>5, <1>6, SameLength
  <1>8. \A i \in DOMAIN T : q[i] = T[i].question
    BY DEF q, QuestionsOf
  <1>. QED  BY <1>1, <1>2, <1>4, <1>7, <1>8 DEF q

LEMMA QuestionsAre ==
  ASSUME Typed
  PROVE  /\ Questions \in Seq(Message) /\ Len(Questions) = Len(transcripts)
         /\ DOMAIN transcripts = 1..Len(transcripts) /\ Len(transcripts) \in Nat
         /\ \A i \in DOMAIN transcripts : transcripts[i] \in Transcript /\ Questions[i] = transcripts[i].question
         /\ Given \in SUBSET (Nat \X Group)
  <1>1. transcripts \in Seq(Transcript) /\ Questions = QuestionsOf(transcripts)
    BY DEF Typed, Questions, QuestionsOf
  <1>2. \A i \in DOMAIN transcripts : transcripts[i] \in Transcript
    BY <1>1, QuestionsOfAre
  <1>3. Given \in SUBSET (Nat \X Group)
    BY <1>2 DEF Given, Transcript
  <1>. QED  BY <1>1, <1>3, QuestionsOfAre

\* A save adds the question and the handles of its turn.
LEMMA SaveAdds ==
  ASSUME Typed, Typed', NEW m \in Message, Saves(m)
  PROVE  /\ Questions' = Append(Questions, m)
         /\ Given' = Given \cup turn[m].given
         /\ row'.version = row.version + 1
         /\ row'.state = turn[m].state /\ row'.history = Append(turn[m].history, m)
  <1>. DEFINE n == Len(transcripts)
              new == [question |-> m, given |-> turn[m].given]
  <1>1. /\ row' = [version |-> row.version + 1, state |-> turn[m].state, history |-> Append(turn[m].history, m)]
        /\ transcripts' = Append(transcripts, new)
    BY DEF Saves, SaveTurn
  <1>2. new \in Transcript /\ transcripts \in Seq(Transcript) /\ n \in Nat
    BY QuestionsAre DEF Typed, TurnValue, Transcript
  <1>. HIDE DEF new
  <1>3. /\ Len(transcripts') = n + 1 /\ transcripts'[n + 1] = new
        /\ \A i \in 1..n : transcripts'[i] = transcripts[i]
    BY <1>1, <1>2, AppendProperties
  <1>4. DOMAIN transcripts = 1..n /\ DOMAIN transcripts' = 1..n + 1
    BY <1>2, <1>3, LenProperties DEF Typed
  <1>5. Questions' = Append(Questions, m)
    <2>1. Questions \in Seq(Message) /\ Questions' \in Seq(Message) /\ Len(Questions) = n /\ Len(Questions') = n + 1
      <3>1. Questions = QuestionsOf(transcripts) /\ Questions' = QuestionsOf(transcripts')
        BY DEF Questions, QuestionsOf
      <3>2. transcripts' \in Seq(Transcript)
        BY DEF Typed
      <3>. QED  BY <3>1, <3>2, <1>2, <1>3, QuestionsOfAre
    <2>2. /\ Append(Questions, m) \in Seq(Message) /\ Len(Append(Questions, m)) = n + 1
          /\ Append(Questions, m)[n + 1] = m /\ \A i \in 1..n : Append(Questions, m)[i] = Questions[i]
      BY <2>1, AppendProperties
    <2>3. ASSUME NEW i \in 1..n + 1 PROVE Questions'[i] = Append(Questions, m)[i]
      <3>0. i = n + 1 \/ i \in 1..n
        BY <1>2
      <3>1. Questions'[i] = transcripts'[i].question
        BY <1>4 DEF Questions
      <3>2. CASE i = n + 1
        BY <3>1, <3>2, <2>2, <1>3 DEF new
      <3>3. CASE i \in 1..n
        BY <3>1, <3>3, <2>2, <1>3, <1>4 DEF Questions
      <3>. QED  BY <3>0, <3>2, <3>3
    <2>. QED  BY <2>1, <2>2, <2>3, SeqEqual
  <1>6. Given' = Given \cup turn[m].given
    <2>1. new.given = turn[m].given
      BY DEF new
    <2>2. 1..n + 1 = (1..n) \cup {n + 1}
      BY <1>2
    <2>. QED  BY <1>3, <1>4, <2>1, <2>2 DEF Given
  <1>. QED  BY <1>1, <1>5, <1>6

LEMMA SessionInit == Init => SessionInv
  <1>. SUFFICES ASSUME Init PROVE SessionInv
    OBVIOUS
  <1>1. Typed
    BY TypedInit
  <1>2. \A m \in Message : turn[m] = NoTurn
    BY DEF Init
  <1>3. BasesPast /\ NothingGivenYet /\ ResultsWithinPermission /\ \A m \in Message : ~Fresh(m)
    BY <1>1, <1>2, NoTurnIs DEF BasesPast, NothingGivenYet, ResultsWithinPermission, Fresh, Early, Working, Typed
  <1>4. Len(transcripts) = 0 /\ DOMAIN transcripts = {}
    BY <1>1, EmptySeq, QuestionsAre DEF Init
  <1>5. Remembers(row.state.earlier, row.history, Questions)
    <2>. DEFINE e == row.state.earlier
                h == row.history
    <2>1. Len(e) = 0 /\ Len(h) = 0
      BY EmptySeq DEF Init, NewState
    <2>2. Len(Questions) = 0
      BY <1>1, <1>4, QuestionsAre
    <2>. HIDE DEF e, h
    <2>3. Remembers(e, h, Questions)
      BY <2>1, <2>2 DEF Remembers
    <2>. QED  BY <2>3 DEF e, h
  <1>6. Given = {} /\ Consistent(row.state, {})
    BY <1>4 DEF Given, Consistent
  <1>. QED  BY <1>1, <1>3, <1>5, <1>6 DEF SessionInv, Memory, Handed

LEMMA QuietKeeps == SessionInv /\ Typed' /\ Quiet => SessionInv'
  <1>. SUFFICES ASSUME SessionInv, Typed', Quiet PROVE SessionInv'
    OBVIOUS
  <1>1. row' = row /\ Questions' = Questions /\ Given' = Given /\ row.version \in Nat
    BY DEF Quiet, Questions, Given, SessionInv, Typed
  <1>2. ASSUME NEW m \in Message, Fresh(m)' PROVE Fresh(m) /\ turn'[m] = turn[m]
    BY <1>1, <1>2 DEF Quiet, Rests, Fresh
  <1>3. BasesPast'
    BY <1>1 DEF SessionInv, BasesPast, Quiet, Rests
  <1>4. NothingGivenYet'
    BY DEF SessionInv, NothingGivenYet, Quiet, Rests
  <1>5. Memory'
    BY <1>1, <1>2 DEF SessionInv, Memory
  <1>6. Handed'
    BY <1>1, <1>2 DEF SessionInv, Handed
  <1>7. ResultsWithinPermission'
    BY DEF SessionInv, ResultsWithinPermission, Quiet, Rests
  <1>. QED  BY <1>3, <1>4, <1>5, <1>6, <1>7 DEF SessionInv

\* A turn starts from the row as it is, and compaction keeps what is remembered.
LEMMA StartKeeps == ASSUME SessionInv, Typed', NEW m \in Message, Starts(m) PROVE SessionInv'
  <1>. DEFINE h == compact_history(row.history)
              s == note_dropped(row.state, Dropped(row.history))
  <1>0. Typed /\ turn[m] \in TurnValue /\ turn \in [Message -> TurnValue]
        /\ row.state \in State /\ row.history \in Seq(Message) /\ row.version \in Nat
    BY DEF SessionInv, Typed
  <1>1. UNCHANGED <<row, transcripts>> /\ turn[m].pc = "read"
    BY DEF Starts, Read
  <1>2. row' = row /\ Questions' = Questions /\ Given' = Given
    BY <1>1 DEF Questions, Given
  <1>3. PICK pc \in {"classify", "loop"} :
           turn' = [turn EXCEPT ![m].pc = pc, ![m].base = row.version, ![m].history = h, ![m].state = s]
    BY DEF Starts, Read
  <1>. HIDE DEF h, s
  <1>4. /\ turn'[m].base = row.version /\ turn'[m].history = h /\ turn'[m].state = s
        /\ turn'[m].pc = pc /\ turn'[m].given = turn[m].given /\ turn'[m].shown = turn[m].shown
        /\ turn'[m].allowed = turn[m].allowed
        /\ \A k \in Message \ {m} : turn'[k] = turn[k]
    BY <1>0, <1>3 DEF TurnValue
  <1>5. turn[m].given = {}
    BY <1>1 DEF SessionInv, NothingGivenYet, Early
  <1>6. \A k \in Message \ {m} : Fresh(k)' => Fresh(k)
    BY <1>2, <1>4 DEF Fresh
  <1>7. Dropped(row.history) \in Seq(Message)
    BY <1>0, ReadIs
  <1>8. /\ s.groups = row.state.groups /\ s.next_group = row.state.next_group
        /\ s.earlier = Newest(MAX_EARLIER, row.state.earlier \o Dropped(row.history))
    BY <1>0, <1>7, NoteDroppedIs DEF s
  <1>9. BasesPast'
    BY <1>0, <1>2, <1>4 DEF SessionInv, BasesPast
  <1>10. NothingGivenYet'
    BY <1>4, <1>5 DEF SessionInv, NothingGivenYet
  <1>11. Memory'
    <2>1. row.state.earlier \in Seq(Message) /\ Questions \in Seq(Message)
      BY <1>0, StateIs, QuestionsAre DEF IsState
    <2>2. Remembers(s.earlier, h, Questions)
      BY <1>0, <1>8, <2>1, CompactionRemembers DEF SessionInv, Memory, h
    <2>. QED  BY <1>2, <1>4, <1>6, <2>2 DEF SessionInv, Memory
  <1>12. Handed'
    <2>1. Consistent(s, Given)
      BY <1>8 DEF SessionInv, Handed, Consistent
    <2>2. Given \cup {} = Given
      OBVIOUS
    <2>. QED  BY <1>2, <1>4, <1>5, <1>6, <2>1, <2>2 DEF SessionInv, Handed
  <1>13. ResultsWithinPermission'
    BY <1>4 DEF SessionInv, ResultsWithinPermission
  <1>. QED  BY <1>9, <1>10, <1>11, <1>12, <1>13 DEF SessionInv

\* The work of a turn touches what it remembers of its session by adding groups only.
LEMMA WorkKeeps == ASSUME SessionInv, Typed', NEW m \in Message, Works(m) PROVE SessionInv'
  <1>0. Typed /\ turn[m] \in TurnValue /\ turn \in [Message -> TurnValue]
    BY DEF SessionInv, Typed
  <1>1. PICK u \in TurnValue :
           turn[m].pc \in Working /\ u.pc \in Working /\ Tooled(turn[m], u) /\ Moves(m, u)
    BY DEF Works
  <1>2. row' = row /\ Questions' = Questions /\ Given' = Given
    BY <1>1 DEF Moves, Questions, Given
  <1>3. turn'[m] = u /\ \A k \in Message \ {m} : turn'[k] = turn[k]
    BY <1>0, <1>1 DEF Moves
  <1>4. \A k \in Message : Fresh(k)' => Fresh(k)
    BY <1>1, <1>2, <1>3 DEF Fresh, Tooled
  <1>5. BasesPast' /\ ResultsWithinPermission'
    BY <1>1, <1>2, <1>3 DEF SessionInv, BasesPast, ResultsWithinPermission, Tooled
  <1>6. NothingGivenYet'
    BY <1>1, <1>3 DEF SessionInv, NothingGivenYet, Early, Working
  <1>7. Memory'
    BY <1>1, <1>2, <1>3, <1>4 DEF SessionInv, Memory, Tooled
  <1>8. Handed'
    <2>1. Given \in SUBSET (Nat \X Group)
      BY <1>0, QuestionsAre
    <2>2. Fresh(m) => Consistent(u.state, Given \cup u.given)
      BY <1>1, <2>1 DEF SessionInv, Handed, Tooled
    <2>. QED  BY <1>2, <1>3, <1>4, <2>2 DEF SessionInv, Handed
  <1>. QED  BY <1>5, <1>6, <1>7, <1>8 DEF SessionInv

\* A save makes its turn's state the session's; every other turn has then started from an older one.
LEMMA SaveKeeps == ASSUME SessionInv, Typed', NEW m \in Message, Saves(m) PROVE SessionInv'
  <1>0. Typed /\ turn[m] \in TurnValue /\ turn \in [Message -> TurnValue] /\ row.version \in Nat
    BY DEF SessionInv, Typed
  <1>1. /\ Questions' = Append(Questions, m)
        /\ Given' = Given \cup turn[m].given
        /\ row'.version = row.version + 1
        /\ row'.state = turn[m].state /\ row'.history = Append(turn[m].history, m)
    BY <1>0, SaveAdds
  <1>2. /\ turn'[m].pc = "release" /\ turn'[m].base = turn[m].base
        /\ turn'[m].shown = turn[m].shown /\ turn'[m].allowed = turn[m].allowed
        /\ \A k \in Message \ {m} : turn'[k] = turn[k]
    BY <1>0 DEF Saves, SaveTurn, TurnValue
  <1>3. Fresh(m)
    BY DEF Saves, SaveTurn, Unchanged, Fresh, Working
  <1>4. \A k \in Message : turn'[k].base = turn[k].base /\ turn[k].base \in Nat /\ turn[k].base <= row.version
    BY <1>0, <1>2 DEF SessionInv, BasesPast, TurnValue
  <1>5. \A k \in Message : ~Fresh(k)'
    BY <1>0, <1>1, <1>4 DEF Fresh
  <1>6. BasesPast'
    BY <1>0, <1>1, <1>4 DEF BasesPast
  <1>7. NothingGivenYet' /\ ResultsWithinPermission'
    BY <1>2 DEF SessionInv, NothingGivenYet, ResultsWithinPermission, Early
  <1>8. Memory'
    <2>. DEFINE e == turn[m].state.earlier
                h == turn[m].history
    <2>1. e \in Seq(Message) /\ h \in Seq(Message) /\ Questions \in Seq(Message)
      <3>1. turn[m].state \in State /\ h \in Seq(Message)
        BY <1>0 DEF TurnValue
      <3>. QED  BY <3>1, <1>0, StateIs, QuestionsAre DEF IsState
    <2>2. Remembers(e, h, Questions)
      BY <1>3 DEF SessionInv, Memory
    <2>. HIDE DEF e, h
    <2>3. Remembers(e, Append(h, m), Append(Questions, m))
      BY <2>1, <2>2, QuestionRemembered
    <2>4. Remembers(row'.state.earlier, row'.history, Questions')
      BY <1>1, <2>3 DEF e, h
    <2>. QED  BY <2>4, <1>5 DEF Memory
  <1>9. Handed'
    BY <1>1, <1>3, <1>5 DEF SessionInv, Handed
  <1>. QED  BY <1>6, <1>7, <1>8, <1>9 DEF SessionInv

LEMMA SessionNext == SessionInv /\ [Next]_vars => SessionInv'
  <1>. SUFFICES ASSUME SessionInv, [Next]_vars PROVE SessionInv'
    OBVIOUS
  <1>1. Typed /\ Typed'
    BY TypedNext DEF SessionInv
  <1>. QED  BY <1>1, StepKinds, QuietKeeps, StartKeeps, WorkKeeps, SaveKeeps

THEOREM SessionInvariant == Spec => []SessionInv
  BY SessionInit, SessionNext, PTL DEF Spec

\* The session remembers the newest questions of its transcript, in order and without a gap, and
\* all of them until the remembered list is full, through compaction, failed, overlapping and
\* overtaken turns, lost locks and crashes (compact_history, note_dropped, save_turn).
THEOREM ChatForgetsNothing == Spec => []NoTurnForgotten
  <1>1. SessionInv => NoTurnForgotten
    <2>. SUFFICES ASSUME SessionInv PROVE NoTurnForgotten
      OBVIOUS
    <2>1. row.state.earlier \in Seq(Message) /\ row.history \in Seq(Message) /\ Questions \in Seq(Message)
      BY StateIs, QuestionsAre DEF SessionInv, Typed, IsState
    <2>2. Remembers(row.state.earlier, row.history, Questions)
      BY DEF SessionInv, Memory
    <2>. QED  BY <2>1, <2>2, RememberedStretch DEF NoTurnForgotten, Kept
  <1>. QED  BY <1>1, SessionInvariant, PTL

\* A handle that some turn told the model about never stands for another group, in the state or in
\* another turn's answers, whatever was dropped and resolved again (add_group, next_group).
THEOREM ChatHandlesStand == Spec => []HandlesNeverReused
  <1>1. SessionInv => HandlesNeverReused
    BY DEF SessionInv, Handed, Consistent, HandlesNeverReused, Given
  <1>. QED  BY <1>1, SessionInvariant, PTL

\* No tool result covers a region that the user may not see when the turn starts, also through a
\* group resolved when more was allowed (_scope and _regions in tools.py).
THEOREM ChatWithinPermission == Spec => []ResultsWithinPermission
  BY SessionInvariant, PTL DEF SessionInv

------------------------------------------------------------------------------
(* What a step does to its message, and to no other                          *)

Goes(m, from, to) ==
    /\ turn[m].pc \in from /\ turn'[m].pc \in to
    /\ \A k \in Message \ {m} : turn'[k] = turn[k]
Stores == <<row, transcripts, locks_lost>>

Begins(m) ==
    /\ Goes(m, {"idle"}, {"get"}) /\ turn'[m].outcome = "none"
    /\ told' = [told EXCEPT ![m] = "waiting"] /\ UNCHANGED <<Stores, lock>>
Waits(m) ==
    /\ Goes(m, {"get"}, {"lock"}) /\ turn'[m].outcome = turn[m].outcome
    /\ UNCHANGED <<Stores, lock, told>>
Locks(m) ==
    /\ Goes(m, {"lock"}, {"read"}) /\ turn'[m].outcome = turn[m].outcome
    /\ lock = {} /\ lock' = {m} /\ UNCHANGED <<Stores, told>>
Proceeds(m) ==
    /\ Goes(m, {"read"} \cup Working, Working) /\ turn'[m].outcome = turn[m].outcome
    /\ turn'[m].base = IF turn[m].pc = "read" THEN row.version ELSE turn[m].base
    /\ UNCHANGED <<Stores, lock, told>>
Fails(m) ==
    /\ Goes(m, Early \cup Working, {"release"}) /\ turn'[m].outcome \notin {"none", "answer"}
    /\ turn'[m].outcome = "busy" => turn[m].pc = "lock" /\ lock # {}
    /\ turn'[m].outcome = "conflict" => turn[m].pc \in Working /\ turn[m].base # row.version
    /\ UNCHANGED <<Stores, lock, told>>
Stored(m) ==
    /\ Goes(m, {"save"}, {"release"}) /\ turn'[m].outcome = "answer" /\ turn'[m].number = row.version + 1
    /\ Saves(m) /\ UNCHANGED <<lock, locks_lost, told>>
Replies(m) ==
    /\ Goes(m, {"release"}, {"done"}) /\ turn'[m].outcome = turn[m].outcome /\ turn'[m].number = turn[m].number
    /\ told' = [told EXCEPT ![m] = IF @ = "waiting" THEN turn[m].outcome ELSE @]
    /\ lock' = lock \ {m} /\ UNCHANGED Stores

LEMMA MessageSteps ==
  ASSUME Typed, NEW m \in Message, Steps(m)
  PROVE  \/ Begins(m) \/ Waits(m) \/ Locks(m) \/ Proceeds(m) \/ Fails(m) \/ Stored(m) \/ Replies(m)
  <1>0. turn \in [Message -> TurnValue] /\ turn[m] \in TurnValue
    BY DEF Typed
  <1>1. ASSUME NEW o, Ends(m, o)
        PROVE  turn'[m].pc = "release" /\ turn'[m].outcome = o /\ \A k \in Message \ {m} : turn'[k] = turn[k]
    BY <1>0, <1>1 DEF Ends, TurnValue
  <1>2. CASE Post(m)
    BY <1>0, <1>2, NoTurnIs DEF Post, Begins, Goes, Stores, config, TurnValue
  <1>3. CASE Get(m)
    <2>1. CASE Expired(m)
      BY <1>1, <1>3, <2>1 DEF Get, Fails, Goes, Stores, config, Early
    <2>2. CASE ~Expired(m)
      BY <1>0, <1>3, <2>2 DEF Get, Waits, Goes, Stores, config, TurnValue
    <2>. QED  BY <2>1, <2>2
  <1>4. CASE TakeLock(m)
    <2>1. CASE lock # {}
      BY <1>1, <1>4, <2>1 DEF TakeLock, Fails, Goes, Stores, config, Early
    <2>2. CASE lock = {}
      BY <1>0, <1>4, <2>2 DEF TakeLock, Locks, Goes, Stores, config, TurnValue
    <2>. QED  BY <2>1, <2>2
  <1>5. CASE Read(m)
    <2>1. CASE Expired(m)
      BY <1>1, <1>5, <2>1 DEF Read, Fails, Goes, Stores, config, Early
    <2>2. CASE ~Expired(m)
      <3>. DEFINE h == compact_history(row.history)
                  s == note_dropped(row.state, Dropped(row.history))
      <3>1. PICK pc \in {"classify", "loop"} :
               turn' = [turn EXCEPT ![m].pc = pc, ![m].base = row.version, ![m].history = h, ![m].state = s]
        BY <1>5, <2>2 DEF Read
      <3>. HIDE DEF h, s
      <3>2. /\ turn'[m].pc = pc /\ turn'[m].base = row.version /\ turn'[m].outcome = turn[m].outcome
            /\ \A k \in Message \ {m} : turn'[k] = turn[k]
        BY <1>0, <3>1 DEF TurnValue
      <3>. QED  BY <1>5, <3>2 DEF Read, Proceeds, Goes, Stores, config, Working
    <2>. QED  BY <2>1, <2>2
  <1>6. CASE Works(m)
    <2>1. PICK u \in TurnValue : turn[m].pc \in Working /\ u.pc \in Working /\ Tooled(turn[m], u) /\ Moves(m, u)
      BY <1>6 DEF Works
    <2>2. turn'[m] = u /\ \A k \in Message \ {m} : turn'[k] = turn[k]
      BY <1>0, <2>1 DEF Moves
    <2>. QED  BY <2>1, <2>2 DEF Moves, Proceeds, Goes, Stores, config, Tooled, Working
  <1>7. CASE TurnFails(m)
    <2>1. turn[m].pc \in Working
      BY <1>7 DEF TurnFails, MayFail, Working
    <2>. QED  BY <1>1, <1>7, <2>1 DEF TurnFails, Fails, Goes, Stores, config
  <1>8. CASE SaveTurn(m)
    <2>1. CASE ~Unchanged(m)
      <3>1. turn[m].pc \in Working /\ turn[m].base # row.version
        BY <1>8, <2>1 DEF SaveTurn, Unchanged, Working
      <3>. QED  BY <1>1, <1>8, <2>1, <3>1 DEF SaveTurn, Fails, Goes, Stores, config
    <2>2. CASE Unchanged(m)
      BY <1>0, <1>8, <2>2 DEF SaveTurn, Saves, Stored, Goes, config, TurnValue
    <2>. QED  BY <2>1, <2>2
  <1>9. CASE Respond(m)
    BY <1>0, <1>9, NoTurnIs DEF Respond, Replies, Goes, Stores, config, TurnValue
  <1>. QED  BY <1>2, <1>3, <1>4, <1>5, <1>6, <1>7, <1>8, <1>9 DEF Steps

LEMMA WorldSteps ==
  ASSUME Typed, World
  PROVE  /\ UNCHANGED <<row, transcripts>>
         /\ \/ /\ Crash /\ lock' = {} /\ UNCHANGED locks_lost
               /\ \A m \in Message : /\ turn'[m] = IF InFlight(m) THEN Crashed(m) ELSE turn[m]
                                     /\ told'[m] = IF told[m] = "waiting" THEN "gave_up" ELSE told[m]
            \/ /\ UNCHANGED turn
               /\ \A m \in Message : told'[m] \in {told[m], "gave_up"}
               /\ (lock' = {} /\ locks_lost') \/ UNCHANGED <<lock, locks_lost>>
  <1>0. told \in [Message -> {"nothing", "waiting", "gave_up"} \cup Outcome]
    BY DEF Typed
  <1>1. CASE Crash
    <2>1. \A m \in Message : /\ turn'[m] = IF InFlight(m) THEN Crashed(m) ELSE turn[m]
                             /\ told'[m] = IF told[m] = "waiting" THEN "gave_up" ELSE told[m]
      BY <1>1 DEF Crash, Crashed
    <2>. QED  BY <1>1, <2>1 DEF Crash
  <1>2. CASE \E m \in Message : GiveUp(m)
    BY <1>0, <1>2 DEF GiveUp
  <1>3. CASE LockLost \/ Reconfigure \/ TimePasses
    BY <1>3 DEF LockLost, Reconfigure, TimePasses
  <1>. QED  BY <1>1, <1>2, <1>3 DEF World

------------------------------------------------------------------------------
(* What clients are told                                                     *)

\* The question of a message is in no turn.
Unasked(m) == \A i \in DOMAIN transcripts : transcripts[i].question # m

\* An answer is in the transcript from the save on; before, and after any other end, nothing is; and
\* a client is told of the end, and of nothing else, when there is one.
Truth ==
    \A m \in Message :
        /\ turn[m].outcome = "answer" =>
              /\ turn[m].pc \in {"release", "done"} /\ turn[m].number \in DOMAIN transcripts
              /\ transcripts[turn[m].number].question = m
        /\ turn[m].pc # "done" /\ turn[m].outcome # "answer" => Unasked(m)
        /\ told[m] \in Outcome => turn[m].pc = "done"
        /\ told[m] = "answer" => turn[m].outcome = "answer"
        /\ told[m] \in Outcome \ {"answer"} => Unasked(m)

LEMMA TruthInit == Init => Truth
  BY NoTurnIs, EmptySeq DEF Init, Truth, Unasked, Outcome

\* A step that stores and tells nothing keeps the truth.
LEMMA SilentKeepsTruth ==
  ASSUME Truth, UNCHANGED transcripts, NEW m \in Message,
         \A k \in Message \ {m} : turn'[k] = turn[k] /\ told'[k] = told[k],
         turn[m].pc \notin {"release", "done"}, turn'[m].pc # "done", turn'[m].outcome # "answer",
         told'[m] = told[m] \/ told'[m] = "waiting"
  PROVE  Truth'
  <1>1. Unasked(m) /\ told[m] \notin Outcome
    BY DEF Truth
  <1>2. told'[m] \notin Outcome
    BY <1>1 DEF Outcome
  <1>3. \A k \in Message : Unasked(k)' <=> Unasked(k)
    BY DEF Unasked
  <1>4. "answer" \in Outcome
    BY DEF Outcome
  <1>. QED  BY <1>1, <1>2, <1>3, <1>4 DEF Truth

LEMMA TruthNext == Typed /\ Typed' /\ Truth /\ [Next]_vars => Truth'
  <1>. SUFFICES ASSUME Typed, Typed', Truth, [Next]_vars PROVE Truth'
    OBVIOUS
  <1>0. /\ told \in [Message -> {"nothing", "waiting", "gave_up"} \cup Outcome]
        /\ \A o \in {"nothing", "waiting", "gave_up"} : o \notin Outcome
        /\ "answer" \in Outcome
    BY DEF Typed, Outcome
  <1>1. ASSUME NEW m \in Message, Begins(m) PROVE Truth'
    BY <1>0, <1>1, SilentKeepsTruth DEF Begins, Goes, Stores
  <1>2. ASSUME NEW m \in Message, Waits(m) \/ Locks(m) \/ Proceeds(m) PROVE Truth'
    <2>1. turn[m].pc \notin {"release", "done"} /\ turn'[m].pc # "done" /\ turn'[m].outcome = turn[m].outcome
          /\ UNCHANGED <<transcripts, told>> /\ \A k \in Message \ {m} : turn'[k] = turn[k]
      BY <1>2 DEF Waits, Locks, Proceeds, Goes, Stores, Working
    <2>2. turn'[m].outcome # "answer"
      BY <2>1 DEF Truth
    <2>. QED  BY <2>1, <2>2, SilentKeepsTruth
  <1>3. ASSUME NEW m \in Message, Fails(m) PROVE Truth'
    <2>1. turn[m].pc \notin {"release", "done"} /\ turn'[m].pc # "done" /\ turn'[m].outcome # "answer"
          /\ UNCHANGED <<transcripts, told>> /\ \A k \in Message \ {m} : turn'[k] = turn[k]
      BY <1>3 DEF Fails, Goes, Stores, Working, Early
    <2>. QED  BY <2>1, SilentKeepsTruth
  <1>4. ASSUME NEW m \in Message, Stored(m) PROVE Truth'
    <2>. DEFINE n == Len(transcripts)
                new == [question |-> m, given |-> turn[m].given]
    <2>1. new \in Transcript /\ transcripts \in Seq(Transcript) /\ n \in Nat /\ row.version = n
      BY QuestionsAre DEF Typed, TurnValue, Transcript
    <2>2. transcripts' = Append(transcripts, new)
      BY <1>4 DEF Stored, Saves, SaveTurn
    <2>3. new.question = m
      OBVIOUS
    <2>. HIDE DEF new
    <2>4. /\ Len(transcripts') = n + 1 /\ transcripts'[n + 1] = new
          /\ \A i \in 1..n : transcripts'[i] = transcripts[i]
      BY <2>1, <2>2, AppendProperties
    <2>5. DOMAIN transcripts = 1..n /\ DOMAIN transcripts' = 1..n + 1
      BY <2>1, <2>4, LenProperties DEF Typed
    <2>. HIDE DEF n
    <2>6. /\ turn[m].pc = "save" /\ turn'[m].pc = "release" /\ turn'[m].outcome = "answer"
          /\ turn'[m].number = n + 1 /\ told' = told
          /\ \A k \in Message \ {m} : turn'[k] = turn[k]
      BY <1>4, <2>1 DEF Stored, Goes
    <2>7. told[m] \notin Outcome
      BY <2>6 DEF Truth
    <2>8. ASSUME NEW k \in Message \ {m}, Unasked(k) PROVE Unasked(k)'
      <3>1. ASSUME NEW i \in DOMAIN transcripts' PROVE transcripts'[i].question # k
        <4>1. i = n + 1 \/ i \in 1..n
          BY <2>1, <2>5
        <4>. QED  BY <4>1, <2>3, <2>4, <2>5, <2>8 DEF Unasked
      <3>. QED  BY <3>1 DEF Unasked
    <2>9. ASSUME NEW k \in Message, turn[k].outcome = "answer"
          PROVE  /\ k # m /\ turn[k].number \in DOMAIN transcripts'
                 /\ transcripts'[turn[k].number].question = k
      <3>1. turn[k].number \in 1..n /\ transcripts[turn[k].number].question = k /\ turn[k].pc # "save"
        BY <2>5, <2>9 DEF Truth
      <3>. QED  BY <3>1, <2>1, <2>4, <2>5, <2>6
    <2>10. n + 1 \in DOMAIN transcripts' /\ transcripts'[n + 1].question = m
      BY <2>1, <2>3, <2>4, <2>5
    <2>. QED  BY <1>0, <2>6, <2>7, <2>8, <2>9, <2>10 DEF Truth
  <1>5. ASSUME NEW m \in Message, Replies(m) PROVE Truth'
    <2>1. /\ turn[m].pc = "release" /\ turn'[m].pc = "done" /\ turn'[m].outcome = turn[m].outcome
          /\ turn'[m].number = turn[m].number /\ UNCHANGED transcripts
          /\ \A k \in Message \ {m} : turn'[k] = turn[k] /\ told'[k] = told[k]
          /\ told'[m] = IF told[m] = "waiting" THEN turn[m].outcome ELSE told[m]
      BY <1>0, <1>5 DEF Replies, Goes, Stores
    <2>2. told[m] \notin Outcome
      BY <2>1 DEF Truth
    <2>3. \A k \in Message : Unasked(k)' <=> Unasked(k)
      BY <2>1 DEF Unasked
    <2>. QED  BY <1>0, <2>1, <2>2, <2>3 DEF Truth
  <1>6. ASSUME World PROVE Truth'
    <2>1. \A k \in Message : Unasked(k)' <=> Unasked(k)
      BY <1>6, WorldSteps DEF Unasked
    <2>2. UNCHANGED transcripts
      BY <1>6, WorldSteps
    <2>3. ASSUME NEW m \in Message
          PROVE  /\ turn'[m] = turn[m] \/ (turn[m].pc # "done" /\ turn'[m].pc = "done" /\ turn'[m].outcome = "none")
                 /\ told'[m] = told[m] \/ told'[m] = "gave_up"
      BY <1>6, WorldSteps, CrashedIs DEF InFlight
    <2>. QED  BY <1>0, <2>1, <2>2, <2>3 DEF Truth
  <1>7. CASE UNCHANGED vars
    BY <1>7 DEF vars, Truth, Unasked
  <1>. QED  BY <1>1, <1>2, <1>3, <1>4, <1>5, <1>6, <1>7, StepCases, MessageSteps

\* A client that is told an answer finds its question in the transcript under that turn number, and
\* one that is told an error finds it in no turn, however turns fail, overlap, lose their lock or
\* crash (post_message in app.py, save_turn).
THEOREM ChatTellsTheTruth == Spec => []ToldTheTruth
  <1>1. Typed /\ Truth => ToldTheTruth
    <2>. SUFFICES ASSUME Typed, Truth PROVE ToldTheTruth
      OBVIOUS
    <2>1. \A i \in DOMAIN transcripts : Questions[i] = transcripts[i].question
      BY DEF Questions
    <2>. QED  BY <2>1 DEF Truth, Unasked, ToldTheTruth
  <1>. QED  BY <1>1, TypedInit, TypedNext, TruthInit, TruthNext, PTL DEF Spec

------------------------------------------------------------------------------
(* The lock                                                                  *)

\* The lock has one holder, at work; and unless one was lost, whoever is at work holds it and has
\* started from the row as it is.
Locked ==
    /\ \A k \in lock : turn[k].pc \in {"read", "release"} \cup Working
    /\ \A j, k \in lock : j = k
    /\ ~locks_lost =>
          \A m \in Message : /\ turn[m].pc \in {"read"} \cup Working => m \in lock
                             /\ turn[m].pc \in Working => turn[m].base = row.version

LEMMA LockedInit == Init => Locked
  BY NoTurnIs DEF Init, Locked, Working

LEMMA LockedNext == Typed /\ Locked /\ [Next]_vars => Locked'
  <1>. SUFFICES ASSUME Typed, Locked, [Next]_vars PROVE Locked'
    OBVIOUS
  <1>0. lock \subseteq Message
    BY DEF Typed
  <1>1. ASSUME NEW m \in Message, Begins(m) \/ Waits(m) PROVE Locked'
    BY <1>0, <1>1 DEF Begins, Waits, Goes, Stores, Locked, Working
  <1>2. ASSUME NEW m \in Message, Locks(m) PROVE Locked'
    BY <1>0, <1>2 DEF Locks, Goes, Stores, Locked, Working
  <1>3. ASSUME NEW m \in Message, Proceeds(m) PROVE Locked'
    BY <1>0, <1>3 DEF Proceeds, Goes, Stores, Locked, Working
  <1>4. ASSUME NEW m \in Message, Fails(m) PROVE Locked'
    BY <1>0, <1>4 DEF Fails, Goes, Stores, Locked, Working
  <1>5. ASSUME NEW m \in Message, Stored(m) PROVE Locked'
    <2>1. /\ turn[m].pc = "save" /\ turn'[m].pc = "release" /\ UNCHANGED <<lock, locks_lost>>
          /\ \A k \in Message \ {m} : turn'[k] = turn[k]
      BY <1>5 DEF Stored, Goes
    <2>2. ~locks_lost => \A k \in Message \ {m} : turn[k].pc \notin {"read"} \cup Working
      BY <2>1 DEF Locked, Working
    <2>. QED  BY <1>0, <2>1, <2>2 DEF Locked, Working
  <1>6. ASSUME NEW m \in Message, Replies(m) PROVE Locked'
    BY <1>0, <1>6 DEF Replies, Goes, Stores, Locked, Working
  <1>7. ASSUME World PROVE Locked'
    <2>1. CASE /\ lock' = {} /\ UNCHANGED <<row, locks_lost>>
               /\ \A m \in Message : turn'[m] = IF InFlight(m) THEN Crashed(m) ELSE turn[m]
      <3>1. \A m \in Message : turn'[m].pc \in {"idle", "done"}
        BY <2>1, CrashedIs DEF InFlight
      <3>. QED  BY <2>1, <3>1 DEF Locked, Working
    <2>2. CASE UNCHANGED <<row, turn>> /\ ((lock' = {} /\ locks_lost') \/ UNCHANGED <<lock, locks_lost>>)
      BY <2>2 DEF Locked
    <2>. QED  BY <1>7, <2>1, <2>2, WorldSteps
  <1>8. CASE UNCHANGED vars
    BY <1>8 DEF vars, Locked
  <1>. QED  BY <1>1, <1>2, <1>3, <1>4, <1>5, <1>6, <1>7, <1>8, StepCases, MessageSteps

\* A message is refused as busy only while another one is being handled, and a finished turn is
\* thrown away only if a lock was lost: nobody saves between the second look at the row, under the
\* lock, and the save (turn_lock, the second get in post_message).
THEOREM ChatRefusesForCause == Spec => RefusedForCause
  <1>1. Typed /\ Locked /\ [Next]_vars =>
          [\A m \in Message : turn[m].outcome = "none" =>
             /\ turn'[m].outcome = "busy" => \E k \in Message \ {m} : InFlight(k)
             /\ turn'[m].outcome = "conflict" => locks_lost]_vars
    <2>. SUFFICES ASSUME Typed, Locked, Next, NEW m \in Message, turn[m].outcome = "none",
                         turn'[m].outcome \in {"busy", "conflict"}
                  PROVE  /\ turn'[m].outcome = "busy" => \E k \in Message \ {m} : InFlight(k)
                         /\ turn'[m].outcome = "conflict" => locks_lost
      OBVIOUS
    <2>1. lock \subseteq Message
      BY DEF Typed
    <2>2. ASSUME NEW j \in Message, Steps(j) PROVE Fails(m)
      <3>1. Begins(j) \/ Waits(j) \/ Locks(j) \/ Proceeds(j) \/ Fails(j) \/ Stored(j) \/ Replies(j)
        BY <2>2, MessageSteps
      <3>2. j = m
        BY <3>1 DEF Begins, Waits, Locks, Proceeds, Fails, Stored, Replies, Goes
      <3>. QED  BY <3>1, <3>2 DEF Begins, Waits, Locks, Proceeds, Stored, Replies
    <2>3. ~World
      BY WorldSteps, CrashedIs
    <2>4. Fails(m)
      BY <2>2, <2>3, StepCases
    <2>5. turn'[m].outcome = "busy" => \E k \in Message \ {m} : InFlight(k)
      BY <2>1, <2>4 DEF Fails, Locked, Working, InFlight
    <2>6. turn'[m].outcome = "conflict" => locks_lost
      BY <2>4 DEF Fails, Locked, Working
    <2>. QED  BY <2>5, <2>6
  <1>. QED  BY <1>1, TypedInit, TypedNext, LockedInit, LockedNext, PTL DEF Spec, RefusedForCause

------------------------------------------------------------------------------
(* The conversation                                                          *)

\* Whoever posted a message is waiting for it, or knows how it ended, or does not want to know.
Posted == \A m \in Message : told[m] = "nothing" <=> turn[m].pc = "idle"

LEMMA PostedInit == Init => Posted
  BY NoTurnIs DEF Init, Posted

\* The world makes clients give up, and nobody else.
LEMMA WorldTells ==
  ASSUME Typed, World, NEW m \in Message
  PROVE  /\ told'[m] = told[m] \/ (told[m] = "waiting" /\ told'[m] = "gave_up")
         /\ turn'[m] = turn[m] \/ (InFlight(m) /\ turn'[m].pc = "done")
         /\ told' \in [Message -> {told[k] : k \in Message} \cup {"gave_up"}]
  <1>0. told \in [Message -> {"nothing", "waiting", "gave_up"} \cup Outcome]
    BY DEF Typed
  <1>1. CASE \E k \in Message : GiveUp(k)
    BY <1>0, <1>1 DEF GiveUp
  <1>2. CASE Crash
    <2>1. turn'[m] = IF InFlight(m) THEN Crashed(m) ELSE turn[m]
      BY <1>2 DEF Crash, Crashed
    <2>. QED  BY <1>0, <1>2, <2>1, CrashedIs DEF Crash
  <1>3. CASE LockLost \/ Reconfigure \/ TimePasses
    BY <1>0, <1>3 DEF LockLost, Reconfigure, TimePasses
  <1>. QED  BY <1>1, <1>2, <1>3 DEF World

LEMMA PostedNext == Typed /\ Posted /\ [Next]_vars => Posted'
  <1>. SUFFICES ASSUME Typed, Posted, [Next]_vars PROVE Posted'
    OBVIOUS
  <1>0. /\ told \in [Message -> {"nothing", "waiting", "gave_up"} \cup Outcome]
        /\ turn \in [Message -> TurnValue] /\ "nothing" \notin Outcome
    BY DEF Typed, Outcome
  <1>1. ASSUME NEW m \in Message, Begins(m) PROVE Posted'
    BY <1>0, <1>1 DEF Begins, Goes, Posted
  <1>2. ASSUME NEW m \in Message, Waits(m) \/ Locks(m) \/ Proceeds(m) \/ Fails(m) \/ Stored(m) PROVE Posted'
    <2>1. told' = told /\ turn[m].pc # "idle" /\ turn'[m].pc # "idle" /\ \A k \in Message \ {m} : turn'[k] = turn[k]
      BY <1>2 DEF Waits, Locks, Proceeds, Fails, Stored, Goes, Working, Early
    <2>. QED  BY <2>1 DEF Posted
  <1>3. ASSUME NEW m \in Message, Replies(m) PROVE Posted'
    <2>1. turn[m].outcome \in Outcome
      BY <1>0 DEF TurnValue
    <2>. QED  BY <1>0, <1>3, <2>1 DEF Replies, Goes, Posted
  <1>4. ASSUME World PROVE Posted'
    BY <1>4, WorldTells DEF Posted, InFlight
  <1>5. CASE UNCHANGED vars
    BY <1>5 DEF vars, Posted
  <1>. QED  BY <1>1, <1>2, <1>3, <1>4, <1>5, StepCases, MessageSteps

\* A client that is told nothing new knows what it knew; its turn is over if it was told anything.
LEMMA HeardStays ==
  ASSUME Typed, Truth, NEW m \in Message, told'[m] = told[m], turn'[m] = turn[m] \/ turn[m].pc # "done"
  PROVE  Heard(m)' = Heard(m)
  BY DEF Truth, Heard, Outcome

\* Every step of the session is a step of the conversation, or nothing that it speaks of.
LEMMA StepIsSaid ==
  ASSUME SessionInv, SessionInv', Truth, Posted, Next
  PROVE  Conv!Next \/ UNCHANGED Conv!vars
  <1>0. /\ Typed /\ Typed' /\ turn \in [Message -> TurnValue]
        /\ told \in [Message -> {"nothing", "waiting", "gave_up"} \cup Outcome]
    BY DEF SessionInv, Typed
  <1>1. ASSUME UNCHANGED <<row, transcripts>>, \A k \in Message : Heard(k)' = Heard(k)
        PROVE  UNCHANGED Conv!vars
    BY <1>1 DEF Conv!vars, Kept, Questions, Given
  <1>2. ASSUME NEW m \in Message, Begins(m) PROVE Conv!Next
    <2>1. told[m] = "nothing" /\ told' = [told EXCEPT ![m] = "waiting"] /\ \A k \in Message \ {m} : turn'[k] = turn[k]
      BY <1>2 DEF Begins, Goes, Posted
    <2>2. told'[m] = "waiting" /\ \A k \in Message \ {m} : told'[k] = told[k]
      BY <1>0, <2>1
    <2>3. \A k \in Message \ {m} : Heard(k)' = Heard(k)
      BY <1>0, <2>1, <2>2, HeardStays
    <2>4. Heard(m).said = "nothing" /\ Heard(m)' = [said |-> "waiting", turn |-> 0]
      BY <2>1, <2>2 DEF Heard, Outcome
    <2>5. UNCHANGED <<Questions, Kept, Given>>
      BY <1>2 DEF Begins, Stores, Questions, Kept, Given
    <2>6. Conv!Post(m)
      BY <2>3, <2>4, <2>5 DEF Conv!Post, Conv!Says
    <2>. QED  BY <2>6 DEF Conv!Next
  <1>3. ASSUME NEW m \in Message, Waits(m) \/ Locks(m) \/ Proceeds(m) \/ Fails(m) PROVE UNCHANGED Conv!vars
    <2>1. told' = told /\ turn[m].pc # "done" /\ UNCHANGED <<row, transcripts>> /\ \A k \in Message \ {m} : turn'[k] = turn[k]
      BY <1>3 DEF Waits, Locks, Proceeds, Fails, Goes, Stores, Working, Early
    <2>. QED  BY <1>0, <1>1, <2>1, HeardStays
  <1>4. ASSUME NEW m \in Message, Stored(m) PROVE Conv!Next
    <2>1. /\ told' = told /\ turn[m].pc = "save" /\ Saves(m)
          /\ \A k \in Message \ {m} : turn'[k] = turn[k]
      BY <1>4 DEF Stored, Goes
    <2>2. \A k \in Message : Heard(k)' = Heard(k)
      BY <1>0, <2>1, HeardStays
    <2>3. /\ Questions' = Append(Questions, m) /\ Given' = Given \cup turn[m].given
          /\ row'.history = Append(turn[m].history, m)
      BY <1>0, <2>1, SaveAdds
    <2>4. Heard(m).said \in {"waiting", "gave_up"}
      <3>1. told[m] \notin Outcome /\ told[m] # "nothing"
        BY <2>1 DEF Truth, Posted
      <3>. QED  BY <1>0, <3>1 DEF Heard
    <2>5. \A i \in DOMAIN Questions : Questions[i] # m
      BY <2>1 DEF Truth, Unasked, Questions
    <2>6. /\ \E n \in 1 .. Len(Questions') : Kept' = SubSeq(Questions', n, Len(Questions'))
          /\ Len(Kept') >= MAX_EARLIER \/ Kept' = Questions'
      <3>. DEFINE e == row'.state.earlier
                  h == row'.history
                  q == Questions'
      <3>1. e \in Seq(Message) /\ h \in Seq(Message) /\ q \in Seq(Message)
        <4>1. row'.state \in State /\ row'.history \in Seq(Message)
          BY <1>0 DEF Typed
        <4>2. Questions' \in Seq(Message)
          <5>1. Questions \in Seq(Message)
            BY <1>0, QuestionsAre
          <5>. QED  BY <2>3, <5>1, AppendProperties
        <4>3. IsState(row'.state)
          BY <4>1, StateIs
        <4>. QED  BY <4>1, <4>2, <4>3 DEF IsState
      <3>2. Remembers(e, h, q)
        BY DEF SessionInv, Memory
      <3>3. Len(h) >= 1
        <4>1. turn[m].history \in Seq(Message)
          BY <1>0 DEF TurnValue
        <4>. QED  BY <2>3, <4>1, AppendProperties, LenProperties
      <3>4. Kept' = e \o h
        BY DEF Kept
      <3>. HIDE DEF e, h, q
      <3>5. e \o h = Newest(Len(e \o h), q) /\ (Len(e) < MAX_EARLIER => e \o h = q)
        BY <3>1, <3>2, RememberedStretch
      <3>6. /\ Len(e \o h) = Len(e) + Len(h) /\ Len(e) \in Nat /\ Len(h) \in Nat /\ Len(q) \in Nat
            /\ Len(e) + Len(h) <= Len(q)
        BY <3>1, <3>2, ConcatProperties, LenProperties DEF Remembers
      <3>. DEFINE k == Len(e \o h)
                  l == Len(q)
                  n == IF l > k THEN l - k + 1 ELSE 1
      <3>7. n \in 1 .. l /\ e \o h = SubSeq(q, n, l)
        <4>1. k \in Nat /\ l \in Nat /\ k >= 1 /\ l >= 1
          BY <3>3, <3>6
        <4>2. e \o h = SubSeq(q, n, l)
          BY <3>5 DEF Newest
        <4>. HIDE DEF k, l
        <4>3. n \in 1 .. l
          BY <4>1
        <4>. QED  BY <4>2, <4>3
      <3>8. Len(e \o h) >= MAX_EARLIER \/ e \o h = q
        BY <3>5, <3>6, SessionStateAssumption
      <3>. QED  BY <3>4, <3>7, <3>8 DEF q
    <2>7. /\ Given \subseteq Given' /\ Given' \in SUBSET (Nat \X Group)
          /\ \A p, q \in Given' : p[1] = q[1] => p[2] = q[2]
      <3>1. Given' \in SUBSET (Nat \X Group)
        <4>1. Given \in SUBSET (Nat \X Group) /\ turn[m].given \in SUBSET (Nat \X Group)
          BY <1>0, QuestionsAre DEF TurnValue
        <4>. QED  BY <2>3, <4>1
      <3>2. Consistent(row'.state, Given')
        BY DEF SessionInv, Handed
      <3>3. \A p, q \in Given' : p[1] = q[1] => p[2] = q[2]
        BY <3>2 DEF Consistent
      <3>4. Given \subseteq Given'
        BY <2>3
      <3>. QED  BY <3>1, <3>3, <3>4
    <2>8. Conv!Answer(m)
      BY <2>2, <2>3, <2>4, <2>5, <2>6, <2>7 DEF Conv!Answer, Conv!Unanswered
    <2>. QED  BY <2>8 DEF Conv!Next
  <1>5. ASSUME NEW m \in Message, Replies(m) PROVE Conv!Next \/ UNCHANGED Conv!vars
    <2>1. /\ turn[m].pc = "release" /\ turn'[m].number = turn[m].number /\ turn[m].outcome \in Outcome
          /\ UNCHANGED <<row, transcripts>> /\ \A k \in Message \ {m} : turn'[k] = turn[k] /\ told'[k] = told[k]
          /\ told'[m] = IF told[m] = "waiting" THEN turn[m].outcome ELSE told[m]
      BY <1>0, <1>5 DEF Replies, Goes, Stores, TurnValue
    <2>2. \A k \in Message \ {m} : Heard(k)' = Heard(k)
      BY <1>0, <2>1, HeardStays
    <2>3. CASE told[m] # "waiting"
      <3>1. Heard(m)' = Heard(m)
        BY <1>0, <2>1, <2>3, HeardStays
      <3>. QED  BY <1>1, <2>1, <2>2, <3>1
    <2>4. UNCHANGED <<Questions, Kept, Given>>
      BY <2>1 DEF Questions, Kept, Given
    <2>5. CASE told[m] = "waiting" /\ turn[m].outcome = "answer"
      <3>1. Heard(m).said = "waiting" /\ Heard(m)' = [said |-> "answer", turn |-> turn[m].number]
        BY <2>1, <2>5 DEF Heard, Outcome
      <3>2. turn[m].number \in DOMAIN Questions /\ Questions[turn[m].number] = m
        BY <2>5 DEF Truth, Questions
      <3>3. Conv!Tell(m)
        BY <2>2, <2>4, <3>1, <3>2 DEF Conv!Tell, Conv!Says
      <3>. QED  BY <3>3 DEF Conv!Next
    <2>6. CASE told[m] = "waiting" /\ turn[m].outcome # "answer"
      <3>1. Heard(m).said = "waiting" /\ Heard(m)' = [said |-> "refused", turn |-> 0]
        BY <2>1, <2>6 DEF Heard, Outcome
      <3>2. \A i \in DOMAIN Questions : Questions[i] # m
        BY <2>1, <2>6 DEF Truth, Unasked, Questions
      <3>3. Conv!Refuse(m)
        BY <2>2, <2>4, <3>1, <3>2 DEF Conv!Refuse, Conv!Says, Conv!Unanswered
      <3>. QED  BY <3>3 DEF Conv!Next
    <2>. QED  BY <2>3, <2>5, <2>6
  <1>6. ASSUME World PROVE Conv!Next
    <2>. DEFINE who == {m \in Message : told'[m] # told[m]}
    <2>1. \A m \in who : Heard(m).said = "waiting" /\ Heard(m)' = [said |-> "gave_up", turn |-> 0]
      BY <1>0, <1>6, WorldTells DEF Heard, Outcome
    <2>2. \A m \in Message \ who : Heard(m)' = Heard(m)
      BY <1>0, <1>6, WorldTells, HeardStays DEF InFlight
    <2>3. UNCHANGED <<Questions, Kept, Given>>
      BY <1>0, <1>6, WorldSteps DEF Questions, Kept, Given
    <2>4. who \in SUBSET Message
      OBVIOUS
    <2>. HIDE DEF who
    <2>5. Conv!GiveUp(who)
      BY <2>1, <2>2, <2>3, <2>4 DEF Conv!GiveUp
    <2>. QED  BY <2>4, <2>5 DEF Conv!Next
  <1>. QED  BY <1>0, <1>2, <1>3, <1>4, <1>5, <1>6, StepCases, MessageSteps

\* The session is one conversation, from its first message on: however many workers, lost locks,
\* crashes and impatient clients there are, messages are answered one after another, each at most
\* once and knowing what was said before, and clients hear nothing but the truth.
THEOREM ChatImplementsConversation == Spec => Conv!Init /\ ImplementsConversation
  <1>1. Init => Conv!Init
    <2>. SUFFICES ASSUME Init PROVE Conv!Init
      OBVIOUS
    <2>1. transcripts = <<>> /\ DOMAIN transcripts = {} /\ row.state.earlier = <<>> /\ row.history = <<>>
      BY EmptySeq DEF Init, NewState
    <2>2. Questions = <<>> /\ Given = {} /\ Kept = <<>>
      <3>1. <<>> \o <<>> = <<>>
        BY EmptySeq, ConcatEmptySeq
      <3>. QED  BY <2>1, <3>1 DEF Questions, Given, Kept
    <2>3. \A m \in Message : Heard(m) = [said |-> "nothing", turn |-> 0]
      BY DEF Init, Heard, Outcome
    <2>. QED  BY <2>2, <2>3 DEF Conv!Init
  <1>2. SessionInv /\ SessionInv' /\ Truth /\ Posted /\ [Next]_vars => [Conv!Next]_(Conv!vars)
    <2>1. CASE UNCHANGED vars
      BY <2>1 DEF vars, Conv!vars, Questions, Kept, Given, Heard
    <2>. QED  BY <2>1, StepIsSaid
  <1>3. SessionInv => Typed
    BY DEF SessionInv
  <1>. QED  BY <1>1, <1>2, <1>3, SessionInvariant, TypedInit, TypedNext, TruthInit, TruthNext,
               PostedInit, PostedNext, PTL DEF Spec, ImplementsConversation

==============================================================================
