---------------------------- MODULE SessionState ----------------------------
(***************************************************************************)
(* What a chat session remembers between its turns                         *)
(* (services/diagnostic_api/state.py): SKU lists as handles, and the       *)
(* questions of the turns that no longer fit into the history.  A stored   *)
(* turn is its question here; compaction also shortens it to its final     *)
(* answer.  The last product filter is left out: only the model reads it.  *)
(***************************************************************************)
EXTENDS Naturals, Sequences, FiniteSets

CONSTANTS
    MAX_GROUPS,    \* handles kept
    MAX_TURNS,     \* turns kept in the history
    MAX_EARLIER    \* questions kept of the turns before those

ASSUME SessionStateAssumption ==
    /\ MAX_GROUPS \in Nat \ {0} /\ MAX_TURNS \in Nat \ {0} /\ MAX_EARLIER \in Nat \ {0}

NewState == [groups |-> [h \in {} |-> {}], next_group |-> 1, earlier |-> <<>>]

\* The n newest handles of a set, and s[-n:] of a sequence.
Largest(n, handles) == {h \in handles : Cardinality({k \in handles : k > h}) < n}
Newest(n, s) == SubSeq(s, IF Len(s) > n THEN Len(s) - n + 1 ELSE 1, Len(s))

------------------------------------------------------------------------------
(* Groups.  The same list with the same regions keeps its handle. *)

HandlesOf(state, group) == {h \in DOMAIN state.groups : state.groups[h] = group}

\* MUTANT: a freed handle is given again.
add_group_Reuses(state, group) ==
    LET h == Cardinality(DOMAIN state.groups) + 1
    IN  IF HandlesOf(state, group) # {} THEN state
        ELSE [state EXCEPT !.groups =
                 [k \in Largest(MAX_GROUPS, DOMAIN @ \cup {h}) |-> IF k = h THEN group ELSE @[k]]]

add_group(state, group) ==
    LET h == state.next_group
    IN  IF HandlesOf(state, group) # {} THEN state
        ELSE [state EXCEPT !.next_group = h + 1,
                 !.groups = [k \in Largest(MAX_GROUPS, DOMAIN @ \cup {h}) |-> IF k = h THEN group ELSE @[k]]]

------------------------------------------------------------------------------
(* History compaction, when a new question arrives *)

compact_history(history) == Newest(MAX_TURNS, history)
Dropped(history) == SubSeq(history, 1, Len(history) - MAX_TURNS)

\* MUTANT: at the limit the newest questions are dropped instead of the oldest.
note_dropped_KeepsOldest(state, questions) ==
    [state EXCEPT !.earlier = SubSeq(@ \o questions, 1,
        IF Len(@ \o questions) > MAX_EARLIER THEN MAX_EARLIER ELSE Len(@ \o questions))]

note_dropped(state, questions) == [state EXCEPT !.earlier = Newest(MAX_EARLIER, @ \o questions)]

==============================================================================
