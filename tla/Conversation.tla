----------------------------- MODULE Conversation -----------------------------
(***************************************************************************)
(* What a chat session promises, with nothing said about locks, versions,  *)
(* steps of a turn or crashes: messages are answered one after another,    *)
(* each at most once, knowing what was said before, and their clients are  *)
(* told nothing but the truth.  Module ChatSession implements it.          *)
(***************************************************************************)
EXTENDS Naturals, Sequences

CONSTANTS
    Message,
    Meaning,       \* what a handle can stand for
    Room           \* questions that are remembered at least

VARIABLES
    answered,      \* the messages answered, in order
    remembered,    \* the questions the next answer knows of
    meaning,       \* the handles that answers were about, each with what it stood for
    reply          \* per message: what its client knows

vars == <<answered, remembered, meaning, reply>>

Init ==
    /\ answered = <<>>
    /\ remembered = <<>>
    /\ meaning = {}
    /\ reply = [m \in Message |-> [said |-> "nothing", turn |-> 0]]

Says(m, said, turn) == reply' = [reply EXCEPT ![m] = [said |-> said, turn |-> turn]]
Unanswered(m) == \A i \in DOMAIN answered : answered[i] # m

Post(m) ==
    /\ reply[m].said = "nothing"
    /\ Says(m, "waiting", 0)
    /\ UNCHANGED <<answered, remembered, meaning>>

\* A question is answered, if its client has not been told that it is not.  The oldest questions
\* may be forgotten when there are many; a handle keeps its meaning.
Answer(m) ==
    /\ reply[m].said \in {"waiting", "gave_up"}
    /\ Unanswered(m)
    /\ answered' = Append(answered, m)
    /\ \E n \in 1 .. Len(answered') : remembered' = SubSeq(answered', n, Len(answered'))
    /\ Len(remembered') >= Room \/ remembered' = answered'
    /\ meaning \subseteq meaning' /\ meaning' \in SUBSET (Nat \X Meaning)
    /\ \A p, q \in meaning' : p[1] = q[1] => p[2] = q[2]
    /\ UNCHANGED reply

\* The client gets the answer, under the number of its turn ...
Tell(m) ==
    /\ reply[m].said = "waiting"
    /\ \E n \in DOMAIN answered : answered[n] = m /\ Says(m, "answer", n)
    /\ UNCHANGED <<answered, remembered, meaning>>

\* ... or is told that there is none.
Refuse(m) ==
    /\ reply[m].said = "waiting"
    /\ Unanswered(m)
    /\ Says(m, "refused", 0)
    /\ UNCHANGED <<answered, remembered, meaning>>

\* Clients stop waiting, without knowing.
GiveUp(who) ==
    /\ \A m \in who : reply[m].said = "waiting"
    /\ reply' = [m \in Message |-> IF m \in who THEN [said |-> "gave_up", turn |-> 0] ELSE reply[m]]
    /\ UNCHANGED <<answered, remembered, meaning>>

Next ==
    \/ \E m \in Message : Post(m) \/ Answer(m) \/ Tell(m) \/ Refuse(m)
    \/ \E who \in SUBSET Message : GiveUp(who)

Spec == Init /\ [][Next]_vars

==============================================================================
