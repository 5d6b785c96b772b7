---------------------------- MODULE MCChatSession ----------------------------
(***************************************************************************)
(* ChatSession after two turns, with two lists and one region that         *)
(* the user may see or not.                                                *)
(***************************************************************************)
EXTENDS ChatSession

CONSTANTS vic

Permissions == {{}, {vic}}

MCInit ==
    /\ row = [version |-> 2, state |-> NewState, history |-> <<1, 2>>]
    /\ transcripts = [i \in {1, 2} |-> [question |-> i, given |-> {}]]
    /\ idle = FALSE /\ week_over = FALSE
    /\ allowed \in Permission
    /\ lock = {}
    /\ turn = [m \in Message |-> IF m \in {1, 2} THEN [NoTurn EXCEPT !.pc = "done", !.outcome = "answer", !.number = m]
                                 ELSE NoTurn]
    /\ told = [m \in Message |-> IF m \in {1, 2} THEN "answer" ELSE "nothing"]
    /\ faults = 0 /\ locks_lost = FALSE

MCSpec == MCInit /\ [][Next]_vars /\ Fairness

==============================================================================
