----------------------------- MODULE ChatSession -----------------------------
(***************************************************************************)
(* One chat session of the diagnostic API: its row and its transcripts in  *)
(* Postgres (services/diagnostic_api/sessions.py), the message handler     *)
(* (app.py), the router and the tool-use loop that answer a message        *)
(* (router.py, agent.py) and the client that posts it (services/ui).       *)
(*                                                                         *)
(* A message is its own question.  The model may classify a question in    *)
(* any way and call any tool on anything.  Of a tool call this module has  *)
(* what the session sees: the products and the regions.  What a call       *)
(* answers is the subject of module ToolCache.                             *)
(***************************************************************************)
EXTENDS SessionState

CONSTANTS
    Message,       \* 1..n, in the order in which they are posted
    List,          \* the SKU lists of a week that a filter can find
    Region,
    Permission,    \* the sets of regions the configuration may allow the user
    MAX_STEPS,     \* model calls in one turn of the loop
    MaxUses,       \* bound: tools called in one response of the model
    MaxFaults      \* bound: lost locks, crashes, impatient clients, new permissions, expiries

ASSUME ChatAssumption ==
    /\ Message \subseteq Nat \ {0} /\ Permission \subseteq SUBSET Region
    /\ MAX_STEPS \in Nat \ {0} /\ MaxUses \in Nat /\ MaxFaults \in Nat

VARIABLES
    row,           \* the session: version, state, history
    transcripts,   \* turn_transcripts, by turn_no
    idle,          \* expires_at has passed
    week_over,     \* the default week is no longer the session's
    allowed,       \* the configured regions of the user
    lock,          \* who holds the advisory lock of the session
    turn,          \* per message: the handler's control point and variables
    told,          \* per message: what its client was told
    faults, locks_lost

vars == <<row, transcripts, idle, week_over, allowed, lock, turn, told, faults, locks_lost>>
clock == <<idle, week_over>>
config == <<allowed, faults, locks_lost>>

Group == [list : List, regions : SUBSET Region]
\* A state: handles are given in order, and the newest are kept.
IsState(s) ==
    /\ s.groups \in [DOMAIN s.groups -> Group] /\ DOMAIN s.groups \subseteq 1 .. s.next_group - 1
    /\ Cardinality(DOMAIN s.groups) <= MAX_GROUPS
    /\ s.next_group \in Nat /\ s.earlier \in Seq(Message) /\ Len(s.earlier) <= MAX_EARLIER
IsHistory(h) == h \in Seq(Message) /\ Len(h) <= MAX_TURNS + 1
\* given: the handles a turn told the model about, and what they stood for.
Transcript == [question : Message, given : SUBSET (Nat \X Group)]

Outcome == {"none", "answer", "expired", "busy", "conflict", "unavailable"}
\* number: the turn number answered.  over: whether the week was over by the configuration the
\* handler read.  group, asked: the scope of a workflow, where asked is {} (all) or {regions}.
Turn == [pc : {"idle", "get", "lock", "read", "classify", "products", "scoped", "render", "loop",
               "save", "release", "done"},
         outcome : Outcome, number : Nat, allowed : SUBSET Region, over : BOOLEAN,
         base : Nat, state : {turn[m].state : m \in Message}, history : Seq(Message),
         group : Nat, asked : SUBSET SUBSET Region, lists : BOOLEAN,
         steps : 0..MAX_STEPS, uses : 0..MaxUses,
         given : SUBSET (Nat \X Group), shown : SUBSET Region]
NoTurn == [pc |-> "idle", outcome |-> "none", number |-> 0, allowed |-> {}, over |-> FALSE,
           base |-> 0, state |-> NewState, history |-> <<>>,
           group |-> 0, asked |-> {}, lists |-> FALSE, steps |-> 0, uses |-> 0, given |-> {}, shown |-> {}]

InFlight(m) == turn[m].pc \notin {"idle", "done"}

Init ==
    /\ row = [version |-> 0, state |-> NewState, history |-> <<>>]
    /\ transcripts = <<>>
    /\ idle = FALSE /\ week_over = FALSE
    /\ allowed \in Permission
    /\ lock = {}
    /\ turn = [m \in Message |-> NoTurn]
    /\ told = [m \in Message |-> "nothing"]
    /\ faults = 0 /\ locks_lost = FALSE

------------------------------------------------------------------------------
(* The handler of a message, up to the turn *)

\* The client posts the question; the handler reads its configuration once.
Post(m) ==
    /\ turn[m].pc = "idle"
    /\ \A k \in Message : k < m => turn[k].pc # "idle"
    /\ turn' = [turn EXCEPT ![m] = [NoTurn EXCEPT !.pc = "get", !.allowed = allowed, !.over = week_over]]
    /\ told' = [told EXCEPT ![m] = "waiting"]
    /\ UNCHANGED <<row, transcripts, clock, config, lock>>

Expired(m) == idle \/ turn[m].over
Ends(m, outcome) == turn' = [turn EXCEPT ![m].pc = "release", ![m].outcome = outcome]

\* Before taking the lock: is the session still live?
Get(m) ==
    /\ turn[m].pc = "get"
    /\ IF Expired(m) THEN Ends(m, "expired")
       ELSE turn' = [turn EXCEPT ![m].pc = "lock", ![m].base = row.version]
    /\ UNCHANGED <<row, transcripts, clock, config, lock, told>>

TakeLock(m) ==
    /\ turn[m].pc = "lock"
    /\ IF lock # {} THEN Ends(m, "busy") /\ UNCHANGED lock
       ELSE lock' = {m} /\ turn' = [turn EXCEPT ![m].pc = "read"]
    /\ UNCHANGED <<row, transcripts, clock, config, told>>

\* MUTANT: the version checked against is the one read before the lock was taken.
Read_KeepsFirst(m) ==
    /\ turn[m].pc = "read"
    /\ IF Expired(m) THEN Ends(m, "expired")
       ELSE \E pc \in {"classify", "loop"} :
               turn' = [turn EXCEPT ![m].pc = pc, ![m].history = compact_history(row.history),
                                    ![m].state = note_dropped(row.state, Dropped(row.history))]
    /\ UNCHANGED <<row, transcripts, clock, config, lock, told>>

\* The latest version, now that the lock is held; the turn runs in router or in loop mode.
Read(m) ==
    /\ turn[m].pc = "read"
    /\ IF Expired(m) THEN Ends(m, "expired")
       ELSE \E pc \in {"classify", "loop"} :
               turn' = [turn EXCEPT ![m].pc = pc, ![m].base = row.version,
                                    ![m].history = compact_history(row.history),
                                    ![m].state = note_dropped(row.state, Dropped(row.history))]
    /\ UNCHANGED <<row, transcripts, clock, config, lock, told>>

------------------------------------------------------------------------------
(* Tools, as the session sees them *)

RegionsOf(t, asked) == IF asked = {} THEN t.allowed ELSE UNION asked
Permitted(t, asked) == RegionsOf(t, asked) \subseteq t.allowed

\* A call that is refused, or finds no products, changes nothing.
Resolve(t, list, asked) ==
    LET group == [list |-> list, regions |-> RegionsOf(t, asked)]
        state == add_group(t.state, group)
        h == CHOOSE k \in HandlesOf(state, group) : TRUE
    IN  IF ~Permitted(t, asked) \/ group.regions = {} THEN t
        ELSE [t EXCEPT !.state = state, !.group = h, !.given = @ \cup {<<h, group>>},
                       !.shown = group.regions]

\* MUTANT: the regions of a group were checked when it was resolved.
Scoped_TrustsGroup(t, h, asked) ==
    IF h = 0 THEN IF Permitted(t, asked) THEN [t EXCEPT !.shown = RegionsOf(t, asked)] ELSE t
    ELSE IF h \notin DOMAIN t.state.groups THEN t
    ELSE [t EXCEPT !.shown = RegionsOf(t, IF asked = {} THEN {t.state.groups[h].regions} ELSE asked)]

\* A call about explicit SKUs (h = 0) or a group; a group brings its own regions.
Scoped(t, h, asked) ==
    LET wanted == IF h # 0 /\ asked = {} THEN {t.state.groups[h].regions} ELSE asked
    IN  IF (h # 0 => h \in DOMAIN t.state.groups) /\ Permitted(t, wanted)
        THEN [t EXCEPT !.shown = RegionsOf(t, wanted)]
        ELSE t

Handles(t) == 0..t.state.next_group      \* what the model may name: the last one does not exist
RegionArguments == {{}} \cup {{R} : R \in (SUBSET Region) \ {{}}}

------------------------------------------------------------------------------
(* A turn in router mode *)

Moves(m, t) == turn' = [turn EXCEPT ![m] = t] /\ UNCHANGED <<row, transcripts, clock, config, lock, told>>

\* other: the loop.  out_of_scope, unclear, or a slot the data does not have: a fixed answer.
\* known_issues, how_to: one call that is not about products.
Classify(m) ==
    /\ turn[m].pc = "classify"
    /\ \E pc \in {"loop", "save", "render"} : Moves(m, [turn[m] EXCEPT !.pc = pc])

\* The slots of a question about products, against the regions the user may see and the
\* groups there are: what cannot be placed is asked back, an unknown group falls back to a filter.
Validate(m) ==
    /\ turn[m].pc = "classify"
    /\ \E h \in Handles(turn[m]), asked \in RegionArguments, lists \in BOOLEAN :
          LET t == [turn[m] EXCEPT !.asked = asked, !.lists = lists]
          IN  IF asked # {} /\ ~Permitted(t, asked) THEN Moves(m, [turn[m] EXCEPT !.pc = "save"])
              ELSE IF ~lists /\ h \in DOMAIN t.state.groups THEN Moves(m, [t EXCEPT !.pc = "scoped", !.group = h])
              ELSE \E pc \in {"products", "scoped"} : (lists => pc = "products") /\ Moves(m, [t EXCEPT !.pc = pc])

\* resolve_products finds the SKUs of a filter, or none.
Products(m) ==
    /\ turn[m].pc = "products"
    /\ \/ Moves(m, [turn[m] EXCEPT !.pc = "render"])
       \/ \E list \in List :
             Moves(m, [Resolve(turn[m], list, turn[m].asked) EXCEPT !.pc = IF turn[m].lists THEN "render" ELSE "scoped"])

\* diagnose_batch and the SAP evidence it calls for, or one of the other workflows' tools.
ScopedTools(m) ==
    /\ turn[m].pc = "scoped"
    /\ Moves(m, [Scoped(turn[m], turn[m].group, turn[m].asked) EXCEPT !.pc = "render"])

Render(m) ==
    /\ turn[m].pc = "render"
    /\ Moves(m, [turn[m] EXCEPT !.pc = "save", !.group = 0, !.asked = {}, !.lists = FALSE])

------------------------------------------------------------------------------
(* A turn in the tool-use loop *)

\* MUTANT: a step is not counted.
Step_NotCounted(t) == t.steps

Step(t) == t.steps + 1
\* MUTANT: one call of the model too many.
StepsLeft_OneMore(t) == t.steps <= MAX_STEPS
StepsLeft(t) == t.steps < MAX_STEPS

\* The model answers, or calls some tools.
ModelCall(m) ==
    LET t == turn[m]
    IN  /\ t.pc = "loop" /\ t.uses = 0 /\ StepsLeft(t)
        /\ \E n \in 0..MaxUses :
              Moves(m, [t EXCEPT !.steps = Step(t),
                                 !.uses = n, !.pc = IF n = 0 THEN "save" ELSE "loop"])

LoopTool(m) ==
    LET t == [turn[m] EXCEPT !.uses = @ - 1]
    IN  /\ turn[m].pc = "loop" /\ turn[m].uses > 0
        /\ \E asked \in RegionArguments :
              \/ \E list \in List : Moves(m, Resolve(t, list, asked))
              \/ \E h \in Handles(t) : Moves(m, Scoped(t, h, asked))

\* The limit is reached: the answer asks for a person.
Escalate(m) ==
    /\ turn[m].pc = "loop" /\ turn[m].uses = 0 /\ ~StepsLeft(turn[m])
    /\ Moves(m, [turn[m] EXCEPT !.pc = "save"])

------------------------------------------------------------------------------
(* The end of a turn *)

\* MUTANT: what can fail after the save is reported as a failed turn too.
MayFail_AfterSave(t) ==
    t.pc \in {"classify", "render", "loop"} \/ <<t.pc, t.outcome>> = <<"release", "answer">>

MayFail(t) == t.pc \in {"classify", "render", "loop"}

\* Any exception of the turn: 502, and nothing is saved.
TurnFails(m) ==
    /\ MayFail(turn[m])
    /\ Ends(m, "unavailable")
    /\ UNCHANGED <<row, transcripts, clock, config, lock, told>>

\* MUTANT: the save does not look at the version.
Unchanged_Always(m) == TRUE

Unchanged(m) == row.version = turn[m].base

\* State, history and transcript in one transaction; the session lives on from here.
SaveTurn(m) ==
    /\ turn[m].pc = "save"
    /\ IF ~Unchanged(m) THEN Ends(m, "conflict") /\ UNCHANGED <<row, transcripts, idle>>
       ELSE LET t == turn[m] IN
            /\ row' = [version |-> row.version + 1, state |-> t.state, history |-> Append(t.history, m)]
            /\ transcripts' = Append(transcripts, [question |-> m, given |-> t.given])
            /\ idle' = FALSE
            /\ turn' = [turn EXCEPT ![m].pc = "release", ![m].outcome = "answer", ![m].number = row.version + 1]
    /\ UNCHANGED <<week_over, config, lock, told>>

\* The lock's connection is closed, then the client gets its answer, if it still waits.
Respond(m) ==
    /\ turn[m].pc = "release"
    /\ lock' = lock \ {m}
    /\ turn' = [turn EXCEPT ![m] = [NoTurn EXCEPT !.pc = "done", !.outcome = turn[m].outcome, !.number = turn[m].number]]
    /\ told' = [told EXCEPT ![m] = IF @ = "waiting" THEN turn[m].outcome ELSE @]
    /\ UNCHANGED <<row, transcripts, clock, config>>

Handle(m) ==
    \/ Get(m) \/ TakeLock(m) \/ Read(m)
    \/ Classify(m) \/ Validate(m) \/ Products(m) \/ ScopedTools(m) \/ Render(m)
    \/ ModelCall(m) \/ LoopTool(m) \/ Escalate(m)
    \/ TurnFails(m) \/ SaveTurn(m) \/ Respond(m)

------------------------------------------------------------------------------
(* The world around the handler *)

\* The client's timeout is shorter than many turns; the handler goes on.  Nor does an HTTP 500 after
\* save_turn's commit tell the client whether its turn is stored.
GiveUp(m) ==
    /\ told[m] = "waiting" /\ faults < MaxFaults
    /\ faults' = faults + 1
    /\ told' = [told EXCEPT ![m] = "gave_up"]
    /\ UNCHANGED <<row, transcripts, clock, allowed, lock, turn, locks_lost>>

\* The connection that holds the lock drops; the turn that took it goes on.
LockLost ==
    /\ lock # {} /\ faults < MaxFaults
    /\ faults' = faults + 1
    /\ lock' = {} /\ locks_lost' = TRUE
    /\ UNCHANGED <<row, transcripts, clock, allowed, turn, told>>

Crash ==
    /\ faults < MaxFaults /\ \E m \in Message : InFlight(m)
    /\ faults' = faults + 1
    /\ lock' = {}
    /\ turn' = [m \in Message |-> IF InFlight(m) THEN [NoTurn EXCEPT !.pc = "done"] ELSE turn[m]]
    /\ told' = [m \in Message |-> IF told[m] = "waiting" THEN "gave_up" ELSE told[m]]
    /\ UNCHANGED <<row, transcripts, clock, allowed, locks_lost>>

Reconfigure ==
    /\ faults < MaxFaults
    /\ faults' = faults + 1
    /\ \E regions \in Permission \ {allowed} : allowed' = regions
    /\ UNCHANGED <<row, transcripts, clock, lock, turn, told, locks_lost>>

TimePasses ==
    /\ faults < MaxFaults
    /\ faults' = faults + 1
    /\ \/ ~idle /\ idle' = TRUE /\ UNCHANGED week_over
       \/ ~week_over /\ week_over' = TRUE /\ UNCHANGED idle
    /\ UNCHANGED <<row, transcripts, allowed, lock, turn, told, locks_lost>>

Next ==
    \/ \E m \in Message : Post(m) \/ Handle(m) \/ GiveUp(m)
    \/ LockLost \/ Crash \/ Reconfigure \/ TimePasses

Spec == Init /\ [][Next]_vars

\* A handler runs to its end: model and tool calls time out, and nothing else can block it.
Fairness == \A m \in Message : WF_vars(Handle(m))
FairSpec == Spec /\ Fairness

------------------------------------------------------------------------------
(* Properties *)

TypeOK ==
    /\ row.version = Len(transcripts) /\ IsState(row.state) /\ IsHistory(row.history)
    /\ transcripts \in Seq(Transcript)
    /\ idle \in BOOLEAN /\ week_over \in BOOLEAN
    /\ allowed \in Permission
    /\ lock \in SUBSET Message
    /\ turn \in [Message -> Turn] /\ \A m \in Message : IsState(turn[m].state) /\ IsHistory(turn[m].history)
    /\ told \in [Message -> {"nothing", "waiting", "gave_up"} \cup Outcome]
    /\ faults \in 0..MaxFaults /\ locks_lost \in BOOLEAN

Questions == [i \in DOMAIN transcripts |-> transcripts[i].question]
Kept == row.state.earlier \o row.history
Given == UNION {transcripts[i].given : i \in DOMAIN transcripts}

\* The session remembers the newest questions of its transcript in order, without a gap, and all
\* of them until the remembered list is full, whatever turns fail, overlap or outlive the session
\* (compact_history and note_dropped, saved with the turn by save_turn).
NoTurnForgotten ==
    /\ Kept = Newest(Len(Kept), Questions)
    /\ Len(row.state.earlier) < MAX_EARLIER => Kept = Questions

\* A handle that some turn told the model about never stands for other products or regions,
\* also when its group was dropped and the list was resolved again (add_group, next_group).
HandlesNeverReused ==
    \A i \in DOMAIN transcripts : \A g \in transcripts[i].given :
        /\ g[1] \in DOMAIN row.state.groups => row.state.groups[g[1]] = g[2]
        /\ \A j \in DOMAIN transcripts : \A k \in transcripts[j].given : g[1] = k[1] => g[2] = k[2]

\* No tool result covers a region the user may not see at the start of the turn, also through a
\* group that was resolved when the user was allowed more (_scope and _regions in tools.py).
ResultsWithinPermission == \A m \in Message : turn[m].shown \subseteq turn[m].allowed

\* A client that is told an answer finds its question in the transcript under that turn number; one
\* that is told an error finds its question in no turn (post_message in app.py, save_turn).
ToldTheTruth ==
    \A m \in Message :
        /\ told[m] = "answer" => turn[m].number \in DOMAIN transcripts /\ Questions[turn[m].number] = m
        /\ told[m] \in Outcome \ {"answer"} => \A i \in DOMAIN transcripts : Questions[i] # m

\* A message is refused as busy only while another one is being handled, and its finished turn is
\* thrown away only if a lock was lost: waiting for the lock never costs a turn (turn_lock, the
\* second get in post_message).
RefusedForCause ==
    [][\A m \in Message : turn[m].outcome = "none" =>
          /\ turn'[m].outcome = "busy" => \E k \in Message \ {m} : InFlight(k)
          /\ turn'[m].outcome = "conflict" => locks_lost]_vars

\* What the client of a message knows.
Heard(m) == [said |-> IF told[m] \in Outcome \ {"answer"} THEN "refused" ELSE told[m],
             turn |-> IF told[m] = "answer" THEN turn[m].number ELSE 0]

\* The session is one conversation: however turns overlap, fail or lose their lock, every step
\* answers at most one message, once and after all that were answered before, or tells a client
\* what is true; a refused message is never answered (turn_lock, save_turn, post_message).
Conv == INSTANCE Conversation WITH
    Meaning <- Group, Room <- MAX_EARLIER,
    answered <- Questions, remembered <- Kept, meaning <- Given,
    reply <- [m \in Message |-> Heard(m)]
ImplementsConversation == [][Conv!Next]_(Conv!vars)

\* Every message that arrives is handled to an end: the model cannot keep a turn, and with it the
\* session's lock, for ever (MAX_STEPS in run_turn).
EveryMessageEnds == \A m \in Message : InFlight(m) ~> ~InFlight(m)

==============================================================================
