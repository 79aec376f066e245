------------------------------ MODULE CommandLog ------------------------------
(***************************************************************************)
(* What command dispatch promises (orchestration/Services/                 *)
(* OrchestrationEngine.ts): commands take effect one after the other, each *)
(* at most once, on what the commands before it left; a command that is    *)
(* refused takes no effect; and every answer to the same command agrees,   *)
(* however often clients repeat it and the server restarts.                *)
(***************************************************************************)
EXTENDS OrchestrationCommands

CONSTANT Histories   \* the logs the program may start from

\* The answer to a refused command; any other answer is a sequence number.
Refusal == 0

VARIABLES
    log,       \* persisted events; an event's sequence number is its index
    verdict,   \* each command's receipt
    answers    \* what the clients of each command were told

logVars == <<log, verdict, answers>>

-----------------------------------------------------------------------------

Known == CreatedBy(log, DOMAIN log)

Unseen == [status |-> "none", sequence |-> 0]

Init ==
    /\ log \in Histories
    /\ verdict = [c \in Command |-> Unseen]
    /\ answers = [c \in Command |-> {}]

Accept(c) ==
    /\ verdict[c] = Unseen
    /\ Accepts(Known, c)
    /\ log' = log \o Batch(c)
    /\ verdict' = [verdict EXCEPT ![c] = [status |-> "accepted", sequence |-> Len(log')]]
    /\ UNCHANGED answers

Refuse(c) ==
    /\ verdict[c] = Unseen
    /\ ~Accepts(Known, c)
    /\ verdict' = [verdict EXCEPT ![c] = [status |-> "rejected", sequence |-> Refusal]]
    /\ UNCHANGED <<log, answers>>

Answer(c) ==
    /\ verdict[c] # Unseen
    /\ answers' = [answers EXCEPT ![c] = @ \cup {verdict[c].sequence}]
    /\ UNCHANGED <<log, verdict>>

Next == \E c \in Command : Accept(c) \/ Refuse(c) \/ Answer(c)

Spec == Init /\ [][Next]_logVars
=============================================================================
