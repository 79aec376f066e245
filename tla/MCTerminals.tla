----------------------------- MODULE MCTerminals -----------------------------
(* The bound on what clients and shells do, and symmetry.  Threads are left out *)
(* of it where SomeKey or NoCall's key would tell them apart.                   *)
EXTENDS TerminalManager, TLC

CONSTANT MaxAsked  \* how many requests, outputs and writes there are in a behaviour

VARIABLE asked     \* how many there were

MCInit == Init /\ asked = 0

Asks ==
    \/ \E c \in Call, op \in Operation \cap Requests, k \in Key, cfg \in Config, del \in BOOLEAN :
          RequestCall(c, op, k, cfg, del)
    \/ \E k \in Key : Touch(k)
    \/ \E o \in Session : ProcessData(o)
    \/ Dispose

MCNext ==
    \/ asked < MaxAsked /\ Asks /\ asked' = asked + 1
    \/ /\ \/ \E c \in Call : CallStep(c)
          \/ \E k \in Key : PersistTimerFires(k) \/ WriteStep(k)
          \/ \E p \in Shell : KillTimerFires(p) \/ SignalledExits(p)
          \/ \E o \in Session : ProcessExit(o)
          \/ PollBegins
          \/ \E active \in SUBSET Shell : PollEnds(active)
       /\ UNCHANGED asked

MCSpec == MCInit /\ [][MCNext]_<<vars, asked>>

Symmetric == Permutations(Session) \cup Permutations(Shell) \cup Permutations(Call)
=============================================================================
