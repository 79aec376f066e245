------------------------- MODULE MCClaudeSessions -------------------------
(* The bound on what clients ask for, and the instance of the manager's run. *)
EXTENDS ClaudeSessionManager

CONSTANT MaxAsked  \* how many operations clients ask for in a behaviour

VARIABLE asked     \* how many they asked for

TwoHarnesses == <<"claudeCode", "codexCli">>

\* The cap starts at two sessions and may be lowered to one.
MCInit == Init /\ maxActive = 2 /\ asked = 0

MCNext ==
    \/ asked < MaxAsked /\ Client /\ asked' = asked + 1
    \/ /\ \/ \E t \in Thread : LockStep(t)
          \/ \E j \in Job : ResumeJob(j)
          \/ \E p \in Proc : ChildEnds(p) \/ OnExit(p) \/ KillTimer(p)
          \/ HibernateAllTimeout
          \/ Dispose
       /\ UNCHANGED asked

MCSpec == MCInit /\ [][MCNext]_<<vars, asked>> /\ Fairness
=============================================================================
