------------------------- MODULE MCOrchestrationEngine -------------------------
(* Commands, histories and projectors for the engine's runs. *)
EXTENDS OrchestrationEngine

Cmd(id, kind, target, parent) ==
    [id |-> id, kind |-> kind, target |-> target, parent |-> parent]

\* A project, two clients that create the same thread in it, and a turn.
FourCommands ==
    {Cmd("create-project", "project.create", "P", "none"),
     Cmd("create-thread", "thread.create", "T", "P"),
     Cmd("create-thread-too", "thread.create", "T", "P"),
     Cmd("start-turn", "thread.turn.start", "T", "none")}

Old(type, target) == [type |-> type, target |-> target, command |-> NoCommand]

NoHistory == {<<>>}

\* What the version with workflow journeys left: its events are retired.
RetiredHistory ==
    {<<>>, <<Old("project.created", "P"), Old("retired", "J")>>}

TwoProjectors == <<"projection.projects", "projection.threads">>
AllBehind == {"projection.projects", "projection.threads"}
=============================================================================
