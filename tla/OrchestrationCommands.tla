------------------------- MODULE OrchestrationCommands -------------------------
(***************************************************************************)
(* Commands and the events they produce: the part of the decider           *)
(* (orchestration/decider.ts, commandInvariants.ts) on which the engine's  *)
(* serialization depends.  A project must be created once and before its   *)
(* threads, a thread once and before its turns; a turn is two events.      *)
(***************************************************************************)
EXTENDS Integers, Sequences

CONSTANT Command    \* commands: an id, a kind, the id they are about, its parent

Kind == {"project.create", "thread.create", "thread.turn.start"}

ASSUME CommandAssumption ==
    Command \subseteq [id: STRING, kind: Kind, target: STRING, parent: STRING]

\* The command id of an event that no modelled command produced.
NoCommand == "none"

EventTypes(kind) ==
    CASE kind = "project.create"    -> <<"project.created">>
      [] kind = "thread.create"     -> <<"thread.created">>
      [] kind = "thread.turn.start" -> <<"thread.message-sent",
                                         "thread.turn-start-requested">>

\* The events a command that is accepted produces.
Batch(c) ==
    [i \in DOMAIN EventTypes(c.kind) |->
        [type |-> EventTypes(c.kind)[i], target |-> c.target, command |-> c.id]]

Created == {"project.created", "thread.created"}

\* What a set of events of l brings into being.
CreatedBy(l, is) == {<<l[i].type, l[i].target>> : i \in {j \in is : l[j].type \in Created}}

Project(id) == <<"project.created", id>>
Thread(id) == <<"thread.created", id>>

\* requireProjectAbsent; requireProject and requireThreadAbsent; requireThread.
Accepts(known, c) ==
    CASE c.kind = "project.create"    -> Project(c.target) \notin known
      [] c.kind = "thread.create"     -> Project(c.parent) \in known /\ Thread(c.target) \notin known
      [] c.kind = "thread.turn.start" -> Thread(c.target) \in known
================================================================================
