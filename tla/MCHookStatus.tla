------------------------------ MODULE MCHookStatus ------------------------------
(* A few turns of one agent; what may disturb them, a few things at a time.       *)
EXTENDS HookStatus

Budget(turns, tools, late_, visits, outputs, exits) ==
    [turns |-> turns, tools |-> tools, late |-> late_, visits |-> visits,
     outputs |-> outputs, exits |-> exits]
BudgetSet == {Budget(2, 3, 1, 0, 0, 1), Budget(2, 1, 1, 1, 1, 1), Budget(1, 2, 0, 1, 1, 2),
              Budget(1, 1, 2, 1, 1, 1)}
=============================================================================
