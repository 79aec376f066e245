---- MODULE MCHarnessOutput ----
(* A session of a few characters, more than the server keeps, watched by views   *)
(* that come and go, with what may disturb them, a few things at a time.         *)
EXTENDS HarnessOutput

Budget(output, mounts_, restarts, drops, faults, evictions, away) ==
    [output |-> output, mounts |-> mounts_, restarts |-> restarts, drops |-> drops,
     faults |-> faults, evictions |-> evictions, away |-> away]
BudgetSet == {Budget(4, 2, 1, 0, 0, 0, 0), Budget(3, 2, 0, 1, 0, 0, 0), Budget(3, 2, 0, 0, 1, 0, 0),
              Budget(4, 2, 0, 0, 0, 1, 0), Budget(3, 2, 0, 0, 0, 0, 2)}
NothingHeld == {}
===========================
