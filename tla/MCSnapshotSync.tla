---- MODULE MCSnapshotSync ----
(* One thread shown at first and one the user may move to, which may be archived *)
(* or not created yet; and what may disturb them, a few things at a time.        *)
EXTENDS SnapshotSync
CONSTANTS t1, t2

ThreadSet == {t1, t2}
Old == {t1}
Views == {t1, t2}
Creation == [on |-> t2, what |-> "created"]
Archiving == [on |-> t2, what |-> "archived"]
PastSet == {<<>>, <<Creation>>, <<Creation, Archiving>>}

Budget(events, moves, drops, faults, writes) ==
    [events |-> events, moves |-> moves, drops |-> drops, faults |-> faults, writes |-> writes]
BudgetSet == {Budget(2, 2, 0, 0, 0), Budget(2, 1, 1, 0, 0), Budget(2, 0, 0, 1, 0),
              Budget(0, 0, 1, 0, 3), Budget(0, 0, 1, 1, 2)}
Undisturbed == {Budget(2, 2, 0, 0, 0)}
=============================================================================
