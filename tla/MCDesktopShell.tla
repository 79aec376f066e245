----------------------------- MODULE MCDesktopShell -----------------------------
(* Crashes, failing spawns and downloads, checks, and one or two installations. *)
EXTENDS DesktopShell

Budget(crashes_, failures_, checks_, installs_) ==
    [crashes |-> crashes_, failures |-> failures_, checks |-> checks_, installs |-> installs_]
BudgetSet == {Budget(2, 2, 3, 2)}
=============================================================================
