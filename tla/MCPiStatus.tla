------------------------------- MODULE MCPiStatus -------------------------------
(* Two turns of a few replies in each mode, redraws and a resumed session.        *)
EXTENDS PiStatus

ModeSet == {"terminal", "rpc"}
Budget(turns_, replies_, outputs_, resumes_) ==
    [turns |-> turns_, replies |-> replies_, outputs |-> outputs_, resumes |-> resumes_]
BudgetSet == {Budget(3, 2, 2, 0), Budget(2, 2, 1, 1)}
=============================================================================
