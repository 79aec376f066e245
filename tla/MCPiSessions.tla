------------------------------ MODULE MCPiSessions ------------------------------
(* Two starts of each kind, and one or two of the calls that may cross them.      *)
EXTENDS PiSessionManager

CONSTANT c1
CallSet == {c1}

Kind(mode_, prompt_) == [mode |-> mode_, prompt |-> prompt_]
T == Kind("terminal", FALSE)
TP == Kind("terminal", TRUE)
R == Kind("rpc", FALSE)
RP == Kind("rpc", TRUE)
Budget(kinds_, lifecycle_, inputs_, calls_) ==
    [kinds |-> kinds_, lifecycle |-> lifecycle_, inputs |-> inputs_, calls |-> calls_]
BudgetSet == {Budget(<<TP, TP>>, {"hibernate"}, 0, 0), Budget(<<TP, TP>>, {}, 1, 0),
              Budget(<<TP, RP>>, {"destroy"}, 0, 0), Budget(<<R, TP>>, {"hibernate"}, 0, 1),
              Budget(<<T, TP>>, {"destroy"}, 1, 0), Budget(<<RP, TP>>, {"purge"}, 0, 0),
              Budget(<<T, R>>, {"hibernate", "purge"}, 0, 0), Budget(<<T, RP>>, {"notify"}, 0, 1)}
=============================================================================
