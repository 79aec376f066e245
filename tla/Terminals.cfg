SPECIFICATION MCSpec
CONSTANTS
    p1 = p1
    p2 = p2
    r1 = r1
    r2 = r2
    s1 = s1
    s2 = s2
    Thread = {"x"}
    TerminalId = {"a", "b"}
    Config = {"c1"}
    Session = {s1, s2}
    NoSession = NoSession
    Shell = {p1, p2}
    NoShell = NoShell
    Call = {r1, r2}
    MaxRetained = 2
    MaxVersion = 3
    MaxAsked = 4
    Requests = {"open", "clear", "restart", "close", "closeAll", "output", "touch", "poll", "dispose"}
    Faults = {"cwd", "spawn"}
SYMMETRY Symmetric
INVARIANTS NoLostShell HistoryIsRestored NeverStuck
PROPERTIES CloseStopsShells DeletedStaysDeleted
CHECK_DEADLOCK FALSE
