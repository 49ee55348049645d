SPECIFICATION Spec
CONSTANTS
    Pid = {p1, p2}
    Addr = {1, 2, 3}
    Length = {1, 2}
    Shared = FALSE
    MaxIssues = 4
SYMMETRY Processes
INVARIANT CountIsOutstanding
