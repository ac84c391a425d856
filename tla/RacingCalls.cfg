\* Two calls at a time on one sandbox whose identifier is used once; RPCs, host
\* commands and agents fail.
SPECIFICATION Spec
CONSTANTS
    s1 = s1
    c1 = c1
    c2 = c2
    Nobody = Nobody
    Sandboxes = {s1}
    Callers = {c1, c2}
    Containers = {}
    MaxSlot = 2
    Ops = {"create", "pause", "resume", "stop", "start", "reboot", "kill"}
    Discipline = "fresh"
    Faults = {"host", "rpc", "agent"}
    MaxCalls = 4
    MaxFaults = 1
SYMMETRY CallerSymmetry
INVARIANTS
    NoStuckTransition
    ParkedHoldsNoSlot
PROPERTIES
    ImplementsStore
