\* A cancelled request.
SPECIFICATION Spec
CONSTANTS
    s1 = s1
    c1 = c1
    c2 = c2
    Nobody = Nobody
    Sandboxes = {s1}
    Callers = {c1, c2}
    Containers = {}
    MaxSlot = 2
    Ops = {"create", "pause", "resume", "stop", "start", "reboot", "kill"}
    Discipline = "lifecycle"
    Faults = {"cancel"}
    MaxCalls = 2
    MaxFaults = 1
INVARIANTS
    NoStuckTransition
