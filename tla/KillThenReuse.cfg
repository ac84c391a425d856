\* A kill deletes the row before the route of its slot.
SPECIFICATION Spec
CONSTANTS
    s1 = s1
    s2 = s2
    c1 = c1
    c2 = c2
    Nobody = Nobody
    Sandboxes = {s1, s2}
    Callers = {c1, c2}
    Containers = {}
    MaxSlot = 2
    Ops = {"create", "pause", "resume", "stop", "start", "reboot", "kill"}
    Discipline = "lifecycle"
    Faults = {}
    MaxCalls = 4
    MaxFaults = 0
SYMMETRY FullSymmetry
INVARIANTS
    RouteServesOwner
