\* Fair calls of unrestricted clients of one sandbox.
SPECIFICATION FairSpec
CONSTANTS
    s1 = s1
    c1 = c1
    c2 = c2
    Nobody = Nobody
    Sandboxes = {s1}
    Callers = {c1, c2}
    Containers = {}
    MaxSlot = 2
    Ops = {"create", "pause", "resume", "stop", "start", "reboot", "kill"}
    Discipline = "any"
    Faults = {"host", "rpc", "agent", "vmexit"}
    MaxCalls = 3
    MaxFaults = 1
PROPERTIES
    TransitionEnds
