\* Clients that follow the documented lifecycle, one call at a time for each
\* sandbox; every fault; s2 is a container.
SPECIFICATION Spec
CONSTANTS
    s1 = s1
    s2 = s2
    c1 = c1
    c2 = c2
    Nobody = Nobody
    Sandboxes = {s1, s2}
    Callers = {c1, c2}
    Containers = {s2}
    MaxSlot = 2
    Ops = {"create", "pause", "resume", "stop", "start", "reboot", "kill"}
    Discipline = "lifecycle"
    Faults = {"db", "host", "rpc", "agent", "cancel", "crash", "vmexit"}
    MaxCalls = 5
    MaxFaults = 1
SYMMETRY CallerSymmetry
INVARIANTS
    TypeOK
    SlotExclusive
    RouteKept
    RuntimeMatchesRow
    NoStrayRuntime
    GoneLeavesNothing
    HealthyVMNeverFails
PROPERTIES
    ImplementsLifecycle
