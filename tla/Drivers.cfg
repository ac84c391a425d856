\* One sandbox under either driver, three calls, two at a time, two things that go wrong.
SPECIFICATION Spec
CONSTANTS
    c1 = c1
    c2 = c2
    c3 = c3
    NoCall = NoCall
    Calls = {c1, c2, c3}
    Drivers = {"firecracker", "gvisor"}
    Ops = {"create", "resume", "pause", "stop", "reboot", "kill", "balloon"}
    MaxLaunch = 3
    MaxActive = 2
    MaxFaults = 2
SYMMETRY CallSymmetry
INVARIANTS
    TypeOK
    SnapshotWhole
    PausedIsSaved
    NoForgottenRuntime
    StatusHonest
CHECK_DEADLOCK FALSE
