\* A 5-bit address space; a host whose networks have no slot does nothing, and one
\* whose sandboxes have been started often enough stops.
SPECIFICATION MCSpec
CONSTANTS
    WordBits = 5
    WordSize = 32
    v1 = v1
    g1 = g1
    r1 = r1
    Nobody = Nobody
    VMs = {v1}
    Containers = {g1}
    Requests = {r1}
    MaxStarts = 3
    MaxFailures = 1
CHECK_DEADLOCK FALSE
INVARIANTS
    HostTypeOK
    SlotsConfigurable
    AddressesExclusive
    SlotRecovered
    SandboxReachable
PROPERTY
    ProxyReachesOwner
