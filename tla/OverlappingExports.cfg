\* Two images exported from one template at a time.
SPECIFICATION Spec
CONSTANTS
    t1 = t1
    i1 = i1
    i2 = i2
    b1 = b1
    c1 = c1
    c2 = c2
    Earlier = Earlier
    NoFile = NoFile
    Templates = {t1}
    Images = {i1, i2}
    Builds = {b1}
    Calls = {c1, c2}
    MaxSlot = 2
    MaxActive = 2
    Ops = {"export"}
    Sources = {"docker"}
SYMMETRY CallSymmetry
CHECK_DEADLOCK FALSE
INVARIANT
    TemplateRootfsKept
