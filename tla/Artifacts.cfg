\* Two API calls at a time on one template and one image.
SPECIFICATION MCSpec
CONSTANTS
    t1 = t1
    i1 = i1
    b1 = b1
    c1 = c1
    c2 = c2
    Earlier = Earlier
    NoFile = NoFile
    Templates = {t1}
    Images = {i1}
    Builds = {b1}
    Calls = {c1, c2}
    MaxSlot = 2
    MaxActive = 2
    Ops = {"new", "build", "export", "delete", "convert", "unimage"}
    Sources = {"docker", i1}
SYMMETRY CallSymmetry
CHECK_DEADLOCK FALSE
INVARIANTS
    BuildExclusive
    NoStuckBuild
    ReadyHasTemplate
    TemplateCoherent
    ImageFaithful
    BuildLeavesNothing
    BuildKeepsRoute
