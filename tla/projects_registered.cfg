SPECIFICATION Spec
CONSTANTS
    Reqs = {r1, r2}
    MaxProjects = 3
    MaxActive = 3
    Start = "registered"
    Ops <- AllOps
    PatchBodies <- FewPatchBodies
    CreateBodies <- FewCreateBodies
SYMMETRY Symmetry
INVARIANTS TypeOK AtMostOneDefault SystemProjectKept
PROPERTY NeverWithoutActive
