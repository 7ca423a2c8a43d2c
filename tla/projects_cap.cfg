SPECIFICATION Spec
CONSTANTS
    Reqs = {r1}
    MaxProjects = 3
    MaxActive = 2
    Start = "registered"
    Ops <- AllOps
    PatchBodies <- FewPatchBodies
    CreateBodies <- FewCreateBodies
INVARIANT ActiveWithinCap
