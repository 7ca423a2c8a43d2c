SPECIFICATION Spec
CONSTANTS
    Reqs = {r1}
    MaxProjects = 3
    MaxActive = 3
    Start = "legacy"
    Ops <- AllOps
    PatchBodies <- AllPatchBodies
    CreateBodies <- AllCreateBodies
INVARIANT OpenedIsActiveDefault
PROPERTIES NeverWithoutActive DefaultStaysActive OnlyEmptyProjectsDeleted
