SPECIFICATION Spec
CONSTANTS
    Reqs = {r1, r2, r3}
    MaxProjects = 3
    MaxActive = 3
    Start = "fresh"
    Ops = {"list", "newTask"}
    PatchBodies <- FewPatchBodies
    CreateBodies <- FewCreateBodies
SYMMETRY Symmetry
INVARIANT FirstTouchAgrees
