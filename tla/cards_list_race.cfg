SPECIFICATION Spec
CONSTANTS
    p1 = p1
    p2 = p2
    l1 = l1
    l2 = l2
    m1 = m1
    a1 = a1
    Reqs = {r1, r2}
    Projects <- TwoProjects
    Lists = {l1, l2, m1}
    ListOf <- ListBoards
    Labels = {}
    LabelOf <- LabelBoards
    NoBoard = NoBoard
    NoList = NoList
    Kinds = {"TASK"}
    Orphans = 0
    MaxTasks = 1
    MaxRepeat = 0
    Ops <- RacingOps
    PatchStatuses = {"TODO", "DONE", "keep"}
    PatchRepeats = {}
    ListBodies <- NoListBodies
SYMMETRY Symmetry
INVARIANT ListOnBoard
