SPECIFICATION Spec
CONSTANTS
    p1 = p1
    p2 = p2
    l1 = l1
    l2 = l2
    m1 = m1
    a1 = a1
    Reqs = {r1}
    Projects <- TwoProjects
    Lists = {l1, m1}
    ListOf <- ListBoards
    Labels = {a1}
    LabelOf <- LabelBoards
    NoBoard = NoBoard
    NoList = NoList
    Kinds = {"TASK"}
    Orphans = 1
    MaxTasks = 2
    MaxRepeat = 1
    Ops <- SerialOps
    PatchStatuses = {"keep"}
    PatchRepeats = {1}
    ListBodies <- FewListBodies
INVARIANTS TypeOK ListOnBoard BoardedOnOwnProject LabelsOnBoard
PROPERTY ArchivingReleases
CONSTRAINT ListsOrLabels
