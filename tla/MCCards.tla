------------------------------ MODULE MCCards ------------------------------
(* Instances of Cards for TLC: two projects, with up to three lists. *)
EXTENDS Cards, TLC

CONSTANTS p1, p2, l1, l2, m1, a1

TwoProjects == {p1, p2}
ListBoards  == [l \in Lists |-> IF l = m1 THEN p2 ELSE p1]
LabelBoards == [x \in Labels |-> p1]

AllOps == CardOps \cup CreateOps \cup PatchOps \cup BoardOps
Both   == {"TASK", "EVENT"}

\* Every way to hide, show or remap a list, and a few for the larger runs.
AllListBodies == ListBody
FewListBodies == {[archived |-> "yes", maps |-> "keep"], [archived |-> "keep", maps |-> "DONE"]}

\* All but the operations that only write the deleted flag, the status or the repetition,
\* which other operations in the run write as well.
SerialOps == AllOps \ {"delete", "restore", "reopen", "replay", "patch"}

\* The operations that read a card or a list and write it later.
RacingOps == AllOps \ {"setLabels", "addLabel", "removeLabel", "relabel", "updateList"}
NoListBodies == {}

\* For the larger run: a behaviour with labels leaves the lists as the boards made them.
ListOps    == {"move", "capture", "updateList"}
FirstLists == \A l \in Lists : lists[l].live =>
    l = DefaultList(ListOf[l]) /\ ~lists[l].archived /\ lists[l].maps = "TODO"
ListsOrLabels ==
    \/ labelLive = {} /\ \A r \in Reqs : req[r].labels = {}
    \/ FirstLists /\ \A r \in Reqs : req[r].op \notin ListOps

\* Request slots are interchangeable: no action or property names one.
Symmetry == Permutations(Reqs)
=============================================================================
