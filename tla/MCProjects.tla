---------------------------- MODULE MCProjects ----------------------------
(* Instances of Projects for TLC. *)
EXTENDS Projects, TLC

AllOps == EnsureOps \cup IdOps \cup {"create"}

\* Every body the DTOs accept, and a few for the runs with parallel requests.
AllPatchBodies  == {d \in Dto : ~d.isDefault}
AllCreateBodies == {d \in Dto : d.code # "keep" /\ d.name # "keep" /\ d.archived = "keep"}

Body(code, name, archived) ==
    [code |-> code, name |-> name, archived |-> archived, isDefault |-> FALSE]
FewPatchBodies  == {Body("CHUNG", "keep", "keep"), Body("OTHER", "keep", "yes")}
FewCreateBodies == {Body("OTHER", "OTHER", "keep")}

\* Request slots are interchangeable: no action or property names one.
Symmetry == Permutations(Reqs)
=============================================================================
