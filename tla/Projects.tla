------------------------------ MODULE Projects ------------------------------
(***************************************************************************)
(* The projects of one user: the table behind ProjectRepository, and the   *)
(* handlers of ProjectsService and ProjectAccessService that read and      *)
(* write it.  Every query of the code is scoped to one owner, so one owner *)
(* is enough.                                                              *)
(*                                                                         *)
(* A handler is a sequence of awaited queries and other requests of the    *)
(* same user run between any two of them, so each query is an action of    *)
(* its own.  A $transaction is one action.  A request may also end         *)
(* anywhere without its remaining steps (RequestFails): a lost connection, *)
(* a restart of the process, or a name or code that is already taken.      *)
(*                                                                         *)
(* Of a project's code and name only "is it the one of the system project" *)
(* matters to control flow: all other codes and names are "OTHER".         *)
(*                                                                         *)
(* A definition with an underscore in its name is a faulty variant of the  *)
(* one that follows it; nothing uses it unless it is put in its place to   *)
(* see that a property notices the fault.                                  *)
(***************************************************************************)
EXTENDS Integers, FiniteSets

CONSTANTS
    Reqs,         \* request slots: how many requests run at the same time
    MaxProjects,  \* bound: projects ever created
    MaxActive,    \* MAX_ACTIVE_PROJECTS_PER_USER (30 in the code)
    Start,        \* the account the run starts from, see Init
    Ops,          \* the operations the user performs in the run
    PatchBodies,  \* the bodies of PATCH /projects/:id
    CreateBodies  \* the bodies of POST /projects, codes already resolved

EnsureOps == {"list", "newTask"}
IdOps     == {"taskIn", "patch", "setDefault", "archive", "remove"}

\* The body of a request; "keep" is a field that was not sent.
Dto == [code : {"keep", "CHUNG", "OTHER"}, name : {"keep", "CHUNG", "OTHER"},
        archived : {"keep", "yes", "no"}, isDefault : BOOLEAN]
NoDto == [code |-> "keep", name |-> "keep", archived |-> "keep", isDefault |-> FALSE]

ASSUME ProjectsAssumption ==
    /\ MaxProjects \in Nat \ {0}
    /\ MaxActive \in Nat
    /\ Start \in {"fresh", "registered", "legacy"}
    /\ Ops \subseteq EnsureOps \cup IdOps \cup {"create"}
    /\ PatchBodies \subseteq {d \in Dto : ~d.isDefault}
    /\ CreateBodies \subseteq {d \in Dto : d.code # "keep" /\ d.name # "keep" /\ d.archived = "keep"}

VARIABLES
    projects,  \* the table: id -> row; ids are given out in creation order
    nextId,    \* the next id, so "created earlier" is "has a smaller id"
    hasTasks,  \* ids of the projects with a task row, soft-deleted included
    req        \* the state of each request slot

vars == <<projects, nextId, hasTasks, req>>

Ids  == 1..MaxProjects
NoId == 0

Absent == [code |-> "none", name |-> "none", isDefault |-> FALSE, archived |-> FALSE]
Row    == [code : {"CHUNG", "OTHER"}, name : {"CHUNG", "OTHER"},
           isDefault : BOOLEAN, archived : BOOLEAN]

Chung == [code |-> "CHUNG", name |-> "CHUNG", isDefault |-> TRUE, archived |-> FALSE]

Pcs == {"idle", "findDefault", "findOldest", "findChung", "revive", "insertChung",
        "fallbackDefault", "fallbackCode", "opened", "read", "checkFree",
        "countForArchive", "pickNext", "moveFlag", "update", "restoreFlag",
        "countTasks", "countForRemove", "delete", "pickAfterDelete", "giveFlag",
        "countForCreate", "checkCreate", "insert", "insertTask"}

Request == [op : EnsureOps \cup IdOps \cup {"create", "none"}, pc : Pcs,
            id : Ids \cup {NoId},     \* the project the request is about
            dto : Dto,
            row : Row \cup {Absent},  \* the project as the request read it
            to : Ids \cup {NoId}]     \* the project that gets the default flag

Idle == [op |-> "none", pc |-> "idle", id |-> NoId, dto |-> NoDto,
         row |-> Absent, to |-> NoId]

TypeOK ==
    /\ projects \in [Ids -> Row \cup {Absent}]
    /\ nextId \in 1..(MaxProjects + 1)
    /\ hasTasks \subseteq Ids
    /\ req \in [Reqs -> Request]

-----------------------------------------------------------------------------
(* The queries of ProjectRepository.                                       *)

Live     == {p \in Ids : projects[p] # Absent}
Active   == {p \in Live : ~projects[p].archived}
Defaults == {p \in Live : projects[p].isDefault}
System   == {p \in Live : projects[p].code = "CHUNG"}

\* findFirst in creation order, NoId for null.
Oldest(S) == IF S = {} THEN NoId ELSE CHOOSE p \in S : \A q \in S : p <= q

\* Fault: no unique index.
IndexesAccept_NoIndex(p, row) == TRUE

\* The unique indexes (owner, code), (owner, name) and the partial one on the
\* default flag would accept row as the content of project p.
IndexesAccept(p, row) ==
    \A q \in Live \ {p} :
        /\ row.code = "CHUNG" => projects[q].code # "CHUNG"
        /\ row.name = "CHUNG" => projects[q].name # "CHUNG"
        /\ row.isDefault => ~projects[q].isDefault

\* Fault: the other flags are not cleared.
WithDefault_NoClear(p) ==
    [q \in Ids |-> IF q \in Live /\ q = p THEN [projects[q] EXCEPT !.isDefault = TRUE]
                                          ELSE projects[q]]

\* setDefault: one transaction that clears every other flag, then sets this one.  It is one
\* step here: of two that overlap at READ COMMITTED, neither of which sees the other's flag,
\* the partial index refuses one, and its request ends with an error.
WithDefault(p) ==
    [q \in Ids |-> IF q \in Live THEN [projects[q] EXCEPT !.isDefault = (q = p)]
                                 ELSE projects[q]]

\* Fault: the fields that were not sent are written too.
Updated_WritesAll(row, dto) ==
    [row EXCEPT !.code = dto.code, !.name = dto.name, !.archived = (dto.archived = "yes")]

\* The content of a row after update(dto); fields that were not sent are kept.
Updated(row, dto) ==
    [row EXCEPT !.code     = IF dto.code = "keep" THEN @ ELSE dto.code,
                !.name     = IF dto.name = "keep" THEN @ ELSE dto.name,
                !.archived = IF dto.archived = "keep" THEN @ ELSE dto.archived = "yes"]

\* findByCode / findByName, made before a code or a name is written.
CodeTaken(dto) == dto.code = "CHUNG" /\ System # {}
NameTaken(dto) == dto.name = "CHUNG" /\ \E p \in Live : projects[p].name = "CHUNG"

End(r) == req' = [req EXCEPT ![r] = Idle]
Goto(r, pc) == req' = [req EXCEPT ![r].pc = pc]
At(r, pc) == req[r].pc = pc
ReadOnly == UNCHANGED <<projects, nextId, hasTasks>>

-----------------------------------------------------------------------------
(* Init, and the requests that arrive.                                     *)

\* A table of k rows that the indexes accept, its first row the system project.
LegalTable(t, k) ==
    /\ \A p \in Ids : (t[p] # Absent) <=> p <= k
    /\ \A p \in Ids : (t[p].code = "CHUNG") <=> (p = 1 /\ k > 0)
    /\ \A p, q \in 1..k : p # q => /\ ~(t[p].name = "CHUNG" /\ t[q].name = "CHUNG")
                                   /\ ~(t[p].isDefault /\ t[q].isDefault)

\* "fresh": signed in with Google, no project yet.  "registered": RegisterHandler
\* and the migration have made the system project.  "legacy": any table with a
\* system project, whatever older code or racing requests left in it.
Init ==
    /\ projects \in [Ids -> Row \cup {Absent}]
    /\ \E k \in 0..(MaxProjects - 1) :
          /\ nextId = k + 1
          /\ LegalTable(projects, k)
          /\ Start = "fresh" => k = 0
          /\ Start = "registered" => k = 1 /\ projects[1] = Chung
          /\ Start = "legacy" => k > 0
    /\ hasTasks = {}
    /\ req = [r \in Reqs |-> Idle]

Arrive(r, op, id, dto, pc) ==
    /\ At(r, "idle")
    /\ op \in Ops
    /\ req' = [req EXCEPT ![r] = [op |-> op, pc |-> pc, id |-> id, dto |-> dto,
                                  row |-> Absent, to |-> NoId]]
    /\ ReadOnly

\* GET /projects and the routes that open the default project ("list"), and
\* POST /tasks or an e-mail without a projectId ("newTask").
ArriveEnsure(r) == \E op \in EnsureOps : Arrive(r, op, NoId, NoDto, "findDefault")

\* Requests about a project the user names: POST /tasks with a projectId, PUT
\* /default, PUT /archive, DELETE and PATCH.  The id may be of a deleted project.
ArriveById(r) ==
    \E id \in 1..(nextId - 1) :
        \/ \E op \in {"taskIn", "setDefault", "remove"} : Arrive(r, op, id, NoDto, "read")
        \/ \E a \in {"yes", "no"} :
              Arrive(r, "archive", id, [NoDto EXCEPT !.archived = a], "read")
        \/ \E dto \in PatchBodies : Arrive(r, "patch", id, dto, "read")

ArriveCreate(r) ==
    \E dto \in CreateBodies : Arrive(r, "create", NoId, dto, "countForCreate")

-----------------------------------------------------------------------------
(* ProjectAccessService.ensureDefaultProject, one action per query.        *)

Opened(r, p) == req' = [req EXCEPT ![r].pc = "opened", ![r].id = p]
GoGiveFlag(r, p) == req' = [req EXCEPT ![r].pc = "giveFlag", ![r].to = p]

\* Fault: an archived default project is good enough.
UsableDefault_Archived == Defaults

\* findDefault reads the row with the flag, and a row that is archived is passed over.
UsableDefault == Defaults \cap Active

FindDefault(r) ==
    /\ At(r, "findDefault")
    /\ IF UsableDefault # {} THEN Opened(r, Oldest(UsableDefault))
                             ELSE Goto(r, "findOldest")
    /\ ReadOnly

FindOldest(r) ==
    /\ At(r, "findOldest")
    /\ IF Active # {} THEN GoGiveFlag(r, Oldest(Active)) ELSE Goto(r, "findChung")
    /\ ReadOnly

FindChung(r) ==
    /\ At(r, "findChung")
    /\ IF System # {} THEN req' = [req EXCEPT ![r].pc = "revive", ![r].id = Oldest(System)]
                      ELSE Goto(r, "insertChung")
    /\ ReadOnly

\* update(archived: false), an error when the row is gone.
Revive(r) ==
    LET p == req[r].id IN
    /\ At(r, "revive")
    /\ IF p \in Live
       THEN /\ projects' = [projects EXCEPT ![p].archived = FALSE]
            /\ GoGiveFlag(r, p)
       ELSE End(r) /\ UNCHANGED projects
    /\ UNCHANGED <<nextId, hasTasks>>

InsertChung(r) ==
    /\ At(r, "insertChung")
    /\ nextId <= MaxProjects
    /\ IndexesAccept(nextId, Chung)
    /\ projects' = [projects EXCEPT ![nextId] = Chung]
    /\ nextId' = nextId + 1
    /\ Opened(r, nextId)
    /\ UNCHANGED hasTasks

\* catch: an index refused the row, or the query failed for any other reason.
InsertChungFails(r) ==
    /\ At(r, "insertChung")
    /\ Goto(r, "fallbackDefault")
    /\ ReadOnly

FallbackDefault(r) ==
    /\ At(r, "fallbackDefault")
    /\ IF Defaults # {} THEN Opened(r, Oldest(Defaults)) ELSE Goto(r, "fallbackCode")
    /\ ReadOnly

FallbackCode(r) ==
    /\ At(r, "fallbackCode")
    /\ IF System # {} THEN Opened(r, Oldest(System)) ELSE End(r)
    /\ ReadOnly

\* The caller goes on with the project: a list is answered, a task is inserted.
UseOpened(r) ==
    /\ At(r, "opened")
    /\ IF req[r].op = "newTask" THEN Goto(r, "insertTask") ELSE End(r)
    /\ ReadOnly

\* The foreign key refuses a task of a project that is gone.
InsertTask(r) ==
    /\ At(r, "insertTask")
    /\ hasTasks' = hasTasks \cup (Live \cap {req[r].id})
    /\ End(r)
    /\ UNCHANGED <<projects, nextId>>

-----------------------------------------------------------------------------
(* The handlers of ProjectsService.                                        *)

\* requireOwnProject and the checks made on the row it returned: a task or the
\* default flag needs an active project, the system project keeps its code, is
\* not archived and not removed.
Archiving(row, dto) == dto.archived = "yes" /\ ~row.archived
Recoding(row, dto)  == dto.code # "keep" /\ dto.code # row.code

\* Faults: the system project is not protected; only its removal is allowed.
Refused_NoLock(op, row, dto) == op \in {"taskIn", "setDefault"} /\ row.archived

Refused_Removable(op, row, dto) ==
    \/ op \in {"taskIn", "setDefault"} /\ row.archived
    \/ row.code = "CHUNG" /\ op \in {"patch", "archive"} /\ Archiving(row, dto)
    \/ row.code = "CHUNG" /\ op = "patch" /\ Recoding(row, dto)

Refused(op, row, dto) ==
    \/ op \in {"taskIn", "setDefault"} /\ row.archived
    \/ row.code = "CHUNG" /\ \/ op = "remove"
                             \/ op \in {"patch", "archive"} /\ Archiving(row, dto)
                             \/ op = "patch" /\ Recoding(row, dto)

AfterRead(op, row, dto) ==
    CASE op = "taskIn"     -> "insertTask"
      [] op = "setDefault" -> "giveFlag"
      [] op = "patch"      -> "checkFree"
      [] op = "archive"    -> IF Archiving(row, dto) THEN "countForArchive" ELSE "update"
      [] op = "remove"     -> "countTasks"

ReadProject(r) ==
    LET row == projects[req[r].id] IN
    /\ At(r, "read")
    /\ IF row = Absent \/ Refused(req[r].op, row, req[r].dto)
       THEN End(r)
       ELSE req' = [req EXCEPT ![r].pc  = AfterRead(req[r].op, row, req[r].dto),
                               ![r].row = row,
                               ![r].to  = req[r].id]
    /\ ReadOnly

\* PATCH: assertNameFree and assertCodeFree, for a field that changes.
CheckFree(r) ==
    LET row == req[r].row  dto == req[r].dto IN
    /\ At(r, "checkFree")
    /\ IF (NameTaken(dto) /\ row.name # dto.name) \/ (CodeTaken(dto) /\ row.code # dto.code)
       THEN End(r)
       ELSE Goto(r, IF Archiving(row, dto) THEN "countForArchive" ELSE "update")
    /\ ReadOnly

\* Fault: off by one.
LastActive_OffByOne == Cardinality(Active) < 1

\* countActive, for the refusal to archive or remove the last active project.
LastActive == Cardinality(Active) <= 1

\* prepareForArchive
CountForArchive(r) ==
    /\ At(r, "countForArchive")
    /\ IF LastActive THEN End(r)
       ELSE Goto(r, IF req[r].row.isDefault THEN "pickNext" ELSE "update")
    /\ ReadOnly

\* Fault: the project being archived can be its own successor.
PickNext_Itself(r) ==
    /\ At(r, "pickNext")
    /\ req' = [req EXCEPT ![r].pc = "moveFlag", ![r].to = Oldest(Active)]
    /\ ReadOnly

\* The oldest active project, unless that is the one being archived.
PickNext(r) ==
    LET next == Oldest(Active) IN
    /\ At(r, "pickNext")
    /\ req' = [req EXCEPT ![r].pc = "moveFlag",
                          ![r].to = IF next = req[r].id THEN NoId ELSE next]
    /\ ReadOnly

\* setDefault of the chosen project, or clearDefault when there is none.
MoveFlag(r) ==
    LET p == req[r].to IN
    /\ At(r, "moveFlag")
    /\ IF p = NoId \/ p \in Live
       THEN projects' = WithDefault(p) /\ Goto(r, "update")
       ELSE End(r) /\ UNCHANGED projects
    /\ UNCHANGED <<nextId, hasTasks>>

\* update: an error when the row is gone or an index refuses the new one.
Update(r) ==
    LET p == req[r].id
        new == Updated(projects[p], req[r].dto)
        reopens == req[r].op = "archive" /\ req[r].dto.archived = "no"
    IN
    /\ At(r, "update")
    /\ IF p \in Live /\ IndexesAccept(p, new)
       THEN /\ projects' = [projects EXCEPT ![p] = new]
            /\ IF reopens THEN Goto(r, "restoreFlag") ELSE End(r)
       ELSE End(r) /\ UNCHANGED projects
    /\ UNCHANGED <<nextId, hasTasks>>

RestoreFlag(r) ==
    /\ At(r, "restoreFlag")
    /\ IF Defaults = {} THEN GoGiveFlag(r, req[r].id) ELSE End(r)
    /\ ReadOnly

\* The setDefault that ends a handler; ensureDefaultProject returns its row.
GiveFlag(r) ==
    LET p == req[r].to IN
    /\ At(r, "giveFlag")
    /\ IF p \in Live
       THEN /\ projects' = WithDefault(p)
            /\ IF req[r].op \in EnsureOps THEN Opened(r, p) ELSE End(r)
       ELSE End(r) /\ UNCHANGED projects
    /\ UNCHANGED <<nextId, hasTasks>>

\* Fault: an archived project is removed whatever it holds.
CountTasks_OfActive(r) ==
    /\ At(r, "countTasks")
    /\ IF req[r].row.archived THEN Goto(r, "delete")
       ELSE IF req[r].id \in hasTasks THEN End(r) ELSE Goto(r, "countForRemove")
    /\ ReadOnly

\* remove: soft-deleted tasks count, they can still be restored.
CountTasks(r) ==
    /\ At(r, "countTasks")
    /\ IF req[r].id \in hasTasks THEN End(r)
       ELSE Goto(r, IF req[r].row.archived THEN "delete" ELSE "countForRemove")
    /\ ReadOnly

CountForRemove(r) ==
    /\ At(r, "countForRemove")
    /\ IF LastActive THEN End(r) ELSE Goto(r, "delete")
    /\ ReadOnly

\* The tasks of the project go with it: ON DELETE CASCADE.
Delete(r) ==
    LET p == req[r].id IN
    /\ At(r, "delete")
    /\ projects' = [projects EXCEPT ![p] = Absent]
    /\ hasTasks' = hasTasks \ {p}
    /\ IF p \in Live /\ req[r].row.isDefault THEN Goto(r, "pickAfterDelete") ELSE End(r)
    /\ UNCHANGED nextId

PickAfterDelete(r) ==
    /\ At(r, "pickAfterDelete")
    /\ IF Active = {} THEN End(r) ELSE GoGiveFlag(r, Oldest(Active))
    /\ ReadOnly

\* create: the first active project becomes the default, whatever the body says.
FirstIsDefault(dto) == IF Active = {} THEN [dto EXCEPT !.isDefault = TRUE] ELSE dto

CountForCreate(r) ==
    /\ At(r, "countForCreate")
    /\ IF Cardinality(Active) >= MaxActive THEN End(r)
       ELSE req' = [req EXCEPT ![r].pc = "checkCreate", ![r].dto = FirstIsDefault(@)]
    /\ ReadOnly

CheckCreate(r) ==
    /\ At(r, "checkCreate")
    /\ IF NameTaken(req[r].dto) \/ CodeTaken(req[r].dto) THEN End(r) ELSE Goto(r, "insert")
    /\ ReadOnly

Insert(r) ==
    LET new == Updated([Absent EXCEPT !.code = "OTHER"], req[r].dto) IN
    /\ At(r, "insert")
    /\ nextId <= MaxProjects
    /\ IndexesAccept(nextId, new)
    /\ projects' = [projects EXCEPT ![nextId] = new]
    /\ nextId' = nextId + 1
    /\ IF req[r].dto.isDefault THEN GoGiveFlag(r, nextId) ELSE End(r)
    /\ UNCHANGED hasTasks

RequestFails(r) ==
    /\ ~At(r, "idle")
    /\ End(r)
    /\ ReadOnly

Ensure(r) ==
    \/ FindDefault(r) \/ FindOldest(r) \/ FindChung(r) \/ Revive(r) \/ InsertChung(r)
    \/ InsertChungFails(r) \/ FallbackDefault(r) \/ FallbackCode(r) \/ UseOpened(r)

Manage(r) ==
    \/ ReadProject(r) \/ CheckFree(r) \/ CountForArchive(r) \/ PickNext(r) \/ MoveFlag(r)
    \/ Update(r) \/ RestoreFlag(r) \/ GiveFlag(r) \/ CountTasks(r) \/ CountForRemove(r)
    \/ Delete(r) \/ PickAfterDelete(r) \/ CountForCreate(r) \/ CheckCreate(r) \/ Insert(r)
    \/ InsertTask(r)

Next == \E r \in Reqs :
    \/ ArriveEnsure(r) \/ ArriveById(r) \/ ArriveCreate(r)
    \/ Ensure(r) \/ Manage(r) \/ RequestFails(r)

Spec == Init /\ [][Next]_vars

-----------------------------------------------------------------------------
(* Properties.                                                             *)

\* The default flag is on at most one project, whichever requests interleave
\* their setDefault and clearDefault (projects_one_default_per_owner).
AtMostOneDefault == \A p, q \in Defaults : p = q

\* The system project of a registered account is never archived, recoded or
\* removed, although every handler checks that on a row it read earlier.
SystemProjectKept ==
    Start = "registered" => projects[1].code = "CHUNG" /\ ~projects[1].archived

\* A user with an active project never loses the last one.  For a registered
\* account this holds under races that defeat the countActive guards.
NeverWithoutActive == [][Active # {} => Active' # {}]_vars

\* One request at a time: a usable account is never left with its default flag
\* on an archived or deleted project, even if the request dies half way.
DefaultStaysActive == [][Defaults \subseteq Active => (Defaults \subseteq Active)']_vars

\* One request at a time: what ensureDefaultProject returns is the default
\* project and takes tasks, whatever state the table was in.
OpenedIsActiveDefault == \A r \in Reqs : At(r, "opened") => req[r].id \in Defaults \cap Active

\* First requests of an account without projects, in parallel: all are given
\* one and the same project, and no second one is made.
FirstTouchAgrees ==
    /\ Cardinality(Live) <= 1
    /\ \A r \in Reqs : At(r, "opened") => Live = {req[r].id}

\* MAX_ACTIVE_PROJECTS_PER_USER bounds the active projects of a user.
ActiveWithinCap == Cardinality(Active) <= MaxActive

\* A project is deleted only when it has no task, not even a soft-deleted one.
OnlyEmptyProjectsDeleted ==
    [][\A p \in Ids : p \in Live /\ p \in hasTasks => projects'[p] # Absent]_vars

=============================================================================
