------------------------------- MODULE Cards -------------------------------
(***************************************************************************)
(* The tasks of one user, the board of each project, its lists and labels: *)
(* what BoardAccessService, BoardCardService, BoardListService,            *)
(* BoardService and TasksService write to them.                            *)
(*                                                                         *)
(* A handler is a sequence of awaited queries and other requests run       *)
(* between any two of them, so each query that matters is an action of its *)
(* own, and a request may end anywhere without its remaining steps.        *)
(* createWithDefaults is two actions: under READ COMMITTED its UPDATEs     *)
(* write by id whatever its earlier SELECT found.                          *)
(*                                                                         *)
(* (owner, project) is unique among boards, so a board is named by its     *)
(* project.  Projects are neither archived nor removed here (see           *)
(* Projects).  Positions, dates, texts and the activity log are left out.  *)
(*                                                                         *)
(* A definition with an underscore in its name is a faulty variant of the  *)
(* one that follows it; nothing uses it unless it is put in its place to   *)
(* see that a property notices the fault.                                  *)
(***************************************************************************)
EXTENDS Integers, Sequences, FiniteSets

CONSTANTS
    Reqs,          \* request slots: how many requests run at the same time
    Projects,      \* the projects of the user
    Lists, ListOf, \* every list there may ever be, and the board it is made on
    Labels, LabelOf,
    NoBoard, NoList,
    Kinds,         \* the kinds of task in the run: TASK, EVENT
    Orphans,       \* at most so many tasks are older than the boards, without a board
    MaxTasks,      \* bound: tasks ever created
    MaxRepeat,     \* bound: repeatRemaining of a repeating card
    Ops,           \* the operations the user performs in the run
    ListBodies,    \* the bodies of PATCH /lists/:id
    PatchStatuses, \* the statuses that PATCH /tasks/:id sends, "keep" for none
    PatchRepeats   \* the numbers of repetitions it sends, 0 to end them, -1 for none

CardOps    == {"touch", "move", "complete", "replay", "reopen", "restore",
               "setLabels", "addLabel", "removeLabel"}
CreateOps  == {"createIn", "capture", "newTask"}
PatchOps   == {"patch", "relabel", "moveProject", "delete"}
BoardOps   == {"open", "createList", "updateList", "createLabel", "deleteLabel"}

ListBody == [archived : {"yes", "no", "keep"}, maps : {"TODO", "DONE", "none", "keep"}]

ASSUME CardsAssumption ==
    /\ ListOf \in [Lists -> Projects]
    /\ \A p \in Projects : \E l \in Lists : ListOf[l] = p
    /\ LabelOf \in [Labels -> Projects]
    /\ NoBoard \notin Projects /\ NoList \notin Lists
    /\ "TASK" \in Kinds /\ Kinds \subseteq {"TASK", "EVENT"}
    /\ Projects # {}
    /\ MaxTasks \in Nat /\ Orphans \in 0..MaxTasks /\ MaxRepeat \in Nat
    /\ Ops \subseteq CardOps \cup CreateOps \cup PatchOps \cup BoardOps
    /\ ListBodies \subseteq ListBody
    /\ PatchStatuses \subseteq {"TODO", "DONE", "keep"}
    /\ PatchRepeats \subseteq -1..MaxRepeat

VARIABLES
    tasks,      \* the rows, in creation order; a soft-deleted row stays
    boards,     \* the projects whose board exists
    lists,      \* the lists
    labelLive,  \* the labels that exist
    req         \* the state of each request slot

vars == <<tasks, boards, lists, labelLive, req>>

Statuses == {"TODO", "DONE"}
TaskIds  == 1..MaxTasks
NoTask   == 0

Task == [proj : Projects, board : Projects \cup {NoBoard}, list : Lists \cup {NoList},
         kind : Kinds, status : Statuses, deleted : BOOLEAN, labels : SUBSET Labels,
         remaining : 0..MaxRepeat,  \* 0: does not repeat, or the last occurrence
         unchecked : BOOLEAN]       \* history: its labels come from a PATCH that had no board
                                    \* to check them against

List == [live : BOOLEAN, archived : BOOLEAN, maps : Statuses \cup {"none"}]

NewRow(p) == [proj |-> p, board |-> p, list |-> NoList, kind |-> "TASK", status |-> "TODO",
              deleted |-> FALSE, labels |-> {}, remaining |-> 0, unchecked |-> FALSE]

Pcs == {"idle", "readCard", "ensure", "seed", "adopt", "gather", "findList", "findDone",
        "checkLabels", "readList", "insert", "readTask", "clearLabels", "write",
        "writeLabels", "spawn", "copyLabels", "releaseCards", "writeList"}

Request == [op : CardOps \cup CreateOps \cup PatchOps \cup BoardOps \cup {"none"}, pc : Pcs,
            task : TaskIds \cup {NoTask},  \* the task of the request
            next : TaskIds \cup {NoTask},  \* the occurrence it spawned
            proj : Projects,               \* the project of the board it ensures
            list : Lists \cup {NoList},
            labels : SUBSET Labels,
            status : Statuses \cup {"none", "keep"},
            archived : {"yes", "no", "keep"},
            repeat : -1..MaxRepeat,        \* the repetitions that a PATCH sends
            unchecked : BOOLEAN,           \* history: its labels were not checked
            row : Task,                    \* the task as it was read, or to insert
            owned : SUBSET (TaskIds \X Statuses)]  \* what createWithDefaults read

AnyProject == CHOOSE p \in Projects : TRUE
Idle == [op |-> "none", pc |-> "idle", task |-> NoTask, next |-> NoTask, proj |-> AnyProject,
         list |-> NoList, labels |-> {}, status |-> "keep", archived |-> "keep",
         repeat |-> -1, unchecked |-> FALSE, row |-> NewRow(AnyProject), owned |-> {}]

TypeOK ==
    /\ tasks \in Seq(Task) /\ Len(tasks) <= MaxTasks
    /\ boards \subseteq Projects
    /\ lists \in [Lists -> List]
    /\ labelLive \subseteq Labels
    /\ req \in [Reqs -> Request]

-----------------------------------------------------------------------------

\* The list DEFAULT_LISTS makes on a new board; it maps to TODO.
DefaultList(p) == CHOOSE l \in Lists : ListOf[l] = p

\* Fault: the tasks of every project.
Orphaned_AllProjects(p) == {t \in DOMAIN tasks : tasks[t].board = NoBoard}

\* The tasks of project p that createWithDefaults and adoptOrphanTasks take.
Orphaned(p) == {t \in DOMAIN tasks : tasks[t].proj = p /\ tasks[t].board = NoBoard}

LabelsOf(p) == {x \in labelLive : LabelOf[x] = p}

End(r) == req' = [req EXCEPT ![r] = Idle]
Goto(r, pc) == req' = [req EXCEPT ![r].pc = pc]
At(r, pc) == req[r].pc = pc
OnlyTasks == UNCHANGED <<boards, lists, labelLive>>
OnlyLists == UNCHANGED <<tasks, boards, labelLive>>
ReadOnly  == UNCHANGED tasks /\ OnlyTasks

\* A row from before there were boards; a PATCH may have made it repeat since.
OldRows == {row \in Task : /\ row.board = NoBoard /\ row.list = NoList /\ row.labels = {}
                           /\ ~row.deleted /\ ~row.unchecked}

Init ==
    /\ \E n \in 0..Orphans : tasks \in [1..n -> OldRows]
    /\ boards = {}
    /\ lists = [l \in Lists |-> [live |-> FALSE, archived |-> FALSE, maps |-> "none"]]
    /\ labelLive = {}
    /\ req = [r \in Reqs |-> Idle]

-----------------------------------------------------------------------------
(* The requests that arrive.  q is the request with its body.              *)

Arrive(r, q) ==
    /\ At(r, "idle")
    /\ q.op \in Ops
    /\ req' = [req EXCEPT ![r] = q]
    /\ ReadOnly

\* The routes of /tasks/:id/* that go through requireCard.  "touch" stands for
\* those that write nothing kept here: snooze, detail, checklists, notes, files.
ArriveCard(r) ==
    \E t \in DOMAIN tasks, op \in CardOps, l \in Lists \cup {NoList}, S \in SUBSET Labels :
        /\ op # "move" => l = NoList
        /\ op \in {"addLabel", "removeLabel"} => Cardinality(S) = 1
        /\ op \notin {"setLabels", "addLabel", "removeLabel"} => S = {}
        /\ Arrive(r, [Idle EXCEPT !.op = op, !.pc = "readCard", !.task = t, !.list = l, !.labels = S])

\* PATCH and DELETE /tasks/:id.  relabel is a PATCH that sends labelIds; any PATCH may send
\* a status and a repetition.
ArrivePatch(r) ==
    \E t \in DOMAIN tasks, op \in PatchOps, p \in Projects, S \in SUBSET Labels,
       s \in PatchStatuses \cup {"keep"}, n \in PatchRepeats \cup {-1} :
        /\ op # "moveProject" => p = AnyProject
        /\ op # "relabel" => S = {}
        /\ op = "delete" => s = "keep" /\ n = -1
        /\ Arrive(r, [Idle EXCEPT !.op = op, !.pc = "readTask", !.task = t, !.proj = p,
                                  !.labels = S, !.status = s, !.repeat = n])

\* POST /lists/:id/cards, POST /tasks/inbox/cards and ingested mail (capture),
\* POST /tasks (newTask, the only one that makes events).
ArriveCreate(r) ==
    \E op \in CreateOps, p \in Projects, l \in Lists \cup {NoList}, S \in SUBSET Labels,
       k \in Kinds, n \in 0..MaxRepeat :
        /\ op = "createIn" <=> l # NoList
        /\ op = "createIn" => p = ListOf[l]
        /\ op # "newTask" => k = "TASK"
        /\ Arrive(r, [Idle EXCEPT !.op = op, !.pc = IF l = NoList THEN "ensure" ELSE "readList",
                                  !.proj = p, !.list = l, !.labels = S,
                                  !.row = [NewRow(p) EXCEPT !.kind = k, !.remaining = n]])

\* GET /boards/me/full
ArriveOpen(r) ==
    \E p \in Projects : Arrive(r, [Idle EXCEPT !.op = "open", !.pc = "ensure", !.proj = p])

ArriveUpdateList(r) ==
    \E l \in Lists, b \in ListBodies :
        Arrive(r, [Idle EXCEPT !.op = "updateList", !.pc = "readList", !.list = l,
                               !.archived = b.archived, !.status = b.maps])

-----------------------------------------------------------------------------
(* BoardAccessService: requireCard, requireList and ensureBoard.           *)

\* What a card operation does once requireCard has returned the card.
AfterCard(r, row) ==
    LET op == req[r].op
        pc == CASE op = "move" -> "findList"
                [] op \in {"complete", "replay"} -> "findDone"
                [] op \in {"setLabels", "addLabel"} -> "checkLabels"
                [] OTHER -> "write"
    IN IF op = "touch" THEN End(r)
       ELSE req' = [req EXCEPT ![r].pc = pc, ![r].row = row, ![r].status = row.status]

ReadCard(r) ==
    LET row == tasks[req[r].task] IN
    /\ At(r, "readCard")
    /\ IF row.deleted /\ req[r].op # "restore" THEN End(r)
       ELSE IF row.board = NoBoard
            THEN req' = [req EXCEPT ![r].pc = "ensure", ![r].proj = row.proj]
            ELSE AfterCard(r, row)
    /\ ReadOnly

\* The board exists: back to the caller.  getFull adopts when it was not there before.
Ensured(r, created) ==
    LET op == req[r].op IN
    IF op = "open" /\ ~created THEN End(r)
    ELSE Goto(r, CASE op \in CardOps -> "adopt"
                   [] op = "open" -> "gather"
                   [] op \in CreateOps -> "checkLabels"
                   [] op = "moveProject" -> "clearLabels")

\* findByOwnerAndProject; when there is no board, the transaction that makes it
\* starts and reads the tasks it will take.
Ensure(r) ==
    LET p == req[r].proj IN
    /\ At(r, "ensure")
    /\ IF p \in boards THEN Ensured(r, FALSE)
       ELSE req' = [req EXCEPT ![r].pc = "seed",
                               ![r].owned = {<<t, tasks[t].status>> : t \in Orphaned(p)}]
    /\ ReadOnly

\* A task that createWithDefaults read with the given status.
Seeded(row, p, status) ==
    [row EXCEPT !.board = p, !.list = IF status = "TODO" THEN DefaultList(p) ELSE NoList]

\* The board with its first list, which takes the tasks to do among those read.
createWithDefaults(p, owned) ==
    /\ boards' = boards \cup {p}
    /\ lists' = [lists EXCEPT ![DefaultList(p)] =
                    [live |-> TRUE, archived |-> FALSE, maps |-> "TODO"]]
    /\ tasks' = [t \in DOMAIN tasks |->
                    IF \E s \in Statuses : <<t, s>> \in owned
                    THEN Seeded(tasks[t], p, IF <<t, "TODO">> \in owned THEN "TODO" ELSE "DONE")
                    ELSE tasks[t]]
    /\ UNCHANGED labelLive

\* The transaction commits, or loses the race on (owner, project) and the
\* request reads the winner's board; the caller is told "created" either way.
Seed(r) ==
    /\ At(r, "seed")
    /\ IF req[r].proj \in boards THEN ReadOnly
       ELSE createWithDefaults(req[r].proj, req[r].owned)
    /\ Ensured(r, TRUE)

\* requireCard writes the board into the card it had read without one.
Adopt(r) ==
    LET t == req[r].task  row == [tasks[t] EXCEPT !.board = req[r].proj] IN
    /\ At(r, "adopt")
    /\ tasks' = [tasks EXCEPT ![t] = row]
    /\ AfterCard(r, row)
    /\ OnlyTasks

\* adoptOrphanTasks
Gather(r) ==
    LET p == req[r].proj IN
    /\ At(r, "gather")
    /\ tasks' = [t \in DOMAIN tasks |->
                    IF t \in Orphaned(p) THEN [tasks[t] EXCEPT !.board = p] ELSE tasks[t]]
    /\ End(r)
    /\ OnlyTasks

\* requireList, for a card in the list and for an update of the list.
ReadList(r) ==
    LET l == req[r].list  q == req[r] IN
    /\ At(r, "readList")
    /\ IF ~lists[l].live THEN End(r)
       ELSE IF q.op = "updateList"
            THEN Goto(r, IF q.archived = "yes" /\ ~lists[l].archived THEN "releaseCards"
                                                                    ELSE "writeList")
            ELSE req' = [req EXCEPT ![r].pc = "checkLabels", ![r].row.list = l,
                            ![r].row.status = IF lists[l].maps = "none" THEN @ ELSE lists[l].maps]
    /\ ReadOnly

-----------------------------------------------------------------------------
(* BoardCardService and TasksService.                                      *)

\* move: any list of the card's board, an archived one too.
FindList(r) ==
    LET l == req[r].list  row == req[r].row IN
    /\ At(r, "findList")
    /\ IF l = NoList THEN Goto(r, "write")
       ELSE IF lists[l].live /\ ListOf[l] = row.board
            THEN req' = [req EXCEPT ![r].pc = "write",
                            ![r].status = IF lists[l].maps = "none" THEN @ ELSE lists[l].maps]
            ELSE End(r)
    /\ ReadOnly

\* complete: the first list, in an order left open here, that shows done cards.
DoneLists(p) == {l \in Lists : ListOf[l] = p /\ lists[l] = [live |-> TRUE, archived |-> FALSE,
                                                            maps |-> "DONE"]}
FindDone(r) ==
    LET done == DoneLists(req[r].row.board) IN
    /\ At(r, "findDone")
    /\ \E l \in IF done = {} THEN {NoList} ELSE done :
          req' = [req EXCEPT ![r].pc = "write", ![r].list = l, ![r].status = "DONE"]
    /\ ReadOnly

\* assertLabelsInBoard, on the board of the card, or of the project of a new one.
\* PATCH skips it for a task whose boardId is null.
CheckLabels(r) ==
    LET q == req[r]
        board == IF q.op \in CreateOps THEN q.proj ELSE q.row.board
        skipped == q.op = "relabel" /\ board = NoBoard
    IN
    /\ At(r, "checkLabels")
    /\ IF skipped \/ q.labels \subseteq LabelsOf(board)
       THEN req' = [req EXCEPT ![r].pc = IF q.op \in CreateOps THEN "insert" ELSE "write",
                               ![r].unchecked = skipped]
       ELSE End(r)
    /\ ReadOnly

\* A board card takes its labels with it; POST /tasks sets them in a later query.
\* An event is left off the board.
ToInsert(q) ==
    IF q.op = "newTask"
    THEN [q.row EXCEPT !.board = IF q.row.kind = "EVENT" THEN NoBoard ELSE q.proj]
    ELSE [q.row EXCEPT !.labels = q.labels]

Insert(r) ==
    LET q == req[r]  new == ToInsert(q) IN
    /\ At(r, "insert")
    /\ Len(tasks) < MaxTasks
    /\ IF new.labels \subseteq labelLive
       THEN /\ tasks' = Append(tasks, new)
            /\ IF q.op = "newTask" /\ q.labels # {}
               THEN req' = [req EXCEPT ![r].pc = "writeLabels", ![r].task = Len(tasks) + 1]
               ELSE End(r)
       ELSE End(r) /\ UNCHANGED tasks
    /\ OnlyTasks

\* PATCH and DELETE: findOrThrow.  A PATCH with the task's own projectId moves nothing.
ReadTask(r) ==
    LET q == req[r]  row == tasks[q.task]  moves == q.op = "moveProject" /\ q.proj # row.proj IN
    /\ At(r, "readTask")
    /\ IF row.deleted THEN End(r)
       ELSE req' = [req EXCEPT ![r].row = row,
                               ![r].op = IF q.op = "moveProject" /\ ~moves THEN "patch" ELSE @,
                               ![r].pc = CASE moves -> "ensure"
                                           [] q.op = "relabel" -> "checkLabels"
                                           [] OTHER -> "write"]
    /\ ReadOnly

\* Fault: the labels stay.
ClearLabels_Skipped(r) == At(r, "clearLabels") /\ Goto(r, "write") /\ ReadOnly

\* moveToProject: setLabels(task, []), before the row itself is moved.
ClearLabels(r) ==
    /\ At(r, "clearLabels")
    /\ tasks' = [tasks EXCEPT ![req[r].task].labels = {}, ![req[r].task].unchecked = FALSE]
    /\ Goto(r, "write")
    /\ OnlyTasks

\* Faults: the task stays in its list; the task stays on its board.
MovedTo_SameList(row, p)  == [row EXCEPT !.proj = p, !.board = p]
MovedTo_SameBoard(row, p) == [row EXCEPT !.proj = p, !.list = NoList]

\* What moveToProject returns: the Inbox of the other project.
MovedTo(row, p) == [row EXCEPT !.proj = p, !.board = p, !.list = NoList]

\* The one UPDATE of each handler: row is the row then, q what was found before.
Written(row, q) ==
    LET to == IF q.op = "moveProject" THEN MovedTo(row, q.proj) ELSE row
        list == CASE q.op = "move" -> q.list
                  [] q.op \in {"complete", "replay"} /\ q.list # NoList /\ q.list # q.row.list -> q.list
                  [] OTHER -> to.list
        status == CASE q.op \in {"move", "complete", "replay"} \cup PatchOps /\ q.status # "keep" -> q.status
                    [] q.op = "reopen" -> "TODO"
                    [] OTHER -> row.status
        labels == CASE q.op = "setLabels" -> q.labels
                    [] q.op = "addLabel" -> row.labels \cup q.labels
                    [] q.op = "removeLabel" -> row.labels \ q.labels
                    [] OTHER -> row.labels
        remaining == IF q.op \in PatchOps /\ q.repeat # -1 THEN q.repeat ELSE row.remaining
    IN [to EXCEPT !.list = list, !.status = status, !.labels = labels, !.remaining = remaining,
                  !.unchecked = @ /\ q.op # "setLabels",
                  !.deleted = IF q.op \in {"delete", "restore"} THEN q.op = "delete" ELSE @]

\* Fault: the last occurrence spawns another one.
Write_SpawnsOn(r) ==
    LET q == req[r] IN
    /\ At(r, "write")
    /\ tasks' = [tasks EXCEPT ![q.task] = Written(@, q)]
    /\ IF q.op = "complete" THEN Goto(r, "spawn") ELSE End(r)
    /\ OnlyTasks

\* The foreign key refuses a label that is gone.
Write(r) ==
    LET q == req[r] IN
    /\ At(r, "write")
    /\ IF q.op \in {"setLabels", "addLabel"} /\ ~(q.labels \subseteq labelLive)
       THEN End(r) /\ UNCHANGED tasks
       ELSE /\ tasks' = [tasks EXCEPT ![q.task] = Written(@, q)]
            /\ CASE q.op = "relabel" -> Goto(r, "writeLabels")
                 [] q.op = "complete" /\ q.row.remaining > 0 -> Goto(r, "spawn")
                 [] OTHER -> End(r)
    /\ OnlyTasks

\* setLabels of a task that was written before.
WriteLabels(r) ==
    LET q == req[r] IN
    /\ At(r, "writeLabels")
    /\ tasks' = IF q.labels \subseteq labelLive
                THEN [tasks EXCEPT ![q.task].labels = q.labels,
                                   ![q.task].unchecked = q.unchecked]
                ELSE tasks
    /\ End(r)
    /\ OnlyTasks

\* spawnRepeat: the next occurrence is made from the card as requireCard read it.
Occurrence(row) == [row EXCEPT !.kind = "TASK", !.status = "TODO", !.deleted = FALSE,
                               !.labels = {}, !.remaining = @ - 1, !.unchecked = FALSE]

Spawn(r) ==
    /\ At(r, "spawn")
    /\ Len(tasks) < MaxTasks
    /\ tasks' = Append(tasks, Occurrence(req[r].row))
    /\ req' = [req EXCEPT ![r].pc = "copyLabels", ![r].next = Len(tasks) + 1]
    /\ OnlyTasks

\* It gets the labels that the completed card has by then.
CopyLabels(r) ==
    LET card == tasks[req[r].task] IN
    /\ At(r, "copyLabels")
    /\ IF card.labels = {} THEN End(r)
       ELSE req' = [req EXCEPT ![r].pc = "writeLabels", ![r].task = req[r].next,
                               ![r].labels = card.labels, ![r].unchecked = card.unchecked]
    /\ ReadOnly

-----------------------------------------------------------------------------
(* Lists and labels.                                                       *)

\* Fault: the cards are not released.
ReleaseCards_None(r) ==
    /\ At(r, "releaseCards")
    /\ lists' = [lists EXCEPT ![req[r].list].archived = TRUE]
    /\ Goto(r, "writeList")
    /\ OnlyLists

\* archiveListAndReleaseCards, one transaction; the other columns follow.
ReleaseCards(r) ==
    LET l == req[r].list IN
    /\ At(r, "releaseCards")
    /\ tasks' = [t \in DOMAIN tasks |->
                    IF tasks[t].list = l THEN [tasks[t] EXCEPT !.list = NoList] ELSE tasks[t]]
    /\ lists' = [lists EXCEPT ![l].archived = TRUE]
    /\ req' = [req EXCEPT ![r].pc = "writeList", ![r].archived = "keep"]
    /\ UNCHANGED <<boards, labelLive>>

WriteList(r) ==
    LET q == req[r] IN
    /\ At(r, "writeList")
    /\ lists' = [lists EXCEPT
                    ![q.list].archived = IF q.archived = "keep" THEN @ ELSE q.archived = "yes",
                    ![q.list].maps     = IF q.status = "keep" THEN @ ELSE q.status]
    /\ End(r)
    /\ OnlyLists

\* These write once, and what they check first (the board, the label) is still
\* so when they write or makes the write a no-op: one action each.
CreateList ==
    /\ "createList" \in Ops
    /\ \E l \in Lists, s \in Statuses \cup {"none"} :
          /\ ListOf[l] \in boards /\ ~lists[l].live
          /\ lists' = [lists EXCEPT ![l] = [live |-> TRUE, archived |-> FALSE, maps |-> s]]
    /\ OnlyLists /\ UNCHANGED req

CreateLabel ==
    /\ "createLabel" \in Ops
    /\ \E x \in Labels \ labelLive :
          /\ LabelOf[x] \in boards
          /\ labelLive' = labelLive \cup {x}
    /\ UNCHANGED <<tasks, boards, lists, req>>

\* The task_labels rows go with the label: ON DELETE CASCADE.
DeleteLabel ==
    /\ "deleteLabel" \in Ops
    /\ \E x \in labelLive :
          /\ labelLive' = labelLive \ {x}
          /\ tasks' = [t \in DOMAIN tasks |-> [tasks[t] EXCEPT !.labels = @ \ {x}]]
    /\ UNCHANGED <<boards, lists, req>>

RequestFails(r) ==
    /\ ~At(r, "idle")
    /\ End(r)
    /\ ReadOnly

Access(r) ==
    \/ ReadCard(r) \/ Ensure(r) \/ Seed(r) \/ Adopt(r) \/ Gather(r) \/ ReadList(r)

Work(r) ==
    \/ FindList(r) \/ FindDone(r) \/ CheckLabels(r) \/ Insert(r) \/ ReadTask(r)
    \/ ClearLabels(r) \/ Write(r) \/ WriteLabels(r) \/ Spawn(r) \/ CopyLabels(r)
    \/ ReleaseCards(r) \/ WriteList(r)

Next ==
    \/ \E r \in Reqs :
          \/ ArriveCard(r) \/ ArrivePatch(r) \/ ArriveCreate(r) \/ ArriveOpen(r)
          \/ ArriveUpdateList(r)
          \/ Access(r) \/ Work(r) \/ RequestFails(r)
    \/ CreateList \/ CreateLabel \/ DeleteLabel

Spec == Init /\ [][Next]_vars

-----------------------------------------------------------------------------
(* Properties.                                                             *)

\* A task in a list is on the board of that list: otherwise no query, each one
\* filtered by boardId, would show it.  One request at a time.
ListOnBoard ==
    \A t \in DOMAIN tasks :
        LET l == tasks[t].list IN l # NoList => lists[l].live /\ ListOf[l] = tasks[t].board

\* A board only ever holds tasks of its own project, whether they were created
\* there, adopted, spawned or moved there from another project.
BoardedOnOwnProject ==
    \A t \in DOMAIN tasks : tasks[t].board # NoBoard => tasks[t].board = tasks[t].proj

\* The same for an account that has only tasks and no row from before boards:
\* every task has a board, the one of its project, under any interleaving.
BoardFollowsProject == \A t \in DOMAIN tasks : tasks[t].board = tasks[t].proj

\* A task carries labels of the board of its project only, also after it changed project,
\* was spawned or was put on a board by a card route -- unless they come from a PATCH of a
\* task or event without a board, which checks no labels: they stay when it is adopted, and
\* its next occurrence gets them.  One request at a time.
LabelsOnBoard ==
    \A t \in DOMAIN tasks : ~tasks[t].unchecked => tasks[t].labels \subseteq LabelsOf(tasks[t].proj)

\* When a list becomes archived no task is left in it.  One request at a time.
ArchivingReleases ==
    [][\A l \in Lists : ~lists[l].archived /\ lists'[l].archived
                            => \A t \in DOMAIN tasks' : tasks'[t].list # l]_vars

\* An event is never on a board.
EventHasNoBoard == \A t \in DOMAIN tasks : tasks[t].kind = "EVENT" => tasks[t].board = NoBoard

=============================================================================
