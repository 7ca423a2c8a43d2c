---------------------------- MODULE Cards_proofs ----------------------------
(***************************************************************************)
(* Proofs about the tasks of a user, the boards and the lists they are on, *)
(* and the labels they carry, for any number of requests, projects, lists, *)
(* labels and tasks.                                                       *)
(***************************************************************************)
EXTENDS Cards, SequenceTheorems, TLAPS

\* Which operation a request may be carrying out at each of its steps.
Doing(q) ==
  /\ q.pc \in {"ensure", "seed"} => q.op \in CardOps \cup CreateOps \cup {"open", "moveProject"}
  /\ q.pc \in {"readCard", "adopt", "findList", "findDone", "spawn", "copyLabels"} => q.op \in CardOps
  /\ q.pc = "checkLabels" => q.op \in CreateOps \cup {"setLabels", "addLabel", "relabel"}
  /\ q.pc = "insert" => q.op \in CreateOps
  /\ q.pc \in {"readTask", "clearLabels"} => q.op \in PatchOps
  /\ q.pc = "write" => q.op \in CardOps \cup PatchOps
  /\ q.pc \in {"readList", "releaseCards", "writeList"} =>
       q.list # NoList /\ q.op \in {"createIn", "updateList"}
  /\ q.status = "none" => q.op = "updateList"
  /\ q.pc = "spawn" => q.row.remaining > 0

\* The tasks that a request names are among the first n.
Names(q, n) ==
  /\ q.op \in CardOps \cup PatchOps \/ q.pc = "writeLabels" => q.task \in 1 .. n
  /\ q.pc = "copyLabels" => q.next \in 1 .. n

\* The account has tasks only, and none from before boards.
Boarded == Orphans = 0 /\ Kinds = {"TASK"}

\* Then what a request has read, or is about to insert, is on the board of its project too.
Settled(q) ==
  /\ q.row.board = q.row.proj /\ q.owned = {}
  /\ q.op \in CreateOps => q.row.proj = q.proj
  /\ q.op \in CardOps => q.pc \notin {"ensure", "seed", "adopt"}

CardsInv ==
  /\ TypeOK
  /\ \A r \in Reqs : Doing(req[r]) /\ Names(req[r], Len(tasks))
  /\ Boarded => BoardFollowsProject /\ \A r \in Reqs : Settled(req[r])

-----------------------------------------------------------------------------
(* The operators. *)

\* Every board has a default list of its own.
LEMMA DefaultListOn ==
    ASSUME NEW p \in Projects
    PROVE  DefaultList(p) \in Lists /\ ListOf[DefaultList(p)] = p
BY CardsAssumption DEF DefaultList

\* A new row is a task on the board of its project.
LEMMA NewRows ==
    ASSUME NEW p \in Projects, NEW k \in Kinds, NEW n \in 0 .. MaxRepeat,
           NEW row, row = [NewRow(p) EXCEPT !.kind = k, !.remaining = n]
    PROVE  row \in Task /\ row.proj = p /\ row.board = p /\ row.list = NoList /\ row.labels = {}
BY DEF NewRow, Task, Statuses

\* A request at rest is a request, which has read nothing.
LEMMA IdleRequest ==
  /\ Idle \in Request /\ Idle.pc = "idle" /\ Idle.op = "none" /\ Idle.status = "keep"
  /\ Idle.row.board = Idle.row.proj /\ Idle.row.list = NoList /\ Idle.row.labels = {}
  /\ Idle.owned = {}
<1>1. AnyProject \in Projects
  BY CardsAssumption DEF AnyProject
<1>2. 0 \in 0 .. MaxRepeat /\ -1 \in -1 .. MaxRepeat /\ "TASK" \in Kinds
  BY CardsAssumption
<1>3. /\ NewRow(AnyProject) \in Task /\ NewRow(AnyProject).proj = AnyProject
      /\ NewRow(AnyProject).board = AnyProject /\ NewRow(AnyProject).list = NoList
      /\ NewRow(AnyProject).labels = {}
  BY <1>1, <1>2 DEF NewRow, Task, Statuses
<1>4. Idle \in Request
  BY <1>1, <1>2, <1>3 DEF Idle, Request, NoTask, Pcs
<1>5. QED
  BY <1>3, <1>4 DEF Idle

\* A sequence that is written again row by row is one of the same length.
LEMMA RowsRewritten ==
    ASSUME NEW S, NEW s \in Seq(S), NEW new,
           new = [t \in DOMAIN s |-> new[t]], \A t \in DOMAIN s : new[t] \in S
    PROVE  new \in Seq(S) /\ Len(new) = Len(s) /\ DOMAIN new = DOMAIN s
<1>1. Len(s) \in Nat /\ DOMAIN s = 1 .. Len(s)
  BY LenProperties
<1>2. new \in [1 .. Len(s) -> S]
  BY <1>1
<1>3. new \in Seq(S)
  BY <1>1, <1>2, SeqDef
<1>4. Len(new) \in Nat /\ DOMAIN new = 1 .. Len(new)
  BY <1>3, LenProperties
<1>5. DOMAIN new = 1 .. Len(s)
  BY <1>2
<1>6. Len(new) = Len(s)
  BY <1>1, <1>4, <1>5
<1>7. QED
  BY <1>1, <1>3, <1>5, <1>6

\* What the type of the tables says of the tasks.
LEMMA TaskRows ==
    ASSUME TypeOK
    PROVE  /\ Len(tasks) \in Nat /\ DOMAIN tasks = 1 .. Len(tasks) /\ Len(tasks) <= MaxTasks
           /\ \A t \in DOMAIN tasks : tasks[t] \in Task
           /\ MaxTasks \in Nat
           /\ \A t \in 1 .. Len(tasks) : t \in TaskIds
<1>1. tasks \in Seq(Task) /\ Len(tasks) <= MaxTasks
  BY DEF TypeOK
<1>2. Len(tasks) \in Nat /\ DOMAIN tasks = 1 .. Len(tasks) /\ \A t \in DOMAIN tasks : tasks[t] \in Task
  BY <1>1, LenProperties, ElementOfSeq
<1>3. MaxTasks \in Nat
  BY CardsAssumption
<1>4. QED
  BY <1>1, <1>2, <1>3 DEF TaskIds

\* One request moves on to q, while tasks are written or added.
LEMMA RequestMoves ==
    ASSUME CardsInv, NEW r \in Reqs, NEW q \in Request, req' = [req EXCEPT ![r] = q],
           tasks' \in Seq(Task), Len(tasks) <= Len(tasks'), Len(tasks') <= MaxTasks,
           boards' \subseteq Projects, lists' \in [Lists -> List], UNCHANGED labelLive,
           Doing(q), Names(q, Len(tasks')),
           Boarded => Settled(q) /\ BoardFollowsProject'
    PROVE  CardsInv'
<1>1. req \in [Reqs -> Request] /\ labelLive \subseteq Labels
  BY DEF CardsInv, TypeOK
<1>2. \A s \in Reqs : req'[s] = IF s = r THEN q ELSE req[s]
  BY <1>1
<1>3. TypeOK'
  BY <1>1 DEF TypeOK
<1>4. Len(tasks) \in Nat /\ Len(tasks') \in Nat
  <2>1. TypeOK
    BY DEF CardsInv
  <2>2. QED
    BY <2>1, TaskRows, LenProperties
<1>5. ASSUME NEW s \in Reqs PROVE Doing(req'[s]) /\ Names(req'[s], Len(tasks'))
  <2>1. Doing(req[s]) /\ Names(req[s], Len(tasks))
    BY DEF CardsInv
  <2>2. Names(req[s], Len(tasks'))
    BY <1>4, <2>1 DEF Names
  <2>3. QED
    BY <1>2, <2>1, <2>2
<1>6. Boarded => \A s \in Reqs : Settled(req'[s])
  BY <1>2 DEF CardsInv
<1>7. QED
  BY <1>3, <1>5, <1>6 DEF CardsInv, Doing, Names, Settled, Boarded

\* A request moves on to q, having read only.
LEMMA RequestReads ==
    ASSUME CardsInv, NEW r \in Reqs, NEW q \in Request, req' = [req EXCEPT ![r] = q], ReadOnly,
           Doing(q), Names(q, Len(tasks)), Boarded => Settled(q)
    PROVE  CardsInv'
<1>1. TypeOK
  BY DEF CardsInv
<1>2. /\ tasks' \in Seq(Task) /\ Len(tasks') = Len(tasks) /\ Len(tasks') <= MaxTasks
      /\ boards' \subseteq Projects /\ lists' \in [Lists -> List] /\ labelLive' = labelLive
  BY <1>1 DEF ReadOnly, OnlyTasks, TypeOK
<1>3. Len(tasks) \in Nat
  BY <1>1, TaskRows
<1>4. Boarded => BoardFollowsProject'
  BY DEF CardsInv, BoardFollowsProject, ReadOnly
<1>5. Names(q, Len(tasks')) /\ Len(tasks) <= Len(tasks')
  BY <1>2, <1>3
<1>6. Boarded => Settled(q) /\ BoardFollowsProject'
  BY <1>4
<1>7. QED
  BY <1>2, <1>5, <1>6, RequestMoves

-----------------------------------------------------------------------------
(* The steps. *)

\* A request about a card or a task arrives.
LEMMA ArriveOnTaskStep ==
    ASSUME CardsInv, NEW r \in Reqs, ArriveCard(r) \/ ArrivePatch(r)
    PROVE  CardsInv'
<1>1. /\ \A t \in DOMAIN tasks : t \in 1 .. Len(tasks) /\ t \in TaskIds
      /\ Idle \in Request /\ Idle.status = "keep" /\ Idle.row.board = Idle.row.proj
      /\ Idle.owned = {}
  BY TaskRows, IdleRequest DEF CardsInv
<1>2. CASE ArriveCard(r)
  <2>1. PICK t \in DOMAIN tasks, op \in CardOps, l \in Lists \cup {NoList}, S \in SUBSET Labels :
          Arrive(r, [Idle EXCEPT !.op = op, !.pc = "readCard", !.task = t, !.list = l, !.labels = S])
    BY <1>2 DEF ArriveCard
  <2> DEFINE q == [Idle EXCEPT !.op = op, !.pc = "readCard", !.task = t, !.list = l, !.labels = S]
  <2>2. req' = [req EXCEPT ![r] = q] /\ ReadOnly
    BY <2>1 DEF Arrive
  <2>3. /\ q \in Request /\ q.op = op /\ q.pc = "readCard" /\ q.task = t /\ q.status = "keep"
        /\ q.row = Idle.row /\ q.owned = {}
    BY <1>1 DEF Request, Pcs
  <2> HIDE DEF q
  <2>4. Doing(q) /\ Names(q, Len(tasks)) /\ Settled(q)
    BY <1>1, <2>3 DEF Doing, Names, Settled, CardOps, CreateOps
  <2>5. QED
    BY <2>2, <2>3, <2>4, RequestReads
<1>3. CASE ArrivePatch(r)
  <2>1. PICK t \in DOMAIN tasks, op \in PatchOps, p \in Projects, S \in SUBSET Labels,
             s \in PatchStatuses \cup {"keep"}, n \in PatchRepeats \cup {-1} :
          Arrive(r, [Idle EXCEPT !.op = op, !.pc = "readTask", !.task = t, !.proj = p,
                                 !.labels = S, !.status = s, !.repeat = n])
    BY <1>3 DEF ArrivePatch
  <2> DEFINE q == [Idle EXCEPT !.op = op, !.pc = "readTask", !.task = t, !.proj = p,
                               !.labels = S, !.status = s, !.repeat = n]
  <2>2. req' = [req EXCEPT ![r] = q] /\ ReadOnly
    BY <2>1 DEF Arrive
  <2>3. s \in {"TODO", "DONE", "keep"} /\ n \in -1 .. MaxRepeat
    BY CardsAssumption
  <2>4. /\ q \in Request /\ q.op = op /\ q.pc = "readTask" /\ q.task = t /\ q.status = s
        /\ q.row = Idle.row /\ q.owned = {}
    <3>1. "readTask" \in Pcs /\ s \in Statuses \cup {"none", "keep"}
      BY <2>3 DEF Pcs, Statuses
    <3>2. QED
      BY <1>1, <2>3, <3>1 DEF Request
  <2> HIDE DEF q
  <2>5. Doing(q) /\ Names(q, Len(tasks)) /\ Settled(q)
    BY <1>1, <2>3, <2>4 DEF Doing, Names, Settled, CardOps, PatchOps, CreateOps
  <2>6. QED
    BY <2>2, <2>4, <2>5, RequestReads
<1>4. QED
  BY <1>2, <1>3

\* A request for a new card, for the board, or about a list arrives.
LEMMA ArriveElseStep ==
    ASSUME CardsInv, NEW r \in Reqs, ArriveCreate(r) \/ ArriveOpen(r) \/ ArriveUpdateList(r)
    PROVE  CardsInv'
<1>1. /\ Idle \in Request /\ Idle.status = "keep" /\ Idle.row.board = Idle.row.proj
      /\ Idle.owned = {}
  BY IdleRequest
<1>2. CASE ArriveCreate(r)
  <2>1. PICK op \in CreateOps, p \in Projects, l \in Lists \cup {NoList}, S \in SUBSET Labels,
             k \in Kinds, n \in 0 .. MaxRepeat :
          /\ op = "createIn" <=> l # NoList
          /\ op = "createIn" => p = ListOf[l]
          /\ op # "newTask" => k = "TASK"
          /\ Arrive(r, [Idle EXCEPT !.op = op, !.pc = IF l = NoList THEN "ensure" ELSE "readList",
                                    !.proj = p, !.list = l, !.labels = S,
                                    !.row = [NewRow(p) EXCEPT !.kind = k, !.remaining = n]])
    BY <1>2 DEF ArriveCreate
  <2>2. PICK row : row = [NewRow(p) EXCEPT !.kind = k, !.remaining = n]
    OBVIOUS
  <2>3. row \in Task /\ row.proj = p /\ row.board = p
    BY <2>2 DEF NewRow, Task, Statuses
  <2>4. PICK pc : pc = IF l = NoList THEN "ensure" ELSE "readList"
    OBVIOUS
  <2> DEFINE arrived == [Idle EXCEPT !.op = op, !.pc = pc, !.proj = p]
             q == [arrived EXCEPT !.list = l, !.labels = S, !.row = row]
  <2>5. req' = [req EXCEPT ![r] = q] /\ ReadOnly
    BY <2>1, <2>2, <2>4 DEF Arrive
  <2>6. pc \in {"ensure", "readList"} /\ (pc = "readList" => l # NoList /\ op = "createIn")
    BY <2>1, <2>4
  <2>7. /\ arrived \in Request /\ arrived.op = op /\ arrived.pc = pc /\ arrived.proj = p
        /\ arrived.status = "keep" /\ arrived.owned = {}
    <3>1. pc \in Pcs
      BY <2>6 DEF Pcs
    <3>2. QED
      BY <1>1, <3>1 DEF Request
  <2> HIDE DEF arrived
  <2>8. /\ q \in Request /\ q.op = op /\ q.pc = pc /\ q.proj = p /\ q.list = l /\ q.status = "keep"
        /\ q.row = row /\ q.owned = {}
    BY <2>3, <2>7 DEF Request
  <2> HIDE DEF q
  <2>10. Doing(q) /\ Names(q, Len(tasks)) /\ Settled(q)
    BY <1>1, <2>3, <2>6, <2>8 DEF Doing, Names, Settled, CardOps, PatchOps, CreateOps
  <2>11. QED
    BY <2>5, <2>8, <2>10, RequestReads
<1>3. CASE ArriveOpen(r)
  <2>1. PICK p \in Projects : Arrive(r, [Idle EXCEPT !.op = "open", !.pc = "ensure", !.proj = p])
    BY <1>3 DEF ArriveOpen
  <2> DEFINE q == [Idle EXCEPT !.op = "open", !.pc = "ensure", !.proj = p]
  <2>2. req' = [req EXCEPT ![r] = q] /\ ReadOnly
    BY <2>1 DEF Arrive
  <2>3. /\ q \in Request /\ q.op = "open" /\ q.pc = "ensure" /\ q.status = "keep"
        /\ q.row = Idle.row /\ q.owned = {}
    BY <1>1 DEF Request, Pcs, BoardOps
  <2> HIDE DEF q
  <2>4. Doing(q) /\ Names(q, Len(tasks)) /\ Settled(q)
    BY <1>1, <2>3 DEF Doing, Names, Settled, CardOps, PatchOps, CreateOps
  <2>5. QED
    BY <2>2, <2>3, <2>4, RequestReads
<1>4. CASE ArriveUpdateList(r)
  <2>1. PICK l \in Lists, b \in ListBodies :
          Arrive(r, [Idle EXCEPT !.op = "updateList", !.pc = "readList", !.list = l,
                                 !.archived = b.archived, !.status = b.maps])
    BY <1>4 DEF ArriveUpdateList
  <2> DEFINE arrived == [Idle EXCEPT !.op = "updateList", !.pc = "readList", !.list = l]
             q == [arrived EXCEPT !.archived = b.archived, !.status = b.maps]
  <2>2. req' = [req EXCEPT ![r] = q] /\ ReadOnly
    BY <2>1 DEF Arrive
  <2>3. l # NoList /\ b.archived \in {"yes", "no", "keep"} /\ b.maps \in {"TODO", "DONE", "none", "keep"}
    BY CardsAssumption DEF ListBody
  <2>4. /\ arrived \in Request /\ arrived.op = "updateList" /\ arrived.pc = "readList"
        /\ arrived.list = l /\ arrived.row = Idle.row /\ arrived.owned = {}
    BY <1>1 DEF Request, Pcs, BoardOps
  <2> HIDE DEF arrived
  <2>5. /\ q \in Request /\ q.op = "updateList" /\ q.pc = "readList" /\ q.list = l
        /\ q.row = Idle.row /\ q.owned = {}
    BY <2>3, <2>4 DEF Request, Statuses
  <2> HIDE DEF q
  <2>6. Doing(q) /\ Names(q, Len(tasks)) /\ Settled(q)
    BY <1>1, <2>3, <2>5 DEF Doing, Names, Settled, CardOps, PatchOps, CreateOps
  <2>7. QED
    BY <2>2, <2>5, <2>6, RequestReads
<1>5. QED
  BY <1>2, <1>3, <1>4

\* A request ends, or breaks off.
LEMMA EndStep ==
    ASSUME CardsInv, NEW r \in Reqs, End(r), tasks' \in Seq(Task), Len(tasks) <= Len(tasks'),
           Len(tasks') <= MaxTasks, boards' \subseteq Projects, lists' \in [Lists -> List],
           UNCHANGED labelLive, Boarded => BoardFollowsProject'
    PROVE  CardsInv'
<1>1. /\ Idle \in Request /\ Idle.pc = "idle" /\ Idle.op = "none" /\ Idle.status = "keep"
      /\ Idle.row.board = Idle.row.proj /\ Idle.owned = {}
  BY IdleRequest
<1>2. Doing(Idle) /\ Names(Idle, Len(tasks')) /\ Settled(Idle)
  BY <1>1 DEF Doing, Names, Settled, CardOps, PatchOps, CreateOps
<1>3. req' = [req EXCEPT ![r] = Idle]
  BY DEF End
<1>4. QED
  BY <1>1, <1>2, <1>3, RequestMoves

\* A request ends, or breaks off, having read only.
LEMMA EndReadStep ==
    ASSUME CardsInv, NEW r \in Reqs, End(r), ReadOnly
    PROVE  CardsInv'
<1>1. /\ Idle \in Request /\ Idle.pc = "idle" /\ Idle.op = "none" /\ Idle.status = "keep"
      /\ Idle.row.board = Idle.row.proj /\ Idle.owned = {}
  BY IdleRequest
<1>2. Doing(Idle) /\ Names(Idle, Len(tasks)) /\ Settled(Idle)
  BY <1>1 DEF Doing, Names, Settled, CardOps, PatchOps, CreateOps
<1>3. req' = [req EXCEPT ![r] = Idle]
  BY DEF End
<1>4. QED
  BY <1>1, <1>2, <1>3, RequestReads

\* What is known of a request under way.
LEMMA ThisRequest ==
    ASSUME CardsInv, NEW r \in Reqs
    PROVE  /\ req[r] \in Request /\ Doing(req[r]) /\ Names(req[r], Len(tasks))
           /\ Boarded => Settled(req[r])
BY DEF CardsInv, TypeOK

\* A row written in place leaves a sequence of the same length.
LEMMA OneRow ==
    ASSUME NEW s \in Seq(Task), NEW t \in 1 .. Len(s), NEW row \in Task,
           NEW new, new = [s EXCEPT ![t] = row]
    PROVE  /\ new \in Seq(Task) /\ Len(new) = Len(s) /\ DOMAIN new = DOMAIN s
           /\ \A u \in DOMAIN s : new[u] = IF u = t THEN row ELSE s[u]
<1>1. Len(s) \in Nat /\ DOMAIN s = 1 .. Len(s)
  BY LenProperties
<1>2. s \in [1 .. Len(s) -> Task]
  BY LenProperties
<1>3. new \in [1 .. Len(s) -> Task] /\ \A u \in DOMAIN s : new[u] = IF u = t THEN row ELSE s[u]
  BY <1>1, <1>2
<1>4. new = [u \in DOMAIN s |-> new[u]] /\ \A u \in DOMAIN s : new[u] \in Task
  BY <1>1, <1>3
<1>5. QED
  BY <1>3, <1>4, RowsRewritten

\* Every task keeps to the board of its project when one row that does is written.
LEMMA BoardedRow ==
    ASSUME CardsInv, Boarded, NEW t \in 1 .. Len(tasks), NEW row, row.board = row.proj,
           DOMAIN tasks' = DOMAIN tasks,
           \A u \in DOMAIN tasks : tasks'[u] = IF u = t THEN row ELSE tasks[u]
    PROVE  BoardFollowsProject'
BY DEF CardsInv, BoardFollowsProject

\* requireCard has the card: the operation goes on with it, or is over.
LEMMA AfterCardStep ==
    ASSUME CardsInv, NEW r \in Reqs, NEW row \in Task, req[r].op \in CardOps, AfterCard(r, row),
           OnlyTasks, tasks' \in Seq(Task), Len(tasks') = Len(tasks),
           Boarded => row.board = row.proj /\ BoardFollowsProject'
    PROVE  CardsInv'
<1>1. /\ req[r] \in Request /\ Doing(req[r]) /\ Names(req[r], Len(tasks))
      /\ Boarded => Settled(req[r])
  BY ThisRequest
<1>2. /\ Len(tasks) \in Nat /\ Len(tasks) <= Len(tasks') /\ Len(tasks') <= MaxTasks
      /\ boards' \subseteq Projects /\ lists' \in [Lists -> List] /\ labelLive' = labelLive
  BY TaskRows DEF CardsInv, TypeOK, OnlyTasks
<1>3. CASE End(r)
  BY <1>2, <1>3, EndStep
<1>4. CASE ~End(r)
  <2>1. PICK pc : pc = CASE req[r].op = "move" -> "findList"
                         [] req[r].op \in {"complete", "replay"} -> "findDone"
                         [] req[r].op \in {"setLabels", "addLabel"} -> "checkLabels"
                         [] OTHER -> "write"
    OBVIOUS
  <2> DEFINE q == [req[r] EXCEPT !.pc = pc, !.row = row, !.status = row.status]
  <2>2. req \in [Reqs -> Request] /\ req' = [req EXCEPT ![r].pc = pc, ![r].row = row, ![r].status = row.status]
    BY <1>4, <2>1 DEF AfterCard, CardsInv, TypeOK
  <2>3. req' = [req EXCEPT ![r] = q]
    BY <2>2
  <2>4. /\ pc \in {"findList", "findDone", "checkLabels", "write"}
        /\ pc = "checkLabels" => req[r].op \in {"setLabels", "addLabel"}
    BY <2>1
  <2>5. pc \in Pcs /\ row.status \in Statuses
    BY <2>4 DEF Pcs, Task
  <2>6. /\ q \in Request /\ q.pc = pc /\ q.row = row /\ q.status = row.status /\ q.op = req[r].op
        /\ q.task = req[r].task /\ q.owned = req[r].owned
    BY <1>1, <2>5 DEF Request
  <2> HIDE DEF q
  <2>7. Doing(q) /\ Names(q, Len(tasks'))
    BY <1>1, <2>4, <2>5, <2>6 DEF Doing, Names, Statuses
  <2>8. Boarded => Settled(q) /\ BoardFollowsProject'
    BY <1>1, <2>4, <2>6 DEF Settled, CardOps, CreateOps
  <2>9. QED
    BY <1>2, <2>3, <2>6, <2>7, <2>8, RequestMoves
<1>5. QED
  BY <1>3, <1>4

\* requireCard reads the card.
LEMMA ReadCardStep ==
    ASSUME CardsInv, NEW r \in Reqs, ReadCard(r)
    PROVE  CardsInv'
<1> DEFINE row == tasks[req[r].task]
<1>1. /\ req[r] \in Request /\ Doing(req[r]) /\ Names(req[r], Len(tasks))
      /\ Boarded => Settled(req[r])
  BY ThisRequest
<1>2. req[r].pc = "readCard" /\ req[r].op \in CardOps /\ req[r].task \in 1 .. Len(tasks)
  BY <1>1 DEF ReadCard, At, Doing, Names
<1>3. row \in Task /\ req[r].task \in DOMAIN tasks
  BY <1>2, TaskRows DEF CardsInv
<1>4. Boarded => row.board = row.proj /\ BoardFollowsProject'
  BY <1>3 DEF CardsInv, BoardFollowsProject, ReadCard, ReadOnly
<1>5. ReadOnly
  BY DEF ReadCard
<1>6. CASE End(r)
  BY <1>5, <1>6, EndReadStep
<1>7. CASE AfterCard(r, row)
  <2>1. tasks' \in Seq(Task) /\ Len(tasks') = Len(tasks) /\ OnlyTasks
    BY <1>5 DEF ReadOnly, CardsInv, TypeOK
  <2> HIDE DEF row
  <2>2. QED
    BY <1>2, <1>3, <1>4, <1>7, <2>1, AfterCardStep
<1>8. CASE row.board = NoBoard /\ req' = [req EXCEPT ![r].pc = "ensure", ![r].proj = row.proj]
  <2> DEFINE q == [req[r] EXCEPT !.pc = "ensure", !.proj = row.proj]
  <2>1. row.proj \in Projects /\ NoBoard \notin Projects
    BY <1>3, CardsAssumption DEF Task
  <2> HIDE DEF row
  <2>2. req' = [req EXCEPT ![r] = q]
    BY <1>8 DEF CardsInv, TypeOK
  <2>3. /\ q \in Request /\ q.pc = "ensure" /\ q.op = req[r].op /\ q.task = req[r].task
        /\ q.status = req[r].status
    <3>1. "ensure" \in Pcs
      BY DEF Pcs
    <3>2. QED
      BY <1>1, <2>1, <3>1 DEF Request
  <2> HIDE DEF q
  <2>4. Doing(q) /\ Names(q, Len(tasks))
    BY <1>1, <1>2, <2>3 DEF Doing, Names
  <2>5. ~Boarded
    BY <1>4, <1>8, <2>1
  <2>6. QED
    BY <1>5, <2>2, <2>3, <2>4, <2>5, RequestReads
<1>9. QED
  BY <1>6, <1>7, <1>8 DEF ReadCard

\* The board exists: each operation goes on with its own next step.
LEMMA EnsuredStep ==
    ASSUME CardsInv, NEW r \in Reqs, NEW created \in BOOLEAN, Ensured(r, created),
           req[r].pc \in {"ensure", "seed"}, tasks' \in Seq(Task), Len(tasks') = Len(tasks),
           boards' \subseteq Projects, lists' \in [Lists -> List], labelLive' = labelLive,
           Boarded => BoardFollowsProject'
    PROVE  CardsInv'
<1>1. /\ req[r] \in Request /\ Doing(req[r]) /\ Names(req[r], Len(tasks))
      /\ Boarded => Settled(req[r])
  BY ThisRequest
<1>2. Len(tasks) \in Nat /\ Len(tasks) <= Len(tasks') /\ Len(tasks') <= MaxTasks
  BY TaskRows DEF CardsInv
<1>3. CASE End(r)
  BY <1>2, <1>3, EndStep
<1>4. CASE ~End(r)
  <2>1. req[r].op \in CardOps \cup CreateOps \cup {"open", "moveProject"}
    BY <1>1 DEF Doing
  <2>2. PICK pc : /\ Goto(r, pc)
                  /\ \/ pc = "adopt" /\ req[r].op \in CardOps
                     \/ pc = "gather"
                     \/ pc = "checkLabels" /\ req[r].op \in CreateOps
                     \/ pc = "clearLabels" /\ req[r].op \in PatchOps
    BY <1>4, <2>1 DEF Ensured, PatchOps, CardOps, CreateOps
  <2> DEFINE q == [req[r] EXCEPT !.pc = pc]
  <2>3. req' = [req EXCEPT ![r] = q]
    BY <2>2 DEF Goto, CardsInv, TypeOK
  <2>4. pc \in Pcs
    BY <2>2 DEF Pcs
  <2>5. /\ q \in Request /\ q.pc = pc /\ q.op = req[r].op /\ q.task = req[r].task
        /\ q.status = req[r].status /\ q.row = req[r].row /\ q.owned = req[r].owned
        /\ q.proj = req[r].proj
    BY <1>1, <2>4 DEF Request
  <2> HIDE DEF q
  <2>6. Doing(q) /\ Names(q, Len(tasks'))
    BY <1>1, <2>2, <2>5 DEF Doing, Names
  <2>7. Boarded => Settled(q) /\ BoardFollowsProject'
    BY <1>1, <2>2, <2>5 DEF Settled
  <2>8. QED
    BY <1>2, <2>3, <2>5, <2>6, <2>7, RequestMoves
<1>5. QED
  BY <1>3, <1>4

\* ensureBoard looks for the board, and reads the tasks that a new one takes.
LEMMA EnsureStep ==
    ASSUME CardsInv, NEW r \in Reqs, Ensure(r)
    PROVE  CardsInv'
<1>1. /\ req[r] \in Request /\ Doing(req[r]) /\ Names(req[r], Len(tasks))
      /\ Boarded => Settled(req[r])
  BY ThisRequest
<1>2. req[r].pc = "ensure" /\ ReadOnly
  BY DEF Ensure, At
<1>3. CASE Ensured(r, FALSE)
  <2>1. /\ tasks' \in Seq(Task) /\ Len(tasks') = Len(tasks)
        /\ boards' \subseteq Projects /\ lists' \in [Lists -> List] /\ labelLive' = labelLive
        /\ Boarded => BoardFollowsProject'
    BY <1>2 DEF CardsInv, TypeOK, ReadOnly, OnlyTasks, BoardFollowsProject
  <2>2. FALSE \in BOOLEAN
    OBVIOUS
  <2>3. QED
    BY <1>2, <1>3, <2>1, <2>2, EnsuredStep
<1>4. CASE ~Ensured(r, FALSE)
  <2>1. PICK owned : owned = {<<t, tasks[t].status>> : t \in Orphaned(req[r].proj)}
    OBVIOUS
  <2> DEFINE q == [req[r] EXCEPT !.pc = "seed", !.owned = owned]
  <2>2. req' = [req EXCEPT ![r].pc = "seed", ![r].owned = owned]
    BY <1>4, <2>1 DEF Ensure
  <2>3. req' = [req EXCEPT ![r] = q]
    BY <2>2 DEF CardsInv, TypeOK
  <2>4. \A t \in Orphaned(req[r].proj) : t \in TaskIds /\ tasks[t].status \in Statuses
    BY TaskRows DEF Orphaned, CardsInv, Task
  <2>5. owned \in SUBSET (TaskIds \X Statuses)
    BY <2>1, <2>4
  <2>6. /\ q \in Request /\ q.pc = "seed" /\ q.op = req[r].op /\ q.task = req[r].task
        /\ q.status = req[r].status /\ q.row = req[r].row /\ q.owned = owned
        /\ q.proj = req[r].proj
    <3>1. "seed" \in Pcs
      BY DEF Pcs
    <3>2. QED
      BY <1>1, <2>5, <3>1 DEF Request
  <2> HIDE DEF q
  <2>7. Doing(q) /\ Names(q, Len(tasks))
    BY <1>1, <1>2, <2>6 DEF Doing, Names
  <2>8. ASSUME Boarded PROVE Settled(q)
    <3>1. \A t \in DOMAIN tasks : tasks[t].board # NoBoard
      BY <2>8, TaskRows, CardsAssumption DEF CardsInv, BoardFollowsProject, Task
    <3>2. Orphaned(req[r].proj) = {}
      BY <3>1 DEF Orphaned
    <3>3. owned = {}
      BY <2>1, <3>2
    <3>4. QED
      BY <1>1, <1>2, <2>6, <2>8, <3>3 DEF Settled
  <2>9. QED
    BY <1>2, <2>3, <2>6, <2>7, <2>8, RequestReads
<1>5. QED
  BY <1>3, <1>4

\* A task that a new board takes is a task.
LEMMA SeededTask ==
    ASSUME NEW row \in Task, NEW p \in Projects, NEW status
    PROVE  Seeded(row, p, status) \in Task
BY DefaultListOn DEF Seeded, Task

\* The board is made, or turns out to be there.
LEMMA SeedStep ==
    ASSUME CardsInv, NEW r \in Reqs, Seed(r)
    PROVE  CardsInv'
<1>1. /\ req[r] \in Request /\ Doing(req[r]) /\ Names(req[r], Len(tasks))
      /\ Boarded => Settled(req[r])
  BY ThisRequest
<1>2. req[r].pc \in {"ensure", "seed"} /\ Ensured(r, TRUE) /\ TRUE \in BOOLEAN
  BY DEF Seed, At
<1>3. CASE ReadOnly
  <2>1. /\ tasks' \in Seq(Task) /\ Len(tasks') = Len(tasks)
        /\ boards' \subseteq Projects /\ lists' \in [Lists -> List] /\ labelLive' = labelLive
        /\ Boarded => BoardFollowsProject'
    BY <1>3 DEF CardsInv, TypeOK, ReadOnly, OnlyTasks, BoardFollowsProject
  <2>2. QED
    BY <1>2, <2>1, EnsuredStep
<1>4. CASE createWithDefaults(req[r].proj, req[r].owned)
  <2>1. PICK p \in Projects : p = req[r].proj
    BY <1>1 DEF Request
  <2>2. PICK owned : owned = req[r].owned
    OBVIOUS
  <2>3. createWithDefaults(p, owned)
    BY <1>4, <2>1, <2>2
  <2>4. /\ tasks \in Seq(Task) /\ \A t \in DOMAIN tasks : tasks[t] \in Task
        /\ boards \subseteq Projects /\ lists \in [Lists -> List]
    BY TaskRows DEF CardsInv, TypeOK
  <2>5. /\ tasks' = [t \in DOMAIN tasks |-> tasks'[t]]
        /\ \A t \in DOMAIN tasks :
             tasks'[t] = IF \E s \in Statuses : <<t, s>> \in owned
                         THEN Seeded(tasks[t], p, IF <<t, "TODO">> \in owned THEN "TODO" ELSE "DONE")
                         ELSE tasks[t]
    BY <2>3 DEF createWithDefaults
  <2>6. \A t \in DOMAIN tasks : tasks'[t] \in Task
    BY <2>4, <2>5, SeededTask
  <2>7. tasks' \in Seq(Task) /\ Len(tasks') = Len(tasks) /\ DOMAIN tasks' = DOMAIN tasks
    BY <2>4, <2>5, <2>6, RowsRewritten
  <2>8. boards' \subseteq Projects /\ labelLive' = labelLive
    BY <2>3, <2>4 DEF createWithDefaults
  <2>9. lists' \in [Lists -> List]
    BY <2>3, <2>4, DefaultListOn DEF createWithDefaults, List, Statuses
  <2>10. ASSUME Boarded PROVE BoardFollowsProject'
    <3>1. owned = {}
      BY <1>1, <2>1, <2>2, <2>10 DEF Settled
    <3>2. \A t \in DOMAIN tasks : tasks'[t] = tasks[t]
      BY <2>5, <3>1
    <3>3. QED
      BY <2>7, <2>10, <3>2 DEF CardsInv, BoardFollowsProject
  <2>11. QED
    BY <1>2, <2>7, <2>8, <2>9, <2>10, EnsuredStep
<1>5. QED
  BY <1>3, <1>4 DEF Seed

\* requireCard adopts a card without a board.
LEMMA AdoptStep ==
    ASSUME CardsInv, NEW r \in Reqs, Adopt(r)
    PROVE  CardsInv'
<1> DEFINE t == req[r].task
           row == [tasks[t] EXCEPT !.board = req[r].proj]
<1>1. /\ req[r] \in Request /\ Doing(req[r]) /\ Names(req[r], Len(tasks))
      /\ Boarded => Settled(req[r])
  BY ThisRequest
<1>2. req[r].op \in CardOps /\ t \in 1 .. Len(tasks) /\ req[r].pc = "adopt"
  BY <1>1 DEF Adopt, At, Doing, Names
<1>3. t \in DOMAIN tasks /\ tasks[t] \in Task /\ req[r].proj \in Projects
  BY <1>1, <1>2, TaskRows DEF CardsInv, Request
<1>4. row \in Task
  BY <1>3 DEF Task
<1>5. tasks' = [tasks EXCEPT ![t] = row] /\ AfterCard(r, row) /\ OnlyTasks
  BY DEF Adopt
<1>6. ~Boarded
  BY <1>1, <1>2 DEF Settled
<1> HIDE DEF t, row
<1>7. tasks' \in Seq(Task) /\ Len(tasks') = Len(tasks)
  BY <1>2, <1>4, <1>5, OneRow DEF CardsInv, TypeOK
<1>8. QED
  BY <1>2, <1>4, <1>5, <1>6, <1>7, AfterCardStep

\* The board that is opened for the first time gathers the tasks of its project.
LEMMA GatherStep ==
    ASSUME CardsInv, NEW r \in Reqs, Gather(r)
    PROVE  CardsInv'
<1>1. PICK p \in Projects : p = req[r].proj
  BY ThisRequest DEF Request
<1>2. /\ tasks' = [t \in DOMAIN tasks |-> tasks'[t]]
      /\ \A t \in DOMAIN tasks :
           tasks'[t] = IF t \in Orphaned(p) THEN [tasks[t] EXCEPT !.board = p] ELSE tasks[t]
      /\ End(r) /\ OnlyTasks
  BY <1>1 DEF Gather
<1>3. /\ tasks \in Seq(Task) /\ Len(tasks) \in Nat /\ Len(tasks) <= MaxTasks
      /\ \A t \in DOMAIN tasks : tasks[t] \in Task
  BY TaskRows DEF CardsInv, TypeOK
<1>4. \A t \in DOMAIN tasks : tasks'[t] \in Task
  BY <1>2, <1>3 DEF Task
<1>5. tasks' \in Seq(Task) /\ Len(tasks') = Len(tasks) /\ DOMAIN tasks' = DOMAIN tasks
  BY <1>2, <1>3, <1>4, RowsRewritten
<1>6. ASSUME Boarded PROVE BoardFollowsProject'
  <2>1. ASSUME NEW t \in DOMAIN tasks PROVE tasks'[t].board = tasks'[t].proj
    <3>1. CASE t \in Orphaned(p)
      <4>1. tasks'[t] = [tasks[t] EXCEPT !.board = p] /\ tasks[t].proj = p
        BY <1>2, <3>1 DEF Orphaned
      <4>2. QED
        BY <1>3, <4>1 DEF Task
    <3>2. CASE t \notin Orphaned(p)
      BY <1>2, <1>6, <3>2 DEF CardsInv, BoardFollowsProject
    <3>3. QED
      BY <3>1, <3>2
  <2>2. QED
    BY <1>5, <2>1 DEF BoardFollowsProject
<1>7. /\ boards' \subseteq Projects /\ lists' \in [Lists -> List] /\ labelLive' = labelLive
      /\ Len(tasks) <= Len(tasks') /\ Len(tasks') <= MaxTasks
  BY <1>2, <1>3, <1>5 DEF CardsInv, TypeOK, OnlyTasks
<1>8. QED
  BY <1>2, <1>5, <1>6, <1>7, EndStep

\* A request only goes to another step.
LEMMA GotoStep ==
    ASSUME CardsInv, NEW r \in Reqs, NEW pc \in Pcs, Goto(r, pc),
           pc \notin {"ensure", "seed", "readCard", "adopt", "findList", "findDone", "copyLabels",
                     "checkLabels", "readTask", "clearLabels", "readList"},
           pc = "insert" => req[r].op \in CreateOps,
           pc = "write" => req[r].op \in CardOps \cup PatchOps,
           pc \in {"releaseCards", "writeList"} => req[r].list # NoList /\ req[r].op = "updateList",
           pc = "spawn" => req[r].op \in CardOps /\ req[r].row.remaining > 0,
           pc = "writeLabels" => req[r].op \in CardOps \cup PatchOps,
           OnlyTasks, tasks' \in Seq(Task), Len(tasks') = Len(tasks),
           Boarded => BoardFollowsProject'
    PROVE  CardsInv'
<1>1. /\ req[r] \in Request /\ Doing(req[r]) /\ Names(req[r], Len(tasks))
      /\ Boarded => Settled(req[r])
  BY ThisRequest
<1>2. /\ Len(tasks) \in Nat /\ Len(tasks) <= Len(tasks') /\ Len(tasks') <= MaxTasks
      /\ boards' \subseteq Projects /\ lists' \in [Lists -> List] /\ labelLive' = labelLive
  BY TaskRows DEF CardsInv, TypeOK, OnlyTasks
<1> DEFINE q == [req[r] EXCEPT !.pc = pc]
<1>3. req' = [req EXCEPT ![r] = q]
  BY DEF Goto, CardsInv, TypeOK
<1>4. /\ q \in Request /\ q.pc = pc /\ q.op = req[r].op /\ q.task = req[r].task
      /\ q.list = req[r].list /\ q.status = req[r].status /\ q.row = req[r].row
      /\ q.owned = req[r].owned /\ q.proj = req[r].proj
  BY <1>1 DEF Request
<1> HIDE DEF q
<1>5. Doing(q) /\ Names(q, Len(tasks'))
  BY <1>1, <1>4 DEF Doing, Names
<1>6. Boarded => Settled(q) /\ BoardFollowsProject'
  BY <1>1, <1>4 DEF Settled
<1>7. QED
  BY <1>2, <1>3, <1>4, <1>5, <1>6, RequestMoves

\* A query that only reads leaves what it read for the next step.
LEMMA ReadsStay ==
    ASSUME CardsInv, ReadOnly
    PROVE  /\ OnlyTasks /\ tasks' \in Seq(Task) /\ Len(tasks') = Len(tasks)
           /\ Boarded => BoardFollowsProject'
BY DEF CardsInv, TypeOK, ReadOnly, OnlyTasks, BoardFollowsProject

\* requireList finds the list, or does not.
LEMMA ReadListStep ==
    ASSUME CardsInv, NEW r \in Reqs, ReadList(r)
    PROVE  CardsInv'
<1>1. /\ req[r] \in Request /\ Doing(req[r]) /\ Names(req[r], Len(tasks))
      /\ Boarded => Settled(req[r])
  BY ThisRequest
<1>2. /\ req[r].pc = "readList" /\ req[r].op \in {"createIn", "updateList"}
      /\ req[r].list # NoList /\ req[r].list \in Lists /\ ReadOnly
  BY <1>1 DEF ReadList, At, Doing, Request
<1>3. CASE End(r)
  BY <1>2, <1>3, EndReadStep
<1>4. CASE req[r].op = "updateList" /\ ~End(r)
  <2>1. PICK pc \in {"releaseCards", "writeList"} : Goto(r, pc)
    BY <1>4 DEF ReadList
  <2>2. pc \in Pcs
    BY DEF Pcs
  <2>3. /\ OnlyTasks /\ tasks' \in Seq(Task) /\ Len(tasks') = Len(tasks)
        /\ Boarded => BoardFollowsProject'
    BY <1>2, ReadsStay
  <2>4. QED
    BY <1>2, <1>4, <2>1, <2>2, <2>3, GotoStep
<1>5. CASE req[r].op = "createIn" /\ ~End(r)
  <2>1. PICK row : row = [req[r].row EXCEPT
                            !.list = req[r].list,
                            !.status = IF lists[req[r].list].maps = "none" THEN @
                                       ELSE lists[req[r].list].maps]
    OBVIOUS
  <2> DEFINE q == [req[r] EXCEPT !.pc = "checkLabels", !.row = row]
  <2>2. req \in [Reqs -> Request] /\ req[r].row \in Task /\ lists[req[r].list] \in List
    BY <1>1, <1>2 DEF CardsInv, TypeOK, Request
  <2>3. req' = [req EXCEPT ![r].pc = "checkLabels", ![r].row.list = req[r].list,
                           ![r].row.status = IF lists[req[r].list].maps = "none" THEN @
                                             ELSE lists[req[r].list].maps]
    BY <1>5 DEF ReadList
  <2>4. req' = [req EXCEPT ![r] = q]
    BY <2>1, <2>2, <2>3
  <2>5. lists[req[r].list].maps \in Statuses \cup {"none"}
    BY <2>2 DEF List
  <2>6. row \in Task /\ row.proj = req[r].row.proj /\ row.board = req[r].row.board
    BY <1>2, <2>1, <2>2, <2>5 DEF Task
  <2>7. "checkLabels" \in Pcs
    BY DEF Pcs
  <2>8. /\ q \in Request /\ q.pc = "checkLabels" /\ q.op = req[r].op /\ q.task = req[r].task
        /\ q.status = req[r].status /\ q.row = row /\ q.owned = req[r].owned /\ q.proj = req[r].proj
    BY <1>1, <2>6, <2>7 DEF Request
  <2> HIDE DEF q
  <2>9. Doing(q) /\ Names(q, Len(tasks))
    BY <1>1, <1>5, <2>8 DEF Doing, Names, CreateOps, CardOps, PatchOps
  <2>10. Boarded => Settled(q)
    BY <1>1, <1>5, <2>6, <2>8 DEF Settled
  <2>11. QED
    BY <1>2, <2>4, <2>8, <2>9, <2>10, RequestReads
<1>6. QED
  BY <1>2, <1>3, <1>4, <1>5

\* The list that a card goes to, and the status that the list gives it, are known.
LEMMA FoundStep ==
    ASSUME CardsInv, NEW r \in Reqs, req[r].pc \in {"findList", "findDone"}, ReadOnly,
           NEW l \in Lists \cup {NoList}, NEW s \in Statuses \cup {req[r].status},
           req' = [req EXCEPT ![r].pc = "write", ![r].list = l, ![r].status = s]
    PROVE  CardsInv'
<1>1. /\ req[r] \in Request /\ Doing(req[r]) /\ Names(req[r], Len(tasks))
      /\ Boarded => Settled(req[r])
  BY ThisRequest
<1> DEFINE q == [req[r] EXCEPT !.pc = "write", !.list = l, !.status = s]
<1>2. req' = [req EXCEPT ![r] = q]
  BY DEF CardsInv, TypeOK
<1>3. "write" \in Pcs /\ s \in Statuses \cup {"none", "keep"}
  BY <1>1 DEF Pcs, Request
<1>4. /\ q \in Request /\ q.pc = "write" /\ q.op = req[r].op /\ q.task = req[r].task
      /\ q.status = s /\ q.row = req[r].row /\ q.owned = req[r].owned /\ q.proj = req[r].proj
  <2>1. q \in Request
    BY <1>1, <1>3 DEF Request
  <2>2. QED
    BY <1>1, <1>3, <2>1 DEF Request
<1> HIDE DEF q
<1>5. Doing(q) /\ Names(q, Len(tasks))
  BY <1>1, <1>4 DEF Doing, Names, Statuses
<1>6. Boarded => Settled(q)
  BY <1>1, <1>4 DEF Settled
<1>7. QED
  BY <1>2, <1>4, <1>5, <1>6, RequestReads

\* move looks for the list; complete looks for the list of the done cards.
LEMMA FindStep ==
    ASSUME CardsInv, NEW r \in Reqs, FindList(r) \/ FindDone(r)
    PROVE  CardsInv'
<1>1. /\ req[r] \in Request /\ Doing(req[r]) /\ Names(req[r], Len(tasks))
      /\ req \in [Reqs -> Request] /\ lists \in [Lists -> List]
  BY ThisRequest DEF CardsInv, TypeOK
<1>2. ReadOnly /\ req[r].pc \in {"findList", "findDone"}
  BY DEF FindList, FindDone, At
<1>3. CASE FindList(r)
  <2>1. CASE End(r)
    BY <1>2, <2>1, EndReadStep
  <2>2. CASE Goto(r, "write")
    <3>1. /\ OnlyTasks /\ tasks' \in Seq(Task) /\ Len(tasks') = Len(tasks)
          /\ Boarded => BoardFollowsProject'
      BY <1>2, ReadsStay
    <3>2. "write" \in Pcs /\ req[r].op \in CardOps
      BY <1>1, <1>2 DEF Pcs, Doing
    <3>3. QED
      BY <2>2, <3>1, <3>2, GotoStep
  <2>3. CASE ~End(r) /\ ~Goto(r, "write")
    <3>1. PICK l \in Lists : l = req[r].list
      BY <1>1, <1>3, <2>3 DEF FindList, Request
    <3>2. PICK s : s = IF lists[l].maps = "none" THEN req[r].status ELSE lists[l].maps
      OBVIOUS
    <3>3. lists[l].maps \in Statuses \cup {"none"}
      BY <1>1 DEF List
    <3>4. s \in Statuses \cup {req[r].status}
      BY <3>2, <3>3
    <3>5. req' = [req EXCEPT ![r].pc = "write", ![r].status = s]
      BY <1>1, <1>3, <2>3, <3>1, <3>2 DEF FindList
    <3>6. req' = [req EXCEPT ![r].pc = "write", ![r].list = l, ![r].status = s]
      BY <1>1, <3>1, <3>5 DEF Request
    <3>7. QED
      BY <1>2, <3>4, <3>6, FoundStep
  <2>4. QED
    BY <2>1, <2>2, <2>3
<1>4. CASE FindDone(r)
  <2>1. PICK l \in Lists \cup {NoList} :
          req' = [req EXCEPT ![r].pc = "write", ![r].list = l, ![r].status = "DONE"]
    BY <1>4 DEF FindDone, DoneLists
  <2>2. "DONE" \in Statuses \cup {req[r].status}
    BY DEF Statuses
  <2>3. QED
    BY <1>2, <2>1, <2>2, FoundStep
<1>5. QED
  BY <1>3, <1>4

\* The labels are those of the board, or the request is refused.
LEMMA CheckLabelsStep ==
    ASSUME CardsInv, NEW r \in Reqs, CheckLabels(r)
    PROVE  CardsInv'
<1>1. Doing(req[r]) /\ ReadOnly /\ req[r].pc = "checkLabels"
  BY ThisRequest DEF CheckLabels, At
<1>2. req[r].op \in CreateOps \cup {"setLabels", "addLabel", "relabel"}
  BY <1>1 DEF Doing
<1>3. CASE End(r)
  BY <1>1, <1>3, EndReadStep
<1>4. CASE ~End(r)
  <2>1. PICK pc \in {"insert", "write"}, b \in BOOLEAN :
          /\ req' = [req EXCEPT ![r].pc = pc, ![r].unchecked = b]
          /\ pc = "insert" => req[r].op \in CreateOps
          /\ pc = "write" => req[r].op \notin CreateOps
    BY <1>4 DEF CheckLabels
  <2>2. pc = "write" => req[r].op \in CardOps \cup PatchOps
    BY <1>2, <2>1 DEF CardOps, PatchOps
  <2>3. req[r] \in Request /\ Names(req[r], Len(tasks)) /\ (Boarded => Settled(req[r]))
    BY ThisRequest
  <2> DEFINE q == [req[r] EXCEPT !.pc = pc, !.unchecked = b]
  <2>4. req' = [req EXCEPT ![r] = q]
    BY <2>1 DEF CardsInv, TypeOK
  <2>5. /\ q \in Request /\ q.pc = pc /\ q.op = req[r].op /\ q.task = req[r].task
        /\ q.status = req[r].status /\ q.row = req[r].row /\ q.owned = req[r].owned
        /\ q.proj = req[r].proj
    <3>1. pc \in Pcs
      BY DEF Pcs
    <3>2. q \in Request
      BY <2>3, <3>1 DEF Request
    <3>3. QED
      BY <2>3, <3>2 DEF Request
  <2> HIDE DEF q
  <2>6. Doing(q) /\ Names(q, Len(tasks))
    BY <1>1, <2>1, <2>2, <2>3, <2>5 DEF Doing, Names
  <2>7. Boarded => Settled(q)
    BY <2>1, <2>3, <2>5 DEF Settled
  <2>8. QED
    BY <1>1, <2>4, <2>5, <2>6, <2>7, RequestReads
<1>5. QED
  BY <1>3, <1>4

\* A row is added at the end.
LEMMA AddedRow ==
    ASSUME CardsInv, Len(tasks) < MaxTasks, NEW row \in Task, tasks' = Append(tasks, row),
           Boarded => row.board = row.proj
    PROVE  /\ tasks' \in Seq(Task) /\ Len(tasks') = Len(tasks) + 1
           /\ Len(tasks) <= Len(tasks') /\ Len(tasks') <= MaxTasks
           /\ Len(tasks) + 1 \in TaskIds
           /\ Boarded => BoardFollowsProject'
<1>1. tasks \in Seq(Task) /\ Len(tasks) \in Nat /\ MaxTasks \in Nat /\ DOMAIN tasks = 1 .. Len(tasks)
  BY TaskRows DEF CardsInv, TypeOK
<1>2. /\ tasks' \in Seq(Task) /\ Len(tasks') = Len(tasks) + 1
      /\ \A t \in 1 .. Len(tasks) : tasks'[t] = tasks[t]
      /\ tasks'[Len(tasks) + 1] = row
  BY <1>1, AppendProperties
<1>3. DOMAIN tasks' = 1 .. (Len(tasks) + 1)
  BY <1>2, LenProperties
<1>4. \A t \in DOMAIN tasks' : t \in DOMAIN tasks \/ t = Len(tasks) + 1
  BY <1>1, <1>3
<1>5. Boarded => BoardFollowsProject'
  BY <1>1, <1>2, <1>4 DEF CardsInv, BoardFollowsProject
<1>6. QED
  BY <1>1, <1>2, <1>5 DEF TaskIds

\* The new card is inserted.
LEMMA InsertStep ==
    ASSUME CardsInv, NEW r \in Reqs, Insert(r)
    PROVE  CardsInv'
<1>1. /\ req[r] \in Request /\ Doing(req[r]) /\ Names(req[r], Len(tasks))
      /\ Boarded => Settled(req[r])
  BY ThisRequest
<1>2. /\ req[r].pc = "insert" /\ Len(tasks) < MaxTasks /\ OnlyTasks
  BY DEF Insert, At
<1>3. req[r].op \in CreateOps
  BY <1>1, <1>2 DEF Doing
<1>4. /\ boards' \subseteq Projects /\ lists' \in [Lists -> List] /\ labelLive' = labelLive
  BY <1>2 DEF CardsInv, TypeOK, OnlyTasks
<1>5. CASE UNCHANGED tasks /\ End(r)
  BY <1>2, <1>5, EndReadStep DEF ReadOnly
<1>6. CASE ~(UNCHANGED tasks /\ End(r))
  <2>1. PICK row : row = ToInsert(req[r])
    OBVIOUS
  <2>2. req[r].row \in Task /\ req[r].labels \subseteq Labels /\ req[r].proj \in Projects
    BY <1>1 DEF Request
  <2>3. row \in Task
    BY <2>1, <2>2 DEF ToInsert, Task
  <2>4. ASSUME Boarded PROVE row.board = row.proj
    <3>1. /\ req[r].row.board = req[r].row.proj /\ req[r].row.proj = req[r].proj
          /\ req[r].row.kind = "TASK"
      BY <1>1, <1>3, <2>2, <2>4 DEF Settled, Boarded, Task
    <3>2. QED
      BY <2>1, <2>2, <3>1 DEF ToInsert, Task
  <2>5. tasks' = Append(tasks, row)
    BY <1>6, <2>1 DEF Insert
  <2>6. /\ tasks' \in Seq(Task) /\ Len(tasks') = Len(tasks) + 1
        /\ Len(tasks) <= Len(tasks') /\ Len(tasks') <= MaxTasks
        /\ Len(tasks) + 1 \in TaskIds
        /\ Boarded => BoardFollowsProject'
    BY <1>2, <2>3, <2>4, <2>5, AddedRow
  <2>7. CASE End(r)
    BY <1>4, <2>6, <2>7, EndStep
  <2>8. CASE ~End(r)
    <3>1. PICK n \in TaskIds : n = Len(tasks) + 1
      BY <2>6
    <3> DEFINE q == [req[r] EXCEPT !.pc = "writeLabels", !.task = n]
    <3>2. req' = [req EXCEPT ![r].pc = "writeLabels", ![r].task = n]
      BY <1>6, <2>8, <3>1 DEF Insert
    <3>3. req' = [req EXCEPT ![r] = q]
      BY <3>2 DEF CardsInv, TypeOK
    <3>4. "writeLabels" \in Pcs
      BY DEF Pcs
    <3>5. /\ q \in Request /\ q.pc = "writeLabels" /\ q.op = req[r].op /\ q.task = n
          /\ q.status = req[r].status /\ q.row = req[r].row /\ q.owned = req[r].owned
          /\ q.proj = req[r].proj
      BY <1>1, <3>4 DEF Request
    <3> HIDE DEF q
    <3>6. Len(tasks) \in Nat
      BY TaskRows DEF CardsInv
    <3>7. Doing(q) /\ Names(q, Len(tasks'))
      BY <1>1, <2>6, <3>1, <3>5, <3>6 DEF Doing, Names
    <3>8. Boarded => Settled(q) /\ BoardFollowsProject'
      BY <1>1, <2>6, <3>5 DEF Settled
    <3>9. QED
      BY <1>4, <2>6, <3>3, <3>5, <3>7, <3>8, RequestMoves
  <2>9. QED
    BY <2>7, <2>8
<1>7. QED
  BY <1>5, <1>6

\* PATCH and DELETE read the task.
LEMMA ReadTaskStep ==
    ASSUME CardsInv, NEW r \in Reqs, ReadTask(r)
    PROVE  CardsInv'
<1>1. /\ req[r] \in Request /\ Doing(req[r]) /\ Names(req[r], Len(tasks))
      /\ Boarded => Settled(req[r])
  BY ThisRequest
<1>2. req[r].pc = "readTask" /\ ReadOnly
  BY DEF ReadTask, At
<1>3. req[r].op \in PatchOps /\ req[r].task \in 1 .. Len(tasks)
  BY <1>1, <1>2 DEF Doing, Names
<1>4. PICK row : row = tasks[req[r].task]
  OBVIOUS
<1>5. row \in Task /\ req[r].task \in DOMAIN tasks
  BY <1>3, <1>4, TaskRows DEF CardsInv
<1>6. CASE End(r)
  BY <1>2, <1>6, EndReadStep
<1>7. CASE ~End(r)
  <2> DEFINE moves == req[r].op = "moveProject" /\ req[r].proj # row.proj
  <2>1. PICK op : op = IF req[r].op = "moveProject" /\ ~moves THEN "patch" ELSE req[r].op
    OBVIOUS
  <2>2. PICK pc : pc = CASE moves -> "ensure"
                         [] req[r].op = "relabel" -> "checkLabels"
                         [] OTHER -> "write"
    OBVIOUS
  <2> DEFINE q == [req[r] EXCEPT !.row = row, !.op = op, !.pc = pc]
  <2>3. req' = [req EXCEPT ![r].row = row, ![r].op = op, ![r].pc = pc]
    BY <1>4, <1>7, <2>1, <2>2 DEF ReadTask, CardsInv, TypeOK
  <2>4. req' = [req EXCEPT ![r] = q]
    BY <2>3 DEF CardsInv, TypeOK
  <2>5. op \in PatchOps
    BY <1>3, <2>1 DEF PatchOps
  <2>6. /\ pc \in {"ensure", "checkLabels", "write"} /\ (pc = "ensure" => op = "moveProject")
        /\ pc = "checkLabels" => op = "relabel"
    BY <2>1, <2>2
  <2>7. pc \in Pcs
    BY <2>6 DEF Pcs
  <2>8. /\ q \in Request /\ q.pc = pc /\ q.op = op /\ q.task = req[r].task
        /\ q.status = req[r].status /\ q.row = row /\ q.owned = req[r].owned
        /\ q.proj = req[r].proj
    BY <1>1, <1>5, <2>5, <2>7 DEF Request
  <2> HIDE DEF q, moves
  <2>9. Doing(q)
    BY <1>1, <1>3, <2>5, <2>6, <2>8 DEF Doing, PatchOps
  <2>10. Names(q, Len(tasks))
    BY <1>3, <2>6, <2>8 DEF Names
  <2>11. Boarded => Settled(q)
    BY <1>1, <1>4, <1>5, <2>5, <2>8 DEF Settled, CardsInv, BoardFollowsProject, PatchOps, CreateOps, CardOps
  <2>12. QED
    BY <1>2, <2>4, <2>8, <2>9, <2>10, <2>11, RequestReads
<1>8. QED
  BY <1>6, <1>7

\* moveToProject takes the labels off the task.
LEMMA ClearLabelsStep ==
    ASSUME CardsInv, NEW r \in Reqs, ClearLabels(r)
    PROVE  CardsInv'
<1>1. /\ Doing(req[r]) /\ Names(req[r], Len(tasks)) /\ req[r].pc = "clearLabels" /\ OnlyTasks
      /\ Goto(r, "write")
  BY ThisRequest DEF ClearLabels, At
<1>2. PICK t \in 1 .. Len(tasks) : t = req[r].task /\ req[r].op \in PatchOps
  BY <1>1 DEF Doing, Names
<1>3. tasks \in Seq(Task) /\ t \in DOMAIN tasks /\ tasks[t] \in Task
  BY TaskRows DEF CardsInv, TypeOK
<1>4. PICK row : row = [tasks[t] EXCEPT !.labels = {}, !.unchecked = FALSE]
  OBVIOUS
<1>5. row \in Task /\ row.board = tasks[t].board /\ row.proj = tasks[t].proj
  BY <1>3, <1>4 DEF Task
<1>6. tasks' = [tasks EXCEPT ![t] = row]
  BY <1>2, <1>3, <1>4 DEF ClearLabels
<1>7. /\ tasks' \in Seq(Task) /\ Len(tasks') = Len(tasks) /\ DOMAIN tasks' = DOMAIN tasks
      /\ \A u \in DOMAIN tasks : tasks'[u] = IF u = t THEN row ELSE tasks[u]
  BY <1>3, <1>5, <1>6, OneRow
<1>8. ASSUME Boarded PROVE BoardFollowsProject'
  <2>1. row.board = row.proj
    BY <1>3, <1>5, <1>8 DEF CardsInv, BoardFollowsProject
  <2>2. QED
    BY <1>7, <1>8, <2>1, BoardedRow
<1>9. "write" \in Pcs
  BY DEF Pcs
<1>10. QED
  BY <1>1, <1>2, <1>7, <1>8, <1>9, GotoStep

\* What the one UPDATE of a handler leaves is a task, on the board of its project if it was.
LEMMA WrittenTask ==
    ASSUME NEW row \in Task, NEW q \in Request, q.status # "none"
    PROVE  /\ Written(row, q) \in Task
           /\ row.board = row.proj => Written(row, q).board = Written(row, q).proj
<1>1. PICK to : to = IF q.op = "moveProject" THEN MovedTo(row, q.proj) ELSE row
  OBVIOUS
<1>2. q.proj \in Projects /\ q.list \in Lists \cup {NoList} /\ q.labels \subseteq Labels
  BY DEF Request
<1>3. to \in Task /\ (row.board = row.proj => to.board = to.proj)
  BY <1>1, <1>2 DEF MovedTo, Task
<1>4. PICK list : list = CASE q.op = "move" -> q.list
                           [] q.op \in {"complete", "replay"} /\ q.list # NoList /\ q.list # q.row.list -> q.list
                           [] OTHER -> to.list
  OBVIOUS
<1>5. list \in Lists \cup {NoList}
  BY <1>2, <1>3, <1>4 DEF Task
<1>6. PICK status : status = CASE q.op \in {"move", "complete", "replay"} \cup PatchOps /\ q.status # "keep" -> q.status
                               [] q.op = "reopen" -> "TODO"
                               [] OTHER -> row.status
  OBVIOUS
<1>7. status \in Statuses
  BY <1>6 DEF Task, Request, Statuses
<1>8. PICK labels : labels = CASE q.op = "setLabels" -> q.labels
                               [] q.op = "addLabel" -> row.labels \cup q.labels
                               [] q.op = "removeLabel" -> row.labels \ q.labels
                               [] OTHER -> row.labels
  OBVIOUS
<1>9. labels \subseteq Labels
  BY <1>2, <1>8 DEF Task
<1>10. PICK remaining : remaining = IF q.op \in PatchOps /\ q.repeat # -1 THEN q.repeat ELSE row.remaining
  OBVIOUS
<1>11. remaining \in 0 .. MaxRepeat
  <2>1. row.remaining \in 0 .. MaxRepeat /\ q.repeat \in -1 .. MaxRepeat /\ MaxRepeat \in Nat
    BY CardsAssumption DEF Task, Request
  <2>2. QED
    BY <1>10, <2>1
<1>12. PICK unchecked : unchecked = (to.unchecked /\ q.op # "setLabels")
  OBVIOUS
<1>13. PICK deleted : deleted = IF q.op \in {"delete", "restore"} THEN q.op = "delete" ELSE to.deleted
  OBVIOUS
<1>14. unchecked \in BOOLEAN /\ deleted \in BOOLEAN
  <2>1. to.unchecked \in BOOLEAN /\ to.deleted \in BOOLEAN
    BY <1>3 DEF Task
  <2>2. QED
    BY <1>12, <1>13, <2>1
<1> DEFINE new == [to EXCEPT !.list = list, !.status = status, !.labels = labels,
                             !.remaining = remaining, !.unchecked = unchecked, !.deleted = deleted]
<1>15. Written(row, q) = new
  BY <1>1, <1>3, <1>4, <1>6, <1>8, <1>10, <1>12, <1>13 DEF Written, Task
<1>16. new \in Task /\ new.board = to.board /\ new.proj = to.proj
  BY <1>3, <1>5, <1>7, <1>9, <1>11, <1>14 DEF Task
<1>17. QED
  BY <1>3, <1>15, <1>16

\* The handler writes the task.
LEMMA WriteStep ==
    ASSUME CardsInv, NEW r \in Reqs, Write(r)
    PROVE  CardsInv'
<1>1. /\ req[r] \in Request /\ Doing(req[r]) /\ Names(req[r], Len(tasks))
      /\ req[r].pc = "write" /\ OnlyTasks
  BY ThisRequest DEF Write, At
<1>2. req[r].op \in CardOps \cup PatchOps
  BY <1>1 DEF Doing
<1>3. PICK t \in 1 .. Len(tasks) : t = req[r].task
  BY <1>1, <1>2 DEF Names
<1>4. tasks \in Seq(Task) /\ t \in DOMAIN tasks /\ tasks[t] \in Task /\ Len(tasks) \in Nat
  BY TaskRows DEF CardsInv, TypeOK
<1>5. CASE UNCHANGED tasks /\ End(r)
  BY <1>1, <1>5, EndReadStep DEF ReadOnly
<1>6. CASE ~(UNCHANGED tasks /\ End(r))
  <2>1. PICK row : row = Written(tasks[t], req[r])
    OBVIOUS
  <2>2. req[r].status # "none"
    BY <1>1, <1>2 DEF Doing, CardOps, PatchOps
  <2>3. row \in Task /\ (tasks[t].board = tasks[t].proj => row.board = row.proj)
    BY <1>1, <1>4, <2>1, <2>2, WrittenTask
  <2>4. tasks' = [tasks EXCEPT ![t] = row]
    BY <1>3, <1>4, <1>6, <2>1 DEF Write
  <2>5. /\ tasks' \in Seq(Task) /\ Len(tasks') = Len(tasks) /\ DOMAIN tasks' = DOMAIN tasks
        /\ \A u \in DOMAIN tasks : tasks'[u] = IF u = t THEN row ELSE tasks[u]
    BY <1>4, <2>3, <2>4, OneRow
  <2>6. ASSUME Boarded PROVE BoardFollowsProject'
    <3>1. row.board = row.proj
      BY <1>4, <2>3, <2>6 DEF CardsInv, BoardFollowsProject
    <3>2. QED
      BY <2>5, <2>6, <3>1, BoardedRow
  <2>7. CASE End(r)
    <3>1. /\ boards' \subseteq Projects /\ lists' \in [Lists -> List] /\ labelLive' = labelLive
          /\ Len(tasks) <= Len(tasks') /\ Len(tasks') <= MaxTasks
      BY <1>1, <1>4, <2>5 DEF CardsInv, TypeOK, OnlyTasks
    <3>2. QED
      BY <2>5, <2>6, <2>7, <3>1, EndStep
  <2>8. CASE ~End(r)
    <3>1. PICK pc \in {"writeLabels", "spawn"} :
            /\ Goto(r, pc)
            /\ pc = "spawn" => req[r].op = "complete" /\ req[r].row.remaining > 0
      BY <1>6, <2>8 DEF Write
    <3>2. pc \in Pcs /\ "complete" \in CardOps
      BY DEF Pcs, CardOps
    <3>3. QED
      BY <1>1, <1>2, <2>5, <2>6, <3>1, <3>2, GotoStep
  <2>9. QED
    BY <2>7, <2>8
<1>7. QED
  BY <1>5, <1>6

\* The labels of the task are set.
LEMMA WriteLabelsStep ==
    ASSUME CardsInv, NEW r \in Reqs, WriteLabels(r)
    PROVE  CardsInv'
<1>1. /\ req[r] \in Request /\ Names(req[r], Len(tasks)) /\ req[r].pc = "writeLabels"
      /\ OnlyTasks /\ End(r)
  BY ThisRequest DEF WriteLabels, At
<1>2. PICK t \in 1 .. Len(tasks) : t = req[r].task
  BY <1>1 DEF Names
<1>3. /\ tasks \in Seq(Task) /\ t \in DOMAIN tasks /\ tasks[t] \in Task /\ Len(tasks) \in Nat
      /\ Len(tasks) <= MaxTasks /\ req[r].labels \subseteq Labels /\ req[r].unchecked \in BOOLEAN
  BY <1>1, TaskRows DEF CardsInv, TypeOK, Request
<1>4. CASE UNCHANGED tasks
  BY <1>1, <1>4, EndReadStep DEF ReadOnly
<1>5. CASE ~UNCHANGED tasks
  <2>1. PICK row : row = [tasks[t] EXCEPT !.labels = req[r].labels, !.unchecked = req[r].unchecked]
    OBVIOUS
  <2>2. row \in Task /\ row.board = tasks[t].board /\ row.proj = tasks[t].proj
    BY <1>3, <2>1 DEF Task
  <2>3. tasks' = [tasks EXCEPT ![t] = row]
    BY <1>2, <1>3, <1>5, <2>1 DEF WriteLabels
  <2>4. /\ tasks' \in Seq(Task) /\ Len(tasks') = Len(tasks) /\ DOMAIN tasks' = DOMAIN tasks
        /\ \A u \in DOMAIN tasks : tasks'[u] = IF u = t THEN row ELSE tasks[u]
    BY <1>3, <2>2, <2>3, OneRow
  <2>5. ASSUME Boarded PROVE BoardFollowsProject'
    <3>1. row.board = row.proj
      BY <1>3, <2>2, <2>5 DEF CardsInv, BoardFollowsProject
    <3>2. QED
      BY <2>4, <2>5, <3>1, BoardedRow
  <2>6. /\ boards' \subseteq Projects /\ lists' \in [Lists -> List] /\ labelLive' = labelLive
        /\ Len(tasks) <= Len(tasks') /\ Len(tasks') <= MaxTasks
    BY <1>1, <1>3, <2>4 DEF CardsInv, TypeOK, OnlyTasks
  <2>7. QED
    BY <1>1, <2>4, <2>5, <2>6, EndStep
<1>6. QED
  BY <1>4, <1>5

\* The next occurrence is made.
LEMMA SpawnStep ==
    ASSUME CardsInv, NEW r \in Reqs, Spawn(r)
    PROVE  CardsInv'
<1>1. /\ req[r] \in Request /\ Doing(req[r]) /\ Names(req[r], Len(tasks))
      /\ (Boarded => Settled(req[r])) /\ req[r].pc = "spawn" /\ OnlyTasks /\ Len(tasks) < MaxTasks
  BY ThisRequest DEF Spawn, At
<1>2. req[r].row \in Task /\ req[r].row.remaining > 0 /\ req[r].op \in CardOps
  BY <1>1 DEF Doing, Request
<1>3. PICK row : row = Occurrence(req[r].row)
  OBVIOUS
<1>4. req[r].row.remaining \in 0 .. MaxRepeat
  BY <1>2 DEF Task
<1>5. req[r].row.remaining - 1 \in 0 .. MaxRepeat
  BY <1>2, <1>4, CardsAssumption
<1>6. row \in Task /\ row.board = req[r].row.board /\ row.proj = req[r].row.proj
  BY <1>2, <1>3, <1>5, CardsAssumption DEF Occurrence, Task, Statuses
<1>7. tasks' = Append(tasks, row)
  BY <1>3 DEF Spawn
<1>8. Boarded => row.board = row.proj
  BY <1>1, <1>6 DEF Settled
<1>9. /\ tasks' \in Seq(Task) /\ Len(tasks') = Len(tasks) + 1
      /\ Len(tasks) <= Len(tasks') /\ Len(tasks') <= MaxTasks
      /\ Len(tasks) + 1 \in TaskIds
      /\ Boarded => BoardFollowsProject'
  BY <1>1, <1>6, <1>7, <1>8, AddedRow
<1>10. PICK n \in TaskIds : n = Len(tasks) + 1
  BY <1>9
<1> DEFINE q == [req[r] EXCEPT !.pc = "copyLabels", !.next = n]
<1>11. req' = [req EXCEPT ![r].pc = "copyLabels", ![r].next = n]
  BY <1>10 DEF Spawn
<1>12. req' = [req EXCEPT ![r] = q]
  BY <1>11 DEF CardsInv, TypeOK
<1>13. "copyLabels" \in Pcs
  BY DEF Pcs
<1>14. /\ q \in Request /\ q.pc = "copyLabels" /\ q.op = req[r].op /\ q.task = req[r].task
       /\ q.next = n /\ q.status = req[r].status /\ q.row = req[r].row
       /\ q.owned = req[r].owned /\ q.proj = req[r].proj
  BY <1>1, <1>13 DEF Request
<1> HIDE DEF q
<1>15. Len(tasks) \in Nat
  BY TaskRows DEF CardsInv
<1>16. Doing(q) /\ Names(q, Len(tasks'))
  BY <1>1, <1>2, <1>9, <1>10, <1>14, <1>15 DEF Doing, Names
<1>17. Boarded => Settled(q) /\ BoardFollowsProject'
  BY <1>1, <1>9, <1>14 DEF Settled
<1>18. /\ boards' \subseteq Projects /\ lists' \in [Lists -> List] /\ labelLive' = labelLive
  BY <1>1 DEF CardsInv, TypeOK, OnlyTasks
<1>19. QED
  BY <1>9, <1>12, <1>14, <1>16, <1>17, <1>18, RequestMoves

\* The labels of the completed card are read for the next occurrence.
LEMMA CopyLabelsStep ==
    ASSUME CardsInv, NEW r \in Reqs, CopyLabels(r)
    PROVE  CardsInv'
<1>1. /\ req[r] \in Request /\ Doing(req[r]) /\ Names(req[r], Len(tasks))
      /\ (Boarded => Settled(req[r])) /\ req[r].pc = "copyLabels" /\ ReadOnly
  BY ThisRequest DEF CopyLabels, At
<1>2. /\ req[r].op \in CardOps /\ req[r].task \in 1 .. Len(tasks) /\ req[r].next \in 1 .. Len(tasks)
      /\ req[r].next \in TaskIds \cup {NoTask}
  BY <1>1 DEF Doing, Names, Request
<1>3. req[r].task \in DOMAIN tasks /\ tasks[req[r].task] \in Task
  BY <1>2, TaskRows DEF CardsInv
<1>4. PICK labels, b, n : /\ labels = tasks[req[r].task].labels /\ n = req[r].next
                          /\ b = tasks[req[r].task].unchecked
  OBVIOUS
<1>5. labels \subseteq Labels /\ b \in BOOLEAN
  BY <1>3, <1>4 DEF Task
<1>6. CASE End(r)
  BY <1>1, <1>6, EndReadStep
<1>7. CASE ~End(r)
  <2> DEFINE q == [req[r] EXCEPT !.pc = "writeLabels", !.task = n, !.labels = labels,
                                 !.unchecked = b]
  <2>1. req' = [req EXCEPT ![r].pc = "writeLabels", ![r].task = n, ![r].labels = labels,
                           ![r].unchecked = b]
    BY <1>4, <1>7 DEF CopyLabels
  <2>2. req' = [req EXCEPT ![r] = q]
    BY <2>1 DEF CardsInv, TypeOK
  <2>3. "writeLabels" \in Pcs
    BY DEF Pcs
  <2>4. /\ q \in Request /\ q.pc = "writeLabels" /\ q.op = req[r].op /\ q.task = n
        /\ q.status = req[r].status /\ q.row = req[r].row
        /\ q.owned = req[r].owned /\ q.proj = req[r].proj
    BY <1>1, <1>2, <1>4, <1>5, <2>3 DEF Request
  <2> HIDE DEF q
  <2>5. Doing(q) /\ Names(q, Len(tasks))
    BY <1>1, <1>2, <1>4, <2>4 DEF Doing, Names
  <2>6. Boarded => Settled(q)
    BY <1>1, <2>4 DEF Settled
  <2>7. QED
    BY <1>1, <2>2, <2>4, <2>5, <2>6, RequestReads
<1>8. QED
  BY <1>6, <1>7

\* Requests stay where they are while tables are written.
LEMMA TablesWritten ==
    ASSUME CardsInv, UNCHANGED req, tasks' \in Seq(Task), Len(tasks') = Len(tasks),
           boards' \subseteq Projects, lists' \in [Lists -> List], labelLive' \subseteq Labels,
           Boarded => BoardFollowsProject'
    PROVE  CardsInv'
<1>1. TypeOK'
  BY DEF CardsInv, TypeOK
<1>2. \A r \in Reqs : Doing(req'[r]) /\ Names(req'[r], Len(tasks'))
  BY DEF CardsInv
<1>3. Boarded => \A r \in Reqs : Settled(req'[r])
  BY DEF CardsInv
<1>4. QED
  BY <1>1, <1>2, <1>3 DEF CardsInv, Doing, Names, Settled, Boarded

\* A list is archived, and its cards are released.
LEMMA ReleaseCardsStep ==
    ASSUME CardsInv, NEW r \in Reqs, ReleaseCards(r)
    PROVE  CardsInv'
<1>1. /\ req[r] \in Request /\ Doing(req[r]) /\ Names(req[r], Len(tasks))
      /\ (Boarded => Settled(req[r])) /\ req[r].pc = "releaseCards"
  BY ThisRequest DEF ReleaseCards, At
<1>2. PICK l \in Lists : l = req[r].list
  BY <1>1 DEF Doing, Request
<1>3. /\ tasks \in Seq(Task) /\ Len(tasks) \in Nat /\ Len(tasks) <= MaxTasks
      /\ \A t \in DOMAIN tasks : tasks[t] \in Task
      /\ boards \subseteq Projects /\ lists \in [Lists -> List]
  BY TaskRows DEF CardsInv, TypeOK
<1>4. /\ tasks' = [t \in DOMAIN tasks |-> tasks'[t]]
      /\ \A t \in DOMAIN tasks :
           tasks'[t] = IF tasks[t].list = l THEN [tasks[t] EXCEPT !.list = NoList] ELSE tasks[t]
      /\ lists' = [lists EXCEPT ![l].archived = TRUE]
      /\ boards' = boards /\ labelLive' = labelLive
  BY <1>2 DEF ReleaseCards
<1>5. \A t \in DOMAIN tasks :
        /\ tasks'[t] \in Task
        /\ tasks'[t].board = tasks[t].board /\ tasks'[t].proj = tasks[t].proj
  BY <1>3, <1>4 DEF Task
<1>6. tasks' \in Seq(Task) /\ Len(tasks') = Len(tasks) /\ DOMAIN tasks' = DOMAIN tasks
  BY <1>3, <1>4, <1>5, RowsRewritten
<1>7. lists' \in [Lists -> List]
  BY <1>3, <1>4 DEF List
<1>8. Boarded => BoardFollowsProject'
  BY <1>5, <1>6 DEF CardsInv, BoardFollowsProject
<1> DEFINE q == [req[r] EXCEPT !.pc = "writeList", !.archived = "keep"]
<1>9. req' = [req EXCEPT ![r].pc = "writeList", ![r].archived = "keep"]
  BY DEF ReleaseCards
<1>10. req' = [req EXCEPT ![r] = q]
  BY <1>9 DEF CardsInv, TypeOK
<1>11. "writeList" \in Pcs
  BY DEF Pcs
<1>12. /\ q \in Request /\ q.pc = "writeList" /\ q.op = req[r].op /\ q.task = req[r].task
       /\ q.list = req[r].list /\ q.status = req[r].status /\ q.row = req[r].row
       /\ q.owned = req[r].owned /\ q.proj = req[r].proj
  BY <1>1, <1>11 DEF Request
<1> HIDE DEF q
<1>13. Doing(q) /\ Names(q, Len(tasks'))
  BY <1>1, <1>6, <1>12 DEF Doing, Names
<1>14. Boarded => Settled(q) /\ BoardFollowsProject'
  BY <1>1, <1>8, <1>12 DEF Settled
<1>15. Len(tasks) <= Len(tasks') /\ Len(tasks') <= MaxTasks
  BY <1>3, <1>6
<1>16. QED
  BY <1>3, <1>4, <1>6, <1>7, <1>10, <1>12, <1>13, <1>14, <1>15, RequestMoves

\* The other columns of the list are written.
LEMMA WriteListStep ==
    ASSUME CardsInv, NEW r \in Reqs, WriteList(r)
    PROVE  CardsInv'
<1>1. /\ req[r] \in Request /\ Doing(req[r]) /\ req[r].pc = "writeList" /\ OnlyLists /\ End(r)
  BY ThisRequest DEF WriteList, At
<1>2. PICK l \in Lists : l = req[r].list
  BY <1>1 DEF Doing, Request
<1>3. /\ tasks \in Seq(Task) /\ Len(tasks) \in Nat /\ Len(tasks) <= MaxTasks
      /\ boards \subseteq Projects /\ lists \in [Lists -> List] /\ lists[l] \in List
  BY TaskRows DEF CardsInv, TypeOK
<1>4. PICK archived : archived = IF req[r].archived = "keep" THEN lists[l].archived
                                 ELSE req[r].archived = "yes"
  OBVIOUS
<1>5. archived \in BOOLEAN
  <2>1. lists[l].archived \in BOOLEAN
    BY <1>3 DEF List
  <2>2. QED
    BY <1>4, <2>1
<1>6. PICK maps : maps = IF req[r].status = "keep" THEN lists[l].maps ELSE req[r].status
  OBVIOUS
<1>7. maps \in Statuses \cup {"none"}
  BY <1>1, <1>3, <1>6 DEF List, Request
<1>8. lists' = [lists EXCEPT ![l].archived = archived, ![l].maps = maps]
  BY <1>2, <1>3, <1>4, <1>6 DEF WriteList, List
<1>9. lists' \in [Lists -> List]
  BY <1>3, <1>5, <1>7, <1>8 DEF List
<1>10. /\ tasks' \in Seq(Task) /\ Len(tasks) <= Len(tasks') /\ Len(tasks') <= MaxTasks
       /\ boards' \subseteq Projects /\ labelLive' = labelLive
       /\ Boarded => BoardFollowsProject'
  BY <1>1, <1>3 DEF OnlyLists, CardsInv, BoardFollowsProject
<1>11. QED
  BY <1>1, <1>9, <1>10, EndStep

\* A list or a label is made, or a label is deleted.
LEMMA TablesStep ==
    ASSUME CardsInv, CreateList \/ CreateLabel \/ DeleteLabel
    PROVE  CardsInv'
<1>1. /\ tasks \in Seq(Task) /\ \A t \in DOMAIN tasks : tasks[t] \in Task
      /\ boards \subseteq Projects /\ lists \in [Lists -> List] /\ labelLive \subseteq Labels
  BY TaskRows DEF CardsInv, TypeOK
<1>2. CASE CreateList
  <2>1. lists' \in [Lists -> List] /\ OnlyLists /\ UNCHANGED req
    BY <1>1, <1>2 DEF CreateList, List
  <2>2. /\ tasks' \in Seq(Task) /\ Len(tasks') = Len(tasks) /\ boards' \subseteq Projects
        /\ labelLive' \subseteq Labels /\ (Boarded => BoardFollowsProject')
    BY <1>1, <2>1 DEF OnlyLists, CardsInv, BoardFollowsProject
  <2>3. QED
    BY <2>1, <2>2, TablesWritten
<1>3. CASE CreateLabel
  <2>1. labelLive' \subseteq Labels /\ UNCHANGED <<tasks, boards, lists, req>>
    BY <1>1, <1>3 DEF CreateLabel
  <2>2. /\ tasks' \in Seq(Task) /\ Len(tasks') = Len(tasks) /\ boards' \subseteq Projects
        /\ lists' \in [Lists -> List] /\ (Boarded => BoardFollowsProject')
    BY <1>1, <2>1 DEF CardsInv, BoardFollowsProject
  <2>3. QED
    BY <2>1, <2>2, TablesWritten
<1>4. CASE DeleteLabel
  <2>1. PICK x \in labelLive :
          /\ labelLive' = labelLive \ {x}
          /\ tasks' = [t \in DOMAIN tasks |-> [tasks[t] EXCEPT !.labels = @ \ {x}]]
    BY <1>4 DEF DeleteLabel
  <2>2. UNCHANGED <<boards, lists, req>> /\ labelLive' \subseteq Labels
    BY <1>1, <1>4, <2>1 DEF DeleteLabel
  <2>3. \A t \in DOMAIN tasks :
          /\ tasks'[t] \in Task
          /\ tasks'[t].board = tasks[t].board /\ tasks'[t].proj = tasks[t].proj
    BY <1>1, <2>1 DEF Task
  <2>4. tasks' = [t \in DOMAIN tasks |-> tasks'[t]]
    BY <2>1
  <2>5. tasks' \in Seq(Task) /\ Len(tasks') = Len(tasks) /\ DOMAIN tasks' = DOMAIN tasks
    BY <1>1, <2>3, <2>4, RowsRewritten
  <2>6. Boarded => BoardFollowsProject'
    BY <2>3, <2>5 DEF CardsInv, BoardFollowsProject
  <2>7. boards' \subseteq Projects /\ lists' \in [Lists -> List] /\ UNCHANGED req
    BY <1>1, <2>2
  <2>8. QED
    BY <2>2, <2>5, <2>6, <2>7, TablesWritten
<1>5. QED
  BY <1>2, <1>3, <1>4

\* The requests at rest and the tasks from before boards.
LEMMA CardsStart == Init => CardsInv
<1> SUFFICES ASSUME Init PROVE CardsInv
  OBVIOUS
<1>1. Idle \in Request /\ Doing(Idle) /\ Names(Idle, Len(tasks)) /\ Settled(Idle)
  BY IdleRequest DEF Doing, Names, Settled, CardOps, PatchOps, CreateOps
<1>2. req = [r \in Reqs |-> Idle] /\ boards = {} /\ labelLive = {}
  BY DEF Init
<1>3. lists \in [Lists -> List]
  BY DEF Init, List
<1>4. PICK n \in 0 .. Orphans : tasks \in [1 .. n -> OldRows]
  BY DEF Init
<1>5. n \in Nat /\ n <= MaxTasks
  BY CardsAssumption
<1>6. OldRows \subseteq Task
  BY DEF OldRows
<1>7. tasks \in [1 .. n -> Task]
  BY <1>4, <1>6
<1>8. tasks \in Seq(Task)
  BY <1>5, <1>7, SeqDef
<1>9. Len(tasks) = n
  BY <1>5, <1>7, <1>8, LenProperties
<1>10. TypeOK
  BY <1>1, <1>2, <1>3, <1>5, <1>8, <1>9 DEF TypeOK
<1>11. ASSUME Boarded PROVE BoardFollowsProject
  <2>1. n = 0
    BY <1>11 DEF Boarded
  <2>2. DOMAIN tasks = {}
    BY <1>7, <2>1
  <2>3. QED
    BY <2>2 DEF BoardFollowsProject
<1>12. QED
  BY <1>1, <1>2, <1>10, <1>11 DEF CardsInv

\* Every step of every operation keeps the invariant.
LEMMA CardsStep == CardsInv /\ [Next]_vars => CardsInv'
<1> SUFFICES ASSUME CardsInv, [Next]_vars PROVE CardsInv'
  OBVIOUS
<1>1. CASE UNCHANGED vars
  <2>1. UNCHANGED req /\ ReadOnly
    BY <1>1 DEF vars, ReadOnly, OnlyTasks
  <2>2. /\ tasks' \in Seq(Task) /\ Len(tasks') = Len(tasks) /\ boards' \subseteq Projects
        /\ lists' \in [Lists -> List] /\ labelLive' \subseteq Labels
        /\ Boarded => BoardFollowsProject'
    BY <2>1, ReadsStay DEF ReadOnly, OnlyTasks, CardsInv, TypeOK
  <2>3. QED
    BY <2>1, <2>2, TablesWritten
<1>2. CASE CreateList \/ CreateLabel \/ DeleteLabel
  BY <1>2, TablesStep
<1>3. ASSUME NEW r \in Reqs,
             \/ ArriveCard(r) \/ ArrivePatch(r) \/ ArriveCreate(r) \/ ArriveOpen(r)
             \/ ArriveUpdateList(r)
      PROVE  CardsInv'
  BY <1>3, ArriveOnTaskStep, ArriveElseStep
<1>4. ASSUME NEW r \in Reqs, Access(r) PROVE CardsInv'
  BY <1>4, ReadCardStep, EnsureStep, SeedStep, AdoptStep, GatherStep, ReadListStep DEF Access
<1>5. ASSUME NEW r \in Reqs, Work(r) PROVE CardsInv'
  BY <1>5, FindStep, CheckLabelsStep, InsertStep, ReadTaskStep, ClearLabelsStep, WriteStep,
     WriteLabelsStep, SpawnStep, CopyLabelsStep, ReleaseCardsStep, WriteListStep DEF Work
<1>6. ASSUME NEW r \in Reqs, RequestFails(r) PROVE CardsInv'
  BY <1>6, EndReadStep DEF RequestFails
<1>7. QED
  BY <1>1, <1>2, <1>3, <1>4, <1>5, <1>6 DEF Next

-----------------------------------------------------------------------------
(* One request at a time: the places of the tasks. *)

OneAtATime == \A r, s \in Reqs : r = s

\* A row is on the board of its project if on any, and its list is a list of that board.
RowFits(row, ls) ==
  /\ row.board # NoBoard => row.board = row.proj
  /\ row.list # NoList => ls[row.list].live /\ ListOf[row.list] = row.board

\* What a request holds fits the tables, as long as no other one writes them.
Places(q, ts, ls) ==
  /\ RowFits(q.row, ls)
  /\ q.op \in CreateOps => q.row.proj = q.proj /\ q.row.board = q.proj
  /\ q.op = "createIn" /\ q.pc = "readList" => ListOf[q.list] = q.proj
  /\ q.op = "newTask" => q.row.list = NoList
  /\ q.op \in CardOps /\ q.pc \in {"ensure", "seed", "adopt"} => ts[q.task].proj = q.proj
  /\ q.pc = "seed" => \A t \in DOMAIN ts, s \in Statuses :
                        <<t, s>> \in q.owned => ts[t].proj = q.proj /\ ts[t].board = NoBoard
  /\ q.pc \in {"findList", "findDone"} => ts[q.task].board = q.row.board
  /\ q.pc = "write" /\ q.op \in {"move", "complete", "replay"} /\ q.list # NoList =>
       ls[q.list].live /\ ListOf[q.list] = ts[q.task].board
  /\ q.pc \in {"releaseCards", "writeList"} => ls[q.list].live
  /\ q.pc = "writeList" /\ q.archived = "yes" => ls[q.list].archived

SerialInv ==
  /\ \A t \in DOMAIN tasks : RowFits(tasks[t], lists)
  /\ \A r \in Reqs : Places(req[r], tasks, lists)


\* The one request and the rows fit again.
LEMMA SerialMoves ==
    ASSUME OneAtATime, NEW r \in Reqs, \A t \in DOMAIN tasks' : RowFits(tasks'[t], lists'),
           Places(req'[r], tasks', lists')
    PROVE  SerialInv'
<1>1. \A s \in Reqs : s = r
  BY DEF OneAtATime
<1>2. QED
  BY <1>1 DEF SerialInv, Places, RowFits

\* The one request fits again, having read only.
LEMMA SerialReads ==
    ASSUME OneAtATime, NEW r \in Reqs, SerialInv, ReadOnly, Places(req'[r], tasks, lists)
    PROVE  SerialInv'
<1>1. tasks' = tasks /\ lists' = lists
  BY DEF ReadOnly, OnlyTasks
<1>2. Places(req'[r], tasks', lists') /\ \A t \in DOMAIN tasks' : RowFits(tasks'[t], lists')
  BY <1>1 DEF SerialInv
<1>3. QED
  BY <1>2, SerialMoves

\* A request at rest fits any tables.
LEMMA IdlePlaces ==
    ASSUME NEW ts, NEW ls
    PROVE  Places(Idle, ts, ls)
<1>1. /\ Idle.op = "none" /\ Idle.pc = "idle" /\ Idle.row.board = Idle.row.proj
      /\ Idle.row.list = NoList
  BY IdleRequest
<1>2. QED
  BY <1>1 DEF Places, RowFits, CardOps, CreateOps

\* What a step to pc leaves of a request.
LEMMA GotoKeeps ==
    ASSUME CardsInv, NEW r \in Reqs, NEW pc, Goto(r, pc)
    PROVE  /\ req'[r].pc = pc /\ req'[r].op = req[r].op /\ req'[r].task = req[r].task
           /\ req'[r].next = req[r].next /\ req'[r].proj = req[r].proj /\ req'[r].list = req[r].list
           /\ req'[r].labels = req[r].labels /\ req'[r].archived = req[r].archived
           /\ req'[r].row = req[r].row /\ req'[r].owned = req[r].owned
           /\ req'[r].unchecked = req[r].unchecked
<1>1. req \in [Reqs -> Request] /\ req[r] \in Request
  BY DEF CardsInv, TypeOK
<1>2. req'[r] = [req[r] EXCEPT !.pc = pc]
  BY <1>1 DEF Goto
<1>3. QED
  BY <1>1, <1>2 DEF Request

\* The request ends and the rows fit.
LEMMA SerialEnds ==
    ASSUME CardsInv, OneAtATime, NEW r \in Reqs, End(r),
           \A t \in DOMAIN tasks' : RowFits(tasks'[t], lists')
    PROVE  SerialInv'
<1>1. req'[r] = Idle
  BY DEF End, CardsInv, TypeOK
<1>2. Places(req'[r], tasks', lists')
  BY <1>1, IdlePlaces
<1>3. QED
  BY <1>2, SerialMoves

\* The request ends, having read only.
LEMMA SerialEndsRead ==
    ASSUME CardsInv, SerialInv, OneAtATime, NEW r \in Reqs, End(r), ReadOnly
    PROVE  SerialInv'
<1>1. \A t \in DOMAIN tasks' : RowFits(tasks'[t], lists')
  BY DEF SerialInv, ReadOnly, OnlyTasks
<1>2. QED
  BY <1>1, SerialEnds

\* Where a row fits, it fits when more lists are live.
LEMMA FitsStay ==
    ASSUME NEW row \in Task, NEW ls, NEW later, RowFits(row, ls),
           \A l \in Lists : ls[l].live => later[l].live
    PROVE  RowFits(row, later)
BY DEF RowFits, Task

\* A task without a board is in no list.
LEMMA NoBoardNoList ==
    ASSUME NEW row \in Task, NEW ls, RowFits(row, ls), row.board = NoBoard
    PROVE  row.list = NoList
<1>1. row.list \in Lists => ListOf[row.list] \in Projects
  BY CardsAssumption
<1>2. QED
  BY <1>1, CardsAssumption DEF RowFits, Task

\* A request arrives with nothing that depends on the tables.
Arrived(q) ==
  /\ q.pc \in {"readCard", "readTask", "ensure", "readList"}
  /\ q.row.list = NoList /\ q.row.board = q.row.proj /\ q.row.labels = {}
  /\ q.op \in CreateOps => q.row.proj = q.proj
  /\ q.op = "createIn" /\ q.pc = "readList" => ListOf[q.list] = q.proj
  /\ q.op \in CardOps => q.pc = "readCard"

\* That is how requests arrive.
LEMMA Arrivals ==
    ASSUME CardsInv, NEW r \in Reqs,
           \/ ArriveCard(r) \/ ArrivePatch(r) \/ ArriveCreate(r) \/ ArriveOpen(r)
           \/ ArriveUpdateList(r)
    PROVE  ReadOnly /\ Arrived(req'[r])
<1>1. /\ Idle \in Request /\ Idle.row.board = Idle.row.proj /\ Idle.row.list = NoList
      /\ Idle.row.labels = {} /\ req \in [Reqs -> Request]
  BY IdleRequest DEF CardsInv, TypeOK
<1>2. ASSUME NEW q, Arrive(r, q), Arrived(q)
      PROVE  ReadOnly /\ Arrived(req'[r])
  <2>1. req'[r] = q /\ ReadOnly
    BY <1>1, <1>2 DEF Arrive
  <2>2. QED
    BY <1>2, <2>1
<1>3. CASE ArriveCard(r)
  <2>1. PICK t \in DOMAIN tasks, op \in CardOps, l \in Lists \cup {NoList}, S \in SUBSET Labels :
          Arrive(r, [Idle EXCEPT !.op = op, !.pc = "readCard", !.task = t, !.list = l, !.labels = S])
    BY <1>3 DEF ArriveCard
  <2> DEFINE q == [Idle EXCEPT !.op = op, !.pc = "readCard", !.task = t, !.list = l, !.labels = S]
  <2>2. q.op = op /\ q.pc = "readCard" /\ q.row = Idle.row
    BY <1>1 DEF Request
  <2> HIDE DEF q
  <2>3. Arrived(q)
    BY <1>1, <2>2 DEF Arrived, CardOps, CreateOps
  <2>4. QED
    BY <1>2, <2>1, <2>3 DEF q
<1>4. CASE ArrivePatch(r)
  <2>1. PICK t \in DOMAIN tasks, op \in PatchOps, p \in Projects, S \in SUBSET Labels,
             s \in PatchStatuses \cup {"keep"}, n \in PatchRepeats \cup {-1} :
          Arrive(r, [Idle EXCEPT !.op = op, !.pc = "readTask", !.task = t, !.proj = p,
                                 !.labels = S, !.status = s, !.repeat = n])
    BY <1>4 DEF ArrivePatch
  <2> DEFINE q == [Idle EXCEPT !.op = op, !.pc = "readTask", !.task = t, !.proj = p,
                               !.labels = S, !.status = s, !.repeat = n]
  <2>2. q.op = op /\ q.pc = "readTask" /\ q.row = Idle.row
    BY <1>1 DEF Request
  <2> HIDE DEF q
  <2>3. Arrived(q)
    BY <1>1, <2>2 DEF Arrived, CardOps, CreateOps, PatchOps
  <2>4. QED
    BY <1>2, <2>1, <2>3 DEF q
<1>5. CASE ArriveCreate(r)
  <2>1. PICK op \in CreateOps, p \in Projects, l \in Lists \cup {NoList}, S \in SUBSET Labels,
             k \in Kinds, n \in 0 .. MaxRepeat :
          /\ op = "createIn" <=> l # NoList
          /\ op = "createIn" => p = ListOf[l]
          /\ op # "newTask" => k = "TASK"
          /\ Arrive(r, [Idle EXCEPT !.op = op, !.pc = IF l = NoList THEN "ensure" ELSE "readList",
                                    !.proj = p, !.list = l, !.labels = S,
                                    !.row = [NewRow(p) EXCEPT !.kind = k, !.remaining = n]])
    BY <1>5 DEF ArriveCreate
  <2>2. PICK row : row = [NewRow(p) EXCEPT !.kind = k, !.remaining = n]
    OBVIOUS
  <2>3. row.proj = p /\ row.board = p /\ row.list = NoList /\ row.labels = {}
    BY <2>2 DEF NewRow
  <2>4. PICK pc : pc = IF l = NoList THEN "ensure" ELSE "readList"
    OBVIOUS
  <2> DEFINE arrived == [Idle EXCEPT !.op = op, !.pc = pc, !.proj = p]
             q == [arrived EXCEPT !.list = l, !.labels = S, !.row = row]
  <2>5. Arrive(r, q)
    BY <2>1, <2>2, <2>4
  <2>6. q.op = op /\ q.pc = pc /\ q.row = row /\ q.proj = p /\ q.list = l
    BY <1>1 DEF Request
  <2> HIDE DEF q, arrived
  <2>7. pc \in {"ensure", "readList"}
    BY <2>4
  <2>8. Arrived(q)
    BY <2>1, <2>3, <2>6, <2>7 DEF Arrived, CardOps, CreateOps
  <2>9. QED
    BY <1>2, <2>5, <2>8
<1>6. CASE ArriveOpen(r)
  <2>1. PICK p \in Projects : Arrive(r, [Idle EXCEPT !.op = "open", !.pc = "ensure", !.proj = p])
    BY <1>6 DEF ArriveOpen
  <2> DEFINE q == [Idle EXCEPT !.op = "open", !.pc = "ensure", !.proj = p]
  <2>2. q.op = "open" /\ q.pc = "ensure" /\ q.row = Idle.row
    BY <1>1 DEF Request
  <2> HIDE DEF q
  <2>3. Arrived(q)
    BY <1>1, <2>2 DEF Arrived, CardOps, CreateOps
  <2>4. QED
    BY <1>2, <2>1, <2>3 DEF q
<1>7. CASE ArriveUpdateList(r)
  <2>1. PICK l \in Lists, b \in ListBodies :
          Arrive(r, [Idle EXCEPT !.op = "updateList", !.pc = "readList", !.list = l,
                                 !.archived = b.archived, !.status = b.maps])
    BY <1>7 DEF ArriveUpdateList
  <2> DEFINE q == [Idle EXCEPT !.op = "updateList", !.pc = "readList", !.list = l,
                               !.archived = b.archived, !.status = b.maps]
  <2>2. q.op = "updateList" /\ q.pc = "readList" /\ q.row = Idle.row
    BY <1>1 DEF Request
  <2> HIDE DEF q
  <2>3. Arrived(q)
    BY <1>1, <2>2 DEF Arrived, CardOps, CreateOps
  <2>4. QED
    BY <1>2, <2>1, <2>3 DEF q
<1>8. QED
  BY <1>3, <1>4, <1>5, <1>6, <1>7

\* A request that arrives depends on nothing that the tables hold.
LEMMA ArrivePlaces ==
    ASSUME CardsInv, SerialInv, OneAtATime, NEW r \in Reqs,
           \/ ArriveCard(r) \/ ArrivePatch(r) \/ ArriveCreate(r) \/ ArriveOpen(r)
           \/ ArriveUpdateList(r)
    PROVE  SerialInv'
<1>1. ReadOnly /\ Arrived(req'[r])
  BY Arrivals
<1>2. Places(req'[r], tasks, lists)
  BY <1>1 DEF Arrived, Places, RowFits, CardOps, CreateOps
<1>3. QED
  BY <1>1, <1>2, SerialReads

\* requireCard returns the card as it now stands.
LEMMA AfterCardPlaces ==
    ASSUME CardsInv, SerialInv, OneAtATime, NEW r \in Reqs, req[r].op \in CardOps,
           NEW row, AfterCard(r, row), req[r].task \in DOMAIN tasks', tasks'[req[r].task] = row,
           \A t \in DOMAIN tasks' : RowFits(tasks'[t], lists')
    PROVE  SerialInv'
<1>1. req \in [Reqs -> Request] /\ req[r] \in Request
  BY DEF CardsInv, TypeOK
<1>2. CASE End(r)
  BY <1>2, SerialEnds
<1>3. CASE ~End(r)
  <2>1. PICK pc : pc = CASE req[r].op = "move" -> "findList"
                         [] req[r].op \in {"complete", "replay"} -> "findDone"
                         [] req[r].op \in {"setLabels", "addLabel"} -> "checkLabels"
                         [] OTHER -> "write"
    OBVIOUS
  <2>2. req'[r] = [req[r] EXCEPT !.pc = pc, !.row = row, !.status = row.status]
    BY <1>1, <1>3, <2>1 DEF AfterCard
  <2>3. /\ req'[r].pc = pc /\ req'[r].row = row /\ req'[r].op = req[r].op
        /\ req'[r].task = req[r].task
    BY <1>1, <2>2 DEF Request
  <2>4. /\ pc \in {"findList", "findDone", "checkLabels", "write"}
        /\ pc = "write" => req[r].op \notin {"move", "complete", "replay"}
    BY <2>1
  <2>5. RowFits(row, lists')
    OBVIOUS
  <2>6. Places(req'[r], tasks', lists')
    BY <2>3, <2>4, <2>5 DEF Places, CardOps, CreateOps
  <2>7. QED
    BY <2>6, SerialMoves
<1>4. QED
  BY <1>2, <1>3

\* requireCard reads the card.
LEMMA ReadCardPlaces ==
    ASSUME CardsInv, SerialInv, OneAtATime, NEW r \in Reqs, ReadCard(r)
    PROVE  SerialInv'
<1> DEFINE row == tasks[req[r].task]
<1>1. /\ req[r] \in Request /\ req \in [Reqs -> Request] /\ Doing(req[r])
      /\ Names(req[r], Len(tasks)) /\ Places(req[r], tasks, lists)
  BY ThisRequest DEF CardsInv, TypeOK, SerialInv
<1>2. /\ req[r].pc = "readCard" /\ req[r].op \in CardOps /\ req[r].task \in DOMAIN tasks
      /\ ReadOnly /\ tasks' = tasks /\ lists' = lists
  BY <1>1, TaskRows DEF ReadCard, At, Doing, Names, CardsInv, ReadOnly, OnlyTasks
<1>3. \A t \in DOMAIN tasks' : RowFits(tasks'[t], lists')
  BY <1>2 DEF SerialInv
<1>4. CASE End(r)
  BY <1>2, <1>4, SerialEndsRead
<1>5. CASE AfterCard(r, row)
  <2>1. req[r].task \in DOMAIN tasks' /\ tasks'[req[r].task] = row
    BY <1>2
  <2> HIDE DEF row
  <2>2. QED
    BY <1>2, <1>3, <1>5, <2>1, AfterCardPlaces
<1>6. CASE req' = [req EXCEPT ![r].pc = "ensure", ![r].proj = row.proj]
  <2>1. PICK p : p = row.proj
    OBVIOUS
  <2>2. req'[r] = [req[r] EXCEPT !.pc = "ensure", !.proj = p]
    BY <1>1, <1>6, <2>1
  <2>3. /\ req'[r].pc = "ensure" /\ req'[r].proj = p /\ req'[r].op = req[r].op
        /\ req'[r].row = req[r].row /\ req'[r].task = req[r].task
    BY <1>1, <2>2 DEF Request
  <2>4. Places(req'[r], tasks, lists)
    BY <1>1, <1>2, <2>1, <2>3 DEF Places, CardOps, CreateOps
  <2>5. QED
    BY <1>2, <2>4, SerialReads
<1>7. QED
  BY <1>4, <1>5, <1>6 DEF ReadCard

\* The board exists: the next step uses what was known before.
LEMMA EnsuredPlaces ==
    ASSUME CardsInv, SerialInv, OneAtATime, NEW r \in Reqs, NEW created \in BOOLEAN,
           Ensured(r, created), req[r].pc \in {"ensure", "seed"},
           \A t \in DOMAIN tasks' : RowFits(tasks'[t], lists'),
           DOMAIN tasks' = DOMAIN tasks, \A t \in DOMAIN tasks : tasks'[t].proj = tasks[t].proj,
           \A l \in Lists : lists[l].live => lists'[l].live
    PROVE  SerialInv'
<1>1. /\ req[r] \in Request /\ Doing(req[r]) /\ Names(req[r], Len(tasks))
      /\ Places(req[r], tasks, lists)
  BY ThisRequest DEF SerialInv
<1>2. req[r].op \in CardOps \cup CreateOps \cup {"open", "moveProject"}
  BY <1>1 DEF Doing
<1>3. CASE End(r)
  BY <1>3, SerialEnds
<1>4. CASE ~End(r)
  <2>1. PICK pc \in {"adopt", "gather", "checkLabels", "clearLabels"} : Goto(r, pc)
    BY <1>2, <1>4 DEF Ensured
  <2>2. /\ req'[r].pc = pc /\ req'[r].op = req[r].op /\ req'[r].task = req[r].task
        /\ req'[r].proj = req[r].proj /\ req'[r].row = req[r].row
    BY <2>1, GotoKeeps
  <2>3. req[r].row \in Task /\ RowFits(req[r].row, lists)
    BY <1>1 DEF Request, Places
  <2>4. RowFits(req[r].row, lists')
    BY <2>3, FitsStay
  <2>5. req[r].op \in CardOps => req[r].task \in DOMAIN tasks
    BY <1>1, TaskRows DEF Names, CardsInv
  <2>6. Places(req'[r], tasks', lists')
    BY <1>1, <2>1, <2>2, <2>4, <2>5 DEF Places
  <2>7. QED
    BY <2>6, SerialMoves
<1>5. QED
  BY <1>3, <1>4

\* ensureBoard looks for the board, and reads the tasks that a new one takes.
LEMMA EnsurePlaces ==
    ASSUME CardsInv, SerialInv, OneAtATime, NEW r \in Reqs, Ensure(r)
    PROVE  SerialInv'
<1>1. /\ req[r] \in Request /\ req \in [Reqs -> Request] /\ Places(req[r], tasks, lists)
  BY DEF CardsInv, TypeOK, SerialInv
<1>2. req[r].pc = "ensure" /\ ReadOnly /\ tasks' = tasks /\ lists' = lists
  BY DEF Ensure, At, ReadOnly, OnlyTasks
<1>3. CASE Ensured(r, FALSE)
  <2>1. \A t \in DOMAIN tasks' : RowFits(tasks'[t], lists')
    BY <1>2 DEF SerialInv
  <2>2. FALSE \in BOOLEAN
    OBVIOUS
  <2>3. QED
    BY <1>2, <1>3, <2>1, <2>2, EnsuredPlaces
<1>4. CASE ~Ensured(r, FALSE)
  <2>1. PICK owned : owned = {<<t, tasks[t].status>> : t \in Orphaned(req[r].proj)}
    OBVIOUS
  <2>2. req'[r] = [req[r] EXCEPT !.pc = "seed", !.owned = owned]
    BY <1>1, <1>4, <2>1 DEF Ensure
  <2>3. /\ req'[r].pc = "seed" /\ req'[r].op = req[r].op /\ req'[r].task = req[r].task
        /\ req'[r].proj = req[r].proj /\ req'[r].row = req[r].row /\ req'[r].owned = owned
    BY <1>1, <2>2 DEF Request
  <2>4. \A t \in DOMAIN tasks, s \in Statuses :
          <<t, s>> \in owned => tasks[t].proj = req[r].proj /\ tasks[t].board = NoBoard
    BY <2>1 DEF Orphaned
  <2>5. Places(req'[r], tasks, lists)
    BY <1>1, <1>2, <2>3, <2>4 DEF Places
  <2>6. QED
    BY <1>2, <2>5, SerialReads
<1>5. QED
  BY <1>3, <1>4

\* A task that a new board takes is in a list of that board, or in none.
LEMMA SeededFits ==
    ASSUME NEW row \in Task, NEW p \in Projects, row.proj = p, NEW status, NEW ls,
           ls[DefaultList(p)].live
    PROVE  RowFits(Seeded(row, p, status), ls) /\ Seeded(row, p, status).proj = p
BY DefaultListOn DEF RowFits, Seeded, Task

\* The board is made, or turns out to be there.
LEMMA SeedPlaces ==
    ASSUME CardsInv, SerialInv, OneAtATime, NEW r \in Reqs, Seed(r)
    PROVE  SerialInv'
<1>1. req[r] \in Request /\ Places(req[r], tasks, lists)
  BY DEF CardsInv, TypeOK, SerialInv
<1>2. req[r].pc = "seed" /\ Ensured(r, TRUE) /\ TRUE \in BOOLEAN
  BY DEF Seed, At
<1>3. CASE ReadOnly
  <2>1. tasks' = tasks /\ lists' = lists
    BY <1>3 DEF ReadOnly, OnlyTasks
  <2>2. \A t \in DOMAIN tasks' : RowFits(tasks'[t], lists')
    BY <2>1 DEF SerialInv
  <2>3. QED
    BY <1>2, <2>1, <2>2, EnsuredPlaces
<1>4. CASE createWithDefaults(req[r].proj, req[r].owned)
  <2>1. PICK p \in Projects : p = req[r].proj
    BY <1>1 DEF Request
  <2>2. PICK owned : owned = req[r].owned
    OBVIOUS
  <2>3. createWithDefaults(p, owned)
    BY <1>4, <2>1, <2>2
  <2>4. lists \in [Lists -> List] /\ \A t \in DOMAIN tasks : tasks[t] \in Task
    BY TaskRows DEF CardsInv, TypeOK
  <2>5. DOMAIN tasks' = DOMAIN tasks
    BY <2>3 DEF createWithDefaults
  <2>6. \A t \in DOMAIN tasks :
             tasks'[t] = IF \E s \in Statuses : <<t, s>> \in owned
                         THEN Seeded(tasks[t], p, IF <<t, "TODO">> \in owned THEN "TODO" ELSE "DONE")
                         ELSE tasks[t]
    BY <2>3 DEF createWithDefaults
  <2>7. lists'[DefaultList(p)].live /\ \A l \in Lists : lists[l].live => lists'[l].live
    BY <2>3, <2>4, DefaultListOn DEF createWithDefaults
  <2>8. ASSUME NEW t \in DOMAIN tasks
        PROVE  RowFits(tasks'[t], lists') /\ tasks'[t].proj = tasks[t].proj
    <3>1. CASE \E s \in Statuses : <<t, s>> \in owned
      <4>1. tasks[t].proj = p /\ tasks[t] \in Task
        BY <1>1, <1>2, <2>1, <2>2, <2>4, <3>1 DEF Places
      <4>2. PICK status : tasks'[t] = Seeded(tasks[t], p, status)
        BY <2>6, <3>1
      <4>3. QED
        BY <2>7, <4>1, <4>2, SeededFits
    <3>2. CASE ~\E s \in Statuses : <<t, s>> \in owned
      <4>1. tasks'[t] = tasks[t] /\ tasks[t] \in Task /\ RowFits(tasks[t], lists)
        BY <2>4, <2>6, <3>2 DEF SerialInv
      <4>2. RowFits(tasks[t], lists')
        BY <2>7, <4>1, FitsStay
      <4>3. QED
        BY <4>1, <4>2
    <3>3. QED
      BY <3>1, <3>2
  <2>9. QED
    BY <1>2, <2>5, <2>7, <2>8, EnsuredPlaces
<1>5. QED
  BY <1>3, <1>4 DEF Seed

\* A row that keeps its project, its board and its list fits where it did.
LEMMA SameFits ==
    ASSUME NEW row, NEW new, NEW ls, RowFits(row, ls),
           new.proj = row.proj, new.board = row.board, new.list = row.list
    PROVE  RowFits(new, ls)
BY DEF RowFits

\* requireCard puts the card on the board of its project.
LEMMA AdoptPlaces ==
    ASSUME CardsInv, SerialInv, OneAtATime, NEW r \in Reqs, Adopt(r)
    PROVE  SerialInv'
<1>1. /\ req[r] \in Request /\ Doing(req[r]) /\ Names(req[r], Len(tasks))
      /\ Places(req[r], tasks, lists) /\ req[r].pc = "adopt" /\ OnlyTasks
  BY ThisRequest DEF SerialInv, Adopt, At
<1>2. req[r].op \in CardOps
  BY <1>1 DEF Doing
<1>3. PICK t \in 1 .. Len(tasks) : t = req[r].task
  BY <1>1, <1>2 DEF Names
<1>4. PICK p \in Projects : p = req[r].proj
  BY <1>1 DEF Request
<1>5. /\ tasks \in Seq(Task) /\ t \in DOMAIN tasks /\ tasks[t] \in Task
      /\ RowFits(tasks[t], lists) /\ tasks[t].proj = p
  BY <1>1, <1>2, <1>3, <1>4, TaskRows DEF CardsInv, TypeOK, SerialInv, Places
<1>6. PICK row : row = [tasks[t] EXCEPT !.board = p]
  OBVIOUS
<1>7. row \in Task /\ row.board = p /\ row.proj = p /\ row.list = tasks[t].list
  BY <1>5, <1>6 DEF Task
<1>8. RowFits(row, lists)
  <2>1. CASE tasks[t].board = NoBoard
    <3>1. tasks[t].list = NoList
      BY <1>5, <2>1, NoBoardNoList
    <3>2. QED
      BY <1>7, <3>1 DEF RowFits
  <2>2. CASE tasks[t].board # NoBoard
    <3>1. tasks[t].board = p
      BY <1>5, <2>2 DEF RowFits
    <3>2. QED
      BY <1>5, <1>7, <3>1, SameFits
  <2>3. QED
    BY <2>1, <2>2
<1>9. tasks' = [tasks EXCEPT ![t] = row] /\ AfterCard(r, row) /\ lists' = lists
  BY <1>3, <1>4, <1>6 DEF Adopt, OnlyTasks
<1>10. /\ DOMAIN tasks' = DOMAIN tasks
       /\ \A u \in DOMAIN tasks : tasks'[u] = IF u = t THEN row ELSE tasks[u]
  BY <1>5, <1>7, <1>9, OneRow
<1>11. \A u \in DOMAIN tasks' : RowFits(tasks'[u], lists')
  BY <1>8, <1>9, <1>10 DEF SerialInv
<1>12. req[r].task \in DOMAIN tasks' /\ tasks'[req[r].task] = row
  BY <1>3, <1>5, <1>10
<1>13. QED
  BY <1>2, <1>9, <1>11, <1>12, AfterCardPlaces

\* A board that is opened takes the tasks of its project that have none.
LEMMA GatherPlaces ==
    ASSUME CardsInv, SerialInv, OneAtATime, NEW r \in Reqs, Gather(r)
    PROVE  SerialInv'
<1>1. PICK p \in Projects : p = req[r].proj
  BY ThisRequest DEF Request
<1>2. /\ DOMAIN tasks' = DOMAIN tasks /\ lists' = lists /\ End(r)
      /\ \A t \in DOMAIN tasks :
           tasks'[t] = IF t \in Orphaned(p) THEN [tasks[t] EXCEPT !.board = p] ELSE tasks[t]
  BY <1>1 DEF Gather, OnlyTasks
<1>3. ASSUME NEW t \in DOMAIN tasks PROVE RowFits(tasks'[t], lists)
  <2>1. tasks[t] \in Task /\ RowFits(tasks[t], lists)
    BY TaskRows DEF CardsInv, SerialInv
  <2>2. CASE t \in Orphaned(p)
    <3>1. tasks[t].board = NoBoard /\ tasks[t].proj = p
      BY <2>2 DEF Orphaned
    <3>2. tasks[t].list = NoList
      BY <2>1, <3>1, NoBoardNoList
    <3>3. tasks'[t].proj = p /\ tasks'[t].board = p /\ tasks'[t].list = NoList
      BY <1>2, <2>1, <2>2, <3>1, <3>2 DEF Task
    <3>4. QED
      BY <3>3 DEF RowFits
  <2>3. CASE t \notin Orphaned(p)
    BY <1>2, <2>1, <2>3
  <2>4. QED
    BY <2>2, <2>3
<1>4. QED
  BY <1>2, <1>3, SerialEnds

\* The list is there: a new card goes into it, an update of it goes on.
LEMMA ReadListPlaces ==
    ASSUME CardsInv, SerialInv, OneAtATime, NEW r \in Reqs, ReadList(r)
    PROVE  SerialInv'
<1>1. /\ req[r] \in Request /\ Doing(req[r]) /\ Places(req[r], tasks, lists)
      /\ req[r].pc = "readList" /\ ReadOnly
  BY ThisRequest DEF SerialInv, ReadList, At
<1>2. PICK l \in Lists : l = req[r].list
  BY <1>1 DEF Doing, Request
<1>3. req[r].op \in {"createIn", "updateList"}
  BY <1>1 DEF Doing
<1>4. CASE End(r)
  BY <1>1, <1>4, SerialEndsRead
<1>5. CASE ~End(r) /\ req[r].op = "updateList"
  <2>1. PICK pc : /\ pc = IF req[r].archived = "yes" /\ ~lists[l].archived THEN "releaseCards"
                                                                           ELSE "writeList"
                  /\ Goto(r, pc) /\ lists[l].live
    BY <1>2, <1>5 DEF ReadList
  <2>2. /\ req'[r].pc = pc /\ req'[r].op = req[r].op /\ req'[r].row = req[r].row
        /\ req'[r].list = l /\ req'[r].archived = req[r].archived
    BY <1>2, <2>1, GotoKeeps
  <2>3. pc \in {"releaseCards", "writeList"} /\ (pc = "writeList" /\ req[r].archived = "yes" => lists[l].archived)
    BY <2>1
  <2>4. Places(req'[r], tasks, lists)
    BY <1>1, <1>5, <2>1, <2>2, <2>3 DEF Places, CardOps, CreateOps
  <2>5. QED
    BY <1>1, <2>4, SerialReads
<1>6. CASE ~End(r) /\ req[r].op = "createIn"
  <2>1. /\ req[r].row \in Task /\ lists[l] \in List /\ req \in [Reqs -> Request]
    BY <1>1 DEF Request, CardsInv, TypeOK
  <2>2. PICK row : row = [req[r].row EXCEPT
                            !.list = l, !.status = IF lists[l].maps = "none" THEN @ ELSE lists[l].maps]
    OBVIOUS
  <2>3. row.list = l /\ row.proj = req[r].row.proj /\ row.board = req[r].row.board
    BY <2>1, <2>2 DEF Task
  <2>4. /\ lists[l].live
        /\ req' = [req EXCEPT ![r].pc = "checkLabels", ![r].row.list = l,
                              ![r].row.status = IF lists[l].maps = "none" THEN @ ELSE lists[l].maps]
    BY <1>2, <1>6 DEF ReadList
  <2>5. req'[r] = [req[r] EXCEPT !.pc = "checkLabels", !.row = row]
    BY <1>1, <2>1, <2>2, <2>4
  <2>6. /\ req'[r].pc = "checkLabels" /\ req'[r].op = "createIn" /\ req'[r].row = row
        /\ req'[r].proj = req[r].proj
    BY <1>1, <1>6, <2>5 DEF Request
  <2>7. /\ req[r].row.proj = req[r].proj /\ req[r].row.board = req[r].proj /\ ListOf[l] = req[r].proj
    BY <1>1, <1>2, <1>6 DEF Places, CreateOps
  <2>8. Places(req'[r], tasks, lists)
    BY <2>3, <2>4, <2>6, <2>7 DEF Places, RowFits, CardOps, CreateOps
  <2>9. QED
    BY <1>1, <2>8, SerialReads
<1>7. QED
  BY <1>3, <1>4, <1>5, <1>6

\* The list that a card goes to is a list of its board.
LEMMA FindPlaces ==
    ASSUME CardsInv, SerialInv, OneAtATime, NEW r \in Reqs, FindList(r) \/ FindDone(r)
    PROVE  SerialInv'
<1>1. /\ req[r] \in Request /\ Doing(req[r]) /\ Places(req[r], tasks, lists)
      /\ req[r].pc \in {"findList", "findDone"} /\ ReadOnly /\ req \in [Reqs -> Request]
  BY ThisRequest DEF SerialInv, FindList, FindDone, At, CardsInv, TypeOK
<1>2. req[r].op \in CardOps /\ tasks[req[r].task].board = req[r].row.board
  BY <1>1 DEF Doing, Places
<1>3. ASSUME NEW q, q.pc = "write", q.op = req[r].op, q.row = req[r].row, q.task = req[r].task,
             q.list # NoList => lists[q.list].live /\ ListOf[q.list] = req[r].row.board
      PROVE  Places(q, tasks, lists)
  BY <1>1, <1>2, <1>3 DEF Places, CardOps, CreateOps
<1>4. CASE FindList(r)
  <2>1. CASE End(r)
    BY <1>1, <2>1, SerialEndsRead
  <2>2. CASE Goto(r, "write") /\ req[r].list = NoList
    <3>1. /\ req'[r].pc = "write" /\ req'[r].op = req[r].op /\ req'[r].row = req[r].row
          /\ req'[r].task = req[r].task /\ req'[r].list = NoList
      BY <2>2, GotoKeeps
    <3>2. Places(req'[r], tasks, lists)
      BY <1>3, <3>1
    <3>3. QED
      BY <1>1, <3>2, SerialReads
  <2>3. CASE ~End(r) /\ req[r].list # NoList
    <3>1. PICK s : s = IF lists[req[r].list].maps = "none" THEN req[r].status
                       ELSE lists[req[r].list].maps
      OBVIOUS
    <3>2. /\ lists[req[r].list].live /\ ListOf[req[r].list] = req[r].row.board
          /\ req'[r] = [req[r] EXCEPT !.pc = "write", !.status = s]
      BY <1>1, <1>4, <2>3, <3>1 DEF FindList
    <3>3. /\ req'[r].pc = "write" /\ req'[r].op = req[r].op /\ req'[r].row = req[r].row
          /\ req'[r].task = req[r].task /\ req'[r].list = req[r].list
      BY <1>1, <3>2 DEF Request
    <3>4. Places(req'[r], tasks, lists)
      BY <1>3, <3>2, <3>3
    <3>5. QED
      BY <1>1, <3>4, SerialReads
  <2>4. QED
    BY <1>4, <2>1, <2>2, <2>3 DEF FindList
<1>5. CASE FindDone(r)
  <2>1. PICK l : /\ l = NoList \/ l \in DoneLists(req[r].row.board)
                 /\ req'[r] = [req[r] EXCEPT !.pc = "write", !.list = l, !.status = "DONE"]
    BY <1>1, <1>5 DEF FindDone
  <2>2. l # NoList => lists[l].live /\ ListOf[l] = req[r].row.board
    BY <2>1 DEF DoneLists
  <2>3. /\ req'[r].pc = "write" /\ req'[r].op = req[r].op /\ req'[r].row = req[r].row
        /\ req'[r].task = req[r].task /\ req'[r].list = l
    BY <1>1, <2>1 DEF Request
  <2>4. Places(req'[r], tasks, lists)
    BY <1>3, <2>2, <2>3
  <2>5. QED
    BY <1>1, <2>4, SerialReads
<1>6. QED
  BY <1>4, <1>5

\* The labels are checked before the card is inserted, or written.
LEMMA CheckLabelsPlaces ==
    ASSUME CardsInv, SerialInv, OneAtATime, NEW r \in Reqs, CheckLabels(r)
    PROVE  SerialInv'
<1>1. /\ Doing(req[r]) /\ Places(req[r], tasks, lists) /\ req[r].pc = "checkLabels" /\ ReadOnly
  BY ThisRequest DEF SerialInv, CheckLabels, At
<1>2. req[r].op \in CreateOps \cup {"setLabels", "addLabel", "relabel"}
  BY <1>1 DEF Doing
<1>3. CASE End(r)
  BY <1>1, <1>3, SerialEndsRead
<1>4. CASE ~End(r)
  <2>1. PICK pc \in {"insert", "write"}, b \in BOOLEAN :
          req' = [req EXCEPT ![r].pc = pc, ![r].unchecked = b]
    BY <1>4 DEF CheckLabels
  <2>2. /\ req'[r].pc = pc /\ req'[r].op = req[r].op /\ req'[r].row = req[r].row
        /\ req'[r].proj = req[r].proj
    BY <2>1 DEF CardsInv, TypeOK, Request
  <2>3. Places(req'[r], tasks, lists)
    BY <1>1, <1>2, <2>1, <2>2 DEF Places, CardOps, CreateOps
  <2>4. QED
    BY <1>1, <2>3, SerialReads
<1>5. QED
  BY <1>3, <1>4

\* A row that is added fits, as the others do.
LEMMA AddedFits ==
    ASSUME CardsInv, SerialInv, NEW row, RowFits(row, lists), tasks' = Append(tasks, row),
           lists' = lists
    PROVE  /\ DOMAIN tasks \subseteq DOMAIN tasks' /\ \A t \in DOMAIN tasks : tasks'[t] = tasks[t]
           /\ \A t \in DOMAIN tasks' : RowFits(tasks'[t], lists')
<1>1. tasks \in Seq(Task) /\ Len(tasks) \in Nat /\ DOMAIN tasks = 1 .. Len(tasks)
  BY TaskRows DEF CardsInv, TypeOK
<1>2. /\ DOMAIN tasks' = 1 .. (Len(tasks) + 1)
      /\ \A t \in 1 .. Len(tasks) : tasks'[t] = tasks[t]
      /\ tasks'[Len(tasks) + 1] = row
  BY <1>1
<1>3. \A t \in DOMAIN tasks' : t \in DOMAIN tasks \/ t = Len(tasks) + 1
  BY <1>1, <1>2
<1>4. \A t \in DOMAIN tasks : tasks'[t] = tasks[t] /\ RowFits(tasks'[t], lists')
  BY <1>1, <1>2 DEF SerialInv
<1>5. RowFits(tasks'[Len(tasks) + 1], lists')
  BY <1>2
<1>6. DOMAIN tasks \subseteq DOMAIN tasks'
  BY <1>1, <1>2
<1>7. QED
  BY <1>3, <1>4, <1>5, <1>6

\* The new card is inserted where it was asked for.
LEMMA InsertPlaces ==
    ASSUME CardsInv, SerialInv, OneAtATime, NEW r \in Reqs, Insert(r)
    PROVE  SerialInv'
<1>1. /\ req[r] \in Request /\ req \in [Reqs -> Request] /\ Doing(req[r])
      /\ Places(req[r], tasks, lists) /\ req[r].pc = "insert" /\ OnlyTasks
  BY ThisRequest DEF SerialInv, Insert, At, CardsInv, TypeOK
<1>2. req[r].op \in CreateOps /\ req[r].row \in Task /\ lists' = lists
  BY <1>1 DEF Doing, Request, OnlyTasks
<1>3. CASE UNCHANGED tasks /\ End(r)
  BY <1>1, <1>3, SerialEndsRead DEF ReadOnly
<1>4. CASE ~(UNCHANGED tasks /\ End(r))
  <2>1. PICK row : row = ToInsert(req[r])
    OBVIOUS
  <2>2. /\ req[r].row.proj = req[r].proj /\ req[r].row.board = req[r].proj
        /\ RowFits(req[r].row, lists) /\ (req[r].op = "newTask" => req[r].row.list = NoList)
    BY <1>1, <1>2 DEF Places
  <2>3. RowFits(row, lists)
    <3>1. CASE req[r].op = "newTask"
      <4>1. /\ row.proj = req[r].row.proj /\ row.list = NoList
            /\ row.board \in {NoBoard, req[r].proj}
        BY <1>2, <2>1, <2>2, <3>1 DEF ToInsert, Task
      <4>2. QED
        BY <2>2, <4>1 DEF RowFits
    <3>2. CASE req[r].op # "newTask"
      <4>1. row.proj = req[r].row.proj /\ row.board = req[r].row.board /\ row.list = req[r].row.list
        BY <1>2, <2>1, <3>2 DEF ToInsert, Task
      <4>2. QED
        BY <2>2, <4>1, SameFits
    <3>3. QED
      BY <3>1, <3>2
  <2>4. tasks' = Append(tasks, row)
    BY <1>4, <2>1 DEF Insert
  <2>5. \A t \in DOMAIN tasks' : RowFits(tasks'[t], lists')
    BY <1>2, <2>3, <2>4, AddedFits
  <2>6. CASE End(r)
    BY <2>5, <2>6, SerialEnds
  <2>7. CASE ~End(r)
    <3>1. PICK n : n = Len(tasks) + 1
      OBVIOUS
    <3>2. req'[r] = [req[r] EXCEPT !.pc = "writeLabels", !.task = n]
      BY <1>1, <1>4, <2>7, <3>1 DEF Insert
    <3>3. /\ req'[r].pc = "writeLabels" /\ req'[r].op = req[r].op /\ req'[r].row = req[r].row
          /\ req'[r].proj = req[r].proj
      BY <1>1, <3>2 DEF Request
    <3>4. Places(req'[r], tasks', lists)
      BY <1>1, <3>3 DEF Places
    <3>5. QED
      BY <1>2, <2>5, <3>4, SerialMoves
  <2>8. QED
    BY <2>6, <2>7
<1>5. QED
  BY <1>3, <1>4

\* PATCH and DELETE read the task where it is.
LEMMA ReadTaskPlaces ==
    ASSUME CardsInv, SerialInv, OneAtATime, NEW r \in Reqs, ReadTask(r)
    PROVE  SerialInv'
<1>1. /\ req[r] \in Request /\ req \in [Reqs -> Request] /\ Doing(req[r])
      /\ Names(req[r], Len(tasks)) /\ req[r].pc = "readTask" /\ ReadOnly
  BY ThisRequest DEF ReadTask, At, CardsInv, TypeOK
<1>2. req[r].op \in PatchOps /\ req[r].task \in DOMAIN tasks
  BY <1>1, TaskRows DEF Doing, Names, CardsInv
<1>3. PICK row : row = tasks[req[r].task]
  OBVIOUS
<1>4. RowFits(row, lists)
  BY <1>2, <1>3 DEF SerialInv
<1>5. CASE End(r)
  BY <1>1, <1>5, SerialEndsRead
<1>6. CASE ~End(r)
  <2> DEFINE moves == req[r].op = "moveProject" /\ req[r].proj # row.proj
  <2>1. PICK op : op = IF req[r].op = "moveProject" /\ ~moves THEN "patch" ELSE req[r].op
    OBVIOUS
  <2>2. PICK pc : pc = CASE moves -> "ensure"
                         [] req[r].op = "relabel" -> "checkLabels"
                         [] OTHER -> "write"
    OBVIOUS
  <2>3. req' = [req EXCEPT ![r].row = row, ![r].op = op, ![r].pc = pc]
    BY <1>1, <1>3, <1>6, <2>1, <2>2 DEF ReadTask
  <2>4. req'[r].row = row /\ req'[r].op = op /\ req'[r].pc = pc
    BY <1>1, <2>3 DEF Request
  <2>5. op \in PatchOps /\ pc \in {"ensure", "checkLabels", "write"}
    BY <1>2, <2>1, <2>2 DEF PatchOps
  <2>6. Places(req'[r], tasks, lists)
    BY <1>4, <2>4, <2>5 DEF Places, PatchOps, CardOps, CreateOps
  <2>7. QED
    BY <1>1, <2>6, SerialReads
<1>7. QED
  BY <1>5, <1>6

\* One row is written and fits; the lists that are live stay so.
LEMMA OneRowFits ==
    ASSUME CardsInv, SerialInv, NEW t \in 1 .. Len(tasks), NEW row \in Task, RowFits(row, lists),
           tasks' = [tasks EXCEPT ![t] = row], lists' = lists
    PROVE  /\ DOMAIN tasks' = DOMAIN tasks
           /\ \A u \in DOMAIN tasks' : RowFits(tasks'[u], lists')
<1>1. tasks \in Seq(Task)
  BY DEF CardsInv, TypeOK
<1>2. /\ DOMAIN tasks' = DOMAIN tasks
      /\ \A u \in DOMAIN tasks : tasks'[u] = IF u = t THEN row ELSE tasks[u]
  BY <1>1, OneRow
<1>3. QED
  BY <1>2 DEF SerialInv

\* The labels are taken off before the task moves.
LEMMA ClearLabelsPlaces ==
    ASSUME CardsInv, SerialInv, OneAtATime, NEW r \in Reqs, ClearLabels(r)
    PROVE  SerialInv'
<1>1. /\ Doing(req[r]) /\ Names(req[r], Len(tasks)) /\ Places(req[r], tasks, lists)
      /\ req[r].pc = "clearLabels" /\ Goto(r, "write") /\ lists' = lists
  BY ThisRequest DEF SerialInv, ClearLabels, At, OnlyTasks
<1>2. req[r].op \in PatchOps
  BY <1>1 DEF Doing
<1>3. PICK t \in 1 .. Len(tasks) : t = req[r].task
  BY <1>1, <1>2 DEF Names
<1>4. t \in DOMAIN tasks /\ tasks[t] \in Task /\ RowFits(tasks[t], lists)
  BY TaskRows DEF CardsInv, SerialInv
<1>5. PICK row : row = [tasks[t] EXCEPT !.labels = {}, !.unchecked = FALSE]
  OBVIOUS
<1>6. /\ row \in Task /\ row.proj = tasks[t].proj /\ row.board = tasks[t].board
      /\ row.list = tasks[t].list
  BY <1>4, <1>5 DEF Task
<1>7. tasks' = [tasks EXCEPT ![t] = row] /\ RowFits(row, lists)
  BY <1>3, <1>4, <1>5, <1>6, SameFits DEF ClearLabels
<1>8. \A u \in DOMAIN tasks' : RowFits(tasks'[u], lists')
  BY <1>1, <1>6, <1>7, OneRowFits
<1>9. req'[r].pc = "write" /\ req'[r].op = req[r].op /\ req'[r].row = req[r].row
  BY <1>1, GotoKeeps
<1>10. Places(req'[r], tasks', lists')
  BY <1>1, <1>2, <1>9 DEF Places, PatchOps, CardOps, CreateOps
<1>11. QED
  BY <1>8, <1>10, SerialMoves

\* The UPDATE puts the task in a list of its board, or in the Inbox of the project it goes to.
LEMMA WrittenFits ==
    ASSUME NEW row \in Task, NEW q \in Request, NEW ls, RowFits(row, ls),
           q.op \in {"move", "complete", "replay"} /\ q.list # NoList =>
             ls[q.list].live /\ ListOf[q.list] = row.board
    PROVE  RowFits(Written(row, q), ls)
<1>1. PICK to : to = IF q.op = "moveProject" THEN MovedTo(row, q.proj) ELSE row
  OBVIOUS
<1>2. q.proj \in Projects
  BY DEF Request
<1>3. to \in Task /\ RowFits(to, ls) /\ (q.op # "moveProject" => to.board = row.board)
  BY <1>1, <1>2 DEF MovedTo, Task, RowFits
<1>4. PICK list : list = CASE q.op = "move" -> q.list
                           [] q.op \in {"complete", "replay"} /\ q.list # NoList /\ q.list # q.row.list -> q.list
                           [] OTHER -> to.list
  OBVIOUS
<1>5. list # NoList => ls[list].live /\ ListOf[list] = to.board
  BY <1>3, <1>4 DEF RowFits
<1>6. PICK status : status = CASE q.op \in {"move", "complete", "replay"} \cup PatchOps /\ q.status # "keep" -> q.status
                               [] q.op = "reopen" -> "TODO"
                               [] OTHER -> row.status
  OBVIOUS
<1>7. PICK labels : labels = CASE q.op = "setLabels" -> q.labels
                               [] q.op = "addLabel" -> row.labels \cup q.labels
                               [] q.op = "removeLabel" -> row.labels \ q.labels
                               [] OTHER -> row.labels
  OBVIOUS
<1>8. PICK remaining, unchecked, deleted :
          /\ remaining = IF q.op \in PatchOps /\ q.repeat # -1 THEN q.repeat ELSE row.remaining
          /\ unchecked = (to.unchecked /\ q.op # "setLabels")
          /\ deleted = IF q.op \in {"delete", "restore"} THEN q.op = "delete" ELSE to.deleted
  OBVIOUS
<1>9. Written(row, q) = [to EXCEPT !.list = list, !.status = status, !.labels = labels,
                                   !.remaining = remaining, !.unchecked = unchecked,
                                   !.deleted = deleted]
  BY <1>1, <1>3, <1>4, <1>6, <1>7, <1>8 DEF Written, Task
<1>10. /\ Written(row, q).list = list /\ Written(row, q).board = to.board
       /\ Written(row, q).proj = to.proj
  BY <1>3, <1>9 DEF Task
<1>11. QED
  BY <1>3, <1>5, <1>10 DEF RowFits

\* The task is written where the request found it to belong.
LEMMA WritePlaces ==
    ASSUME CardsInv, SerialInv, OneAtATime, NEW r \in Reqs, Write(r)
    PROVE  SerialInv'
<1>1. /\ req[r] \in Request /\ Doing(req[r]) /\ Names(req[r], Len(tasks))
      /\ Places(req[r], tasks, lists) /\ req[r].pc = "write" /\ OnlyTasks /\ lists' = lists
  BY ThisRequest DEF SerialInv, Write, At, OnlyTasks
<1>2. req[r].op \in CardOps \cup PatchOps
  BY <1>1 DEF Doing
<1>3. PICK t \in 1 .. Len(tasks) : t = req[r].task
  BY <1>1, <1>2 DEF Names
<1>4. t \in DOMAIN tasks /\ tasks[t] \in Task /\ RowFits(tasks[t], lists)
  BY TaskRows DEF CardsInv, SerialInv
<1>5. CASE UNCHANGED tasks /\ End(r)
  BY <1>1, <1>5, SerialEndsRead DEF ReadOnly
<1>6. CASE ~(UNCHANGED tasks /\ End(r))
  <2>1. PICK row : row = Written(tasks[t], req[r])
    OBVIOUS
  <2>2. req[r].op \in {"move", "complete", "replay"} /\ req[r].list # NoList =>
          lists[req[r].list].live /\ ListOf[req[r].list] = tasks[t].board
    BY <1>1, <1>3 DEF Places
  <2>3. RowFits(row, lists)
    BY <1>1, <1>4, <2>1, <2>2, WrittenFits
  <2>4. req[r].status # "none"
    BY <1>1, <1>2 DEF Doing, CardOps, PatchOps
  <2>5. row \in Task
    BY <1>1, <1>4, <2>1, <2>4, WrittenTask
  <2>6. tasks' = [tasks EXCEPT ![t] = row]
    BY <1>3, <1>6, <2>1 DEF Write
  <2>7. \A u \in DOMAIN tasks' : RowFits(tasks'[u], lists')
    BY <1>1, <2>3, <2>5, <2>6, OneRowFits
  <2>8. CASE End(r)
    BY <2>7, <2>8, SerialEnds
  <2>9. CASE ~End(r)
    <3>1. PICK pc \in {"writeLabels", "spawn"} : Goto(r, pc)
      BY <1>6, <2>9 DEF Write
    <3>2. /\ req'[r].pc = pc /\ req'[r].op = req[r].op /\ req'[r].row = req[r].row
          /\ req'[r].proj = req[r].proj
      BY <3>1, GotoKeeps
    <3>3. Places(req'[r], tasks', lists')
      BY <1>1, <3>1, <3>2 DEF Places
    <3>4. QED
      BY <2>7, <3>3, SerialMoves
  <2>10. QED
    BY <2>8, <2>9
<1>7. QED
  BY <1>5, <1>6

\* Labels are set on a task that stays where it is.
LEMMA WriteLabelsPlaces ==
    ASSUME CardsInv, SerialInv, OneAtATime, NEW r \in Reqs, WriteLabels(r)
    PROVE  SerialInv'
<1>1. /\ req[r] \in Request /\ Names(req[r], Len(tasks)) /\ req[r].pc = "writeLabels"
      /\ OnlyTasks /\ lists' = lists /\ End(r)
  BY ThisRequest DEF WriteLabels, At, OnlyTasks
<1>2. PICK t \in 1 .. Len(tasks) : t = req[r].task
  BY <1>1 DEF Names
<1>3. /\ t \in DOMAIN tasks /\ tasks[t] \in Task /\ RowFits(tasks[t], lists)
      /\ req[r].labels \subseteq Labels /\ req[r].unchecked \in BOOLEAN
  BY <1>1, TaskRows DEF CardsInv, SerialInv, Request
<1>4. CASE UNCHANGED tasks
  BY <1>1, <1>4, SerialEndsRead DEF ReadOnly
<1>5. CASE ~UNCHANGED tasks
  <2>1. PICK row : row = [tasks[t] EXCEPT !.labels = req[r].labels, !.unchecked = req[r].unchecked]
    OBVIOUS
  <2>2. /\ row \in Task /\ row.proj = tasks[t].proj /\ row.board = tasks[t].board
        /\ row.list = tasks[t].list
    BY <1>3, <2>1 DEF Task
  <2>3. tasks' = [tasks EXCEPT ![t] = row] /\ RowFits(row, lists)
    BY <1>2, <1>3, <1>5, <2>1, <2>2, SameFits DEF WriteLabels
  <2>4. \A u \in DOMAIN tasks' : RowFits(tasks'[u], lists')
    BY <1>1, <2>2, <2>3, OneRowFits
  <2>5. QED
    BY <1>1, <2>4, SerialEnds
<1>6. QED
  BY <1>4, <1>5

\* The next occurrence is made where the completed card was read.
LEMMA SpawnPlaces ==
    ASSUME CardsInv, SerialInv, OneAtATime, NEW r \in Reqs, Spawn(r)
    PROVE  SerialInv'
<1>1. /\ req[r] \in Request /\ req \in [Reqs -> Request] /\ Doing(req[r])
      /\ Places(req[r], tasks, lists) /\ req[r].pc = "spawn" /\ lists' = lists
  BY ThisRequest DEF SerialInv, Spawn, At, OnlyTasks, CardsInv, TypeOK
<1>2. req[r].row \in Task /\ RowFits(req[r].row, lists)
  BY <1>1 DEF Request, Places
<1>3. PICK row : row = Occurrence(req[r].row)
  OBVIOUS
<1>4. /\ row.proj = req[r].row.proj /\ row.board = req[r].row.board /\ row.list = req[r].row.list
  BY <1>2, <1>3 DEF Occurrence, Task
<1>5. RowFits(row, lists) /\ tasks' = Append(tasks, row)
  BY <1>2, <1>3, <1>4, SameFits DEF Spawn
<1>6. \A t \in DOMAIN tasks' : RowFits(tasks'[t], lists')
  BY <1>1, <1>5, AddedFits
<1>7. PICK n : n = Len(tasks) + 1
  OBVIOUS
<1>8. req'[r] = [req[r] EXCEPT !.pc = "copyLabels", !.next = n]
  BY <1>1, <1>7 DEF Spawn
<1>9. /\ req'[r].pc = "copyLabels" /\ req'[r].op = req[r].op /\ req'[r].row = req[r].row
      /\ req'[r].proj = req[r].proj
  BY <1>1, <1>8 DEF Request
<1>10. Places(req'[r], tasks', lists')
  BY <1>1, <1>9 DEF Places
<1>11. QED
  BY <1>6, <1>10, SerialMoves

\* The labels for the next occurrence are read.
LEMMA CopyLabelsPlaces ==
    ASSUME CardsInv, SerialInv, OneAtATime, NEW r \in Reqs, CopyLabels(r)
    PROVE  SerialInv'
<1>1. /\ req[r] \in Request /\ req \in [Reqs -> Request] /\ Places(req[r], tasks, lists) /\ ReadOnly
  BY ThisRequest DEF SerialInv, CopyLabels, CardsInv, TypeOK
<1>2. CASE End(r)
  BY <1>1, <1>2, SerialEndsRead
<1>3. CASE ~End(r)
  <2>1. PICK labels, b, n : /\ labels = tasks[req[r].task].labels /\ n = req[r].next
                            /\ b = tasks[req[r].task].unchecked
    OBVIOUS
  <2>2. req'[r] = [req[r] EXCEPT !.pc = "writeLabels", !.task = n, !.labels = labels,
                                 !.unchecked = b]
    BY <1>1, <1>3, <2>1 DEF CopyLabels
  <2>3. /\ req'[r].pc = "writeLabels" /\ req'[r].op = req[r].op /\ req'[r].row = req[r].row
        /\ req'[r].proj = req[r].proj
    BY <1>1, <2>2 DEF Request
  <2>4. Places(req'[r], tasks, lists)
    BY <1>1, <2>3 DEF Places
  <2>5. QED
    BY <1>1, <2>4, SerialReads
<1>4. QED
  BY <1>2, <1>3

\* The cards leave the list that is archived.
LEMMA ReleaseCardsPlaces ==
    ASSUME CardsInv, SerialInv, OneAtATime, NEW r \in Reqs, ReleaseCards(r)
    PROVE  SerialInv'
<1>1. /\ req[r] \in Request /\ req \in [Reqs -> Request] /\ Doing(req[r])
      /\ Places(req[r], tasks, lists) /\ req[r].pc = "releaseCards" /\ lists \in [Lists -> List]
  BY ThisRequest DEF SerialInv, ReleaseCards, At, CardsInv, TypeOK
<1>2. PICK l \in Lists : l = req[r].list
  BY <1>1 DEF Doing, Request
<1>3. /\ DOMAIN tasks' = DOMAIN tasks
      /\ \A t \in DOMAIN tasks :
           tasks'[t] = IF tasks[t].list = l THEN [tasks[t] EXCEPT !.list = NoList] ELSE tasks[t]
      /\ lists' = [lists EXCEPT ![l].archived = TRUE]
      /\ req'[r] = [req[r] EXCEPT !.pc = "writeList", !.archived = "keep"]
  BY <1>1, <1>2 DEF ReleaseCards
<1>4. \A k \in Lists : lists[k].live => lists'[k].live
  BY <1>1, <1>3 DEF List
<1>5. ASSUME NEW t \in DOMAIN tasks PROVE RowFits(tasks'[t], lists')
  <2>1. tasks[t] \in Task /\ RowFits(tasks[t], lists)
    BY TaskRows DEF CardsInv, SerialInv
  <2>2. CASE tasks[t].list = l
    <3>1. /\ tasks'[t].proj = tasks[t].proj /\ tasks'[t].board = tasks[t].board
          /\ tasks'[t].list = NoList
      BY <1>3, <2>1, <2>2 DEF Task
    <3>2. QED
      BY <2>1, <3>1 DEF RowFits
  <2>3. CASE tasks[t].list # l
    BY <1>3, <1>4, <2>1, <2>3, FitsStay
  <2>4. QED
    BY <2>2, <2>3
<1>6. /\ req'[r].pc = "writeList" /\ req'[r].op = req[r].op /\ req'[r].row = req[r].row
      /\ req'[r].proj = req[r].proj /\ req'[r].list = l /\ req'[r].archived = "keep"
  BY <1>1, <1>2, <1>3 DEF Request
<1>7. req[r].row \in Task /\ RowFits(req[r].row, lists) /\ lists[l].live
  BY <1>1, <1>2 DEF Request, Places
<1>8. RowFits(req[r].row, lists') /\ lists'[l].live
  BY <1>4, <1>7, FitsStay
<1>9. Places(req'[r], tasks', lists')
  BY <1>1, <1>6, <1>8 DEF Places
<1>10. QED
  BY <1>3, <1>5, <1>9, SerialMoves

\* The list is written and stays live.
LEMMA WriteListPlaces ==
    ASSUME CardsInv, SerialInv, OneAtATime, NEW r \in Reqs, WriteList(r)
    PROVE  SerialInv'
<1>1. lists \in [Lists -> List] /\ OnlyLists /\ End(r)
  BY DEF WriteList, CardsInv, TypeOK
<1>2. PICK archived, maps :
        lists' = [lists EXCEPT ![req[r].list].archived = archived, ![req[r].list].maps = maps]
  BY <1>1 DEF WriteList
<1>3. \A k \in Lists : lists[k].live => lists'[k].live
  BY <1>1, <1>2 DEF List
<1>4. tasks' = tasks /\ \A t \in DOMAIN tasks : tasks[t] \in Task /\ RowFits(tasks[t], lists)
  BY <1>1, TaskRows DEF OnlyLists, CardsInv, SerialInv
<1>5. \A t \in DOMAIN tasks' : RowFits(tasks'[t], lists')
  BY <1>3, <1>4, FitsStay
<1>6. QED
  BY <1>1, <1>5, SerialEnds

\* What fits still does when tasks change their labels only, and lists are added.
LEMMA TablesGrow ==
    ASSUME CardsInv, SerialInv, UNCHANGED req, DOMAIN tasks' = DOMAIN tasks,
           \A t \in DOMAIN tasks : /\ tasks'[t].proj = tasks[t].proj
                                   /\ tasks'[t].board = tasks[t].board
                                   /\ tasks'[t].list = tasks[t].list,
           \A l \in Lists : lists[l].live => lists'[l] = lists[l]
    PROVE  SerialInv'
<1>1. ASSUME NEW t \in DOMAIN tasks PROVE RowFits(tasks'[t], lists')
  <2>1. tasks[t] \in Task /\ RowFits(tasks[t], lists)
    BY TaskRows DEF CardsInv, SerialInv
  <2>2. RowFits(tasks[t], lists')
    BY <2>1, FitsStay
  <2>3. QED
    BY <2>2, SameFits
<1>2. ASSUME NEW r \in Reqs PROVE Places(req[r], tasks', lists')
  <2>1. /\ req[r] \in Request /\ Doing(req[r]) /\ Names(req[r], Len(tasks))
        /\ Places(req[r], tasks, lists)
    BY ThisRequest DEF SerialInv
  <2>2. req[r].row \in Task /\ RowFits(req[r].row, lists)
    BY <2>1 DEF Request, Places
  <2>3. RowFits(req[r].row, lists')
    BY <2>2, FitsStay
  <2>4. req[r].op \in CardOps => req[r].task \in DOMAIN tasks
    BY <2>1, TaskRows DEF Names, CardsInv
  <2>5. req[r].pc \in {"findList", "findDone"} => req[r].op \in CardOps
    BY <2>1 DEF Doing
  <2>6. /\ req[r].op \in {"move", "complete", "replay"} => req[r].op \in CardOps
        /\ req[r].list \in Lists \cup {NoList}
        /\ req[r].pc \in {"releaseCards", "writeList"} => req[r].list # NoList
    BY <2>1 DEF CardOps, Request, Doing
  <2>7. QED
    BY <2>1, <2>3, <2>4, <2>5, <2>6 DEF Places
<1>3. QED
  BY <1>1, <1>2 DEF SerialInv

\* A list or a label is made, or a label is deleted: no task changes place.
LEMMA TablesPlaces ==
    ASSUME CardsInv, SerialInv, CreateList \/ CreateLabel \/ DeleteLabel
    PROVE  SerialInv'
<1>1. /\ \A t \in DOMAIN tasks : tasks[t] \in Task
      /\ lists \in [Lists -> List] /\ UNCHANGED req
  BY TaskRows DEF CardsInv, TypeOK, CreateList, CreateLabel, DeleteLabel
<1>2. CASE CreateList
  <2>1. tasks' = tasks /\ \A l \in Lists : lists[l].live => lists'[l] = lists[l]
    BY <1>1, <1>2 DEF CreateList, OnlyLists
  <2>2. QED
    BY <1>1, <2>1, TablesGrow
<1>3. CASE CreateLabel
  <2>1. tasks' = tasks /\ lists' = lists
    BY <1>3 DEF CreateLabel
  <2>2. QED
    BY <1>1, <2>1, TablesGrow
<1>4. CASE DeleteLabel
  <2>1. PICK x : tasks' = [t \in DOMAIN tasks |-> [tasks[t] EXCEPT !.labels = @ \ {x}]]
    BY <1>4 DEF DeleteLabel
  <2>2. lists' = lists /\ DOMAIN tasks' = DOMAIN tasks
    BY <1>4, <2>1 DEF DeleteLabel
  <2>3. \A t \in DOMAIN tasks : /\ tasks'[t].proj = tasks[t].proj
                                /\ tasks'[t].board = tasks[t].board
                                /\ tasks'[t].list = tasks[t].list
    BY <1>1, <2>1 DEF Task
  <2>4. QED
    BY <1>1, <2>2, <2>3, TablesGrow
<1>5. QED
  BY <1>2, <1>3, <1>4

\* No task is on a board or in a list at first.
LEMMA SerialStart == Init => SerialInv
<1> SUFFICES ASSUME Init PROVE SerialInv
  OBVIOUS
<1>1. PICK n \in 0 .. Orphans : tasks \in [1 .. n -> OldRows]
  BY DEF Init
<1>2. \A t \in DOMAIN tasks : tasks[t].board = NoBoard /\ tasks[t].list = NoList
  BY <1>1 DEF OldRows
<1>3. \A t \in DOMAIN tasks : RowFits(tasks[t], lists)
  BY <1>2 DEF RowFits
<1>4. \A r \in Reqs : req[r] = Idle
  BY DEF Init
<1>5. QED
  BY <1>3, <1>4, IdlePlaces DEF SerialInv

\* Every step of the one request keeps the tasks in their places.
LEMMA SerialStep == ASSUME OneAtATime PROVE CardsInv /\ SerialInv /\ [Next]_vars => SerialInv'
<1> SUFFICES ASSUME CardsInv, SerialInv, [Next]_vars PROVE SerialInv'
  OBVIOUS
<1>1. CASE UNCHANGED vars
  <2>1. UNCHANGED req /\ tasks' = tasks /\ lists' = lists
    BY <1>1 DEF vars
  <2>2. QED
    BY <2>1, TablesGrow
<1>2. CASE CreateList \/ CreateLabel \/ DeleteLabel
  BY <1>2, TablesPlaces
<1>3. ASSUME NEW r \in Reqs,
             \/ ArriveCard(r) \/ ArrivePatch(r) \/ ArriveCreate(r) \/ ArriveOpen(r)
             \/ ArriveUpdateList(r)
      PROVE  SerialInv'
  BY <1>3, ArrivePlaces
<1>4. ASSUME NEW r \in Reqs, Access(r) PROVE SerialInv'
  BY <1>4, ReadCardPlaces, EnsurePlaces, SeedPlaces, AdoptPlaces, GatherPlaces, ReadListPlaces
     DEF Access
<1>5. ASSUME NEW r \in Reqs, Work(r) PROVE SerialInv'
  BY <1>5, FindPlaces, CheckLabelsPlaces, InsertPlaces, ReadTaskPlaces, ClearLabelsPlaces,
     WritePlaces, WriteLabelsPlaces, SpawnPlaces, CopyLabelsPlaces, ReleaseCardsPlaces,
     WriteListPlaces DEF Work
<1>6. ASSUME NEW r \in Reqs, RequestFails(r) PROVE SerialInv'
  BY <1>6, SerialEndsRead DEF RequestFails
<1>7. QED
  BY <1>1, <1>2, <1>3, <1>4, <1>5, <1>6 DEF Next

\* A list is archived by ReleaseCards alone, which leaves no task in it.
LEMMA ArchivingStep ==
    ASSUME CardsInv, SerialInv, Next, NEW l \in Lists, ~lists[l].archived, lists'[l].archived
    PROVE  \A t \in DOMAIN tasks' : tasks'[t].list # l
<1>1. lists \in [Lists -> List] /\ lists' # lists
  BY DEF CardsInv, TypeOK
<1>2. PICK r \in Reqs : ReleaseCards(r) \/ WriteList(r) \/ createWithDefaults(req[r].proj, req[r].owned)
  <2>1. ~CreateList
    BY <1>1 DEF CreateList, List
  <2>2. ~CreateLabel /\ ~DeleteLabel
    BY <1>1 DEF CreateLabel, DeleteLabel
  <2>3. ASSUME NEW r \in Reqs
        PROVE  /\ ~ArriveCard(r) /\ ~ArrivePatch(r) /\ ~ArriveCreate(r) /\ ~ArriveOpen(r)
               /\ ~ArriveUpdateList(r) /\ ~RequestFails(r)
    <3>1. ASSUME NEW q PROVE ~Arrive(r, q)
      BY <1>1 DEF Arrive, ReadOnly, OnlyTasks
    <3>2. ~ArriveCard(r)
      BY <3>1 DEF ArriveCard
    <3>3. ~ArrivePatch(r)
      BY <3>1 DEF ArrivePatch
    <3>4. ~ArriveCreate(r)
      BY <3>1 DEF ArriveCreate
    <3>5. ~ArriveOpen(r) /\ ~ArriveUpdateList(r)
      BY <3>1 DEF ArriveOpen, ArriveUpdateList
    <3>6. ~RequestFails(r)
      BY <1>1 DEF RequestFails, ReadOnly, OnlyTasks
    <3>7. QED
      BY <3>2, <3>3, <3>4, <3>5, <3>6
  <2>4. ASSUME NEW r \in Reqs, Access(r)
        PROVE  createWithDefaults(req[r].proj, req[r].owned)
    <3>1. ~ReadCard(r) /\ ~Ensure(r) /\ ~Adopt(r) /\ ~Gather(r) /\ ~ReadList(r)
      BY <1>1 DEF ReadCard, Ensure, Adopt, Gather, ReadList, ReadOnly, OnlyTasks
    <3>2. QED
      BY <1>1, <2>4, <3>1 DEF Access, Seed, ReadOnly, OnlyTasks
  <2>5. ASSUME NEW r \in Reqs, Work(r)
        PROVE  ReleaseCards(r) \/ WriteList(r)
    <3>1. /\ ~FindList(r) /\ ~FindDone(r) /\ ~CheckLabels(r) /\ ~Insert(r) /\ ~ReadTask(r)
          /\ ~ClearLabels(r)
      BY <1>1 DEF FindList, FindDone, CheckLabels, Insert, ReadTask, ClearLabels, ReadOnly, OnlyTasks
    <3>2. ~Write(r) /\ ~WriteLabels(r) /\ ~Spawn(r) /\ ~CopyLabels(r)
      BY <1>1 DEF Write, WriteLabels, Spawn, CopyLabels, ReadOnly, OnlyTasks
    <3>3. QED
      BY <2>5, <3>1, <3>2 DEF Work
  <2>6. QED
    BY <2>1, <2>2, <2>3, <2>4, <2>5 DEF Next
<1>3. CASE ReleaseCards(r)
  <2>1. PICK k \in Lists : k = req[r].list
    BY <1>3, ThisRequest DEF Doing, Request, ReleaseCards, At
  <2>2. /\ DOMAIN tasks' = DOMAIN tasks /\ lists' = [lists EXCEPT ![k].archived = TRUE]
        /\ \A t \in DOMAIN tasks :
             tasks'[t] = IF tasks[t].list = k THEN [tasks[t] EXCEPT !.list = NoList] ELSE tasks[t]
    BY <1>3, <2>1 DEF ReleaseCards
  <2>3. l = k
    BY <1>1, <2>2
  <2>4. ASSUME NEW t \in DOMAIN tasks PROVE tasks'[t].list # k
    <3>1. tasks[t] \in Task /\ NoList # k
      BY TaskRows, CardsAssumption DEF CardsInv
    <3>2. QED
      BY <2>2, <3>1 DEF Task
  <2>5. QED
    BY <2>2, <2>3, <2>4
<1>4. CASE WriteList(r)
  <2>1. /\ req[r] \in Request /\ Places(req[r], tasks, lists) /\ req[r].pc = "writeList"
        /\ Doing(req[r])
    BY <1>4, ThisRequest DEF SerialInv, WriteList, At
  <2>2. PICK k \in Lists : k = req[r].list
    BY <2>1 DEF Doing, Request
  <2>3. PICK archived, maps :
          /\ lists' = [lists EXCEPT ![k].archived = archived, ![k].maps = maps]
          /\ archived = IF req[r].archived = "keep" THEN lists[k].archived
                        ELSE req[r].archived = "yes"
    BY <1>1, <1>4, <2>2 DEF WriteList, List
  <2>4. l = k /\ archived
    BY <1>1, <2>3 DEF List
  <2>5. req[r].archived = "yes" => lists[k].archived
    BY <2>1, <2>2 DEF Places
  <2>6. QED
    BY <2>3, <2>4, <2>5
<1>5. CASE createWithDefaults(req[r].proj, req[r].owned)
  <2>1. lists'[l] = lists[l] \/ lists'[l].archived = FALSE
    BY <1>1, <1>5 DEF createWithDefaults
  <2>2. QED
    BY <2>1
<1>6. QED
  BY <1>2, <1>3, <1>4, <1>5

-----------------------------------------------------------------------------
(* One request at a time: the labels of the tasks. *)

\* The labels are labels of the board of the project.
LabelsFit(labels, p) == \A x \in labels : LabelOf[x] = p

\* Labels that were checked exist, and are labels of the board of the task's project.
RowLabelled(row, live) ==
  ~row.unchecked => row.labels \subseteq live /\ LabelsFit(row.labels, row.proj)

\* What a request holds of labels fits the tasks, as long as no other one writes them.
Labelled(q, ts) ==
  /\ q.op \in CreateOps => q.row.labels = {}
  /\ q.op \in CreateOps /\ q.pc = "insert" => LabelsFit(q.labels, q.proj)
  /\ q.pc = "writeLabels" /\ ~q.unchecked => LabelsFit(q.labels, ts[q.task].proj)
  /\ q.pc = "checkLabels" /\ q.op \notin CreateOps => q.row.proj = ts[q.task].proj
  /\ q.pc = "write" /\ q.op \in {"setLabels", "addLabel"} => LabelsFit(q.labels, ts[q.task].proj)
  /\ q.pc = "write" /\ q.op = "relabel" /\ ~q.unchecked => LabelsFit(q.labels, ts[q.task].proj)
  /\ q.pc = "findList" => q.op = "move"
  /\ q.pc = "findDone" => q.op \in {"complete", "replay"}
  /\ q.pc = "clearLabels" => q.op = "moveProject"
  /\ q.pc = "write" /\ q.op = "moveProject" => ts[q.task].labels = {}
  /\ q.pc \in {"spawn", "copyLabels"} => q.op = "complete"
  /\ q.pc \in {"findDone", "write", "spawn", "copyLabels"} /\ q.op = "complete" =>
       q.row.proj = ts[q.task].proj
  /\ q.pc = "copyLabels" => q.row.proj = ts[q.next].proj

LabelInv ==
  /\ \A t \in DOMAIN tasks : RowLabelled(tasks[t], labelLive)
  /\ \A r \in Reqs : Labelled(req[r], tasks)

\* The one request and the labels fit again.
LEMMA LabelMoves ==
    ASSUME OneAtATime, NEW r \in Reqs,
           \A t \in DOMAIN tasks' : RowLabelled(tasks'[t], labelLive'), Labelled(req'[r], tasks')
    PROVE  LabelInv'
<1>1. \A s \in Reqs : s = r
  BY DEF OneAtATime
<1>2. QED
  BY <1>1 DEF LabelInv, Labelled, RowLabelled, LabelsFit

\* The one request fits again, having read only.
LEMMA LabelReads ==
    ASSUME OneAtATime, NEW r \in Reqs, LabelInv, ReadOnly, Labelled(req'[r], tasks)
    PROVE  LabelInv'
<1>1. tasks' = tasks /\ labelLive' = labelLive
  BY DEF ReadOnly, OnlyTasks
<1>2. Labelled(req'[r], tasks') /\ \A t \in DOMAIN tasks' : RowLabelled(tasks'[t], labelLive')
  BY <1>1 DEF LabelInv
<1>3. QED
  BY <1>2, LabelMoves

\* A request at rest holds no labels.
LEMMA IdleLabelled ==
    ASSUME NEW ts
    PROVE  Labelled(Idle, ts)
<1>1. Idle.op = "none" /\ Idle.pc = "idle"
  BY IdleRequest
<1>2. QED
  BY <1>1 DEF Labelled, CreateOps

\* The request ends and the labels fit.
LEMMA LabelEnds ==
    ASSUME CardsInv, OneAtATime, NEW r \in Reqs, End(r),
           \A t \in DOMAIN tasks' : RowLabelled(tasks'[t], labelLive')
    PROVE  LabelInv'
<1>1. req'[r] = Idle
  BY DEF End, CardsInv, TypeOK
<1>2. Labelled(req'[r], tasks')
  BY <1>1, IdleLabelled
<1>3. QED
  BY <1>2, LabelMoves

\* The request ends, having read only.
LEMMA LabelEndsRead ==
    ASSUME CardsInv, LabelInv, OneAtATime, NEW r \in Reqs, End(r), ReadOnly
    PROVE  LabelInv'
<1>1. \A t \in DOMAIN tasks' : RowLabelled(tasks'[t], labelLive')
  BY DEF LabelInv, ReadOnly, OnlyTasks
<1>2. QED
  BY <1>1, LabelEnds

\* A row that keeps its project and its labels keeps to them.
LEMMA SameLabelled ==
    ASSUME NEW row, NEW new, NEW live, RowLabelled(row, live),
           new.proj = row.proj, new.labels = row.labels, new.unchecked = row.unchecked
    PROVE  RowLabelled(new, live)
BY DEF RowLabelled

\* A request arrives with no labels checked yet.
LEMMA ArriveLabelled ==
    ASSUME CardsInv, LabelInv, OneAtATime, NEW r \in Reqs,
           \/ ArriveCard(r) \/ ArrivePatch(r) \/ ArriveCreate(r) \/ ArriveOpen(r)
           \/ ArriveUpdateList(r)
    PROVE  LabelInv'
<1>1. ReadOnly /\ Arrived(req'[r])
  BY Arrivals
<1>2. Labelled(req'[r], tasks)
  BY <1>1 DEF Arrived, Labelled
<1>3. QED
  BY <1>1, <1>2, LabelReads

\* requireCard returns the card as it now stands.
LEMMA AfterCardLabelled ==
    ASSUME CardsInv, LabelInv, OneAtATime, NEW r \in Reqs, req[r].op \in CardOps,
           NEW row, AfterCard(r, row), req[r].task \in DOMAIN tasks', tasks'[req[r].task] = row,
           \A t \in DOMAIN tasks' : RowLabelled(tasks'[t], labelLive')
    PROVE  LabelInv'
<1>1. req \in [Reqs -> Request] /\ req[r] \in Request
  BY DEF CardsInv, TypeOK
<1>2. CASE End(r)
  BY <1>2, LabelEnds
<1>3. CASE ~End(r)
  <2>1. PICK pc : pc = CASE req[r].op = "move" -> "findList"
                         [] req[r].op \in {"complete", "replay"} -> "findDone"
                         [] req[r].op \in {"setLabels", "addLabel"} -> "checkLabels"
                         [] OTHER -> "write"
    OBVIOUS
  <2>2. req'[r] = [req[r] EXCEPT !.pc = pc, !.row = row, !.status = row.status]
    BY <1>1, <1>3, <2>1 DEF AfterCard
  <2>3. /\ req'[r].pc = pc /\ req'[r].row = row /\ req'[r].op = req[r].op
        /\ req'[r].task = req[r].task
    BY <1>1, <2>2 DEF Request
  <2>4. /\ pc \in {"findList", "findDone", "checkLabels", "write"}
        /\ pc = "write" => req[r].op \notin {"setLabels", "addLabel", "complete"}
        /\ pc = "findList" => req[r].op = "move"
        /\ pc = "findDone" => req[r].op \in {"complete", "replay"}
    BY <2>1
  <2>5. Labelled(req'[r], tasks')
    BY <2>3, <2>4 DEF Labelled, CardOps, CreateOps
  <2>6. QED
    BY <2>5, LabelMoves
<1>4. QED
  BY <1>2, <1>3

\* requireCard reads the card.
LEMMA ReadCardLabelled ==
    ASSUME CardsInv, LabelInv, OneAtATime, NEW r \in Reqs, ReadCard(r)
    PROVE  LabelInv'
<1> DEFINE row == tasks[req[r].task]
<1>1. /\ req[r] \in Request /\ req \in [Reqs -> Request] /\ Doing(req[r])
      /\ Names(req[r], Len(tasks))
  BY ThisRequest DEF CardsInv, TypeOK
<1>2. /\ req[r].pc = "readCard" /\ req[r].op \in CardOps /\ req[r].task \in DOMAIN tasks
      /\ ReadOnly /\ tasks' = tasks /\ labelLive' = labelLive
  BY <1>1, TaskRows DEF ReadCard, At, Doing, Names, CardsInv, ReadOnly, OnlyTasks
<1>3. \A t \in DOMAIN tasks' : RowLabelled(tasks'[t], labelLive')
  BY <1>2 DEF LabelInv
<1>4. CASE End(r)
  BY <1>2, <1>4, LabelEndsRead
<1>5. CASE AfterCard(r, row)
  <2>1. req[r].task \in DOMAIN tasks' /\ tasks'[req[r].task] = row
    BY <1>2
  <2> HIDE DEF row
  <2>2. QED
    BY <1>2, <1>3, <1>5, <2>1, AfterCardLabelled
<1>6. CASE req' = [req EXCEPT ![r].pc = "ensure", ![r].proj = row.proj]
  <2>1. PICK p : p = row.proj
    OBVIOUS
  <2>2. req'[r] = [req[r] EXCEPT !.pc = "ensure", !.proj = p]
    BY <1>1, <1>6, <2>1
  <2>3. req'[r].pc = "ensure" /\ req'[r].op = req[r].op
    BY <1>1, <2>2 DEF Request
  <2>4. Labelled(req'[r], tasks)
    BY <1>2, <2>3 DEF Labelled, CardOps, CreateOps
  <2>5. QED
    BY <1>2, <2>4, LabelReads
<1>7. QED
  BY <1>4, <1>5, <1>6 DEF ReadCard

\* The board exists: on to the next step, which has not looked at labels yet.
LEMMA EnsuredLabelled ==
    ASSUME CardsInv, LabelInv, OneAtATime, NEW r \in Reqs, NEW created \in BOOLEAN,
           Ensured(r, created), req[r].pc \in {"ensure", "seed"},
           \A t \in DOMAIN tasks' : RowLabelled(tasks'[t], labelLive')
    PROVE  LabelInv'
<1>1. Doing(req[r]) /\ Labelled(req[r], tasks)
  BY ThisRequest DEF LabelInv
<1>2. req[r].op \in CardOps \cup CreateOps \cup {"open", "moveProject"}
  BY <1>1 DEF Doing
<1>3. CASE End(r)
  BY <1>3, LabelEnds
<1>4. CASE ~End(r)
  <2>1. PICK pc : /\ pc \in {"adopt", "gather", "checkLabels", "clearLabels"} /\ Goto(r, pc)
                  /\ pc = "clearLabels" => req[r].op = "moveProject"
                  /\ pc = "checkLabels" => req[r].op \in CreateOps
    BY <1>2, <1>4 DEF Ensured
  <2>2. req'[r].pc = pc /\ req'[r].op = req[r].op /\ req'[r].row = req[r].row
    BY <2>1, GotoKeeps
  <2>3. Labelled(req'[r], tasks')
    BY <1>1, <2>1, <2>2 DEF Labelled
  <2>4. QED
    BY <2>3, LabelMoves
<1>5. QED
  BY <1>3, <1>4

\* ensureBoard looks for the board.
LEMMA EnsureLabelled ==
    ASSUME CardsInv, LabelInv, OneAtATime, NEW r \in Reqs, Ensure(r)
    PROVE  LabelInv'
<1>1. /\ req[r] \in Request /\ req \in [Reqs -> Request] /\ Labelled(req[r], tasks)
  BY DEF CardsInv, TypeOK, LabelInv
<1>2. req[r].pc = "ensure" /\ ReadOnly /\ tasks' = tasks /\ labelLive' = labelLive
  BY DEF Ensure, At, ReadOnly, OnlyTasks
<1>3. CASE Ensured(r, FALSE)
  <2>1. \A t \in DOMAIN tasks' : RowLabelled(tasks'[t], labelLive')
    BY <1>2 DEF LabelInv
  <2>2. FALSE \in BOOLEAN
    OBVIOUS
  <2>3. QED
    BY <1>2, <1>3, <2>1, <2>2, EnsuredLabelled
<1>4. CASE ~Ensured(r, FALSE)
  <2>1. PICK owned : owned = {<<t, tasks[t].status>> : t \in Orphaned(req[r].proj)}
    OBVIOUS
  <2>2. req'[r] = [req[r] EXCEPT !.pc = "seed", !.owned = owned]
    BY <1>1, <1>4, <2>1 DEF Ensure
  <2>3. req'[r].pc = "seed" /\ req'[r].op = req[r].op /\ req'[r].row = req[r].row
    BY <1>1, <2>2 DEF Request
  <2>4. Labelled(req'[r], tasks)
    BY <1>1, <2>3 DEF Labelled
  <2>5. QED
    BY <1>2, <2>4, LabelReads
<1>5. QED
  BY <1>3, <1>4

\* The tasks that are put on the new board stay in their project.
LEMMA SeedLabelled ==
    ASSUME CardsInv, SerialInv, LabelInv, OneAtATime, NEW r \in Reqs, Seed(r)
    PROVE  LabelInv'
<1>1. req[r] \in Request /\ Places(req[r], tasks, lists)
  BY DEF CardsInv, TypeOK, SerialInv
<1>2. req[r].pc = "seed" /\ Ensured(r, TRUE) /\ TRUE \in BOOLEAN
  BY DEF Seed, At
<1>3. CASE ReadOnly
  <2>1. tasks' = tasks /\ labelLive' = labelLive
    BY <1>3 DEF ReadOnly, OnlyTasks
  <2>2. \A t \in DOMAIN tasks' : RowLabelled(tasks'[t], labelLive')
    BY <2>1 DEF LabelInv
  <2>3. QED
    BY <1>2, <2>2, EnsuredLabelled
<1>4. CASE createWithDefaults(req[r].proj, req[r].owned)
  <2>1. PICK p, owned : p = req[r].proj /\ owned = req[r].owned
    OBVIOUS
  <2>2. createWithDefaults(p, owned)
    BY <1>4, <2>1
  <2>3. /\ DOMAIN tasks' = DOMAIN tasks /\ labelLive' = labelLive
        /\ \A t \in DOMAIN tasks :
             tasks'[t] = IF \E s \in Statuses : <<t, s>> \in owned
                         THEN Seeded(tasks[t], p, IF <<t, "TODO">> \in owned THEN "TODO" ELSE "DONE")
                         ELSE tasks[t]
    BY <2>2 DEF createWithDefaults
  <2>4. ASSUME NEW t \in DOMAIN tasks PROVE RowLabelled(tasks'[t], labelLive')
    <3>1. CASE \E s \in Statuses : <<t, s>> \in owned
      <4>1. tasks[t] \in Task /\ RowLabelled(tasks[t], labelLive)
        BY TaskRows DEF CardsInv, LabelInv
      <4>2. PICK status : tasks'[t] = Seeded(tasks[t], p, status)
        BY <2>3, <3>1
      <4>3. /\ tasks'[t].proj = tasks[t].proj /\ tasks'[t].labels = tasks[t].labels
            /\ tasks'[t].unchecked = tasks[t].unchecked
        BY <4>1, <4>2 DEF Seeded, Task
      <4>4. QED
        BY <2>3, <4>1, <4>3, SameLabelled
    <3>2. CASE ~\E s \in Statuses : <<t, s>> \in owned
      BY <2>3, <3>2 DEF LabelInv
    <3>3. QED
      BY <3>1, <3>2
  <2>5. QED
    BY <1>2, <2>3, <2>4, EnsuredLabelled
<1>5. QED
  BY <1>3, <1>4 DEF Seed

\* requireCard puts a card on the board of the project it is in.
LEMMA AdoptLabelled ==
    ASSUME CardsInv, SerialInv, LabelInv, OneAtATime, NEW r \in Reqs, Adopt(r)
    PROVE  LabelInv'
<1>1. /\ req[r] \in Request /\ Doing(req[r]) /\ Names(req[r], Len(tasks))
      /\ Places(req[r], tasks, lists) /\ req[r].pc = "adopt" /\ labelLive' = labelLive
  BY ThisRequest DEF SerialInv, Adopt, At, OnlyTasks
<1>2. req[r].op \in CardOps
  BY <1>1 DEF Doing
<1>3. PICK t \in 1 .. Len(tasks) : t = req[r].task
  BY <1>1, <1>2 DEF Names
<1>4. PICK p \in Projects : p = req[r].proj
  BY <1>1 DEF Request
<1>5. /\ tasks \in Seq(Task) /\ t \in DOMAIN tasks /\ tasks[t] \in Task
      /\ RowLabelled(tasks[t], labelLive)
  BY <1>1, <1>2, <1>3, <1>4, TaskRows DEF CardsInv, TypeOK, LabelInv
<1>6. PICK row : row = [tasks[t] EXCEPT !.board = p]
  OBVIOUS
<1>7. /\ row \in Task /\ row.proj = tasks[t].proj /\ row.labels = tasks[t].labels
      /\ row.unchecked = tasks[t].unchecked
  BY <1>5, <1>6 DEF Task
<1>8. RowLabelled(row, labelLive)
  BY <1>5, <1>7, SameLabelled
<1>9. tasks' = [tasks EXCEPT ![t] = row] /\ AfterCard(r, row)
  BY <1>3, <1>4, <1>6 DEF Adopt
<1>10. /\ DOMAIN tasks' = DOMAIN tasks
       /\ \A u \in DOMAIN tasks : tasks'[u] = IF u = t THEN row ELSE tasks[u]
  BY <1>5, <1>7, <1>9, OneRow
<1>11. \A u \in DOMAIN tasks' : RowLabelled(tasks'[u], labelLive')
  BY <1>1, <1>8, <1>10 DEF LabelInv
<1>12. req[r].task \in DOMAIN tasks' /\ tasks'[req[r].task] = row
  BY <1>3, <1>5, <1>10
<1>13. QED
  BY <1>2, <1>9, <1>11, <1>12, AfterCardLabelled

\* The tasks that a board takes when it is opened stay in their project.
LEMMA GatherLabelled ==
    ASSUME CardsInv, LabelInv, OneAtATime, NEW r \in Reqs, Gather(r)
    PROVE  LabelInv'
<1>1. PICK p : p = req[r].proj
  OBVIOUS
<1>2. /\ DOMAIN tasks' = DOMAIN tasks /\ labelLive' = labelLive /\ End(r)
      /\ \A t \in DOMAIN tasks :
           tasks'[t] = IF t \in Orphaned(p) THEN [tasks[t] EXCEPT !.board = p] ELSE tasks[t]
  BY <1>1 DEF Gather, OnlyTasks
<1>3. ASSUME NEW t \in DOMAIN tasks PROVE RowLabelled(tasks'[t], labelLive')
  <2>1. tasks[t] \in Task /\ RowLabelled(tasks[t], labelLive)
    BY TaskRows DEF CardsInv, LabelInv
  <2>2. /\ tasks'[t].proj = tasks[t].proj /\ tasks'[t].labels = tasks[t].labels
        /\ tasks'[t].unchecked = tasks[t].unchecked
    BY <1>2, <2>1 DEF Task
  <2>3. QED
    BY <1>2, <2>1, <2>2, SameLabelled
<1>4. QED
  BY <1>2, <1>3, LabelEnds

\* A new card has no labels yet when its list is read.
LEMMA ReadListLabelled ==
    ASSUME CardsInv, LabelInv, OneAtATime, NEW r \in Reqs, ReadList(r)
    PROVE  LabelInv'
<1>1. /\ req[r] \in Request /\ Doing(req[r]) /\ Labelled(req[r], tasks)
      /\ req[r].pc = "readList" /\ ReadOnly
  BY ThisRequest DEF LabelInv, ReadList, At
<1>2. PICK l \in Lists : l = req[r].list
  BY <1>1 DEF Doing, Request
<1>3. req[r].op \in {"createIn", "updateList"}
  BY <1>1 DEF Doing
<1>4. CASE End(r)
  BY <1>1, <1>4, LabelEndsRead
<1>5. CASE ~End(r) /\ req[r].op = "updateList"
  <2>1. PICK pc \in {"releaseCards", "writeList"} : Goto(r, pc)
    BY <1>5 DEF ReadList
  <2>2. req'[r].pc = pc /\ req'[r].op = "updateList"
    BY <1>5, <2>1, GotoKeeps
  <2>3. Labelled(req'[r], tasks)
    BY <2>1, <2>2 DEF Labelled, CreateOps
  <2>4. QED
    BY <1>1, <2>3, LabelReads
<1>6. CASE ~End(r) /\ req[r].op = "createIn"
  <2>1. req[r].row \in Task /\ req \in [Reqs -> Request]
    BY <1>1 DEF Request, CardsInv, TypeOK
  <2>2. PICK row : row = [req[r].row EXCEPT
                            !.list = l, !.status = IF lists[l].maps = "none" THEN @ ELSE lists[l].maps]
    OBVIOUS
  <2>3. row.labels = req[r].row.labels
    BY <2>1, <2>2 DEF Task
  <2>4. req' = [req EXCEPT ![r].pc = "checkLabels", ![r].row.list = l,
                           ![r].row.status = IF lists[l].maps = "none" THEN @ ELSE lists[l].maps]
    BY <1>2, <1>6 DEF ReadList
  <2>5. req'[r] = [req[r] EXCEPT !.pc = "checkLabels", !.row = row]
    BY <1>1, <2>1, <2>2, <2>4
  <2>6. req'[r].pc = "checkLabels" /\ req'[r].op = "createIn" /\ req'[r].row = row
    BY <1>1, <1>6, <2>5 DEF Request
  <2>7. req[r].row.labels = {}
    BY <1>1, <1>6 DEF Labelled, CreateOps
  <2>8. Labelled(req'[r], tasks)
    BY <2>3, <2>6, <2>7 DEF Labelled, CreateOps
  <2>9. QED
    BY <1>1, <2>8, LabelReads
<1>7. QED
  BY <1>3, <1>4, <1>5, <1>6

\* The card is written as it was read when the list is found.
LEMMA FindLabelled ==
    ASSUME CardsInv, LabelInv, OneAtATime, NEW r \in Reqs, FindList(r) \/ FindDone(r)
    PROVE  LabelInv'
<1>1. /\ req[r] \in Request /\ Doing(req[r]) /\ Labelled(req[r], tasks)
      /\ req[r].pc \in {"findList", "findDone"} /\ ReadOnly /\ req \in [Reqs -> Request]
  BY ThisRequest DEF LabelInv, FindList, FindDone, At, CardsInv, TypeOK
<1>2. CASE End(r)
  BY <1>1, <1>2, LabelEndsRead
<1>3. CASE ~End(r)
  <2>1. /\ req'[r].pc = "write" /\ req'[r].op = req[r].op /\ req'[r].row = req[r].row
        /\ req'[r].task = req[r].task
    <3>1. CASE Goto(r, "write")
      BY <3>1, GotoKeeps
    <3>2. CASE ~Goto(r, "write") /\ FindList(r)
      <4>1. PICK s : req'[r] = [req[r] EXCEPT !.pc = "write", !.status = s]
        BY <1>1, <1>3, <3>2 DEF FindList
      <4>2. QED
        BY <1>1, <4>1 DEF Request
    <3>3. CASE FindDone(r)
      <4>1. PICK l : req'[r] = [req[r] EXCEPT !.pc = "write", !.list = l, !.status = "DONE"]
        BY <1>1, <3>3 DEF FindDone
      <4>2. QED
        BY <1>1, <4>1 DEF Request
    <3>4. QED
      BY <3>1, <3>2, <3>3
  <2>2. /\ req[r].op \in {"move", "complete", "replay"}
        /\ req[r].op = "complete" => req[r].pc = "findDone"
    BY <1>1 DEF Labelled
  <2>3. Labelled(req'[r], tasks)
    BY <1>1, <2>1, <2>2 DEF Labelled, CreateOps
  <2>4. QED
    BY <1>1, <2>3, LabelReads
<1>4. QED
  BY <1>2, <1>3

\* assertLabelsInBoard lets labels of the board through; PATCH skips it for a task without one.
LEMMA CheckLabelsLabelled ==
    ASSUME CardsInv, SerialInv, LabelInv, OneAtATime, NEW r \in Reqs, CheckLabels(r)
    PROVE  LabelInv'
<1>1. /\ req[r] \in Request /\ req \in [Reqs -> Request] /\ Doing(req[r])
      /\ Names(req[r], Len(tasks)) /\ Labelled(req[r], tasks) /\ Places(req[r], tasks, lists)
      /\ req[r].pc = "checkLabels" /\ ReadOnly
  BY ThisRequest DEF SerialInv, LabelInv, CheckLabels, At, CardsInv, TypeOK
<1>2. req[r].op \in CreateOps \cup {"setLabels", "addLabel", "relabel"}
  BY <1>1 DEF Doing
<1>3. PICK board, skipped :
        /\ board = IF req[r].op \in CreateOps THEN req[r].proj ELSE req[r].row.board
        /\ skipped = (req[r].op = "relabel" /\ board = NoBoard)
  OBVIOUS
<1>4. CASE End(r)
  BY <1>1, <1>4, LabelEndsRead
<1>5. CASE ~End(r)
  <2>1. PICK pc : /\ pc = IF req[r].op \in CreateOps THEN "insert" ELSE "write"
                  /\ req' = [req EXCEPT ![r].pc = pc, ![r].unchecked = skipped]
                  /\ skipped \/ req[r].labels \subseteq LabelsOf(board)
    BY <1>3, <1>5 DEF CheckLabels
  <2>2. /\ req'[r].pc = pc /\ req'[r].op = req[r].op /\ req'[r].row = req[r].row
        /\ req'[r].labels = req[r].labels /\ req'[r].proj = req[r].proj
        /\ req'[r].task = req[r].task /\ req'[r].unchecked = skipped
    BY <1>1, <2>1 DEF Request
  <2>3. ASSUME ~skipped PROVE LabelsFit(req[r].labels, board)
    BY <2>1, <2>3 DEF LabelsOf, LabelsFit
  <2>4. CASE req[r].op \in CreateOps
    <3>1. ~skipped /\ board = req[r].proj
      BY <1>3, <2>4 DEF CreateOps
    <3>2. Labelled(req'[r], tasks)
      BY <1>1, <2>1, <2>2, <2>3, <2>4, <3>1 DEF Labelled
    <3>3. QED
      BY <1>1, <3>2, LabelReads
  <2>5. CASE req[r].op \notin CreateOps
    <3>1. /\ board = req[r].row.board
          /\ board # NoBoard => board = req[r].row.proj
          /\ req[r].row.proj = tasks[req[r].task].proj
      BY <1>1, <1>3, <2>5 DEF Labelled, Places, RowFits
    <3>2. ASSUME ~skipped PROVE LabelsFit(req[r].labels, tasks[req[r].task].proj)
      <4>1. CASE board = NoBoard
        <5>1. LabelsOf(board) = {}
          BY <4>1, CardsAssumption DEF LabelsOf, CardsInv, TypeOK
        <5>2. QED
          BY <2>1, <3>2, <5>1 DEF LabelsFit
      <4>2. CASE board # NoBoard
        BY <2>3, <3>1, <3>2, <4>2
      <4>3. QED
        BY <4>1, <4>2
    <3>3. skipped => req[r].op = "relabel"
      BY <1>3
    <3>4. req'[r].pc = "write" /\ req'[r].op \in {"setLabels", "addLabel", "relabel"}
      BY <1>2, <2>1, <2>2, <2>5
    <3>5. /\ req'[r].op # "relabel" => LabelsFit(req'[r].labels, tasks[req'[r].task].proj)
          /\ ~req'[r].unchecked => LabelsFit(req'[r].labels, tasks[req'[r].task].proj)
      BY <2>2, <3>2, <3>3, Zenon
    <3>6. Labelled(req'[r], tasks)
      BY <3>4, <3>5 DEF Labelled, CreateOps
    <3>7. QED
      BY <1>1, <3>6, LabelReads
  <2>6. QED
    BY <2>4, <2>5
<1>6. QED
  BY <1>4, <1>5

\* A row that is added carries labels of its board, as the others do.
LEMMA AddedLabelled ==
    ASSUME CardsInv, LabelInv, NEW row, RowLabelled(row, labelLive),
           tasks' = Append(tasks, row), labelLive' = labelLive
    PROVE  /\ \A t \in 1 .. Len(tasks) : tasks'[t] = tasks[t]
           /\ tasks'[Len(tasks) + 1] = row
           /\ \A t \in DOMAIN tasks' : RowLabelled(tasks'[t], labelLive')
<1>1. tasks \in Seq(Task) /\ Len(tasks) \in Nat /\ DOMAIN tasks = 1 .. Len(tasks)
  BY TaskRows DEF CardsInv, TypeOK
<1>2. /\ DOMAIN tasks' = 1 .. (Len(tasks) + 1)
      /\ \A t \in 1 .. Len(tasks) : tasks'[t] = tasks[t]
      /\ tasks'[Len(tasks) + 1] = row
  BY <1>1
<1>3. \A t \in DOMAIN tasks' : t \in DOMAIN tasks \/ t = Len(tasks) + 1
  BY <1>1, <1>2
<1>4. \A t \in DOMAIN tasks : RowLabelled(tasks'[t], labelLive')
  BY <1>1, <1>2 DEF LabelInv
<1>5. RowLabelled(tasks'[Len(tasks) + 1], labelLive')
  BY <1>2
<1>6. QED
  BY <1>2, <1>3, <1>4, <1>5

\* A new card is inserted with labels of its board, or is given them after.
LEMMA InsertLabelled ==
    ASSUME CardsInv, SerialInv, LabelInv, OneAtATime, NEW r \in Reqs, Insert(r)
    PROVE  LabelInv'
<1>1. /\ req[r] \in Request /\ req \in [Reqs -> Request] /\ Doing(req[r])
      /\ Places(req[r], tasks, lists) /\ Labelled(req[r], tasks)
      /\ req[r].pc = "insert" /\ OnlyTasks /\ labelLive' = labelLive
  BY ThisRequest DEF SerialInv, LabelInv, Insert, At, OnlyTasks, CardsInv, TypeOK
<1>2. req[r].op \in CreateOps /\ req[r].row \in Task /\ req[r].proj \in Projects
  BY <1>1 DEF Doing, Request
<1>3. CASE UNCHANGED tasks /\ End(r)
  BY <1>1, <1>3, LabelEndsRead DEF ReadOnly
<1>4. CASE ~(UNCHANGED tasks /\ End(r))
  <2>1. PICK row : row = ToInsert(req[r])
    OBVIOUS
  <2>2. row.labels \subseteq labelLive /\ tasks' = Append(tasks, row)
    BY <1>4, <2>1 DEF Insert
  <2>3. /\ req[r].row.proj = req[r].proj /\ req[r].row.labels = {}
        /\ LabelsFit(req[r].labels, req[r].proj)
    BY <1>1, <1>2 DEF Places, Labelled
  <2>4. row.proj = req[r].proj /\ row.labels \in {{}, req[r].labels}
    BY <1>2, <2>1, <2>3 DEF ToInsert, Task
  <2>5. RowLabelled(row, labelLive)
    BY <2>2, <2>3, <2>4 DEF RowLabelled, LabelsFit
  <2>6. /\ tasks'[Len(tasks) + 1] = row
        /\ \A t \in DOMAIN tasks' : RowLabelled(tasks'[t], labelLive')
    BY <1>1, <2>2, <2>5, AddedLabelled
  <2>7. CASE End(r)
    BY <2>6, <2>7, LabelEnds
  <2>8. CASE ~End(r)
    <3>1. PICK n : n = Len(tasks) + 1
      OBVIOUS
    <3>2. req'[r] = [req[r] EXCEPT !.pc = "writeLabels", !.task = n]
      BY <1>1, <1>4, <2>8, <3>1 DEF Insert
    <3>3. /\ req'[r].pc = "writeLabels" /\ req'[r].op = req[r].op /\ req'[r].row = req[r].row
          /\ req'[r].labels = req[r].labels /\ req'[r].task = n
      BY <1>1, <3>2 DEF Request
    <3>4. LabelsFit(req[r].labels, tasks'[n].proj)
      BY <2>3, <2>4, <2>6, <3>1
    <3>5. Labelled(req'[r], tasks')
      BY <1>1, <3>3, <3>4 DEF Labelled
    <3>6. QED
      BY <2>6, <3>5, LabelMoves
  <2>9. QED
    BY <2>7, <2>8
<1>5. QED
  BY <1>3, <1>4

\* PATCH and DELETE read the task with its board.
LEMMA ReadTaskLabelled ==
    ASSUME CardsInv, LabelInv, OneAtATime, NEW r \in Reqs, ReadTask(r)
    PROVE  LabelInv'
<1>1. /\ req[r] \in Request /\ req \in [Reqs -> Request] /\ Doing(req[r])
      /\ req[r].pc = "readTask" /\ ReadOnly
  BY ThisRequest DEF ReadTask, At, CardsInv, TypeOK
<1>2. req[r].op \in PatchOps
  BY <1>1 DEF Doing
<1>3. PICK row : row = tasks[req[r].task]
  OBVIOUS
<1>4. CASE End(r)
  BY <1>1, <1>4, LabelEndsRead
<1>5. CASE ~End(r)
  <2> DEFINE moves == req[r].op = "moveProject" /\ req[r].proj # row.proj
  <2>1. PICK op : op = IF req[r].op = "moveProject" /\ ~moves THEN "patch" ELSE req[r].op
    OBVIOUS
  <2>2. PICK pc : pc = CASE moves -> "ensure"
                         [] req[r].op = "relabel" -> "checkLabels"
                         [] OTHER -> "write"
    OBVIOUS
  <2>3. req' = [req EXCEPT ![r].row = row, ![r].op = op, ![r].pc = pc]
    BY <1>1, <1>3, <1>5, <2>1, <2>2 DEF ReadTask
  <2>4. req'[r].row = row /\ req'[r].op = op /\ req'[r].pc = pc /\ req'[r].task = req[r].task
    BY <1>1, <2>3 DEF Request
  <2>5. /\ op \in PatchOps /\ pc \in {"ensure", "checkLabels", "write"}
        /\ pc = "write" => op \notin {"relabel", "moveProject"}
    BY <1>2, <2>1, <2>2 DEF PatchOps
  <2>6. Labelled(req'[r], tasks)
    BY <1>3, <2>4, <2>5 DEF Labelled, PatchOps, CreateOps
  <2>7. QED
    BY <1>1, <2>6, LabelReads
<1>6. QED
  BY <1>4, <1>5

\* One row is written that keeps to the labels of its board.
LEMMA OneRowLabelled ==
    ASSUME CardsInv, LabelInv, NEW t \in 1 .. Len(tasks), NEW row \in Task,
           RowLabelled(row, labelLive), tasks' = [tasks EXCEPT ![t] = row],
           labelLive' = labelLive
    PROVE  /\ tasks'[t] = row
           /\ \A u \in DOMAIN tasks' : RowLabelled(tasks'[u], labelLive')
<1>1. tasks \in Seq(Task) /\ t \in DOMAIN tasks
  BY TaskRows DEF CardsInv, TypeOK
<1>2. /\ DOMAIN tasks' = DOMAIN tasks
      /\ \A u \in DOMAIN tasks : tasks'[u] = IF u = t THEN row ELSE tasks[u]
  BY <1>1, OneRow
<1>3. QED
  BY <1>1, <1>2 DEF LabelInv

\* A task that is to move has no labels from then on.
LEMMA ClearLabelsLabelled ==
    ASSUME CardsInv, LabelInv, OneAtATime, NEW r \in Reqs, ClearLabels(r)
    PROVE  LabelInv'
<1>1. /\ Doing(req[r]) /\ Names(req[r], Len(tasks)) /\ Labelled(req[r], tasks)
      /\ req[r].pc = "clearLabels" /\ Goto(r, "write") /\ labelLive' = labelLive
  BY ThisRequest DEF LabelInv, ClearLabels, At, OnlyTasks
<1>2. req[r].op = "moveProject"
  BY <1>1 DEF Labelled
<1>3. PICK t \in 1 .. Len(tasks) : t = req[r].task
  BY <1>1, <1>2 DEF Names, PatchOps
<1>4. t \in DOMAIN tasks /\ tasks[t] \in Task /\ RowLabelled(tasks[t], labelLive)
  BY TaskRows DEF CardsInv, LabelInv
<1>5. PICK row : row = [tasks[t] EXCEPT !.labels = {}, !.unchecked = FALSE]
  OBVIOUS
<1>6. row \in Task /\ row.labels = {}
  BY <1>4, <1>5 DEF Task
<1>7. RowLabelled(row, labelLive)
  BY <1>6 DEF RowLabelled, LabelsFit
<1>8. tasks' = [tasks EXCEPT ![t] = row]
  BY <1>3, <1>5 DEF ClearLabels
<1>9. tasks'[t] = row /\ \A u \in DOMAIN tasks' : RowLabelled(tasks'[u], labelLive')
  BY <1>1, <1>6, <1>7, <1>8, OneRowLabelled
<1>10. req'[r].pc = "write" /\ req'[r].op = "moveProject" /\ req'[r].task = t
  BY <1>1, <1>2, <1>3, GotoKeeps
<1>11. Labelled(req'[r], tasks')
  BY <1>6, <1>9, <1>10 DEF Labelled, CreateOps
<1>12. QED
  BY <1>9, <1>11, LabelMoves

\* What the UPDATE leaves: a task with labels of its board, or none on the board it moved to.
LEMMA WrittenLabelled ==
    ASSUME NEW row \in Task, NEW q \in Request, NEW live, RowLabelled(row, live),
           q.op \in {"setLabels", "addLabel"} =>
             q.labels \subseteq live /\ LabelsFit(q.labels, row.proj),
           q.op = "moveProject" => row.labels = {}
    PROVE  /\ RowLabelled(Written(row, q), live)
           /\ q.op # "moveProject" => Written(row, q).proj = row.proj
<1>1. PICK to : to = IF q.op = "moveProject" THEN MovedTo(row, q.proj) ELSE row
  OBVIOUS
<1>2. q.proj \in Projects
  BY DEF Request
<1>3. /\ to \in Task /\ to.unchecked = row.unchecked
      /\ q.op # "moveProject" => to.proj = row.proj
  BY <1>1, <1>2 DEF MovedTo, Task
<1>4. PICK list : list = CASE q.op = "move" -> q.list
                           [] q.op \in {"complete", "replay"} /\ q.list # NoList /\ q.list # q.row.list -> q.list
                           [] OTHER -> to.list
  OBVIOUS
<1>5. PICK status : status = CASE q.op \in {"move", "complete", "replay"} \cup PatchOps /\ q.status # "keep" -> q.status
                               [] q.op = "reopen" -> "TODO"
                               [] OTHER -> row.status
  OBVIOUS
<1>6. PICK labels : labels = CASE q.op = "setLabels" -> q.labels
                               [] q.op = "addLabel" -> row.labels \cup q.labels
                               [] q.op = "removeLabel" -> row.labels \ q.labels
                               [] OTHER -> row.labels
  OBVIOUS
<1>7. PICK remaining, unchecked, deleted :
          /\ remaining = IF q.op \in PatchOps /\ q.repeat # -1 THEN q.repeat ELSE row.remaining
          /\ unchecked = (to.unchecked /\ q.op # "setLabels")
          /\ deleted = IF q.op \in {"delete", "restore"} THEN q.op = "delete" ELSE to.deleted
  OBVIOUS
<1>8. Written(row, q) = [to EXCEPT !.list = list, !.status = status, !.labels = labels,
                                   !.remaining = remaining, !.unchecked = unchecked,
                                   !.deleted = deleted]
  BY <1>1, <1>3, <1>4, <1>5, <1>6, <1>7 DEF Written, Task
<1>9. /\ Written(row, q).proj = to.proj /\ Written(row, q).labels = labels
      /\ Written(row, q).unchecked = unchecked
  BY <1>3, <1>8 DEF Task
<1>10. ASSUME ~unchecked
       PROVE  labels \subseteq live /\ LabelsFit(labels, to.proj)
  <2>1. CASE q.op = "setLabels"
    BY <1>3, <1>6, <2>1
  <2>2. CASE q.op # "setLabels"
    <3>1. ~row.unchecked
      BY <1>3, <1>7, <1>10, <2>2
    <3>2. row.labels \subseteq live /\ LabelsFit(row.labels, row.proj)
      BY <3>1 DEF RowLabelled
    <3>3. CASE q.op = "moveProject"
      <4>1. labels = {}
        BY <1>6, <3>3
      <4>2. QED
        BY <4>1 DEF LabelsFit
    <3>4. CASE q.op # "moveProject"
      <4>1. \A x \in labels : x \in live /\ LabelOf[x] = row.proj
        BY <1>6, <2>2, <3>2 DEF LabelsFit
      <4>2. QED
        BY <1>3, <3>4, <4>1 DEF LabelsFit
    <3>5. QED
      BY <3>3, <3>4
  <2>3. QED
    BY <2>1, <2>2
<1>11. QED
  BY <1>3, <1>9, <1>10 DEF RowLabelled

\* The task is written with labels of its board.
LEMMA WriteLabelled ==
    ASSUME CardsInv, LabelInv, OneAtATime, NEW r \in Reqs, Write(r)
    PROVE  LabelInv'
<1>1. /\ req[r] \in Request /\ Doing(req[r]) /\ Names(req[r], Len(tasks))
      /\ Labelled(req[r], tasks) /\ req[r].pc = "write" /\ OnlyTasks /\ labelLive' = labelLive
  BY ThisRequest DEF LabelInv, Write, At, OnlyTasks
<1>2. req[r].op \in CardOps \cup PatchOps
  BY <1>1 DEF Doing
<1>3. PICK t \in 1 .. Len(tasks) : t = req[r].task
  BY <1>1, <1>2 DEF Names
<1>4. t \in DOMAIN tasks /\ tasks[t] \in Task /\ RowLabelled(tasks[t], labelLive)
  BY TaskRows DEF CardsInv, LabelInv
<1>5. CASE UNCHANGED tasks /\ End(r)
  BY <1>1, <1>5, LabelEndsRead DEF ReadOnly
<1>6. CASE ~(UNCHANGED tasks /\ End(r))
  <2>1. PICK row : row = Written(tasks[t], req[r])
    OBVIOUS
  <2>2. /\ tasks' = [tasks EXCEPT ![t] = row]
        /\ req[r].op \in {"setLabels", "addLabel"} => req[r].labels \subseteq labelLive
    BY <1>3, <1>6, <2>1 DEF Write
  <2>3. /\ req[r].op \in {"setLabels", "addLabel"} => LabelsFit(req[r].labels, tasks[t].proj)
        /\ req[r].op = "relabel" /\ ~req[r].unchecked => LabelsFit(req[r].labels, tasks[t].proj)
        /\ req[r].op = "moveProject" => tasks[t].labels = {}
        /\ req[r].op = "complete" => req[r].row.proj = tasks[t].proj
    BY <1>1, <1>3 DEF Labelled
  <2>4. /\ RowLabelled(row, labelLive)
        /\ req[r].op # "moveProject" => row.proj = tasks[t].proj
    BY <1>1, <1>4, <2>1, <2>2, <2>3, WrittenLabelled
  <2>5. req[r].status # "none"
    BY <1>1, <1>2 DEF Doing, CardOps, PatchOps
  <2>6. row \in Task
    BY <1>1, <1>4, <2>1, <2>5, WrittenTask
  <2>7. tasks'[t] = row /\ \A u \in DOMAIN tasks' : RowLabelled(tasks'[u], labelLive')
    BY <1>1, <2>2, <2>4, <2>6, OneRowLabelled
  <2>8. CASE End(r)
    BY <2>7, <2>8, LabelEnds
  <2>9. CASE ~End(r)
    <3>1. PICK pc : /\ Goto(r, pc)
                    /\ \/ pc = "writeLabels" /\ req[r].op = "relabel"
                       \/ pc = "spawn" /\ req[r].op = "complete"
      BY <1>6, <2>9 DEF Write
    <3>2. /\ req'[r].pc = pc /\ req'[r].op = req[r].op /\ req'[r].row = req[r].row
          /\ req'[r].labels = req[r].labels /\ req'[r].task = t
          /\ req'[r].unchecked = req[r].unchecked
      BY <1>3, <3>1, GotoKeeps
    <3>3. req[r].op \notin CreateOps
      BY <1>2 DEF CardOps, PatchOps, CreateOps
    <3>4. CASE pc = "writeLabels" /\ req[r].op = "relabel"
      <4>1. ~req[r].unchecked => LabelsFit(req[r].labels, row.proj)
        BY <2>3, <2>4, <3>4
      <4>2. Labelled(req'[r], tasks')
        BY <2>7, <3>2, <3>3, <3>4, <4>1 DEF Labelled
      <4>3. QED
        BY <2>7, <4>2, LabelMoves
    <3>5. CASE pc = "spawn" /\ req[r].op = "complete"
      <4>1. Labelled(req'[r], tasks')
        BY <2>3, <2>4, <2>7, <3>2, <3>3, <3>5 DEF Labelled
      <4>2. QED
        BY <2>7, <4>1, LabelMoves
    <3>6. QED
      BY <3>1, <3>4, <3>5
  <2>10. QED
    BY <2>8, <2>9
<1>7. QED
  BY <1>5, <1>6

\* The labels that were checked, or copied, are set.
LEMMA WriteLabelsLabelled ==
    ASSUME CardsInv, LabelInv, OneAtATime, NEW r \in Reqs, WriteLabels(r)
    PROVE  LabelInv'
<1>1. /\ req[r] \in Request /\ Names(req[r], Len(tasks)) /\ Labelled(req[r], tasks)
      /\ req[r].pc = "writeLabels" /\ OnlyTasks /\ labelLive' = labelLive /\ End(r)
  BY ThisRequest DEF LabelInv, WriteLabels, At, OnlyTasks
<1>2. PICK t \in 1 .. Len(tasks) : t = req[r].task
  BY <1>1 DEF Names
<1>3. /\ t \in DOMAIN tasks /\ tasks[t] \in Task /\ RowLabelled(tasks[t], labelLive)
      /\ req[r].labels \subseteq Labels
      /\ req[r].unchecked \in BOOLEAN
      /\ ~req[r].unchecked => LabelsFit(req[r].labels, tasks[t].proj)
  BY <1>1, <1>2, TaskRows DEF CardsInv, LabelInv, Labelled, Request
<1>4. CASE UNCHANGED tasks
  BY <1>1, <1>4, LabelEndsRead DEF ReadOnly
<1>5. CASE ~UNCHANGED tasks
  <2>1. PICK row : row = [tasks[t] EXCEPT !.labels = req[r].labels, !.unchecked = req[r].unchecked]
    OBVIOUS
  <2>2. /\ row \in Task /\ row.proj = tasks[t].proj /\ row.labels = req[r].labels
        /\ row.unchecked = req[r].unchecked
    BY <1>3, <2>1 DEF Task
  <2>3. tasks' = [tasks EXCEPT ![t] = row] /\ req[r].labels \subseteq labelLive
    BY <1>2, <1>5, <2>1 DEF WriteLabels
  <2>4. RowLabelled(row, labelLive)
    BY <1>3, <2>2, <2>3 DEF RowLabelled
  <2>5. \A u \in DOMAIN tasks' : RowLabelled(tasks'[u], labelLive')
    BY <1>1, <2>2, <2>3, <2>4, OneRowLabelled
  <2>6. QED
    BY <1>1, <2>5, LabelEnds
<1>6. QED
  BY <1>4, <1>5

\* The next occurrence starts without labels, in the project of the one completed.
LEMMA SpawnLabelled ==
    ASSUME CardsInv, LabelInv, OneAtATime, NEW r \in Reqs, Spawn(r)
    PROVE  LabelInv'
<1>1. /\ req[r] \in Request /\ req \in [Reqs -> Request] /\ Doing(req[r])
      /\ Names(req[r], Len(tasks)) /\ Labelled(req[r], tasks)
      /\ req[r].pc = "spawn" /\ labelLive' = labelLive
  BY ThisRequest DEF LabelInv, Spawn, At, OnlyTasks, CardsInv, TypeOK
<1>2. req[r].op = "complete" /\ req[r].row \in Task
  BY <1>1 DEF Labelled, Request
<1>3. PICK t \in 1 .. Len(tasks) : t = req[r].task
  BY <1>1, <1>2 DEF Names, CardOps
<1>4. req[r].row.proj = tasks[t].proj
  BY <1>1, <1>2, <1>3 DEF Labelled
<1>5. PICK row : row = Occurrence(req[r].row)
  OBVIOUS
<1>6. row.proj = req[r].row.proj /\ row.labels = {}
  BY <1>2, <1>5 DEF Occurrence, Task
<1>7. RowLabelled(row, labelLive)
  BY <1>6 DEF RowLabelled, LabelsFit
<1>8. tasks' = Append(tasks, row)
  BY <1>5 DEF Spawn
<1>9. /\ tasks'[t] = tasks[t] /\ tasks'[Len(tasks) + 1] = row
       /\ \A u \in DOMAIN tasks' : RowLabelled(tasks'[u], labelLive')
  BY <1>1, <1>7, <1>8, AddedLabelled
<1>10. PICK n : n = Len(tasks) + 1
  OBVIOUS
<1>11. req'[r] = [req[r] EXCEPT !.pc = "copyLabels", !.next = n]
  BY <1>1, <1>10 DEF Spawn
<1>12. /\ req'[r].pc = "copyLabels" /\ req'[r].op = "complete" /\ req'[r].row = req[r].row
       /\ req'[r].task = t /\ req'[r].next = n
  BY <1>1, <1>2, <1>3, <1>11 DEF Request
<1>13. Labelled(req'[r], tasks')
  BY <1>2, <1>4, <1>6, <1>9, <1>10, <1>12 DEF Labelled, CreateOps
<1>14. QED
  BY <1>9, <1>13, LabelMoves

\* The labels of the completed card are labels of the project of the next one, if it has any
\* that were checked.
LEMMA CopyLabelsLabelled ==
    ASSUME CardsInv, LabelInv, OneAtATime, NEW r \in Reqs, CopyLabels(r)
    PROVE  LabelInv'
<1>1. /\ req[r] \in Request /\ req \in [Reqs -> Request] /\ Doing(req[r])
      /\ Names(req[r], Len(tasks)) /\ Labelled(req[r], tasks)
      /\ req[r].pc = "copyLabels" /\ ReadOnly
  BY ThisRequest DEF LabelInv, CopyLabels, At, CardsInv, TypeOK
<1>2. req[r].op = "complete"
  BY <1>1 DEF Labelled
<1>3. PICK t \in 1 .. Len(tasks) : t = req[r].task
  BY <1>1, <1>2 DEF Names, CardOps
<1>4. PICK labels, b, n : labels = tasks[t].labels /\ b = tasks[t].unchecked /\ n = req[r].next
  OBVIOUS
<1>5. /\ RowLabelled(tasks[t], labelLive) /\ req[r].row.proj = tasks[t].proj
      /\ req[r].row.proj = tasks[n].proj
  BY <1>1, <1>2, <1>3, <1>4, TaskRows DEF CardsInv, LabelInv, Labelled
<1>6. ~b => LabelsFit(labels, tasks[n].proj)
  BY <1>4, <1>5 DEF RowLabelled
<1>7. CASE End(r)
  BY <1>1, <1>7, LabelEndsRead
<1>8. CASE ~End(r)
  <2>1. req'[r] = [req[r] EXCEPT !.pc = "writeLabels", !.task = n, !.labels = labels,
                                 !.unchecked = b]
    BY <1>1, <1>3, <1>4, <1>8 DEF CopyLabels
  <2>2. /\ req'[r].pc = "writeLabels" /\ req'[r].op = "complete" /\ req'[r].task = n
        /\ req'[r].labels = labels /\ req'[r].unchecked = b
    BY <1>1, <1>2, <2>1 DEF Request
  <2>3. Labelled(req'[r], tasks)
    BY <1>6, <2>2 DEF Labelled, CreateOps
  <2>4. QED
    BY <1>1, <2>3, LabelReads
<1>9. QED
  BY <1>7, <1>8

\* Cards that leave an archived list keep their labels.
LEMMA ListsLabelled ==
    ASSUME CardsInv, LabelInv, OneAtATime, NEW r \in Reqs, ReleaseCards(r) \/ WriteList(r)
    PROVE  LabelInv'
<1>1. /\ req[r] \in Request /\ req \in [Reqs -> Request] /\ Doing(req[r])
      /\ Labelled(req[r], tasks) /\ req[r].pc \in {"releaseCards", "writeList"}
  BY ThisRequest DEF LabelInv, ReleaseCards, WriteList, At, CardsInv, TypeOK
<1>2. CASE ReleaseCards(r)
  <2>1. PICK l : l = req[r].list
    OBVIOUS
  <2>2. /\ DOMAIN tasks' = DOMAIN tasks /\ labelLive' = labelLive
        /\ \A t \in DOMAIN tasks :
             tasks'[t] = IF tasks[t].list = l THEN [tasks[t] EXCEPT !.list = NoList] ELSE tasks[t]
        /\ req'[r] = [req[r] EXCEPT !.pc = "writeList", !.archived = "keep"]
    BY <1>1, <1>2, <2>1 DEF ReleaseCards
  <2>3. ASSUME NEW t \in DOMAIN tasks PROVE RowLabelled(tasks'[t], labelLive')
    <3>1. tasks[t] \in Task /\ RowLabelled(tasks[t], labelLive)
      BY TaskRows DEF CardsInv, LabelInv
    <3>2. /\ tasks'[t].proj = tasks[t].proj /\ tasks'[t].labels = tasks[t].labels
          /\ tasks'[t].unchecked = tasks[t].unchecked
      BY <2>2, <3>1 DEF Task
    <3>3. QED
      BY <2>2, <3>1, <3>2, SameLabelled
  <2>4. req'[r].pc = "writeList" /\ req'[r].op = req[r].op /\ req'[r].row = req[r].row
    BY <1>1, <2>2 DEF Request
  <2>5. Labelled(req'[r], tasks')
    BY <1>1, <2>4 DEF Labelled
  <2>6. QED
    BY <2>2, <2>3, <2>5, LabelMoves
<1>3. CASE WriteList(r)
  <2>1. tasks' = tasks /\ labelLive' = labelLive /\ End(r)
    BY <1>3 DEF WriteList, OnlyLists
  <2>2. \A t \in DOMAIN tasks' : RowLabelled(tasks'[t], labelLive')
    BY <2>1 DEF LabelInv
  <2>3. QED
    BY <2>1, <2>2, LabelEnds
<1>4. QED
  BY <1>2, <1>3

\* A label that is deleted is deleted on the tasks too; a list or a label that is made changes none.
LEMMA TablesLabelled ==
    ASSUME CardsInv, LabelInv, CreateList \/ CreateLabel \/ DeleteLabel
    PROVE  LabelInv'
<1>1. UNCHANGED req
  BY DEF CreateList, CreateLabel, DeleteLabel
<1>2. CASE CreateList \/ CreateLabel
  <2>1. tasks' = tasks /\ labelLive \subseteq labelLive'
    BY <1>2 DEF CreateList, CreateLabel, OnlyLists
  <2>2. QED
    BY <1>1, <2>1 DEF LabelInv, RowLabelled
<1>3. CASE DeleteLabel
  <2>1. PICK x \in labelLive :
          /\ labelLive' = labelLive \ {x}
          /\ tasks' = [t \in DOMAIN tasks |-> [tasks[t] EXCEPT !.labels = @ \ {x}]]
    BY <1>3 DEF DeleteLabel
  <2>2. \A t \in DOMAIN tasks :
          /\ tasks'[t].proj = tasks[t].proj /\ tasks'[t].unchecked = tasks[t].unchecked
          /\ tasks'[t].labels = tasks[t].labels \ {x}
    BY <2>1, TaskRows DEF CardsInv, Task
  <2>3. DOMAIN tasks' = DOMAIN tasks
    BY <2>1
  <2>4. \A t \in DOMAIN tasks : RowLabelled(tasks'[t], labelLive')
    BY <2>1, <2>2 DEF LabelInv, RowLabelled, LabelsFit
  <2>5. ASSUME NEW r \in Reqs PROVE Labelled(req[r], tasks')
    <3>1. /\ Doing(req[r]) /\ Names(req[r], Len(tasks)) /\ Labelled(req[r], tasks)
      BY ThisRequest DEF LabelInv
    <3>2. /\ req[r].op \in CardOps \cup PatchOps \/ req[r].pc = "writeLabels" =>
               req[r].task \in DOMAIN tasks
          /\ req[r].pc = "copyLabels" => req[r].next \in DOMAIN tasks
      BY <3>1, TaskRows DEF Names, CardsInv
    <3>3. /\ req[r].pc \in {"findDone", "write", "spawn", "copyLabels"} =>
               req[r].op \in CardOps \cup PatchOps
          /\ req[r].pc = "checkLabels" /\ req[r].op \notin CreateOps =>
               req[r].op \in CardOps \cup PatchOps
      BY <3>1 DEF Doing, CardOps, PatchOps
    <3>4. QED
      BY <2>2, <3>1, <3>2, <3>3 DEF Labelled
  <2>6. QED
    BY <1>1, <2>3, <2>4, <2>5 DEF LabelInv
<1>4. QED
  BY <1>2, <1>3

\* At first no task has a label.
LEMMA LabelStart == Init => LabelInv
<1> SUFFICES ASSUME Init PROVE LabelInv
  OBVIOUS
<1>1. PICK n \in 0 .. Orphans : tasks \in [1 .. n -> OldRows]
  BY DEF Init
<1>2. \A t \in DOMAIN tasks : tasks[t].labels = {}
  BY <1>1 DEF OldRows
<1>3. \A r \in Reqs : req[r] = Idle
  BY DEF Init
<1>4. QED
  BY <1>2, <1>3, IdleLabelled DEF LabelInv, RowLabelled, LabelsFit

\* Every step of the one request keeps the labels of the tasks on their boards.
LEMMA LabelStep ==
    ASSUME OneAtATime
    PROVE  CardsInv /\ SerialInv /\ LabelInv /\ [Next]_vars => LabelInv'
<1> SUFFICES ASSUME CardsInv, SerialInv, LabelInv, [Next]_vars PROVE LabelInv'
  OBVIOUS
<1>1. CASE UNCHANGED vars
  BY <1>1 DEF vars, LabelInv
<1>2. CASE CreateList \/ CreateLabel \/ DeleteLabel
  BY <1>2, TablesLabelled
<1>3. ASSUME NEW r \in Reqs,
             \/ ArriveCard(r) \/ ArrivePatch(r) \/ ArriveCreate(r) \/ ArriveOpen(r)
             \/ ArriveUpdateList(r)
      PROVE  LabelInv'
  BY <1>3, ArriveLabelled
<1>4. ASSUME NEW r \in Reqs, Access(r) PROVE LabelInv'
  BY <1>4, ReadCardLabelled, EnsureLabelled, SeedLabelled, AdoptLabelled, GatherLabelled, ReadListLabelled
     DEF Access
<1>5. ASSUME NEW r \in Reqs, Work(r) PROVE LabelInv'
  BY <1>5, FindLabelled, CheckLabelsLabelled, InsertLabelled, ReadTaskLabelled, ClearLabelsLabelled,
     WriteLabelled, WriteLabelsLabelled, SpawnLabelled, CopyLabelsLabelled, ListsLabelled DEF Work
<1>6. ASSUME NEW r \in Reqs, RequestFails(r) PROVE LabelInv'
  BY <1>6, LabelEndsRead DEF RequestFails
<1>7. QED
  BY <1>1, <1>2, <1>3, <1>4, <1>5, <1>6 DEF Next

-----------------------------------------------------------------------------
(* The theorems. *)

\* At any moment, whatever requests interleave, every row of the tables is one the schema allows
\* and every request under way holds a task, a list and a board that exist.
THEOREM CardsTyped == Spec => []TypeOK
<1>1. CardsInv => TypeOK
  BY DEF CardsInv
<1>2. QED
  BY CardsStart, CardsStep, <1>1, PTL DEF Spec

\* For an account that only has tasks, and none from before there were boards, every task is on
\* the board of its project at any moment, whatever requests interleave or break off: creating,
\* opening, moving, completing, patching, restoring and repeating never leave one behind.
THEOREM TasksStayBoarded == ASSUME Orphans = 0, Kinds = {"TASK"} PROVE Spec => []BoardFollowsProject
<1>1. CardsInv => BoardFollowsProject
  BY DEF CardsInv, Boarded
<1>2. QED
  BY CardsStart, CardsStep, <1>1, PTL DEF Spec

\* While an account is served one request at a time, in any order and with requests that break
\* off halfway, every task that is on a board is on the board of its own project.
THEOREM BoardsHoldTheirProject == ASSUME OneAtATime PROVE Spec => []BoardedOnOwnProject
<1>1. SerialInv => BoardedOnOwnProject
  BY DEF SerialInv, RowFits, BoardedOnOwnProject
<1>2. QED
  BY CardsStart, CardsStep, SerialStart, SerialStep, <1>1, PTL DEF Spec

\* Then also a task in a list is on the board of that list, and the list exists: the board shows it.
THEOREM ListsAreOnTheBoard == ASSUME OneAtATime PROVE Spec => []ListOnBoard
<1>1. SerialInv => ListOnBoard
  BY DEF SerialInv, RowFits, ListOnBoard
<1>2. QED
  BY CardsStart, CardsStep, SerialStart, SerialStep, <1>1, PTL DEF Spec

\* And a list that becomes archived has no task left in it.
THEOREM ArchivedListsAreLeft == ASSUME OneAtATime PROVE Spec => ArchivingReleases
<1>1. ASSUME CardsInv, SerialInv, [Next]_vars
      PROVE  [\A l \in Lists : ~lists[l].archived /\ lists'[l].archived
                                 => \A t \in DOMAIN tasks' : tasks'[t].list # l]_vars
  BY <1>1, ArchivingStep
<1>2. QED
  BY CardsStart, CardsStep, SerialStart, SerialStep, <1>1, PTL DEF Spec, ArchivingReleases

\* While an account is served one request at a time, every task carries labels that exist, of the
\* board of its project: also after it changed project, was spawned, was put on a board or lost
\* a label.  Only the labels that a PATCH gave to a task or an event without a board, which
\* nothing checks, may be others, on that task and on the occurrences that copy them from it.
THEOREM LabelsFollowTheBoard == ASSUME OneAtATime PROVE Spec => []LabelsOnBoard
<1>1. LabelInv => LabelsOnBoard
  BY DEF LabelInv, RowLabelled, LabelsOnBoard, LabelsOf, LabelsFit
<1>2. QED
  BY CardsStart, CardsStep, SerialStart, SerialStep, LabelStart, LabelStep, <1>1, PTL DEF Spec

=============================================================================
