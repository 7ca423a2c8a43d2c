--------------------------- MODULE Projects_proofs ---------------------------
(***************************************************************************)
(* What the runs of Projects show on small instances, for any number of    *)
(* requests, projects and bodies.                                          *)
(***************************************************************************)
EXTENDS Projects, WellFoundedInduction, FiniteSetTheorems, TLAPS

\* What a request still knows of the body it came with, once it is under way:
\* a new project has a code and a name, PUT /archive touches neither.
BodyOK ==
    \A r \in Reqs :
        /\ At(r, "read") => req[r].op \in IdOps /\ req[r].id \in Ids
        /\ req[r].op = "archive" => req[r].dto.code = "keep"
        /\ req[r].pc \in {"countForCreate", "checkCreate", "insert"} =>
              req[r].dto.code # "keep" /\ req[r].dto.name # "keep"

WritePcs  == {"checkFree", "countForArchive", "pickNext", "moveFlag", "update"}
RemovePcs == {"countTasks", "countForRemove", "delete"}

\* No request that has passed the checks of ReadProject can harm the system
\* project any more, however old the row is that it checked.
SafeRequest(q) ==
    q.id = 1 => /\ q.pc \notin RemovePcs
                /\ q.pc \in WritePcs => q.dto.archived # "yes" /\ q.dto.code \in {"keep", "CHUNG"}

SystemSafe ==
    /\ projects[1].code = "CHUNG" /\ ~projects[1].archived /\ nextId > 1
    /\ \A r \in Reqs : SafeRequest(req[r])

-----------------------------------------------------------------------------
(* The operators.                                                          *)

\* findFirst in creation order returns one of the rows it looks at.
LEMMA OldestIn ==
    ASSUME NEW S \in SUBSET Ids, S # {}
    PROVE  Oldest(S) \in S
<1>1. S \subseteq Nat
  BY ProjectsAssumption DEF Ids
<1>2. PICK p \in S : \A q \in S : ~(<<q, p>> \in OpToRel(<, Nat))
  BY <1>1, NatLessThanWellFounded, WFMin
<1>3. ASSUME NEW q \in S PROVE p <= q
  <2>1. ~(<<q, p>> \in {ss \in Nat \X Nat : ss[1] < ss[2]})
    BY <1>2 DEF OpToRel
  <2>2. ~(q < p)
    BY <1>1, <2>1
  <2>3. QED
    BY <1>1, <2>2
<1>4. \A q \in S : p <= q
  BY <1>3
<1>5. QED
  BY <1>4 DEF Oldest

\* setDefault keeps rows rows and sets no other flag than that of p.
LEMMA WithDefaultFacts ==
    ASSUME projects \in [Ids -> Row \cup {Absent}], NEW p
    PROVE  /\ WithDefault(p) \in [Ids -> Row \cup {Absent}]
           /\ \A q \in Ids : /\ WithDefault(p)[q].isDefault => q = p
                             /\ WithDefault(p)[q].code = projects[q].code
                             /\ WithDefault(p)[q].archived = projects[q].archived
<1>1. ASSUME NEW q \in Ids
      PROVE  /\ WithDefault(p)[q] \in Row \cup {Absent}
             /\ WithDefault(p)[q].isDefault => q = p
             /\ WithDefault(p)[q].code = projects[q].code
             /\ WithDefault(p)[q].archived = projects[q].archived
  <2>1. CASE projects[q] = Absent
    <3>1. WithDefault(p)[q] = Absent
      BY <2>1 DEF WithDefault, Live
    <3>2. QED
      BY <2>1, <3>1 DEF Absent
  <2>2. CASE projects[q] \in Row /\ projects[q] # Absent
    <3>1. WithDefault(p)[q] = [projects[q] EXCEPT !.isDefault = (q = p)]
      BY <2>2 DEF WithDefault, Live
    <3>2. CASE q = p
      <4>1. (q = p) = TRUE
        BY <3>2
      <4>2. WithDefault(p)[q] = [projects[q] EXCEPT !.isDefault = TRUE]
        BY <3>1, <4>1, Zenon
      <4>3. QED
        BY <2>2, <3>2, <4>2 DEF Row
    <3>3. CASE q # p
      <4>1. (q = p) = FALSE
        BY <3>3
      <4>2. WithDefault(p)[q] = [projects[q] EXCEPT !.isDefault = FALSE]
        BY <3>1, <4>1, Zenon
      <4>3. QED
        BY <2>2, <4>2 DEF Row
    <3>4. QED
      BY <3>2, <3>3
  <2>3. QED
    BY <2>1, <2>2
<1>2. WithDefault(p) = [q \in Ids |-> WithDefault(p)[q]]
  BY DEF WithDefault
<1>3. QED
  BY <1>1, <1>2

\* An update of a row is a row.
LEMMA UpdatedRow ==
    ASSUME NEW row \in Row, NEW dto \in Dto
    PROVE  /\ Updated(row, dto) \in Row
           /\ Updated(row, dto).isDefault = row.isDefault
  BY DEF Updated, Row, Dto

\* A new project is a row without the default flag.
LEMMA NewRow ==
    ASSUME NEW dto \in Dto, dto.code # "keep", dto.name # "keep"
    PROVE  /\ Updated([Absent EXCEPT !.code = "OTHER"], dto) \in Row
           /\ Updated([Absent EXCEPT !.code = "OTHER"], dto).isDefault = FALSE
  BY DEF Updated, Row, Dto, Absent

-----------------------------------------------------------------------------
(* Type correctness.                                                       *)

TypeInv == TypeOK /\ BodyOK

\* The ways in which a request goes on keep the request slots well formed.
LEMMA Steps ==
    ASSUME TypeInv, NEW r \in Reqs
    PROVE  /\ End(r) => req' \in [Reqs -> Request] /\ BodyOK'
           /\ \A pc \in Pcs \ {"read", "countForCreate", "checkCreate", "insert"} :
                 Goto(r, pc) => req' \in [Reqs -> Request] /\ BodyOK'
           /\ \A p \in Ids :
                 /\ req' = [req EXCEPT ![r].pc = "opened", ![r].id = p]
                       => req' \in [Reqs -> Request] /\ BodyOK'
                 /\ req' = [req EXCEPT ![r].pc = "giveFlag", ![r].to = p]
                       => req' \in [Reqs -> Request] /\ BodyOK'
<1>. USE DEF TypeInv, TypeOK, BodyOK, At, Request
<1>1. ASSUME End(r)
      PROVE  req' \in [Reqs -> Request] /\ BodyOK'
  <2>1. Idle \in Request
    BY DEF Idle, NoDto, Dto, Absent, Pcs
  <2>2. req' = [req EXCEPT ![r] = Idle]
    BY <1>1 DEF End
  <2>3. req' \in [Reqs -> Request]
    BY <2>1, <2>2
  <2>4. \A q \in Reqs : req'[q] = IF q = r THEN Idle ELSE req[q]
    BY <2>2
  <2>5. Idle.pc = "idle" /\ Idle.op = "none"
    BY DEF Idle
  <2>6. QED
    BY <2>3, <2>4, <2>5
<1>2. ASSUME NEW pc \in Pcs \ {"read", "countForCreate", "checkCreate", "insert"}, Goto(r, pc)
      PROVE  req' \in [Reqs -> Request] /\ BodyOK'
  <2>1. req' \in [Reqs -> Request]
    BY <1>2 DEF Goto
  <2>2. \A q \in Reqs : /\ q # r => req'[q] = req[q]
                       /\ req'[q].op = req[q].op /\ req'[q].dto = req[q].dto
    BY <1>2 DEF Goto
  <2>3. req'[r].pc = pc
    BY <1>2 DEF Goto
  <2>4. QED
    BY <1>2, <2>1, <2>2, <2>3
<1>3. ASSUME NEW p \in Ids, req' = [req EXCEPT ![r].pc = "opened", ![r].id = p]
      PROVE  req' \in [Reqs -> Request] /\ BodyOK'
  <2>1. req' \in [Reqs -> Request]
    <3>1. [req[r] EXCEPT !.pc = "opened", !.id = p] \in Request
      BY DEF Pcs
    <3>2. QED
      BY <1>3, <3>1
  <2>2. \A q \in Reqs : /\ q # r => req'[q] = req[q]
                       /\ req'[q].op = req[q].op /\ req'[q].dto = req[q].dto
    BY <1>3
  <2>3. req'[r].pc = "opened"
    BY <1>3
  <2>4. QED
    BY <1>3, <2>1, <2>2, <2>3
<1>4. ASSUME NEW p \in Ids, req' = [req EXCEPT ![r].pc = "giveFlag", ![r].to = p]
      PROVE  req' \in [Reqs -> Request] /\ BodyOK'
  <2>1. req' \in [Reqs -> Request]
    <3>1. [req[r] EXCEPT !.pc = "giveFlag", !.to = p] \in Request
      BY DEF Pcs
    <3>2. QED
      BY <1>4, <3>1
  <2>2. \A q \in Reqs : /\ q # r => req'[q] = req[q]
                       /\ req'[q].op = req[q].op /\ req'[q].dto = req[q].dto
    BY <1>4
  <2>3. req'[r].pc = "giveFlag"
    BY <1>4
  <2>4. QED
    BY <1>4, <2>1, <2>2, <2>3
<1>5. QED
  BY <1>1, <1>2, <1>3, <1>4

\* The sets of rows that findFirst looks at hold ids.
LEMMA RowSets ==
    /\ Live \subseteq Ids /\ Active \subseteq Ids /\ Defaults \subseteq Ids
    /\ System \subseteq Ids /\ UsableDefault \subseteq Ids
  BY DEF Live, Active, Defaults, System, UsableDefault

\* A request that arrives with a legal body.
LEMMA ArriveStep ==
    ASSUME TypeInv, NEW r \in Reqs, NEW op \in EnsureOps \cup IdOps \cup {"create"},
           NEW id \in Ids \cup {NoId}, NEW dto \in Dto, NEW pc \in Pcs,
           Arrive(r, op, id, dto, pc),
           pc = "read" => op \in IdOps /\ id \in Ids,
           op = "archive" => dto.code = "keep",
           pc \in {"countForCreate", "checkCreate", "insert"} =>
              dto.code # "keep" /\ dto.name # "keep"
    PROVE  TypeInv'
<1>. DEFINE new == [op |-> op, pc |-> pc, id |-> id, dto |-> dto, row |-> Absent, to |-> NoId]
<1>1. new \in Request
  BY DEF Request
<1>2. req' = [req EXCEPT ![r] = new] /\ ReadOnly
  BY DEF Arrive
<1>3. req' \in [Reqs -> Request]
  BY <1>1, <1>2 DEF TypeInv, TypeOK
<1>4. \A q \in Reqs : req'[q] = IF q = r THEN new ELSE req[q]
  BY <1>2 DEF TypeInv, TypeOK
<1>5. new.pc = pc /\ new.op = op /\ new.dto = dto /\ new.id = id
  OBVIOUS
<1>. HIDE DEF new
<1>6. BodyOK'
  BY <1>4, <1>5 DEF BodyOK, At, TypeInv
<1>7. QED
  BY <1>2, <1>3, <1>6 DEF TypeInv, TypeOK, ReadOnly

\* The actions of ensureDefaultProject.
LEMMA EnsureStep ==
    ASSUME TypeInv, NEW r \in Reqs, Ensure(r)
    PROVE  TypeInv'
<1>. USE DEF TypeInv, TypeOK
<1>1. CASE FindDefault(r)
  <2>1. CASE UsableDefault # {}
    <3>1. Oldest(UsableDefault) \in Ids
      BY <2>1, OldestIn, RowSets
    <3>2. Opened(r, Oldest(UsableDefault)) /\ ReadOnly
      BY <1>1, <2>1 DEF FindDefault
    <3>3. QED
      BY <3>1, <3>2, Steps DEF ReadOnly, Opened, GoGiveFlag
  <2>2. CASE UsableDefault = {}
    <3>1. Goto(r, "findOldest") /\ ReadOnly
      BY <1>1, <2>2 DEF FindDefault
    <3>2. QED
      BY <3>1, Steps DEF ReadOnly, Pcs
  <2>3. QED
    BY <2>1, <2>2
<1>2. CASE FindOldest(r)
  <2>1. CASE Active # {}
    <3>1. Oldest(Active) \in Ids
      BY <2>1, OldestIn, RowSets
    <3>2. GoGiveFlag(r, Oldest(Active)) /\ ReadOnly
      BY <1>2, <2>1 DEF FindOldest
    <3>3. QED
      BY <3>1, <3>2, Steps DEF ReadOnly, Opened, GoGiveFlag
  <2>2. CASE Active = {}
    <3>1. Goto(r, "findChung") /\ ReadOnly
      BY <1>2, <2>2 DEF FindOldest
    <3>2. QED
      BY <3>1, Steps DEF ReadOnly, Pcs
  <2>3. QED
    BY <2>1, <2>2
<1>3. CASE FindChung(r)
  <2>1. CASE System # {}
    <3>1. Oldest(System) \in Ids
      BY <2>1, OldestIn, RowSets
    <3>2. [req[r] EXCEPT !.pc = "revive", !.id = Oldest(System)] \in Request
      BY <3>1 DEF Request, Pcs
    <3>3. req' = [req EXCEPT ![r].pc = "revive", ![r].id = Oldest(System)] /\ ReadOnly
      BY <1>3, <2>1 DEF FindChung
    <3>4. req' \in [Reqs -> Request]
      BY <3>2, <3>3
    <3>5. BodyOK'
      BY <3>3 DEF BodyOK, At, Request
    <3>6. QED
      BY <3>3, <3>4, <3>5 DEF ReadOnly
  <2>2. CASE System = {}
    <3>1. Goto(r, "insertChung") /\ ReadOnly
      BY <1>3, <2>2 DEF FindChung
    <3>2. QED
      BY <3>1, Steps DEF ReadOnly, Pcs
  <2>3. QED
    BY <2>1, <2>2
<1>4. CASE Revive(r)
  <2>1. CASE req[r].id \in Live
    <3>1. req[r].id \in Ids /\ projects[req[r].id] \in Row
      BY <2>1 DEF Live
    <3>2. GoGiveFlag(r, req[r].id)
      BY <1>4, <2>1 DEF Revive
    <3>3. [projects[req[r].id] EXCEPT !.archived = FALSE] \in Row
      BY <3>1 DEF Row
    <3>4. projects' = [projects EXCEPT ![req[r].id].archived = FALSE]
      BY <1>4, <2>1 DEF Revive
    <3>5. projects' \in [Ids -> Row \cup {Absent}]
      BY <3>1, <3>3, <3>4
    <3>6. UNCHANGED <<nextId, hasTasks>>
      BY <1>4 DEF Revive
    <3>7. QED
      BY <3>1, <3>2, <3>5, <3>6, Steps DEF GoGiveFlag
  <2>2. CASE req[r].id \notin Live
    <3>1. End(r) /\ ReadOnly
      BY <1>4, <2>2 DEF Revive, ReadOnly
    <3>2. QED
      BY <3>1, Steps DEF ReadOnly
  <2>3. QED
    BY <2>1, <2>2
<1>5. CASE InsertChung(r)
  <2>1. Chung \in Row
    BY DEF Chung, Row
  <2>2. nextId \in Ids /\ nextId + 1 \in 1..(MaxProjects + 1)
    BY <1>5, ProjectsAssumption DEF InsertChung, Ids
  <2>3. projects' \in [Ids -> Row \cup {Absent}]
    BY <1>5, <2>1 DEF InsertChung
  <2>4. Opened(r, nextId)
    BY <1>5 DEF InsertChung
  <2>5. QED
    BY <1>5, <2>2, <2>3, <2>4, Steps DEF InsertChung, Opened
<1>6. CASE InsertChungFails(r)
  BY <1>6, Steps DEF InsertChungFails, ReadOnly, Pcs
<1>7. CASE FallbackDefault(r)
  <2>1. CASE Defaults # {}
    <3>1. Oldest(Defaults) \in Ids
      BY <2>1, OldestIn, RowSets
    <3>2. Opened(r, Oldest(Defaults)) /\ ReadOnly
      BY <1>7, <2>1 DEF FallbackDefault
    <3>3. QED
      BY <3>1, <3>2, Steps DEF ReadOnly, Opened, GoGiveFlag
  <2>2. CASE Defaults = {}
    <3>1. Goto(r, "fallbackCode") /\ ReadOnly
      BY <1>7, <2>2 DEF FallbackDefault
    <3>2. QED
      BY <3>1, Steps DEF ReadOnly, Pcs
  <2>3. QED
    BY <2>1, <2>2
<1>8. CASE FallbackCode(r)
  <2>1. CASE System # {}
    <3>1. Oldest(System) \in Ids
      BY <2>1, OldestIn, RowSets
    <3>2. Opened(r, Oldest(System)) /\ ReadOnly
      BY <1>8, <2>1 DEF FallbackCode
    <3>3. QED
      BY <3>1, <3>2, Steps DEF ReadOnly, Opened, GoGiveFlag
  <2>2. CASE System = {}
    <3>1. End(r) /\ ReadOnly
      BY <1>8, <2>2 DEF FallbackCode
    <3>2. QED
      BY <3>1, Steps DEF ReadOnly
  <2>3. QED
    BY <2>1, <2>2
<1>9. CASE UseOpened(r)
  BY <1>9, Steps DEF UseOpened, ReadOnly, Pcs
<1>10. QED
  BY <1>1, <1>2, <1>3, <1>4, <1>5, <1>6, <1>7, <1>8, <1>9 DEF Ensure

\* A request goes on with the body it had.
LEMMA SlotStep ==
    ASSUME TypeInv, NEW r \in Reqs, NEW new \in Request,
           req' = [req EXCEPT ![r] = new],
           new.op = req[r].op, new.dto = req[r].dto,
           new.pc \notin {"read", "countForCreate", "checkCreate", "insert"}
    PROVE  req' \in [Reqs -> Request] /\ BodyOK'
<1>1. req \in [Reqs -> Request]
  BY DEF TypeInv, TypeOK
<1>2. \A q \in Reqs : req'[q] = IF q = r THEN new ELSE req[q]
  BY <1>1
<1>3. BodyOK'
  BY <1>2 DEF TypeInv, BodyOK, At
<1>4. QED
  BY <1>1, <1>3

\* requireOwnProject, and the writes that end the handlers of ProjectsService.
LEMMA ReadProjectStep ==
    ASSUME TypeInv, NEW r \in Reqs, ReadProject(r)
    PROVE  TypeInv'
<1>. DEFINE row == projects[req[r].id]
            refused == row = Absent \/ Refused(req[r].op, row, req[r].dto)
            pc == AfterRead(req[r].op, row, req[r].dto)
            new == [req[r] EXCEPT !.pc = pc, !.row = row, !.to = req[r].id]
<1>1. ReadOnly
  BY DEF ReadProject
<1>2. CASE refused
  <2>1. End(r)
    BY <1>2 DEF ReadProject
  <2>2. QED
    BY <1>1, <2>1, Steps DEF TypeInv, TypeOK, ReadOnly
<1>3. CASE ~refused
  <2>1. req' = [req EXCEPT ![r] = new]
    BY <1>3 DEF ReadProject
  <2>2. req[r] \in Request /\ req[r].op \in IdOps /\ row \in Row \cup {Absent}
    BY DEF TypeInv, TypeOK, BodyOK, At, ReadProject, Request
  <2>3. pc \in {"insertTask", "giveFlag", "checkFree", "countForArchive", "update", "countTasks"}
    BY <2>2 DEF AfterRead, IdOps
  <2>. HIDE DEF pc, row
  <2>4. pc \in Pcs
    BY <2>3 DEF Pcs
  <2>5. new \in Request
    BY <2>2, <2>4 DEF Request
  <2>6. new.op = req[r].op /\ new.dto = req[r].dto /\ new.pc = pc
    BY <2>2 DEF Request
  <2>. HIDE DEF new
  <2>7. req' \in [Reqs -> Request] /\ BodyOK'
    BY <2>1, <2>3, <2>5, <2>6, SlotStep
  <2>8. QED
    BY <1>1, <2>7 DEF TypeInv, TypeOK, ReadOnly
<1>4. QED
  BY <1>2, <1>3

\* create: the request keeps the code and the name it came with.
LEMMA CreateStep ==
    ASSUME TypeInv, NEW r \in Reqs, CountForCreate(r) \/ CheckCreate(r) \/ Insert(r)
    PROVE  TypeInv'
<1>. USE DEF TypeInv, TypeOK
<1>1. /\ req[r] \in Request /\ req[r].op # "archive"
      /\ req[r].dto \in Dto /\ req[r].dto.code # "keep" /\ req[r].dto.name # "keep"
  BY DEF BodyOK, At, CountForCreate, CheckCreate, Insert, Request
<1>2. CASE CountForCreate(r)
  <2>1. CASE Cardinality(Active) >= MaxActive
    <3>1. End(r) /\ ReadOnly
      BY <1>2, <2>1 DEF CountForCreate
    <3>2. QED
      BY <3>1, Steps DEF ReadOnly
  <2>2. CASE ~(Cardinality(Active) >= MaxActive)
    <3>. DEFINE dto == FirstIsDefault(req[r].dto)
                new == [req[r] EXCEPT !.pc = "checkCreate", !.dto = dto]
    <3>1. req' = [req EXCEPT ![r] = new] /\ ReadOnly
      BY <1>2, <2>2 DEF CountForCreate
    <3>2. dto \in Dto /\ dto.code = req[r].dto.code /\ dto.name = req[r].dto.name
      BY <1>1 DEF Dto, FirstIsDefault
    <3>. HIDE DEF dto
    <3>3. new \in Request /\ new.op = req[r].op /\ new.dto = dto /\ new.pc = "checkCreate"
      BY <1>1, <3>2 DEF Request, Pcs
    <3>. HIDE DEF new
    <3>4. \A q \in Reqs : req'[q] = IF q = r THEN new ELSE req[q]
      BY <3>1
    <3>5. BodyOK'
      BY <1>1, <3>2, <3>3, <3>4 DEF BodyOK, At
    <3>6. QED
      BY <3>1, <3>3, <3>5 DEF ReadOnly
  <2>3. QED
    BY <2>1, <2>2
<1>3. CASE CheckCreate(r)
  <2>1. ReadOnly /\ (End(r) \/ Goto(r, "insert"))
    BY <1>3 DEF CheckCreate
  <2>2. CASE Goto(r, "insert")
    <3>1. req' \in [Reqs -> Request]
      BY <2>2 DEF Goto, Request, Pcs
    <3>2. \A q \in Reqs : /\ q # r => req'[q] = req[q]
                         /\ req'[q].op = req[q].op /\ req'[q].dto = req[q].dto
      BY <2>2 DEF Goto, Request
    <3>3. req'[r].pc = "insert"
      BY <2>2 DEF Goto, Request
    <3>4. BodyOK'
      BY <1>1, <3>2, <3>3 DEF BodyOK, At
    <3>5. QED
      BY <2>1, <3>1, <3>4 DEF ReadOnly
  <2>3. QED
    BY <2>1, <2>2, Steps DEF ReadOnly
<1>4. CASE Insert(r)
  <2>. DEFINE new == Updated([Absent EXCEPT !.code = "OTHER"], req[r].dto)
  <2>1. new \in Row
    BY <1>1, NewRow
  <2>2. nextId \in Ids /\ nextId + 1 \in 1..(MaxProjects + 1)
    BY <1>4, ProjectsAssumption DEF Insert, Ids
  <2>3. projects' = [projects EXCEPT ![nextId] = new] /\ nextId' = nextId + 1 /\ UNCHANGED hasTasks
    BY <1>4 DEF Insert
  <2>. HIDE DEF new
  <2>4. projects' \in [Ids -> Row \cup {Absent}]
    BY <2>1, <2>3
  <2>5. End(r) \/ req' = [req EXCEPT ![r].pc = "giveFlag", ![r].to = nextId]
    BY <1>4 DEF Insert, GoGiveFlag
  <2>6. QED
    BY <2>2, <2>3, <2>4, <2>5, Steps
<1>5. QED
  BY <1>2, <1>3, <1>4

\* A step of PATCH, archive, remove or create keeps the types and the bodies.
LEMMA ManageStep ==
    ASSUME TypeInv, NEW r \in Reqs, Manage(r)
    PROVE  TypeInv'
<1>. USE DEF TypeInv, TypeOK
<1>0. req[r] \in Request
  OBVIOUS
<1>1. CASE ReadProject(r)
  BY <1>1, ReadProjectStep
<1>2. CASE CheckFree(r)
  <2>1. ReadOnly /\ (End(r) \/ Goto(r, "countForArchive") \/ Goto(r, "update"))
    BY <1>2 DEF CheckFree
  <2>2. QED
    BY <2>1, Steps DEF ReadOnly, Pcs
<1>3. CASE CountForArchive(r)
  <2>1. ReadOnly /\ (End(r) \/ Goto(r, "pickNext") \/ Goto(r, "update"))
    BY <1>3 DEF CountForArchive
  <2>2. QED
    BY <2>1, Steps DEF ReadOnly, Pcs
<1>4. CASE PickNext(r)
  <2>. DEFINE to == IF Oldest(Active) = req[r].id THEN NoId ELSE Oldest(Active)
              new == [req[r] EXCEPT !.pc = "moveFlag", !.to = to]
  <2>1. req' = [req EXCEPT ![r] = new] /\ ReadOnly
    BY <1>4 DEF PickNext
  <2>2. Oldest(Active) \in Ids \cup {NoId}
    BY OldestIn, RowSets DEF Oldest
  <2>3. to \in Ids \cup {NoId}
    BY <2>2
  <2>. HIDE DEF to
  <2>4. new \in Request
    BY <1>0, <2>3 DEF Request, Pcs
  <2>5. new.op = req[r].op /\ new.dto = req[r].dto /\ new.pc = "moveFlag"
    BY <1>0 DEF Request
  <2>. HIDE DEF new
  <2>6. QED
    BY <2>1, <2>4, <2>5, SlotStep DEF ReadOnly
<1>5. CASE MoveFlag(r)
  <2>1. UNCHANGED <<nextId, hasTasks>> /\ (Goto(r, "update") \/ End(r))
    BY <1>5 DEF MoveFlag
  <2>2. projects' = WithDefault(req[r].to) \/ projects' = projects
    BY <1>5 DEF MoveFlag
  <2>3. projects' \in [Ids -> Row \cup {Absent}]
    BY <2>2, WithDefaultFacts
  <2>4. QED
    BY <2>1, <2>3, Steps DEF Pcs
<1>6. CASE Update(r)
  <2>. DEFINE p == req[r].id
              new == Updated(projects[p], req[r].dto)
  <2>1. UNCHANGED <<nextId, hasTasks>> /\ (Goto(r, "restoreFlag") \/ End(r))
    BY <1>6 DEF Update
  <2>2. CASE p \in Live /\ projects' = [projects EXCEPT ![p] = new]
    <3>1. p \in Ids /\ projects[p] \in Row /\ req[r].dto \in Dto
      BY <1>0, <2>2 DEF Live, Request
    <3>2. new \in Row
      BY <3>1, UpdatedRow
    <3>3. projects' \in [Ids -> Row \cup {Absent}]
      BY <2>2, <3>2
    <3>4. QED
      BY <2>1, <3>3, Steps DEF Pcs
  <2>3. CASE projects' = projects
    BY <2>1, <2>3, Steps DEF Pcs
  <2>4. QED
    BY <1>6, <2>2, <2>3 DEF Update
<1>7. CASE RestoreFlag(r)
  <2>1. ReadOnly /\ (End(r) \/ req' = [req EXCEPT ![r].pc = "giveFlag", ![r].to = req[r].id])
    BY <1>7 DEF RestoreFlag, GoGiveFlag
  <2>2. CASE req' = [req EXCEPT ![r].pc = "giveFlag", ![r].to = req[r].id]
    <3>. DEFINE new == [req[r] EXCEPT !.pc = "giveFlag", !.to = req[r].id]
    <3>1. req' = [req EXCEPT ![r] = new]
      BY <2>2
    <3>2. new \in Request /\ new.op = req[r].op /\ new.dto = req[r].dto /\ new.pc = "giveFlag"
      BY <1>0 DEF Request, Pcs
    <3>. HIDE DEF new
    <3>3. QED
      BY <2>1, <3>1, <3>2, SlotStep DEF ReadOnly
  <2>3. QED
    BY <2>1, <2>2, Steps DEF ReadOnly
<1>8. CASE GiveFlag(r)
  <2>. DEFINE p == req[r].to
  <2>1. UNCHANGED <<nextId, hasTasks>>
    BY <1>8 DEF GiveFlag
  <2>2. CASE p \in Live
    <3>1. p \in Ids
      BY <2>2, RowSets
    <3>2. projects' = WithDefault(p)
      BY <1>8, <2>2 DEF GiveFlag
    <3>3. projects' \in [Ids -> Row \cup {Absent}]
      BY <3>2, WithDefaultFacts
    <3>4. End(r) \/ req' = [req EXCEPT ![r].pc = "opened", ![r].id = p]
      BY <1>8, <2>2 DEF GiveFlag, Opened
    <3>5. QED
      BY <2>1, <3>1, <3>3, <3>4, Steps
  <2>3. CASE p \notin Live
    <3>1. End(r) /\ UNCHANGED projects
      BY <1>8, <2>3 DEF GiveFlag
    <3>2. QED
      BY <2>1, <3>1, Steps
  <2>4. QED
    BY <2>2, <2>3
<1>9. CASE CountTasks(r)
  <2>1. ReadOnly /\ (End(r) \/ Goto(r, "delete") \/ Goto(r, "countForRemove"))
    BY <1>9 DEF CountTasks
  <2>2. QED
    BY <2>1, Steps DEF ReadOnly, Pcs
<1>10. CASE CountForRemove(r)
  <2>1. ReadOnly /\ (End(r) \/ Goto(r, "delete"))
    BY <1>10 DEF CountForRemove
  <2>2. QED
    BY <2>1, Steps DEF ReadOnly, Pcs
<1>11. CASE Delete(r)
  <2>1. nextId' = nextId /\ (Goto(r, "pickAfterDelete") \/ End(r))
    BY <1>11 DEF Delete
  <2>2. projects' \in [Ids -> Row \cup {Absent}] /\ hasTasks' \subseteq Ids
    BY <1>11 DEF Delete
  <2>3. QED
    BY <2>1, <2>2, Steps DEF Pcs
<1>12. CASE PickAfterDelete(r)
  <2>1. CASE Active = {}
    <3>1. End(r) /\ ReadOnly
      BY <1>12, <2>1 DEF PickAfterDelete
    <3>2. QED
      BY <3>1, Steps DEF ReadOnly
  <2>2. CASE Active # {}
    <3>1. Oldest(Active) \in Ids
      BY <2>2, OldestIn, RowSets
    <3>2. GoGiveFlag(r, Oldest(Active)) /\ ReadOnly
      BY <1>12, <2>2 DEF PickAfterDelete
    <3>3. QED
      BY <3>1, <3>2, Steps DEF ReadOnly, GoGiveFlag
  <2>3. QED
    BY <2>1, <2>2
<1>13. CASE CountForCreate(r)
  BY <1>13, CreateStep
<1>14. CASE CheckCreate(r)
  BY <1>14, CreateStep
<1>15. CASE Insert(r)
  BY <1>15, CreateStep
<1>16. CASE InsertTask(r)
  <2>1. UNCHANGED <<projects, nextId>> /\ hasTasks' \subseteq Ids /\ End(r)
    BY <1>16, RowSets DEF InsertTask
  <2>2. QED
    BY <2>1, Steps
<1>17. QED
  BY <1>1, <1>2, <1>3, <1>4, <1>5, <1>6, <1>7, <1>8, <1>9, <1>10, <1>11, <1>12, <1>13,
     <1>14, <1>15, <1>16 DEF Manage

\* So does a request that arrives.
LEMMA ArrivalStep ==
    ASSUME TypeInv, NEW r \in Reqs, ArriveEnsure(r) \/ ArriveById(r) \/ ArriveCreate(r)
    PROVE  TypeInv'
<1>1. NoDto \in Dto /\ NoDto.code = "keep"
  BY DEF NoDto, Dto
<1>2. \A id \in 1..(nextId - 1) : id \in Ids
  BY ProjectsAssumption DEF TypeInv, TypeOK, Ids
<1>3. CASE ArriveEnsure(r)
  <2>1. PICK op \in EnsureOps : Arrive(r, op, NoId, NoDto, "findDefault")
    BY <1>3 DEF ArriveEnsure
  <2>2. QED
    BY <1>1, <2>1, ArriveStep DEF EnsureOps, Pcs
<1>4. CASE ArriveById(r)
  <2>1. PICK id \in 1..(nextId - 1) :
           \/ \E op \in {"taskIn", "setDefault", "remove"} : Arrive(r, op, id, NoDto, "read")
           \/ \E a \in {"yes", "no"} :
                 Arrive(r, "archive", id, [NoDto EXCEPT !.archived = a], "read")
           \/ \E dto \in PatchBodies : Arrive(r, "patch", id, dto, "read")
    BY <1>4 DEF ArriveById
  <2>2. id \in Ids
    BY <1>2
  <2>3. ASSUME NEW op \in {"taskIn", "setDefault", "remove"}, Arrive(r, op, id, NoDto, "read")
        PROVE  TypeInv'
    BY <1>1, <2>2, <2>3, ArriveStep DEF IdOps, Pcs
  <2>4. ASSUME NEW a \in {"yes", "no"},
               Arrive(r, "archive", id, [NoDto EXCEPT !.archived = a], "read")
        PROVE  TypeInv'
    <3>1. /\ [NoDto EXCEPT !.archived = a] \in Dto
          /\ [NoDto EXCEPT !.archived = a].code = "keep"
      BY <1>1 DEF Dto
    <3>2. QED
      BY <2>2, <2>4, <3>1, ArriveStep DEF IdOps, Pcs
  <2>5. ASSUME NEW dto \in PatchBodies, Arrive(r, "patch", id, dto, "read")
        PROVE  TypeInv'
    <3>1. dto \in Dto
      BY ProjectsAssumption
    <3>2. QED
      BY <2>2, <2>5, <3>1, ArriveStep DEF IdOps, Pcs
  <2>6. QED
    BY <2>1, <2>3, <2>4, <2>5
<1>5. CASE ArriveCreate(r)
  <2>1. PICK dto \in CreateBodies : Arrive(r, "create", NoId, dto, "countForCreate")
    BY <1>5 DEF ArriveCreate
  <2>2. dto \in Dto /\ dto.code # "keep" /\ dto.name # "keep"
    BY ProjectsAssumption
  <2>3. QED
    BY <2>1, <2>2, ArriveStep DEF Pcs
<1>6. QED
  BY <1>3, <1>4, <1>5

\* So does every step.
LEMMA TypeStep ==
    ASSUME TypeInv, [Next]_vars
    PROVE  TypeInv'
<1>1. CASE UNCHANGED vars
  BY <1>1 DEF vars, TypeInv, TypeOK, BodyOK, At
<1>2. ASSUME NEW r \in Reqs, RequestFails(r)
      PROVE  TypeInv'
  BY <1>2, Steps DEF RequestFails, ReadOnly, TypeInv, TypeOK
<1>3. QED
  BY <1>1, <1>2, ArrivalStep, EnsureStep, ManageStep DEF Next

\* The registered, the new and the migrated account are well typed.
LEMMA TypeInit == Init => TypeInv
<1>1. Idle \in Request
  BY DEF Idle, Request, NoDto, Dto, Absent, Pcs
<1>2. Idle.pc = "idle" /\ Idle.op = "none"
  BY DEF Idle
<1>. HIDE DEF Idle
<1>3. SUFFICES ASSUME Init PROVE TypeInv
  OBVIOUS
<1>4. nextId \in 1..(MaxProjects + 1)
  BY <1>3, ProjectsAssumption DEF Init
<1>5. QED
  BY <1>1, <1>2, <1>3, <1>4 DEF Init, TypeInv, TypeOK, BodyOK, At

\* Every request slot and every row stays well formed: no handler writes a field
\* that was not sent, and none updates a project that was deleted meanwhile.
THEOREM TypeCorrect == Spec => []TypeOK
<1>1. Init => TypeInv
  BY TypeInit
<1>2. TypeInv /\ [Next]_vars => TypeInv'
  BY TypeStep
<1>3. TypeInv => TypeOK
  BY DEF TypeInv
<1>4. QED
  BY <1>1, <1>2, <1>3, PTL DEF Spec

-----------------------------------------------------------------------------
(* The default flag.                                                       *)

\* A step takes flags away, or leaves one project at most with a flag.
LEMMA DefaultsStep ==
    ASSUME TypeInv, NEW r \in Reqs, Ensure(r) \/ Manage(r)
    PROVE  Defaults' \subseteq Defaults \/ \E p \in Ids \cup {NoId} : Defaults' \subseteq {p}
<1>. USE DEF TypeInv, TypeOK
<1>0. /\ req[r] \in Request /\ req[r].to \in Ids \cup {NoId} /\ req[r].dto \in Dto
      /\ ~Absent.isDefault
  BY DEF Request, Absent
<1>1. CASE UNCHANGED projects
  BY <1>1 DEF Defaults, Live
<1>2. CASE projects' = WithDefault(req[r].to)
  <2>1. \A q \in Ids : projects'[q].isDefault => q = req[r].to
    BY <1>2, WithDefaultFacts
  <2>2. Defaults' \subseteq {req[r].to}
    BY <2>1 DEF Defaults, Live
  <2>3. QED
    BY <1>0, <2>2
<1>3. CASE Revive(r) /\ ~UNCHANGED projects
  <2>1. req[r].id \in Live /\ projects' = [projects EXCEPT ![req[r].id].archived = FALSE]
    BY <1>3 DEF Revive
  <2>2. req[r].id \in Ids /\ projects[req[r].id] \in Row
    BY <2>1 DEF Live
  <2>3. projects'[req[r].id].isDefault = projects[req[r].id].isDefault
    BY <2>1, <2>2 DEF Row
  <2>4. QED
    BY <2>1, <2>2, <2>3 DEF Defaults, Live
<1>4. CASE InsertChung(r)
  <2>1. Defaults' \subseteq {nextId}
    BY <1>4 DEF InsertChung, IndexesAccept, Chung, Defaults, Live
  <2>2. nextId \in Ids
    BY <1>4 DEF InsertChung, Ids
  <2>3. QED
    BY <2>1, <2>2
<1>5. CASE Update(r) /\ ~UNCHANGED projects
  <2>. DEFINE new == Updated(projects[req[r].id], req[r].dto)
  <2>1. req[r].id \in Live /\ projects' = [projects EXCEPT ![req[r].id] = new]
    BY <1>5 DEF Update
  <2>2. req[r].id \in Ids /\ projects[req[r].id] \in Row
    BY <2>1 DEF Live
  <2>3. new.isDefault = projects[req[r].id].isDefault
    BY <1>0, <2>2, UpdatedRow
  <2>. HIDE DEF new
  <2>4. QED
    BY <2>1, <2>2, <2>3 DEF Defaults, Live
<1>6. CASE Delete(r)
  <2>1. projects' = [projects EXCEPT ![req[r].id] = Absent]
    BY <1>6 DEF Delete
  <2>2. QED
    BY <1>0, <2>1 DEF Defaults, Live
<1>7. CASE Insert(r)
  <2>. DEFINE new == Updated([Absent EXCEPT !.code = "OTHER"], req[r].dto)
  <2>1. req[r].dto.code # "keep" /\ req[r].dto.name # "keep"
    BY <1>7 DEF Insert, BodyOK, At
  <2>2. new.isDefault = FALSE
    BY <1>0, <2>1, NewRow
  <2>3. projects' = [projects EXCEPT ![nextId] = new]
    BY <1>7 DEF Insert
  <2>. HIDE DEF new
  <2>4. QED
    BY <2>2, <2>3 DEF Defaults, Live
<1>8. CASE Ensure(r)
  BY <1>1, <1>3, <1>4, <1>8
     DEF Ensure, FindDefault, FindOldest, FindChung, InsertChungFails, FallbackDefault,
         FallbackCode, UseOpened, ReadOnly
<1>9. CASE Manage(r)
  BY <1>1, <1>2, <1>5, <1>6, <1>7, <1>9
     DEF Manage, ReadProject, CheckFree, CountForArchive, PickNext, MoveFlag, RestoreFlag,
         GiveFlag, CountTasks, CountForRemove, PickAfterDelete, CountForCreate, CheckCreate,
         InsertTask, ReadOnly
<1>10. QED
  BY <1>8, <1>9

\* No step leaves two rows with the default flag.
LEMMA DefaultStep ==
    ASSUME TypeInv, AtMostOneDefault, [Next]_vars
    PROVE  AtMostOneDefault'
<1>1. CASE UNCHANGED projects
  BY <1>1 DEF AtMostOneDefault, Defaults, Live
<1>2. ASSUME NEW r \in Reqs, Ensure(r) \/ Manage(r)
      PROVE  AtMostOneDefault'
  BY <1>2, DefaultsStep DEF AtMostOneDefault
<1>3. QED
  BY <1>1, <1>2
     DEF Next, vars, ArriveEnsure, ArriveById, ArriveCreate, Arrive, RequestFails, ReadOnly

\* Whatever setDefault, clearDefault, create and ensureDefaultProject do in
\* parallel, for any number of requests, no two projects have the default flag.
THEOREM OneDefault == Spec => []AtMostOneDefault
<1>1. Init => AtMostOneDefault
  <2>1. SUFFICES ASSUME Init PROVE AtMostOneDefault
    OBVIOUS
  <2>2. PICK k \in 0..(MaxProjects - 1) : LegalTable(projects, k)
    BY <2>1 DEF Init
  <2>3. \A p \in Defaults : p \in 1..k /\ projects[p].isDefault
    BY <2>2 DEF LegalTable, Defaults, Live, Ids
  <2>4. QED
    BY <2>2, <2>3 DEF AtMostOneDefault, LegalTable
<1>2. TypeInv /\ AtMostOneDefault /\ [Next]_vars => AtMostOneDefault'
  BY DefaultStep
<1>3. QED
  BY <1>1, <1>2, TypeInit, TypeStep, PTL DEF Spec

-----------------------------------------------------------------------------
(* The system project of a registered account.                             *)

OtherPcs == Pcs \ (WritePcs \cup RemovePcs)

\* The ways in which a request goes on keep the promise of SafeRequest: it keeps
\* its project and its body, or leaves the steps that write or remove a project.
LEMMA SafeSteps ==
    ASSUME TypeInv, SystemSafe, NEW r \in Reqs
    PROVE  /\ End(r) => \A q \in Reqs : SafeRequest(req'[q])
           /\ \A pc \in OtherPcs : Goto(r, pc) => \A q \in Reqs : SafeRequest(req'[q])
           /\ \A pc \in WritePcs : Goto(r, pc) /\ req[r].pc \in WritePcs
                 => \A q \in Reqs : SafeRequest(req'[q])
           /\ \A pc \in RemovePcs : Goto(r, pc) /\ req[r].pc \in RemovePcs
                 => \A q \in Reqs : SafeRequest(req'[q])
           /\ (\A q \in Reqs : q # r => req'[q] = req[q]) /\ req'[r].pc \in OtherPcs
                 => \A q \in Reqs : SafeRequest(req'[q])
<1>1. /\ req \in [Reqs -> Request]
      /\ \A q \in Reqs : SafeRequest(req[q])
  BY DEF TypeInv, TypeOK, SystemSafe
<1>2. ASSUME End(r)
      PROVE  \A q \in Reqs : SafeRequest(req'[q])
  <2>1. \A q \in Reqs : req'[q] = IF q = r THEN Idle ELSE req[q]
    BY <1>1, <1>2 DEF End
  <2>2. SafeRequest(Idle)
    BY DEF SafeRequest, Idle, NoId
  <2>3. QED
    BY <1>1, <2>1, <2>2
<1>3. ASSUME NEW pc \in Pcs, Goto(r, pc),
             \/ pc \in OtherPcs
             \/ pc \in WritePcs /\ req[r].pc \in WritePcs
             \/ pc \in RemovePcs /\ req[r].pc \in RemovePcs
      PROVE  \A q \in Reqs : SafeRequest(req'[q])
  <2>1. /\ \A q \in Reqs : q # r => req'[q] = req[q]
        /\ req'[r].id = req[r].id /\ req'[r].dto = req[r].dto /\ req'[r].pc = pc
    BY <1>1, <1>3 DEF Goto, Request
  <2>2. SafeRequest(req'[r])
    BY <1>1, <1>3, <2>1 DEF SafeRequest, OtherPcs, WritePcs, RemovePcs
  <2>3. QED
    BY <1>1, <2>1, <2>2
<1>4. ASSUME \A q \in Reqs : q # r => req'[q] = req[q], req'[r].pc \in OtherPcs
      PROVE  \A q \in Reqs : SafeRequest(req'[q])
  <2>1. SafeRequest(req'[r])
    BY <1>4 DEF SafeRequest, OtherPcs
  <2>2. QED
    BY <1>1, <1>4, <2>1
<1>5. WritePcs \subseteq Pcs /\ RemovePcs \subseteq Pcs /\ OtherPcs \subseteq Pcs
  BY DEF WritePcs, RemovePcs, OtherPcs, Pcs
<1>6. QED
  BY <1>2, <1>3, <1>4, <1>5

\* ensureDefaultProject never holds the system project in order to take it away.
LEMMA EnsureSafe ==
    ASSUME TypeInv, SystemSafe, NEW r \in Reqs, Ensure(r)
    PROVE  \A q \in Reqs : SafeRequest(req'[q])
<1>0. req \in [Reqs -> Request]
  BY DEF TypeInv, TypeOK
<1>1. CASE FindDefault(r)
  <2>1. \/ End(r)
        \/ (\A q \in Reqs : q # r => req'[q] = req[q]) /\ req'[r].pc \in OtherPcs
    BY <1>0, <1>1 DEF FindDefault, Opened, Goto, Request, OtherPcs, Pcs, WritePcs, RemovePcs
  <2>2. QED
    BY <2>1, SafeSteps
<1>2. CASE FindOldest(r)
  <2>1. \/ End(r)
        \/ (\A q \in Reqs : q # r => req'[q] = req[q]) /\ req'[r].pc \in OtherPcs
    BY <1>0, <1>2 DEF FindOldest, GoGiveFlag, Goto, Request, OtherPcs, Pcs, WritePcs, RemovePcs
  <2>2. QED
    BY <2>1, SafeSteps
<1>3. CASE FindChung(r)
  <2>1. \/ End(r)
        \/ (\A q \in Reqs : q # r => req'[q] = req[q]) /\ req'[r].pc \in OtherPcs
    BY <1>0, <1>3 DEF FindChung, Goto, Request, OtherPcs, Pcs, WritePcs, RemovePcs
  <2>2. QED
    BY <2>1, SafeSteps
<1>4. CASE Revive(r)
  <2>1. \/ End(r)
        \/ (\A q \in Reqs : q # r => req'[q] = req[q]) /\ req'[r].pc \in OtherPcs
    BY <1>0, <1>4 DEF Revive, GoGiveFlag, Request, OtherPcs, Pcs, WritePcs, RemovePcs
  <2>2. QED
    BY <2>1, SafeSteps
<1>5. CASE InsertChung(r)
  <2>1. \/ End(r)
        \/ (\A q \in Reqs : q # r => req'[q] = req[q]) /\ req'[r].pc \in OtherPcs
    BY <1>0, <1>5 DEF InsertChung, Opened, Request, OtherPcs, Pcs, WritePcs, RemovePcs
  <2>2. QED
    BY <2>1, SafeSteps
<1>6. CASE InsertChungFails(r)
  <2>1. \/ End(r)
        \/ (\A q \in Reqs : q # r => req'[q] = req[q]) /\ req'[r].pc \in OtherPcs
    BY <1>0, <1>6 DEF InsertChungFails, Goto, Request, OtherPcs, Pcs, WritePcs, RemovePcs
  <2>2. QED
    BY <2>1, SafeSteps
<1>7. CASE FallbackDefault(r)
  <2>1. \/ End(r)
        \/ (\A q \in Reqs : q # r => req'[q] = req[q]) /\ req'[r].pc \in OtherPcs
    BY <1>0, <1>7 DEF FallbackDefault, Opened, Goto, Request, OtherPcs, Pcs, WritePcs, RemovePcs
  <2>2. QED
    BY <2>1, SafeSteps
<1>8. CASE FallbackCode(r)
  <2>1. \/ End(r)
        \/ (\A q \in Reqs : q # r => req'[q] = req[q]) /\ req'[r].pc \in OtherPcs
    BY <1>0, <1>8 DEF FallbackCode, Opened, Request, OtherPcs, Pcs, WritePcs, RemovePcs
  <2>2. QED
    BY <2>1, SafeSteps
<1>9. CASE UseOpened(r)
  <2>1. \/ End(r)
        \/ (\A q \in Reqs : q # r => req'[q] = req[q]) /\ req'[r].pc \in OtherPcs
    BY <1>0, <1>9 DEF UseOpened, Goto, Request, OtherPcs, Pcs, WritePcs, RemovePcs
  <2>2. QED
    BY <2>1, SafeSteps
<1>10. QED
  BY <1>1, <1>2, <1>3, <1>4, <1>5, <1>6, <1>7, <1>8, <1>9 DEF Ensure

\* A request about the system project passes the checks of ReadProject only with
\* a body that leaves it open and named as it is.
LEMMA ReadSafe ==
    ASSUME TypeInv, SystemSafe, NEW r \in Reqs, ReadProject(r)
    PROVE  \A q \in Reqs : SafeRequest(req'[q])
<1>. DEFINE row == projects[req[r].id]
            dto == req[r].dto
            op == req[r].op
            pc == AfterRead(op, row, dto)
<1>1. /\ req \in [Reqs -> Request] /\ op \in IdOps
      /\ op = "archive" => dto.code = "keep"
  BY DEF TypeInv, TypeOK, BodyOK, ReadProject, At
<1>2. CASE row = Absent \/ Refused(op, row, dto)
  BY <1>2, SafeSteps DEF ReadProject
<1>3. CASE ~(row = Absent \/ Refused(op, row, dto))
  <2>1. /\ \A q \in Reqs : q # r => req'[q] = req[q]
        /\ req'[r].id = req[r].id /\ req'[r].dto = dto /\ req'[r].pc = pc
    BY <1>1, <1>3 DEF ReadProject, Request
  <2>2. ASSUME req[r].id = 1
        PROVE  pc \notin RemovePcs /\ (pc \in WritePcs => dto.archived # "yes" /\ dto.code \in {"keep", "CHUNG"})
    <3>1. row.code = "CHUNG" /\ ~row.archived
      BY <2>2 DEF SystemSafe
    <3>2. CASE op \in {"taskIn", "setDefault"}
      BY <3>2 DEF AfterRead, RemovePcs, WritePcs
    <3>3. CASE op = "remove"
      BY <1>3, <3>1, <3>3 DEF Refused
    <3>4. CASE op = "patch"
      BY <1>3, <3>1, <3>4 DEF Refused, Archiving, Recoding, AfterRead, RemovePcs
    <3>5. CASE op = "archive"
      BY <1>1, <1>3, <3>1, <3>5 DEF Refused, Archiving, AfterRead, RemovePcs
    <3>6. QED
      BY <1>1, <3>2, <3>3, <3>4, <3>5 DEF IdOps
  <2>3. SafeRequest(req'[r])
    BY <2>1, <2>2 DEF SafeRequest
  <2>4. QED
    BY <2>1, <2>3 DEF SystemSafe
<1>4. QED
  BY <1>2, <1>3

\* Neither does a step of PATCH, archive, remove or create.
LEMMA ManageSafe ==
    ASSUME TypeInv, SystemSafe, NEW r \in Reqs, Manage(r)
    PROVE  \A q \in Reqs : SafeRequest(req'[q])
<1>0. req \in [Reqs -> Request]
  BY DEF TypeInv, TypeOK
<1>1. CASE ReadProject(r)
  BY <1>1, ReadSafe
<1>2. CASE CheckFree(r)
  <2>1. req[r].pc \in WritePcs /\ (End(r) \/ Goto(r, "countForArchive") \/ Goto(r, "update"))
    BY <1>2 DEF CheckFree, At, WritePcs
  <2>2. QED
    BY <2>1, SafeSteps DEF WritePcs
<1>3. CASE CountForArchive(r)
  <2>1. req[r].pc \in WritePcs /\ (End(r) \/ Goto(r, "pickNext") \/ Goto(r, "update"))
    BY <1>3 DEF CountForArchive, At, WritePcs
  <2>2. QED
    BY <2>1, SafeSteps DEF WritePcs
<1>4. CASE PickNext(r)
  <2>1. /\ \A q \in Reqs : q # r => req'[q] = req[q]
        /\ req'[r].id = req[r].id /\ req'[r].dto = req[r].dto
        /\ req[r].pc \in WritePcs /\ req'[r].pc = "moveFlag"
    BY <1>0, <1>4 DEF PickNext, At, Request, WritePcs
  <2>2. SafeRequest(req'[r])
    BY <2>1 DEF SystemSafe, SafeRequest, RemovePcs
  <2>3. QED
    BY <2>1, <2>2 DEF SystemSafe
<1>5. CASE MoveFlag(r)
  <2>1. req[r].pc \in WritePcs /\ (End(r) \/ Goto(r, "update"))
    BY <1>5 DEF MoveFlag, At, WritePcs
  <2>2. QED
    BY <2>1, SafeSteps DEF WritePcs
<1>6. CASE Update(r)
  <2>1. \/ End(r)
        \/ (\A q \in Reqs : q # r => req'[q] = req[q]) /\ req'[r].pc \in OtherPcs
    BY <1>0, <1>6 DEF Update, Goto, Request, OtherPcs, Pcs, WritePcs, RemovePcs
  <2>2. QED
    BY <2>1, SafeSteps
<1>7. CASE RestoreFlag(r)
  <2>1. \/ End(r)
        \/ (\A q \in Reqs : q # r => req'[q] = req[q]) /\ req'[r].pc \in OtherPcs
    BY <1>0, <1>7 DEF RestoreFlag, GoGiveFlag, Request, OtherPcs, Pcs, WritePcs, RemovePcs
  <2>2. QED
    BY <2>1, SafeSteps
<1>8. CASE GiveFlag(r)
  <2>1. \/ End(r)
        \/ (\A q \in Reqs : q # r => req'[q] = req[q]) /\ req'[r].pc \in OtherPcs
    BY <1>0, <1>8 DEF GiveFlag, Opened, Request, OtherPcs, Pcs, WritePcs, RemovePcs
  <2>2. QED
    BY <2>1, SafeSteps
<1>9. CASE CountTasks(r)
  <2>1. req[r].pc \in RemovePcs /\ (End(r) \/ Goto(r, "delete") \/ Goto(r, "countForRemove"))
    BY <1>9 DEF CountTasks, At, RemovePcs
  <2>2. QED
    BY <2>1, SafeSteps DEF RemovePcs
<1>10. CASE CountForRemove(r)
  <2>1. req[r].pc \in RemovePcs /\ (End(r) \/ Goto(r, "delete"))
    BY <1>10 DEF CountForRemove, At, RemovePcs
  <2>2. QED
    BY <2>1, SafeSteps DEF RemovePcs
<1>11. CASE Delete(r)
  <2>1. \/ End(r)
        \/ (\A q \in Reqs : q # r => req'[q] = req[q]) /\ req'[r].pc \in OtherPcs
    BY <1>0, <1>11 DEF Delete, Goto, Request, OtherPcs, Pcs, WritePcs, RemovePcs
  <2>2. QED
    BY <2>1, SafeSteps
<1>12. CASE PickAfterDelete(r)
  <2>1. \/ End(r)
        \/ (\A q \in Reqs : q # r => req'[q] = req[q]) /\ req'[r].pc \in OtherPcs
    BY <1>0, <1>12 DEF PickAfterDelete, GoGiveFlag, Request, OtherPcs, Pcs, WritePcs, RemovePcs
  <2>2. QED
    BY <2>1, SafeSteps
<1>13. CASE CountForCreate(r)
  <2>1. \/ End(r)
        \/ (\A q \in Reqs : q # r => req'[q] = req[q]) /\ req'[r].pc \in OtherPcs
    BY <1>0, <1>13 DEF CountForCreate, Request, OtherPcs, Pcs, WritePcs, RemovePcs
  <2>2. QED
    BY <2>1, SafeSteps
<1>14. CASE CheckCreate(r)
  <2>1. \/ End(r)
        \/ (\A q \in Reqs : q # r => req'[q] = req[q]) /\ req'[r].pc \in OtherPcs
    BY <1>0, <1>14 DEF CheckCreate, Goto, Request, OtherPcs, Pcs, WritePcs, RemovePcs
  <2>2. QED
    BY <2>1, SafeSteps
<1>15. CASE Insert(r)
  <2>1. \/ End(r)
        \/ (\A q \in Reqs : q # r => req'[q] = req[q]) /\ req'[r].pc \in OtherPcs
    BY <1>0, <1>15 DEF Insert, GoGiveFlag, Request, OtherPcs, Pcs, WritePcs, RemovePcs
  <2>2. QED
    BY <2>1, SafeSteps
<1>16. CASE InsertTask(r)
  BY <1>16, SafeSteps DEF InsertTask
<1>17. QED
  BY <1>1, <1>2, <1>3, <1>4, <1>5, <1>6, <1>7, <1>8, <1>9, <1>10, <1>11, <1>12, <1>13,
     <1>14, <1>15, <1>16 DEF Manage

\* A request arrives before any of the checks.
LEMMA ArrivalSafe ==
    ASSUME TypeInv, SystemSafe, NEW r \in Reqs,
           ArriveEnsure(r) \/ ArriveById(r) \/ ArriveCreate(r)
    PROVE  \A q \in Reqs : SafeRequest(req'[q])
<1>1. ASSUME NEW op, NEW id, NEW dto, NEW pc \in OtherPcs, Arrive(r, op, id, dto, pc)
      PROVE  \A q \in Reqs : SafeRequest(req'[q])
  BY <1>1, SafeSteps DEF Arrive, TypeInv, TypeOK
<1>2. {"findDefault", "read", "countForCreate"} \subseteq OtherPcs
  BY DEF OtherPcs, Pcs, WritePcs, RemovePcs
<1>3. QED
  BY <1>1, <1>2 DEF ArriveEnsure, ArriveById, ArriveCreate

\* No step archives, recodes or removes the system project.
LEMMA SystemRowStep ==
    ASSUME TypeInv, SystemSafe, NEW r \in Reqs, Ensure(r) \/ Manage(r)
    PROVE  projects'[1].code = "CHUNG" /\ ~projects'[1].archived /\ nextId' > 1
<1>. USE DEF TypeInv, TypeOK
<1>0. /\ projects[1].code = "CHUNG" /\ ~projects[1].archived /\ nextId > 1 /\ nextId \in Nat
      /\ SafeRequest(req[r]) /\ req[r] \in Request /\ 1 \in Ids
      /\ projects[1] \in Row
  BY ProjectsAssumption DEF SystemSafe, Ids, Absent, Row
<1>1. CASE UNCHANGED <<projects, nextId>>
  BY <1>0, <1>1
<1>2. CASE projects' = WithDefault(req[r].to) /\ nextId' = nextId
  BY <1>0, <1>2, WithDefaultFacts
<1>3. CASE Revive(r) /\ ~UNCHANGED projects
  <2>1. projects' = [projects EXCEPT ![req[r].id].archived = FALSE] /\ nextId' = nextId
    BY <1>3 DEF Revive
  <2>2. CASE req[r].id = 1
    BY <1>0, <2>1, <2>2 DEF Row
  <2>3. CASE req[r].id # 1
    BY <1>0, <2>1, <2>3
  <2>4. QED
    BY <2>2, <2>3
<1>4. CASE InsertChung(r)
  BY <1>0, <1>4 DEF InsertChung
<1>5. CASE Update(r) /\ ~UNCHANGED projects
  <2>. DEFINE p == req[r].id
              new == Updated(projects[p], req[r].dto)
  <2>1. p \in Live /\ projects' = [projects EXCEPT ![p] = new] /\ nextId' = nextId
    BY <1>5 DEF Update
  <2>2. CASE p = 1
    <3>1. req[r].dto.archived # "yes" /\ req[r].dto.code \in {"keep", "CHUNG"} /\ req[r].dto \in Dto
      BY <1>0, <1>5, <2>2 DEF Update, At, SafeRequest, WritePcs, Request
    <3>2. new.code = "CHUNG" /\ ~new.archived
      BY <1>0, <2>2, <3>1 DEF Updated, Row, Dto
    <3>. HIDE DEF new
    <3>3. projects'[1] = new
      BY <1>0, <2>1, <2>2
    <3>4. QED
      BY <1>0, <2>1, <3>2, <3>3
  <2>3. CASE p # 1
    BY <1>0, <2>1, <2>3
  <2>4. QED
    BY <2>2, <2>3
<1>6. CASE Delete(r)
  <2>1. req[r].id # 1
    BY <1>0, <1>6 DEF Delete, At, SafeRequest, RemovePcs
  <2>2. QED
    BY <1>0, <1>6, <2>1 DEF Delete
<1>7. CASE Insert(r)
  BY <1>0, <1>7 DEF Insert
<1>8. CASE Ensure(r)
  BY <1>1, <1>3, <1>4, <1>8
     DEF Ensure, FindDefault, FindOldest, FindChung, Revive, InsertChungFails, FallbackDefault,
         FallbackCode, UseOpened, ReadOnly
<1>9. CASE Manage(r)
  BY <1>1, <1>2, <1>5, <1>6, <1>7, <1>9
     DEF Manage, ReadProject, CheckFree, CountForArchive, PickNext, MoveFlag, Update, RestoreFlag,
         GiveFlag, CountTasks, CountForRemove, PickAfterDelete, CountForCreate, CheckCreate,
         InsertTask, ReadOnly
<1>10. QED
  BY <1>8, <1>9

\* So no step takes the system project away, recodes it or archives it.
LEMMA SystemStep ==
    ASSUME TypeInv, SystemSafe, [Next]_vars
    PROVE  SystemSafe'
<1>1. CASE UNCHANGED vars
  BY <1>1 DEF SystemSafe, vars
<1>2. ASSUME NEW r \in Reqs, Ensure(r) \/ Manage(r)
      PROVE  SystemSafe'
  BY <1>2, EnsureSafe, ManageSafe, SystemRowStep DEF SystemSafe
<1>3. ASSUME NEW r \in Reqs, ArriveEnsure(r) \/ ArriveById(r) \/ ArriveCreate(r)
      PROVE  SystemSafe'
  <2>1. UNCHANGED <<projects, nextId>>
    BY <1>3 DEF ArriveEnsure, ArriveById, ArriveCreate, Arrive, ReadOnly
  <2>2. QED
    BY <1>3, <2>1, ArrivalSafe DEF SystemSafe
<1>4. ASSUME NEW r \in Reqs, RequestFails(r)
      PROVE  SystemSafe'
  BY <1>4, SafeSteps DEF RequestFails, ReadOnly, SystemSafe
<1>5. QED
  BY <1>1, <1>2, <1>3, <1>4 DEF Next

\* A registered account starts with its system project.
LEMMA SystemInit == Init /\ Start = "registered" => SystemSafe
<1>1. SUFFICES ASSUME Init, Start = "registered" PROVE SystemSafe
  OBVIOUS
<1>2. nextId = 2 /\ projects[1] = Chung
  BY <1>1 DEF Init
<1>3. \A r \in Reqs : SafeRequest(req[r])
  BY <1>1 DEF Init, Idle, SafeRequest, NoId
<1>4. QED
  BY <1>2, <1>3 DEF SystemSafe, Chung

\* The system project of a registered account is never archived, recoded or
\* removed, for any number of requests in parallel: the checks are made on a row
\* read earlier, and they hold for ever once they hold.
THEOREM SystemProject == Spec => []SystemProjectKept
<1>1. CASE Start = "registered"
  <2>1. Init => TypeInv /\ SystemSafe
    BY <1>1, TypeInit, SystemInit
  <2>2. TypeInv /\ SystemSafe /\ [Next]_vars => TypeInv' /\ SystemSafe'
    BY TypeStep, SystemStep
  <2>3. SystemSafe => SystemProjectKept
    BY DEF SystemSafe, SystemProjectKept
  <2>4. QED
    BY <2>1, <2>2, <2>3, PTL DEF Spec
<1>2. CASE Start # "registered"
  <2>1. SystemProjectKept
    BY <1>2 DEF SystemProjectKept
  <2>2. QED
    BY <2>1, PTL
<1>3. QED
  BY <1>1, <1>2

\* A registered account therefore always has an active project, although two
\* requests that both count two active projects may archive or remove both.
THEOREM NeverLocked ==
    ASSUME Start = "registered"
    PROVE  Spec => NeverWithoutActive
<1>1. Init => TypeInv /\ SystemSafe
  BY TypeInit, SystemInit
<1>2. TypeInv /\ SystemSafe /\ [Next]_vars => TypeInv' /\ SystemSafe'
  BY TypeStep, SystemStep
<1>3. TypeInv' /\ SystemSafe' => Active' # {}
  <2>1. TypeInv' /\ SystemSafe' => 1 \in Ids /\ projects'[1] # Absent /\ ~projects'[1].archived
    BY ProjectsAssumption DEF SystemSafe, Ids, Absent
  <2>2. QED
    BY <2>1 DEF Active, Live
<1>4. TypeInv' /\ SystemSafe' => (Active # {} => Active' # {})
  BY <1>3
<1>5. QED
  BY <1>1, <1>2, <1>4, PTL DEF Spec, NeverWithoutActive

-----------------------------------------------------------------------------
(* One request at a time: what a request has read is still so when it acts. *)

OneAtATime == \A r, s \in Reqs : r = s

Table == [Ids -> Row \cup {Absent}]

\* Project p of table t is active.
Usable(t, p) == t[p] # Absent /\ ~t[p].archived

\* Some project other than p is active.
Other(t, p) == \E q \in Ids \ {p} : Usable(t, q)

\* There is nothing yet, or something to open: an active project, or the system project.
Openable(t) ==
    \/ \A p \in Ids : t[p] = Absent
    \/ \E p \in Ids : Usable(t, p) \/ t[p].code = "CHUNG"

\* What request q has read of table t, of which the projects h have tasks.
Current(q, t, h) ==
    /\ q.pc = "opened" => q.id \in Ids /\ Usable(t, q.id) /\ t[q.id].isDefault
    /\ q.pc = "giveFlag" => q.to \in Ids /\ Usable(t, q.to)
    /\ q.pc = "restoreFlag" => q.id \in Ids /\ Usable(t, q.id)
    /\ q.pc = "findChung" => \A p \in Ids : ~Usable(t, p)
    /\ q.pc \in {"insertChung", "fallbackDefault", "fallbackCode"} => \A p \in Ids : t[p] = Absent
    /\ q.pc \in WritePcs \cup RemovePcs => q.id \in Ids /\ t[q.id] # Absent
    /\ q.pc \in WritePcs /\ t[q.id].code = "CHUNG" => q.dto.code \in {"keep", "CHUNG"}
    /\ q.pc \in {"checkFree", "countForArchive", "countTasks"} => q.row = t[q.id]
    /\ q.pc = "pickNext" => Other(t, q.id)
    /\ q.pc = "moveFlag" => Other(t, q.id) /\ q.to # q.id /\ (q.to # NoId => Usable(t, q.to))
    /\ q.pc = "update" /\ q.dto.archived = "yes" /\ ~t[q.id].archived =>
          ~t[q.id].isDefault /\ Other(t, q.id)
    /\ q.pc \in RemovePcs => t[q.id].code # "CHUNG"
    /\ q.pc \in {"countForRemove", "delete"} => q.id \notin h
    /\ q.pc = "delete" /\ ~t[q.id].archived => Other(t, q.id)
    /\ q.pc \in {"countForCreate", "checkCreate", "insert"} => q.dto.archived = "keep"

SerialInv ==
    /\ Openable(projects)
    /\ \A r \in Reqs : Current(req[r], projects, hasTasks)

\* What no write does to a table: leave a user without the active project, the
\* usable default or the tasks there were, or with nothing that can be opened.
Kept(t, u, h) ==
    /\ (\E p \in Ids : Usable(t, p)) => (\E p \in Ids : Usable(u, p))
    /\ (\A p \in Ids : t[p].isDefault => Usable(t, p)) => (\A p \in Ids : u[p].isDefault => Usable(u, p))
    /\ \A p \in h : t[p] # Absent => u[p] # Absent
    /\ Openable(t) => Openable(u)

\* The places of a request that claim nothing about the table.
FreePcs == {"idle", "findDefault", "findOldest", "revive", "read", "insertTask", "pickAfterDelete"}

\* Such a request is up to date whatever the table.
LEMMA FreeCurrent ==
    ASSUME NEW q, NEW t, NEW h, q.pc \in FreePcs
    PROVE  Current(q, t, h)
  BY DEF Current, FreePcs, WritePcs, RemovePcs

\* A query of the table keeps everything.
LEMMA KeptSame ==
    ASSUME NEW t, NEW h
    PROVE  Kept(t, t, h)
  BY DEF Kept

\* A row is a row of a project exactly when it has a project's code.
LEMMA AbsentCode ==
    ASSUME NEW t \in Table, NEW p \in Ids
    PROVE  /\ t[p] = Absent <=> t[p].code = "none"
           /\ t[p] # Absent <=> t[p] \in Row
           /\ t[p].isDefault => t[p] # Absent
           /\ t[p].archived \in BOOLEAN /\ t[p].isDefault \in BOOLEAN
<1>1. t[p] \in Row \cup {Absent}
  BY DEF Table
<1>2. Absent.code = "none" /\ Absent.isDefault = FALSE /\ Absent.archived = FALSE
  BY DEF Absent
<1>3. ASSUME NEW row \in Row
      PROVE  row.code # "none" /\ row.archived \in BOOLEAN /\ row.isDefault \in BOOLEAN
  BY DEF Row
<1>4. CASE t[p] = Absent
  BY <1>2, <1>3, <1>4
<1>5. CASE t[p] \in Row
  BY <1>2, <1>3, <1>5
<1>6. QED
  BY <1>1, <1>4, <1>5

\* setDefault of an active project, or of none, moves the flag and nothing else.
LEMMA FlagMoved ==
    ASSUME projects \in Table, NEW p \in Ids \cup {NoId}
    PROVE  /\ WithDefault(p) \in Table
           /\ \A q \in Ids : /\ Usable(WithDefault(p), q) <=> Usable(projects, q)
                             /\ WithDefault(p)[q] = Absent <=> projects[q] = Absent
                             /\ WithDefault(p)[q].code = projects[q].code
                             /\ WithDefault(p)[q].archived = projects[q].archived
                             /\ WithDefault(p)[q].isDefault => q = p
           /\ p \in Ids /\ projects[p] # Absent => WithDefault(p)[p].isDefault
<1>1. /\ WithDefault(p) \in Table
      /\ \A q \in Ids : /\ WithDefault(p)[q].isDefault => q = p
                        /\ WithDefault(p)[q].code = projects[q].code
                        /\ WithDefault(p)[q].archived = projects[q].archived
  BY WithDefaultFacts DEF Table
<1>2. ASSUME NEW q \in Ids
      PROVE  /\ WithDefault(p)[q] = Absent <=> projects[q] = Absent
             /\ Usable(WithDefault(p), q) <=> Usable(projects, q)
  BY <1>1, AbsentCode DEF Usable
<1>3. ASSUME p \in Ids, projects[p] # Absent
      PROVE  WithDefault(p)[p].isDefault
  <2>1. p \in Live /\ projects[p] \in Row
    BY <1>3, AbsentCode DEF Live
  <2>2. WithDefault(p)[p] = [projects[p] EXCEPT !.isDefault = (p = p)]
    BY <1>3, <2>1 DEF WithDefault
  <2>3. (p = p) = TRUE
    OBVIOUS
  <2>4. WithDefault(p)[p] = [projects[p] EXCEPT !.isDefault = TRUE]
    BY <2>2, <2>3, Zenon
  <2>5. QED
    BY <2>1, <2>4 DEF Row
<1>4. QED
  BY <1>1, <1>2, <1>3

\* Moving the flag to an active project, or to none, keeps everything.
LEMMA KeptFlag ==
    ASSUME projects \in Table, NEW p \in Ids \cup {NoId}, NEW h \in SUBSET Ids,
           p # NoId => Usable(projects, p)
    PROVE  Kept(projects, WithDefault(p), h)
<1>1. PICK u : u = WithDefault(p)
  OBVIOUS
<1>2. /\ \A q \in Ids : /\ Usable(u, q) <=> Usable(projects, q)
                        /\ u[q] = Absent <=> projects[q] = Absent
                        /\ u[q].code = projects[q].code
                        /\ u[q].isDefault => q = p
  BY <1>1, FlagMoved
<1>3. Openable(projects) => Openable(u)
  BY <1>2 DEF Openable
<1>4. NoId \notin Ids
  BY ProjectsAssumption DEF Ids, NoId
<1>5. Kept(projects, u, h)
  BY <1>2, <1>3, <1>4 DEF Kept
<1>6. QED
  BY <1>1, <1>5

\* One row is written: an open one, or an archived one in place of one that is
\* not the last active project, keeps its code and does not get the flag.
LEMMA KeptRow ==
    ASSUME NEW t \in Table, NEW p \in Ids, NEW new \in Row, NEW h \in SUBSET Ids,
           new.archived => /\ t[p] # Absent
                           /\ t[p].code = "CHUNG" => new.code = "CHUNG"
                           /\ Usable(t, p) => Other(t, p)
                           /\ new.isDefault => t[p].isDefault /\ ~Usable(t, p)
    PROVE  Kept(t, [t EXCEPT ![p] = new], h) /\ [t EXCEPT ![p] = new] \in Table
<1>1. PICK u : u = [t EXCEPT ![p] = new]
  OBVIOUS
<1>2. u \in Table /\ u[p] = new /\ \A q \in Ids \ {p} : u[q] = t[q]
  BY <1>1 DEF Table
<1>3. new # Absent /\ new.archived \in BOOLEAN
  BY DEF Row, Absent
<1>4. \A q \in Ids \ {p} : Usable(u, q) <=> Usable(t, q)
  BY <1>2 DEF Usable
<1>5. ~new.archived => Usable(u, p)
  BY <1>2, <1>3 DEF Usable
<1>6. (\E q \in Ids : Usable(t, q)) => (\E q \in Ids : Usable(u, q))
  BY <1>4, <1>5 DEF Other
<1>7. \A q \in h : t[q] # Absent => u[q] # Absent
  BY <1>2, <1>3
<1>8. ASSUME \A q \in Ids : t[q].isDefault => Usable(t, q), NEW q \in Ids, u[q].isDefault
      PROVE  Usable(u, q)
  BY <1>2, <1>4, <1>5, <1>8
<1>9. Openable(t) => Openable(u)
  BY <1>2, <1>4, <1>5, <1>6 DEF Openable
<1>10. Kept(t, u, h)
  BY <1>6, <1>7, <1>8, <1>9 DEF Kept
<1>11. QED
  BY <1>1, <1>2, <1>10

\* One project is deleted: not the system project, nor the last active one, nor one
\* with tasks.
LEMMA KeptDelete ==
    ASSUME NEW t \in Table, NEW p \in Ids, NEW h \in SUBSET Ids,
           t[p].code # "CHUNG", p \notin h, Usable(t, p) => Other(t, p)
    PROVE  Kept(t, [t EXCEPT ![p] = Absent], h)
<1>1. PICK u : u = [t EXCEPT ![p] = Absent]
  OBVIOUS
<1>2. u[p] = Absent /\ \A q \in Ids \ {p} : u[q] = t[q]
  BY <1>1 DEF Table
<1>3. Absent.isDefault = FALSE
  BY DEF Absent
<1>4. \A q \in Ids \ {p} : Usable(u, q) <=> Usable(t, q)
  BY <1>2 DEF Usable
<1>5. (\E q \in Ids : Usable(t, q)) => (\E q \in Ids : Usable(u, q))
  BY <1>4 DEF Other
<1>6. \A q \in h : t[q] # Absent => u[q] # Absent
  BY <1>2
<1>7. ASSUME \A q \in Ids : t[q].isDefault => Usable(t, q), NEW q \in Ids, u[q].isDefault
      PROVE  Usable(u, q)
  BY <1>2, <1>3, <1>4, <1>7
<1>8. Openable(t) => Openable(u)
  BY <1>2, <1>5 DEF Openable
<1>9. Kept(t, u, h)
  BY <1>5, <1>6, <1>7, <1>8 DEF Kept
<1>10. QED
  BY <1>1, <1>9

\* countActive: one of two active projects is not p.
LEMMA NotLast ==
    ASSUME NEW p, ~LastActive
    PROVE  Other(projects, p)
<1>1. CASE Active \subseteq {p}
  <2>1. IsFiniteSet({p}) /\ Cardinality({p}) = 1
    BY FS_Singleton
  <2>2. IsFiniteSet(Active) /\ Cardinality(Active) <= 1
    BY <1>1, <2>1, FS_Subset
  <2>3. QED
    BY <2>2 DEF LastActive
<1>2. CASE ~(Active \subseteq {p})
  BY <1>2 DEF Other, Usable, Active, Live
<1>3. QED
  BY <1>1, <1>2

\* What a step of request r must show.
StillCurrent(r) ==
    /\ Kept(projects, projects', hasTasks)
    /\ Current(req'[r], projects', hasTasks')

\* How a step changes the slot of its request.
LEMMA SlotAfter ==
    ASSUME TypeInv, NEW r \in Reqs
    PROVE  /\ req[r] \in Request /\ projects \in Table /\ hasTasks \in SUBSET Ids
           /\ End(r) => req'[r].pc = "idle"
           /\ \A pc : Goto(r, pc) => /\ req'[r].pc = pc /\ req'[r].op = req[r].op
                                     /\ req'[r].id = req[r].id /\ req'[r].to = req[r].to
                                     /\ req'[r].dto = req[r].dto /\ req'[r].row = req[r].row
           /\ \A p : Opened(r, p) => req'[r].pc = "opened" /\ req'[r].id = p
           /\ \A p : GoGiveFlag(r, p) => req'[r].pc = "giveFlag" /\ req'[r].to = p
<1>1. req[r] \in Request /\ projects \in Table /\ hasTasks \in SUBSET Ids /\ req \in [Reqs -> Request]
  BY DEF TypeInv, TypeOK, Table
<1>2. Idle.pc = "idle"
  BY DEF Idle
<1>3. End(r) => req'[r] = Idle
  BY <1>1 DEF End
<1>4. ASSUME NEW pc, Goto(r, pc)
      PROVE  /\ req'[r].pc = pc /\ req'[r].op = req[r].op
             /\ req'[r].id = req[r].id /\ req'[r].to = req[r].to
             /\ req'[r].dto = req[r].dto /\ req'[r].row = req[r].row
  BY <1>1, <1>4 DEF Goto, Request
<1>5. ASSUME NEW p, Opened(r, p)
      PROVE  req'[r].pc = "opened" /\ req'[r].id = p
  BY <1>1, <1>5 DEF Opened, Request
<1>6. ASSUME NEW p, GoGiveFlag(r, p)
      PROVE  req'[r].pc = "giveFlag" /\ req'[r].to = p
  BY <1>1, <1>6 DEF GoGiveFlag, Request
<1>7. QED
  BY <1>1, <1>2, <1>3, <1>4, <1>5, <1>6

\* A request that only reads, or writes nothing but a task, and claims nothing then.
LEMMA FreeStep ==
    ASSUME TypeInv, NEW r \in Reqs, projects' = projects, req'[r].pc \in FreePcs
    PROVE  StillCurrent(r)
<1>1. PICK q : q = req'[r]
  OBVIOUS
<1>2. PICK h : h = hasTasks'
  OBVIOUS
<1>3. Current(q, projects', h)
  BY <1>1, FreeCurrent
<1>4. QED
  BY <1>1, <1>2, <1>3, KeptSame DEF StillCurrent

\* A request that has found or made the project to open.
LEMMA OpenedStep ==
    ASSUME NEW q, NEW t, NEW h, q.pc = "opened", q.id \in Ids, Usable(t, q.id), t[q.id].isDefault
    PROVE  Current(q, t, h)
  BY DEF Current, WritePcs, RemovePcs

\* A request that is about to set the flag of an active project.
LEMMA GiveFlagStep ==
    ASSUME NEW q, NEW t, NEW h, q.pc = "giveFlag", q.to \in Ids, Usable(t, q.to)
    PROVE  Current(q, t, h)
  BY DEF Current, WritePcs, RemovePcs

\* What the rows findFirst looks at are.
LEMMA RowsOf ==
    ASSUME projects \in Table
    PROVE  /\ \A p : p \in Active <=> p \in Ids /\ Usable(projects, p)
           /\ \A p : p \in Defaults <=> p \in Ids /\ projects[p].isDefault
           /\ \A p : p \in System <=> p \in Ids /\ projects[p].code = "CHUNG"
           /\ \A p : p \in Live <=> p \in Ids /\ projects[p] # Absent
<1>1. \A p \in Ids : projects[p].isDefault => projects[p] # Absent
  BY AbsentCode
<1>2. \A p \in Ids : projects[p].code = "CHUNG" => projects[p] # Absent
  BY AbsentCode
<1>3. QED
  BY <1>1, <1>2 DEF Active, Defaults, System, Live, Usable

\* The actions of ensureDefaultProject.
LEMMA EnsureSerial ==
    ASSUME TypeInv, SerialInv, NEW r \in Reqs, Ensure(r)
    PROVE  StillCurrent(r)
<1>0. /\ req[r] \in Request /\ projects \in Table /\ hasTasks \in SUBSET Ids
      /\ Openable(projects) /\ Current(req[r], projects, hasTasks)
  BY SlotAfter DEF SerialInv
<1>1. CASE FindDefault(r)
  <2>1. CASE UsableDefault # {}
    <3>1. PICK p : p = Oldest(UsableDefault)
      OBVIOUS
    <3>2. p \in Defaults /\ p \in Active
      BY <2>1, <3>1, OldestIn, RowSets DEF UsableDefault
    <3>3. p \in Ids /\ Usable(projects, p) /\ projects[p].isDefault
      BY <1>0, <3>2, RowsOf
    <3>4. req'[r].pc = "opened" /\ req'[r].id = p /\ projects' = projects
      BY <1>1, <2>1, <3>1, SlotAfter DEF FindDefault, ReadOnly
    <3>5. QED
      BY <3>3, <3>4, KeptSame, OpenedStep DEF StillCurrent
  <2>2. CASE UsableDefault = {}
    BY <1>1, <2>2, SlotAfter, FreeStep DEF FindDefault, ReadOnly, FreePcs
  <2>3. QED
    BY <2>1, <2>2
<1>2. CASE FindOldest(r)
  <2>0. projects' = projects
    BY <1>2 DEF FindOldest, ReadOnly
  <2>1. CASE Active # {}
    <3>1. PICK p : p = Oldest(Active)
      OBVIOUS
    <3>2. p \in Active
      BY <2>1, <3>1, OldestIn, RowSets
    <3>3. p \in Ids /\ Usable(projects, p)
      BY <1>0, <3>2, RowsOf
    <3>4. req'[r].pc = "giveFlag" /\ req'[r].to = p
      BY <1>2, <2>1, <3>1, SlotAfter DEF FindOldest
    <3>5. QED
      BY <2>0, <3>3, <3>4, KeptSame, GiveFlagStep DEF StillCurrent
  <2>2. CASE Active = {}
    <3>1. req'[r].pc = "findChung"
      BY <1>2, <2>2, SlotAfter DEF FindOldest
    <3>2. \A p \in Ids : ~Usable(projects, p)
      BY <1>0, <2>2, RowsOf
    <3>3. Current(req'[r], projects', hasTasks')
      BY <2>0, <3>1, <3>2 DEF Current, WritePcs, RemovePcs
    <3>4. QED
      BY <2>0, <3>3, KeptSame DEF StillCurrent
  <2>3. QED
    BY <2>1, <2>2
<1>3. CASE FindChung(r)
  <2>0. projects' = projects
    BY <1>3 DEF FindChung, ReadOnly
  <2>1. CASE System # {}
    <3>1. req'[r].pc = "revive"
      BY <1>0, <1>3, <2>1 DEF FindChung, Request, TypeInv, TypeOK
    <3>2. QED
      BY <2>0, <3>1, FreeStep DEF FreePcs
  <2>2. CASE System = {}
    <3>1. req'[r].pc = "insertChung"
      BY <1>3, <2>2, SlotAfter DEF FindChung
    <3>2. \A p \in Ids : ~Usable(projects, p)
      BY <1>0, <1>3 DEF FindChung, At, Current
    <3>3. \A p \in Ids : projects[p].code # "CHUNG"
      BY <1>0, <2>2, RowsOf
    <3>4. \A p \in Ids : projects[p] = Absent
      BY <1>0, <3>2, <3>3 DEF Openable
    <3>5. Current(req'[r], projects', hasTasks')
      BY <2>0, <3>1, <3>4 DEF Current, WritePcs, RemovePcs
    <3>6. QED
      BY <2>0, <3>5, KeptSame DEF StillCurrent
  <2>3. QED
    BY <2>1, <2>2
<1>4. CASE Revive(r)
  <2>1. CASE req[r].id \in Live
    <3>1. PICK p : p = req[r].id
      OBVIOUS
    <3>2. p \in Ids /\ projects[p] \in Row
      BY <1>0, <2>1, <3>1, RowsOf, AbsentCode
    <3>3. PICK new : new = [projects[p] EXCEPT !.archived = FALSE]
      OBVIOUS
    <3>4. new \in Row /\ ~new.archived /\ new # Absent
      BY <3>2, <3>3 DEF Row, Absent
    <3>5. projects' = [projects EXCEPT ![p] = new] /\ GoGiveFlag(r, p)
      <4>1. projects' = [projects EXCEPT ![p].archived = FALSE] /\ GoGiveFlag(r, p)
        BY <1>4, <2>1, <3>1 DEF Revive
      <4>2. QED
        BY <3>3, <4>1
    <3>6. Kept(projects, projects', hasTasks)
      BY <1>0, <3>2, <3>4, <3>5, KeptRow
    <3>7. Usable(projects', p)
      BY <1>0, <3>2, <3>4, <3>5 DEF Usable, Table
    <3>8. req'[r].pc = "giveFlag" /\ req'[r].to = p
      BY <3>5, SlotAfter
    <3>9. Current(req'[r], projects', hasTasks')
      BY <3>2, <3>7, <3>8, GiveFlagStep
    <3>10. QED
      BY <3>6, <3>9 DEF StillCurrent
  <2>2. CASE req[r].id \notin Live
    BY <1>4, <2>2, SlotAfter, FreeStep DEF Revive, FreePcs
  <2>3. QED
    BY <2>1, <2>2
<1>5. CASE InsertChung(r)
  <2>1. nextId \in Ids
    BY <1>5, ProjectsAssumption DEF InsertChung, Ids, TypeInv, TypeOK
  <2>2. Chung \in Row /\ ~Chung.archived /\ Chung.isDefault /\ Chung # Absent
    BY DEF Chung, Row, Absent
  <2>3. projects' = [projects EXCEPT ![nextId] = Chung] /\ Opened(r, nextId)
    BY <1>5 DEF InsertChung
  <2>4. Kept(projects, projects', hasTasks)
    BY <1>0, <2>1, <2>2, <2>3, KeptRow
  <2>5. Usable(projects', nextId) /\ projects'[nextId].isDefault
    BY <1>0, <2>1, <2>2, <2>3 DEF Usable, Table
  <2>6. req'[r].pc = "opened" /\ req'[r].id = nextId
    BY <2>3, SlotAfter
  <2>7. Current(req'[r], projects', hasTasks')
    BY <2>1, <2>5, <2>6, OpenedStep
  <2>8. QED
    BY <2>4, <2>7 DEF StillCurrent
<1>6. CASE InsertChungFails(r)
  <2>1. projects' = projects /\ req'[r].pc = "fallbackDefault"
    BY <1>6, SlotAfter DEF InsertChungFails, ReadOnly
  <2>2. \A p \in Ids : projects[p] = Absent
    BY <1>0, <1>6 DEF InsertChungFails, At, Current
  <2>3. Current(req'[r], projects', hasTasks')
    BY <2>1, <2>2 DEF Current, WritePcs, RemovePcs
  <2>4. QED
    BY <2>1, <2>3, KeptSame DEF StillCurrent
<1>7. CASE FallbackDefault(r)
  <2>1. \A p \in Ids : projects[p] = Absent
    BY <1>0, <1>7 DEF FallbackDefault, At, Current
  <2>2. Defaults = {}
    BY <2>1 DEF Defaults, Live
  <2>3. projects' = projects /\ req'[r].pc = "fallbackCode"
    BY <1>7, <2>2, SlotAfter DEF FallbackDefault, ReadOnly
  <2>4. Current(req'[r], projects', hasTasks')
    BY <2>1, <2>3 DEF Current, WritePcs, RemovePcs
  <2>5. QED
    BY <2>3, <2>4, KeptSame DEF StillCurrent
<1>8. CASE FallbackCode(r)
  <2>1. \A p \in Ids : projects[p] = Absent
    BY <1>0, <1>8 DEF FallbackCode, At, Current
  <2>2. System = {}
    BY <2>1 DEF System, Live
  <2>3. QED
    BY <1>8, <2>2, SlotAfter, FreeStep DEF FallbackCode, ReadOnly, FreePcs
<1>9. CASE UseOpened(r)
  BY <1>9, SlotAfter, FreeStep DEF UseOpened, ReadOnly, FreePcs
<1>10. QED
  BY <1>1, <1>2, <1>3, <1>4, <1>5, <1>6, <1>7, <1>8, <1>9 DEF Ensure

\* requireOwnProject: the checks are made on the row as it is.
LEMMA ReadSerial ==
    ASSUME TypeInv, SerialInv, NEW r \in Reqs, ReadProject(r)
    PROVE  StillCurrent(r)
<1>. DEFINE old == req[r]
            row == projects[old.id]
            new == req'[r]
            pc == AfterRead(old.op, row, old.dto)
<1>0. /\ old \in Request /\ projects \in Table /\ old.op \in IdOps /\ old.id \in Ids
      /\ old.op = "archive" => old.dto.code = "keep"
  BY SlotAfter DEF TypeInv, BodyOK, ReadProject, At
<1>1. projects' = projects
  BY DEF ReadProject, ReadOnly
<1>2. CASE row = Absent \/ Refused(old.op, row, old.dto)
  BY <1>1, <1>2, SlotAfter, FreeStep DEF ReadProject, FreePcs
<1>3. CASE ~(row = Absent \/ Refused(old.op, row, old.dto))
  <2>1. new = [old EXCEPT !.pc = pc, !.row = row, !.to = old.id]
    BY <1>3 DEF ReadProject, TypeInv, TypeOK
  <2>2. new.pc = pc /\ new.row = row /\ new.to = old.id /\ new.id = old.id /\ new.dto = old.dto
    BY <1>0, <2>1 DEF Request
  <2>3. row # Absent /\ ~Refused(old.op, row, old.dto)
    BY <1>3
  <2>4. PICK t : t = projects
    OBVIOUS
  <2>5. PICK h : h = hasTasks'
    OBVIOUS
  <2>6. t[old.id] = row
    BY <2>4
  <2>. HIDE DEF new, row, pc
  <2>7. CASE old.op = "taskIn"
    <3>1. pc = "insertTask"
      BY <2>7 DEF pc, AfterRead
    <3>2. QED
      BY <1>1, <2>2, <3>1, FreeStep DEF FreePcs, new
  <2>8. CASE old.op = "setDefault"
    <3>1. pc = "giveFlag"
      BY <2>8 DEF pc, AfterRead
    <3>2. Usable(t, new.to)
      BY <2>2, <2>3, <2>6, <2>8 DEF Refused, Usable
    <3>3. Current(new, t, h)
      BY <1>0, <2>2, <3>1, <3>2, GiveFlagStep
    <3>4. QED
      BY <1>1, <2>4, <2>5, <3>3, KeptSame DEF StillCurrent, new
  <2>9. CASE old.op \in {"patch", "archive"}
    <3>1. /\ pc \in {"checkFree", "countForArchive", "update"}
          /\ pc = "update" => ~Archiving(row, old.dto)
      BY <2>9 DEF pc, AfterRead
    <3>2. row.code = "CHUNG" => old.dto.code \in {"keep", "CHUNG"}
      BY <1>0, <2>3, <2>9 DEF Refused, Recoding
    <3>3. Current(new, t, h)
      BY <1>0, <2>2, <2>3, <2>6, <3>1, <3>2 DEF Current, WritePcs, RemovePcs, Archiving
    <3>4. QED
      BY <1>1, <2>4, <2>5, <3>3, KeptSame DEF StillCurrent, new
  <2>10. CASE old.op = "remove"
    <3>1. pc = "countTasks"
      BY <2>10 DEF pc, AfterRead
    <3>2. row.code # "CHUNG"
      BY <2>3, <2>10 DEF Refused
    <3>3. Current(new, t, h)
      BY <1>0, <2>2, <2>3, <2>6, <3>1, <3>2 DEF Current, WritePcs, RemovePcs
    <3>4. QED
      BY <1>1, <2>4, <2>5, <3>3, KeptSame DEF StillCurrent, new
  <2>11. QED
    BY <1>0, <2>7, <2>8, <2>9, <2>10 DEF IdOps
<1>4. QED
  BY <1>2, <1>3

\* The checks of PATCH, archive and remove, and the choice of the next default project.
LEMMA ChecksSerial ==
    ASSUME TypeInv, SerialInv, NEW r \in Reqs,
           \/ CheckFree(r) \/ CountForArchive(r) \/ PickNext(r)
           \/ CountTasks(r) \/ CountForRemove(r) \/ RestoreFlag(r) \/ PickAfterDelete(r)
    PROVE  StillCurrent(r)
<1>. DEFINE old == req[r]
            new == req'[r]
<1>0. /\ old \in Request /\ projects \in Table /\ Current(old, projects, hasTasks)
      /\ projects' = projects /\ hasTasks' = hasTasks
  BY SlotAfter DEF SerialInv, CheckFree, CountForArchive, PickNext, CountTasks, CountForRemove,
     RestoreFlag, PickAfterDelete, ReadOnly
<1>1. ASSUME Current(new, projects, hasTasks) \/ new.pc \in FreePcs
      PROVE  StillCurrent(r)
  BY <1>0, <1>1, FreeStep, KeptSame DEF StillCurrent
<1>2. PICK t : t = projects
  OBVIOUS
<1>3. PICK h : h = hasTasks
  OBVIOUS
<1>4. ASSUME NEW pc, Goto(r, pc)
      PROVE  new.pc = pc /\ new.id = old.id /\ new.to = old.to /\ new.dto = old.dto /\ new.row = old.row
  BY <1>4, SlotAfter
<1>5. End(r) => new.pc \in FreePcs
  BY SlotAfter DEF FreePcs
<1>6. CASE CheckFree(r)
  <2>1. old.pc = "checkFree"
    BY <1>6 DEF CheckFree, At
  <2>2. \/ End(r)
        \/ Goto(r, IF Archiving(old.row, old.dto) THEN "countForArchive" ELSE "update")
    BY <1>6, Zenon DEF CheckFree
  <2>3. ASSUME Goto(r, IF Archiving(old.row, old.dto) THEN "countForArchive" ELSE "update")
        PROVE  Current(new, t, h)
    <3>1. /\ new.pc \in {"countForArchive", "update"}
          /\ new.pc = "update" => ~Archiving(old.row, old.dto)
          /\ new.id = old.id /\ new.dto = old.dto /\ new.row = old.row
      BY <1>4, <2>3
    <3>2. /\ old.id \in Ids /\ t[old.id] # Absent /\ old.row = t[old.id]
          /\ t[old.id].code = "CHUNG" => old.dto.code \in {"keep", "CHUNG"}
      BY <1>0, <1>2, <2>1 DEF Current, WritePcs
    <3>. HIDE DEF new, old
    <3>3. QED
      BY <3>1, <3>2 DEF Current, WritePcs, RemovePcs, Archiving
  <2>4. QED
    BY <1>1, <1>2, <1>3, <1>5, <2>2, <2>3
<1>7. CASE CountForArchive(r)
  <2>1. old.pc = "countForArchive"
    BY <1>7 DEF CountForArchive, At
  <2>2. \/ End(r)
        \/ ~LastActive /\ Goto(r, IF old.row.isDefault THEN "pickNext" ELSE "update")
    BY <1>7, Zenon DEF CountForArchive
  <2>3. ASSUME ~LastActive, Goto(r, IF old.row.isDefault THEN "pickNext" ELSE "update")
        PROVE  Current(new, t, h)
    <3>1. /\ new.pc \in {"pickNext", "update"}
          /\ new.pc = "update" => ~old.row.isDefault
          /\ new.id = old.id /\ new.dto = old.dto /\ new.row = old.row
      BY <1>4, <2>3
    <3>2. /\ old.id \in Ids /\ t[old.id] # Absent /\ old.row = t[old.id]
          /\ t[old.id].code = "CHUNG" => old.dto.code \in {"keep", "CHUNG"}
      BY <1>0, <1>2, <2>1 DEF Current, WritePcs
    <3>3. Other(t, old.id)
      BY <1>2, <2>3, NotLast
    <3>. HIDE DEF new, old
    <3>4. QED
      BY <3>1, <3>2, <3>3 DEF Current, WritePcs, RemovePcs
  <2>4. QED
    BY <1>1, <1>2, <1>3, <1>5, <2>2, <2>3
<1>8. CASE PickNext(r)
  <2>1. old.pc = "pickNext"
    BY <1>8 DEF PickNext, At
  <2>2. /\ old.id \in Ids /\ t[old.id] # Absent /\ Other(t, old.id)
        /\ t[old.id].code = "CHUNG" => old.dto.code \in {"keep", "CHUNG"}
    BY <1>0, <1>2, <2>1 DEF Current, WritePcs
  <2>3. PICK next : next = Oldest(Active)
    OBVIOUS
  <2>4. next \in Ids /\ Usable(t, next)
    <3>1. Active # {}
      BY <1>0, <1>2, <2>2, RowsOf DEF Other
    <3>2. next \in Active
      BY <2>3, <3>1, OldestIn, RowSets
    <3>3. QED
      BY <1>0, <1>2, <3>2, RowsOf
  <2>5. /\ new.pc = "moveFlag" /\ new.id = old.id /\ new.dto = old.dto
        /\ new.to = IF next = old.id THEN NoId ELSE next
    BY <1>0, <1>8, <2>3 DEF PickNext, Request, TypeInv, TypeOK
  <2>6. NoId \notin Ids
    BY ProjectsAssumption DEF Ids, NoId
  <2>. HIDE DEF new, old
  <2>7. Current(new, t, h)
    BY <2>2, <2>4, <2>5, <2>6 DEF Current, WritePcs, RemovePcs
  <2>8. QED
    BY <1>1, <1>2, <1>3, <2>7
<1>9. CASE CountTasks(r)
  <2>1. old.pc = "countTasks"
    BY <1>9 DEF CountTasks, At
  <2>2. \/ End(r)
        \/ old.id \notin h /\ Goto(r, IF old.row.archived THEN "delete" ELSE "countForRemove")
    BY <1>3, <1>9, Zenon DEF CountTasks
  <2>3. ASSUME old.id \notin h, Goto(r, IF old.row.archived THEN "delete" ELSE "countForRemove")
        PROVE  Current(new, t, h)
    <3>1. /\ new.pc \in {"delete", "countForRemove"}
          /\ new.pc = "delete" => old.row.archived
          /\ new.id = old.id
      BY <1>4, <2>3
    <3>2. old.id \in Ids /\ t[old.id] # Absent /\ old.row = t[old.id] /\ t[old.id].code # "CHUNG"
      BY <1>0, <1>2, <2>1 DEF Current, RemovePcs
    <3>. HIDE DEF new, old
    <3>3. QED
      BY <2>3, <3>1, <3>2 DEF Current, WritePcs, RemovePcs
  <2>4. QED
    BY <1>1, <1>2, <1>3, <1>5, <2>2, <2>3
<1>10. CASE CountForRemove(r)
  <2>1. old.pc = "countForRemove"
    BY <1>10 DEF CountForRemove, At
  <2>2. End(r) \/ (~LastActive /\ Goto(r, "delete"))
    BY <1>10 DEF CountForRemove
  <2>3. ASSUME ~LastActive, Goto(r, "delete")
        PROVE  Current(new, t, h)
    <3>1. new.pc = "delete" /\ new.id = old.id
      BY <1>4, <2>3
    <3>2. /\ old.id \in Ids /\ t[old.id] # Absent /\ t[old.id].code # "CHUNG"
          /\ old.id \notin h
      BY <1>0, <1>2, <1>3, <2>1 DEF Current, RemovePcs
    <3>3. Other(t, old.id)
      BY <1>2, <2>3, NotLast
    <3>. HIDE DEF new, old
    <3>4. QED
      BY <3>1, <3>2, <3>3 DEF Current, WritePcs, RemovePcs
  <2>4. QED
    BY <1>1, <1>2, <1>3, <1>5, <2>2, <2>3
<1>11. CASE RestoreFlag(r)
  <2>1. old.pc = "restoreFlag"
    BY <1>11 DEF RestoreFlag, At
  <2>2. old.id \in Ids /\ Usable(t, old.id)
    BY <1>0, <1>2, <2>1 DEF Current
  <2>3. End(r) \/ GoGiveFlag(r, old.id)
    BY <1>11 DEF RestoreFlag
  <2>4. ASSUME GoGiveFlag(r, old.id)
        PROVE  Current(new, t, h)
    BY <2>2, <2>4, SlotAfter, GiveFlagStep
  <2>5. QED
    BY <1>1, <1>2, <1>3, <1>5, <2>3, <2>4
<1>12. CASE PickAfterDelete(r)
  <2>1. End(r) \/ (Active # {} /\ GoGiveFlag(r, Oldest(Active)))
    BY <1>12 DEF PickAfterDelete
  <2>2. ASSUME Active # {}, GoGiveFlag(r, Oldest(Active))
        PROVE  Current(new, t, h)
    <3>1. PICK p : p = Oldest(Active)
      OBVIOUS
    <3>2. p \in Active
      BY <2>2, <3>1, OldestIn, RowSets
    <3>3. p \in Ids /\ Usable(t, p)
      BY <1>0, <1>2, <3>2, RowsOf
    <3>4. QED
      BY <2>2, <3>1, <3>3, SlotAfter, GiveFlagStep
  <2>3. QED
    BY <1>1, <1>2, <1>3, <1>5, <2>1, <2>2
<1>13. QED
  BY <1>6, <1>7, <1>8, <1>9, <1>10, <1>11, <1>12

\* The writes of archive, restore, PUT /default and DELETE.
LEMMA WritesSerial ==
    ASSUME TypeInv, SerialInv, NEW r \in Reqs,
           MoveFlag(r) \/ Update(r) \/ GiveFlag(r) \/ Delete(r)
    PROVE  StillCurrent(r)
<1>. DEFINE old == req[r]
            new == req'[r]
<1>0. /\ old \in Request /\ projects \in Table /\ hasTasks \in SUBSET Ids
      /\ Current(old, projects, hasTasks)
  BY SlotAfter DEF SerialInv
<1>1. ASSUME NEW pc, Goto(r, pc)
      PROVE  new.pc = pc /\ new.id = old.id /\ new.to = old.to /\ new.dto = old.dto
  BY <1>1, SlotAfter
<1>2. End(r) => new.pc \in FreePcs
  BY SlotAfter DEF FreePcs
<1>3. ASSUME new.pc \in FreePcs, Kept(projects, projects', hasTasks)
      PROVE  StillCurrent(r)
  <2>1. PICK h : h = hasTasks'
    OBVIOUS
  <2>2. PICK u : u = projects'
    OBVIOUS
  <2>3. Current(new, u, h)
    BY <1>3, FreeCurrent
  <2>4. QED
    BY <1>3, <2>1, <2>2, <2>3 DEF StillCurrent
<1>4. NoId \notin Ids
  BY ProjectsAssumption DEF Ids, NoId
<1>5. CASE MoveFlag(r)
  <2>1. PICK p : p = old.to
    OBVIOUS
  <2>2. /\ old.id \in Ids /\ projects[old.id] # Absent /\ Other(projects, old.id)
        /\ projects[old.id].code = "CHUNG" => old.dto.code \in {"keep", "CHUNG"}
        /\ p # old.id /\ p \in Ids \cup {NoId} /\ (p # NoId => Usable(projects, p))
    BY <1>0, <1>5, <2>1 DEF MoveFlag, At, Current, WritePcs, Request
  <2>3. PICK u : u = WithDefault(p)
    OBVIOUS
  <2>4. /\ Kept(projects, u, hasTasks)
        /\ \A q \in Ids : /\ Usable(u, q) <=> Usable(projects, q)
                          /\ u[q] = Absent <=> projects[q] = Absent
                          /\ u[q].code = projects[q].code
                          /\ u[q].isDefault => q = p
    BY <1>0, <2>2, <2>3, KeptFlag, FlagMoved
  <2>5. CASE p = NoId \/ p \in Live
    <3>1. projects' = u /\ hasTasks' = hasTasks /\ Goto(r, "update")
      BY <1>5, <2>1, <2>3, <2>5 DEF MoveFlag
    <3>2. new.pc = "update" /\ new.id = old.id /\ new.dto = old.dto
      BY <1>1, <3>1
    <3>3. Other(u, old.id)
      BY <2>2, <2>4 DEF Other
    <3>4. u[old.id] # Absent /\ u[old.id].code = projects[old.id].code /\ ~u[old.id].isDefault
      BY <2>2, <2>4
    <3>. HIDE DEF new, old
    <3>5. Current(new, u, hasTasks)
      BY <2>2, <3>2, <3>3, <3>4 DEF Current, WritePcs, RemovePcs
    <3>6. QED
      BY <2>4, <3>1, <3>5 DEF StillCurrent, new
  <2>6. CASE ~(p = NoId \/ p \in Live)
    BY <1>2, <1>3, <1>5, <2>1, <2>6, KeptSame DEF MoveFlag
  <2>7. QED
    BY <2>5, <2>6
<1>6. CASE Update(r)
  <2>. DEFINE p == old.id
              row == Updated(projects[p], old.dto)
              reopens == old.op = "archive" /\ old.dto.archived = "no"
  <2>1. /\ p \in Ids /\ projects[p] # Absent
        /\ projects[p].code = "CHUNG" => old.dto.code \in {"keep", "CHUNG"}
        /\ old.dto.archived = "yes" /\ ~projects[p].archived =>
              ~projects[p].isDefault /\ Other(projects, p)
    BY <1>0, <1>6 DEF Update, At, Current, WritePcs
  <2>2. projects[p] \in Row /\ old.dto \in Dto /\ old.dto.archived \in {"keep", "yes", "no"}
    BY <1>0, <2>1, AbsentCode DEF Request, Dto
  <2>3. /\ row \in Row /\ row.isDefault = projects[p].isDefault
        /\ row.code = IF old.dto.code = "keep" THEN projects[p].code ELSE old.dto.code
        /\ row.archived = IF old.dto.archived = "keep" THEN projects[p].archived
                                                       ELSE old.dto.archived = "yes"
    <3>1. /\ row.code = IF old.dto.code = "keep" THEN projects[p].code ELSE old.dto.code
          /\ row.archived = IF old.dto.archived = "keep" THEN projects[p].archived
                                                         ELSE old.dto.archived = "yes"
      BY <2>2 DEF Updated, Row
    <3>2. QED
      BY <2>2, <3>1, UpdatedRow
  <2>4. \/ End(r) /\ projects' = projects
        \/ /\ projects' = [projects EXCEPT ![p] = row]
           /\ End(r) \/ (old.dto.archived = "no" /\ Goto(r, "restoreFlag"))
    BY <1>6 DEF Update
  <2>5. hasTasks' = hasTasks
    BY <1>6 DEF Update
  <2>. HIDE DEF row, new
  <2>6. CASE End(r) /\ projects' = projects
    BY <1>2, <1>3, <2>6, KeptSame
  <2>7. ASSUME projects' = [projects EXCEPT ![p] = row],
               End(r) \/ (old.dto.archived = "no" /\ Goto(r, "restoreFlag"))
        PROVE  StillCurrent(r)
    <3>1. ASSUME row.archived
          PROVE  /\ projects[p].code = "CHUNG" => row.code = "CHUNG"
                 /\ Usable(projects, p) => Other(projects, p)
                 /\ row.isDefault => projects[p].isDefault /\ ~Usable(projects, p)
      <4>1. projects[p].archived \/ old.dto.archived = "yes"
        BY <2>2, <2>3, <3>1
      <4>2. projects[p].code = "CHUNG" => row.code = "CHUNG"
        BY <2>1, <2>3
      <4>3. CASE projects[p].archived
        BY <2>3, <4>2, <4>3 DEF Usable
      <4>4. CASE ~projects[p].archived
        BY <2>1, <2>3, <4>1, <4>2, <4>4
      <4>5. QED
        BY <4>3, <4>4
    <3>2. Kept(projects, projects', hasTasks)
      BY <1>0, <2>1, <2>3, <2>7, <3>1, KeptRow
    <3>3. CASE End(r)
      BY <1>2, <1>3, <3>2, <3>3 DEF new
    <3>4. CASE old.dto.archived = "no" /\ Goto(r, "restoreFlag")
      <4>1. new.pc = "restoreFlag" /\ new.id = p
        BY <1>1, <3>4 DEF new
      <4>2. projects'[p] = row /\ row # Absent /\ ~row.archived
        BY <1>0, <2>1, <2>3, <2>7, <3>4 DEF Table, Row, Absent
      <4>3. Usable(projects', p)
        BY <4>2 DEF Usable
      <4>4. PICK u : u = projects'
        OBVIOUS
      <4>5. Current(new, u, hasTasks)
        BY <2>1, <4>1, <4>3, <4>4 DEF Current, WritePcs, RemovePcs
      <4>6. QED
        BY <2>5, <3>2, <4>4, <4>5 DEF StillCurrent, new
    <3>5. QED
      BY <2>7, <3>3, <3>4
  <2>8. QED
    BY <2>4, <2>6, <2>7
<1>7. CASE GiveFlag(r)
  <2>1. PICK p : p = old.to
    OBVIOUS
  <2>2. p \in Ids /\ Usable(projects, p)
    BY <1>0, <1>7, <2>1 DEF GiveFlag, At, Current
  <2>3. PICK u : u = WithDefault(p)
    OBVIOUS
  <2>4. Kept(projects, u, hasTasks)
    BY <1>0, <2>2, <2>3, KeptFlag
  <2>5. Usable(u, p) /\ u[p].isDefault
    BY <1>0, <2>2, <2>3, FlagMoved DEF Usable
  <2>6. p \in Live
    BY <1>0, <2>2, RowsOf DEF Usable
  <2>7. projects' = u /\ (End(r) \/ Opened(r, p))
    BY <1>7, <2>1, <2>3, <2>6 DEF GiveFlag
  <2>8. CASE End(r)
    BY <1>2, <1>3, <2>4, <2>7, <2>8
  <2>9. CASE Opened(r, p)
    <3>1. new.pc = "opened" /\ new.id = p
      BY <2>9, SlotAfter
    <3>2. Current(new, projects', hasTasks')
      BY <2>2, <2>5, <2>7, <3>1, OpenedStep
    <3>3. QED
      BY <2>4, <2>7, <3>2 DEF StillCurrent
  <2>10. QED
    BY <2>7, <2>8, <2>9
<1>8. CASE Delete(r)
  <2>1. PICK p : p = old.id
    OBVIOUS
  <2>2. /\ p \in Ids /\ projects[p].code # "CHUNG" /\ p \notin hasTasks
        /\ ~projects[p].archived => Other(projects, p)
    BY <1>0, <1>8, <2>1 DEF Delete, At, Current, RemovePcs
  <2>3. projects' = [projects EXCEPT ![p] = Absent]
    BY <1>8, <2>1 DEF Delete
  <2>4. Kept(projects, projects', hasTasks)
    BY <1>0, <2>2, <2>3, KeptDelete DEF Usable
  <2>5. End(r) \/ Goto(r, "pickAfterDelete")
    BY <1>8, Zenon DEF Delete
  <2>6. new.pc \in FreePcs
    BY <1>1, <1>2, <2>5 DEF FreePcs
  <2>7. QED
    BY <1>3, <2>4, <2>6
<1>9. QED
  BY <1>5, <1>6, <1>7, <1>8

\* create, and the insertion of a task.
LEMMA CreatesSerial ==
    ASSUME TypeInv, SerialInv, NEW r \in Reqs,
           CountForCreate(r) \/ CheckCreate(r) \/ Insert(r) \/ InsertTask(r)
    PROVE  StillCurrent(r)
<1>. DEFINE old == req[r]
            new == req'[r]
<1>0. /\ old \in Request /\ projects \in Table /\ hasTasks \in SUBSET Ids
      /\ Current(old, projects, hasTasks)
  BY SlotAfter DEF SerialInv
<1>1. CASE InsertTask(r)
  BY <1>1, SlotAfter, FreeStep DEF InsertTask, FreePcs
<1>2. CASE CountForCreate(r)
  <2>1. old.dto \in Dto /\ old.dto.archived = "keep"
    BY <1>0, <1>2 DEF CountForCreate, At, Current, Request
  <2>2. projects' = projects
    BY <1>2 DEF CountForCreate, ReadOnly
  <2>3. \/ End(r)
        \/ req' = [req EXCEPT ![r].pc = "checkCreate", ![r].dto = FirstIsDefault(@)]
    BY <1>2 DEF CountForCreate
  <2>4. ASSUME req' = [req EXCEPT ![r].pc = "checkCreate", ![r].dto = FirstIsDefault(@)]
        PROVE  new.pc = "checkCreate" /\ new.dto.archived = "keep"
    <3>1. new.pc = "checkCreate" /\ new.dto = FirstIsDefault(old.dto)
      BY <1>0, <2>4 DEF Request, TypeInv, TypeOK
    <3>2. FirstIsDefault(old.dto).archived = "keep"
      BY <2>1 DEF FirstIsDefault, Dto
    <3>3. QED
      BY <3>1, <3>2
  <2>5. CASE End(r)
    BY <2>2, <2>5, SlotAfter, FreeStep DEF FreePcs
  <2>6. CASE req' = [req EXCEPT ![r].pc = "checkCreate", ![r].dto = FirstIsDefault(@)]
    <3>1. new.pc = "checkCreate" /\ new.dto.archived = "keep"
      BY <2>4, <2>6
    <3>. HIDE DEF new
    <3>2. Current(new, projects', hasTasks')
      BY <3>1 DEF Current, WritePcs, RemovePcs
    <3>3. QED
      BY <2>2, <3>2, KeptSame DEF StillCurrent, new
  <2>7. QED
    BY <2>3, <2>5, <2>6
<1>3. CASE CheckCreate(r)
  <2>1. old.dto.archived = "keep"
    BY <1>0, <1>3 DEF CheckCreate, At, Current
  <2>2. projects' = projects
    BY <1>3 DEF CheckCreate, ReadOnly
  <2>3. CASE End(r)
    BY <2>2, <2>3, SlotAfter, FreeStep DEF FreePcs
  <2>4. CASE Goto(r, "insert")
    <3>1. new.pc = "insert" /\ new.dto.archived = "keep"
      BY <2>1, <2>4, SlotAfter
    <3>. HIDE DEF new
    <3>2. Current(new, projects', hasTasks')
      BY <3>1 DEF Current, WritePcs, RemovePcs
    <3>3. QED
      BY <2>2, <3>2, KeptSame DEF StillCurrent, new
  <2>5. QED
    BY <1>3, <2>3, <2>4 DEF CheckCreate
<1>4. CASE Insert(r)
  <2>1. PICK row : row = Updated([Absent EXCEPT !.code = "OTHER"], old.dto)
    OBVIOUS
  <2>2. /\ old.dto \in Dto /\ old.dto.archived = "keep"
        /\ old.dto.code # "keep" /\ old.dto.name # "keep"
    BY <1>0, <1>4 DEF Insert, At, Current, Request, TypeInv, BodyOK
  <2>3. row \in Row /\ ~row.archived /\ row # Absent
    <3>1. row \in Row
      BY <2>1, <2>2, NewRow
    <3>2. ~row.archived
      BY <2>1, <2>2 DEF Updated, Absent
    <3>3. QED
      BY <3>1, <3>2 DEF Row, Absent
  <2>4. nextId \in Ids
    BY <1>4, ProjectsAssumption DEF Insert, Ids, TypeInv, TypeOK
  <2>5. projects' = [projects EXCEPT ![nextId] = row] /\ (End(r) \/ GoGiveFlag(r, nextId))
    BY <1>4, <2>1 DEF Insert
  <2>6. Kept(projects, projects', hasTasks)
    BY <1>0, <2>3, <2>4, <2>5, KeptRow
  <2>7. Usable(projects', nextId)
    BY <1>0, <2>3, <2>4, <2>5 DEF Usable, Table
  <2>8. CASE End(r)
    <3>1. new.pc \in FreePcs
      BY <2>8, SlotAfter DEF FreePcs
    <3>2. PICK u, h : u = projects' /\ h = hasTasks'
      OBVIOUS
    <3>3. Current(new, u, h)
      BY <3>1, FreeCurrent
    <3>4. QED
      BY <2>6, <3>2, <3>3 DEF StillCurrent
  <2>9. CASE GoGiveFlag(r, nextId)
    <3>1. new.pc = "giveFlag" /\ new.to = nextId
      BY <2>9, SlotAfter
    <3>2. Current(new, projects', hasTasks')
      BY <2>4, <2>7, <3>1, GiveFlagStep
    <3>3. QED
      BY <2>6, <3>2 DEF StillCurrent
  <2>10. QED
    BY <2>5, <2>8, <2>9
<1>5. QED
  BY <1>1, <1>2, <1>3, <1>4

\* A request arrives knowing nothing of the table.
LEMMA ArrivalSerial ==
    ASSUME TypeInv, SerialInv, NEW r \in Reqs,
           ArriveEnsure(r) \/ ArriveById(r) \/ ArriveCreate(r)
    PROVE  StillCurrent(r)
<1>1. ASSUME NEW op, NEW id, NEW dto, NEW pc, Arrive(r, op, id, dto, pc),
             pc \in FreePcs \/ (pc = "countForCreate" /\ dto.archived = "keep")
      PROVE  StillCurrent(r)
  <2>1. projects' = projects /\ req'[r].pc = pc /\ req'[r].dto = dto
    BY <1>1 DEF Arrive, ReadOnly, TypeInv, TypeOK
  <2>2. CASE pc \in FreePcs
    BY <2>1, <2>2, FreeStep
  <2>3. CASE pc = "countForCreate" /\ dto.archived = "keep"
    <3>1. Current(req'[r], projects', hasTasks')
      BY <2>1, <2>3 DEF Current, WritePcs, RemovePcs
    <3>2. QED
      BY <2>1, <3>1, KeptSame DEF StillCurrent
  <2>4. QED
    BY <1>1, <2>2, <2>3
<1>2. "findDefault" \in FreePcs /\ "read" \in FreePcs
  BY DEF FreePcs
<1>3. \A dto \in CreateBodies : dto.archived = "keep"
  BY ProjectsAssumption
<1>4. CASE ArriveEnsure(r)
  BY <1>1, <1>2, <1>4 DEF ArriveEnsure
<1>5. CASE ArriveById(r)
  BY <1>1, <1>2, <1>5 DEF ArriveById
<1>6. CASE ArriveCreate(r)
  BY <1>1, <1>3, <1>6 DEF ArriveCreate
<1>7. QED
  BY <1>4, <1>5, <1>6

\* With one request at a time, what it has read is so when it acts.
LEMMA SerialStep ==
    ASSUME OneAtATime, TypeInv, SerialInv, [Next]_vars
    PROVE  SerialInv' /\ Kept(projects, projects', hasTasks)
<1>1. CASE UNCHANGED vars
  BY <1>1, KeptSame DEF vars, SerialInv
<1>2. ASSUME NEW r \in Reqs, StillCurrent(r)
      PROVE  SerialInv' /\ Kept(projects, projects', hasTasks)
  <2>1. Kept(projects, projects', hasTasks) /\ Current(req'[r], projects', hasTasks')
    BY <1>2 DEF StillCurrent
  <2>2. Openable(projects')
    BY <2>1 DEF Kept, SerialInv
  <2>3. \A q \in Reqs : q = r
    BY DEF OneAtATime
  <2>4. \A q \in Reqs : Current(req'[q], projects', hasTasks')
    BY <2>1, <2>3
  <2>5. QED
    BY <2>1, <2>2, <2>4 DEF SerialInv
<1>3. ASSUME NEW r \in Reqs, RequestFails(r)
      PROVE  StillCurrent(r)
  BY <1>3, SlotAfter, FreeStep DEF RequestFails, ReadOnly, FreePcs
<1>4. ASSUME NEW r \in Reqs, Manage(r)
      PROVE  StillCurrent(r)
  BY <1>4, ReadSerial, ChecksSerial, WritesSerial, CreatesSerial DEF Manage
<1>5. QED
  BY <1>1, <1>2, <1>3, <1>4, ArrivalSerial, EnsureSerial DEF Next

\* A new, a registered and a migrated account have nothing yet, or the system project.
LEMMA SerialInit == Init => SerialInv
<1>1. SUFFICES ASSUME Init PROVE SerialInv
  OBVIOUS
<1>2. Idle.pc \in FreePcs
  BY DEF Idle, FreePcs
<1>3. PICK q : q = Idle
  OBVIOUS
<1>4. \A r \in Reqs : req[r] = q
  BY <1>1, <1>3 DEF Init
<1>5. \A r \in Reqs : Current(req[r], projects, hasTasks)
  BY <1>2, <1>3, <1>4, FreeCurrent
<1>6. PICK k \in 0..(MaxProjects - 1) : LegalTable(projects, k)
  BY <1>1 DEF Init
<1>7. CASE k = 0
  <2>1. \A p \in Ids : projects[p] = Absent
    BY <1>6, <1>7 DEF LegalTable, Ids
  <2>2. QED
    BY <1>5, <2>1 DEF SerialInv, Openable
<1>8. CASE k > 0
  <2>1. 1 \in Ids /\ projects[1].code = "CHUNG"
    BY <1>6, <1>8, ProjectsAssumption DEF LegalTable, Ids
  <2>2. QED
    BY <1>5, <2>1 DEF SerialInv, Openable
<1>9. QED
  BY <1>6, <1>7, <1>8

\* So it is throughout a run, and every step keeps what Kept says.
LEMMA SerialAlways ==
    ASSUME OneAtATime
    PROVE  /\ Spec => []SerialInv
           /\ Spec => [][Kept(projects, projects', hasTasks) /\ TypeInv /\ TypeInv']_vars
<1>1. Init => TypeInv /\ SerialInv
  BY TypeInit, SerialInit
<1>2. TypeInv /\ SerialInv /\ [Next]_vars => TypeInv' /\ SerialInv'
  BY TypeStep, SerialStep
<1>3. TypeInv /\ SerialInv /\ TypeInv' /\ [Next]_vars =>
         [Kept(projects, projects', hasTasks) /\ TypeInv /\ TypeInv']_vars
  BY SerialStep
<1>4. QED
  BY <1>1, <1>2, <1>3, PTL DEF Spec

\* The parts of Kept in the words of the properties.
LEMMA KeptMeans ==
    ASSUME TypeInv, TypeInv', Kept(projects, projects', hasTasks)
    PROVE  /\ Active # {} => Active' # {}
           /\ Defaults \subseteq Active => (Defaults \subseteq Active)'
           /\ \A p \in Ids : p \in Live /\ p \in hasTasks => projects'[p] # Absent
<1>1. /\ projects \in Table /\ projects' \in Table
  BY DEF TypeInv, TypeOK, Table
<1>2. /\ \A p : p \in Active <=> p \in Ids /\ Usable(projects, p)
      /\ \A p : p \in Defaults <=> p \in Ids /\ projects[p].isDefault
      /\ \A p : p \in Live <=> p \in Ids /\ projects[p] # Absent
  BY <1>1, RowsOf
<1>3. \A p \in Ids : projects'[p].isDefault => projects'[p] # Absent
  BY <1>1, AbsentCode
<1>4. /\ \A p : p \in Active' <=> p \in Ids /\ Usable(projects', p)
      /\ \A p : p \in Defaults' <=> p \in Ids /\ projects'[p].isDefault
  BY <1>3 DEF Active, Defaults, Live, Usable
<1>5. QED
  BY <1>2, <1>4 DEF Kept

\* What ensureDefaultProject returns is the default project and takes tasks, for
\* one request at a time, whatever legal table it starts from.
THEOREM OpenedIsUsable ==
    ASSUME OneAtATime
    PROVE  Spec => []OpenedIsActiveDefault
<1>1. TypeInv /\ SerialInv => OpenedIsActiveDefault
  <2>1. SUFFICES ASSUME TypeInv, SerialInv, NEW r \in Reqs, At(r, "opened")
                 PROVE  req[r].id \in Defaults \cap Active
    BY DEF OpenedIsActiveDefault
  <2>2. req[r].id \in Ids /\ Usable(projects, req[r].id) /\ projects[req[r].id].isDefault
    BY <2>1 DEF SerialInv, Current, At
  <2>3. projects \in Table
    BY <2>1 DEF TypeInv, TypeOK, Table
  <2>4. QED
    BY <2>2, <2>3, RowsOf
<1>2. Init => TypeInv /\ SerialInv
  BY TypeInit, SerialInit
<1>3. TypeInv /\ SerialInv /\ [Next]_vars => TypeInv' /\ SerialInv'
  BY TypeStep, SerialStep
<1>4. QED
  BY <1>1, <1>2, <1>3, PTL DEF Spec

\* No step of one request at a time moves the default flag to an archived or a
\* deleted project, so an account with a usable default keeps one even when the
\* request stops between two of its queries.
THEOREM DefaultStays ==
    ASSUME OneAtATime
    PROVE  Spec => DefaultStaysActive
<1>1. Kept(projects, projects', hasTasks) /\ TypeInv /\ TypeInv' =>
         (Defaults \subseteq Active => (Defaults \subseteq Active)')
  BY KeptMeans
<1>2. QED
  BY <1>1, SerialAlways, PTL DEF DefaultStaysActive

\* One request at a time never archives or removes the last active project, from
\* any table the indexes accept; with more, a registered account is safe (NeverLocked).
THEOREM LastActiveKept ==
    ASSUME OneAtATime
    PROVE  Spec => NeverWithoutActive
<1>1. Kept(projects, projects', hasTasks) /\ TypeInv /\ TypeInv' =>
         (Active # {} => Active' # {})
  BY KeptMeans
<1>2. QED
  BY <1>1, SerialAlways, PTL DEF NeverWithoutActive

\* One request at a time deletes a project only when it has no task.  With two,
\* the run projects_delete_race shows the task that arrives after the count.
THEOREM TasksAreKept ==
    ASSUME OneAtATime
    PROVE  Spec => OnlyEmptyProjectsDeleted
<1>1. Kept(projects, projects', hasTasks) /\ TypeInv /\ TypeInv' =>
         \A p \in Ids : p \in Live /\ p \in hasTasks => projects'[p] # Absent
  BY KeptMeans
<1>2. QED
  BY <1>1, SerialAlways, PTL DEF OnlyEmptyProjectsDeleted

-----------------------------------------------------------------------------
(* The first requests of an account without projects, any number of them.  *)

FirstPcs == {"idle", "findDefault", "findOldest", "findChung", "insertChung", "fallbackDefault",
             "fallbackCode"}

\* A request has yet to find the project, or goes on with project 1.
First(q, n) ==
    /\ q.op \in EnsureOps \cup {"none"}
    /\ \/ q.pc \in FirstPcs
       \/ n = 2 /\ q.pc = "giveFlag" /\ q.to = 1
       \/ n = 2 /\ q.pc \in {"revive", "opened", "insertTask"} /\ q.id = 1

FirstInv ==
    /\ nextId \in {1, 2}
    /\ projects = [p \in Ids |-> IF p < nextId THEN Chung ELSE Absent]
    /\ \A r \in Reqs : First(req[r], nextId)

\* There is no project yet, or one, open, with the flag.
LEMMA FirstRows ==
    ASSUME FirstInv
    PROVE  /\ 1 \in Ids
           /\ nextId = 1 => Live = {} /\ Active = {} /\ Defaults = {} /\ System = {}
           /\ nextId = 2 => /\ Live = {1} /\ Active = {1} /\ Defaults = {1} /\ System = {1}
                            /\ projects[1] = Chung
<1>1. 1 \in Ids /\ Ids \subseteq Nat \ {0}
  BY ProjectsAssumption DEF Ids
<1>2. /\ Chung # Absent /\ ~Chung.archived /\ Chung.isDefault /\ Chung.code = "CHUNG"
  BY DEF Chung, Absent
<1>3. \A p \in Ids : projects[p] = IF p < nextId THEN Chung ELSE Absent
  BY DEF FirstInv
<1>4. CASE nextId = 1
  <2>1. \A p \in Ids : projects[p] = Absent
    BY <1>1, <1>3, <1>4
  <2>2. Live = {}
    BY <2>1 DEF Live
  <2>3. Active = {} /\ Defaults = {} /\ System = {}
    BY <2>2 DEF Active, Defaults, System
  <2>4. QED
    BY <1>1, <1>4, <2>2, <2>3
<1>5. CASE nextId = 2
  <2>1. \A p \in Ids : projects[p] = IF p = 1 THEN Chung ELSE Absent
    BY <1>1, <1>3, <1>5
  <2>2. Live = {1}
    <3>1. \A p \in Ids : projects[p] # Absent <=> p = 1
      BY <1>2, <2>1
    <3>2. QED
      BY <1>1, <3>1 DEF Live
  <2>3. Active = {1} /\ Defaults = {1} /\ System = {1}
    BY <1>1, <1>2, <2>1, <2>2 DEF Active, Defaults, System
  <2>4. QED
    BY <1>1, <1>5, <2>1, <2>2, <2>3
<1>6. QED
  BY <1>4, <1>5 DEF FirstInv

\* A row that has a value is not changed by writing it again.
LEMMA SameRow ==
    /\ [Chung EXCEPT !.archived = FALSE] = Chung
    /\ [Chung EXCEPT !.isDefault = TRUE] = Chung
<1>1. Chung \in Row /\ Chung.archived = FALSE /\ Chung.isDefault = TRUE
  BY DEF Chung, Row
<1>2. \A row \in Row : /\ row.archived = FALSE => [row EXCEPT !.archived = FALSE] = row
                       /\ row.isDefault = TRUE => [row EXCEPT !.isDefault = TRUE] = row
  BY DEF Row
<1>3. QED
  BY <1>1, <1>2

\* findFirst over one row returns it.
LEMMA OldestOfOne == Oldest({1}) = 1
  BY DEF Oldest

\* A step of one request that leaves the table as it is.
LEMMA FirstSame ==
    ASSUME TypeInv, FirstInv, NEW r \in Reqs, projects' = projects, nextId' = nextId,
           \A q \in Reqs \ {r} : req'[q] = req[q], First(req'[r], nextId)
    PROVE  FirstInv'
  BY DEF FirstInv

\* How a step of a request leaves the others, and its own operation.
LEMMA FirstSlot ==
    ASSUME TypeInv, FirstInv, NEW r \in Reqs
    PROVE  /\ req[r].op \in EnsureOps \cup {"none"}
           /\ End(r) => (\A q \in Reqs \ {r} : req'[q] = req[q]) /\ First(req'[r], nextId)
           /\ \A pc \in FirstPcs : Goto(r, pc) =>
                 (\A q \in Reqs \ {r} : req'[q] = req[q]) /\ First(req'[r], nextId)
           /\ nextId = 2 /\ Opened(r, 1) =>
                 (\A q \in Reqs \ {r} : req'[q] = req[q]) /\ First(req'[r], nextId)
           /\ nextId = 2 /\ GoGiveFlag(r, 1) =>
                 (\A q \in Reqs \ {r} : req'[q] = req[q]) /\ First(req'[r], nextId)
<1>1. req \in [Reqs -> Request] /\ req[r] \in Request /\ req[r].op \in EnsureOps \cup {"none"}
  BY DEF TypeInv, TypeOK, FirstInv, First
<1>2. ASSUME End(r)
      PROVE  (\A q \in Reqs \ {r} : req'[q] = req[q]) /\ First(req'[r], nextId)
  BY <1>1, <1>2 DEF End, Idle, First, FirstPcs
<1>3. ASSUME NEW pc \in FirstPcs, Goto(r, pc)
      PROVE  (\A q \in Reqs \ {r} : req'[q] = req[q]) /\ First(req'[r], nextId)
  BY <1>1, <1>3 DEF Goto, Request, First
<1>4. ASSUME nextId = 2, Opened(r, 1)
      PROVE  (\A q \in Reqs \ {r} : req'[q] = req[q]) /\ First(req'[r], nextId)
  BY <1>1, <1>4 DEF Opened, Request, First
<1>5. ASSUME nextId = 2, GoGiveFlag(r, 1)
      PROVE  (\A q \in Reqs \ {r} : req'[q] = req[q]) /\ First(req'[r], nextId)
  BY <1>1, <1>5 DEF GoGiveFlag, Request, First
<1>6. QED
  BY <1>1, <1>2, <1>3, <1>4, <1>5

\* The searches and the fallbacks: they find project 1 or nothing.
LEMMA FirstSearches ==
    ASSUME TypeInv, FirstInv, NEW r \in Reqs,
           \/ FindDefault(r) \/ FindOldest(r) \/ FindChung(r) \/ InsertChungFails(r)
           \/ FallbackDefault(r) \/ FallbackCode(r) \/ UseOpened(r)
    PROVE  FirstInv'
<1>1. projects' = projects /\ nextId' = nextId
  BY DEF FindDefault, FindOldest, FindChung, InsertChungFails, FallbackDefault, FallbackCode,
     UseOpened, ReadOnly
<1>2. nextId = 1 \/ nextId = 2
  BY DEF FirstInv
<1>3. {"findOldest", "findChung", "insertChung", "fallbackDefault", "fallbackCode"} \subseteq FirstPcs
  BY DEF FirstPcs
<1>4. SUFFICES (\A q \in Reqs \ {r} : req'[q] = req[q]) /\ First(req'[r], nextId)
  BY <1>1, FirstSame
<1>5. CASE FindDefault(r)
  <2>1. nextId = 1 => UsableDefault = {}
    BY FirstRows DEF UsableDefault
  <2>2. nextId = 2 => UsableDefault = {1}
    BY FirstRows DEF UsableDefault
  <2>3. Goto(r, "findOldest") \/ (nextId = 2 /\ Opened(r, 1))
    BY <1>2, <1>5, <2>1, <2>2, OldestOfOne DEF FindDefault
  <2>4. QED
    BY <1>3, <2>3, FirstSlot
<1>6. CASE FindOldest(r)
  <2>1. Goto(r, "findChung") \/ (nextId = 2 /\ GoGiveFlag(r, 1))
    BY <1>2, <1>6, FirstRows, OldestOfOne DEF FindOldest
  <2>2. QED
    BY <1>3, <2>1, FirstSlot
<1>7. CASE FindChung(r)
  <2>1. \/ Goto(r, "insertChung")
        \/ nextId = 2 /\ req' = [req EXCEPT ![r].pc = "revive", ![r].id = 1]
    BY <1>2, <1>7, FirstRows, OldestOfOne DEF FindChung
  <2>2. CASE Goto(r, "insertChung")
    BY <1>3, <2>2, FirstSlot
  <2>3. CASE nextId = 2 /\ req' = [req EXCEPT ![r].pc = "revive", ![r].id = 1]
    BY <2>3, FirstSlot DEF First, Request, TypeInv, TypeOK
  <2>4. QED
    BY <2>1, <2>2, <2>3
<1>8. CASE InsertChungFails(r)
  BY <1>3, <1>8, FirstSlot DEF InsertChungFails
<1>9. CASE FallbackDefault(r)
  <2>1. Goto(r, "fallbackCode") \/ (nextId = 2 /\ Opened(r, 1))
    BY <1>2, <1>9, FirstRows, OldestOfOne DEF FallbackDefault
  <2>2. QED
    BY <1>3, <2>1, FirstSlot
<1>10. CASE FallbackCode(r)
  <2>1. End(r) \/ (nextId = 2 /\ Opened(r, 1))
    BY <1>2, <1>10, FirstRows, OldestOfOne DEF FallbackCode
  <2>2. QED
    BY <2>1, FirstSlot
<1>11. CASE UseOpened(r)
  <2>1. req[r].pc = "opened" /\ (End(r) \/ Goto(r, "insertTask"))
    BY <1>11 DEF UseOpened, At
  <2>2. CASE End(r)
    BY <2>2, FirstSlot
  <2>3. CASE Goto(r, "insertTask")
    <3>1. nextId = 2 /\ req[r].id = 1
      BY <2>1 DEF FirstInv, First, FirstPcs
    <3>2. \A q \in Reqs \ {r} : req'[q] = req[q]
      BY <2>3 DEF Goto, TypeInv, TypeOK
    <3>3. req'[r].pc = "insertTask" /\ req'[r].id = 1 /\ req'[r].op = req[r].op
      BY <2>3, <3>1, SlotAfter
    <3>4. QED
      BY <3>1, <3>2, <3>3, FirstSlot DEF First
  <2>4. QED
    BY <2>1, <2>2, <2>3
<1>12. QED
  BY <1>5, <1>6, <1>7, <1>8, <1>9, <1>10, <1>11

\* The writes: the unique index lets one of the inserts through, and what follows
\* leaves the row as it was made.
LEMMA FirstWrites ==
    ASSUME TypeInv, FirstInv, NEW r \in Reqs,
           Revive(r) \/ InsertChung(r) \/ GiveFlag(r) \/ InsertTask(r)
    PROVE  FirstInv'
<1>1. CASE Revive(r)
  <2>1. nextId = 2 /\ req[r].id = 1
    BY <1>1 DEF Revive, At, FirstInv, First, FirstPcs
  <2>2. 1 \in Live /\ projects[1] = Chung /\ 1 \in Ids
    BY <2>1, FirstRows
  <2>3. projects' = [projects EXCEPT ![1].archived = FALSE] /\ GoGiveFlag(r, 1) /\ nextId' = nextId
    BY <1>1, <2>1, <2>2 DEF Revive
  <2>4. [Chung EXCEPT !.archived = FALSE] = Chung
    BY SameRow
  <2>5. projects' = [projects EXCEPT ![1] = Chung]
    BY <2>2, <2>3, <2>4
  <2>6. projects' = projects
    BY <2>2, <2>5 DEF FirstInv
  <2>7. QED
    BY <2>1, <2>3, <2>6, FirstSlot, FirstSame
<1>2. CASE InsertChung(r)
  <2>1. Chung.code = "CHUNG"
    BY DEF Chung
  <2>2. nextId = 1
    <3>1. ASSUME nextId = 2 PROVE FALSE
      <4>1. Live = {1} /\ projects[1] = Chung
        BY <3>1, FirstRows
      <4>2. 1 \in Live \ {nextId}
        BY <3>1, <4>1
      <4>3. QED
        BY <1>2, <2>1, <4>1, <4>2 DEF InsertChung, IndexesAccept
    <3>2. QED
      BY <3>1 DEF FirstInv
  <2>3. 1 \in Ids /\ Ids \subseteq Nat \ {0}
    BY ProjectsAssumption DEF Ids
  <2>4. projects' = [projects EXCEPT ![1] = Chung] /\ nextId' = 2 /\ Opened(r, 1)
    BY <1>2, <2>2 DEF InsertChung
  <2>5. \A p \in Ids : (p < 1) = FALSE /\ (p < 2) = (p = 1)
    BY <2>3
  <2>6. projects' = [p \in Ids |-> IF p < 2 THEN Chung ELSE Absent]
    BY <2>2, <2>3, <2>4, <2>5 DEF FirstInv
  <2>7. /\ \A q \in Reqs \ {r} : req'[q] = req[q]
        /\ req'[r].pc = "opened" /\ req'[r].id = 1 /\ req'[r].op = req[r].op
    BY <2>4 DEF Opened, TypeInv, TypeOK, Request
  <2>8. \A q \in Reqs : First(req'[q], 2)
    <3>1. \A q \in Reqs : First(req[q], 2)
      BY <2>2 DEF FirstInv, First
    <3>2. First(req'[r], 2)
      BY <2>7, FirstSlot DEF First
    <3>3. QED
      BY <2>7, <3>1, <3>2
  <2>9. QED
    BY <2>4, <2>6, <2>8 DEF FirstInv
<1>3. CASE GiveFlag(r)
  <2>1. nextId = 2 /\ req[r].to = 1
    BY <1>3 DEF GiveFlag, At, FirstInv, First, FirstPcs
  <2>2. Live = {1} /\ 1 \in Ids
    BY <2>1, FirstRows
  <2>3. projects' = WithDefault(1) /\ (End(r) \/ Opened(r, 1)) /\ nextId' = nextId
    BY <1>3, <2>1, <2>2 DEF GiveFlag
  <2>4. WithDefault(1) = projects
    <3>1. ASSUME NEW q \in Ids
          PROVE  WithDefault(1)[q] = projects[q]
      <4>1. CASE q = 1
        <5>1. (q = 1) = TRUE
          BY <4>1
        <5>2. WithDefault(1)[q] = [projects[q] EXCEPT !.isDefault = TRUE]
          BY <2>2, <4>1, <5>1 DEF WithDefault
        <5>3. projects[q] = Chung
          BY <2>1, <4>1, FirstRows
        <5>4. [Chung EXCEPT !.isDefault = TRUE] = Chung
          BY SameRow
        <5>5. QED
          BY <5>2, <5>3, <5>4
      <4>2. CASE q # 1
        BY <2>2, <4>2 DEF WithDefault
      <4>3. QED
        BY <4>1, <4>2
    <3>2. WithDefault(1) = [q \in Ids |-> WithDefault(1)[q]]
      BY DEF WithDefault
    <3>3. projects = [q \in Ids |-> projects[q]]
      BY DEF FirstInv
    <3>4. QED
      BY <3>1, <3>2, <3>3
  <2>5. QED
    BY <2>1, <2>3, <2>4, FirstSlot, FirstSame
<1>4. CASE InsertTask(r)
  BY <1>4, FirstSlot, FirstSame DEF InsertTask
<1>5. QED
  BY <1>1, <1>2, <1>3, <1>4

\* No step of any request makes a second project.
LEMMA FirstStep ==
    ASSUME Ops \subseteq EnsureOps, TypeInv, FirstInv, [Next]_vars
    PROVE  FirstInv'
<1>1. CASE UNCHANGED vars
  BY <1>1 DEF vars, FirstInv
<1>2. ASSUME NEW r \in Reqs, ArriveEnsure(r)
      PROVE  FirstInv'
  <2>1. PICK op \in EnsureOps : Arrive(r, op, NoId, NoDto, "findDefault")
    BY <1>2 DEF ArriveEnsure
  <2>2. /\ projects' = projects /\ nextId' = nextId /\ \A q \in Reqs \ {r} : req'[q] = req[q]
        /\ req'[r].op = op /\ req'[r].pc = "findDefault"
    BY <2>1 DEF Arrive, ReadOnly, TypeInv, TypeOK
  <2>3. First(req'[r], nextId)
    BY <2>2 DEF First, FirstPcs
  <2>4. QED
    BY <2>2, <2>3, FirstSame
<1>3. ASSUME NEW r \in Reqs, ArriveById(r) \/ ArriveCreate(r)
      PROVE  FALSE
  <2>1. \E op \in IdOps \cup {"create"} : op \in Ops
    BY <1>3 DEF ArriveById, ArriveCreate, Arrive, IdOps
  <2>2. QED
    BY <2>1 DEF EnsureOps, IdOps
<1>4. ASSUME NEW r \in Reqs, RequestFails(r)
      PROVE  FirstInv'
  BY <1>4, FirstSlot, FirstSame DEF RequestFails, ReadOnly
<1>5. ASSUME NEW r \in Reqs, Manage(r)
      PROVE  FirstInv'
  <2>1. req[r].pc \in FirstPcs \cup {"giveFlag", "revive", "opened", "insertTask"}
    BY DEF FirstInv, First
  <2>2. GiveFlag(r) \/ InsertTask(r)
    BY <1>5, <2>1
       DEF Manage, FirstPcs, ReadProject, CheckFree, CountForArchive, PickNext, MoveFlag, Update,
           RestoreFlag, CountTasks, CountForRemove, Delete, PickAfterDelete, CountForCreate,
           CheckCreate, Insert, At
  <2>3. QED
    BY <2>2, FirstWrites
<1>6. ASSUME NEW r \in Reqs, Ensure(r)
      PROVE  FirstInv'
  BY <1>6, FirstSearches, FirstWrites DEF Ensure
<1>7. QED
  BY <1>1, <1>2, <1>3, <1>4, <1>5, <1>6 DEF Next

\* A new account has no project.
LEMMA FirstInit ==
    ASSUME Start = "fresh"
    PROVE  Init => FirstInv
<1>1. SUFFICES ASSUME Init PROVE FirstInv
  OBVIOUS
<1>2. nextId = 1 /\ projects \in [Ids -> Row \cup {Absent}] /\ LegalTable(projects, 0)
  BY <1>1 DEF Init
<1>3. Ids \subseteq Nat \ {0}
  BY ProjectsAssumption DEF Ids
<1>4. \A p \in Ids : projects[p] = Absent
  BY <1>2, <1>3 DEF LegalTable
<1>5. projects = [p \in Ids |-> IF p < nextId THEN Chung ELSE Absent]
  BY <1>2, <1>3, <1>4
<1>6. \A r \in Reqs : First(req[r], nextId)
  BY <1>1 DEF Init, Idle, First, FirstPcs
<1>7. QED
  BY <1>2, <1>5, <1>6 DEF FirstInv

\* The first requests of an account without projects all get one and the same
\* project, however many arrive together and wherever each of them stands when
\* the unique index refuses its insert.
THEOREM FirstTouch ==
    ASSUME Start = "fresh", Ops \subseteq EnsureOps
    PROVE  Spec => []FirstTouchAgrees
<1>1. Init => TypeInv /\ FirstInv
  BY TypeInit, FirstInit
<1>2. TypeInv /\ FirstInv /\ [Next]_vars => TypeInv' /\ FirstInv'
  BY TypeStep, FirstStep
<1>3. FirstInv => FirstTouchAgrees
  <2>1. SUFFICES ASSUME FirstInv PROVE FirstTouchAgrees
    OBVIOUS
  <2>2. Live = {} \/ (nextId = 2 /\ Live = {1})
    BY <2>1, FirstRows DEF FirstInv
  <2>3. Cardinality(Live) <= 1
    BY <2>2, FS_EmptySet, FS_Singleton
  <2>4. \A r \in Reqs : At(r, "opened") => nextId = 2 /\ req[r].id = 1
    BY <2>1 DEF FirstInv, First, FirstPcs, At
  <2>5. QED
    BY <2>1, <2>2, <2>3, <2>4, FirstRows DEF FirstTouchAgrees
<1>4. QED
  BY <1>1, <1>2, <1>3, PTL DEF Spec

=============================================================================
