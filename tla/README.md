# Formal models of task-mail-be

task-mail-be is a NestJS and PostgreSQL back end for personal task management: each user has
projects, a board per project, tasks on the board, tasks ingested from Gmail, and reminders sent
over a Zalo bot.  This directory holds TLA+ models of its state-changing core, TLC configurations
that check them on small instances, and proofs for the TLA+ proof system (TLAPS).

## 1. The system

One Node process serves HTTP requests and runs cron jobs.  A handler is a sequence of awaited
queries; **any other request, or cron job, may run at each `await`**.  Only what stands in a
`$transaction` is atomic, at PostgreSQL's READ COMMITTED.  Whatever a request read before an await may
be stale when it writes, and a request may end half way: an error, a lost connection, a restart.

| Component: modules | State | Operations | Hard part |
|---|---|---|---|
| projects (`modules/projects`): `Projects` | `projects` table, partial unique index on the default flag | list, create, patch, set default, archive, remove, `ensureDefaultProject` | self-healing default; guards that count; first requests in parallel |
| board access (`board-access.service`): `Cards` | `boards`, seeded lists | `requireCard`, `requireList`, `ensureBoard`, adoption of tasks without a board | two requests create one board; adoption by id |
| cards (`board-card.service`): `Cards`, `Columns`, `Repeats`, `Agenda` | `tasks` | move, create, complete and spawn the next occurrence, reopen, snooze, restore, labels | stale card while moving; double completion |
| lists and labels (`board-list`, `board`): `Cards`, `ListOrder` | `task_lists`, `board_labels`, `task_labels` | create, rename, archive and release, delete | archiving against moving |
| positions (`position.service`): `Columns`, `ListOrder` | float position of cards and lists | midpoint, renumbering, keyset paging | equal positions, collapsed gaps, renumbering query by query |
| tasks (`tasks.service`): `Cards`, `Calendar`, `Agenda` | `tasks` (kinds TASK and EVENT) | create, patch (status, labels, project, times), delete, system tasks, the calendar list | moving to another project in several queries; a range merged from a row read before |
| agenda and metrics (`board-agenda.service`): `Agenda`, `NotesFeed` | none, derived | overdue, due today, done today; the feed of notes | five places derive one thing; local days; pages under change |
| card detail: `CardDetail` | checklists, notes, attachments, cover | CRUD, single cover | locks of the cover transaction; log lines decided on stale rows |
| recurrence (`recurrence.util`): `Repeats`, `Zones` | none | next occurrence of a rule | month clamp, week wrap, end of chain |
| auth (`modules/auth`): `Sessions` | refresh tokens | login, register, refresh with rotation, logout | reuse detection under races and crashes |
| mail accounts and ingestion: `MailIngestion` | tasks by `externalRef`, mail accounts | poll every 5 minutes, create, prompt to reconnect | overlapping polls, crash between two steps |
| Zalo bot and link: `ZaloLink` | link codes, linked accounts, seen messages | long poll, confirm a code | redelivery, crash between upsert and delete |
| Zalo reminders and digest: `Reminders`, `Digest` | reminded offset, last digest day | cron every 5 minutes | sending and marking are two steps; snooze in between |
| cache: `ReadCache`, `StaleReads` | key to value with TTL | read-through, delete twice | stale value stored after the second delete |
| preferences, users, task types | rows | CRUD | modelled where another part reads them |
| plumbing, config, broadcast, scripts, CI | - | - | not modelled |

How they interact: `TasksService.create`, mail ingestion and every board screen ask
`ProjectAccessService` for a project, then `BoardAccessService` for its board.  Card routes reach the
board through the card (`requireCard`).  Task creation emits `task.created`, which the Zalo listener
turns into a message.  Cron jobs read tasks and write their reminder columns.  All of them share the
database and nothing else; the cache sits in front of three read routes.

What makes each part correct: a user always has one usable default project and a fixed system project;
deleting removes nothing that could still be restored; list, board, project and labels of a task agree, so that
no query loses it; events stay off the boards; a repeat chain has the right number of occurrences; a reminder
of each offset goes out once; a mail makes one task; a refresh token is used once; the cache agrees
with the database again after a bounded time.  `PROJECT.json` lists the hazards line by line.

## 2. Modules

| Module | Content |
|---|---|
| `Projects` | the projects of one user: `ProjectRepository`, `ProjectsService`, `ProjectAccessService` |
| `Cards` | tasks, boards, lists and labels of one user: `BoardAccessService`, `BoardCardService`, `BoardListService`, `BoardService`, `TasksService` |
| `Columns` | where cards stand: `PositionService`, the position half of the card routes, paging of a column |
| `ListOrder` | where the columns stand: `resolveListPosition` and its renumbering (extends `Columns` for the arithmetic) |
| `Calendar` | time columns of tasks and events, PATCH of them, the range filter and the pages of `GET /tasks` |
| `Agenda` | what is late, due and done, as five services derive it |
| `NotesFeed` | the notes of a board in pages, while notes and cards come and go |
| `Repeats` | the chain of a repeating card: `nextOccurrence`, `repeatColumns` |
| `Zones` | instants, wall clocks and days in a time zone; used by `Agenda` and `Repeats` |
| `CardDetail` | checklists, notes, attachments and cover of a card, and the activity log |
| `Sessions` | accounts and refresh tokens: the five handlers of `modules/auth` |
| `ZaloLink` | link codes and the bot's poll loop |
| `Reminders` | the reminder cron, against snooze, PATCH and preferences |
| `Digest` | the daily digest cron |
| `MailIngestion` | the mail poll cron, mail accounts and their grants at Google |
| `StaleReads` | abstract: what a read-through cache promises |
| `ReadCache` | `CacheService` over its store, which implements `StaleReads` |
| `Projects_proofs`, `Cards_proofs`, `Sessions_proofs`, `CardDetail_proofs`, `ZaloLink_proofs`, `ReadCache_proofs` | theorems about the module of that name, checked by TLAPS |
| `Cron_proofs` | theorems about `Reminders`, `Digest` and `MailIngestion` |
| `Board_proofs` | theorems about `Columns`, `ListOrder`, `NotesFeed`, `Calendar`, `Agenda`, `Repeats` and `Zones` |
| `MCProjects`, `MCCards`, `MCCron`, `MCParts` | instances for TLC |

Everywhere a request, or a run of a cron job, is a record with a program counter `pc` that names the
query it makes next, and with what it has read so far.  Each query is one action, so TLC interleaves the
requests at every `await`.  What a request has read is used, stale or not, as the code uses it.  A request
ends at any point where the code can throw or the process die, when something is left half done by that.

A definition such as `Updated_WritesAll`, with an underscore, is a faulty variant of the definition
after it, kept to see that a property notices the fault.  A variable marked *history* is not in the code:
it records what a property needs to know of the past, or which request met a race that the code is
known not to survive, so that the property can excuse that race and no other.

**Projects.**  `projects` maps ids to rows; ids are handed out in creation order, which is the order of
`findOldestActive`.  Of code and name only "that of the system project" (`CHUNG`) or "another" is kept, for
nothing else decides.  `IndexesAccept` is the three unique indexes.  `ensureDefaultProject` is
`FindDefault` ... `FallbackCode`; PATCH, archive, remove and create are `ReadProject` ... `Insert`.
`setDefault` is a transaction and one action, `WithDefault`; two that overlap at READ COMMITTED are therefore not interleaved
query by query, and it is the partial index that would refuse the second flag.  `hasTasks` is the set of projects with a
task row, soft-deleted ones included, for DELETE counts those too.

**Cards.**  `tasks` is the sequence of rows.  A board is named by its project, since (owner, project) is
unique.  `createWithDefaults` is two actions, `Ensure` (reads the tasks to adopt) and `Seed` (commits the
updates by id, or loses the race): under READ COMMITTED another request can move a task between the
two.  `Write` is the single UPDATE at the end of most handlers and `Written` what it writes.  Of a
repetition rule only the number of occurrences left is kept; PATCH may send one (`PatchRepeats`), to a row from before the boards
(`OldRows`) too.  `unchecked` marks a row whose labels come from a PATCH that checked none.  Statuses are TODO and DONE; the
others differ in no modelled decision of this module.

**Columns, ListOrder.**  A position is an integer, the gap of 1024 is 16 and `MIN_POSITION_GAP` is 2, so that a
midpoint can be halved three times before the column is renumbered; a few tied or close positions that
earlier requests may have left are initial states.  `overtaken` and `cutIn` mark requests that another one wrote
beside.  The two differ as the code does: the renumbering of cards is one transaction, that of lists one query
per list, so `ListOrder` has every order in between, and a request that dies there leaves one for good.

**Calendar.**  PATCH reads a row (`update`) and writes what it merged from it (`UpdateWrites`).  The card
routes take any task by its id, an event too, and write the deadline alone (`snoozeItem`).  A client
(`listing`) asks for one page after the other, by offset, while all this goes on.  The query orders by `createdAt` alone, so rows
of one instant come in any order, chosen anew by every page (`FirstRows`).

**Agenda, Repeats, Zones.**  An instant is a number of hours; a day has `DayHours` of them and a zone one change of
clocks.  These are the pure algorithms of the code, and their properties compare them with definitions that
say the same without the code's arithmetic.  The steps walk over the clock, the zones and the rules.

**NotesFeed.**  A client asks for a page (`notesFeed`) and goes on before the creation time of its last note; writes
(`FeedChanges`) fall between two pages, and what was there throughout (`stays`) must have been shown.

**CardDetail.**  `setCover` takes the row locks that its two UPDATEs take, and is refused when it waits in a circle.
The two queries of each other route are two actions, and the activity line after them is a third.

**Sessions.**  A client may present any token it was ever handed, again or twice at once.  Rotation reads the row
(`ReadForRefresh`), issues the new token (`Issue`), then revokes the old one by id (`Revoke`), each in a query of
its own; what the row said is not looked at again.

**ZaloLink.**  Zalo may return any messages that were sent, in any order and again.  `seen` is bounded as
`MAX_SEEN_MESSAGE_IDS` is, oldest out first.  `confirmLink` is four queries.

**Reminders, Digest, MailIngestion.**  A run reads its candidates, then goes through them, with an action for each
query, send and mark.  The scheduler does not wait for the last run, so two may overlap.
In `MailIngestion` the tokens stored with a mailbox belong to a grant at Google, which may be revoked or replaced;
a task deleted from a mail may come back from the bin (`RestoreTask`), beside one made from the same mail meanwhile.
Left out is `updateTokens`, which stores the access token that the Google client refreshed and when it expires: whether a call
works depends on the grant behind the refresh token, and Google sends a new one of those only with a new grant.

**ReadCache.**  `CacheTick` lets time pass only so far that a set that follows a load ends within `MaxLoad`, a first
delete within `MaxDelete`, and a timer fires at its time: without such bounds no cache can promise anything.  `Promise ==
INSTANCE StaleReads WITH ...` gives the bounds of the promise; the abstract variables are those of the same names.
`ReadsAreFresh` says that every step of the cache is a step, or a stutter, of the abstract specification, whose `Answer`
may give only a value that is current or was until a bounded time ago.

## 3. What TLC checks

All runs finish in minutes.

| Run | Instance | Shows |
|---|---|---|
| `projects_registered` | 2 parallel requests, 3 projects, 1.0 M states | the default flag is on at most one project (`AtMostOneDefault`); the system project stays active under its code (`SystemProjectKept`); the last active project is never lost (`NeverWithoutActive`) |
| `projects_serial` | 1 request at a time, any legal table of at most 2 rows, all request bodies | the guards are right (`NeverWithoutActive`, `OnlyEmptyProjectsDeleted`); a death half way never leaves the flag on a hidden project (`DefaultStaysActive`); `ensureDefaultProject` returns a usable default (`OpenedIsActiveDefault`) |
| `projects_first_touch` | 3 parallel first requests, no project | all are given the one project created (`FirstTouchAgrees`) |
| `cards_serial` | 1 request at a time, 2 boards, 2 tasks (the first may be older than the boards), 2 lists, 1 label, chains of 1 repetition that a card or a PATCH begins, 2.1 M states | a task's list is on its board (`ListOnBoard`), its board is its project's (`BoardedOnOwnProject`), its labels are its board's (`LabelsOnBoard`); archiving a list empties it (`ArchivingReleases`) |
| `cards_races` | 2 parallel requests, 1 task, 2 boards, 3 lists, 3.0 M states | board and project of a task are never separated (`BoardFollowsProject`), in an account whose tasks all have a board |
| `cron_progress` | one run of each cron job at a time, 2 tasks, 1 subscriber, 2 mailboxes, 2 mails, 0.3 M states | under fairness, what is due is done: `DueIsHandled`, `WantedIsHandled`, `MailBecomesTask`; a broken mailbox is prompted for once (`OnePromptPerBreak`) |
| `parts` | all components besides projects and cards, two requests or runs in each, 2.6 M states | the table below |

`parts` and `cron_progress` check several modules in one run.  The modules keep separate variables; the initial
state chooses a `component` (or a `job`), and only that one moves.  So the states add up instead of multiplying,
and each component goes through just the behaviours it has alone.

| Component | In `parts` | Properties |
|---|---|---|
| reminders | 2 overlapping sweeps, 2 offsets, 1 edit, 1 fault | `EachOffsetOnce`: each offset of a deadline once, and never a larger after a smaller |
| digest | 2 overlapping runs, days of 3 steps | `OneDigestADay`, however the minute is moved |
| mail | 2 overlapping polls, 1 mailbox connected twice, 1 mail | `OneTaskPerMail` |
| sign-in | 2 requests, 1 address with a Google identity, 3 tokens | `RetiredTokenEndsSessions`: a token used again ends every session; `OneSessionPerSignIn`: retries and deaths do not multiply sessions |
| Zalo link | 2 users, 1 chat, 1 code that may be drawn again, 2 messages | `NoSwallowedConflict`, `CodeLinksOnce`, `MessageLinksOnce` |
| cache | 2 readers, 1 writer, 3 versions, 7 ticks | `ReadsAreFresh`: the refinement of `StaleReads` |
| card detail | 2 requests, 3 attachments | `OneCover` under the row locks; `OneLineEach` in the log |
| feed of notes | 2 cards, 3 notes, pages of 1, 4 writes, 3 instants | `FeedSkipsOnlyTies` |
| cards in columns | 2 requests, 3 cards, 2 columns | `DragsLandBeside`, `RenumberingKeepsOrder`, `PagesSkipOnlyTies` |
| lists of a board | 2 requests, 3 lists | `ListsLandBeside` |
| repetition | 10 rules, 4 zones, dates around the ends of January and February | `OccursOnRule`: every occurrence on the day of the rule, at the hour of the one before |
| agenda | 4 zones, 13 hours around a change of clocks | `DaysAreLocal`: the sections and numbers are those of the calendar day of the user; `ScreensAgree` |
| calendar | 2 items, 2 requests and a client that reads pages of 1 | `ListMissesNothing`, `EventsRemindAtStart` |

Five runs end in a violation: the code does not do what its documentation says.

| Run | Disagreement |
|---|---|
| `projects_cap` | unarchiving ignores the cap on active projects ("Trần 30 dự án hoạt động mỗi người") |
| `projects_delete_race` | DELETE counts, then deletes: a task created in between goes with the project, which should be completely empty |
| `cards_event` | a card route adopts an event into a board, though an EVENT "luôn có `boardId = null`" |
| `cards_list_race` | move and PATCH of the project in parallel leave a task in a list of a board it is not on, the state `moveToProject` is written to avoid |
| `columns_pages` | tasks of `POST /tasks` and of mail share one position, and paging by position loses those that tie with the end of a page |

### Races that a property excuses

The code is known not to survive these, and the properties name them, so that everything else stays checked.  For four of
them `API_REFERENCE.md` does promise what the code then fails to keep: line 676, every offset is sent exactly once; line 679, a
new deadline starts all offsets afresh; line 378, a mail makes one task only; line 644, a card has one cover.  The
properties are those promises without the races:

* a reminder goes out twice when sweeps overlap on a task or one dies between sending and marking, and
  one is lost when the deadline moves under a sweep, which then marks the new deadline with the old offset (`excused`);
  the same for the digest (`caught`);
* a mail makes two tasks when two polls look for it at once, and a mailbox is prompted for twice (`crossed`);
* a link code is confirmed again when the bot dies between linking and deleting it (`interrupted`), and a
  message whose id has left the bounded memory counts as new (`forgotten`);
* two requests that present one refresh token at the same time may both be answered with a session (`forked`);
* an attachment added while a cover is chosen may be a second cover, for the row locks do not cover new rows (`bent`);
* ticks of one item that two requests had read before either wrote give the wrong number of lines in the log, and so does a line
  whose insert fails (`bent`);
* a card or list placed while another request writes may land anywhere (`overtaken`, `cutIn`);
* the feed of notes leaves out notes created in the very millisecond of the last one of a page (`ends`);
* PATCH out of DONE keeps `completedAt`, and the board takes the card as completed for ever (`left`);
* snooze on an event moves its reminder and not the event, though the schema says that `deadline` is a copy of
  `startAt` (`snoozed`);
* pages by offset skip older items when newer ones go while a client reads (`gone`), and items made in one millisecond
  when a page ends between them, though nothing changed: the two queries may order them differently (`ends` of the listing);
* PATCH does not check the labels of a task or event without a board (`tasks.service.ts:278`); they stay when it is adopted into
  a board, and are copied to its next occurrence (`unchecked`).

Some hazards of `PROJECT.json` are left out by a hypothesis or an assumption and not by a property.  A load slower than the second
delete (`cache.service.ts:41`) is excluded by `ReadCacheAssumption`.  `docs/fe-bootstrap-endpoint.md:110` says that types, labels and projects
change at once and statistics of a project within 30 seconds; `ReadsAreFresh` has bounds that add the second delete and the load to these.  The count of
active projects by two requests at once is harmless in a registered account only because its system project always stays
active.  A card that changes project while a route adopts it is excluded from `cards_races`, whose tasks all have a board.  That a
chain ends (`remaining`, `until`) is modelled in `Repeats`, but `OccursOnRule` speaks of the dates of a chain only.

Two assumptions on zones leave out what the date utilities do not handle.  Where the clocks skip or repeat a midnight,
`dayRange`, which looks up the offset at a guess of midnight, may begin the day an hour off
(`MidnightsAssumption` of `Agenda`).  Where they go forward at midnight, as in Santiago, an occurrence asked for in the hour
that does not exist lands on the day before; when that is another week, a chain of every second week keeps the wrong one
from then on (`ForwardAssumption` of `Repeats`).  TLC shows the latter: with a zone of that kind among `ZoneChoices`, a
card due every second Sunday violates `OccursOnRule`.  The users' default zone, Asia/Ho_Chi_Minh, has one offset and meets both.

### Fairness

Requests are never fair: a user owes nothing, and a request may die at any await.  The three cron jobs are: for each
run, weak fairness of the disjunction of its own steps (`RemindersFairness`, `DigestFairness`, `MailFairness`).
It stands for two facts: the scheduler of the process starts each job every five minutes, and a run whose
next query can be made makes it, or throws.  Time, mail, failures and users are not under it.  Failures and edits are
bounded in number, which is what "in the end it works" means in these runs.  `MailBecomesTask` needs also that the mail is in the first
page listed and stays there: the code lists no second page.

### Bounds

* *Request slots.*  Two give every pairwise interleaving: the hazards are a read and a write of one
  request with writes of another in between, and the other slot is reused, so many requests can fit
  into the gap.  The race for the first project is checked with three, for two losers and a winner.
* *Projects.*  Three: the project acted upon, its successor as default, and one more.  The cap is 2 or 3.
* *Tasks.*  One where requests race for it, two where one spawns the other or is older than the boards.
* *Boards and lists.*  Two projects, for every property is about mixing up two boards; two lists on one
  of them, so that archiving a list and moving between lists happen.
* *Operations.*  `cards_serial` leaves out those that write only the status or the deleted flag, a status
  sent with PATCH included; `cards_races` those about labels and list updates, which touch neither board nor project.
  `ListsOrLabels` splits `cards_serial`: a behaviour has labels, or changes and chooses lists, for no property relates the two.
* *Cards in a column.*  Three: one dragged, the one that has the slot, and its neighbour.  `StartAt` has a pair
  as close as the smallest gap, so renumbering and ties happen within two requests.
* *Tokens.*  Three: a rotated one, its successor, and a reuse or another sign-in.  `SmallSessions` issues the third only
  without Google, `SmallColumns` lets a client page while one request at most is under way; both
  cut behaviours off and add none.
* *Calendar.*  Two items on pages of one, two instants for their times and their creation, two requests.  `SmallCalendar` has a client
  open the calendar before the first of these, follows it to its last page, and lets a PATCH run meanwhile only alone.
* *Cache.*  The bounds keep the order of the code's numbers: a load is shorter than the second delete, and that is shorter than the
  lifetime of an entry; seven ticks reach beyond an entry that outlives its row.
* *Cron jobs.*  Two runs in `parts`, for overlap; one in `cron_progress`, where a second adds nothing to progress and
  temporal checking is dear.  Two mailboxes there, so that a failing one must not hold up the other,
  and no deletes: a poll does not look at deleted tasks, so that a mail whose task was deleted is one without a task.
* *Faults.*  One of each kind: a second one meets a state that the first could have met.
* Slots are interchangeable, hence the symmetry; it is used in runs of invariants and of action
  properties only.  In `parts` the slots of all components are the same two model values, so one symmetry serves for all.

`LabelsOnBoard` leaves out the rows marked `unchecked`, and no others.  `ListOnBoard`, `LabelsOnBoard`, `ArchivingReleases`, `DefaultStaysActive`,
`OpenedIsActiveDefault` and `OnlyEmptyProjectsDeleted` hold one request at a time; two of these are shown
above to fail under races, and none of the others is claimed there: each rests on a check of a row read before.
`ScreensAgree` and `OccursOnRule` are about one request at a time too: they are about definitions, not races.

## 4. What is proved

Every invariant and every action property of the passing runs is a theorem, and the refinement of the cache is one
too: the theorems hold for every number of requests, rows, projects, boards, tokens, mails and so on, of which a run has two or three.
The constants are bound only by the assumptions that the modules state beside them; these say which types they have, that
bounds are numbers, and, for zones, the two assumptions of section 3.  A few theorems have a hypothesis of their own,
named below, where the code keeps the property only then.

Each proof has the same outline.  An inductive invariant adds to the property what the requests have read and are about to
write; a lemma `...Start` shows that it holds at first; lemmas for groups of actions, one step per action, show that it is
kept; the theorem combines them.  Candidates for invariants were tried with TLC on the instances of the runs first.

**`Projects_proofs`**

| Theorem | Hypothesis | Property |
|---|---|---|
| `TypeCorrect`, `OneDefault`, `SystemProject` | - | `TypeOK`, `AtMostOneDefault`, `SystemProjectKept` |
| `NeverLocked` | the account is registered | `NeverWithoutActive` |
| `FirstTouch` | a fresh account and only requests that open the default project | `FirstTouchAgrees` |
| `OpenedIsUsable`, `DefaultStays`, `LastActiveKept`, `TasksAreKept` | one request at a time | `OpenedIsActiveDefault`, `DefaultStaysActive`, `NeverWithoutActive`, `OnlyEmptyProjectsDeleted` |

`TypeOK` is not inductive: `Insert` writes a row made from the body of the request, and nothing in `TypeOK`
says that a body that reaches the insert has a code and a name.  `TypeInv` adds that (`BodyOK`).
`SystemProjectKept` needs what the requests are about to do: `SystemSafe` says that none about to remove a project holds
the id of the system project, and none about to update it would recode or archive it.  `NeverLocked` follows, for the system
project itself is always active; the guard `countActive <= 1` alone would not do, for two requests can count at the same
time.  With one request at a time it does (`LastActiveKept`): `Current` says that what the request has read is still so, and
`Openable` that an account with rows has one that can be opened, on which the fallbacks of `ensureDefaultProject` rest.
`FirstInv` says that a fresh account has no project or the one that was inserted, and that whoever lost the insert finds it.

**`Cards_proofs`**

| Theorem | Hypothesis | Property |
|---|---|---|
| `CardsTyped` | - | `TypeOK` |
| `TasksStayBoarded` | tasks only, none from before the boards | `BoardFollowsProject` |
| `BoardsHoldTheirProject`, `ListsAreOnTheBoard`, `ArchivedListsAreLeft` | one request at a time | `BoardedOnOwnProject`, `ListOnBoard`, `ArchivingReleases` |
| `LabelsFollowTheBoard` | one request at a time | `LabelsOnBoard` |

The hypotheses are those under which the code keeps the property.  With two requests `cards_list_race` separates a list from
its board; an event, or a task from before the boards, has no board at first, and a route that adopts it races with a change of
its project.
`CardsInv` says where each request can be and what it names, and that no snapshot of tasks to adopt is ever non-empty in an
account without such tasks.  `SerialInv` (`RowFits`, `Places`) and `LabelInv` (`RowLabelled`, `Labelled`)
relate the board, the list and the labels a request holds to the row that it will write, through moves that take several queries
and requests that die between them.

**`Sessions_proofs`.**  `FamilyRevoked` is `RetiredTokenEndsSessions`: `SessionsInv` adds that a token once revoked stays
so, and what a refresh has revoked already (`Refreshes`).  `OneHolder` is `OneSessionPerSignIn`.  Of two requests that hold tokens
of one family at most one trades (`Apart`), and a family in which a trade is under way has no other token that works
(`TradesLast`), unless two requests presented one token (`forked`).  Families are given by the recursive function
`root`; that each token has one, and keeps it when tokens are added (`Rooted`), holds for there is no least counterexample.

**`CardDetail_proofs`.**  `CoverUnique` is `OneCover`: `CoverInv` says that every other picture is locked by the transaction that chooses
or still to be locked by it.  `LinePerChange` is `OneLineEach`: the changes of a kind are the lines of that kind and the
requests that still owe one (`LinesInv`), whose reading of the item has not been overtaken (`TicksInv`).

**`ZaloLink_proofs`.**  `ConflictNeverSwallowed`, `CodeSpentOnce` and `MessageSpentOnce` come from `ZaloInv`: only the poll loop writes
links, so that nothing comes between looking for a chat and writing it; a code confirmed is deleted before the next
message is handled; and a message that has linked is remembered, or noted as forgotten.

**`ReadCache_proofs`.**  `CacheKeepsPromise` is the refinement, `CacheSpec => ReadsAreFresh`.  Every action of the cache is mapped to a
step of `StaleReads` or to a stutter.  The step that matters is `AnswerFromCache`: an entry older than its row goes at a timer
still due, or at the delete of a writer that is still under way, or nobody holds it any more (`EveryRemoved`); and if a delete was
missed, it expires `Ttl` after it was stored, which is `MaxLoad` after it was current (`Entry`).

**`Cron_proofs`.**  `OffsetSaidOnce` is `EachOffsetOnce`, from `RemindersInv`: an offset that `pickReminderOffset` gives is smaller than the last one
marked, and a task that two sweeps hold is excused.  `DigestOncePerDay`, `MailMakesOneTask` and `ReconnectAskedOnce` go the same way:
one run at a time is past its look at a subscriber, mail or mailbox (`OneRunEach`, `OneMaker`, `OneAsker`), unless the races of section 3 are noted.

**`Board_proofs`**

| Theorem | Property | Argument |
|---|---|---|
| `PagesReadOnce` | `PagesSkipOnlyTies` | an element that stays has been seen when the cursor is past its rank, once, whatever the pages are; lemmas on ranks and pages of an order serve the feed too |
| `FeedReadsOnce` | `FeedSkipsOnlyTies` | the same, with the time of a note as its rank |
| `RangeIsListed` | `ListMissesNothing` | an item not yet seen is behind at least as many items made later as the offset counts, as long as none of these goes (`Passed`); a page in which no item shares its instant cannot pass it (`PageIsBefore`), whatever order the query chose |
| `DraggedBeside`, `RenumberedInOrder` | `DragsLandBeside`, `RenumberingKeepsOrder` | the midpoint or the renumbered slot that a request is about to write is free and beside its neighbour (`PlansInv`) |
| `ListDraggedBeside` | `ListsLandBeside` | of a renumbering query by query, the lists done stand at their multiples of the gap, in the order read (`Arranged`) |
| `EventsReminded` | `EventsRemindAtStart` | a request about to write an event holds a whole range (`EditsInv`): PATCHes that cross may lose an update, but never leave a start of one with an end of the other |
| `OneVerdict` | `ScreensAgree` | a card that is not DONE is not completed, unless a PATCH left it so (`AgendaInv`) |
| `LocalDays` | `DaysAreLocal` | two samples of the offset find both midnights, under `MidnightsAssumption` |
| `RuleIsKept` | `OccursOnRule` | the week of the open occurrence is a multiple of the interval after the first (`InStep`), under `ForwardAssumption`; the calendar is the recursive function `MonthStart`, unfolded once and for all (`CalendarUnfolds`) |

**Only model-checked.**  The three progress properties `DueIsHandled`, `WantedIsHandled` and `MailBecomesTask`: they need fairness and
ENABLED, which the installed provers do not handle.  Recursion over data occurs twice, as the functions `root` and
`MonthStart`; what a proof needs of them follows from their equation, and no module declares a RECURSIVE operator.  The five
violations are counterexamples and nothing to prove.

## 5. Not modelled

* *Texts and formats*: the parser of a mail, names and colours, activity texts, response mapping, the guess of the assignee of a
  mail (`resolveAssigneeId`), the wording of messages.
* *Read-only queries that decide nothing*: search, the statistics of a month, list filters by status,
  priority and type, the WIP warning, the pages of the activity log.
* *Single sends and single rows*: the broadcast over Zalo, the message on `task.created`, the theme in the preferences,
  names of task types, renaming and reordering on a card.
* *Outside the program*: Google and Zalo are the choices their answers leave; OAuth exchanges, token encryption, hashes
  and JWTs are taken to work.
* *Plumbing*: guards, interceptors, filters, pipes, configuration, keep-alive, scripts and CI.
* *The time zone of a user* is read once and cached for minutes in the code; in the models it does not change.
* *Several users at once*, except in `ZaloLink` and `Sessions`: every query is scoped to one owner or assignee.

In `Cards`, projects are neither archived nor removed (see `Projects`), and positions, dates and what hangs on a
card are in modules of their own.  Reassigning a task to another user is not modelled: PATCH checks it and never writes it.
The modules are not composed with each other beyond what shares state in the code within one of them: a mail
is an operation of `Cards` (`capture`) and of `Projects` (`newTask`), a snooze one of `Reminders` and of `Calendar`.

## 6. Plan

The invariants and the action properties of the runs are proved.  What may still be added:

1. Safety lemmas under the progress properties, which TLC checks: that a run of a cron job never goes round without
   taking a candidate off its list, so that each run ends after a bounded number of steps.
2. In `Cards`, what two requests at a time keep when only some operations are among them, so that the hypothesis "one request at
   a time" of the list and label theorems becomes the exact set of pairs that race.
3. In `Sessions`, a theorem for accounts that never sign in twice: that they have one valid token at most.

## 7. Running

    tlc -workers 2 -config projects_registered.cfg MCProjects
    tlc -workers 2 -config cards_races.cfg MCCards
    tlc -workers 2 -config cron_progress.cfg MCCron
    tlc -workers 2 -config parts.cfg MCParts
    tlapm Projects_proofs.tla
    tlapm Cards_proofs.tla
    tlapm Board_proofs.tla
    tlapm Cron_proofs.tla
    tlapm Sessions_proofs.tla
    tlapm ZaloLink_proofs.tla
    tlapm CardDetail_proofs.tla
    tlapm ReadCache_proofs.tla

`PROJECT.json` names the configuration and the module of every run, the lines each definition translates, and for
each property a fault of the code that it notices.
