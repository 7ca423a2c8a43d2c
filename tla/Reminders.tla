----------------------------- MODULE Reminders -----------------------------
(***************************************************************************)
(* Deadline reminders over Zalo (zalo-notification.listener, reminder-     *)
(* schedule) against the requests that move deadlines.  A sweep is one run *)
(* of the five-minute cron; the cron does not wait for the last run, so    *)
(* sweeps may overlap.  Each query and each send is an action.  The tasks  *)
(* have one assignee; time is counted in the unit of the offsets.          *)
(***************************************************************************)
EXTENDS Naturals, Sequences, FiniteSets, FiniteSetsExt

CONSTANTS Tasks,
          OffsetChoices,    \* REMINDER_OFFSET_CHOICES
          NoOffset,         \* deadlineRemindedOffset is null; larger than any offset
          Sweeps,           \* runs of the cron that may overlap
          MaxEdits, MaxFaults, MaxHours   \* bounds

ASSUME RemindersAssumption ==
  /\ OffsetChoices \subseteq Nat \ {0} /\ IsFiniteSet(OffsetChoices) /\ OffsetChoices # {}
  /\ NoOffset \in Nat /\ \A o \in OffsetChoices : o < NoOffset
  /\ MaxEdits \in Nat /\ MaxFaults \in Nat /\ MaxHours \in Nat

VARIABLES task,         \* rows: deadline (0 for none), open, reminded
          offsets,      \* reminderOffsets of the assignee, {} turns reminders off
          linked,       \* the assignee has a row in zalo_accounts
          sweep,        \* the runs under way
          patch,        \* one PATCH /tasks/:id under way
          said,         \* history: the last offset sent for the current deadline
          again,        \* history: tasks reminded of an offset not below the last
          excused,      \* history: tasks a sweep or a PATCH was caught in the middle of
          edits, faults, hour

remindersVars == <<task, offsets, linked, sweep, patch, said, again, excused, edits, faults, hour>>

-----------------------------------------------------------------------------
MaxOffset == Max(OffsetChoices)
SomeTask == CHOOSE t \in Tasks : TRUE
Asleep == [pc |-> "asleep", todo |-> {}, offsets |-> {}, hour |-> 0,
           task |-> SomeTask, offset |-> 0]
NoPatch == [pc |-> "none", task |-> SomeTask, old |-> 0, reminded |-> FALSE,
            new |-> 0]

RemindersInit ==
  /\ task \in [Tasks -> {[deadline |-> d, open |-> TRUE, reminded |-> NoOffset] :
                           d \in 1 .. MaxHours}]
  /\ offsets = OffsetChoices /\ linked = TRUE
  /\ sweep = [s \in Sweeps |-> Asleep]
  /\ patch = NoPatch
  /\ said = [t \in Tasks |-> NoOffset]
  /\ again = {} /\ excused = {}
  /\ edits = 0 /\ faults = 0 /\ hour = 0

\* pickReminderOffset: the smallest offset reached, once; none is NoOffset.
pickReminderOffset_Repeats(chosen, left, reminded) ==
  LET due == {o \in chosen : left <= o}
  IN IF due = {} \/ Min(due) > reminded THEN NoOffset ELSE Min(due)
pickReminderOffset(chosen, left, reminded) ==
  LET due == {o \in chosen : left <= o}
  IN IF due = {} \/ Min(due) >= reminded THEN NoOffset ELSE Min(due)

Candidates == {t \in Tasks : /\ task[t].open /\ linked
                             /\ task[t].deadline > hour
                             /\ task[t].deadline <= hour + MaxOffset}

\* A sweep has read the task and may still send for it, or has sent and not marked.
Holds(s, t) == \/ \E c \in sweep[s].todo : c.task = t
               \/ sweep[s].pc \in {"send", "mark"} /\ sweep[s].task = t

-----------------------------------------------------------------------------
(* remindApproachingDeadlines *)
StartSweep(s) ==
  /\ sweep[s].pc = "asleep" /\ Candidates # {}
  /\ sweep' = [sweep EXCEPT ![s].pc = "prefs",
                 ![s].todo = {[task |-> t, deadline |-> task[t].deadline,
                               reminded |-> task[t].reminded] : t \in Candidates}]
  /\ excused' = excused \cup {t \in Candidates : \E r \in Sweeps : Holds(r, t)}
  /\ UNCHANGED <<again, task, offsets, linked, patch, said, edits, faults, hour>>

\* resolveMany, then the one Date.now() of the sweep.
ReadPreferences(s) ==
  /\ sweep[s].pc = "prefs"
  /\ sweep' = [sweep EXCEPT ![s].pc = "next", ![s].offsets = offsets, ![s].hour = hour]
  /\ UNCHANGED <<again, task, offsets, linked, patch, said, excused, edits, faults, hour>>

\* The earliest deadline first; a task with nothing due, or whose assignee has
\* unlinked, is passed over unmarked.
NextCandidate(s) ==
  /\ sweep[s].pc = "next" /\ sweep[s].todo # {}
  /\ \E c \in sweep[s].todo :
       /\ \A d \in sweep[s].todo : c.deadline <= d.deadline
       /\ LET left == IF c.deadline > sweep[s].hour THEN c.deadline - sweep[s].hour ELSE 0
              o == pickReminderOffset(sweep[s].offsets, left, c.reminded)
          IN sweep' = IF o = NoOffset \/ ~linked
                      THEN [sweep EXCEPT ![s].todo = @ \ {c}]
                      ELSE [sweep EXCEPT ![s].todo = @ \ {c}, ![s].pc = "send",
                                         ![s].task = c.task, ![s].offset = o]
  /\ UNCHANGED <<again, task, offsets, linked, patch, said, excused, edits, faults, hour>>

EndSweep(s) ==
  /\ sweep[s].pc = "next" /\ sweep[s].todo = {}
  /\ sweep' = [sweep EXCEPT ![s] = Asleep]
  /\ UNCHANGED <<again, task, offsets, linked, patch, said, excused, edits, faults, hour>>

Says(t, o) ==
  /\ said' = [said EXCEPT ![t] = o]
  /\ again' = IF o >= said[t] THEN again \cup {t} ELSE again

\* Zalo takes the message or does not; the task is marked all the same (finally).
Send_OnlyThen(s) ==
  /\ sweep[s].pc = "send"
  /\ LET t == sweep[s].task
     IN \/ Says(t, sweep[s].offset) /\ sweep' = [sweep EXCEPT ![s].pc = "mark"]
        \/ UNCHANGED <<said, again>> /\ sweep' = [sweep EXCEPT ![s].pc = "next"]
  /\ UNCHANGED <<task, offsets, linked, patch, excused, edits, faults, hour>>
Send(s) ==
  /\ sweep[s].pc = "send"
  /\ Says(sweep[s].task, sweep[s].offset) \/ UNCHANGED <<said, again>>
  /\ sweep' = [sweep EXCEPT ![s].pc = "mark"]
  /\ UNCHANGED <<task, offsets, linked, patch, excused, edits, faults, hour>>

markReminded(s) ==
  /\ sweep[s].pc = "mark"
  /\ task' = [task EXCEPT ![sweep[s].task].reminded = sweep[s].offset]
  /\ sweep' = [sweep EXCEPT ![s].pc = "next", ![s].task = SomeTask, ![s].offset = 0]
  /\ UNCHANGED <<again, offsets, linked, patch, said, excused, edits, faults, hour>>

\* A query throws: the rest of the sweep is dropped.  One after a send leaves the
\* task unmarked.
SweepFails(s) ==
  /\ sweep[s].pc # "asleep" /\ faults < MaxFaults
  /\ faults' = faults + 1
  /\ excused' = IF sweep[s].pc = "mark" THEN excused \cup {sweep[s].task} ELSE excused
  /\ sweep' = [sweep EXCEPT ![s] = Asleep]
  /\ UNCHANGED <<again, task, offsets, linked, patch, said, edits, hour>>

\* The process restarts.
RemindersRestart ==
  /\ faults < MaxFaults
  /\ faults' = faults + 1
  /\ excused' = excused \cup {sweep[s].task : s \in {r \in Sweeps : sweep[r].pc = "mark"}}
  /\ sweep' = [s \in Sweeps |-> Asleep]
  /\ patch' = NoPatch
  /\ UNCHANGED <<again, task, offsets, linked, said, edits, hour>>

-----------------------------------------------------------------------------
(* What users do meanwhile. *)
Edit == edits < MaxEdits /\ edits' = edits + 1
Deadlines == 0 .. MaxHours

\* POST /cards/:id/snooze: one update, which resets the reminder.
snooze(t, d) ==
  /\ Edit
  /\ task' = [task EXCEPT ![t].deadline = d, ![t].reminded = NoOffset]
  /\ said' = [said EXCEPT ![t] = NoOffset]
  /\ excused' = IF \E s \in Sweeps : Holds(s, t) THEN excused \cup {t} ELSE excused
  /\ UNCHANGED <<again, offsets, linked, sweep, patch, faults, hour>>

\* PATCH /tasks/:id with a deadline: read; update; clear the reminder when the task
\* had been reminded of when it was read.
PatchReads(t, d) ==
  /\ patch.pc = "none" /\ d # 0 /\ Edit
  /\ patch' = [pc |-> "update", task |-> t, old |-> task[t].deadline,
               reminded |-> task[t].reminded # NoOffset, new |-> d]
  /\ UNCHANGED <<again, task, offsets, linked, sweep, said, excused, faults, hour>>

PatchUpdates ==
  /\ patch.pc = "update"
  /\ task' = [task EXCEPT ![patch.task].deadline = patch.new]
  /\ said' = IF patch.new = task[patch.task].deadline THEN said
             ELSE [said EXCEPT ![patch.task] = NoOffset]
  /\ excused' = IF \E s \in Sweeps : Holds(s, patch.task)
                THEN excused \cup {patch.task} ELSE excused
  /\ patch' = IF patch.new # patch.old /\ patch.reminded
              THEN [patch EXCEPT !.pc = "clear"] ELSE NoPatch
  /\ UNCHANGED <<again, offsets, linked, sweep, edits, faults, hour>>

clearDeadlineNotified ==
  /\ patch.pc = "clear"
  /\ task' = [task EXCEPT ![patch.task].reminded = NoOffset]
  /\ excused' = IF said[patch.task] # NoOffset THEN excused \cup {patch.task} ELSE excused
  /\ patch' = NoPatch
  /\ UNCHANGED <<again, offsets, linked, sweep, said, edits, faults, hour>>

\* PUT /preferences/notifications; link and unlink; complete and reopen.
PutPreferences(chosen) ==
  /\ Edit
  /\ offsets' = chosen
  /\ UNCHANGED <<again, task, linked, sweep, patch, said, excused, faults, hour>>
ToggleLink ==
  /\ Edit
  /\ linked' = ~linked
  /\ UNCHANGED <<again, task, offsets, sweep, patch, said, excused, faults, hour>>
ToggleOpen(t) ==
  /\ Edit
  /\ task' = [task EXCEPT ![t].open = ~@]
  /\ UNCHANGED <<again, offsets, linked, sweep, patch, said, excused, faults, hour>>

HourPasses ==
  /\ hour < MaxHours
  /\ hour' = hour + 1
  /\ UNCHANGED <<again, task, offsets, linked, sweep, patch, said, excused, edits, faults>>

Sweep(s) == \/ StartSweep(s) \/ ReadPreferences(s) \/ NextCandidate(s) \/ EndSweep(s)
            \/ Send(s) \/ markReminded(s)

RemindersNext ==
  \/ \E s \in Sweeps : Sweep(s) \/ SweepFails(s)
  \/ \E t \in Tasks, d \in Deadlines : snooze(t, d) \/ PatchReads(t, d)
  \/ PatchUpdates \/ clearDeadlineNotified
  \/ \E chosen \in SUBSET OffsetChoices : PutPreferences(chosen)
  \/ ToggleLink \/ \E t \in Tasks : ToggleOpen(t)
  \/ RemindersRestart \/ HourPasses

(* The cron fires again and again, and a run that can go on does.  Users,  *)
(* time and failures owe nothing.                                          *)
RemindersFairness == \A s \in Sweeps : WF_remindersVars(Sweep(s))

RemindersSpec == RemindersInit /\ [][RemindersNext]_remindersVars /\ RemindersFairness

-----------------------------------------------------------------------------
(* For one deadline the user hears each offset once, and never a larger    *)
(* one after a smaller, whatever offsets are chosen meanwhile (reminder-   *)
(* schedule.ts:7-11), unless sweeps overlapped on the task, a sweep broke  *)
(* off between sending and marking, or the deadline moved under a sweep.   *)
EachOffsetOnce ==
  again \subseteq excused

(* A reminder that is due does not stay due: it is sent, or given up, or   *)
(* the deadline passes or moves.  A link that always fails, or a sweep     *)
(* that dies, holds back neither that task nor those after it.             *)
ReminderDue(t) ==
  /\ t \in Candidates
  /\ pickReminderOffset(offsets, task[t].deadline - hour, task[t].reminded) # NoOffset
DueIsHandled == \A t \in Tasks : ReminderDue(t) ~> ~ReminderDue(t)
=============================================================================
