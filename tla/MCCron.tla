------------------------------- MODULE MCCron -------------------------------
(***************************************************************************)
(* The three cron jobs, for TLC: reminders, the daily digest, and tasks    *)
(* from mail.  They share no table here, and one run checks them side by   *)
(* side: the initial state chooses a job, and only that one moves.         *)
(***************************************************************************)
EXTENDS Reminders, Digest, MailIngestion, TLC

CONSTANTS a1, m1, m2

VARIABLE job

cronVars == <<job, remindersVars, digestVars, mailVars>>

OneZone == [u \in Subscribers |-> 1]
EveryMailbox == [m \in Mails |-> MailAccounts]
\* The first mail came to every mailbox, the second to one.
Copies == m1 :> MailAccounts @@ m2 :> {a1}

\* The jobs that do not move have nothing to do: no chat is linked, and there is no mail.
MCInit ==
  /\ job \in {"reminders", "digest", "mail"}
  /\ MailInit
  /\ IF job = "reminders" THEN RemindersInit
     ELSE /\ task = [t \in Tasks |-> [deadline |-> 0, open |-> FALSE, reminded |-> NoOffset]]
          /\ offsets = {} /\ linked = FALSE
          /\ sweep = [s \in Sweeps |-> Asleep] /\ patch = NoPatch
          /\ said = [t \in Tasks |-> NoOffset] /\ again = {} /\ excused = {}
          /\ edits = 0 /\ faults = 0 /\ hour = 0
  /\ IF job = "digest" THEN DigestInit
     ELSE /\ preference = [u \in Subscribers |->
                             [on |-> FALSE, minute |-> 0, last |-> NoDay, linked |-> FALSE]]
          /\ run = [s \in Runs |-> Off]
          /\ digested = [u \in Subscribers |-> {}] /\ twice = {} /\ caught = {}
          /\ puts = 0 /\ breaks = 0 /\ step = 0

Reminding(A) == job = "reminders" /\ A /\ UNCHANGED <<job, digestVars, mailVars>>
Digesting(A) == job = "digest" /\ A /\ UNCHANGED <<job, remindersVars, mailVars>>
Ingesting(A) == job = "mail" /\ A /\ UNCHANGED <<job, remindersVars, digestVars>>

MCNext == Reminding(RemindersNext) \/ Digesting(DigestNext) \/ Ingesting(MailNext)

\* The fairness of each module, for the job that moves.
MCFairness ==
  /\ \A s \in Sweeps : WF_cronVars(Reminding(Sweep(s)))
  /\ \A s \in Runs : WF_cronVars(Digesting(SendDigests(s)))
  /\ \A p \in Polls : WF_cronVars(Ingesting(PollMailAccounts(p)))

MCSafetySpec == MCInit /\ [][MCNext]_cronVars
MCSpec == MCSafetySpec /\ MCFairness
=============================================================================
