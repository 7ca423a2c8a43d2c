--------------------------- MODULE MailIngestion ---------------------------
(***************************************************************************)
(* Tasks made from mail (mail-ingestion.service): every five minutes a     *)
(* poll goes through the connected Gmail accounts one after the other, and *)
(* makes a task of each message whose Message-ID has none.  Polls may      *)
(* overlap.  Accounts are connected, disconnected (mail-accounts.service)  *)
(* and revoked at Google meanwhile.  Gmail is outside: a call may fail.    *)
(* Removing the UNREAD label is left out, as no query looks at it.         *)
(* So is updateTokens, which stores an access token that the client got    *)
(* with the refresh token, and its expiry: a call works while the grant    *)
(* behind the refresh token is good, which is all that a row keeps here.   *)
(* Google sends a refresh token only with a grant; a failed write is       *)
(* logged, and the next poll refreshes again.                              *)
(***************************************************************************)
EXTENDS Naturals, Sequences, FiniteSets, SequencesExt

CONSTANTS MailAccounts,
          Mails,            \* messages with a task prefix, by Message-ID
          CopyIn,           \* the mailboxes with a copy of each message
          PageSize,         \* messages in the one page that is listed
          Polls,            \* runs of the cron that may overlap
          MaxGrants, MaxFailures, MaxDeletes   \* bounds

ASSUME MailAssumption ==
  /\ CopyIn \in [Mails -> SUBSET MailAccounts]
  /\ PageSize \in Nat \ {0}
  /\ MaxGrants \in Nat /\ MaxFailures \in Nat /\ MaxDeletes \in Nat

VARIABLES mailbox,      \* messages in the lookback window, in the order received
          gone,         \* messages that have left the window
          mailRow,      \* mail_accounts: the id and the grant whose tokens are stored
          granted,      \* Google: grants given so far, by account
          revoked,      \* Google: the last grant that was revoked
          live, trash,  \* tasks with the externalRef of the message: not deleted, deleted
          poll,         \* pollMailAccounts under way
          reconnectNotified,  \* ids of mail accounts
          prompts,      \* history: prompts for each row since its grant was last good
          crossed,      \* history: accounts and messages that two polls held at once, and
                        \* messages whose task was restored beside another
          failures

mailVars == <<mailbox, gone, mailRow, granted, revoked, live, poll, reconnectNotified,
              prompts, crossed, trash, failures>>

-----------------------------------------------------------------------------
\* A row is written with a grant; the first one is its id.
NoMailRow == [id |-> 0, token |-> 0]
Connected == {a \in MailAccounts : mailRow[a].id # 0}

NotPolling == [pc |-> "idle", todo |-> {}, account |-> {}, id |-> 0, token |-> 0,
               messages |-> {}, mail |-> {}]

\* The row that the poll has read is still there.
StillThere(p, a) == mailRow[a].id = poll[p].id

MailInit ==
  /\ mailbox = <<>> /\ gone = {}
  /\ mailRow = [a \in MailAccounts |-> [id |-> 1, token |-> 1]]
  /\ granted = [a \in MailAccounts |-> 1] /\ revoked = [a \in MailAccounts |-> 0]
  /\ live = [m \in Mails |-> 0]
  /\ poll = [p \in Polls |-> NotPolling]
  /\ reconnectNotified = {}
  /\ prompts = [a \in MailAccounts |-> 0]
  /\ crossed = {}
  /\ trash = [m \in Mails |-> 0] /\ failures = 0

Works(a, token) == token > revoked[a]

\* messages.list: the newest page of what is in the window; the next page is not read.
FirstPage(a) ==
  LET copies == SelectSeq(mailbox, LAMBDA m : a \in CopyIn[m])
      oldest == IF Len(copies) > PageSize THEN Len(copies) - PageSize + 1 ELSE 1
  IN ToSet(SubSeq(copies, oldest, Len(copies)))

To(p, pc) == poll' = [poll EXCEPT ![p].pc = pc]
Fails == failures < MaxFailures /\ failures' = failures + 1

-----------------------------------------------------------------------------
(* pollMailAccounts and pollAccount *)
StartPoll(p) ==
  /\ poll[p].pc = "idle" /\ Connected # {}
  /\ poll' = [poll EXCEPT ![p].pc = "next",
                 ![p].todo = {[account |-> a, row |-> mailRow[a]] : a \in Connected}]
  /\ crossed' = IF \E q \in Polls \ {p} : poll[q].pc # "idle"
                THEN crossed \cup MailAccounts ELSE crossed
  /\ UNCHANGED <<mailbox, gone, mailRow, granted, revoked, live, reconnectNotified, prompts,
                 trash, failures>>

NextAccount(p) ==
  /\ poll[p].pc = "next"
  /\ \/ \E c \in poll[p].todo :
          poll' = [poll EXCEPT ![p].pc = "list", ![p].todo = @ \ {c},
                               ![p].account = {c.account}, ![p].id = c.row.id,
                               ![p].token = c.row.token]
     \/ poll[p].todo = {} /\ poll' = [poll EXCEPT ![p] = NotPolling]
  /\ UNCHANGED <<mailbox, gone, mailRow, granted, revoked, live, reconnectNotified, prompts,
                 crossed, trash, failures>>

\* A refused token asks for a reconnection, once; another failure waits for the next
\* poll.  The flag is set before Zalo is asked whether it has a chat.
Refused_EndsPoll(p, a) == poll' = [poll EXCEPT ![p] = NotPolling]
Refused(p, a) == To(p, IF <<a, poll[p].id>> \in reconnectNotified THEN "next" ELSE "prompt")
ListMessages(p) ==
  /\ poll[p].pc = "list"
  /\ \E a \in poll[p].account :
       \/ /\ Works(a, poll[p].token)
          /\ poll' = [poll EXCEPT ![p].pc = "messages", ![p].messages = FirstPage(a)]
          /\ UNCHANGED <<reconnectNotified, failures>>
       \/ /\ ~Works(a, poll[p].token)
          /\ Refused(p, a)
          /\ reconnectNotified' = reconnectNotified \cup {<<a, poll[p].id>>}
          /\ UNCHANGED failures
       \/ Fails /\ To(p, "next") /\ UNCHANGED reconnectNotified
  /\ UNCHANGED <<mailbox, gone, mailRow, granted, revoked, live, prompts, crossed, trash>>

\* No chat is linked, or the send fails: the prompt is lost.
notifyReconnectRequired(p) ==
  /\ poll[p].pc = "prompt"
  /\ prompts' \in {prompts, [a \in MailAccounts |->
                               IF a \in poll[p].account /\ StillThere(p, a)
                               THEN prompts[a] + 1 ELSE prompts[a]]}
  /\ To(p, "next")
  /\ UNCHANGED <<mailbox, gone, mailRow, granted, revoked, live, reconnectNotified, crossed,
                 trash, failures>>

(* processMessage: what goes wrong with one message is logged, and the next *)
(* one is taken. *)
GetMessage(p) ==
  /\ poll[p].pc = "messages"
  /\ \E m \in poll[p].messages, a \in poll[p].account :
       \/ /\ Works(a, poll[p].token)
          /\ poll' = [poll EXCEPT ![p].messages = @ \ {m}, ![p].pc = "find", ![p].mail = {m}]
          /\ UNCHANGED failures
       \/ /\ ~Works(a, poll[p].token)
          /\ poll' = [poll EXCEPT ![p].messages = @ \ {m}]
          /\ UNCHANGED failures
       \/ /\ Fails
          /\ poll' = [poll EXCEPT ![p].messages = @ \ {m}]
  /\ UNCHANGED <<mailbox, gone, mailRow, granted, revoked, live, reconnectNotified, prompts,
                 crossed, trash>>

\* findByExternalRef passes over deleted tasks.
FindExisting_Never(p) ==
  /\ poll[p].pc = "find"
  /\ To(p, "create")
  /\ UNCHANGED <<mailbox, gone, mailRow, granted, revoked, live, reconnectNotified, prompts,
                 crossed, trash, failures>>
FindExisting(p) ==
  /\ poll[p].pc = "find"
  /\ \E m \in poll[p].mail :
       /\ poll' = IF live[m] > 0
                  THEN [poll EXCEPT ![p].pc = "messages", ![p].mail = {}]
                  ELSE [poll EXCEPT ![p].pc = "create"]
       /\ crossed' = IF \E q \in Polls \ {p} : poll[q].pc = "create" /\ m \in poll[q].mail
                     THEN crossed \cup {m} ELSE crossed
  /\ UNCHANGED <<mailbox, gone, mailRow, granted, revoked, live, reconnectNotified, prompts,
                 trash, failures>>

\* createSystemTask: nothing in the database keeps externalRef unique, while an account
\* deleted meanwhile makes it refuse the reference to the account.
CreateTask(p) ==
  /\ poll[p].pc = "create"
  /\ \/ /\ \A a \in poll[p].account : StillThere(p, a)
        /\ live' = [m \in Mails |-> IF m \in poll[p].mail THEN live[m] + 1 ELSE live[m]]
        /\ UNCHANGED failures
     \/ (\E a \in poll[p].account : ~StillThere(p, a)) /\ UNCHANGED <<live, failures>>
     \/ Fails /\ UNCHANGED live
  /\ poll' = [poll EXCEPT ![p].pc = "messages", ![p].mail = {}]
  /\ UNCHANGED <<mailbox, gone, mailRow, granted, revoked, reconnectNotified, prompts, crossed,
                 trash>>

\* "A poll cycle completing without throwing means the token works again."
EndAccount_All(p) ==
  /\ poll[p].pc = "messages" /\ poll[p].messages = {}
  /\ poll' = [poll EXCEPT ![p].pc = "next"]
  /\ reconnectNotified' = {}
  /\ UNCHANGED <<mailbox, gone, mailRow, granted, revoked, live, prompts, crossed, trash,
                 failures>>
EndAccount(p) ==
  /\ poll[p].pc = "messages" /\ poll[p].messages = {}
  /\ poll' = [poll EXCEPT ![p].pc = "next"]
  /\ reconnectNotified' = reconnectNotified \ {<<a, poll[p].id>> : a \in poll[p].account}
  /\ UNCHANGED <<mailbox, gone, mailRow, granted, revoked, live, prompts, crossed, trash,
                 failures>>

\* The process restarts.
MailRestart ==
  /\ Fails
  /\ poll' = [p \in Polls |-> NotPolling]
  /\ reconnectNotified' = {}
  /\ prompts' = [a \in MailAccounts |-> 0]
  /\ UNCHANGED <<mailbox, gone, mailRow, granted, revoked, live, crossed, trash>>

-----------------------------------------------------------------------------
(* Mail, users and Google. *)
MailArrives(m) ==
  /\ m \notin gone \cup ToSet(mailbox)
  /\ mailbox' = Append(mailbox, m)
  /\ UNCHANGED <<gone, mailRow, granted, revoked, live, poll, reconnectNotified, prompts,
                 crossed, trash, failures>>

\* taskLookbackDays have passed.
MailAges ==
  /\ mailbox # <<>>
  /\ mailbox' = Tail(mailbox) /\ gone' = gone \cup {Head(mailbox)}
  /\ UNCHANGED <<mailRow, granted, revoked, live, poll, reconnectNotified, prompts, crossed,
                 trash, failures>>

\* DELETE /tasks/:id, and POST /tasks/:id/restore, which looks for no other task.
DeleteTask(m) ==
  /\ live[m] > 0 /\ trash[m] < MaxDeletes /\ \A n \in Mails \ {m} : trash[n] = 0
  /\ live' = [live EXCEPT ![m] = @ - 1]
  /\ trash' = [trash EXCEPT ![m] = @ + 1]
  /\ UNCHANGED <<mailbox, gone, mailRow, granted, revoked, poll, reconnectNotified, prompts,
                 crossed, failures>>
RestoreTask(m) ==
  /\ trash[m] > 0
  /\ live' = [live EXCEPT ![m] = @ + 1]
  /\ trash' = [trash EXCEPT ![m] = @ - 1]
  /\ crossed' = IF live[m] > 0 \/ \E p \in Polls : poll[p].pc = "create" /\ m \in poll[p].mail
                THEN crossed \cup {m} ELSE crossed
  /\ UNCHANGED <<mailbox, gone, mailRow, granted, revoked, poll, reconnectNotified, prompts,
                 failures>>

\* handleCallback: Google has given tokens, and the row is written with them.
Connect(a) ==
  /\ granted[a] < MaxGrants
  /\ granted' = [granted EXCEPT ![a] = @ + 1]
  /\ mailRow' = [mailRow EXCEPT ![a] = [id |-> IF @.id = 0 THEN granted[a] + 1 ELSE @.id,
                                         token |-> granted[a] + 1]]
  /\ prompts' = [prompts EXCEPT ![a] = 0]
  /\ UNCHANGED <<mailbox, gone, revoked, live, poll, reconnectNotified, crossed, trash,
                 failures>>

\* The user takes the access back, in the Google account or with DELETE
\* /mail-accounts/:id; disconnecting deletes the row, whatever Google says.
RevokeGrant(a) ==
  /\ revoked[a] < granted[a]
  /\ revoked' = [revoked EXCEPT ![a] = granted[a]]
  /\ prompts' = [prompts EXCEPT ![a] = 0]
  /\ UNCHANGED <<mailbox, gone, mailRow, granted, live, poll, reconnectNotified, crossed,
                 trash, failures>>
RemoveAccount(a) ==
  /\ a \in Connected
  /\ mailRow' = [mailRow EXCEPT ![a] = NoMailRow]
  /\ UNCHANGED <<mailbox, gone, granted, revoked, live, poll, reconnectNotified, prompts,
                 crossed, trash, failures>>

PollMailAccounts(p) ==
  \/ StartPoll(p) \/ NextAccount(p) \/ ListMessages(p) \/ notifyReconnectRequired(p)
  \/ GetMessage(p) \/ FindExisting(p) \/ CreateTask(p) \/ EndAccount(p)

MailNext ==
  \/ \E p \in Polls : PollMailAccounts(p)
  \/ \E m \in Mails : MailArrives(m) \/ DeleteTask(m) \/ RestoreTask(m)
  \/ \E a \in MailAccounts : Connect(a) \/ RevokeGrant(a) \/ RemoveAccount(a)
  \/ MailAges \/ MailRestart

\* The cron fires again and again, and a poll that can go on does.
MailFairness == \A p \in Polls : WF_mailVars(PollMailAccounts(p))

MailSpec == MailInit /\ [][MailNext]_mailVars /\ MailFairness

-----------------------------------------------------------------------------
(* One task for each Message-ID, though several mailboxes hold the mail    *)
(* and every poll lists it again, unless two polls looked for it at once   *)
(* ("the dedup key stops the same email from creating one task per         *)
(* mailbox").                                                              *)
OneTaskPerMail == \A m \in Mails : live[m] > 1 => m \in crossed

(* A broken account is prompted for once in the life of the process, until *)
(* it is reconnected, unless polls overlapped ("stop re-notifying every 5  *)
(* minutes").                                                              *)
OnePromptPerBreak == \A a \in MailAccounts : prompts[a] > 1 => a \in crossed

(* A mail that a connected mailbox lists does not stay without a task: a   *)
(* message that fails, an account that is refused or a restart holds up    *)
(* neither it nor the other accounts.                                      *)
MailWaits(m) == /\ live[m] = 0
                /\ \E a \in Connected : Works(a, mailRow[a].token) /\ m \in FirstPage(a)
MailBecomesTask == \A m \in Mails : MailWaits(m) ~> ~MailWaits(m)
=============================================================================
