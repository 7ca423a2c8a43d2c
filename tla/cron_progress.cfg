SPECIFICATION MCSpec
CONSTANTS
  a1 = a1
  m1 = m1
  m2 = m2
  Tasks = {t1, t2}
  OffsetChoices = {1, 2}
  NoOffset = 3
  Sweeps = {s1}
  MaxEdits = 1
  MaxFaults = 1
  MaxHours = 2
  Subscribers = {p1}
  Zone <- OneZone
  DayLength = 3
  SendWindow = 2
  Runs = {s1}
  NoDay = NoDay
  MaxPuts = 1
  MaxBreaks = 1
  MaxSteps = 4
  MailAccounts = {a1, a2}
  Mails = {m1, m2}
  CopyIn <- Copies
  PageSize = 1
  Polls = {s1}
  MaxGrants = 1
  MaxFailures = 1
  MaxDeletes = 0
INVARIANT OnePromptPerBreak
PROPERTIES
  DueIsHandled
  WantedIsHandled
  MailBecomesTask
CHECK_DEADLOCK FALSE
