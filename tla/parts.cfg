SPECIFICATION MCPartsSpec
CONSTANTS
  a1 = a1
  m1 = m1
  m2 = m2
  Tasks = {t1}
  OffsetChoices = {1, 2}
  NoOffset = 3
  Sweeps = {s1, s2}
  MaxEdits = 1
  MaxFaults = 1
  MaxHours = 2
  Subscribers = {p1}
  Zone <- OneZone
  DayLength = 3
  SendWindow = 2
  Runs = {s1, s2}
  NoDay = NoDay
  MaxPuts = 1
  MaxBreaks = 1
  MaxSteps = 4
  MailAccounts = {a1}
  Mails = {m1}
  CopyIn <- EveryMailbox
  PageSize = 1
  Polls = {s1, s2}
  MaxGrants = 2
  MaxFailures = 1
  MaxDeletes = 1
  Emails = {e1}
  GoogleIds = {g1}
  EmailOf <- OneIdentity
  NoGoogle = NoGoogle
  Slots = {s1, s2}
  Lifetime = 1
  MaxTokens = 3
  Times = {0, 2}
  Users = {s1, s2}
  Chats = {h1}
  NoChat = NoChat
  Codes = {k1}
  LinkCodeTtl = 1
  MaxSeen = 1
  BatchSize = 2
  MaxMessages = 2
  MaxRows = 2
  MaxCrashes = 1
  MaxLinkTime = 2
  Readers = {s1, s2}
  Writers = {w1}
  Ttl = 5
  SecondDelete = 2
  MaxLoad = 1
  MaxDelete = 1
  MaxVersions = 3
  MaxNow = 7
  Checklists = {k1}
  Items = {i1}
  Notes = {n1}
  Files = {f1, f2, f3}
  Handlers = {s1, s2}
  MaxDetailWrites = 5
  FeedCards = {k1, k2}
  NoteIds = {1, 2, 3}
  NoNote = NoNote
  FeedLimit = 1
  MaxFeedTime = 3
  MaxFeedWrites = 4
  Lists = {l1}
  Inbox = Inbox
  Gap = 16
  MinGap = 2
  StartAt = {16, 18}
  Requests = {s1, s2}
  Limit = 1
  MaxCards = 3
  MaxCardWrites = 2
  Movers = {s1, s2}
  MaxLists = 3
  MaxListWrites = 2
  DayHours = 6
  ZoneChoices <- RepeatZones
  Rules <- RepeatRules
  Bases <- RepeatBases
  FirstWeekday = 6
  Horizon = 20
  AgendaCards = {t1}
  ViewerZones <- AgendaZones
  Hours <- ClockHours
  DeadlineChoices <- AgendaDeadlines
  None = None
  MaxAgendaSteps = 2
  Instants = {1, 2}
  NoTime = NoTime
  Editors = {s1, s2}
  PerPage = 1
  MaxItems = 2
  MaxCalendarWrites = 2
SYMMETRY Symmetry
INVARIANTS
  EachOffsetOnce
  OneDigestADay
  OneTaskPerMail
  RetiredTokenEndsSessions
  OneSessionPerSignIn
  NoSwallowedConflict
  CodeLinksOnce
  MessageLinksOnce
  OneCover
  OneLineEach
  PagesSkipOnlyTies
  DaysAreLocal
  FeedSkipsOnlyTies
  ScreensAgree
  ListMissesNothing
  EventsRemindAtStart
PROPERTIES
  ReadsAreFresh
  DragsLandBeside
  RenumberingKeepsOrder
  OccursOnRule
  ListsLandBeside
CHECK_DEADLOCK FALSE
