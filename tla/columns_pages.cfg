SPECIFICATION ColumnsSpec
CONSTANTS
  Lists = {l1}
  Inbox = Inbox
  Gap = 16
  MinGap = 2
  StartAt = {}
  Requests = {s1}
  Limit = 1
  MaxCards = 3
  MaxCardWrites = 3
INVARIANT PagesShowAll
CHECK_DEADLOCK FALSE
