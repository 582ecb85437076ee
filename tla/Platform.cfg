\* The parts that share no state, one per initial state.
CONSTANTS
  \* ProviderPriority.  A step that does not divide the range makes every bound of
  \* the arithmetic matter.
  Providers <- MCProviders
  Resting <- MCResting
  Alternative <- MCAlternative
  MaxPriority = 5
  Step = 3
  FailWait = 1
  SlowWait = 2
  RestWait = 3
  Admins = {a1, a2}
  AdminPriorities <- MCAdminPriorities
  MaxEvents = 2
  \* DailyLimits: a request and a job at once, over a midnight.
  Requests = {r1, r2}
  JobSlots = {r2}
  Limit = 2
  JobSize = 2
  LastDate = 1
  MaxLost = 1
  NoKey = NoKey
  \* ServiceRecords
  Writers = {w1, w2}
  Keys = {k1, k2}
  FirstKeys = {k1}
  MaxVersion = 3
  \* ApiAccess
  Procs = {p1}
  ApiKeys = {k1, k2}
  Ttl = 2
  Nothing = Nothing
  \* Unsubscribes
  Emails = {e1}
  Clicks = {c1, c2}
  ReportMakers = {u1}
  BatchDays = 0
  OldDays = 1
  MaxRows = 3
  MaxReports = 2
  LastNight = 3
  \* ReportRequests
  ReportIds = {q1}
  Runs = {d1, d2}
  Notes = {n1, n2}
  NoNote = NoNote
  LastMoment = 2
  PageSize = 1
  Timeout = 1
  DeleteAfter = 1
  \* TemplateFolders
  Folders = {f1, f2, f3}
  Templates = {m1}
  Requesters = {q1, q2}
  Root = Root
  \* SmsSenders
  Senders = {s1, s2}
  FirstSender = s1
  Editors = {q1, q2}
  \* DvlaPassword: as many runs as two changes and a retry need.
  Changers = {c1, c2, c3}
  Clients = {p1}
  MaxTries = 2
  MaxSecret = 3
  NoValue = NoValue
  \* Teams.  No handler tells one permission but manage_settings from another.
  Users = {m1, m2}
  Founder = m1
  PermissionNames = {"manage_settings"}
  JoinRequests = {j1}
  TeamCalls = {q1, q2}
  Parts = {"providers", "limits", "records", "access", "unsubscribes", "reports",
           "folders", "senders", "dvla", "teams"}
SPECIFICATION FairPlatformSpec
INVARIANTS PlatformInv LimitInv EndedSoonRefused ArchivedWasOffered
INVARIANTS PasswordNotLost ReportIsComplete
PROPERTIES NoLostUpdate CyclesNeedOverlap SendersStayRight TeamStaysRight
PROPERTIES RestsEventually
\* The parts with a bounded history or clock stop at it.
CHECK_DEADLOCK FALSE
