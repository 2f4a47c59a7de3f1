CONSTANTS
  o1 = o1
  d1 = d1
  d2 = d2
  g1 = g1
  a1 = a1
  a2 = a2
  None = None
  Operators = {o1}
  Serial = TRUE
  Procs = {a1, a2}
  MaxAttempts = 1
  RateLimit = 1
  Window = 0
  Retentions = {0}
  FloorsRate = FALSE
  Deliveries = {d1, d2}
  ReadyKinds = {"telegram", "hook"}
  Age = 1
  SkillNames <- MCNames
  FileOf <- MCFileOf
  BuiltIn = {"c"}
  Gaps = {g1}
  Agents = {"me", "other"}
  Me = "me"
  EntryKeys = {"soul", "plan", "note", "task"}
  Docs = {"soul", "plan"}
  Texts = {a1, a2}
  Begun <- MCBegun
  MaxEntries = 3
  Retention = 0
  AccountNames = {a1, a2}
  MaxPasses = 2
  MaxJobs = 1
  Requests = {a1, a2}
  Extensions = {"e"}
  Versions = {"v1", "v2"}
  Hashes = {"paid", "free"}
  Free = {"free"}
  Sentences <- MCSentences
  GateActions = {a1, a2}
  SetupChoices <- MCChoices
  Binds = {"loopback", "lan"}
  DefaultBind = "loopback"
  Slugs = {"s", "t"}
  Org = "o"
  Torn = g1
  Ops <- MCOps
  Time <- MCTime
  Crashes <- MCCrashes
  Runs <- MCRuns
SYMMETRY Alike
SPECIFICATION RootSpec
INVARIANT ConnectorsAgree
INVARIANT ConversationsAgree
INVARIANT PromotionEarned
INVARIANT EvidenceStands
INVARIANT InstallsAgree
INVARIANT MemoryAgrees
INVARIANT ProvidersAgree
INVARIANT LoopsAgree
CHECK_DEADLOCK FALSE
