\* Walks as in Services.cfg, against what a test says of two pages of jobs.
SPECIFICATION ServicesSpec
CONSTANTS
  Parts = {"pages"}
  ws1 = ws1
  ws2 = ws2
  r1 = r1
  r2 = r2
  c1 = c1
  c2 = c2
  e1 = e1
  e2 = e2
  None = None
  Workspace = {ws1, ws2}
  Default = ws1
  Resume = {r1, r2}
  Preference = {p1}
  CorpusJob = {j1}
  Client = {c1, c2}
  Task = {t1}
  Slot = {1, 2}
  MaxRequests = 3
  Posting = {1, 2}
  SourceOf <- MCSourceOf
  Similar <- MCSimilar
  Windowed = {}
  Swallowing = {"feed"}
  Misnamed = {}
  Executor = {e1, e2}
  NoPosting = 0
  Row = {1, 2, 3}
  Key = {2, 4}
  Piped = {4}
  Limits = {1, 2}
  FirstStamp = 3
  LastStamp = 4
  Country = {"India", "United States", "Germany"}
  Region = {"Asia"}
  Role = {"engineer", "lead"}
  Compatible <- MCCompatible
  Mentions <- MCMentions
  WordSets <- MCWordSets
  Place = {"India", "United States", "Germany", "Asia", "Delhi, India"}
  Denotes <- MCDenotes
  Spellings <- MCSpellings
  Homes <- MCHomes
  Careers <- MCCareers
  Wanted = {"India", "Asia", "Delhi, India"}
CHECK_DEADLOCK FALSE
INVARIANT PagesDoNotOverlap
