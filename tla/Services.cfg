\* Two requests and a thread on a user's workspaces; two executors that ingest two
\* similar postings while their listings are checked; walks through three rows
\* while they change; one posting and a user who edits the preferences.
SPECIFICATION ServicesSpec
CONSTANTS
  Parts = {"workspaces", "corpus", "pages", "eligibility"}
  ws1 = ws1
  ws2 = ws2
  r1 = r1
  r2 = r2
  c1 = c1
  c2 = c2
  e1 = e1
  e2 = e2
  None = None
  Workspace = {ws1, ws2}
  Default = ws1
  Resume = {r1, r2}
  Preference = {p1}
  CorpusJob = {j1}
  Client = {c1, c2}
  Task = {t1}
  Slot = {1, 2}
  MaxRequests = 3
  Posting = {1, 3}
  SourceOf <- MCSourceOf
  Similar <- MCSimilar
  Windowed = {}
  Swallowing = {}
  Misnamed = {}
  Executor = {e1, e2}
  NoPosting = 0
  Row = {1, 2, 3}
  Key = {2, 4}
  Piped = {4}
  Limits = {1, 2}
  FirstStamp = 3
  LastStamp = 4
  Country = {"India", "United States", "Germany"}
  Region = {"Asia"}
  Role = {"engineer", "lead"}
  Compatible <- MCCompatible
  Mentions <- MCMentions
  WordSets <- MCWordSets
  Place = {"India", "United States", "Germany", "Asia", "Delhi, India"}
  Denotes <- MCDenotes
  Spellings <- MCSpellings
  Homes <- MCHomes
  Careers <- MCCareers
  Wanted = {"India", "Asia", "Delhi, India"}
SYMMETRY Symmetry
CHECK_DEADLOCK FALSE
INVARIANTS ServicesTypeOK OneActive MatchesStayHome MatchingLeavesNoGaps ResumesStayHome
INVARIANTS AvailableIffListed JobsAreDistinct WalksAreExact WalksEnd ShownAsOpenIsOpen
PROPERTIES MissesAreConsecutive WiderWishesKeepJobs
