SPECIFICATION Spec
CONSTANTS
  NoRequest = NoRequest
  Samples <- MCSamples
  NoFile = NoFile
  NoAnswer = NoAnswer
  MAX_DEPTH = 1
  MAX_FILES = 4
  AnalyzeMaxDeaths = 1
  Digests = {d1, d2}
  NoDigest = NoDigest
  Unknown = Unknown
  NoEntry = NoEntry
  NoQuery = NoQuery
  NoVerdict = NoVerdict
  FailOpen = FALSE
  BlockThreshold = 1
  CacheTtl = 2
  MaxDetections = 1
  MaxClock = 3
  MaxOpinions = 1
  VtMaxDeaths = 1
  SpoolNames = {"f", "f.ioerror", "g"}
  IoError <- MCIoError
  NoName = NoName
  MaxPuts = 4
  ProgressMaxMishaps = 2
  Contents = {}
  TooBig = {}
  Infected = {}
  YaraHit = {}
  Forbidden = {}
  Suspicious = {}
  Listed = {}
  TypeOff = FALSE
  UseAnalyze = TRUE
  UseVt = TRUE
  ErringChecks = {}
  YaraClean = TRUE
  KrpMode = "fail_only"
  ShelfNames = {"f", "g.sha256"}
  Skipped = {"g.sha256"}
  Passages <- MCPassages
  Nothing = Nothing
  Torn = Torn
  MaxPassages = 2
  DisplayMaxFailures = 1
  Tasks = {t1, t2}
  Orgs = {o1, o2}
  Dirs = {p1}
  NoDir = NoDir
  FirstOrg = o1
  FirstDir = p1
  Stations = {s1}
  Sticks = {k1}
  MaxCommands = 3
  AdminMaxFailures = 1
INVARIANT AnalyzeTypeOK
INVARIANT AnalysisIsKept
PROPERTY AnalysisComes
INVARIANT VtTypeOK
INVARIANT VerdictIsFresh
PROPERTY LookupComes
INVARIANT ProgressTypeOK
INVARIANT CountsAddUp
INVARIANT GhostsAreGone
PROPERTY WorkEnds
INVARIANT DisplayTypeOK
INVARIANT NeverAcceptedNeverValid
INVARIANT ReasonIsTrue
PROPERTY ShownInTheEnd
INVARIANT AdminTypeOK
INVARIANT EnrolledSignsWell
INVARIANT StationsFollow
CHECK_DEADLOCK FALSE
