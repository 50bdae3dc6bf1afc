SPECIFICATION FairSpec
CONSTANTS
  Contents = {"good"}
  TooBig <- MCTooBig
  Infected <- MCInfected
  YaraHit <- MCYaraHit
  Forbidden <- MCForbidden
  Suspicious <- MCSuspicious
  Listed <- MCListed
  TypeOff = FALSE
  UseAnalyze = TRUE
  UseVt = TRUE
  ErringChecks = {}
  YaraClean = TRUE
  KrpMode = "always"
  Files = {f1, f2}
  Rewrites <- MCNoRewrites
  Replace = FALSE
  IoErrors = FALSE
  Faults = {"transit", "out"}
  MaxInodes = 2
  MaxFaults = 2
  NoFile = NoFile
  NoData = NoData
  Partial = Partial
INVARIANT AtMostOnce
PROPERTY EveryFileIsTaken
PROPERTY ReportPrecedesFile
CHECK_DEADLOCK FALSE
