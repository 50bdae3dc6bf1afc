SPECIFICATION Spec
CONSTANTS
  Contents = {"good"}
  TooBig <- MCTooBig
  Infected <- MCInfected
  YaraHit <- MCYaraHit
  Forbidden <- MCForbidden
  Suspicious <- MCSuspicious
  Listed <- MCListed
  TypeOff = FALSE
  UseAnalyze = TRUE
  UseVt = TRUE
  ErringChecks = {}
  YaraClean = TRUE
  KrpMode = "always"
  Files = {f1}
  Rewrites <- MCNoRewrites
  Replace = TRUE
  IoErrors = FALSE
  Faults = {}
  MaxInodes = 2
  MaxFaults = 0
  NoFile = NoFile
  NoData = NoData
  Partial = Partial
INVARIANT NoSilentLoss
CHECK_DEADLOCK FALSE
