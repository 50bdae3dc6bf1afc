SPECIFICATION Spec
CONSTANTS
  Contents = {"good", "infected"}
  TooBig <- MCTooBig
  Infected <- MCInfected
  YaraHit <- MCYaraHit
  Forbidden <- MCForbidden
  Suspicious <- MCSuspicious
  Listed <- MCListed
  TypeOff = FALSE
  UseAnalyze = TRUE
  UseVt = TRUE
  ErringChecks = {}
  YaraClean = TRUE
  KrpMode = "fail_only"
  Files = {f1}
  Rewrites <- MCNoRewrites
  Replace = FALSE
  IoErrors = FALSE
  Faults = {}
  MaxInodes = 2
  MaxFaults = 0
  NoFile = NoFile
  NoData = NoData
  Partial = Partial
INVARIANT RefusedHasNoFile
CHECK_DEADLOCK FALSE
