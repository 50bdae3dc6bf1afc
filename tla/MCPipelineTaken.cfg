SPECIFICATION FairSpec
CONSTANTS
  Contents = {"good"}
  TooBig <- MCTooBig
  Infected <- MCInfected
  YaraHit <- MCYaraHit
  Forbidden <- MCForbidden
  Suspicious <- MCSuspicious
  Listed <- MCListed
  TypeOff = FALSE
  UseAnalyze = TRUE
  UseVt = TRUE
  ErringChecks = {}
  YaraClean = TRUE
  KrpMode = "never"
  Files = {f1}
  Rewrites <- MCNoRewrites
  Replace = FALSE
  IoErrors = TRUE
  Faults = {"in"}
  MaxInodes = 2
  MaxFaults = 2
  NoFile = NoFile
  NoData = NoData
  Partial = Partial
INVARIANT NoSilentLoss
PROPERTY TakenIsJudged
CHECK_DEADLOCK FALSE
