SPECIFICATION Spec
CONSTANTS
  Contents = {"stub", "good"}
  TooBig <- MCTooBig
  Infected <- MCInfected
  YaraHit <- MCYaraHit
  Forbidden <- MCForbidden
  Suspicious <- MCSuspicious
  Listed <- MCListed
  TypeOff = FALSE
  UseAnalyze = TRUE
  UseVt = TRUE
  ErringChecks = {"is_type_allowed"}
  YaraClean = TRUE
  KrpMode = "pass_only"
  Files = {f1}
  Rewrites <- MCRewrites
  Replace = TRUE
  IoErrors = FALSE
  Faults = {"in", "transit", "out", "io"}
  MaxInodes = 2
  MaxFaults = 2
  NoFile = NoFile
  NoData = NoData
  Partial = Partial
INVARIANT TypeOK
INVARIANT ReleasedIsAcceptable
PROPERTY RefinesGate
CHECK_DEADLOCK FALSE
