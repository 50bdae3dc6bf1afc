SPECIFICATION FairSpec
CONSTANTS
  Keys = {"valid", "none", "malformed"}
  Ports = {p1}
  Nodes = {1}
  Host = 9
  Signature <- MCSignature
  disable_unsigned_usb = FALSE
  allow_user_usb_authorization = TRUE
  allow_user_file_write = FALSE
  NoKey = NoKey
  NoPort = NoPort
  NoEntry = NoEntry
  MaxPlugs = 2
  MaxOpens = 2
  MaxRemounts = 1
  MaxCrashes = 1
INVARIANT UsbTypeOK
INVARIANT QuietIsClean
INVARIANT QuietIsTracked
PROPERTY RefusedIsDisconnected
PROPERTY EveryOpenIsAnswered
CHECK_DEADLOCK FALSE
