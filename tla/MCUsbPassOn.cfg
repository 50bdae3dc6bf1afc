SPECIFICATION Spec
CONSTANTS
  Keys = {"none", "other"}
  Ports = {p1, p2}
  Nodes = {1, 2}
  Host = 9
  Signature <- MCSignature
  disable_unsigned_usb = FALSE
  allow_user_usb_authorization = TRUE
  allow_user_file_write = FALSE
  NoKey = NoKey
  NoPort = NoPort
  NoEntry = NoEntry
  MaxPlugs = 2
  MaxOpens = 0
  MaxRemounts = 0
  MaxCrashes = 0
INVARIANT QuietIsClean
CHECK_DEADLOCK FALSE
