SPECIFICATION Spec
CONSTANTS
  Keys = {"valid", "none"}
  Ports = {p1, p2}
  Nodes = {1, 2}
  Host = 9
  Signature <- MCSignature
  disable_unsigned_usb = FALSE
  allow_user_usb_authorization = FALSE
  allow_user_file_write = FALSE
  NoKey = NoKey
  NoPort = NoPort
  NoEntry = NoEntry
  MaxPlugs = 3
  MaxOpens = 0
  MaxRemounts = 1
  MaxCrashes = 1
INVARIANT QuietIsClean
INVARIANT QuietIsTracked
INVARIANT MountedIsMarked
CHECK_DEADLOCK FALSE
