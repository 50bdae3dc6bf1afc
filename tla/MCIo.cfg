SPECIFICATION Spec
CONSTANTS
  Clients = {c1, c2}
  Keys = {"u", "s", "v"}
  Nodes = {"sda", "sdb"}
  Signed = {"s"}
  Partitioned = {"u", "s"}
  Product <- MCProduct
  Files = {"f", "g", "h", "i"}
  Holds <- MCHolds
  Names = {"f", "g", "h", "i"}
  NameOf <- MCNameOf
  OutNames = {"o", "p"}
  OutNameOf <- MCOutNameOf
  Waiting = {"p"}
  Yubikey = TRUE
  NoKey = NoKey
  Gone = Gone
  Absent = Absent
  NoName = NoName
  NoNode = NoNode
  MaxUses = 3
  MaxMishaps = 1
INVARIANT IoTypeOK
INVARIANT WholeUnlessShared
INVARIANT LossIsTraced
INVARIANT SidesAreKept
INVARIANT SentIsOnKey
INVARIANT MarksHaveOwners
PROPERTY KeyIsCopied
CHECK_DEADLOCK FALSE
