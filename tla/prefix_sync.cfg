SPECIFICATION FairSpecSync
CONSTANTS
  Prefixes = {"p", "q", "r"}
  ReadOnly = {"q"}
  WritableOnly = FALSE
  AllowedList = {}
  DeniedList = {"r"}
  Local = {"p"}
  MaxChanges = 3
  MaxRestarts = 1
  MaxStops = 1
  Faults = {"failed", "noreply"}
INVARIANTS
  KnownIsOpen
PROPERTIES
  DetachedWasClosed
  GetsOpened
  GetsDetached
CHECK_DEADLOCK FALSE
