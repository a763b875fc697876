\* A target of up to three parts, read three times while others edit it.
CONSTANTS
  MaxParts = 3
  Value = {v1, v2}
  MaxEdits = 3
  None = None
SPECIFICATION Spec
INVARIANTS OnlyTheWindowIsOpen LastingDriftStops RefusedOnlyIfMoved
CHECK_DEADLOCK FALSE
