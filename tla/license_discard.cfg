\* A license install outlives the poll deadline and is discarded as unwritten.
CONSTANTS
  ChangeSet = {c1}
  Principal = {ann, bob}
  Human = {ann, bob}
  Kinds <- LicenseOnly
  LabMode = FALSE
  Durable = TRUE
  MaxVersion = 1
  MaxRestarts = 0
  None = None
SPECIFICATION Spec
INVARIANT NothingWasWritten
CHECK_DEADLOCK FALSE
