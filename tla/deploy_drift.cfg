\* The policy of a deploy moves after its preview.
CONSTANTS
  ChangeSet = {c1}
  Principal = {ann, bob}
  Human = {ann, bob}
  Kinds <- DeployOnly
  LabMode = FALSE
  Durable = TRUE
  MaxVersion = 1
  MaxRestarts = 0
  None = None
SPECIFICATION Spec
PROPERTY DriftIsDetected
CHECK_DEADLOCK FALSE
