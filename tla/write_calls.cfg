\* One change set of three kinds and one reader on one permit, and a restart.
CONSTANTS
  Call = {c1, r1}
  ChangeSet = {c1}
  Permits = 1
  MaxRetries = 1
  Principal = {ann, bob}
  Human = {bob}
  Kinds = {"firewall_write", "policy_deploy", "device_sync"}
  LabMode = FALSE
  Durable = TRUE
  MaxVersion = 1
  MaxRestarts = 1
  None = None
SPECIFICATION FairSpecAll
INVARIANT Lockstep
PROPERTIES ImplementsWrite EveryCommitSettles
CHECK_DEADLOCK FALSE
