\* Firewall policy writes, deploys of that policy and license writes of one tenant,
\* without a state file: a restart forgets every change set and operation.
CONSTANTS
  ChangeSet = {c1, c2}
  Principal = {ann, bob}
  Human = {ann}
  Kinds <- TenantKinds
  LabMode = FALSE
  Durable = FALSE
  MaxVersion = 1
  MaxRestarts = 1
  None = None
SPECIFICATION Spec
SYMMETRY Interchangeable
INVARIANTS ExclusiveWriter NoLostUpdate
PROPERTY KeepsPromise
CHECK_DEADLOCK FALSE
