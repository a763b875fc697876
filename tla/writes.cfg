\* Two object writes of one tenant, in lab mode, with out-of-band drift and a restart.
CONSTANTS
  ChangeSet = {c1, c2}
  Principal = {ann, bob, bot}
  Human = {ann, bob}
  Kinds <- ObjectKinds
  LabMode = TRUE
  Durable = TRUE
  MaxVersion = 1
  MaxRestarts = 1
  None = None
SPECIFICATION Spec
SYMMETRY Interchangeable
INVARIANTS TwoPersonRule UnsettledWriteBlocks ReleaseIsTruthful
  AtMostOneRequest TransientIsOwned IndInv
PROPERTIES IndeterminateSticks KeepsPromise
CHECK_DEADLOCK FALSE
