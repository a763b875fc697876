\* Every kind of mutation, one change set, SDC as slow as it likes.
CONSTANTS
  ChangeSet = {c1}
  Principal = {ann, bob}
  Human = {ann, bob}
  Kinds <- AllKinds
  LabMode = FALSE
  Durable = TRUE
  MaxVersion = 1
  MaxRestarts = 1
  None = None
SPECIFICATION FairSpec
INVARIANTS CommittedMeansLanded NoOtherGap
PROPERTY TransientSettles
CHECK_DEADLOCK FALSE
