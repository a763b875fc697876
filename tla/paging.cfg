\* Archives of up to four of five versions, three changes, a page budget of three bytes.
SPECIFICATION FairSpec
CONSTANTS
  v1 = v1
  v2 = v2
  v3 = v3
  v4 = v4
  v5 = v5
  Version = {v1, v2, v3, v4, v5}
  Weight <- MCWeight
  Narrow <- MCNarrow
  Budget = 3
  Limit = 8
  MaxLength = 4
  MaxChanges = 3
INVARIANT ShiftIsBounded
PROPERTY WalkEnds
CHECK_DEADLOCK FALSE
