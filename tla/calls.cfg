\* Every tool, every page and identifier outcome, every shape of answer with one field.
SPECIFICATION Spec
CONSTANT MaxFields = 1
INVARIANTS Confined RefusedLocally OutcomeIsReported
CHECK_DEADLOCK FALSE
