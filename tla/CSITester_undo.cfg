\* Only creations fail.
SPECIFICATION Spec
CONSTANTS
  Faults = {"createError"}
INVARIANT
  CreatedResourcesDeleted
CHECK_DEADLOCK FALSE
