\* As over_time; only the times in the report are asked for.
SPECIFICATION Spec
CONSTANTS
  RequireRevocation = TRUE
  RequireNoModifications = TRUE
  EnforceCurrentTime = FALSE
  Grace = 1
  ValidFrom = 1
  ValidUntil = 3
  TsaUntil = 5
  StrictLookup = TRUE
  MaxTime = 6
INVARIANTS
  ProofsAreVerified
\* Time ends at MaxTime: a history in which nobody ever signed stops there.
CHECK_DEADLOCK FALSE
