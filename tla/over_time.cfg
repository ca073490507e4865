\* A signature of a certificate valid from 1 to 3, verified until 6.
SPECIFICATION Spec
CONSTANTS
  RequireRevocation = TRUE
  RequireNoModifications = TRUE
  EnforceCurrentTime = FALSE
  Grace = 1
  ValidFrom = 1
  ValidUntil = 3
  TsaUntil = 5
  StrictLookup = TRUE
  MaxTime = 6
INVARIANTS
  TypeOK
  PassedMeansValid
  LongTermValidity
  LateUseRefused
  PassedMeansAnswered
\* Time ends at MaxTime: a history in which nobody ever signed stops there.
CHECK_DEADLOCK FALSE
