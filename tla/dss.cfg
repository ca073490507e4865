\* Two collections over chains that share a CA, in any order of answers,
\* failures, timeouts and CA updates, and two DSSs built in between. The bounds
\* end every behaviour.
SPECIFICATION Spec
CONSTANTS
  Certificates <- MCCertificates
  Chains <- MCChains
  Signatures = {s1}
  MaxNumber = 1
  MaxCalls = 2
  MaxBuilds = 2
INVARIANTS
  GapsOnlyWhereBothFailed
  DssReadsBack
CHECK_DEADLOCK FALSE
