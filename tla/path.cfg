\* Paths over up to four embedded certificates; a validation runs once.
SPECIFICATION FairSpec
CONSTANTS
  Signers <- MCSigners
  Embedded <- MCEmbedded
  Anchors <- MCAnchors
  Times <- MCTimes
  MaxDepth = 4
  MaxRevoked = 2
INVARIANTS
  TrustedIsSound
  PathFoundIfUnambiguous
PROPERTY
  Terminates
CHECK_DEADLOCK FALSE
