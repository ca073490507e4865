\* Every kind of signer, two documents; the runs end when the CMS is verified.
SPECIFICATION Spec
CONSTANTS
  Signers <- MCSigners
  Documents <- MCDocuments
  Times = {0, 1}
INVARIANTS
  VerifiedMeansSigned
  OwnSignatureVerifies
  RemoteEqualsLocal
CHECK_DEADLOCK FALSE
