\* The signers that SoftwareSigner makes of a PKCS#12 file.
SPECIFICATION Spec
CONSTANTS
  Signers <- DefaultSigners
  Documents <- MCDocuments
  Times = {0, 1}
INVARIANT
  SoftwareSignatureVerifies
CHECK_DEADLOCK FALSE
