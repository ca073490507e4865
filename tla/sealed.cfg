\* Two signatures at most are sealed once or twice in files of up to four
\* revisions; the chain of one issuer expires first, then the sealers' and TSA's.
SPECIFICATION Spec
CONSTANTS
  KeyOf <- MCKeyOf
  IssuedByCa = {"leaf"}
  ChainUntil = 0
  Signatories = {"alice", "bob"}
  Issuers <- MCIssuers
  Sealers <- MCSealers
  Trusted <- MCTrusted
  TsaDigests = {"SHA256", "SHA384"}
  SealUntil = 1
  Validities = {0, 1}
  MaxRevisions = 4
  MaxIssued = 1
  MaxTime = 2
INVARIANTS
  SvtSpeaksForThisSignature
  AgedSignatureStaysValid
  TimestampVouches
  SealVerifies
\* Bounded histories end at MaxTime and MaxRevisions.
CHECK_DEADLOCK FALSE
