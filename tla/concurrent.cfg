\* Two open requests: answers out of order, mixed up, late or missing, and
\* failures at every step. No operation starts at MaxRevisions, so that files
\* may grow no further.
SPECIFICATION Spec
CONSTANTS
  Catalog = 1
  PageIds <- MCPageIds
  Strict = FALSE
  InfoIds = {9}
  FontIds = {}
  ActionIds = {}
  Requests = {r1, r2}
  BaseDocs <- FewPlainDocs
  MaxRevisions = 3
  Appearances = {0}
  AskedPages = {1, 2}
  Kinds = {"approval"}
  Levels = {"BB", "BT", "BLT"}
  LastZero = {FALSE, TRUE}
  ForeignUpdates <- FewUpdates
  TrustedKinds = {"approval", "timestamp", "thirdParty"}
  RequireRevocation = TRUE
  RequireNoModifications = TRUE
  EnforceCurrentTime = FALSE
  Grace = 0
PROPERTIES
  OutputExtendsInput
  NewSignaturesVerify
  DeliveredLevelVerifies
  EarlierSignaturesStayValid
  ImplementsLedger
CHECK_DEADLOCK FALSE
