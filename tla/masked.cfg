\* One request on a signed file: safe update, alteration, another signature.
SPECIFICATION Spec
CONSTANTS
  Catalog = 1
  PageIds <- MCPageIds
  Strict = FALSE
  InfoIds = {9}
  FontIds = {}
  ActionIds = {}
  Requests = {r1}
  BaseDocs <- SignedDocs
  MaxRevisions = 5
  Appearances = {0}
  AskedPages = {0}
  Kinds = {"approval"}
  Levels = {"BB"}
  LastZero = {FALSE}
  ForeignUpdates <- FewUpdates
  TrustedKinds = {"approval", "timestamp", "thirdParty"}
  RequireRevocation = TRUE
  RequireNoModifications = TRUE
  EnforceCurrentTime = FALSE
  Grace = 0
INVARIANT
  PassedMeansUnmodified
CHECK_DEADLOCK FALSE
