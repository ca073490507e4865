\* One request at a time and the edits of other programs, over files of every
\* structure. The chain of a certifying signer is not trusted, every other one
\* is. No operation starts at MaxRevisions, so that files may grow no further.
SPECIFICATION Spec
CONSTANTS
  Catalog = 1
  PageIds <- MCPageIds
  Strict = FALSE
  InfoIds = {9}
  FontIds = {}
  ActionIds = {}
  Requests = {r1}
  BaseDocs <- AllDocs
  MaxRevisions = 4
  Appearances = {1}
  AskedPages = {0, 1}
  Kinds = {"approval", "certify"}
  Levels = {"BB"}
  LastZero = {FALSE}
  ForeignUpdates <- EditorUpdates
  TrustedKinds = {"approval", "timestamp", "thirdParty"}
  RequireRevocation = TRUE
  RequireNoModifications = TRUE
  EnforceCurrentTime = FALSE
  Grace = 0
INVARIANTS
  OverwritesOnlyHooks
  SignaturesStayListed
  AlterationsShow
  OnlyAlterationsShow
  BlamedForAlterations
  NotShielded
  InspectionAgrees
PROPERTIES
  CoverageNeverRegained
CHECK_DEADLOCK FALSE
