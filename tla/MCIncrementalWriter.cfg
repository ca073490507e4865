\* A job ends in "done" or "error", a check in its verdict.
SPECIFICATION SystemSpec
CONSTANTS
  Jobs <- MCJobs
  CmsLengths <- MCCmsLengths
  IntWidth = 2
  Files <- MCFiles
  Ranges <- MCRanges
  Parsed <- MCParsed
INVARIANTS
  TypeOK
  RangesExcludeOnlyContents
  SignedBytesUnchanged
  XrefFindsEveryObject
  ContentsHoldTheSignature
  RefusedIffTooWide
  OwnOutputPasses
  PassedLeavesOutOnlyContents
PROPERTY
  OriginalUntouched
CHECK_DEADLOCK FALSE
