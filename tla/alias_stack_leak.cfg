SPECIFICATION Spec
CONSTANTS
  MaxDepth = 2
  MaxAnchors = 2
  MaxAliasDepth = 2
  MaxCollectionSize = 4
  MaxComplexityScore = 12
  MaxTotalAliasNodes = 1
  Names = {"a"}
  NoAnchor = NoAnchor
  Scalars = {"s"}
  Versions = {"1.2"}
  Constructors = {TRUE}
  MaxNodes = 4
  MaxDocuments = 1
  MaxFaults = 0
  Callers = {"direct"}
  MaxCalls = 2
  BadScalars = {}
  Oversized = {}
INVARIANTS AliasesCleanedUp
