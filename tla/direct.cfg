SPECIFICATION DirectSpec
CONSTANTS
  MaxDepth = 1
  MaxAnchors = 1
  MaxAliasDepth = 1
  MaxCollectionSize = 2
  MaxComplexityScore = 4
  MaxTotalAliasNodes = 1
  Names = {"a"}
  NoAnchor = NoAnchor
  Scalars = {"s", "!!int x"}
  Versions = {"1.2"}
  Constructors = {TRUE, FALSE}
  MaxNodes = 4
  MaxDocuments = 2
  MaxFaults = 1
  Callers = {"direct"}
  MaxCalls = 3
  BadScalars = {"!!int x"}
  Oversized = {}
INVARIANTS TypeOK DepthAccounting TrackingClean AliasBudget
PROPERTIES CallsReturn
