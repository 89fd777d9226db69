\* Streams of quoted scalars.
SPECIFICATION TraceSpec
CONSTANTS
  MaxDepth = 8
  MaxAnchors = 4
  MaxAliasDepth = 4
  MaxCollectionSize = 8
  MaxComplexityScore = 80
  MaxTotalAliasNodes = 60
  Names = {"a", "b"}
  NoAnchor = NoAnchor
  Scalars = {"'true'"}
  Versions = {"1.2"}
  Constructors = {TRUE}
  MaxNodes = 14
  MaxDocuments = 2
  MaxFaults = 0
  Callers = {"load_all"}
  MaxCalls = 0
  BadScalars = {}
  Oversized = {"="}
  Families <- QuotedFamilies
INVARIANTS QuotedStaysText
