\* Small streams, merging streams, refused scalars and streams an error cuts;
\* no limit of BasicComposer within reach.
SPECIFICATION TraceSpec
CONSTANTS
  MaxDepth = 8
  MaxAnchors = 4
  MaxAliasDepth = 4
  MaxCollectionSize = 8
  MaxComplexityScore = 80
  MaxTotalAliasNodes = 60
  Names = {"a", "b"}
  NoAnchor = NoAnchor
  Scalars = {"s", "t", "yes", "<<", "="}
  Versions = {"1.1", "1.2"}
  Constructors = {TRUE}
  MaxNodes = 14
  MaxDocuments = 2
  MaxFaults = 1
  Callers = {"load", "load_all"}
  MaxCalls = 0
  BadScalars = {}
  Oversized = {"="}
  Families <- LoadedFamilies
INVARIANTS DocumentsDenoteEvents EveryDocumentOnce DocumentsCharged MeasuresAgree OptimizedAgrees BorrowedAgrees CommentedAgrees OthersWithinLimits
PROPERTIES Terminates
