\* Two documents, the first of nested collections.
CONSTANTS
  Slot = 4
  Texts <- TreeTexts
  Streams <- CutStreams
SPECIFICATION TreesSpec
INVARIANTS NothingInvented
