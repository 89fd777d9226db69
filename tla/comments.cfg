\* Comments at the margin of nested collections, and comments with a colon.
CONSTANTS
  Slot = 4
  Texts <- TreeTexts
  Streams <- Careless
SPECIFICATION TreesSpec
INVARIANTS CommentsIgnored
