\* One document of up to four levels of collections, two documents with all markers.
CONSTANTS
  Slot = 4
  Texts <- TreeTexts
  Streams <- SoundStreams
SPECIFICATION TreesSpec
INVARIANTS RoundTrip Grammatical
