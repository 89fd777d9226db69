\* Values of up to three levels, with the default indentation.
CONSTANTS
  Slot = 4
  Texts = {}
  NeedsQuoting = {"yes"}
  Indents = {4}
  Styles = {4, 8}
  SequenceIndents <- DefaultSequenceIndents
  Dumped <- AllValues
  Annotated <- FewValues
  Pairs <- SoundPairs
  MaxEarlier = 1
  Room = 40
SPECIFICATION DumpSpec
INVARIANTS DumpLoads SharedWrittenOnce
