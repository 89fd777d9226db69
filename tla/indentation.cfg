\* A base indentation of four columns, not two.
CONSTANTS
  Slot = 4
  Texts = {}
  NeedsQuoting = {"yes"}
  Indents = {8}
  Styles = {8}
  SequenceIndents <- DefaultSequenceIndents
  Dumped <- Rows
  Annotated <- FewValues
  Pairs <- SoundPairs
  MaxEarlier = 0
  Room = 40
SPECIFICATION DumpSpec
INVARIANTS AnyIndentationLoads
