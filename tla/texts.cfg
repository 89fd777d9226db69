\* Every small text over four alphabets: block, flow, markers, comments.
CONSTANTS
  Slot = 4
  Texts <- AllTexts
SPECIFICATION EagerSpec
INVARIANTS TypeOK IndentsAccounted BracketsAccounted WordsInOrder AnchorsMeetNodes Balanced DocumentsFramed EagerDeliversOnce
