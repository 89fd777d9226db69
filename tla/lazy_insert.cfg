\* Keys that become mappings behind their first event.
CONSTANTS
  Slot = 4
  Texts <- KeyTexts
SPECIFICATION FrontEndSpec
INVARIANTS DeliveredOnce
