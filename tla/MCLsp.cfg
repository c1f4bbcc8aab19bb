SPECIFICATION FairSpec
CONSTANTS
  Handlers = {h1, h2}
  Kinds = {"did_open", "did_change", "did_save", "request", "shutdown"}
  MaxRequests = 2
INVARIANTS NewestKept
PROPERTIES JobsInOrder TakenBeforeReturn ImplementsSlotSafety Delivered SendCompletes ImplementsSlot
CHECK_DEADLOCK FALSE
