SPECIFICATION FairSpec
CONSTANTS
  Handlers = {h1, h2}
  Kinds = {"did_save"}
  MaxRequests = 1
PROPERTIES WaitersWoken
CHECK_DEADLOCK FALSE
