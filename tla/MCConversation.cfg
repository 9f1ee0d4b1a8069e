SPECIFICATION ConversationSpec
CONSTANTS
  MaxMessage = 3
  Loaded = 1
  MaxEdited = 2
  MaxFeed = 1
  Editors = {e1, e2}
  PageLimit = 1
  MaxPages = 2
  MaxConns = 1
  None = None
SYMMETRY EditorSymmetry
INVARIANTS ConversationTypeOK DeletedNotServed CatchUpComplete ShownWasCommitted QuietViewIsCurrent
CHECK_DEADLOCK FALSE
