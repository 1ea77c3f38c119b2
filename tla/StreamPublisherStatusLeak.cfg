\* Expected violation: a NORMAL object written after a status object inherits its status.
CONSTANTS
  Modes = {"subgroup"}
  ObjectIds = {0, 1, 2}
  Groups = {0, 1}
  Lengths = {0, 1, 2}
  WriteCanFail = TRUE
  MaxCalls = 4
  AppStopsAtEnd = TRUE
SPECIFICATION Spec
\* The call budget MaxCalls ends every behaviour; the writer has no
\* step of its own once the application stops calling it.
CHECK_DEADLOCK FALSE
INVARIANTS WireStatusAsPublished
