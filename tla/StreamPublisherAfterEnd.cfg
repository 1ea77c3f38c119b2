\* Expected violation: a call after the stream ended writes through the null
\* handle (endOfSubgroup) or reports the end to the publisher again (reset).
\* The application stops calling once its own call ended the stream.
CONSTANTS
  Modes = {"subgroup", "fetch"}
  ObjectIds = {0, 1, 2}
  Groups = {0, 1}
  Lengths = {0, 1, 2}
  WriteCanFail = TRUE
  MaxCalls = 4
  AppStopsAtEnd = TRUE
SPECIFICATION Spec
\* The call budget MaxCalls ends every behaviour; the writer has no
\* step of its own once the application stops calling it.
CHECK_DEADLOCK FALSE
INVARIANTS EndedStreamUntouched
