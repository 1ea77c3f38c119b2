\* The subgroup-stream and fetch-stream writers under every sequence of up
\* to 4 application calls, with write errors and a peer STOP_SENDING at
\* any point.
CONSTANTS
  Modes = {"subgroup", "fetch"}
  ObjectIds = {0, 1, 2}
  Groups = {0, 1}
  Lengths = {0, 1, 2}
  WriteCanFail = TRUE
  MaxCalls = 4
  AppStopsAtEnd = FALSE
SPECIFICATION Spec
\* The call budget MaxCalls ends every behaviour; the writer has no
\* step of its own once the application stops calling it.
CHECK_DEADLOCK FALSE
INVARIANTS TypeOK WireObjectIdsIncrease ObjectLengthAccounting StreamReleasedOnEnd FetchWireStatusAsPublished
PROPERTY NoDataAfterStreamEnd
