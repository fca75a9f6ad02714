CONSTANTS
  TypeNames <- MCTypeNames
  FieldLists <- MCFieldLists
  Directories <- MCDirectories
  StartDirs <- MCStartDirs
  Unit = 15625
  Fifths <- MCFifths
  Axes <- MCAxes
SPECIFICATION KindSpec
INVARIANTS
  TypeOK
  PublicAndPrivateTold
  TypesTold
  GameFilesFound
  EulerAgree
  AxisAgree
CHECK_DEADLOCK FALSE
