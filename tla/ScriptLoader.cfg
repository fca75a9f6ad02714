CONSTANTS
  Names <- MCNames
  Values <- MCValues
  AttrClasses <- MCAttrClasses
  AttrName <- MCAttrName
  AttrBases <- MCAttrBases
  AttrHasField <- MCAttrHasField
  Tables <- MCTables
  MaxTypes = 3
SPECIFICATION FairSpec
INVARIANTS
  TypeOK
  ScriptsRunOnce
  ReturnMeansAllRan
  FinalizedIsFinished
  ImageNotOverReleased
  AttributesShownFirst
  ShownValuesAreOwn
  LeakedOnce
PROPERTIES
  OnlyAttributesAfterClose
  PassEnds
  ContractSpec
