CONSTANTS
  Names <- MCNames
  Values <- MCValues
  AttrClasses <- MCAttrClasses
  AttrName <- MCAttrName
  AttrBases <- MCAttrBases
  AttrHasField <- MCAttrHasField
  Tables <- MCTables
  MaxTypes = 2
SPECIFICATION HostSpec
INVARIANTS
  LoaderStart
  LoadedBeforeScripts
