CONSTANTS
  Threads = {1, 2}
  Items = {"method"}
  Classes = {"base", "derived"}
  MaxDepth = 2
  MaxObjects = 2
SPECIFICATION FairSpec
INVARIANTS
  TypeOK
  SameObject
PROPERTIES
  StoreSpec
  CallsReturn
