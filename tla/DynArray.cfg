CONSTANTS
  IntArrays = {"i", "j", "k"}
  PtrArrays = {"p", "q"}
  Items = {"x", "y"}
  MaxSize = 3
  MaxBlocks = 3
  IntBlocks = 2
  Singleton = TRUE
  Careless = {}
SPECIFICATION KindSpec
INVARIANTS
  TypeOK
  BuffersOwned
  AsPromised
