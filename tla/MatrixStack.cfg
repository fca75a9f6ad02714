CONSTANTS
  Factors = {"translation", "scale"}
  MaxFactors = 2
  MaxStack = 3
  EndLimit = 2
  Careless = {}
SPECIFICATION Spec
INVARIANTS
  TypeOK
  MatricesAsOpenGL
  DrawnAsSubmitted
