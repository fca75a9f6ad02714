CONSTANTS
  TypeNames <- MCTypeNames
  FieldLists <- MCFieldLists
SPECIFICATION Spec
INVARIANT AccessTold
