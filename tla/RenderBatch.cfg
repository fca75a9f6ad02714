CONSTANTS
  ElementCount = 4
  DrawCalls = 4
  Textures = {1, 2}
  DefaultTexture = 1
  Shaders = {1, 2}
  Blends = {"alpha", "custom"}
  Factors = {1}
  Habits <- MCHabits
SPECIFICATION Spec
INVARIANTS
  TypeOK
  RoomKept
  TextureKept
  OffsetsMatch
PROPERTY ImmediateSpec
