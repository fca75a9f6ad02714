CONSTANTS
  ElementCount = 4
  DrawCalls = 4
  Textures = {1, 2}
  DefaultTexture = 1
  Shaders = {1, 2}
  Blends = {"alpha", "custom"}
  Factors = {1, 2}
  Habits <- RestlessHabits
SPECIFICATION Spec
INVARIANT BlendAsAsked
