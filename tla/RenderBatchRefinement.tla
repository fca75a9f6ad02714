----------------------- MODULE RenderBatchRefinement -----------------------
(***************************************************************************)
(* The batch as an implementation of ImmediateMode: what is pending is     *)
(* what rlDrawRenderBatch would now have OpenGL draw, read off the buffer  *)
(* with the offsets and index ranges of its loop.                          *)
(***************************************************************************)
EXTENDS RenderBatch, SequencesExt


(* Bug: the padding is not counted.                                        *)
VertexOffsetUnpadded(draws) ==
  LET offset[i \in 1..Len(draws)] ==
        IF i = 1 THEN 0 ELSE offset[i - 1] + draws[i - 1].vertexCount
  IN  offset

(* The loop of rlDrawRenderBatch: the vertexOffset of each draw call.      *)
VertexOffset(draws) ==
  LET offset[i \in 1..Len(draws)] ==
        IF i = 1 THEN 0
        ELSE offset[i - 1] + draws[i - 1].vertexCount + draws[i - 1].vertexAlignment
  IN  offset

(* The place of the first vertex of the k-th primitive of a draw call.     *)
(* glDrawElements draws quads by the index buffer, in which a quad begins  *)
(* at every multiple of 4; glDrawArrays starts at the offset itself.       *)
FirstVertex(d, offset, k) ==
  IF d.mode = RL_QUADS THEN 4 * (offset \div 4 + k - 1)
  ELSE offset + Corners(d.mode) * (k - 1)

Broken == [mode |-> 0, texture |-> 0, shader |-> 0, blend |-> DefaultBlend]

(* The primitive OpenGL assembles from first on, if these are the vertices *)
(* of one primitive of the caller.                                         *)
Assembled(g, d, first) ==
  LET v(c) == g.vertices[first + c]
  IN  IF /\ first + Corners(d.mode) <= Len(g.vertices)
         /\ \A c \in 1..Corners(d.mode) :
              v(c) = [mode |-> d.mode, corner |-> c]
      THEN [mode |-> d.mode, texture |-> d.textureId,
            shader |-> g.shader, blend |-> g.blend]
      ELSE Broken

(* The primitives of a draw call at an offset.                             *)
Primitives(g, d, offset) ==
  [k \in 1..(d.vertexCount \div Corners(d.mode)) |->
     Assembled(g, d, FirstVertex(d, offset, k))]

Drawn(g) ==
  LET offset == VertexOffset(g.draws)
  IN  FlattenSeq([i \in 1..Len(g.draws) |-> Primitives(g, g.draws[i], offset[i])])

Immediate == INSTANCE ImmediateMode WITH
  Modes <- PrimitiveModes,
  Quads <- RL_QUADS,
  BlendFunctions <- BlendFunction,
  pending <- Drawn(Given(batch)),
  issued  <- Drawn(issued),
  mode    <- IF open THEN CurrentDraw.mode ELSE 0,
  texture <- asked.texture,
  last    <- asked.last,
  blend   <- asked.blend

(* rlgl provides a batch "to behave like OpenGL 1.1 immediate mode": every *)
(* primitive of a disciplined caller that leaves the factors of the custom *)
(* mode alone is drawn once, in order, from its own vertices, in its mode, *)
(* with its texture, shader and blend function.                            *)
ImmediateSpec ==
  /\ Immediate!Init
  /\ [][Disciplined /\ ~ habit.newFactors => Immediate!Next]_(Immediate!vars)

(* vertexCounter is the "current active render batch vertex counter": the  *)
(* draw calls of the active batch account for it, padding included, so     *)
(* that the next vertex goes where rlDrawRenderBatch will look for it.     *)
OffsetsMatch ==
  VertexOffset(batch.draws)[drawCounter] + CurrentDraw.vertexCount = vertexCounter

=============================================================================
