---------------------------- MODULE RenderBatch ----------------------------
(***************************************************************************)
(* The render batch of rlgl.h, OpenGL 3.3: vertices are collected in a     *)
(* buffer with a list of draw calls over it, and rlDrawRenderBatch issues  *)
(* them when the buffer or the list is full, a state changes, or on        *)
(* request.  One step is one call of the API.                              *)
(*                                                                         *)
(* batch.vertices is what the buffer holds below vertexCounter, batch.draws*)
(* the draw calls below drawCounter; those above it are as rlDrawRender-   *)
(* Batch left them, and their vertexAlignment is assigned before any use.  *)
(* A vertex is what its caller meant by it: the mode and its place in its  *)
(* primitive.                                                              *)
(*                                                                         *)
(* The caller draws as the rest of the API does: it sets textures and      *)
(* states between rlEnd and rlBegin, and submits whole primitives, at most *)
(* room vertices of them: the 4 every rlEnd leaves free, or what it had    *)
(* rlCheckRenderBatchLimit make room for.  Its habit is which modes it     *)
(* draws in, which room it reserves and whether it sets the blend factors  *)
(* anew while the custom blend mode is set.                                *)
(***************************************************************************)
EXTENDS Integers, Sequences

CONSTANTS
  ElementCount,  \* elementCount of the vertex buffer, in quads
  DrawCalls,     \* RL_DEFAULT_BATCH_DRAWCALLS
  Textures,      \* texture ids, the default texture among them
  DefaultTexture,
  Shaders,       \* shader program ids
  Blends,        \* blend modes, "alpha" among them
  Factors,       \* arguments of rlSetBlendFactors
  Habits         \* habits of the callers considered

RL_LINES     == 1
RL_TRIANGLES == 4
RL_QUADS     == 7
PrimitiveModes == {RL_LINES, RL_TRIANGLES, RL_QUADS}

Capacity == 4 * ElementCount

ASSUME BatchAssumption ==
  /\ ElementCount \in Nat \ {0}
  /\ DrawCalls \in Nat /\ DrawCalls > 1
  /\ Habits \subseteq [modes : SUBSET PrimitiveModes,
                       reservations : SUBSET (1..Capacity),
                       newFactors : BOOLEAN]
  /\ Textures \subseteq Nat \ {0} /\ DefaultTexture \in Textures
  /\ "alpha" \in Blends

VARIABLES
  batch,     \* draws and vertices of RLGL.currentBatch
  issued,    \* what the last call gave to OpenGL
  shader,    \* currentShaderId
  blendMode, \* currentBlendMode
  factors,   \* the factors of rlSetBlendFactors, 0 at first
  glBlend,   \* the blend function OpenGL has
  habit,     \* the habit of the caller
  open,      \* the caller is between rlBegin and rlEnd
  corner,    \* vertices of the primitive it is submitting
  room,      \* vertices it may submit before rlEnd
  asked      \* the texture it asked for, 0 if none since the last rlEnd or
             \* draw ("Update->Draw->Reset"), the last one it ever asked for,
             \* and the blend function

renderer == <<shader, blendMode, factors, glBlend>>
caller   == <<habit, open, corner, room, asked>>
vars == <<batch, issued, renderer, caller>>

Modes        == habit.modes         \* arguments of its rlBegin
Reservations == habit.reservations  \* and of its rlCheckRenderBatchLimit

(* The vertices of a primitive.                                            *)
Corners(mode) == CASE mode = RL_LINES     -> 2
                   [] mode = RL_TRIANGLES -> 3
                   [] OTHER               -> 4

NewDraw == [mode |-> RL_QUADS, vertexCount |-> 0, vertexAlignment |-> 0,
            textureId |-> DefaultTexture]

(* What rlDrawRenderBatch leaves.                                          *)
NewBatch == [draws |-> <<NewDraw>>, vertices |-> <<>>]

vertexCounter == Len(batch.vertices)
drawCounter   == Len(batch.draws)
Slot(b)       == b.draws[Len(b.draws)]
CurrentDraw   == Slot(batch)
SetSlot(b, d) == [b EXCEPT !.draws[Len(b.draws)] = d]

Padding(n) == [i \in 1..n |-> [mode |-> 0, corner |-> 0]]

Overflows(b, n) == Len(b.vertices) + n >= Capacity

(* Bug: the texture is not restored.                                       *)
RestoredMode(b) == SetSlot(NewBatch, [NewDraw EXCEPT !.mode = Slot(b).mode])

(* rlCheckRenderBatchLimit draws a batch without room and restores the     *)
(* mode and the texture of its last draw call.                             *)
Restored(b) ==
  SetSlot(NewBatch, [NewDraw EXCEPT !.mode = Slot(b).mode,
                                    !.textureId = Slot(b).textureId])

(* Bug: room is made only when there is none.                              *)
CheckLimitWhenFull(b, n) == IF Overflows(b, 0) THEN Restored(b) ELSE b

CheckLimit(b, n) == IF Overflows(b, n) THEN Restored(b) ELSE b

(* Bug: triangles are padded like lines.                                   *)
AlignmentAsLines(d) ==
  IF d.mode = RL_QUADS THEN 0
  ELSE IF d.vertexCount < 4 THEN d.vertexCount ELSE d.vertexCount % 4

(* The padding that keeps the next draw call at a multiple of 4, where the *)
(* index buffer has the corners of a quad.                                 *)
Alignment(d) ==
  CASE d.mode = RL_LINES     -> IF d.vertexCount < 4 THEN d.vertexCount
                                ELSE d.vertexCount % 4
    [] d.mode = RL_TRIANGLES -> IF d.vertexCount < 4 THEN 1
                                ELSE 4 - (d.vertexCount % 4)
    [] OTHER                 -> 0

(* rlBegin and rlSetTexture leave a draw call that has vertices and take   *)
(* the next one; a full buffer or a full list is drawn first.              *)
CloseDraw(b) ==
  LET d == Slot(b)
      a == Alignment(d)
  IN  IF d.vertexCount = 0 THEN b
      ELSE IF Overflows(b, a) THEN Restored(b)
      ELSE [draws |-> Append(SetSlot(b, [d EXCEPT !.vertexAlignment = a]).draws,
                             NewDraw),
            vertices |-> b.vertices \o Padding(a)]

(* Bug: only a full buffer is drawn, never a full list.                    *)
NextDrawUnbounded(b) == CloseDraw(b)

NextDraw(b) ==
  LET c == CloseDraw(b)
  IN  IF Len(c.draws) >= DrawCalls THEN NewBatch ELSE c

DefaultBlend == <<"alpha", 0>>

(* rlDrawRenderBatch gives OpenGL the vertices and draw calls there are,   *)
(* under the shader and blend function of the moment.                      *)
Given(b)  == [draws |-> b.draws, vertices |-> b.vertices,
              shader |-> shader, blend |-> glBlend]
Nothing   == [draws |-> <<>>, vertices |-> <<>>, shader |-> 0, blend |-> DefaultBlend]
Issue     == issued' = IF vertexCounter > 0 THEN Given(batch) ELSE Nothing
BatchIs(b) ==
  /\ batch' = b
  /\ IF Len(b.vertices) < vertexCounter THEN Issue ELSE issued' = Nothing
Draw == batch' = NewBatch /\ Issue

-----------------------------------------------------------------------------

(* rlglInit                                                                *)
Init ==
  /\ batch = NewBatch
  /\ issued = Nothing
  /\ shader \in Shaders
  /\ blendMode = "alpha"
  /\ factors = 0
  /\ glBlend = DefaultBlend
  /\ habit \in Habits
  /\ open = FALSE
  /\ corner = 0
  /\ room = 4
  /\ asked = [texture |-> 0, last |-> DefaultTexture, blend |-> DefaultBlend]

rlBegin(m) ==
  /\ ~open
  /\ open' = TRUE
  /\ BatchIs(IF CurrentDraw.mode = m THEN batch
             ELSE SetSlot(NextDraw(batch), [NewDraw EXCEPT !.mode = m]))
  /\ UNCHANGED <<renderer, habit, corner, room, asked>>

(* The caller submits a vertex of its primitive, and begins one only when  *)
(* it has room for all of it.                                              *)
Submit(mode) ==
  /\ open
  /\ room >= Corners(mode) - corner
  /\ corner' = (corner + 1) % Corners(mode)
  /\ room' = room - 1
  /\ UNCHANGED <<renderer, habit, open, asked>>

rlVertex3f ==
  LET d == CurrentDraw
  IN  /\ Submit(d.mode)
      /\ vertexCounter < Capacity
      /\ BatchIs([SetSlot(batch, [d EXCEPT !.vertexCount = @ + 1])
                  EXCEPT !.vertices =
                    Append(@, [mode |-> d.mode, corner |-> corner + 1])])

(* rlVertex3f with a full buffer only logs.                                *)
LostVertex ==
  /\ Submit(CurrentDraw.mode)
  /\ vertexCounter >= Capacity
  /\ BatchIs(batch)

(* rlEnd leaves room for a primitive.                                      *)
rlEnd ==
  /\ open
  /\ corner = 0 /\ CurrentDraw.vertexCount > 0
  /\ open' = FALSE
  /\ room' = 4
  /\ asked' = [asked EXCEPT !.texture = 0]
  /\ IF vertexCounter >= Capacity - 4 THEN Draw ELSE BatchIs(batch)
  /\ UNCHANGED <<renderer, habit, corner>>

rlSetTexture(t) ==
  /\ ~open
  /\ asked' = [asked EXCEPT !.texture = t, !.last = t]
  /\ IF CurrentDraw.textureId = t THEN BatchIs(batch)
     ELSE LET b == NextDraw(batch)
          IN  BatchIs(SetSlot(b, [Slot(b) EXCEPT !.textureId = t,
                                                 !.vertexCount = 0]))
  /\ UNCHANGED <<renderer, habit, open, corner, room>>

(* rlSetTexture(0) leaves the texture of the draw call as it is.           *)
UnsetTexture ==
  /\ ~open
  /\ asked' = [asked EXCEPT !.texture = 0]
  /\ IF vertexCounter >= Capacity THEN Draw ELSE BatchIs(batch)
  /\ UNCHANGED <<renderer, habit, open, corner, room>>

rlCheckRenderBatchLimit(n) ==
  /\ ~open
  /\ room' = n
  /\ BatchIs(CheckLimit(batch, n))
  /\ UNCHANGED <<renderer, habit, open, corner, asked>>

(* rlDrawRenderBatchActive; rlSetRenderBatchActive does the same, and the  *)
(* batch it makes active is as new.                                        *)
rlDrawRenderBatchActive ==
  /\ ~open
  /\ asked' = [asked EXCEPT !.texture = 0]
  /\ Draw
  /\ UNCHANGED <<renderer, habit, open, corner, room>>

rlSetShader(s) ==
  /\ ~open
  /\ shader' = s
  /\ asked' = [asked EXCEPT !.texture = 0]
  /\ IF shader # s THEN Draw ELSE BatchIs(batch)
  /\ UNCHANGED <<blendMode, factors, glBlend, habit, open, corner, room>>

(* The blend function of a mode; RL_BLEND_CUSTOM takes the factors.        *)
Function(m) == <<m, IF m = "custom" THEN factors ELSE 0>>

rlSetBlendMode(m) ==
  /\ ~open
  /\ asked' = [asked EXCEPT !.texture = 0, !.blend = Function(m)]
  /\ IF blendMode # m
     THEN /\ Draw
          /\ blendMode' = m
          /\ glBlend' = Function(m)
     ELSE BatchIs(batch) /\ UNCHANGED <<blendMode, glBlend>>
  /\ UNCHANGED <<shader, factors, habit, open, corner, room>>

(* The factors take effect when the mode is set to custom, not while it is.*)
rlSetBlendFactors(f) ==
  /\ ~open
  /\ blendMode = "custom" => habit.newFactors
  /\ factors' = f
  /\ BatchIs(batch)
  /\ UNCHANGED <<shader, blendMode, glBlend, caller>>

Next ==
  \/ \E m \in Modes : rlBegin(m)
  \/ rlVertex3f \/ LostVertex \/ rlEnd
  \/ \E t \in Textures : rlSetTexture(t)
  \/ UnsetTexture
  \/ \E n \in Reservations : rlCheckRenderBatchLimit(n)
  \/ rlDrawRenderBatchActive
  \/ \E s \in Shaders : rlSetShader(s)
  \/ \E m \in Blends : rlSetBlendMode(m)
  \/ \E f \in Factors : rlSetBlendFactors(f)

Spec == Init /\ [][Next]_vars

-----------------------------------------------------------------------------

DrawCall == [mode : PrimitiveModes, vertexCount : 0..Capacity,
             vertexAlignment : 0..4, textureId : Textures]
Vertex == [mode : {0} \cup PrimitiveModes, corner : 0..4]
Batches == [draws : Seq(DrawCall), vertices : Seq(Vertex)]
BlendFunction == Blends \X ({0} \cup Factors)

TypeOK ==
  /\ batch \in Batches
  /\ vertexCounter <= Capacity
  /\ drawCounter \in 1..(DrawCalls - 1)
  /\ shader \in Shaders
  /\ blendMode \in Blends
  /\ factors \in {0} \cup Factors
  /\ glBlend \in BlendFunction
  /\ habit \in Habits
  /\ open \in BOOLEAN
  /\ corner \in 0..3
  /\ room \in 0..Capacity
  /\ asked \in [texture : {0} \cup Textures, last : Textures,
                blend : BlendFunction]

(* A caller that relies on what rlEnd leaves free, or reserves and draws   *)
(* quads.  Lines and triangles after a reservation do not keep it: their   *)
(* padding is put where room was made.                                     *)
Disciplined == Reservations = {} \/ Modes \subseteq {RL_QUADS}

(* The room such a caller may count on is there: after rlBegin, whatever   *)
(* padding it needed, the buffer takes the vertices of a primitive that    *)
(* rlEnd leaves room for ("This check is combined with usage of            *)
(* rlCheckRenderBatchLimit()") or the reservation made, and none is        *)
(* dropped.                                                                *)
RoomKept == Disciplined /\ open => vertexCounter + room <= Capacity

(* A quad is drawn with the texture its caller set since the last rlEnd,   *)
(* whatever draw calls were closed, and batches drawn, in between.         *)
TextureKept ==
  Disciplined /\ open /\ CurrentDraw.mode = RL_QUADS /\ asked.texture # 0 =>
    CurrentDraw.textureId = asked.texture

(* "Using GL blend src/dst factors and GL equation configured with         *)
(* rlSetBlendFactors()" says rlSetBlendMode of the custom mode: OpenGL has *)
(* the blend function, with its factors, that the caller asked for last.   *)
BlendAsAsked == glBlend = asked.blend

=============================================================================
