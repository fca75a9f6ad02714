------------------------- MODULE RenderBatchProofs -------------------------
(***************************************************************************)
(* The render batch with a buffer and a list of draw calls of any size.    *)
(*                                                                         *)
(* First its types, the room its callers count on, and the textures of     *)
(* quads.  Then that the batch implements ImmediateMode: what is pending   *)
(* is drawn as it was asked for, and a full buffer draws it in between     *)
(* without a trace.  What has been issued and what is pending are lists of *)
(* draw calls over one buffer.  The lemmas say how a change of the last    *)
(* draw call and of the end of the buffer change the primitives that are   *)
(* drawn; the steps of the batch are such changes, or draw everything.     *)
(***************************************************************************)
EXTENDS RenderBatchRefinement, SequenceTheorems, WellFoundedInduction, TLAPS

(* What the caller asked for.                                              *)
AskedType == [texture : {0} \cup Textures, last : Textures, blend : BlendFunction]

(* Replacing the draw call in use.                                         *)
LEMMA SetSlotFacts ==
  ASSUME NEW b \in Batches, Len(b.draws) > 0, NEW d \in DrawCall
  PROVE  /\ SetSlot(b, d) \in Batches
         /\ Len(SetSlot(b, d).draws) = Len(b.draws)
         /\ Slot(SetSlot(b, d)) = d
         /\ SetSlot(b, d).vertices = b.vertices
         /\ Slot(b) \in DrawCall
<1> DEFINE n == Len(b.draws)
<1>1. /\ b.draws \in Seq(DrawCall) /\ n \in Nat \ {0} /\ n \in 1..n
      /\ b.vertices \in Seq(Vertex)
  BY DEF Batches
<1>2. SetSlot(b, d) = [draws |-> [b.draws EXCEPT ![n] = d], vertices |-> b.vertices]
  BY DEF SetSlot, Batches
<1>3. /\ [b.draws EXCEPT ![n] = d] \in Seq(DrawCall)
      /\ Len([b.draws EXCEPT ![n] = d]) = n
      /\ [b.draws EXCEPT ![n] = d][n] = d
  BY <1>1, ExceptSeq
<1> QED
  BY <1>1, <1>2, <1>3 DEF Slot, Batches

(* What rlDrawRenderBatch leaves, and the flush of rlCheckRenderBatchLimit.*)
LEMMA NewBatchFacts ==
  /\ NewDraw \in DrawCall
  /\ NewBatch \in Batches
  /\ Len(NewBatch.draws) = 1 /\ Len(NewBatch.vertices) = 0
  /\ Slot(NewBatch) = NewDraw
<1>1. Capacity \in Nat
  BY BatchAssumption DEF Capacity
<1>2. NewDraw \in DrawCall
  BY <1>1, BatchAssumption DEF NewDraw, DrawCall, PrimitiveModes
<1> QED
  BY <1>2 DEF NewBatch, Batches, Slot

LEMMA RestoredFacts ==
  ASSUME NEW b \in Batches, Len(b.draws) > 0
  PROVE  /\ Restored(b) \in Batches
         /\ Len(Restored(b).draws) = 1 /\ Len(Restored(b).vertices) = 0
         /\ Slot(Restored(b)).vertexCount = 0
         /\ Slot(Restored(b)).mode = Slot(b).mode
         /\ Slot(Restored(b)).textureId = Slot(b).textureId
<1> DEFINE d == [NewDraw EXCEPT !.mode = Slot(b).mode, !.textureId = Slot(b).textureId]
<1>1. Slot(b) \in DrawCall
  BY SetSlotFacts, NewBatchFacts
<1>2. /\ d \in DrawCall
      /\ d.mode = Slot(b).mode /\ d.textureId = Slot(b).textureId
      /\ d.vertexCount = 0
  BY <1>1, NewBatchFacts DEF NewDraw, DrawCall
<1>3. Restored(b) = SetSlot(NewBatch, d)
  BY DEF Restored
<1> HIDE DEF d
<1>4. /\ SetSlot(NewBatch, d) \in Batches
      /\ Len(SetSlot(NewBatch, d).draws) = 1
      /\ Slot(SetSlot(NewBatch, d)) = d
      /\ SetSlot(NewBatch, d).vertices = NewBatch.vertices
  <2>1. NewBatch \in Batches /\ Len(NewBatch.draws) > 0 /\ d \in DrawCall
    BY <1>2, NewBatchFacts
  <2> QED
    BY ONLY <2>1, NewBatchFacts, SetSlotFacts
<1> QED
  BY <1>2, <1>3, <1>4, NewBatchFacts

(* The padding of a draw call, and what it brings the buffer to when the   *)
(* call holds whole primitives.                                            *)
LEMMA AlignmentFacts ==
  ASSUME NEW d \in DrawCall
  PROVE  /\ Alignment(d) \in 0..4
         /\ d.mode = RL_QUADS => Alignment(d) = 0
         /\ d.vertexCount > 0 /\ d.vertexCount % Corners(d.mode) = 0 =>
              (d.vertexCount + Alignment(d)) % 4 = 0
<1> DEFINE c == d.vertexCount
<1>1. c \in Nat /\ d.mode \in {1, 4, 7}
  BY BatchAssumption DEF DrawCall, Capacity, PrimitiveModes,
     RL_LINES, RL_TRIANGLES, RL_QUADS
<1>2. CASE d.mode = 1
  <2>1. /\ Alignment(d) = IF c < 4 THEN c ELSE c % 4
        /\ Corners(d.mode) = 2
    BY <1>2 DEF Alignment, Corners, RL_LINES, RL_TRIANGLES
  <2>2. c % 4 \in 0..3
    BY <1>1
  <2>3. ASSUME c > 0, c % 2 = 0 PROVE (c + Alignment(d)) % 4 = 0
    <3>1. CASE c < 4
      BY <3>1, <2>1, <2>3, <1>1
    <3>2. CASE ~(c < 4)
      <4>1. PICK k \in Nat : c = 2 * k
        BY <1>1, <2>3
      <4>2. c % 4 = IF k % 2 = 0 THEN 0 ELSE 2
        BY <4>1
      <4> QED
        BY <3>2, <4>1, <4>2, <2>1
    <3> QED
      BY <3>1, <3>2
  <2> QED
    BY <1>1, <1>2, <2>1, <2>2, <2>3 DEF RL_QUADS
<1>3. CASE d.mode = 4
  <2>1. /\ Alignment(d) = IF c < 4 THEN 1 ELSE 4 - (c % 4)
        /\ Corners(d.mode) = 3
    BY <1>3 DEF Alignment, Corners, RL_LINES, RL_TRIANGLES
  <2>2. c % 4 \in 0..3
    BY <1>1
  <2>3. ASSUME c > 0, c % 3 = 0 PROVE (c + Alignment(d)) % 4 = 0
    BY <1>1, <2>1, <2>3
  <2> QED
    BY <1>1, <1>3, <2>1, <2>2, <2>3 DEF RL_QUADS
<1>4. CASE d.mode = 7
  BY <1>1, <1>4 DEF Alignment, Corners, RL_LINES, RL_TRIANGLES, RL_QUADS
<1> QED
  BY <1>1, <1>2, <1>3, <1>4

LEMMA CapacityFacts ==
  Capacity \in Nat /\ Capacity >= 4 /\ Capacity % 4 = 0 /\ 4 \in 0..Capacity
BY BatchAssumption DEF Capacity

LEMMA PaddingFacts ==
  ASSUME NEW n \in Nat
  PROVE  Padding(n) \in Seq(Vertex) /\ Len(Padding(n)) = n
<1> DEFINE v == [mode |-> 0, corner |-> 0]
<1>1. v \in Vertex
  BY DEF Vertex
<1>2. Padding(n) = [i \in 1..n |-> v]
  BY DEF Padding
<1> HIDE DEF v
<1> QED
  BY <1>1, <1>2

(* Taking the next draw call: nothing changes when the one in use is empty;*)
(* else a new one begins behind the padding, or the batch was drawn.       *)
LEMMA NextDrawFacts ==
  ASSUME NEW b \in Batches, Len(b.draws) \in 1..(DrawCalls - 1),
         Len(b.vertices) <= Capacity
  PROVE  /\ NextDraw(b) \in Batches
         /\ Len(NextDraw(b).draws) \in 1..(DrawCalls - 1)
         /\ Len(NextDraw(b).vertices) \in 0..Capacity
         /\ Slot(NextDraw(b)).vertexCount = 0
         /\ Slot(b).vertexCount = 0 => NextDraw(b) = b
         /\ Slot(b).vertexCount > 0 /\ ~Overflows(b, Alignment(Slot(b))) =>
              /\ Slot(NextDraw(b)) = NewDraw
              /\ Len(NextDraw(b).vertices) \in
                   {0, Len(b.vertices) + Alignment(Slot(b))}
<1> DEFINE d == Slot(b)
           a == Alignment(d)
           e == [d EXCEPT !.vertexAlignment = a]
           p == [draws |-> Append(SetSlot(b, e).draws, NewDraw),
                 vertices |-> b.vertices \o Padding(a)]
<1>1. /\ b.draws \in Seq(DrawCall) /\ b.vertices \in Seq(Vertex)
      /\ d \in DrawCall /\ Len(b.draws) > 0 /\ DrawCalls \in Nat
      /\ Len(b.draws) \in Nat /\ Len(b.vertices) \in Nat
  BY SetSlotFacts, NewBatchFacts, BatchAssumption DEF Batches
<1>2. a \in 0..4 /\ e \in DrawCall
  BY <1>1, AlignmentFacts DEF DrawCall
<1>3. d.vertexCount \in Nat
  BY <1>1, CapacityFacts DEF DrawCall
<1>4. CASE d.vertexCount = 0
  BY <1>1, <1>4, CapacityFacts DEF NextDraw, CloseDraw
<1>5. CASE d.vertexCount > 0 /\ Overflows(b, a)
  <2>1. CloseDraw(b) = Restored(b)
    BY <1>3, <1>5 DEF CloseDraw
  <2>2. NextDraw(b) = Restored(b)
    <3>1. Len(Restored(b).draws) = 1 /\ DrawCalls \in Nat /\ DrawCalls > 1
      BY <1>1, RestoredFacts, BatchAssumption
    <3>2. NextDraw(b) = IF Len(Restored(b).draws) >= DrawCalls
                        THEN NewBatch ELSE Restored(b)
      BY <2>1 DEF NextDraw
    <3> QED
      BY ONLY <3>1, <3>2
  <2> HIDE DEF a, d
  <2>3. d.vertexCount > 0 /\ Overflows(b, a) /\ a = Alignment(d) /\ d = Slot(b)
    BY <1>5 DEF a, d
  <2>4. /\ Restored(b) \in Batches /\ Len(Restored(b).draws) = 1
        /\ Len(Restored(b).vertices) = 0 /\ Slot(Restored(b)).vertexCount = 0
    BY <1>1, RestoredFacts
  <2> QED
    BY <2>2, <2>3, <2>4, CapacityFacts, BatchAssumption
<1>6. CASE d.vertexCount > 0 /\ ~Overflows(b, a)
  <2>1. CloseDraw(b) = p
    BY <1>3, <1>6 DEF CloseDraw
  <2>2. /\ SetSlot(b, e).draws \in Seq(DrawCall)
        /\ Len(SetSlot(b, e).draws) = Len(b.draws)
    <3> HIDE DEF e
    <3> QED
      BY <1>1, <1>2, SetSlotFacts DEF Batches
  <2>3. /\ Append(SetSlot(b, e).draws, NewDraw) \in Seq(DrawCall)
        /\ Len(Append(SetSlot(b, e).draws, NewDraw)) = Len(b.draws) + 1
        /\ Append(SetSlot(b, e).draws, NewDraw)[Len(b.draws) + 1] = NewDraw
    <3> HIDE DEF e
    <3> QED
      BY <1>1, <2>2, NewBatchFacts, AppendProperties
  <2>4. Padding(a) \in Seq(Vertex) /\ Len(Padding(a)) = a
    BY <1>2, PaddingFacts
  <2>5. /\ b.vertices \o Padding(a) \in Seq(Vertex)
        /\ Len(b.vertices \o Padding(a)) = Len(b.vertices) + a
    <3> HIDE DEF a
    <3> QED
      BY ONLY <1>1, <1>2, <2>4, ConcatProperties
  <2> DEFINE q == p
  <2>6. /\ q \in Batches
        /\ Len(q.draws) = Len(b.draws) + 1 /\ Slot(q) = NewDraw
        /\ Len(q.vertices) = Len(b.vertices) + a
    BY <2>3, <2>5 DEF Batches, Slot
  <2>7. Len(b.vertices) + a < Capacity
    BY <1>1, <1>2, <1>6, CapacityFacts DEF Overflows
  <2>8. NextDraw(b) = IF Len(q.draws) >= DrawCalls THEN NewBatch ELSE q
    BY <2>1 DEF NextDraw
  <2> HIDE DEF q, a, d
  <2>9. CASE Len(q.draws) >= DrawCalls
    <3>1. NextDraw(b) = NewBatch
      BY <2>8, <2>9
    <3>2. d.vertexCount > 0 /\ d = Slot(b)
      BY <1>6 DEF d
    <3>3. NewDraw.vertexCount = 0
      BY DEF NewDraw
    <3>4. /\ NewBatch \in Batches
          /\ Len(NewBatch.draws) \in 1..(DrawCalls - 1)
          /\ Len(NewBatch.vertices) = 0 /\ 0 \in 0..Capacity
          /\ Slot(NewBatch) = NewDraw
      BY ONLY NewBatchFacts, CapacityFacts, BatchAssumption
    <3>5. Slot(b).vertexCount > 0 /\ ~(Slot(b).vertexCount = 0)
      BY ONLY <1>3, <3>2
    <3> HIDE DEF NextDraw, NewBatch, NewDraw, Slot, Alignment, Overflows
    <3> QED
      BY ONLY <3>1, <3>3, <3>4, <3>5
  <2>10. CASE ~(Len(q.draws) >= DrawCalls)
    <3>1. NextDraw(b) = q
      BY ONLY <2>8, <2>10
    <3>2. /\ Len(q.draws) \in 1..(DrawCalls - 1) /\ Len(q.vertices) \in 0..Capacity
      BY <1>1, <1>2, <2>6, <2>7, <2>10, CapacityFacts DEF a
    <3>3. /\ Slot(b).vertexCount > 0 /\ a = Alignment(Slot(b))
          /\ ~(Slot(b).vertexCount = 0)
      BY <1>3, <1>6 DEF d, a
    <3>4. NewDraw.vertexCount = 0
      BY DEF NewDraw
    <3> QED
      BY ONLY <2>6, <3>1, <3>2, <3>3, <3>4
  <2> QED
    BY <2>9, <2>10
<1> QED
  BY <1>3, <1>4, <1>5, <1>6

-----------------------------------------------------------------------------

(* The draw call in use lies in the buffer, and the caller is inside a     *)
(* primitive between rlBegin and rlEnd only.                               *)
SizesInv ==
  /\ TypeOK
  /\ CurrentDraw.vertexCount <= vertexCounter
  /\ ~open => corner = 0
  /\ open => corner < Corners(CurrentDraw.mode)

(* A state of the batch after one of its own operations.                   *)
Sized(b) ==
  /\ b \in Batches
  /\ Len(b.draws) \in 1..(DrawCalls - 1)
  /\ Len(b.vertices) \in 0..Capacity
  /\ Slot(b).vertexCount <= Len(b.vertices)

LEMMA SizedFacts ==
  ASSUME NEW b, Sized(b)
  PROVE  /\ Slot(b) \in DrawCall
         /\ Sized(NewBatch) /\ Sized(Restored(b)) /\ Sized(NextDraw(b))
         /\ \A d \in DrawCall :
              d.vertexCount <= Len(b.vertices) => Sized(SetSlot(b, d))
<1>1. /\ b \in Batches /\ Len(b.draws) \in 1..(DrawCalls - 1) /\ Len(b.draws) > 0
      /\ Len(b.vertices) \in 0..Capacity /\ DrawCalls \in Nat
  BY BatchAssumption DEF Sized
<1>2. Slot(b) \in DrawCall
  BY <1>1, SetSlotFacts, NewBatchFacts
<1>3. Sized(NewBatch)
  BY NewBatchFacts, CapacityFacts, BatchAssumption DEF Sized, NewDraw
<1>4. Sized(Restored(b))
  <2>1. /\ Restored(b) \in Batches /\ Len(Restored(b).draws) = 1
        /\ Len(Restored(b).vertices) = 0 /\ Slot(Restored(b)).vertexCount = 0
    BY <1>1, RestoredFacts
  <2> QED
    BY <2>1, CapacityFacts, BatchAssumption DEF Sized
<1>5. Sized(NextDraw(b))
  BY <1>1, NextDrawFacts, CapacityFacts DEF Sized
<1>6. ASSUME NEW d \in DrawCall, d.vertexCount <= Len(b.vertices)
      PROVE  Sized(SetSlot(b, d))
  BY <1>1, <1>6, SetSlotFacts DEF Sized
<1> QED
  BY <1>2, <1>3, <1>4, <1>5, <1>6

(* The draw call rlSetTexture goes on with.                                *)
LEMMA TexturedFacts ==
  ASSUME NEW c \in DrawCall, NEW t \in Textures
  PROVE  LET e == [c EXCEPT !.textureId = t, !.vertexCount = 0]
         IN  /\ e \in DrawCall /\ e.vertexCount = 0
             /\ e.textureId = t /\ e.mode = c.mode
<1> DEFINE f == [c EXCEPT !.textureId = t]
<1>1. f \in DrawCall /\ f.textureId = t /\ f.mode = c.mode
  BY DEF DrawCall
<1>2. [c EXCEPT !.textureId = t, !.vertexCount = 0] = [f EXCEPT !.vertexCount = 0]
  OBVIOUS
<1> HIDE DEF f
<1>3. /\ [f EXCEPT !.vertexCount = 0] \in DrawCall
      /\ [f EXCEPT !.vertexCount = 0].vertexCount = 0
      /\ [f EXCEPT !.vertexCount = 0].textureId = f.textureId
      /\ [f EXCEPT !.vertexCount = 0].mode = f.mode
  BY <1>1, CapacityFacts DEF DrawCall
<1> QED
  BY <1>1, <1>2, <1>3

(* What the habit of the caller allows.                                    *)
LEMMA HabitFacts ==
  ASSUME SizesInv
  PROVE  /\ Modes \subseteq PrimitiveModes
         /\ Reservations \subseteq 1..Capacity
<1>1. habit \in [modes : SUBSET PrimitiveModes, reservations : SUBSET (1..Capacity),
                newFactors : BOOLEAN]
  BY BatchAssumption DEF SizesInv, TypeOK
<1> QED
  BY <1>1 DEF Modes, Reservations

(* It stays as it is.                                                      *)
LEMMA HabitStep ==
  ASSUME [Next]_vars
  PROVE  /\ habit' = habit
         /\ Modes' = Modes /\ Reservations' = Reservations
         /\ Disciplined' = Disciplined
<1>1. habit' = habit
  BY DEF Next, vars, caller, rlBegin, rlVertex3f, LostVertex, Submit, rlEnd,
     rlSetTexture, UnsetTexture, rlCheckRenderBatchLimit,
     rlDrawRenderBatchActive, rlSetShader, rlSetBlendMode, rlSetBlendFactors
<1>2. Modes' = Modes /\ Reservations' = Reservations
  BY <1>1 DEF Modes, Reservations
<1> QED
  BY <1>1, <1>2 DEF Disciplined

(* What a step does to the batch and its caller, action by action; it is   *)
(* all that the type of the batch depends on.                              *)
LEMMA SizedStep ==
  ASSUME SizesInv, [Next]_vars
  PROVE  Sized(batch')
<1>1. Sized(batch) /\ CurrentDraw = Slot(batch) /\ vertexCounter = Len(batch.vertices)
  BY DEF SizesInv, TypeOK, Sized, vertexCounter, drawCounter, CurrentDraw
<1>2. /\ Sized(NewBatch) /\ Sized(Restored(batch)) /\ Sized(NextDraw(batch))
      /\ CurrentDraw \in DrawCall
  BY <1>1, SizedFacts
<1>3. ASSUME NEW m \in Modes, rlBegin(m) PROVE Sized(batch')
  <2> DEFINE d == [NewDraw EXCEPT !.mode = m]
  <2>1. d \in DrawCall /\ d.vertexCount = 0
    BY NewBatchFacts, HabitFacts DEF NewDraw, DrawCall
  <2>2. Len(NextDraw(batch).vertices) \in Nat
    BY <1>2, CapacityFacts DEF Sized
  <2> HIDE DEF d
  <2>3. Sized(SetSlot(NextDraw(batch), d))
    BY <1>2, <2>1, <2>2, SizedFacts
  <2> QED
    BY <1>1, <1>3, <2>3 DEF rlBegin, BatchIs, d
<1>4. CASE rlVertex3f
  <2> DEFINE d == [CurrentDraw EXCEPT !.vertexCount = @ + 1]
             v == [mode |-> CurrentDraw.mode, corner |-> corner + 1]
             w == Append(batch.vertices, v)
  <2>1. /\ batch \in Batches /\ batch.vertices \in Seq(Vertex)
        /\ vertexCounter \in Nat /\ vertexCounter < Capacity
        /\ CurrentDraw.vertexCount \in Nat
        /\ CurrentDraw.vertexCount <= vertexCounter
        /\ corner \in 0..3
    BY <1>1, <1>2, <1>4, CapacityFacts
       DEF rlVertex3f, SizesInv, TypeOK, Batches, DrawCall, vertexCounter
  <2>2. v \in Vertex
    BY <2>1, <1>2 DEF Vertex, DrawCall
  <2>3. d \in DrawCall /\ d.vertexCount = CurrentDraw.vertexCount + 1
    BY <2>1, <1>2, CapacityFacts DEF DrawCall
  <2>4. batch' = [SetSlot(batch, d) EXCEPT !.vertices = w]
    <3>1. batch' = [SetSlot(batch, d) EXCEPT !.vertices = Append(@, v)]
      BY <1>4 DEF rlVertex3f, BatchIs
    <3> HIDE DEF d, v
    <3>2. SetSlot(batch, d).vertices = batch.vertices /\ SetSlot(batch, d) \in Batches
      BY <1>1, <2>1, <2>3, SetSlotFacts, BatchAssumption DEF Sized
    <3> QED
      BY <3>1, <3>2 DEF Batches
  <2> HIDE DEF d, v
  <2>5. w \in Seq(Vertex) /\ Len(w) = vertexCounter + 1
    BY <1>1, <2>1, <2>2, AppendProperties
  <2> HIDE DEF w
  <2>6. /\ SetSlot(batch, d) \in Batches /\ Slot(SetSlot(batch, d)) = d
        /\ Len(SetSlot(batch, d).draws) = Len(batch.draws)
    BY <1>1, <2>1, <2>3, SetSlotFacts, BatchAssumption DEF Sized
  <2>7. /\ batch' \in Batches /\ batch'.draws = SetSlot(batch, d).draws
        /\ batch'.vertices = w
    BY <2>4, <2>5, <2>6 DEF Batches
  <2>8. Slot(batch') = d
    BY <2>6, <2>7 DEF Slot
  <2> QED
    BY <1>1, <2>1, <2>3, <2>5, <2>6, <2>7, <2>8, CapacityFacts DEF Sized
<1>5. ASSUME NEW t \in Textures, rlSetTexture(t) PROVE Sized(batch')
  <2> DEFINE b == NextDraw(batch)
             d == [Slot(b) EXCEPT !.textureId = t, !.vertexCount = 0]
  <2>1. Slot(b) \in DrawCall /\ Len(b.vertices) \in Nat
    BY <1>2, SizedFacts, CapacityFacts DEF Sized
  <2>2. d \in DrawCall /\ d.vertexCount = 0
    BY <1>5, <2>1, TexturedFacts
  <2> HIDE DEF d
  <2>3. Sized(SetSlot(b, d))
    BY <1>2, <2>1, <2>2, SizedFacts
  <2>4. batch' = batch \/ batch' = SetSlot(b, d)
    BY <1>5 DEF rlSetTexture, BatchIs, d
  <2> QED
    BY <1>1, <2>3, <2>4
<1>6. ASSUME NEW n \in Reservations, rlCheckRenderBatchLimit(n) PROVE Sized(batch')
  BY <1>1, <1>2, <1>6 DEF rlCheckRenderBatchLimit, CheckLimit, BatchIs
<1>7. \/ rlEnd \/ UnsetTexture \/ rlDrawRenderBatchActive \/ LostVertex
      \/ \E s \in Shaders : rlSetShader(s)
      \/ \E m \in Blends : rlSetBlendMode(m)
      \/ \E f \in Factors : rlSetBlendFactors(f)
      => batch' = batch \/ batch' = NewBatch
  BY DEF rlEnd, UnsetTexture, rlDrawRenderBatchActive, LostVertex, rlSetShader,
     rlSetBlendMode, rlSetBlendFactors, Draw, BatchIs
<1>8. CASE UNCHANGED vars
  BY <1>1, <1>8 DEF vars
<1> QED
  BY <1>1, <1>2, <1>3, <1>4, <1>5, <1>6, <1>7, <1>8 DEF Next

(* What each action does to the draw call in use and to the buffer.        *)
LEMMA BeginStep ==
  ASSUME SizesInv, NEW m \in Modes, rlBegin(m)
  PROVE  \/ CurrentDraw.mode = m /\ batch' = batch
         \/ /\ CurrentDraw.mode # m
            /\ Slot(batch') = [NewDraw EXCEPT !.mode = m]
            /\ batch'.vertices = NextDraw(batch).vertices
<1> DEFINE d == [NewDraw EXCEPT !.mode = m]
<1>1. d \in DrawCall
  BY NewBatchFacts, HabitFacts DEF NewDraw, DrawCall
<1>2. Sized(batch)
  BY DEF SizesInv, TypeOK, Sized, vertexCounter, drawCounter, CurrentDraw
<1>3. NextDraw(batch) \in Batches /\ Len(NextDraw(batch).draws) > 0
  <2>1. Sized(NextDraw(batch))
    BY <1>2, SizedFacts
  <2> QED
    BY <2>1, BatchAssumption DEF Sized
<1>4. batch' = IF CurrentDraw.mode = m THEN batch ELSE SetSlot(NextDraw(batch), d)
  BY DEF rlBegin, BatchIs
<1> HIDE DEF d
<1>5. /\ Slot(SetSlot(NextDraw(batch), d)) = d
      /\ SetSlot(NextDraw(batch), d).vertices = NextDraw(batch).vertices
  BY <1>1, <1>3, SetSlotFacts
<1> QED
  BY <1>4, <1>5 DEF d

LEMMA SetTextureStep ==
  ASSUME SizesInv, NEW t \in Textures, rlSetTexture(t)
  PROVE  \/ CurrentDraw.textureId = t /\ batch' = batch
         \/ /\ CurrentDraw.textureId # t
            /\ Slot(batch').textureId = t
            /\ Slot(batch').mode = Slot(NextDraw(batch)).mode
            /\ Slot(batch').vertexCount = 0
            /\ batch'.vertices = NextDraw(batch).vertices
<1> DEFINE b == NextDraw(batch)
           d == [Slot(b) EXCEPT !.textureId = t, !.vertexCount = 0]
<1>1. Sized(batch)
  BY DEF SizesInv, TypeOK, Sized, vertexCounter, drawCounter, CurrentDraw
<1>2. b \in Batches /\ Len(b.draws) > 0 /\ Slot(b) \in DrawCall
  <2>1. Sized(b)
    BY <1>1, SizedFacts
  <2> QED
    BY <2>1, SizedFacts, BatchAssumption DEF Sized
<1>3. /\ d \in DrawCall /\ d.vertexCount = 0
      /\ d.textureId = t /\ d.mode = Slot(b).mode
  BY <1>2, TexturedFacts
<1>4. batch' = IF CurrentDraw.textureId = t THEN batch ELSE SetSlot(b, d)
  BY DEF rlSetTexture, BatchIs
<1> HIDE DEF b, d
<1>5. Slot(SetSlot(b, d)) = d /\ SetSlot(b, d).vertices = b.vertices
  BY <1>2, <1>3, SetSlotFacts
<1> QED
  BY <1>3, <1>4, <1>5 DEF b

LEMMA VertexStep ==
  ASSUME SizesInv, rlVertex3f
  PROVE  /\ Slot(batch') = [CurrentDraw EXCEPT !.vertexCount = @ + 1]
         /\ Len(batch'.vertices) = vertexCounter + 1
<1> DEFINE d == [CurrentDraw EXCEPT !.vertexCount = @ + 1]
           v == [mode |-> CurrentDraw.mode, corner |-> corner + 1]
<1>1. Sized(batch) /\ vertexCounter = Len(batch.vertices) /\ CurrentDraw = Slot(batch)
  BY DEF SizesInv, TypeOK, Sized, vertexCounter, drawCounter, CurrentDraw
<1>2. CurrentDraw \in DrawCall /\ batch \in Batches /\ Len(batch.draws) > 0
  <2>1. CurrentDraw \in DrawCall
    BY <1>1, SizedFacts
  <2>2. batch \in Batches /\ Len(batch.draws) \in 1..(DrawCalls - 1)
    BY <1>1 DEF Sized
  <2> QED
    BY <2>1, <2>2, BatchAssumption
<1>3. d \in DrawCall
  BY <1>1, <1>2, CapacityFacts DEF rlVertex3f, SizesInv, DrawCall, Sized
<1>4. batch' = [SetSlot(batch, d) EXCEPT !.vertices = Append(@, v)]
  BY DEF rlVertex3f, BatchIs
<1> HIDE DEF d, v
<1>5. /\ SetSlot(batch, d) \in Batches /\ Slot(SetSlot(batch, d)) = d
      /\ SetSlot(batch, d).vertices = batch.vertices
  BY <1>2, <1>3, SetSlotFacts
<1>6. /\ batch'.draws = SetSlot(batch, d).draws
      /\ batch'.vertices = Append(batch.vertices, v)
  BY <1>4, <1>5 DEF Batches
<1>7. Len(Append(batch.vertices, v)) = Len(batch.vertices) + 1
  BY <1>2 DEF Batches
<1> QED
  BY <1>1, <1>5, <1>6, <1>7 DEF Slot, d

LEMMA ReservationStep ==
  ASSUME SizesInv, NEW n \in Reservations, rlCheckRenderBatchLimit(n)
  PROVE  \/ vertexCounter + n < Capacity /\ batch' = batch
         \/ /\ Len(batch'.vertices) = 0
            /\ Slot(batch').vertexCount = 0
            /\ Slot(batch').mode = CurrentDraw.mode
            /\ Slot(batch').textureId = CurrentDraw.textureId
<1>1. batch \in Batches /\ Len(batch.draws) > 0
  BY BatchAssumption DEF SizesInv, TypeOK, drawCounter
<1>2. batch' = IF Overflows(batch, n) THEN Restored(batch) ELSE batch
  BY DEF rlCheckRenderBatchLimit, CheckLimit, BatchIs
<1>3. /\ Len(Restored(batch).vertices) = 0
      /\ Slot(Restored(batch)).vertexCount = 0
      /\ Slot(Restored(batch)).mode = CurrentDraw.mode
      /\ Slot(Restored(batch)).textureId = CurrentDraw.textureId
  BY <1>1, RestoredFacts DEF CurrentDraw
<1>4. n \in Nat /\ vertexCounter \in Nat
  BY <1>1, HabitFacts, CapacityFacts DEF vertexCounter, Batches
<1> QED
  BY <1>2, <1>3, <1>4, CapacityFacts DEF Overflows, vertexCounter

(* The other calls leave the batch, or draw it.                            *)
LEMMA OtherSteps ==
  /\ rlEnd => IF vertexCounter >= Capacity - 4 THEN batch' = NewBatch
              ELSE batch' = batch
  /\ \/ UnsetTexture \/ rlDrawRenderBatchActive \/ LostVertex
     \/ \E s \in Shaders : rlSetShader(s)
     \/ \E m \in Blends : rlSetBlendMode(m)
     \/ \E f \in Factors : rlSetBlendFactors(f)
     => batch' \in {batch, NewBatch}
BY DEF rlEnd, UnsetTexture, rlDrawRenderBatchActive, LostVertex, rlSetShader,
   rlSetBlendMode, rlSetBlendFactors, Draw, BatchIs

-----------------------------------------------------------------------------

LEMMA CornersFacts ==
  \A m : Corners(m) \in {2, 3, 4}
BY DEF Corners

LEMMA SizesInit == Init => SizesInv
<1> SUFFICES ASSUME Init PROVE SizesInv
  OBVIOUS
<1> USE DEF AskedType
<1>1. /\ batch = NewBatch /\ CurrentDraw = NewDraw
      /\ vertexCounter = 0 /\ drawCounter = 1
  BY NewBatchFacts DEF Init, CurrentDraw, vertexCounter, drawCounter
<1>2. DefaultBlend \in BlendFunction
  BY BatchAssumption DEF DefaultBlend, BlendFunction
<1>3. batch \in Batches /\ vertexCounter <= Capacity /\ drawCounter \in 1..(DrawCalls - 1)
  BY <1>1, NewBatchFacts, CapacityFacts, BatchAssumption
<1>4. TypeOK
  <2>1. /\ shader \in Shaders /\ blendMode \in Blends
        /\ factors \in {0} \cup Factors /\ glBlend \in BlendFunction
        /\ asked \in AskedType
    BY <1>2, BatchAssumption DEF Init
  <2>2. corner \in 0..3 /\ room \in 0..Capacity
    <3>1. corner = 0 /\ room = 4
      BY DEF Init
    <3> QED
      BY ONLY <3>1, CapacityFacts
  <2>3. open \in BOOLEAN /\ habit \in Habits
    BY DEF Init
  <2> QED
    BY <1>3, <2>1, <2>2, <2>3 DEF TypeOK
<1> QED
  BY <1>1, <1>4 DEF Init, SizesInv, NewDraw

LEMMA SizesStep == SizesInv /\ [Next]_vars => SizesInv'
<1> SUFFICES ASSUME SizesInv, [Next]_vars PROVE SizesInv'
  OBVIOUS
<1> USE DEF AskedType
<1>1. /\ Sized(batch')
      /\ vertexCounter' = Len(batch'.vertices) /\ drawCounter' = Len(batch'.draws)
      /\ CurrentDraw' = Slot(batch')
  BY SizedStep DEF vertexCounter, drawCounter, CurrentDraw, Slot
<1>2. /\ batch' \in Batches /\ vertexCounter' <= Capacity
      /\ drawCounter' \in 1..(DrawCalls - 1)
      /\ CurrentDraw'.vertexCount <= vertexCounter'
  BY <1>1, CapacityFacts DEF Sized
<1>3. /\ shader' \in Shaders /\ blendMode' \in Blends
      /\ factors' \in {0} \cup Factors /\ glBlend' \in BlendFunction
      /\ asked' \in AskedType
  <2> DEFINE Kept == /\ shader' \in Shaders /\ blendMode' \in Blends
                     /\ factors' \in {0} \cup Factors /\ glBlend' \in BlendFunction
                     /\ asked' \in AskedType
  <2>1. /\ shader \in Shaders /\ blendMode \in Blends
        /\ factors \in {0} \cup Factors /\ glBlend \in BlendFunction
        /\ asked \in AskedType
    BY DEF SizesInv, TypeOK
  <2>2. ASSUME NEW m \in Modes, rlBegin(m) PROVE Kept
    BY <2>1, <2>2 DEF rlBegin, renderer
  <2>3. CASE rlVertex3f \/ LostVertex
    BY <2>1, <2>3 DEF rlVertex3f, LostVertex, Submit, renderer
  <2>4. CASE rlEnd \/ UnsetTexture \/ rlDrawRenderBatchActive
    BY <2>1, <2>4 DEF rlEnd, UnsetTexture, rlDrawRenderBatchActive, renderer
  <2>5. ASSUME NEW t \in Textures, rlSetTexture(t) PROVE Kept
    BY <2>1, <2>5 DEF rlSetTexture, renderer
  <2>6. ASSUME NEW n \in Reservations, rlCheckRenderBatchLimit(n) PROVE Kept
    BY <2>1, <2>6 DEF rlCheckRenderBatchLimit, renderer
  <2>7. ASSUME NEW s \in Shaders, rlSetShader(s) PROVE Kept
    BY <2>1, <2>7 DEF rlSetShader
  <2>8. ASSUME NEW m \in Blends, rlSetBlendMode(m) PROVE Kept
    <3>1. Function(m) \in BlendFunction
      BY <2>1, <2>8 DEF Function, BlendFunction
    <3>2. /\ asked' = [asked EXCEPT !.texture = 0, !.blend = Function(m)]
          /\ shader' = shader /\ factors' = factors
          /\ \/ blendMode' = m /\ glBlend' = Function(m)
             \/ blendMode' = blendMode /\ glBlend' = glBlend
      BY <2>8 DEF rlSetBlendMode
    <3>3. asked' \in AskedType
      BY <2>1, <3>1, <3>2 DEF AskedType
    <3> QED
      BY <2>1, <2>8, <3>1, <3>2, <3>3
  <2>9. ASSUME NEW f \in Factors, rlSetBlendFactors(f) PROVE Kept
    BY <2>1, <2>9 DEF rlSetBlendFactors, caller
  <2>10. CASE UNCHANGED vars
    BY <2>1, <2>10 DEF vars, renderer, caller
  <2> QED
    BY <2>2, <2>3, <2>4, <2>5, <2>6, <2>7, <2>8, <2>9, <2>10 DEF Next
<1>5. habit' \in Habits
  BY HabitStep DEF SizesInv, TypeOK
<1> DEFINE Goal == /\ open' \in BOOLEAN /\ corner' \in 0..3 /\ room' \in 0..Capacity
                   /\ ~open' => corner' = 0
                   /\ open' => corner' < Corners(CurrentDraw'.mode)
<1>4. Goal
  <2>1. /\ open \in BOOLEAN /\ corner \in 0..3 /\ room \in 0..Capacity
        /\ ~open => corner = 0
        /\ open => corner < Corners(CurrentDraw.mode)
    BY DEF SizesInv, TypeOK
  <2>2. ASSUME NEW m \in Modes, rlBegin(m) PROVE Goal
    BY <2>1, <2>2, CornersFacts DEF rlBegin
  <2>3. CASE rlVertex3f
    <3>1. CurrentDraw'.mode = CurrentDraw.mode
      <4>1. CurrentDraw \in DrawCall
        BY SizedFacts DEF SizesInv, TypeOK, Sized, vertexCounter, drawCounter, CurrentDraw
      <4> QED
        BY <4>1, <1>1, <2>3, VertexStep DEF DrawCall
    <3>2. Corners(CurrentDraw.mode) \in {2, 3, 4}
      BY CornersFacts
    <3>3. /\ corner' = (corner + 1) % Corners(CurrentDraw.mode)
          /\ room' = room - 1 /\ room >= Corners(CurrentDraw.mode) - corner
          /\ open' = open /\ open
      BY <2>3 DEF rlVertex3f, Submit
    <3> QED
      BY <2>1, <3>1, <3>2, <3>3, CapacityFacts
  <2>4. CASE LostVertex
    <3>1. CurrentDraw' = CurrentDraw
      BY <2>4 DEF LostVertex, BatchIs, CurrentDraw, Slot
    <3>2. Corners(CurrentDraw.mode) \in {2, 3, 4}
      BY CornersFacts
    <3>3. /\ corner' = (corner + 1) % Corners(CurrentDraw.mode)
          /\ room' = room - 1 /\ room >= Corners(CurrentDraw.mode) - corner
          /\ open' = open /\ open
      BY <2>4 DEF LostVertex, Submit
    <3> QED
      BY <2>1, <3>1, <3>2, <3>3, CapacityFacts
  <2>5. CASE rlEnd
    <3>1. open' = FALSE /\ room' = 4 /\ corner' = 0
      BY <2>5 DEF rlEnd
    <3>2. corner' \in 0..3 /\ room' \in 0..Capacity
      BY ONLY <3>1, CapacityFacts
    <3> QED
      BY <3>1, <3>2
  <2>6. ASSUME NEW n \in Reservations, rlCheckRenderBatchLimit(n) PROVE Goal
    BY <2>1, <2>6, HabitFacts, CapacityFacts DEF rlCheckRenderBatchLimit
  <2>7. CASE \/ \E t \in Textures : rlSetTexture(t)
             \/ UnsetTexture \/ rlDrawRenderBatchActive
             \/ \E s \in Shaders : rlSetShader(s)
             \/ \E m \in Blends : rlSetBlendMode(m)
             \/ \E f \in Factors : rlSetBlendFactors(f)
    <3>1. ~open /\ UNCHANGED <<open, corner, room>>
      BY <2>7 DEF rlSetTexture, UnsetTexture, rlDrawRenderBatchActive,
         rlSetShader, rlSetBlendMode, rlSetBlendFactors, caller
    <3> QED
      BY <2>1, <3>1
  <2>8. CASE UNCHANGED vars
    <3>1. CurrentDraw' = CurrentDraw /\ UNCHANGED <<open, corner, room>>
      BY <2>8 DEF vars, caller, CurrentDraw, Slot
    <3> QED
      BY <2>1, <3>1
  <2> QED
    BY <2>2, <2>3, <2>4, <2>5, <2>6, <2>7, <2>8 DEF Next
<1> QED
  BY <1>2, <1>3, <1>4, <1>5 DEF SizesInv, TypeOK

(* Every variable keeps its type, whatever the sizes, modes and            *)
(* reservations: the buffer is never written past its end, and the list of *)
(* draw calls has room for one more after every call.                      *)
THEOREM TypeCorrect == Spec => []TypeOK
<1>1. SizesInv => TypeOK
  BY DEF SizesInv
<1> QED
  BY <1>1, SizesInit, SizesStep, PTL DEF Spec

-----------------------------------------------------------------------------

(* The draw call in use begins at a multiple of 4.  A caller that relies on*)
(* rlEnd finds a batch with room for one more primitive and its padding;   *)
(* padding never follows a reservation.                                    *)
RoomInv ==
  /\ vertexCounter + room <= Capacity
  /\ (vertexCounter - CurrentDraw.vertexCount) % 4 = 0
  /\ CurrentDraw.vertexCount % Corners(CurrentDraw.mode) = corner
  /\ Reservations = {} /\ ~open =>
       room = 4 /\ (CurrentDraw.vertexCount > 0 => vertexCounter < Capacity - 4)
  /\ Reservations # {} => CurrentDraw.mode = RL_QUADS

(* A draw call that begins at a multiple of 4 is padded to one; below the  *)
(* end of the buffer the next multiple of 4 leaves 4 places.               *)
LEMMA Multiples ==
  ASSUME NEW c \in Nat, NEW v \in Nat, NEW a \in Nat,
         (c - v) % 4 = 0, (v + a) % 4 = 0
  PROVE  /\ (c + a) % 4 = 0
         /\ c + a < Capacity => c + a + 4 <= Capacity
BY CapacityFacts

(* Taking the next draw call at a place where the caller may.              *)
LEMMA RoomAtNextDraw ==
  ASSUME SizesInv, RoomInv, Disciplined, ~open
  PROVE  /\ Len(NextDraw(batch).vertices) \in Nat
         /\ Len(NextDraw(batch).vertices) + room <= Capacity
         /\ Len(NextDraw(batch).vertices) % 4 = 0
         /\ Reservations # {} => Slot(NextDraw(batch)).mode = RL_QUADS
         /\ Reservations = {} =>
              \/ NextDraw(batch) = batch /\ CurrentDraw.vertexCount = 0
              \/ Slot(NextDraw(batch)) = NewDraw
<1> DEFINE d == CurrentDraw
           v == d.vertexCount
           a == Alignment(d)
           c == vertexCounter
           n == Len(NextDraw(batch).vertices)
<1>1. Sized(batch) /\ d = Slot(batch) /\ c = Len(batch.vertices)
  BY DEF SizesInv, TypeOK, Sized, vertexCounter, drawCounter, CurrentDraw
<1>2. /\ batch \in Batches /\ Len(batch.draws) \in 1..(DrawCalls - 1)
      /\ Len(batch.draws) > 0 /\ c \in Nat /\ c <= Capacity
  BY <1>1, CapacityFacts, BatchAssumption DEF Sized
<1>3. d \in DrawCall /\ v \in Nat
  BY <1>1, SizedFacts, CapacityFacts DEF Sized, DrawCall
<1>4. /\ a \in Nat /\ a <= 4
      /\ d.mode = RL_QUADS => a = 0
      /\ v > 0 => (v + a) % 4 = 0
  <2>1. d.vertexCount % Corners(d.mode) = 0
    BY DEF SizesInv, RoomInv
  <2> QED
    BY <1>3, <2>1, AlignmentFacts
<1>5. room \in Nat /\ c + room <= Capacity /\ room <= Capacity /\ (c - v) % 4 = 0
  BY <1>2, CapacityFacts DEF SizesInv, TypeOK, RoomInv
<1>6. /\ Reservations = {} => room = 4
      /\ Reservations = {} => (v > 0 => c < Capacity - 4)
      /\ Reservations # {} => d.mode = RL_QUADS
  BY DEF RoomInv
<1> HIDE DEF a, c, d, v
<1>7. CASE v = 0
  <2>1. NextDraw(batch) = batch
    BY <1>1, <1>2, <1>7, NextDrawFacts DEF v
  <2>2. n = c
    BY <1>1, <2>1
  <2>3. c % 4 = 0
    <3>1. c - 0 = c
      BY ONLY <1>2
    <3> QED
      BY <1>5, <1>7, <3>1
  <2> QED
    BY <1>1, <1>2, <1>5, <1>6, <1>7, <2>1, <2>2, <2>3 DEF d, v
<1>8. CASE v > 0 /\ ~Overflows(batch, a)
  <2>1. Slot(NextDraw(batch)) = NewDraw /\ n \in {0, c + a}
    BY <1>1, <1>2, <1>8, NextDrawFacts DEF v, a
  <2>2. c + a < Capacity
    BY <1>1, <1>2, <1>4, <1>8, CapacityFacts DEF Overflows
  <2>3. (c + a) % 4 = 0 /\ c + a + 4 <= Capacity
    BY <1>2, <1>3, <1>4, <1>5, <1>8, <2>2, Multiples
  <2>4. c + a + room <= Capacity
    <3>1. CASE Reservations = {}
      BY <1>6, <2>3, <3>1
    <3>2. CASE Reservations # {}
      <4>1. a = 0
        BY <1>4, <1>6, <3>2
      <4> QED
        BY ONLY <1>2, <1>5, <4>1
    <3> QED
      BY <3>1, <3>2
  <2>5. NewDraw.mode = RL_QUADS
    BY DEF NewDraw
  <2> HIDE DEF n
  <2>6. n \in Nat /\ n + room <= Capacity /\ n % 4 = 0
    <3>1. CASE n = 0
      BY ONLY <1>5, <3>1
    <3>2. CASE n = c + a
      BY ONLY <1>2, <1>4, <2>3, <2>4, <3>2
    <3> QED
      BY <2>1, <3>1, <3>2
  <2> QED
    BY <2>1, <2>5, <2>6 DEF n
<1>9. CASE v > 0 /\ Overflows(batch, a)
  <2>1. Reservations # {}
    <3>1. c + a >= Capacity
      BY <1>1, <1>9 DEF Overflows
    <3>2. ~(c < Capacity - 4)
      BY ONLY <1>2, <1>4, <3>1, CapacityFacts
    <3> QED
      BY <1>6, <1>9, <3>2
  <2>2. CloseDraw(batch) = Restored(batch)
    BY <1>1, <1>3, <1>9 DEF CloseDraw, a, v
  <2>3. NextDraw(batch) \in {Restored(batch), NewBatch}
    BY <2>2 DEF NextDraw
  <2>4. n = 0 /\ Slot(NextDraw(batch)).mode = RL_QUADS
    BY <1>1, <1>2, <1>6, <2>1, <2>3, RestoredFacts, NewBatchFacts DEF NewDraw
  <2> HIDE DEF n
  <2>5. n \in Nat /\ n + room <= Capacity /\ n % 4 = 0
    BY ONLY <1>5, <2>4
  <2> QED
    BY <2>1, <2>4, <2>5 DEF n
<1>10. v = 0 \/ v > 0
  BY <1>3
<1> QED
  BY <1>7, <1>8, <1>9, <1>10

LEMMA RoomInit == Init => RoomInv
<1> SUFFICES ASSUME Init PROVE RoomInv
  OBVIOUS
<1>1. CurrentDraw = NewDraw /\ vertexCounter = 0
  BY NewBatchFacts DEF Init, CurrentDraw, vertexCounter
<1>2. room = 4 /\ corner = 0
  BY DEF Init
<1>3. NewDraw.mode = RL_QUADS /\ NewDraw.vertexCount = 0
  BY DEF NewDraw
<1>4. Corners(RL_QUADS) = 4
  BY DEF Corners, RL_QUADS, RL_LINES, RL_TRIANGLES
<1> QED
  BY ONLY <1>1, <1>2, <1>3, <1>4, CapacityFacts DEF RoomInv

(* Every step keeps the room.                                              *)
LEMMA RoomStep ==
  ASSUME SizesInv, RoomInv, Disciplined, [Next]_vars, SizesInv'
  PROVE  RoomInv'
<1> DEFINE d == CurrentDraw
           v == d.vertexCount
           k == Corners(d.mode)
           c == vertexCounter
           D == Slot(batch')
           V == D.vertexCount
           K == Corners(D.mode)
           C == Len(batch'.vertices)
           Fits == /\ C + room' <= Capacity
                   /\ (C - V) % 4 = 0
                   /\ V % K = corner'
           Free == Reservations = {} /\ ~open' =>
                     room' = 4 /\ (V > 0 => C < Capacity - 4)
           Quads == Reservations # {} => D.mode = RL_QUADS
           Goal == Fits /\ Free /\ Quads
<1>1. Sized(batch) /\ d \in DrawCall /\ v \in Nat /\ c \in Nat
  <2>1. Sized(batch)
    BY DEF SizesInv, TypeOK, Sized, vertexCounter, drawCounter, CurrentDraw
  <2> QED
    BY <2>1, SizedFacts, CapacityFacts
       DEF Sized, DrawCall, CurrentDraw, vertexCounter, Slot
<1>2. /\ d = Slot(batch) /\ c = Len(batch.vertices)
      /\ CurrentDraw' = D /\ vertexCounter' = C
  BY DEF CurrentDraw, vertexCounter, Slot
<1>3. /\ room \in Nat /\ room <= Capacity
      /\ c + room <= Capacity /\ (c - v) % 4 = 0
  BY <1>1, CapacityFacts DEF RoomInv, SizesInv, TypeOK
<1>4. v % k = corner /\ (~open => corner = 0) /\ corner \in 0..3
  BY DEF RoomInv, SizesInv, TypeOK
<1>5. k \in {2, 3, 4} /\ K \in {2, 3, 4}
  BY CornersFacts
<1>6. /\ Reservations = {} /\ ~open =>
           room = 4 /\ (v > 0 => c < Capacity - 4)
      /\ Reservations # {} => d.mode = RL_QUADS
  BY DEF RoomInv
<1>7. 0 % K = 0
  BY <1>5
<1>8. /\ NewDraw.mode = RL_QUADS /\ NewDraw.vertexCount = 0
      /\ Slot(NewBatch) = NewDraw /\ Len(NewBatch.vertices) = 0
  BY NewBatchFacts DEF NewDraw
<1> HIDE DEF C, D, V, K, c, d, v, k
<1>9. ASSUME D = d, C = c, open' = open, corner' = corner, room' = room
      PROVE  Goal
  <2>1. V = v /\ K = k
    BY <1>9 DEF V, v, K, k
  <2> QED
    BY <1>3, <1>4, <1>6, <1>9, <2>1
(* A draw call without vertices at a multiple of 4.                        *)
<1>10. ASSUME V = 0, C \in Nat, C % 4 = 0, C + room' <= Capacity, corner' = 0
       PROVE  Fits
  <2>1. (C - V) % 4 = 0
    BY <1>10
  <2>2. V % K = corner'
    BY <1>7, <1>10
  <2> QED
    BY <1>10, <2>1, <2>2
<1>11. ASSUME batch' = NewBatch, room' \in Nat, room' <= Capacity, corner' = 0,
              Reservations = {} /\ ~open' => room' = 4
       PROVE  Goal
  <2>1. D = NewDraw /\ C = 0
    BY <1>8, <1>11 DEF D, C
  <2>2. V = 0 /\ D.mode = RL_QUADS
    BY <1>8, <2>1 DEF V
  <2>3. C \in Nat /\ C % 4 = 0 /\ C + room' <= Capacity
    BY ONLY <1>11, <2>1
  <2>4. ~(V > 0)
    BY <2>2
  <2> QED
    BY <1>10, <1>11, <2>2, <2>3, <2>4
<1>12. ASSUME NEW m \in Modes, rlBegin(m) PROVE Goal
  <2>1. ~open /\ open' /\ room' = room /\ corner' = corner
    BY <1>12 DEF rlBegin
  <2>2. CASE d.mode = m
    <3>1. D = d /\ C = c
      BY <1>2, <1>12, <2>2, BeginStep DEF d, D, c, C
    <3>2. V = v /\ K = k
      BY <3>1 DEF V, v, K, k
    <3> QED
      BY <1>3, <1>4, <1>6, <2>1, <3>1, <3>2
  <2>3. CASE d.mode # m
    <3>1. D = [NewDraw EXCEPT !.mode = m] /\ C = Len(NextDraw(batch).vertices)
      BY <1>12, <2>3, BeginStep DEF d, D, C
    <3>2. D.mode = m /\ V = 0
      BY <3>1 DEF NewDraw, V
    <3>3. C \in Nat /\ C + room' <= Capacity /\ C % 4 = 0
      BY <2>1, <3>1, RoomAtNextDraw
    <3>4. Quads
      BY <1>12, <3>2 DEF Disciplined
    <3>5. corner' = 0
      BY <1>4, <2>1
    <3>6. Fits
      BY <1>10, <3>2, <3>3, <3>5
    <3> QED
      BY <2>1, <3>4, <3>6
  <2> QED
    BY <2>2, <2>3
<1>13. ASSUME rlVertex3f PROVE Goal
  <2>1. D = [d EXCEPT !.vertexCount = @ + 1] /\ C = c + 1
    BY <1>13, VertexStep DEF d, D, c, C
  <2>2. D.mode = d.mode /\ V = v + 1
    BY <1>1, <2>1 DEF DrawCall, V, v
  <2>3. open /\ open' = open
    BY <1>13 DEF rlVertex3f, Submit
  <2>4. room >= k - corner /\ room' = room - 1 /\ corner' = (corner + 1) % k
    BY <1>13 DEF rlVertex3f, Submit, d, k
  <2>5. (v + 1) % k = (corner + 1) % k
    <3>1. CASE k = 2
      BY <1>1, <1>4, <3>1
    <3>2. CASE k = 3
      BY <1>1, <1>4, <3>2
    <3>3. CASE k = 4
      BY <1>1, <1>4, <3>3
    <3> QED
      BY <1>5, <3>1, <3>2, <3>3
  <2>6. K = k
    BY <2>2 DEF K, k
  <2>7. C + room' <= Capacity
    BY ONLY <1>1, <1>3, <2>1, <2>4, CapacityFacts
  <2>8. (C - V) % 4 = 0
    <3>1. (c + 1) - (v + 1) = c - v
      BY ONLY <1>1
    <3> QED
      BY <1>3, <2>1, <2>2, <3>1
  <2>9. Fits
    BY <2>2, <2>4, <2>5, <2>6, <2>7, <2>8
  <2>10. Quads
    BY <1>6, <2>2
  <2>11. Free
    BY <2>3
  <2> QED
    BY <2>9, <2>10, <2>11
<1>14. ASSUME LostVertex PROVE Goal
  <2>1. room >= k - corner /\ c >= Capacity
    BY <1>14 DEF LostVertex, Submit, c, d, k
  <2>2. corner < k
    BY <1>14 DEF SizesInv, LostVertex, Submit, d, k
  <2> QED
    BY ONLY <1>1, <1>3, <1>4, <1>5, <2>1, <2>2, CapacityFacts
<1>15. ASSUME rlEnd PROVE Goal
  <2>1. open' = FALSE /\ room' = 4 /\ corner' = 0
    BY <1>15 DEF rlEnd
  <2>2. 4 \in Nat /\ 4 <= Capacity
    BY CapacityFacts
  <2>3. CASE c >= Capacity - 4
    <3>1. batch' = NewBatch
      BY <1>15, <2>3, OtherSteps DEF c
    <3> QED
      BY <1>11, <2>1, <2>2, <3>1
  <2>4. CASE ~(c >= Capacity - 4)
    <3>1. batch' = batch
      BY <1>15, <2>4, OtherSteps DEF c
    <3>2. D = d /\ C = c
      BY <1>2, <3>1 DEF D, C
    <3>3. V = v /\ K = k
      BY <3>2 DEF V, v, K, k
    <3>4. c + 4 <= Capacity /\ c < Capacity - 4
      BY ONLY <1>1, <2>4, CapacityFacts
    <3>5. corner = 0
      BY <1>15 DEF rlEnd
    <3>6. Fits
      BY <1>3, <1>4, <2>1, <3>2, <3>3, <3>4, <3>5
    <3> QED
      BY <1>6, <2>1, <3>2, <3>4, <3>6
  <2> QED
    BY <2>3, <2>4
<1>16. ASSUME NEW t \in Textures, rlSetTexture(t) PROVE Goal
  <2>1. ~open /\ open' = open /\ corner' = corner /\ room' = room
    BY <1>16 DEF rlSetTexture
  <2>2. CASE d.textureId = t
    <3>1. D = d /\ C = c
      BY <1>2, <1>16, <2>2, SetTextureStep DEF d, D, c, C
    <3> QED
      BY <1>9, <2>1, <3>1
  <2>3. CASE d.textureId # t
    <3>1. /\ D.mode = Slot(NextDraw(batch)).mode /\ V = 0
          /\ C = Len(NextDraw(batch).vertices)
      BY <1>16, <2>3, SetTextureStep DEF d, D, C, V
    <3>2. C \in Nat /\ C + room' <= Capacity /\ C % 4 = 0
      BY <2>1, <3>1, RoomAtNextDraw
    <3>3. Quads
      BY <2>1, <3>1, RoomAtNextDraw
    <3>4. corner' = 0 /\ (Reservations = {} => room' = 4)
      BY <1>4, <1>6, <2>1
    <3>5. ~(V > 0)
      BY <3>1
    <3>6. Fits
      BY <1>10, <3>1, <3>2, <3>4
    <3> QED
      BY <3>3, <3>4, <3>5, <3>6
  <2> QED
    BY <2>2, <2>3
<1>17. ASSUME NEW n \in Reservations, rlCheckRenderBatchLimit(n) PROVE Goal
  <2>1. ~open /\ room' = n /\ corner' = 0
    BY <1>4, <1>17 DEF rlCheckRenderBatchLimit
  <2>2. n \in Nat /\ n <= Capacity /\ Reservations # {}
    BY <1>17, HabitFacts, CapacityFacts
  <2>3. CASE c + n < Capacity /\ batch' = batch
    <3>1. D = d /\ C = c
      BY <1>2, <2>3 DEF D, C
    <3>2. V = v /\ K = k
      BY <3>1 DEF V, v, K, k
    <3>3. C + room' <= Capacity
      BY ONLY <1>1, <2>1, <2>2, <2>3, <3>1, CapacityFacts
    <3>4. corner' = corner
      BY <1>17 DEF rlCheckRenderBatchLimit
    <3>5. Fits
      BY <1>3, <1>4, <3>1, <3>2, <3>3, <3>4
    <3> QED
      BY <1>6, <2>2, <3>1, <3>5
  <2>4. CASE C = 0 /\ V = 0 /\ D.mode = d.mode
    <3>1. C \in Nat /\ C % 4 = 0 /\ C + room' <= Capacity
      BY ONLY <2>1, <2>2, <2>4
    <3>2. Fits
      BY <1>10, <2>1, <2>4, <3>1
    <3> QED
      BY <1>6, <2>2, <2>4, <3>2
  <2> QED
    BY <1>17, <2>3, <2>4, ReservationStep DEF c, C, D, V, d
<1>18. ASSUME \/ UnsetTexture \/ rlDrawRenderBatchActive
              \/ \E s \in Shaders : rlSetShader(s)
              \/ \E m \in Blends : rlSetBlendMode(m)
              \/ \E f \in Factors : rlSetBlendFactors(f)
       PROVE  Goal
  <2>1. ~open /\ open' = open /\ corner' = corner /\ room' = room
    BY <1>18 DEF UnsetTexture, rlDrawRenderBatchActive,
       rlSetShader, rlSetBlendMode, rlSetBlendFactors, caller
  <2>2. batch' \in {batch, NewBatch}
    BY <1>18, OtherSteps
  <2>3. CASE batch' = batch
    <3>1. D = d /\ C = c
      BY <1>2, <2>3 DEF D, C
    <3> QED
      BY <1>9, <2>1, <3>1
  <2>4. CASE batch' = NewBatch
    <3>1. room' \in Nat /\ room' <= Capacity
      BY <1>3, <2>1
    <3>2. corner' = 0 /\ (Reservations = {} => room' = 4)
      BY <1>4, <1>6, <2>1
    <3> QED
      BY <1>11, <2>4, <3>1, <3>2
  <2> QED
    BY <2>2, <2>3, <2>4
<1>19. ASSUME UNCHANGED vars PROVE Goal
  <2>1. open' = open /\ corner' = corner /\ room' = room /\ batch' = batch
    BY <1>19 DEF vars, caller
  <2>2. D = d /\ C = c
    BY <1>2, <2>1 DEF D, C
  <2> QED
    BY <1>9, <2>1, <2>2
<1> HIDE DEF Goal
<1>20. Goal
  BY <1>12, <1>13, <1>14, <1>15, <1>16, <1>17, <1>18, <1>19 DEF Next
<1> QED
  BY <1>2, <1>20, HabitStep DEF RoomInv, Goal, C, D, V, K

(* A caller that relies on rlEnd, or reserves and draws quads, loses no    *)
(* vertex, whatever the size of the buffer and the list of draw calls.     *)
THEOREM RoomCorrect == Spec => []RoomKept
<1> DEFINE Inv == Disciplined => RoomInv
<1>1. Inv => RoomKept
  BY DEF RoomInv, RoomKept
<1>2. SizesInv /\ Inv /\ [Next]_vars => SizesInv' /\ Inv'
  BY SizesStep, RoomStep, HabitStep
<1>3. Init => Inv
  BY RoomInit
<1> QED
  BY <1>1, <1>2, <1>3, SizesInit, PTL DEF Spec

-----------------------------------------------------------------------------

(* The draw call in use has the texture asked for, and else the last one   *)
(* asked for or the default; lines and triangles are left in the default   *)
(* texture, so leaving them does not lose it.                              *)
TextureInv ==
  /\ asked.texture \in {0, asked.last}
  /\ CurrentDraw.textureId \in {DefaultTexture, asked.last}
  /\ CurrentDraw.mode # RL_QUADS => CurrentDraw.textureId = DefaultTexture
  /\ ~open /\ CurrentDraw.vertexCount = 0 => CurrentDraw.mode = RL_QUADS
  /\ ~open /\ asked.texture # 0 => CurrentDraw.textureId = asked.texture
  /\ open /\ CurrentDraw.mode = RL_QUADS /\ asked.texture # 0 =>
       CurrentDraw.textureId = asked.texture

LEMMA TextureInit == Init => TextureInv
<1> SUFFICES ASSUME Init PROVE TextureInv
  OBVIOUS
<1>1. CurrentDraw = NewDraw
  BY NewBatchFacts DEF Init, CurrentDraw
<1>2. asked.texture = 0 /\ asked.last = DefaultTexture /\ ~open
  BY DEF Init
<1>3. NewDraw.mode = RL_QUADS /\ NewDraw.textureId = DefaultTexture
  BY DEF NewDraw
<1> QED
  BY <1>1, <1>2, <1>3 DEF TextureInv

LEMMA TextureStep ==
  ASSUME SizesInv, RoomInv, TextureInv, Disciplined, [Next]_vars
  PROVE  TextureInv'
<1> DEFINE d == CurrentDraw
           D == Slot(batch')
           Goal == /\ asked'.texture \in {0, asked'.last}
                   /\ D.textureId \in {DefaultTexture, asked'.last}
                   /\ D.mode # RL_QUADS => D.textureId = DefaultTexture
                   /\ ~open' /\ D.vertexCount = 0 => D.mode = RL_QUADS
                   /\ ~open' /\ asked'.texture # 0 => D.textureId = asked'.texture
                   /\ open' /\ D.mode = RL_QUADS /\ asked'.texture # 0 =>
                        D.textureId = asked'.texture
<1>1. d = Slot(batch) /\ CurrentDraw' = D /\ d \in DrawCall
      /\ asked \in AskedType
  <2>1. Sized(batch)
    BY DEF SizesInv, TypeOK, Sized, vertexCounter, drawCounter, CurrentDraw
  <2> QED
    BY <2>1, SizedFacts DEF CurrentDraw, Slot, SizesInv, TypeOK, AskedType
<1>2. /\ asked.texture \in {0, asked.last}
      /\ d.textureId \in {DefaultTexture, asked.last}
      /\ d.mode # RL_QUADS => d.textureId = DefaultTexture
      /\ ~open /\ d.vertexCount = 0 => d.mode = RL_QUADS
      /\ ~open /\ asked.texture # 0 => d.textureId = asked.texture
      /\ open /\ d.mode = RL_QUADS /\ asked.texture # 0 =>
           d.textureId = asked.texture
  BY DEF TextureInv
<1>3. /\ NewDraw.mode = RL_QUADS /\ NewDraw.textureId = DefaultTexture
      /\ NewDraw.vertexCount = 0 /\ Slot(NewBatch) = NewDraw
  BY NewBatchFacts DEF NewDraw
<1>4. Reservations # {} => d.mode = RL_QUADS /\ Modes \subseteq {RL_QUADS}
  BY DEF RoomInv, Disciplined
<1> HIDE DEF d, D
<1>5. ASSUME NEW m \in Modes, rlBegin(m) PROVE Goal
  <2>1. ~open /\ open' /\ asked' = asked
    BY <1>5 DEF rlBegin
  <2>2. \/ d.mode = m /\ D = d
        \/ d.mode # m /\ D = [NewDraw EXCEPT !.mode = m]
    BY <1>1, <1>5, BeginStep DEF d, D
  <2>3. CASE d.mode = m /\ D = d
    BY <1>2, <2>1, <2>3
  <2>4. CASE d.mode # m /\ D = [NewDraw EXCEPT !.mode = m]
    <3>1. D.mode = m /\ D.textureId = DefaultTexture
      BY <2>4 DEF NewDraw
    <3>2. m = RL_QUADS /\ asked.texture # 0 => DefaultTexture = asked.texture
      BY <1>2, <2>1, <2>4
    <3> QED
      BY <1>2, <2>1, <3>1, <3>2
  <2> QED
    BY <2>2, <2>3, <2>4
<1>6. ASSUME rlVertex3f PROVE Goal
  <2>1. D = [d EXCEPT !.vertexCount = @ + 1]
    BY <1>6, VertexStep DEF d, D
  <2>2. D.mode = d.mode /\ D.textureId = d.textureId
    BY <1>1, <2>1 DEF DrawCall
  <2>3. open /\ open' = open /\ asked' = asked
    BY <1>6 DEF rlVertex3f, Submit
  <2> QED
    BY <1>2, <2>2, <2>3
<1>7. ASSUME rlEnd PROVE Goal
  <2>1. /\ open' = FALSE /\ d.vertexCount > 0
        /\ asked'.texture = 0 /\ asked'.last = asked.last
    BY <1>1, <1>7 DEF rlEnd, d, AskedType
  <2>2. D = NewDraw \/ D = d
    BY <1>1, <1>3, <1>7, OtherSteps DEF D
  <2>3. d.vertexCount # 0
    BY <2>1
  <2> QED
    BY <1>2, <1>3, <2>1, <2>2, <2>3
<1>8. ASSUME NEW t \in Textures, rlSetTexture(t) PROVE Goal
  <2>1. ~open /\ open' = open /\ asked'.texture = t /\ asked'.last = t
    BY <1>1, <1>8 DEF rlSetTexture, AskedType
  <2>2. CASE d.textureId = t
    <3>1. D = d
      BY <1>1, <1>8, <2>2, SetTextureStep DEF d, D
    <3> QED
      BY <1>2, <2>1, <2>2, <3>1
  <2>3. CASE d.textureId # t
    <3>1. D.textureId = t /\ D.mode = Slot(NextDraw(batch)).mode
      BY <1>8, <2>3, SetTextureStep DEF d, D
    <3>2. D.mode = RL_QUADS
      <4>1. CASE Reservations # {}
        BY <2>1, <3>1, <4>1, RoomAtNextDraw
      <4>2. CASE Reservations = {}
        BY <1>1, <1>2, <1>3, <2>1, <3>1, <4>2, RoomAtNextDraw DEF d
      <4> QED
        BY <4>1, <4>2
    <3> QED
      BY <2>1, <3>1, <3>2
  <2> QED
    BY <2>2, <2>3
<1>9. ASSUME NEW n \in Reservations, rlCheckRenderBatchLimit(n) PROVE Goal
  <2>1. ~open /\ open' = open /\ asked' = asked
    BY <1>9 DEF rlCheckRenderBatchLimit
  <2>2. D.mode = d.mode /\ D.textureId = d.textureId
    BY <1>1, <1>9, ReservationStep DEF d, D
  <2>3. d.mode = RL_QUADS
    BY <1>4, <1>9
  <2> QED
    BY <1>2, <2>1, <2>2, <2>3
<1>10. ASSUME \/ UnsetTexture \/ rlDrawRenderBatchActive
              \/ \E s \in Shaders : rlSetShader(s)
              \/ \E m \in Blends : rlSetBlendMode(m)
       PROVE  Goal
  <2>1. open' = open /\ ~open /\ asked'.texture = 0 /\ asked'.last = asked.last
    BY <1>1, <1>10 DEF UnsetTexture, rlDrawRenderBatchActive, rlSetShader,
       rlSetBlendMode, AskedType
  <2>2. D = d \/ D = NewDraw
    BY <1>1, <1>3, <1>10, OtherSteps DEF D
  <2> QED
    BY <1>2, <1>3, <2>1, <2>2
<1>11. ASSUME LostVertex \/ UNCHANGED vars \/ \E f \in Factors : rlSetBlendFactors(f)
       PROVE  Goal
  <2>1. open' = open /\ asked' = asked /\ batch' = batch
    BY <1>11 DEF LostVertex, Submit, BatchIs, rlSetBlendFactors, caller, vars
  <2>2. D = d
    BY <1>1, <2>1 DEF D
  <2> QED
    BY <1>2, <2>1, <2>2
<1> HIDE DEF Goal
<1>12. Goal
  BY <1>5, <1>6, <1>7, <1>8, <1>9, <1>10, <1>11 DEF Next
<1> QED
  BY <1>1, <1>12 DEF TextureInv, Goal

(* A quad is drawn with the texture its caller set, whatever was closed or *)
(* drawn in between, unless it reserves room for lines and triangles.      *)
THEOREM TextureCorrect == Spec => []TextureKept
<1> DEFINE Inv == Disciplined => RoomInv /\ TextureInv
<1>1. Inv => TextureKept
  BY DEF TextureInv, TextureKept
<1>2. SizesInv /\ Inv /\ [Next]_vars => SizesInv' /\ Inv'
  BY SizesStep, RoomStep, TextureStep, HabitStep
<1>3. Init => Inv
  BY RoomInit, TextureInit
<1> QED
  BY <1>1, <1>2, <1>3, SizesInit, PTL DEF Spec

-----------------------------------------------------------------------------
(* Numbers.                                                                *)

(* A set of numbers has a least one.                                       *)
LEMMA Least ==
  ASSUME NEW S, S \subseteq Nat, S # {}
  PROVE  \E n \in S : \A m \in S : n <= m
<1> DEFINE R == OpToRel(<, Nat)
<1>1. IsWellFoundedOn(R, Nat)
  BY NatLessThanWellFounded
<1> HIDE DEF R
<1>2. PICK n \in S : \A m \in S : <<m, n>> \notin R
  BY <1>1, WFMin
<1>3. \A m \in S : ~(m < n)
  BY <1>2 DEF R, OpToRel
<1> QED
  BY <1>3

(* Induction, over the set of the numbers something holds for.             *)
LEMMA Induct ==
  ASSUME NEW S, 0 \in S, \A n \in Nat : n \in S => n + 1 \in S
  PROVE  Nat \subseteq S
<1> SUFFICES ASSUME Nat \ S # {} PROVE FALSE
  OBVIOUS
<1>1. PICK n \in Nat \ S : \A m \in Nat \ S : n <= m
  BY Least
<1>2. n - 1 \in Nat /\ n - 1 \notin Nat \ S
  BY <1>1
<1> QED
  BY <1>1, <1>2

-----------------------------------------------------------------------------
(* The recursive functions of the loop.                                    *)

(* The offsets of the draw calls obey the recursion of rlDrawRenderBatch.  *)
LEMMA OffsetEquation ==
  ASSUME NEW draws, Len(draws) \in Nat
  PROVE  VertexOffset(draws) =
           [i \in 1..Len(draws) |->
              IF i = 1 THEN 0
              ELSE VertexOffset(draws)[i - 1] + draws[i - 1].vertexCount
                     + draws[i - 1].vertexAlignment]
<1> DEFINE Body(f, i) == IF i = 1 THEN 0
                         ELSE f[i - 1] + draws[i - 1].vertexCount
                                + draws[i - 1].vertexAlignment
           Solution(n, f) == f = [i \in 1..n |-> Body(f, i)]
           S == {n \in Nat : \E f : Solution(n, f)}
<1>1. 0 \in S
  <2>1. Solution(0, [i \in 1..0 |-> 0])
    OBVIOUS
  <2> QED
    BY <2>1
<1>2. ASSUME NEW n \in Nat, n \in S
      PROVE  n + 1 \in S
  <2>1. PICK f : Solution(n, f)
    BY <1>2
  <2> DEFINE g == [i \in 1..(n + 1) |-> IF i = n + 1 THEN Body(f, i) ELSE f[i]]
  <2>2. \A i \in 1..n : f[i] = Body(f, i)
    BY <2>1
  <2>3. ASSUME NEW i \in 1..(n + 1) PROVE g[i] = Body(g, i)
    <3>1. i = 1 \/ (i # 1 /\ i - 1 \in 1..n /\ g[i - 1] = f[i - 1])
      OBVIOUS
    <3>2. Body(g, i) = Body(f, i)
      BY <3>1
    <3>3. i \in 1..n => g[i] = f[i]
      OBVIOUS
    <3> QED
      BY <2>2, <3>2, <3>3
  <2>4. g = [i \in 1..(n + 1) |-> g[i]]
    OBVIOUS
  <2> HIDE DEF g
  <2>5. Solution(n + 1, g)
    BY <2>3, <2>4
  <2> HIDE DEF Solution
  <2> QED
    BY <2>5
<1> HIDE DEF S
<1>3. Len(draws) \in S
  BY <1>1, <1>2, Induct
<1>4. \E f : Solution(Len(draws), f)
  BY <1>3 DEF S
<1>5. VertexOffset(draws) = CHOOSE f : Solution(Len(draws), f)
  BY DEF VertexOffset
<1> QED
  BY <1>4, <1>5

(* Lists are joined one after the other.                                   *)
LEMMA FlattenEquation ==
  ASSUME NEW lists, Len(lists) \in Nat, Len(lists) > 0
  PROVE  \E f : /\ f = [i \in 1..Len(lists) |-> IF i = 1 THEN lists[i]
                                                ELSE f[i - 1] \o lists[i]]
                /\ FlattenSeq(lists) = f[Len(lists)]
<1> DEFINE Body(f, i) == IF i = 1 THEN lists[i] ELSE f[i - 1] \o lists[i]
           Solution(n, f) == f = [i \in 1..n |-> Body(f, i)]
           S == {n \in Nat : \E f : Solution(n, f)}
<1>1. 0 \in S
  <2>1. Solution(0, [i \in 1..0 |-> 0])
    OBVIOUS
  <2> QED
    BY <2>1
<1>2. ASSUME NEW n \in Nat, n \in S
      PROVE  n + 1 \in S
  <2>1. PICK f : Solution(n, f)
    BY <1>2
  <2> DEFINE g == [i \in 1..(n + 1) |-> IF i = n + 1 THEN Body(f, i) ELSE f[i]]
  <2>2. \A i \in 1..n : f[i] = Body(f, i)
    BY <2>1
  <2>3. ASSUME NEW i \in 1..(n + 1) PROVE g[i] = Body(g, i)
    <3>1. i = 1 \/ (i # 1 /\ i - 1 \in 1..n /\ g[i - 1] = f[i - 1])
      OBVIOUS
    <3>2. Body(g, i) = Body(f, i)
      BY <3>1
    <3>3. i \in 1..n => g[i] = f[i]
      OBVIOUS
    <3> QED
      BY <2>2, <3>2, <3>3
  <2>4. g = [i \in 1..(n + 1) |-> g[i]]
    OBVIOUS
  <2> HIDE DEF g
  <2>5. Solution(n + 1, g)
    BY <2>3, <2>4
  <2> HIDE DEF Solution
  <2> QED
    BY <2>5
<1> HIDE DEF S
<1>3. Len(lists) \in S
  BY <1>1, <1>2, Induct
<1>4. \E f : Solution(Len(lists), f)
  BY <1>3 DEF S
<1>5. FlattenSeq(lists) = (CHOOSE f : Solution(Len(lists), f))[Len(lists)]
  BY DEF FlattenSeq
<1> QED
  BY <1>4, <1>5

(* The last of the lists comes last.                                       *)
LEMMA FlattenSplit ==
  ASSUME NEW T, NEW n \in Nat, NEW lists \in [1..(n + 1) -> Seq(T)],
         NEW front, front = [i \in 1..n |-> lists[i]]
  PROVE  /\ FlattenSeq(front) \in Seq(T)
         /\ FlattenSeq(lists) = FlattenSeq(front) \o lists[n + 1]
<1>1. /\ lists \in Seq(Seq(T)) /\ Len(lists) = n + 1
      /\ front \in Seq(Seq(T)) /\ Len(front) = n
  OBVIOUS
<1>2. PICK f : /\ f = [i \in 1..(n + 1) |-> IF i = 1 THEN lists[i]
                                            ELSE f[i - 1] \o lists[i]]
               /\ FlattenSeq(lists) = f[n + 1]
  <2>1. Len(lists) \in Nat /\ Len(lists) > 0 /\ Len(lists) = n + 1
    BY <1>1
  <2> QED
    BY <2>1, FlattenEquation
<1>3. \A i \in 1..(n + 1) : f[i] = IF i = 1 THEN lists[i] ELSE f[i - 1] \o lists[i]
  BY <1>2
<1>4. CASE n = 0
  <2>1. front = <<>>
    BY <1>1, <1>4
  <2>2. FlattenSeq(front) = <<>>
    BY <2>1 DEF FlattenSeq
  <2>3. FlattenSeq(lists) = lists[1] /\ lists[1] \in Seq(T)
    BY <1>2, <1>3, <1>4
  <2>4. <<>> \o lists[1] = lists[1] /\ n + 1 = 1
    BY <1>4, <2>3, ConcatEmptySeq
  <2> QED
    BY <2>2, <2>3, <2>4
<1>5. CASE n > 0
  <2>1. PICK g : /\ g = [i \in 1..n |-> IF i = 1 THEN front[i]
                                        ELSE g[i - 1] \o front[i]]
                 /\ FlattenSeq(front) = g[n]
    BY <1>1, <1>5, FlattenEquation
  <2>2. \A i \in 1..n : g[i] = IF i = 1 THEN lists[i] ELSE g[i - 1] \o lists[i]
    BY <2>1
  <2> DEFINE S == {k \in Nat : k \in 1..n => f[k] = g[k] /\ g[k] \in Seq(T)}
  <2>3. 0 \in S
    OBVIOUS
  <2>4. ASSUME NEW k \in Nat, k \in S PROVE k + 1 \in S
    <3>1. CASE k = 0
      BY <1>3, <2>2, <3>1
    <3>2. CASE k > 0 /\ k + 1 \in 1..n
      <4>1. f[k] = g[k] /\ g[k] \in Seq(T)
        BY <2>4, <3>2
      <4>2. /\ k + 1 \in 1..n /\ k + 1 \in 1..(n + 1) /\ k + 1 # 1 /\ (k + 1) - 1 = k
            /\ lists[k + 1] \in Seq(T)
        BY <3>2
      <4>3. f[k + 1] = f[k] \o lists[k + 1] /\ g[k + 1] = g[k] \o lists[k + 1]
        BY <1>3, <2>2, <4>2
      <4>4. g[k] \o lists[k + 1] \in Seq(T)
        BY <4>1, <4>2, ConcatProperties
      <4>5. f[k + 1] = g[k + 1] /\ g[k + 1] \in Seq(T)
        BY <4>1, <4>3, <4>4
      <4> QED
        BY <4>5
    <3>3. CASE ~(k + 1 \in 1..n)
      BY <3>3
    <3> QED
      BY <3>1, <3>2, <3>3
  <2> HIDE DEF S
  <2>5. n \in S
    BY <2>3, <2>4, Induct
  <2>6. f[n] = g[n] /\ g[n] \in Seq(T)
    BY <1>5, <2>5 DEF S
  <2>7. f[n + 1] = f[n] \o lists[n + 1]
    <3>1. n + 1 \in 1..(n + 1) /\ n + 1 # 1 /\ (n + 1) - 1 = n
      BY <1>5
    <3> QED
      BY <1>3, <3>1
  <2> QED
    BY <1>2, <2>1, <2>6, <2>7
<1> QED
  BY <1>4, <1>5

-----------------------------------------------------------------------------
(* Where the draw calls begin in the buffer.                               *)

(* What is known of a draw call.                                           *)
LEMMA DrawCallFacts ==
  ASSUME NEW d \in DrawCall
  PROVE  /\ d.vertexCount \in Nat /\ d.vertexAlignment \in Nat
         /\ d.mode \in {1, 4, 7} /\ d.textureId \in Textures
BY CapacityFacts DEF DrawCall, PrimitiveModes, RL_LINES, RL_TRIANGLES, RL_QUADS

(* A draw call begins where the one before and its padding end.            *)
LEMMA OffsetFacts ==
  ASSUME NEW draws \in Seq(DrawCall)
  PROVE  /\ \A i \in 1..Len(draws) : VertexOffset(draws)[i] \in Nat
         /\ Len(draws) > 0 => VertexOffset(draws)[1] = 0
         /\ \A i \in 1..Len(draws) : i > 1 =>
              VertexOffset(draws)[i] = VertexOffset(draws)[i - 1]
                + draws[i - 1].vertexCount + draws[i - 1].vertexAlignment
<1> DEFINE o == VertexOffset(draws)
           n == Len(draws)
           S == {i \in Nat : i \in 1..n => o[i] \in Nat}
<1>1. n \in Nat
  OBVIOUS
<1>2. \A i \in 1..n : o[i] = IF i = 1 THEN 0
                             ELSE o[i - 1] + draws[i - 1].vertexCount
                                    + draws[i - 1].vertexAlignment
  BY <1>1, OffsetEquation
<1> HIDE DEF o
<1>3. 0 \in S
  OBVIOUS
<1>4. ASSUME NEW i \in Nat, i \in S PROVE i + 1 \in S
  <2>1. CASE i = 0
    BY <1>2, <2>1
  <2>2. CASE i > 0 /\ i + 1 \in 1..n
    <3>1. o[i] \in Nat /\ i \in 1..n
      BY <1>4, <2>2
    <3>2. draws[i].vertexCount \in Nat /\ draws[i].vertexAlignment \in Nat
      BY <3>1, ElementOfSeq, DrawCallFacts
    <3>3. i + 1 # 1 /\ (i + 1) - 1 = i
      BY <2>2
    <3>4. o[i + 1] = o[i] + draws[i].vertexCount + draws[i].vertexAlignment
      BY <1>2, <2>2, <3>3
    <3>5. o[i + 1] \in Nat
      BY <3>1, <3>2, <3>4
    <3> QED
      BY <3>5
  <2>3. CASE ~(i + 1 \in 1..n)
    BY <2>3
  <2> QED
    BY <2>1, <2>2, <2>3
<1> HIDE DEF S
<1>5. \A i \in 1..n : o[i] \in Nat
  <2>1. Nat \subseteq S
    BY <1>3, <1>4, Induct
  <2> QED
    BY <2>1 DEF S
<1> QED
  BY <1>2, <1>5 DEF o

(* An offset depends only on the draw calls before.                        *)
LEMMA OffsetPrefix ==
  ASSUME NEW ds \in Seq(DrawCall), NEW es \in Seq(DrawCall), NEW n \in Nat,
         n <= Len(ds), n <= Len(es),
         \A i \in 1..(n - 1) : /\ ds[i].vertexCount = es[i].vertexCount
                               /\ ds[i].vertexAlignment = es[i].vertexAlignment
  PROVE  \A i \in 1..n : VertexOffset(ds)[i] = VertexOffset(es)[i]
<1> DEFINE o == VertexOffset(ds)
           p == VertexOffset(es)
           S == {i \in Nat : i \in 1..n => o[i] = p[i]}
<1>1. /\ \A i \in 1..n : i \in 1..Len(ds) /\ i \in 1..Len(es)
      /\ n > 0 => Len(ds) > 0 /\ Len(es) > 0
  OBVIOUS
<1>2. /\ n > 0 => o[1] = 0 /\ p[1] = 0
      /\ \A i \in 1..n : i > 1 =>
           /\ o[i] = o[i - 1] + ds[i - 1].vertexCount + ds[i - 1].vertexAlignment
           /\ p[i] = p[i - 1] + es[i - 1].vertexCount + es[i - 1].vertexAlignment
  BY <1>1, OffsetFacts
<1> HIDE DEF o, p
<1>3. 0 \in S
  OBVIOUS
<1>4. ASSUME NEW i \in Nat, i \in S PROVE i + 1 \in S
  <2>1. CASE i = 0
    BY <1>2, <2>1
  <2>2. CASE i > 0 /\ i + 1 \in 1..n
    <3>1. o[i] = p[i] /\ i \in 1..(n - 1)
      BY <1>4, <2>2
    <3>2. i + 1 > 1 /\ (i + 1) - 1 = i
      BY <2>2
    <3>3. o[i + 1] = p[i + 1]
      BY <1>2, <2>2, <3>1, <3>2
    <3> QED
      BY <3>3
  <2>3. CASE ~(i + 1 \in 1..n)
    BY <2>3
  <2> QED
    BY <2>1, <2>2, <2>3
<1> HIDE DEF S
<1>5. Nat \subseteq S
  BY <1>3, <1>4, Induct
<1> QED
  BY <1>5 DEF S, o, p

(* A draw call ends before the last one begins.                            *)
LEMMA OffsetMonotone ==
  ASSUME NEW draws \in Seq(DrawCall), NEW i \in 1..Len(draws), i < Len(draws)
  PROVE  VertexOffset(draws)[i] + draws[i].vertexCount
           <= VertexOffset(draws)[Len(draws)]
<1> DEFINE o == VertexOffset(draws)
           n == Len(draws)
           S == {j \in Nat : j \in (i + 1)..n => o[i] + draws[i].vertexCount <= o[j]}
<1>1. /\ \A j \in 1..n : o[j] \in Nat
      /\ \A j \in 1..n : j > 1 =>
           o[j] = o[j - 1] + draws[j - 1].vertexCount + draws[j - 1].vertexAlignment
  BY OffsetFacts
<1>2. \A j \in 1..n : draws[j].vertexCount \in Nat /\ draws[j].vertexAlignment \in Nat
  BY ElementOfSeq, DrawCallFacts
<1>3. n \in Nat /\ i \in Nat /\ i >= 1
  OBVIOUS
<1> HIDE DEF o, n
<1>4. 0 \in S
  BY <1>3
<1>5. ASSUME NEW j \in Nat, j \in S PROVE j + 1 \in S
  <2>1. CASE ~(j + 1 \in (i + 1)..n)
    BY <2>1
  <2>2. CASE j + 1 \in (i + 1)..n
    <3>1. /\ j \in 1..n /\ j + 1 \in 1..n /\ j + 1 > 1 /\ (j + 1) - 1 = j
          /\ j = i \/ j \in (i + 1)..n
      BY <1>3, <2>2
    <3>2. o[j + 1] = o[j] + draws[j].vertexCount + draws[j].vertexAlignment
      BY <1>1, <3>1
    <3>3. o[i] + draws[i].vertexCount <= o[j + 1]
      <4> DEFINE v == draws[j].vertexCount
                 w == draws[j].vertexAlignment
                 u == draws[i].vertexCount
      <4>1. /\ v \in Nat /\ w \in Nat /\ u \in Nat /\ o[i] \in Nat
            /\ o[j] \in Nat /\ o[j + 1] = o[j] + v + w
        <5>1. i \in 1..n /\ j \in 1..n
          BY <3>1 DEF n
        <5>2. v \in Nat /\ w \in Nat /\ u \in Nat
          BY ONLY <1>2, <5>1
        <5>3. o[i] \in Nat /\ o[j] \in Nat
          BY ONLY <1>1, <5>1
        <5> QED
          BY ONLY <3>2, <5>2, <5>3
      <4>2. j = i => u = v
        OBVIOUS
      <4>3. j = i \/ o[i] + u <= o[j]
        BY <1>5, <3>1 DEF S
      <4> HIDE DEF u, v, w
      <4>4. CASE j = i
        BY ONLY <4>1, <4>2, <4>4 DEF u
      <4>5. CASE o[i] + u <= o[j]
        BY ONLY <4>1, <4>5 DEF u
      <4> QED
        BY ONLY <4>3, <4>4, <4>5
    <3> QED
      BY <3>3
  <2> QED
    BY <2>1, <2>2
<1> HIDE DEF S
<1>6. n \in S
  BY <1>3, <1>4, <1>5, Induct
<1>7. n \in (i + 1)..n
  BY <1>3 DEF n
<1> QED
  BY <1>6, <1>7 DEF S, o, n

-----------------------------------------------------------------------------
(* The primitives of a draw call.                                          *)

(* A primitive lies within its draw call; OpenGL's rounding down to a      *)
(* multiple of 4 does not move the first quad of one that begins there.    *)
LEMMA FirstVertexFacts ==
  ASSUME NEW d \in DrawCall, NEW o \in Nat,
         NEW k \in 1..(d.vertexCount \div Corners(d.mode))
  PROVE  /\ FirstVertex(d, o, k) \in Nat
         /\ FirstVertex(d, o, k) + Corners(d.mode) <= o + d.vertexCount
         /\ o % 4 = 0 => FirstVertex(d, o, k) = o + Corners(d.mode) * (k - 1)
<1>1. d.vertexCount \in Nat /\ d.mode \in {1, 4, 7}
  BY DrawCallFacts
<1>2. CASE d.mode = 1
  <2>1. Corners(d.mode) = 2 /\ FirstVertex(d, o, k) = o + 2 * (k - 1)
    BY <1>2 DEF Corners, FirstVertex, RL_LINES, RL_TRIANGLES, RL_QUADS
  <2> QED
    BY <1>1, <2>1
<1>3. CASE d.mode = 4
  <2>1. Corners(d.mode) = 3 /\ FirstVertex(d, o, k) = o + 3 * (k - 1)
    BY <1>3 DEF Corners, FirstVertex, RL_LINES, RL_TRIANGLES, RL_QUADS
  <2> QED
    BY <1>1, <2>1
<1>4. CASE d.mode = 7
  <2>1. Corners(d.mode) = 4 /\ FirstVertex(d, o, k) = 4 * (o \div 4 + k - 1)
    BY <1>4 DEF Corners, FirstVertex, RL_LINES, RL_TRIANGLES, RL_QUADS
  <2> QED
    BY <1>1, <2>1
<1> QED
  BY <1>1, <1>2, <1>3, <1>4

(* What h draws is what g drew, as far as the vertices of g reach.         *)
Extends(h, g) ==
  /\ Len(g.vertices) \in Nat /\ Len(h.vertices) \in Nat
  /\ Len(g.vertices) <= Len(h.vertices)
  /\ \A j \in 1..Len(g.vertices) : h.vertices[j] = g.vertices[j]
  /\ h.shader = g.shader /\ h.blend = g.blend

(* A primitive is the same in a buffer that goes on.                       *)
LEMMA AssembledSame ==
  ASSUME NEW g, NEW h, Extends(h, g), NEW d, NEW e,
         e.mode = d.mode, e.textureId = d.textureId,
         NEW first \in Nat, first + Corners(d.mode) <= Len(g.vertices)
  PROVE  Assembled(h, e, first) = Assembled(g, d, first)
<1> DEFINE v(c) == g.vertices[first + c]
           w(c) == h.vertices[first + c]
<1>1. Corners(d.mode) \in {2, 3, 4}
  BY CornersFacts
<1>2. \A c \in 1..Corners(d.mode) : v(c) = w(c)
  BY <1>1 DEF Extends
<1>3. first + Corners(d.mode) <= Len(h.vertices)
  BY <1>1 DEF Extends
<1>4. Assembled(g, d, first) =
        IF \A c \in 1..Corners(d.mode) : v(c) = [mode |-> d.mode, corner |-> c]
        THEN [mode |-> d.mode, texture |-> d.textureId,
              shader |-> g.shader, blend |-> g.blend]
        ELSE Broken
  BY DEF Assembled
<1>5. Assembled(h, e, first) =
        IF \A c \in 1..Corners(d.mode) : w(c) = [mode |-> d.mode, corner |-> c]
        THEN [mode |-> d.mode, texture |-> d.textureId,
              shader |-> g.shader, blend |-> g.blend]
        ELSE Broken
  BY <1>3 DEF Assembled, Extends
<1> HIDE DEF v, w
<1> QED
  BY <1>2, <1>4, <1>5

(* So are the primitives of a draw call.                                   *)
LEMMA PrimitivesSame ==
  ASSUME NEW g, NEW h, Extends(h, g), NEW d \in DrawCall, NEW e \in DrawCall,
         e.mode = d.mode, e.textureId = d.textureId,
         e.vertexCount = d.vertexCount,
         NEW o \in Nat, o + d.vertexCount <= Len(g.vertices)
  PROVE  Primitives(h, e, o) = Primitives(g, d, o)
<1>1. ASSUME NEW k \in 1..(d.vertexCount \div Corners(d.mode))
      PROVE  Assembled(h, e, FirstVertex(e, o, k)) = Assembled(g, d, FirstVertex(d, o, k))
  <2>1. FirstVertex(e, o, k) = FirstVertex(d, o, k)
    BY DEF FirstVertex
  <2>2. /\ FirstVertex(d, o, k) \in Nat
        /\ FirstVertex(d, o, k) + Corners(d.mode) <= Len(g.vertices)
    <3>1. /\ FirstVertex(d, o, k) \in Nat
          /\ FirstVertex(d, o, k) + Corners(d.mode) <= o + d.vertexCount
      BY FirstVertexFacts
    <3>2. /\ Corners(d.mode) \in Nat /\ d.vertexCount \in Nat
          /\ Len(g.vertices) \in Nat
      BY DrawCallFacts, CornersFacts DEF Extends
    <3> QED
      BY <3>1, <3>2
  <2> QED
    BY <2>1, <2>2, AssembledSame
<1> QED
  BY <1>1 DEF Primitives

(* A draw call without vertices draws nothing.                             *)
LEMMA NoPrimitives ==
  ASSUME NEW g, NEW d, d.vertexCount = 0, NEW o
  PROVE  Primitives(g, d, o) = <<>>
<1>1. Corners(d.mode) \in {2, 3, 4}
  BY CornersFacts
<1>2. 0 \div Corners(d.mode) = 0
  BY <1>1
<1> QED
  BY <1>2 DEF Primitives

-----------------------------------------------------------------------------
(* What is drawn, taken apart by draw calls.                               *)

(* Types of what is given to OpenGL and of what it shows.                  *)
Issues == [draws : Seq(DrawCall), vertices : Seq(Vertex),
           shader : {0} \cup Shaders, blend : BlendFunction]

Shown == [mode : {0} \cup PrimitiveModes, texture : {0} \cup Textures,
          shader : {0} \cup Shaders, blend : BlendFunction]

(* The primitives of a draw call, and of the first n.                      *)
Prims(g, i) == Primitives(g, g.draws[i], VertexOffset(g.draws)[i])

Before(g, n) == FlattenSeq([i \in 1..n |-> Prims(g, i)])

(* The primitives of every draw call are primitives.                       *)
LEMMA PrimsType ==
  ASSUME NEW g \in Issues, NEW i \in 1..Len(g.draws)
  PROVE  Prims(g, i) \in Seq(Shown)
<1> DEFINE d == g.draws[i]
           o == VertexOffset(g.draws)[i]
           n == d.vertexCount \div Corners(d.mode)
<1>1. d \in DrawCall
  BY ElementOfSeq DEF Issues
<1>2. d.mode \in PrimitiveModes /\ d.textureId \in Textures /\ d.vertexCount \in Nat
  BY <1>1, DrawCallFacts DEF DrawCall
<1> HIDE DEF d, o
<1>3. \A first : Assembled(g, d, first) \in Shown
  <2>1. DefaultBlend \in BlendFunction
    BY BatchAssumption DEF DefaultBlend, BlendFunction
  <2>2. Broken \in Shown
    BY <2>1 DEF Broken, Shown
  <2> TAKE first
  <2> DEFINE p == [mode |-> d.mode, texture |-> d.textureId,
                   shader |-> g.shader, blend |-> g.blend]
  <2>3. p \in Shown
    BY <1>2 DEF Shown, Issues
  <2>4. Assembled(g, d, first) \in {p, Broken}
    BY DEF Assembled
  <2> QED
    BY <2>2, <2>3, <2>4
<1>4. n \in Nat
  <2>1. Corners(d.mode) \in {2, 3, 4}
    BY CornersFacts
  <2> QED
    BY <1>2, <2>1
<1>5. Primitives(g, d, o) = [k \in 1..n |-> Assembled(g, d, FirstVertex(d, o, k))]
  BY DEF Primitives
<1> HIDE DEF n
<1>6. Primitives(g, d, o) \in Seq(Shown)
  BY <1>3, <1>4, <1>5
<1> QED
  BY <1>6 DEF Prims, d, o

(* One draw call after the other.                                          *)
LEMMA BeforeSplit ==
  ASSUME NEW g \in Issues, NEW n \in Nat, n < Len(g.draws)
  PROVE  /\ Before(g, 0) = <<>>
         /\ Before(g, n) \in Seq(Shown)
         /\ Prims(g, n + 1) \in Seq(Shown)
         /\ Before(g, n + 1) = Before(g, n) \o Prims(g, n + 1)
<1> DEFINE lists == [i \in 1..(n + 1) |-> Prims(g, i)]
           front == [i \in 1..n |-> Prims(g, i)]
<1>1. \A i \in 1..(n + 1) : i \in 1..Len(g.draws)
  BY DEF Issues
<1>2. lists \in [1..(n + 1) -> Seq(Shown)] /\ front = [i \in 1..n |-> lists[i]]
  BY <1>1, PrimsType
<1>3. lists[n + 1] = Prims(g, n + 1) /\ Prims(g, n + 1) \in Seq(Shown)
  BY <1>1, PrimsType
<1>4. Before(g, n) = FlattenSeq(front) /\ Before(g, n + 1) = FlattenSeq(lists)
  BY DEF Before
<1> HIDE DEF lists, front
<1>5. /\ FlattenSeq(front) \in Seq(Shown)
      /\ FlattenSeq(lists) = FlattenSeq(front) \o lists[n + 1]
  BY <1>2, FlattenSplit
<1>6. Before(g, 0) = <<>>
  BY DEF Before, FlattenSeq
<1> QED
  BY <1>3, <1>4, <1>5, <1>6

(* Everything is drawn by drawing every draw call.                         *)
LEMMA DrawnIsBefore ==
  ASSUME NEW g
  PROVE  Drawn(g) = Before(g, Len(g.draws))
BY DEF Drawn, Before, Prims

-----------------------------------------------------------------------------
(* The batch and what it would have drawn.                                 *)

(* A batch given to OpenGL with a shader and a blend function.             *)
Give(b, s, f) == [draws |-> b.draws, vertices |-> b.vertices,
                  shader |-> s, blend |-> f]

(* The draw calls account for the vertices.                                *)
Counted(b) ==
  /\ b \in Batches /\ Len(b.draws) > 0
  /\ VertexOffset(b.draws)[Len(b.draws)] + Slot(b).vertexCount = Len(b.vertices)

(* The types of a batch with its shader and blend function.                *)
LEMMA GiveFacts ==
  ASSUME NEW b, Counted(b), NEW s \in {0} \cup Shaders, NEW f \in BlendFunction
  PROVE  /\ Give(b, s, f) \in Issues
         /\ Give(b, s, f).draws = b.draws /\ Give(b, s, f).vertices = b.vertices
         /\ b.draws \in Seq(DrawCall) /\ b.vertices \in Seq(Vertex)
         /\ Len(b.draws) \in Nat \ {0} /\ Len(b.vertices) \in Nat
         /\ Slot(b) = b.draws[Len(b.draws)] /\ Slot(b) \in DrawCall
         /\ Slot(b).vertexCount \in Nat
         /\ VertexOffset(b.draws)[Len(b.draws)] \in Nat
         /\ VertexOffset(b.draws)[1] = 0
<1>1. b.draws \in Seq(DrawCall) /\ b.vertices \in Seq(Vertex)
  BY DEF Counted, Batches
<1>2. /\ Len(b.draws) \in Nat \ {0} /\ Len(b.vertices) \in Nat
      /\ Len(b.draws) \in 1..Len(b.draws)
  BY <1>1 DEF Counted
<1>3. Slot(b) \in DrawCall
  BY <1>1, <1>2, ElementOfSeq DEF Slot
<1>4. Give(b, s, f) \in Issues
  BY <1>1 DEF Give, Issues
<1>5. /\ VertexOffset(b.draws)[Len(b.draws)] \in Nat
      /\ VertexOffset(b.draws)[1] = 0
  BY <1>1, <1>2, OffsetFacts
<1> QED
  BY <1>1, <1>2, <1>3, <1>4, <1>5, DrawCallFacts DEF Give, Slot

(* All of its draw calls lie in the buffer.                                *)
LEMMA InBuffer ==
  ASSUME NEW b, Counted(b), NEW i \in 1..Len(b.draws)
  PROVE  /\ b.draws[i] \in DrawCall /\ VertexOffset(b.draws)[i] \in Nat
         /\ VertexOffset(b.draws)[i] + b.draws[i].vertexCount <= Len(b.vertices)
<1> DEFINE o == VertexOffset(b.draws)
           n == Len(b.draws)
<1>1. b.draws \in Seq(DrawCall) /\ n \in Nat /\ b.vertices \in Seq(Vertex)
  BY DEF Counted, Batches
<1>2. b.draws[i] \in DrawCall /\ b.draws[n] \in DrawCall /\ o[i] \in Nat /\ o[n] \in Nat
  BY <1>1, ElementOfSeq, OffsetFacts DEF Counted
<1>3. b.draws[i].vertexCount \in Nat /\ b.draws[n].vertexCount \in Nat
  BY <1>2, DrawCallFacts
<1>4. o[n] + b.draws[n].vertexCount = Len(b.vertices)
  BY DEF Counted, Slot
<1>5. i = n \/ o[i] + b.draws[i].vertexCount <= o[n]
  BY <1>1, OffsetMonotone
<1>6. Len(b.vertices) \in Nat
  BY <1>1
<1> HIDE DEF o, n
<1> QED
  <2> DEFINE v == b.draws[i].vertexCount
             w == b.draws[n].vertexCount
             L == Len(b.vertices)
             x == o[i]
             y == o[n]
  <2>1. /\ x \in Nat /\ y \in Nat /\ v \in Nat /\ w \in Nat /\ L \in Nat
        /\ y + w = L
    BY ONLY <1>2, <1>3, <1>4, <1>6
  <2>2. (x = y /\ v = w) \/ x + v <= y
    BY <1>5
  <2> HIDE DEF v, w, L, x, y
  <2>3. x + v <= L
    BY ONLY <2>1, <2>2
  <2>4. o[i] + b.draws[i].vertexCount <= Len(b.vertices)
    BY ONLY <2>3 DEF v, L, x
  <2> QED
    BY ONLY <1>2, <2>4 DEF o

(* An empty buffer draws nothing.                                          *)
LEMMA EmptyDrawn ==
  ASSUME NEW b, Counted(b), NEW s \in {0} \cup Shaders, NEW f \in BlendFunction,
         Len(b.vertices) = 0
  PROVE  Drawn(Give(b, s, f)) = <<>>
<1> DEFINE g == Give(b, s, f)
           n == Len(b.draws)
           S == {m \in Nat : m <= n => Before(g, m) = <<>>}
<1>1. g \in Issues /\ Len(g.draws) = n /\ g.draws = b.draws /\ n \in Nat \ {0}
  BY GiveFacts
<1>2. \A i \in 1..n : Prims(g, i) = <<>>
  <2> TAKE i \in 1..n
  <2>1. b.draws[i].vertexCount = 0
    BY InBuffer, DrawCallFacts
  <2> QED
    BY <1>1, <2>1, NoPrimitives DEF Prims
<1> HIDE DEF g, n
<1>3. 0 \in S
  BY <1>1, BeforeSplit
<1>4. ASSUME NEW m \in Nat, m \in S PROVE m + 1 \in S
  <2>1. CASE m + 1 <= n
    <3>1. Before(g, m) = <<>> /\ Prims(g, m + 1) = <<>>
      BY <1>1, <1>2, <1>4, <2>1
    <3>2. Before(g, m + 1) = <<>> \o <<>>
      BY <1>1, <2>1, <3>1, BeforeSplit
    <3> QED
      BY <3>2
  <2>2. CASE ~(m + 1 <= n)
    BY <2>2
  <2> QED
    BY <2>1, <2>2
<1> HIDE DEF S
<1>5. n \in S
  BY <1>1, <1>3, <1>4, Induct
<1>6. Before(g, n) = <<>>
  BY <1>1, <1>5 DEF S
<1> QED
  BY <1>1, <1>6, DrawnIsBefore DEF g

(* The draw calls before the last are drawn as they were, when only the    *)
(* last one changes and the buffer grows.                                  *)
LEMMA BeforeSame ==
  ASSUME NEW b, Counted(b), NEW c, Counted(c),
         NEW s \in {0} \cup Shaders, NEW f \in BlendFunction,
         Len(b.vertices) <= Len(c.vertices),
         \A j \in 1..Len(b.vertices) : c.vertices[j] = b.vertices[j],
         NEW n \in Nat, n <= Len(b.draws), n <= Len(c.draws),
         \A i \in 1..n : /\ c.draws[i].mode = b.draws[i].mode
                         /\ c.draws[i].textureId = b.draws[i].textureId
                         /\ c.draws[i].vertexCount = b.draws[i].vertexCount,
         \A i \in 1..(n - 1) :
           c.draws[i].vertexAlignment = b.draws[i].vertexAlignment
  PROVE  Before(Give(c, s, f), n) = Before(Give(b, s, f), n)
<1> DEFINE g == Give(b, s, f)
           h == Give(c, s, f)
<1>1. Extends(h, g)
  <2>1. Len(b.vertices) \in Nat /\ Len(c.vertices) \in Nat
    BY GiveFacts
  <2> QED
    BY <2>1 DEF Extends, Give
<1>2. \A i \in 1..n : VertexOffset(c.draws)[i] = VertexOffset(b.draws)[i]
  <2>1. /\ b.draws \in Seq(DrawCall) /\ c.draws \in Seq(DrawCall)
        /\ Len(b.draws) \in Nat /\ Len(c.draws) \in Nat
    BY GiveFacts
  <2>2. \A i \in 1..(n - 1) : i \in 1..n
    OBVIOUS
  <2> QED
    BY <2>1, <2>2, OffsetPrefix
<1>3. ASSUME NEW i \in 1..n PROVE Prims(h, i) = Prims(g, i)
  <2>1. /\ i \in 1..Len(b.draws) /\ i \in 1..Len(c.draws)
        /\ h.draws = c.draws /\ g.draws = b.draws
        /\ Len(g.vertices) = Len(b.vertices)
    BY GiveFacts DEF Give
  <2>2. /\ b.draws[i] \in DrawCall /\ c.draws[i] \in DrawCall
        /\ VertexOffset(b.draws)[i] \in Nat
        /\ VertexOffset(b.draws)[i] + b.draws[i].vertexCount <= Len(g.vertices)
    BY <2>1, InBuffer
  <2> DEFINE d == b.draws[i]
             e == c.draws[i]
             o == VertexOffset(b.draws)[i]
  <2>3. e.mode = d.mode /\ e.textureId = d.textureId /\ e.vertexCount = d.vertexCount
    OBVIOUS
  <2> HIDE DEF g, h, d, e, o
  <2>4. Primitives(h, e, o) = Primitives(g, d, o)
    <3>1. d \in DrawCall /\ e \in DrawCall /\ o \in Nat
      BY ONLY <2>2 DEF d, e, o
    <3>2. o + d.vertexCount <= Len(g.vertices)
      BY ONLY <2>2 DEF d, o
    <3> QED
      BY ONLY <1>1, <2>3, <3>1, <3>2, PrimitivesSame
  <2> QED
    BY <1>2, <2>1, <2>4 DEF Prims, d, e, o
<1> HIDE DEF g, h
<1>4. [i \in 1..n |-> Prims(h, i)] = [i \in 1..n |-> Prims(g, i)]
  BY <1>3
<1> QED
  BY <1>4 DEF Before, g, h

(* What the last draw call adds.                                           *)
LEMMA DrawnSplit ==
  ASSUME NEW b, Counted(b), NEW s \in {0} \cup Shaders, NEW f \in BlendFunction
  PROVE  /\ Len(b.draws) - 1 \in Nat
         /\ Before(Give(b, s, f), Len(b.draws) - 1) \in Seq(Shown)
         /\ Prims(Give(b, s, f), Len(b.draws)) \in Seq(Shown)
         /\ Prims(Give(b, s, f), Len(b.draws))
              = Primitives(Give(b, s, f), Slot(b), VertexOffset(b.draws)[Len(b.draws)])
         /\ Drawn(Give(b, s, f))
              = Before(Give(b, s, f), Len(b.draws) - 1)
                  \o Prims(Give(b, s, f), Len(b.draws))
<1> DEFINE g == Give(b, s, f)
           n == Len(b.draws)
           m == n - 1
<1>1. g \in Issues /\ g.draws = b.draws /\ Slot(b) = b.draws[n] /\ n \in Nat \ {0}
  BY GiveFacts
<1>2. m \in Nat /\ m + 1 = n /\ m < n
  BY <1>1
<1> HIDE DEF g, n, m
<1>3. /\ Before(g, m) \in Seq(Shown) /\ Prims(g, m + 1) \in Seq(Shown)
      /\ Before(g, m + 1) = Before(g, m) \o Prims(g, m + 1)
  <2>1. m < Len(g.draws)
    BY <1>1, <1>2 DEF n
  <2> QED
    BY <1>1, <1>2, <2>1, BeforeSplit
<1>4. Drawn(g) = Before(g, n)
  BY <1>1, DrawnIsBefore DEF n
<1>5. Prims(g, n) = Primitives(g, Slot(b), VertexOffset(b.draws)[n])
  BY <1>1 DEF Prims
<1> QED
  BY <1>2, <1>3, <1>4, <1>5 DEF g, n, m

(* The batch that rlDrawRenderBatch leaves is accounted for.               *)
LEMMA EmptyBatch ==
  ASSUME NEW b \in Batches, Len(b.draws) = 1, Len(b.vertices) = 0,
         Slot(b).vertexCount = 0
  PROVE  Counted(b)
<1>1. b.draws \in Seq(DrawCall)
  BY DEF Batches
<1>2. VertexOffset(b.draws)[1] = 0
  BY <1>1, OffsetFacts
<1> QED
  BY <1>2 DEF Counted

(* Changing a draw call that has no vertices.                              *)
LEMMA SlotDrawn ==
  ASSUME NEW b, Counted(b), NEW s \in {0} \cup Shaders, NEW f \in BlendFunction,
         NEW d \in DrawCall, d.vertexCount = 0, Slot(b).vertexCount = 0
  PROVE  /\ Counted(SetSlot(b, d))
         /\ Drawn(Give(SetSlot(b, d), s, f)) = Drawn(Give(b, s, f))
<1> DEFINE c == SetSlot(b, d)
           n == Len(b.draws)
<1>1. /\ c \in Batches /\ Len(c.draws) = n /\ Slot(c) = d /\ c.vertices = b.vertices
      /\ b \in Batches /\ n > 0
  BY SetSlotFacts DEF Counted
<1>2. /\ n \in Nat \ {0} /\ b.draws \in Seq(DrawCall) /\ c.draws \in Seq(DrawCall)
      /\ Len(b.vertices) \in Nat
  BY <1>1, GiveFacts DEF Batches
<1>3. c.draws = [b.draws EXCEPT ![n] = d]
  BY <1>1 DEF SetSlot, Batches
<1>4. \A i \in 1..(n - 1) : c.draws[i] = b.draws[i]
  BY <1>2, <1>3
<1> HIDE DEF c, n
<1>5. VertexOffset(c.draws)[n] = VertexOffset(b.draws)[n]
  <2>1. /\ n \in 1..n /\ n <= Len(b.draws) /\ n <= Len(c.draws) /\ n \in Nat
    BY <1>1, <1>2 DEF n
  <2> QED
    BY <1>2, <1>4, <2>1, OffsetPrefix
<1>6. Counted(c)
  BY <1>1, <1>5 DEF Counted, n
<1>7. Before(Give(c, s, f), n - 1) = Before(Give(b, s, f), n - 1)
  <2> DEFINE m == n - 1
  <2>1. m \in Nat /\ m <= Len(b.draws) /\ m <= Len(c.draws)
    BY <1>1, <1>2 DEF n
  <2>2. /\ \A i \in 1..m : c.draws[i] = b.draws[i]
        /\ \A i \in 1..(m - 1) : c.draws[i] = b.draws[i]
    BY <1>2, <1>4
  <2>3. /\ Len(b.vertices) <= Len(c.vertices)
        /\ \A j \in 1..Len(b.vertices) : c.vertices[j] = b.vertices[j]
    BY <1>1, <1>2
  <2> HIDE DEF m
  <2>4. Before(Give(c, s, f), m) = Before(Give(b, s, f), m)
    BY <1>6, <2>1, <2>2, <2>3, BeforeSame
  <2> QED
    BY <2>4 DEF m
<1>8. Prims(Give(c, s, f), n) = <<>> /\ Prims(Give(b, s, f), n) = <<>>
  <2>1. Slot(c) = d /\ Len(c.draws) = n
    BY <1>1
  <2>2. Prims(Give(c, s, f), n)
          = Primitives(Give(c, s, f), d, VertexOffset(c.draws)[n])
    BY ONLY <1>6, <2>1, DrawnSplit, s \in {0} \cup Shaders, f \in BlendFunction
  <2>3. Prims(Give(b, s, f), n)
          = Primitives(Give(b, s, f), Slot(b), VertexOffset(b.draws)[n])
    BY DrawnSplit DEF n
  <2>4. \A g, o : Primitives(g, d, o) = <<>> /\ Primitives(g, Slot(b), o) = <<>>
    BY NoPrimitives
  <2> QED
    BY ONLY <2>2, <2>3, <2>4
<1> QED
  BY <1>1, <1>6, <1>7, <1>8, DrawnSplit DEF c, n

(* The draw call of b closed, with its padding.                            *)
Closed(b, a) ==
  [draws |-> Append(SetSlot(b, [Slot(b) EXCEPT !.vertexAlignment = a]).draws, NewDraw),
   vertices |-> b.vertices \o Padding(a)]

(* Closing a draw call draws nothing else.                                 *)
LEMMA ClosedDrawn ==
  ASSUME NEW b, Counted(b), NEW s \in {0} \cup Shaders, NEW f \in BlendFunction,
         NEW a \in 0..4, NEW c, c = Closed(b, a)
  PROVE  /\ Counted(c) /\ Slot(c) = NewDraw
         /\ Len(c.vertices) = Len(b.vertices) + a
         /\ Drawn(Give(c, s, f)) = Drawn(Give(b, s, f))
<1> DEFINE n == Len(b.draws)
           d == Slot(b)
           e == [d EXCEPT !.vertexAlignment = a]
           ds == SetSlot(b, e).draws
<1>1. /\ c = [draws |-> c.draws, vertices |-> c.vertices]
      /\ c.draws = Append(ds, NewDraw) /\ c.vertices = b.vertices \o Padding(a)
  BY DEF Closed
<1> HIDE DEF ds
<1>2. /\ n \in Nat \ {0} /\ b.draws \in Seq(DrawCall) /\ b.vertices \in Seq(Vertex)
      /\ Len(b.vertices) \in Nat /\ d \in DrawCall /\ d.vertexCount \in Nat
      /\ b \in Batches /\ n > 0
  BY GiveFacts DEF Counted
<1>3. /\ e \in DrawCall /\ e.vertexAlignment = a /\ e.mode = d.mode
      /\ e.vertexCount = d.vertexCount /\ e.textureId = d.textureId
  BY <1>2 DEF DrawCall
<1>4. ds \in Seq(DrawCall) /\ Len(ds) = n /\ ds = [b.draws EXCEPT ![n] = e]
  <2>1. ds = SetSlot(b, e).draws
    BY DEF ds
  <2> HIDE DEF e
  <2>2. SetSlot(b, e) \in Batches /\ Len(SetSlot(b, e).draws) = n
    BY <1>2, <1>3, SetSlotFacts
  <2> QED
    BY <1>2, <2>1, <2>2 DEF SetSlot, Batches
<1> HIDE DEF e
<1>5. ds[n] = e /\ \A i \in 1..(n - 1) : ds[i] = b.draws[i]
  BY ONLY <1>2, <1>4
<1> HIDE DEF d, n
<1>6. /\ Append(ds, NewDraw) \in Seq(DrawCall) /\ Len(Append(ds, NewDraw)) = n + 1
      /\ Append(ds, NewDraw)[n + 1] = NewDraw
      /\ \A i \in 1..n : Append(ds, NewDraw)[i] = ds[i]
  BY ONLY <1>2, <1>4, NewBatchFacts, AppendProperties
<1>7. /\ c.draws \in Seq(DrawCall) /\ Len(c.draws) = n + 1
      /\ c.draws[n + 1] = NewDraw /\ \A i \in 1..n : c.draws[i] = ds[i]
  BY <1>1, <1>6
<1>8. Padding(a) \in Seq(Vertex) /\ Len(Padding(a)) = a
  BY PaddingFacts
<1>9. /\ c.vertices \in Seq(Vertex) /\ Len(c.vertices) = Len(b.vertices) + a
      /\ \A j \in 1..Len(b.vertices) : c.vertices[j] = b.vertices[j]
  <2>1. /\ b.vertices \o Padding(a) \in Seq(Vertex)
        /\ Len(b.vertices \o Padding(a)) = Len(b.vertices) + a
        /\ \A j \in 1..Len(b.vertices) : (b.vertices \o Padding(a))[j] = b.vertices[j]
    BY ONLY <1>2, <1>8, a \in 0..4, ConcatProperties
  <2> QED
    BY ONLY <1>1, <2>1
<1>10. c \in Batches
  BY ONLY <1>1, <1>7, <1>9 DEF Batches
<1>11. Slot(c) = NewDraw /\ NewDraw.vertexCount = 0
  BY <1>7 DEF Slot, NewDraw
<1>12. /\ n \in 1..n /\ n <= Len(b.draws) /\ n <= Len(c.draws)
       /\ n + 1 \in 1..Len(c.draws) /\ n + 1 > 1 /\ (n + 1) - 1 = n
  BY <1>2, <1>7 DEF n
<1>13. /\ \A i \in 1..n : /\ c.draws[i].mode = b.draws[i].mode
                          /\ c.draws[i].textureId = b.draws[i].textureId
                          /\ c.draws[i].vertexCount = b.draws[i].vertexCount
       /\ \A i \in 1..(n - 1) : c.draws[i] = b.draws[i]
       /\ c.draws[n] = e /\ b.draws[n] = d
  <2>1. \A i \in 1..(n - 1) : c.draws[i] = b.draws[i]
    <3>1. \A i \in 1..(n - 1) : i \in 1..n
      BY ONLY <1>2
    <3>2. \A i \in 1..n : c.draws[i] = ds[i]
      BY <1>7
    <3>3. \A i \in 1..(n - 1) : ds[i] = b.draws[i]
      BY <1>5
    <3> QED
      BY ONLY <3>1, <3>2, <3>3
  <2>2. c.draws[n] = e /\ b.draws[n] = d
    BY <1>2, <1>5, <1>7, GiveFacts DEF d, n, Slot
  <2>3. \A i \in 1..n : i = n \/ i \in 1..(n - 1)
    BY <1>2
  <2> QED
    BY <1>3, <2>1, <2>2, <2>3
<1>14. VertexOffset(c.draws)[n] = VertexOffset(b.draws)[n]
  BY <1>2, <1>7, <1>12, <1>13, OffsetPrefix
<1>15. VertexOffset(c.draws)[n + 1] = Len(c.vertices)
  <2>1. VertexOffset(c.draws)[n + 1] = VertexOffset(c.draws)[n]
          + c.draws[n].vertexCount + c.draws[n].vertexAlignment
    BY <1>7, <1>12, OffsetFacts
  <2>2. VertexOffset(b.draws)[n] + d.vertexCount = Len(b.vertices)
    BY DEF Counted, n, d
  <2> QED
    BY <1>3, <1>9, <1>13, <1>14, <2>1, <2>2
<1>16. Counted(c)
  BY <1>2, <1>7, <1>9, <1>10, <1>11, <1>15 DEF Counted
<1>17. Before(Give(c, s, f), n) = Before(Give(b, s, f), n)
  <2>1. n \in Nat /\ Len(b.vertices) <= Len(c.vertices)
    BY ONLY <1>2, <1>9, a \in 0..4
  <2> QED
    BY ONLY <1>9, <1>12, <1>13, <1>16, <2>1, Counted(b), BeforeSame,
       s \in {0} \cup Shaders, f \in BlendFunction
<1>18. Drawn(Give(c, s, f)) = Before(Give(c, s, f), n) \o <<>>
  <2>1. Len(c.draws) - 1 = n
    BY <1>7, <1>12
  <2>2. Prims(Give(c, s, f), Len(c.draws)) = <<>>
    BY ONLY <1>11, <1>16, DrawnSplit, NoPrimitives,
       s \in {0} \cup Shaders, f \in BlendFunction
  <2> QED
    BY <1>16, <2>1, <2>2, DrawnSplit
<1>19. Drawn(Give(b, s, f)) = Before(Give(b, s, f), n)
  BY DrawnIsBefore, GiveFacts DEF n
<1>20. Before(Give(b, s, f), n) \in Seq(Shown)
  <2>1. /\ Before(Give(b, s, f), n - 1) \in Seq(Shown)
        /\ Prims(Give(b, s, f), n) \in Seq(Shown)
        /\ Drawn(Give(b, s, f)) = Before(Give(b, s, f), n - 1) \o Prims(Give(b, s, f), n)
    BY DrawnSplit DEF n
  <2> QED
    BY ONLY <1>19, <2>1, ConcatProperties
<1> QED
  BY <1>9, <1>11, <1>16, <1>17, <1>18, <1>19, <1>20, ConcatEmptySeq

(* Counting primitives.                                                    *)
LEMMA Division ==
  ASSUME NEW v \in Nat, NEW k \in {2, 3, 4}
  PROVE  /\ v \div k \in Nat /\ v % k \in 0..(k - 1)
         /\ v = k * (v \div k) + (v % k)
         /\ (v + 1) \div k = IF ((v % k) + 1) % k = 0 THEN v \div k + 1 ELSE v \div k
         /\ ((v % k) + 1) % k = 0 <=> (v % k) + 1 = k
<1>1. CASE k = 2
  BY <1>1
<1>2. CASE k = 3
  BY <1>2
<1>3. CASE k = 4
  BY <1>3
<1> QED
  BY <1>1, <1>2, <1>3

(* n vertices of a primitive, from its first on.                           *)
InOrder(vs, first, n, m) ==
  \A c \in 1..n : vs[first + c] = [mode |-> m, corner |-> c]

(* One more vertex, the last of the draw call e: r of its primitive were   *)
(* there.                                                                  *)
OneMore(g, h, d, e, o, r) ==
  /\ Extends(h, g) /\ Len(h.vertices) = Len(g.vertices) + 1
  /\ d \in DrawCall /\ e \in DrawCall
  /\ e.mode = d.mode /\ e.textureId = d.textureId
  /\ e.vertexCount = d.vertexCount + 1
  /\ o \in Nat /\ o % 4 = 0 /\ o + d.vertexCount = Len(g.vertices)
  /\ r = d.vertexCount % Corners(d.mode)
  /\ InOrder(h.vertices, Len(g.vertices) - r, r + 1, d.mode)

(* The next vertex is the last of its primitive.                           *)
Completed(r, m) == (r + 1) % Corners(m) = 0

(* A primitive of a draw call, of what was issued.                         *)
OnePrimitive(d, g) ==
  [mode |-> d.mode, texture |-> d.textureId, shader |-> g.shader, blend |-> g.blend]

(* It completes a primitive or leaves them as they are.                    *)
LEMMA PrimitivesGrow ==
  ASSUME NEW g, NEW h, NEW d, NEW e, NEW o, NEW r,
         OneMore(g, h, d, e, o, r),
         Primitives(g, d, o) \in Seq(Shown), Primitives(h, e, o) \in Seq(Shown)
  PROVE  Primitives(h, e, o) =
           IF Completed(r, d.mode)
           THEN Append(Primitives(g, d, o), OnePrimitive(d, h))
           ELSE Primitives(g, d, o)
<1> DEFINE v == d.vertexCount
           K == Corners(d.mode)
           q == v \div K
           ps == Primitives(g, d, o)
           qs == Primitives(h, e, o)
           p == OnePrimitive(d, h)
<1> USE DEF OneMore, Completed, OnePrimitive
<1>1. v \in Nat /\ K \in {2, 3, 4} /\ Corners(e.mode) = K /\ Len(g.vertices) \in Nat
  BY DrawCallFacts, CornersFacts DEF Extends
<1>2. /\ q \in Nat /\ r \in 0..(K - 1) /\ v = K * q + r
      /\ (v + 1) \div K = IF (r + 1) % K = 0 THEN q + 1 ELSE q
      /\ (r + 1) % K = 0 <=> r + 1 = K
  BY <1>1, Division
<1>3. /\ ps = [k \in 1..q |-> Assembled(g, d, FirstVertex(d, o, k))]
      /\ qs = [k \in 1..((v + 1) \div K) |-> Assembled(h, e, FirstVertex(e, o, k))]
  BY <1>1 DEF Primitives
<1>4. ASSUME NEW k \in 1..q
      PROVE  Assembled(h, e, FirstVertex(e, o, k)) = Assembled(g, d, FirstVertex(d, o, k))
  <2>1. FirstVertex(e, o, k) = FirstVertex(d, o, k)
    BY DEF FirstVertex
  <2>2. /\ FirstVertex(d, o, k) \in Nat
        /\ FirstVertex(d, o, k) + Corners(d.mode) <= Len(g.vertices)
    BY FirstVertexFacts
  <2> QED
    BY <2>1, <2>2, AssembledSame
<1>5. CASE (r + 1) % K # 0
  <2>1. (v + 1) \div K = q
    BY <1>2, <1>5
  <2> QED
    BY <1>3, <1>4, <1>5, <2>1
<1>6. CASE (r + 1) % K = 0
  <2>1. (v + 1) \div K = q + 1 /\ r + 1 = K
    BY <1>2, <1>6
  <2>2. Assembled(h, e, FirstVertex(e, o, q + 1)) = p
    <3> DEFINE first == Len(g.vertices) - r
    <3>1. FirstVertex(e, o, q + 1) = first /\ first + K = Len(g.vertices) + 1
      <4>1. FirstVertex(e, o, q + 1) = o + K * ((q + 1) - 1)
        <5>1. q + 1 \in 1..(e.vertexCount \div Corners(e.mode))
          <6>1. e.vertexCount \div Corners(e.mode) = q + 1
            BY ONLY <1>1, <2>1, e.vertexCount = v + 1
          <6> HIDE DEF q
          <6> QED
            BY ONLY <1>2, <6>1
        <5>2. e \in DrawCall /\ o \in Nat /\ Corners(e.mode) = K /\ o % 4 = 0
          BY <1>1
        <5> HIDE DEF K, q
        <5> QED
          BY ONLY <5>1, <5>2, FirstVertexFacts
      <4>2. (q + 1) - 1 = q
        BY <1>2
      <4>3. o + K * q = Len(g.vertices) - r
        <5> DEFINE kq == K * q
        <5>1. kq \in Nat
          <6> HIDE DEF K, q
          <6> QED
            BY ONLY <1>1, <1>2 DEF kq
        <5>2. v = kq + r
          BY <1>2
        <5> HIDE DEF kq
        <5>3. o + v = Len(g.vertices) /\ r \in Nat
          BY <1>1, <1>2
        <5>4. o + kq = Len(g.vertices) - r
          BY ONLY <1>1, <5>1, <5>2, <5>3, o \in Nat
        <5> QED
          BY <5>4 DEF kq
      <4>4. first + K = Len(g.vertices) + 1
        <5>1. r \in Nat /\ r + 1 = K /\ Len(g.vertices) \in Nat
          BY <1>1, <1>2, <2>1
        <5> HIDE DEF K
        <5> QED
          BY ONLY <5>1 DEF first
      <4> QED
        BY ONLY <4>1, <4>2, <4>3, <4>4 DEF first
    <3>2. \A c \in 1..K : h.vertices[first + c]
                            = [mode |-> d.mode, corner |-> c]
      BY <2>1 DEF InOrder
    <3> HIDE DEF first
    <3>3. first + Corners(e.mode) <= Len(h.vertices)
      BY <1>1, <3>1
    <3>4. Assembled(h, e, first) =
            [mode |-> e.mode, texture |-> e.textureId,
             shader |-> h.shader, blend |-> h.blend]
      BY <1>1, <3>2, <3>3 DEF Assembled
    <3> QED
      BY <3>1, <3>4
  <2>3. Len(ps) = q /\ Len(qs) = q + 1 /\ ps \in Seq(Shown) /\ qs \in Seq(Shown)
    <3>1. ps \in Seq(Shown) /\ qs \in Seq(Shown)
      OBVIOUS
    <3> HIDE DEF ps, qs, q
    <3>2. q \in Nat /\ q + 1 \in Nat
      BY <1>2
    <3>3. DOMAIN ps = 1..q /\ DOMAIN qs = 1..(q + 1)
      BY <1>3, <2>1
    <3> QED
      BY ONLY <3>1, <3>2, <3>3, LenProperties
  <2>4. (\A k \in 1..q : qs[k] = ps[k]) /\ qs[q + 1] = p
    <3> HIDE DEF ps, qs, q, p
    <3>1. \A k \in 1..q : k \in 1..(q + 1)
      BY ONLY <1>2
    <3>2. q + 1 \in 1..(q + 1)
      BY ONLY <1>2
    <3>3. \A k \in 1..q : ps[k] = Assembled(g, d, FirstVertex(d, o, k))
      BY ONLY <1>3
    <3>4. \A k \in 1..(q + 1) : qs[k] = Assembled(h, e, FirstVertex(e, o, k))
      BY ONLY <1>3, <2>1
    <3> QED
      BY ONLY <1>4, <2>2, <3>1, <3>2, <3>3, <3>4
  <2> HIDE DEF ps, qs, p, q, K, v
  <2>5. p \in Shown
    BY <1>2, <2>3, <2>4, ElementOfSeq
  <2>6. /\ Append(ps, p) \in Seq(Shown) /\ Len(Append(ps, p)) = q + 1
        /\ Append(ps, p)[q + 1] = p /\ \A k \in 1..q : Append(ps, p)[k] = ps[k]
    BY <2>3, <2>5, AppendProperties
  <2>7. \A k \in 1..(q + 1) : qs[k] = Append(ps, p)[k]
    <3>1. \A k \in 1..(q + 1) : k \in 1..q \/ k = q + 1
      BY ONLY <1>2
    <3>2. \A k \in 1..q : qs[k] = Append(ps, p)[k]
      BY ONLY <2>4, <2>6
    <3>3. qs[q + 1] = Append(ps, p)[q + 1]
      BY ONLY <2>4, <2>6
    <3> QED
      BY ONLY <3>1, <3>2, <3>3
  <2>8. qs = Append(ps, p)
    BY <2>3, <2>6, <2>7, SeqEqual
  <2> QED
    BY <1>6, <2>8 DEF ps, qs, p, K
<1> QED
  BY <1>5, <1>6

(* Appending to the second of two sequences.                               *)
LEMMA AppendAfter ==
  ASSUME NEW T, NEW xs \in Seq(T), NEW ys \in Seq(T), NEW z \in T
  PROVE  xs \o Append(ys, z) = Append(xs \o ys, z)
<1>1. xs \o ys \in Seq(T) /\ <<z>> \in Seq(T)
  BY ConcatProperties
<1>2. Append(ys, z) = ys \o <<z>> /\ Append(xs \o ys, z) = (xs \o ys) \o <<z>>
  BY <1>1, AppendIsConcat
<1>3. (xs \o ys) \o <<z>> = xs \o (ys \o <<z>>)
  BY <1>1, ConcatAssociative
<1> QED
  BY <1>2, <1>3

(* The buffer and the draw call in use with one vertex more.               *)
Longer(d) == [d EXCEPT !.vertexCount = @ + 1]

HasOneMore(b2, b, v) ==
  /\ b2 \in Batches
  /\ b2.draws = SetSlot(b, Longer(Slot(b))).draws
  /\ b2.vertices = Append(b.vertices, v)

(* The vertex is accounted for, in a draw call that begins where it did.   *)
LEMMA VertexCounted ==
  ASSUME NEW b, Counted(b), Len(b.vertices) < Capacity, NEW v \in Vertex,
         NEW b2, HasOneMore(b2, b, v)
  PROVE  /\ Counted(b2)
         /\ Longer(Slot(b)) \in DrawCall /\ Slot(b2) = Longer(Slot(b))
         /\ Longer(Slot(b)).mode = Slot(b).mode
         /\ Longer(Slot(b)).textureId = Slot(b).textureId
         /\ Longer(Slot(b)).vertexCount = Slot(b).vertexCount + 1
         /\ Len(b2.draws) = Len(b.draws)
         /\ VertexOffset(b2.draws)[Len(b.draws)] = VertexOffset(b.draws)[Len(b.draws)]
         /\ \A i \in 1..(Len(b.draws) - 1) : b2.draws[i] = b.draws[i]
         /\ Len(b2.vertices) = Len(b.vertices) + 1
         /\ b2.vertices[Len(b.vertices) + 1] = v
         /\ \A j \in 1..Len(b.vertices) : b2.vertices[j] = b.vertices[j]
<1> DEFINE n == Len(b.draws)
           d == Slot(b)
           e == Longer(d)
           C == Len(b.vertices)
           o == VertexOffset(b.draws)[n]
<1>1. /\ b2 \in Batches /\ b2.draws = SetSlot(b, e).draws
      /\ b2.vertices = Append(b.vertices, v)
  BY DEF HasOneMore
<1>2. /\ n \in Nat \ {0} /\ b.draws \in Seq(DrawCall) /\ b.vertices \in Seq(Vertex)
      /\ C \in Nat /\ d \in DrawCall /\ d.vertexCount \in Nat
      /\ b \in Batches /\ n > 0 /\ o \in Nat /\ d = b.draws[n]
  <2>1. 0 \in {0} \cup Shaders /\ DefaultBlend \in BlendFunction
    BY BatchAssumption DEF DefaultBlend, BlendFunction
  <2> QED
    BY <2>1, GiveFacts DEF Counted
<1>3. o + d.vertexCount = C
  BY DEF Counted
<1>4. /\ e \in DrawCall /\ e.mode = d.mode /\ e.textureId = d.textureId
      /\ e.vertexCount = d.vertexCount + 1
  <2>1. C < Capacity
    OBVIOUS
  <2> HIDE DEF C, o, d
  <2>2. d.vertexCount + 1 \in 0..Capacity
    <3>1. C \in Nat /\ o \in Nat /\ d.vertexCount \in Nat
      BY <1>2
    <3> QED
      BY ONLY <1>3, <2>1, <3>1, CapacityFacts
  <2>3. d \in DrawCall
    BY <1>2
  <2> QED
    BY ONLY <2>2, <2>3 DEF DrawCall, e, Longer
<1>5. /\ b2.draws \in Seq(DrawCall) /\ Len(b2.draws) = n
      /\ b2.draws = [b.draws EXCEPT ![n] = e]
  <2> HIDE DEF e
  <2>1. SetSlot(b, e) \in Batches /\ Len(SetSlot(b, e).draws) = n
    BY <1>2, <1>4, SetSlotFacts
  <2>2. b2.draws = SetSlot(b, e).draws
    BY <1>1
  <2> QED
    BY ONLY <1>2, <2>1, <2>2 DEF SetSlot, Batches
<1> HIDE DEF e, d, n, o, C
<1>6. b2.draws[n] = e /\ \A i \in 1..(n - 1) : b2.draws[i] = b.draws[i]
  BY ONLY <1>2, <1>5
<1>7. /\ b2.vertices \in Seq(Vertex) /\ Len(b2.vertices) = C + 1
      /\ \A j \in 1..C : b2.vertices[j] = b.vertices[j]
      /\ b2.vertices[C + 1] = v
  BY ONLY <1>2, <1>1, v \in Vertex, AppendProperties DEF C
<1>8. VertexOffset(b2.draws)[n] = o
  <2>1. n \in 1..n /\ n <= Len(b.draws) /\ n <= Len(b2.draws) /\ n \in Nat
    BY ONLY <1>2, <1>5 DEF n
  <2>2. VertexOffset(b2.draws)[n] = VertexOffset(b.draws)[n]
    <3>1. b.draws \in Seq(DrawCall) /\ b2.draws \in Seq(DrawCall)
      BY <1>2, <1>5
    <3>2. \A i \in 1..(n - 1) : b2.draws[i] = b.draws[i]
      BY <1>6
    <3> QED
      BY ONLY <2>1, <3>1, <3>2, OffsetPrefix
  <2> QED
    BY <2>2 DEF o
<1>9. Slot(b2) = e
  BY ONLY <1>5, <1>6 DEF Slot
<1>10. Counted(b2)
  <2>1. o + e.vertexCount = Len(b2.vertices) /\ Len(b2.draws) > 0
    <3>1. /\ o \in Nat /\ d.vertexCount \in Nat /\ C \in Nat /\ n > 0
          /\ e.vertexCount = d.vertexCount + 1
          /\ Len(b2.draws) = n /\ Len(b2.vertices) = C + 1
      BY <1>2, <1>4, <1>5, <1>7
    <3> QED
      BY ONLY <1>3, <3>1
  <2> QED
    BY ONLY <1>1, <1>5, <1>8, <1>9, <2>1 DEF Counted
<1> QED
  BY <1>4, <1>5, <1>6, <1>7, <1>8, <1>9, <1>10 DEF C, d, e, n, o

(* The remainder of a division by the corners of a primitive.              *)
LEMMA RemainderFacts ==
  ASSUME NEW v \in Nat, NEW m
  PROVE  /\ v % Corners(m) \in Nat
         /\ v % Corners(m) <= v
<1>1. Corners(m) \in {2, 3, 4}
  BY CornersFacts
<1>2. CASE Corners(m) = 2
  BY ONLY <1>2, v \in Nat
<1>3. CASE Corners(m) = 3
  BY ONLY <1>3, v \in Nat
<1>4. CASE Corners(m) = 4
  BY ONLY <1>4, v \in Nat
<1> QED
  BY <1>1, <1>2, <1>3, <1>4

(* The vertices of a primitive with one more.                              *)
LEMMA InOrderGrows ==
  ASSUME NEW vs, NEW ws, NEW n \in Nat, NEW r \in Nat, r <= n, NEW m,
         InOrder(vs, n - r, r, m),
         \A j \in 1..n : ws[j] = vs[j],
         ws[n + 1] = [mode |-> m, corner |-> r + 1]
  PROVE  InOrder(ws, n - r, r + 1, m)
<1> SUFFICES ASSUME NEW c \in 1..(r + 1)
             PROVE  ws[n - r + c] = [mode |-> m, corner |-> c]
  BY DEF InOrder
<1>1. CASE c = r + 1
  <2>1. n - r + c = n + 1
    BY <1>1
  <2> QED
    BY <1>1, <2>1
<1>2. CASE c # r + 1
  <2>1. n - r + c \in 1..n /\ c \in 1..r
    BY <1>2
  <2>2. vs[n - r + c] = [mode |-> m, corner |-> c]
    BY <2>1 DEF InOrder
  <2> QED
    BY ONLY <2>1, <2>2, \A j \in 1..n : ws[j] = vs[j]
<1> QED
  BY <1>1, <1>2

(* The draw call in use begins at a multiple of 4, and r vertices of its   *)
(* next primitive are there.                                               *)
Begun(b, r) ==
  /\ (Len(b.vertices) - Slot(b).vertexCount) % 4 = 0
  /\ r = Slot(b).vertexCount % Corners(Slot(b).mode)
  /\ InOrder(b.vertices, Len(b.vertices) - r, r, Slot(b).mode)

(* A vertex completes a primitive of its caller, or nothing yet.           *)
LEMMA VertexDrawn ==
  ASSUME NEW b, Counted(b), NEW s \in {0} \cup Shaders, NEW f \in BlendFunction,
         Len(b.vertices) < Capacity,
         NEW r, Begun(b, r),
         NEW v \in Vertex,
         v = [mode |-> Slot(b).mode, corner |-> r + 1],
         NEW b2, HasOneMore(b2, b, v)
  PROVE  /\ Counted(b2)
         /\ Drawn(Give(b2, s, f)) =
              IF Completed(r, Slot(b).mode)
              THEN Append(Drawn(Give(b, s, f)),
                     [mode |-> Slot(b).mode,
                      texture |-> Slot(b).textureId,
                      shader |-> s, blend |-> f])
              ELSE Drawn(Give(b, s, f))
<1> DEFINE n == Len(b.draws)
           d == Slot(b)
           e == Longer(d)
           C == Len(b.vertices)
           o == VertexOffset(b.draws)[n]
           g == Give(b, s, f)
           h == Give(b2, s, f)
           p == [mode |-> d.mode, texture |-> d.textureId,
                 shader |-> s, blend |-> f]
<1>1. /\ n \in Nat \ {0} /\ b.draws \in Seq(DrawCall) /\ b.vertices \in Seq(Vertex)
      /\ C \in Nat /\ d \in DrawCall /\ d.vertexCount \in Nat
      /\ b \in Batches /\ n > 0 /\ o \in Nat /\ d = b.draws[n]
  BY GiveFacts DEF Counted
<1>2. o + d.vertexCount = C
  BY DEF Counted
<1>3. o % 4 = 0
  <2>1. C - d.vertexCount = o
    BY ONLY <1>1, <1>2
  <2> QED
    BY <2>1 DEF Begun
<1>4. /\ e \in DrawCall /\ e.mode = d.mode /\ e.textureId = d.textureId
      /\ e.vertexCount = d.vertexCount + 1
      /\ Len(b2.draws) = n /\ VertexOffset(b2.draws)[n] = o
      /\ \A i \in 1..(n - 1) : b2.draws[i] = b.draws[i]
      /\ Slot(b2) = e /\ Counted(b2)
  BY VertexCounted
<1>5. /\ Len(b2.vertices) = C + 1 /\ b2.vertices[C + 1] = v
      /\ \A j \in 1..C : b2.vertices[j] = b.vertices[j]
  BY VertexCounted
<1> HIDE DEF e, d, n, o, C
<1>6. Before(h, n - 1) = Before(g, n - 1)
  <2> DEFINE m == n - 1
  <2>1. m \in Nat /\ m <= Len(b.draws) /\ m <= Len(b2.draws)
    BY ONLY <1>1, <1>4 DEF n
  <2>2. /\ \A i \in 1..m : b2.draws[i] = b.draws[i]
        /\ \A i \in 1..(m - 1) : b2.draws[i] = b.draws[i]
    BY ONLY <1>1, <1>4
  <2>3. /\ Len(b.vertices) <= Len(b2.vertices)
        /\ \A j \in 1..Len(b.vertices) : b2.vertices[j] = b.vertices[j]
    BY ONLY <1>1, <1>5 DEF C
  <2> HIDE DEF m
  <2>4. Before(Give(b2, s, f), m) = Before(Give(b, s, f), m)
    BY ONLY <1>4, <2>1, <2>2, <2>3, BeforeSame, Counted(b),
       s \in {0} \cup Shaders, f \in BlendFunction
  <2> QED
    BY <2>4 DEF m
<1>7. /\ Prims(g, n) \in Seq(Shown) /\ Prims(h, n) \in Seq(Shown)
       /\ Prims(g, n) = Primitives(g, d, o) /\ Prims(h, n) = Primitives(h, e, o)
       /\ Before(g, n - 1) \in Seq(Shown)
       /\ Drawn(g) = Before(g, n - 1) \o Prims(g, n)
       /\ Drawn(h) = Before(h, n - 1) \o Prims(h, n)
  BY ONLY <1>4, DrawnSplit, Counted(b),
     s \in {0} \cup Shaders, f \in BlendFunction DEF n, d, o
<1>8. Extends(h, g) /\ g.vertices = b.vertices /\ h.vertices = b2.vertices
       /\ h.shader = s /\ h.blend = f
  <2>1. /\ g.vertices = b.vertices /\ h.vertices = b2.vertices
        /\ g.shader = s /\ h.shader = s /\ g.blend = f /\ h.blend = f
    BY ONLY TRUE DEF Give
  <2> HIDE DEF g, h
  <2> QED
    BY ONLY <1>1, <1>5, <2>1 DEF Extends, C
<1>9. InOrder(b2.vertices, C - r, r + 1, d.mode)
  <2>1. r \in Nat /\ r <= C
    <3>1. r = d.vertexCount % Corners(d.mode) /\ r <= d.vertexCount /\ r \in Nat
      BY <1>1, RemainderFacts DEF d, Begun
    <3>2. d.vertexCount \in Nat /\ C \in Nat /\ o \in Nat
      BY <1>1
    <3> QED
      BY ONLY <1>2, <3>1, <3>2
  <2>2. v = [mode |-> d.mode, corner |-> r + 1]
    BY DEF d
  <2>3. InOrder(b.vertices, C - r, r, d.mode)
    BY DEF d, C, Begun
  <2>4. C \in Nat
    BY <1>1
  <2> QED
    BY ONLY <1>5, <2>1, <2>2, <2>3, <2>4, InOrderGrows
<1>10. Prims(h, n) = IF Completed(r, d.mode)
                     THEN Append(Prims(g, n), p) ELSE Prims(g, n)
  <2>1. r = d.vertexCount % Corners(d.mode)
    BY DEF d, Begun
  <2>2. /\ o + d.vertexCount = Len(g.vertices)
        /\ Len(h.vertices) = Len(g.vertices) + 1
        /\ InOrder(h.vertices, Len(g.vertices) - r, r + 1, d.mode)
    BY ONLY <1>2, <1>5, <1>8, <1>9 DEF C
  <2>3. Primitives(g, d, o) \in Seq(Shown) /\ Primitives(h, e, o) \in Seq(Shown)
    BY ONLY <1>7
  <2> HIDE DEF g, h
  <2>4. OneMore(g, h, d, e, o, r)
    <3>1. d \in DrawCall /\ o \in Nat
      BY <1>1
    <3>2. Extends(h, g)
      BY <1>8
    <3> QED
      BY ONLY <1>3, <1>4, <2>1, <2>2, <3>1, <3>2 DEF OneMore
  <2>5. Primitives(h, e, o) =
           IF Completed(r, d.mode)
           THEN Append(Primitives(g, d, o), OnePrimitive(d, h))
           ELSE Primitives(g, d, o)
    BY ONLY <2>3, <2>4, PrimitivesGrow
  <2> QED
    BY ONLY <1>7, <1>8, <2>5 DEF OnePrimitive
<1>11. CASE Completed(r, d.mode)
  <2>1. Prims(h, n) = Append(Prims(g, n), p)
    BY <1>10, <1>11
  <2> HIDE DEF g, h, p
  <2>2. p \in Shown
    <3>1. /\ Len(Prims(h, n)) = Len(Prims(g, n)) + 1
          /\ Prims(h, n)[Len(Prims(g, n)) + 1] = p
          /\ Len(Prims(g, n)) \in Nat
      BY ONLY <1>7, <2>1
    <3>2. Len(Prims(g, n)) + 1 \in 1..Len(Prims(h, n))
      BY ONLY <3>1
    <3> QED
      BY ONLY <1>7, <3>1, <3>2, ElementOfSeq
  <2>3. Before(g, n - 1) \o Append(Prims(g, n), p)
          = Append(Before(g, n - 1) \o Prims(g, n), p)
    BY ONLY <1>7, <2>2, AppendAfter
  <2>4. Drawn(h) = Append(Drawn(g), p)
    BY ONLY <1>6, <1>7, <2>1, <2>3
  <2> QED
    BY <1>4, <1>11, <2>4 DEF d, g, h, p
<1>12. CASE ~Completed(r, d.mode)
  <2>1. Drawn(h) = Drawn(g)
    BY ONLY <1>6, <1>7, <1>10, <1>12
  <2> QED
    BY <1>4, <1>12, <2>1 DEF d, g, h
<1> QED
  BY <1>11, <1>12

-----------------------------------------------------------------------------
(* Calls that may draw.                                                    *)

(* A call keeps what is pending, or leaves a buffer that rlDrawRenderBatch *)
(* emptied.                                                                *)
KeepsOrDraws(b, c, s, f) ==
  /\ Counted(c)
  /\ \/ /\ Len(c.vertices) >= Len(b.vertices)
        /\ Drawn(Give(c, s, f)) = Drawn(Give(b, s, f))
     \/ /\ Len(c.vertices) < Len(b.vertices)
        /\ Drawn(Give(c, s, f)) = <<>>

(* An emptied batch has nothing pending.                                   *)
LEMMA EmptiedDrawn ==
  ASSUME NEW b, Counted(b), NEW s \in {0} \cup Shaders, NEW f \in BlendFunction,
         NEW c \in Batches, Len(c.draws) = 1, Len(c.vertices) = 0,
         Slot(c).vertexCount = 0
  PROVE  KeepsOrDraws(b, c, s, f)
<1>1. Counted(c)
  BY EmptyBatch
<1>2. Drawn(Give(c, s, f)) = <<>>
  BY <1>1, EmptyDrawn
<1>3. Len(b.vertices) \in Nat
  BY GiveFacts
<1>4. CASE Len(b.vertices) = 0
  <2>1. Drawn(Give(b, s, f)) = <<>>
    BY <1>4, EmptyDrawn
  <2> QED
    BY <1>1, <1>2, <1>4, <2>1 DEF KeepsOrDraws
<1>5. CASE Len(b.vertices) > 0
  BY <1>1, <1>2, <1>5 DEF KeepsOrDraws
<1> QED
  BY <1>3, <1>4, <1>5

(* The new batch, and the one that keeps mode and texture, are empty.      *)
LEMMA NewBatchDrawn ==
  ASSUME NEW b, Counted(b), NEW s \in {0} \cup Shaders, NEW f \in BlendFunction
  PROVE  /\ KeepsOrDraws(b, NewBatch, s, f) /\ KeepsOrDraws(b, Restored(b), s, f)
         /\ Slot(NewBatch).vertexCount = 0 /\ Slot(Restored(b)).vertexCount = 0
<1>1. b \in Batches /\ Len(b.draws) > 0
  BY DEF Counted
<1>2. /\ NewBatch \in Batches /\ Len(NewBatch.draws) = 1 /\ Len(NewBatch.vertices) = 0
      /\ Slot(NewBatch).vertexCount = 0
  BY NewBatchFacts DEF NewDraw
<1>3. /\ Restored(b) \in Batches /\ Len(Restored(b).draws) = 1
      /\ Len(Restored(b).vertices) = 0 /\ Slot(Restored(b)).vertexCount = 0
  BY <1>1, RestoredFacts
<1> QED
  BY ONLY <1>2, <1>3, EmptiedDrawn, Counted(b), s \in {0} \cup Shaders, f \in BlendFunction

(* Taking the next draw call.                                              *)
LEMMA NextDrawn ==
  ASSUME NEW b, Counted(b), NEW s \in {0} \cup Shaders, NEW f \in BlendFunction
  PROVE  KeepsOrDraws(b, NextDraw(b), s, f) /\ Slot(NextDraw(b)).vertexCount = 0
<1> DEFINE a == Alignment(Slot(b))
           c == Closed(b, a)
<1>1. Slot(b) \in DrawCall /\ Slot(b).vertexCount \in Nat /\ Len(b.vertices) \in Nat
  BY GiveFacts
<1>2. KeepsOrDraws(b, b, s, f)
  BY <1>1 DEF KeepsOrDraws
<1>3. KeepsOrDraws(b, c, s, f) /\ Slot(c).vertexCount = 0
  <2>1. a \in 0..4
    BY <1>1, AlignmentFacts
  <2>2. c = Closed(b, a)
    OBVIOUS
  <2> HIDE DEF a, c
  <2>3. /\ Counted(c) /\ Slot(c) = NewDraw
        /\ Len(c.vertices) = Len(b.vertices) + a
        /\ Drawn(Give(c, s, f)) = Drawn(Give(b, s, f))
    BY ONLY <2>1, <2>2, ClosedDrawn, Counted(b), s \in {0} \cup Shaders, f \in BlendFunction
  <2>4. Len(c.vertices) >= Len(b.vertices)
    BY ONLY <1>1, <2>1, <2>3
  <2>5. NewDraw.vertexCount = 0
    BY DEF NewDraw
  <2> QED
    BY ONLY <2>3, <2>4, <2>5 DEF KeepsOrDraws
<1>4. CloseDraw(b) = IF Slot(b).vertexCount = 0 THEN b
                     ELSE IF Overflows(b, a) THEN Restored(b) ELSE c
  BY DEF CloseDraw, Closed
<1> HIDE DEF c
<1>5. \/ NextDraw(b) \in {NewBatch, Restored(b), c}
      \/ NextDraw(b) = b /\ Slot(b).vertexCount = 0
  BY ONLY <1>4 DEF NextDraw
<1> QED
  BY ONLY <1>2, <1>3, <1>5, NewBatchDrawn, Counted(b), s \in {0} \cup Shaders, f \in BlendFunction

(* Changing the draw call taken.                                           *)
LEMMA NextSlotDrawn ==
  ASSUME NEW b, Counted(b), NEW s \in {0} \cup Shaders, NEW f \in BlendFunction,
         NEW d \in DrawCall, d.vertexCount = 0
  PROVE  KeepsOrDraws(b, SetSlot(NextDraw(b), d), s, f)
<1> DEFINE c == NextDraw(b)
<1>1. KeepsOrDraws(b, c, s, f) /\ Slot(c).vertexCount = 0
  BY NextDrawn
<1> HIDE DEF c
<1>2. Counted(c)
  BY <1>1 DEF KeepsOrDraws
<1>3. Counted(SetSlot(c, d)) /\ Drawn(Give(SetSlot(c, d), s, f)) = Drawn(Give(c, s, f))
  BY <1>1, <1>2, SlotDrawn
<1>4. SetSlot(c, d).vertices = c.vertices
  BY <1>2, SetSlotFacts DEF Counted
<1> QED
  BY <1>1, <1>3, <1>4 DEF KeepsOrDraws, c

-----------------------------------------------------------------------------
(* The offsets of the draw calls, for every caller.                        *)

CountInv == SizesInv /\ Counted(batch)

(* What one call makes of the batch: one vertex more, or as it was, or as  *)
(* drawn.                                                                  *)
LEMMA BatchStep ==
  ASSUME CountInv, [Next]_vars, NEW s \in {0} \cup Shaders, NEW f \in BlendFunction
  PROVE  /\ rlVertex3f =>
              /\ vertexCounter < Capacity
              /\ LET v == [mode |-> CurrentDraw.mode, corner |-> corner + 1]
                 IN  v \in Vertex /\ HasOneMore(batch', batch, v)
         /\ rlVertex3f \/ KeepsOrDraws(batch, batch', s, f)
<1>1. /\ Counted(batch) /\ Sized(batch) /\ CurrentDraw = Slot(batch)
      /\ vertexCounter = Len(batch.vertices) /\ batch \in Batches /\ Len(batch.draws) > 0
      /\ CurrentDraw \in DrawCall /\ SizesInv
  <2>1. Sized(batch)
    BY DEF CountInv, SizesInv, TypeOK, Sized, vertexCounter, drawCounter, CurrentDraw
  <2> QED
    BY <2>1, SizedFacts DEF CountInv, Counted, vertexCounter, CurrentDraw
<1>2. KeepsOrDraws(batch, batch, s, f)
  <2>1. Len(batch.vertices) \in Nat
    BY <1>1, GiveFacts
  <2> QED
    BY <1>1, <2>1 DEF KeepsOrDraws
<1>3. KeepsOrDraws(batch, NewBatch, s, f) /\ KeepsOrDraws(batch, Restored(batch), s, f)
  BY <1>1, NewBatchDrawn
<1> DEFINE Kept == KeepsOrDraws(batch, batch', s, f)
<1>4. ASSUME NEW m \in Modes, rlBegin(m) PROVE Kept
  <2> DEFINE d == [NewDraw EXCEPT !.mode = m]
  <2>1. d \in DrawCall /\ d.vertexCount = 0
    BY <1>1, NewBatchFacts, HabitFacts DEF NewDraw, DrawCall
  <2>2. batch' = batch \/ batch' = SetSlot(NextDraw(batch), d)
    BY <1>4 DEF rlBegin, BatchIs
  <2> HIDE DEF d
  <2>3. KeepsOrDraws(batch, SetSlot(NextDraw(batch), d), s, f)
    BY <1>1, <2>1, NextSlotDrawn
  <2> QED
    BY <1>2, <2>2, <2>3
<1>5. ASSUME NEW t \in Textures, rlSetTexture(t) PROVE Kept
  <2> DEFINE b == NextDraw(batch)
             d == [Slot(b) EXCEPT !.textureId = t, !.vertexCount = 0]
  <2>1. Slot(b) \in DrawCall
    BY <1>1, SizedFacts
  <2>2. d \in DrawCall /\ d.vertexCount = 0
    BY <1>5, <2>1, TexturedFacts
  <2>3. batch' = batch \/ batch' = SetSlot(NextDraw(batch), d)
    BY <1>5 DEF rlSetTexture, BatchIs
  <2> HIDE DEF d
  <2>4. KeepsOrDraws(batch, SetSlot(NextDraw(batch), d), s, f)
    BY <1>1, <2>2, NextSlotDrawn
  <2> QED
    BY <1>2, <2>3, <2>4
<1>6. ASSUME NEW n \in Reservations, rlCheckRenderBatchLimit(n) PROVE Kept
  <2>1. batch' \in {batch, Restored(batch)}
    BY <1>6 DEF rlCheckRenderBatchLimit, CheckLimit, BatchIs
  <2> QED
    BY <1>2, <1>3, <2>1
<1>7. ASSUME \/ rlEnd \/ UnsetTexture \/ rlDrawRenderBatchActive \/ LostVertex
             \/ \E x \in Shaders : rlSetShader(x)
             \/ \E x \in Blends : rlSetBlendMode(x)
             \/ \E x \in Factors : rlSetBlendFactors(x)
      PROVE  Kept
  <2>1. batch' \in {batch, NewBatch}
    BY <1>7, OtherSteps
  <2> QED
    BY <1>2, <1>3, <2>1
<1>8. ASSUME UNCHANGED vars PROVE Kept
  <2>1. batch' = batch
    BY <1>8 DEF vars
  <2> QED
    BY <1>2, <2>1
<1>9. ASSUME rlVertex3f
      PROVE  /\ vertexCounter < Capacity
             /\ LET v == [mode |-> CurrentDraw.mode, corner |-> corner + 1]
                IN  v \in Vertex /\ HasOneMore(batch', batch, v)
  <2> DEFINE v == [mode |-> CurrentDraw.mode, corner |-> corner + 1]
             d == Longer(Slot(batch))
  <2>1. vertexCounter < Capacity
    BY <1>9 DEF rlVertex3f
  <2>2. v \in Vertex
    <3>1. corner + 1 \in 0..4
      BY <1>1 DEF SizesInv, TypeOK
    <3>2. CurrentDraw.mode \in PrimitiveModes
      BY <1>1 DEF DrawCall
    <3> QED
      BY <3>1, <3>2 DEF Vertex
  <2>3. batch' = [SetSlot(batch, d) EXCEPT !.vertices = Append(@, v)]
    BY <1>9 DEF rlVertex3f, BatchIs, Longer, CurrentDraw
  <2>4. batch' \in Batches
    BY SizedStep, <1>1 DEF Sized
  <2> HIDE DEF d, v
  <2>5. d \in DrawCall
    <3>1. Slot(batch).vertexCount \in Nat /\ Len(batch.vertices) \in Nat
      BY <1>1, GiveFacts
    <3>2. Slot(batch).vertexCount <= Len(batch.vertices)
      BY <1>1 DEF Sized
    <3>3. Slot(batch).vertexCount + 1 \in 0..Capacity
      BY <1>1, <2>1, <3>1, <3>2, CapacityFacts
    <3> QED
      BY ONLY <1>1, <3>3 DEF d, Longer, DrawCall
  <2>6. SetSlot(batch, d) \in Batches /\ SetSlot(batch, d).vertices = batch.vertices
    BY <1>1, <2>5, SetSlotFacts
  <2>7. batch'.draws = SetSlot(batch, d).draws /\ batch'.vertices = Append(batch.vertices, v)
    BY ONLY <2>3, <2>6 DEF Batches
  <2> QED
    BY <2>1, <2>2, <2>4, <2>7 DEF HasOneMore, v, d
<1> HIDE DEF Kept
<1>10. rlVertex3f \/ Kept
  BY <1>4, <1>5, <1>6, <1>7, <1>8 DEF Next
<1> QED
  BY <1>9, <1>10 DEF Kept

(* Every call keeps the draw calls and the buffer accounted for.           *)
LEMMA CountStep == CountInv /\ [Next]_vars => CountInv'
<1> SUFFICES ASSUME CountInv, [Next]_vars PROVE CountInv'
  OBVIOUS
<1>1. SizesInv'
  BY SizesStep DEF CountInv
<1>2. 0 \in {0} \cup Shaders /\ DefaultBlend \in BlendFunction
  BY BatchAssumption DEF DefaultBlend, BlendFunction
<1>3. CASE rlVertex3f
  <2>1. PICK v \in Vertex : HasOneMore(batch', batch, v)
    BY <1>2, <1>3, BatchStep
  <2>2. Counted(batch) /\ Len(batch.vertices) < Capacity
    BY <1>2, <1>3, BatchStep DEF CountInv, vertexCounter
  <2>3. Counted(batch')
    BY ONLY <2>1, <2>2, VertexCounted
  <2>4. Counted(batch)' = Counted(batch')
    BY DEF Counted, Slot
  <2> QED
    BY <1>1, <2>3, <2>4 DEF CountInv
<1>4. CASE ~rlVertex3f
  <2>1. Counted(batch')
    BY <1>2, <1>4, BatchStep DEF KeepsOrDraws
  <2>2. Counted(batch)' = Counted(batch')
    BY DEF Counted, Slot
  <2> QED
    BY <1>1, <2>1, <2>2 DEF CountInv
<1> QED
  BY <1>3, <1>4

(* So they are at the start.                                               *)
LEMMA CountInit == Init => CountInv
<1> SUFFICES ASSUME Init PROVE CountInv
  OBVIOUS
<1>1. batch = NewBatch
  BY DEF Init
<1>2. NewDraw.vertexCount = 0
  BY DEF NewDraw
<1>3. Counted(batch)
  BY <1>1, <1>2, NewBatchFacts, EmptyBatch
<1> QED
  BY <1>3, SizesInit DEF CountInv

(* The draw calls account for every vertex of the buffer, whoever draws:   *)
(* what rlVertex3f stores is where rlDrawRenderBatch looks for it.         *)
THEOREM OffsetsCorrect == Spec => []OffsetsMatch
<1>1. CountInv => OffsetsMatch
  BY DEF CountInv, Counted, OffsetsMatch, drawCounter, CurrentDraw, vertexCounter
<1> QED
  BY <1>1, CountInit, CountStep, PTL DEF Spec

-----------------------------------------------------------------------------
(* The batch implements immediate mode.                                    *)

(* OpenGL has the blend function of a caller that leaves the factors of    *)
(* the custom mode alone while it is set.                                  *)
BlendInv ==
  ~ habit.newFactors => glBlend = Function(blendMode) /\ asked.blend = glBlend

(* The vertices of the primitive begun are the last of the buffer.         *)
ProgressInv ==
  open => InOrder(batch.vertices, vertexCounter - corner, corner, CurrentDraw.mode)

(* rlSetBlendMode keeps OpenGL at what such a caller has asked for.        *)
LEMMA BlendStep == SizesInv /\ BlendInv /\ [Next]_vars => BlendInv'
<1> SUFFICES ASSUME SizesInv, [Next]_vars, ~habit.newFactors,
                    glBlend = Function(blendMode), asked.blend = glBlend
             PROVE  glBlend' = Function(blendMode)' /\ asked'.blend = glBlend'
  BY HabitStep DEF BlendInv
<1>1. asked \in AskedType
  BY DEF SizesInv, TypeOK, AskedType
<1> DEFINE Goal == glBlend' = Function(blendMode)' /\ asked'.blend = glBlend'
<1>2. ASSUME UNCHANGED <<blendMode, factors, glBlend>>, asked'.blend = asked.blend
      PROVE  Goal
  BY <1>2 DEF Function
<1>3. ASSUME NEW m \in Blends, rlSetBlendMode(m) PROVE Goal
  <2>1. asked'.blend = Function(m) /\ UNCHANGED factors
    BY <1>1, <1>3 DEF rlSetBlendMode, AskedType
  <2>2. \/ blendMode' = m /\ glBlend' = Function(m)
        \/ blendMode = m /\ UNCHANGED <<blendMode, glBlend>>
    BY <1>3 DEF rlSetBlendMode
  <2> QED
    BY <2>1, <2>2 DEF Function
<1>4. ASSUME NEW f \in Factors, rlSetBlendFactors(f) PROVE Goal
  <2>1. blendMode # "custom" /\ UNCHANGED <<blendMode, glBlend, asked>>
    BY <1>4 DEF rlSetBlendFactors, caller
  <2> QED
    BY <2>1 DEF Function
<1>5. ASSUME \/ \E m \in Modes : rlBegin(m)
             \/ rlVertex3f \/ LostVertex
             \/ \E n \in Reservations : rlCheckRenderBatchLimit(n)
             \/ UNCHANGED vars
      PROVE  UNCHANGED <<blendMode, factors, glBlend>> /\ asked' = asked
  BY <1>5 DEF rlBegin, rlVertex3f, LostVertex, Submit, rlCheckRenderBatchLimit,
     vars, renderer, caller
<1>6. ASSUME \/ rlEnd \/ UnsetTexture \/ rlDrawRenderBatchActive
             \/ \E s \in Shaders : rlSetShader(s)
      PROVE  UNCHANGED <<blendMode, factors, glBlend>> /\ asked'.blend = asked.blend
  BY <1>1, <1>6 DEF rlEnd, UnsetTexture, rlDrawRenderBatchActive, rlSetShader,
     renderer, AskedType
<1>7. ASSUME NEW t \in Textures, rlSetTexture(t)
      PROVE  UNCHANGED <<blendMode, factors, glBlend>> /\ asked'.blend = asked.blend
  BY <1>1, <1>7 DEF rlSetTexture, renderer, AskedType
<1> HIDE DEF Goal
<1>8. Goal
  BY <1>2, <1>3, <1>4, <1>5, <1>6, <1>7 DEF Next
<1> QED
  BY <1>8 DEF Goal

(* The caller has room for every vertex.                                   *)
LEMMA NoneLost ==
  ASSUME SizesInv, RoomInv
  PROVE  ~LostVertex
<1> SUFFICES ASSUME LostVertex PROVE FALSE
  OBVIOUS
<1>1. /\ room >= Corners(CurrentDraw.mode) - corner /\ vertexCounter >= Capacity
      /\ corner < Corners(CurrentDraw.mode)
  BY DEF SizesInv, LostVertex, Submit
<1>2. /\ room \in 0..Capacity /\ corner \in 0..3 /\ Len(batch.vertices) \in Nat
      /\ vertexCounter + room <= Capacity
  BY DEF SizesInv, TypeOK, RoomInv, Batches
<1> QED
  BY ONLY <1>1, <1>2, CapacityFacts, CornersFacts DEF vertexCounter

(* The primitive begun stays at the end of the buffer.                     *)
LEMMA ProgressStep ==
  ASSUME CountInv, RoomInv, ProgressInv, [Next]_vars
  PROVE  ProgressInv'
<1>1. CASE ~open' \/ corner' = 0
  BY <1>1 DEF ProgressInv, InOrder
<1>2. CASE rlVertex3f
  <2> DEFINE d == CurrentDraw
             v == [mode |-> d.mode, corner |-> corner + 1]
  <2>1. /\ v \in Vertex /\ HasOneMore(batch', batch, v) /\ Len(batch.vertices) < Capacity
        /\ Counted(batch) /\ d = Slot(batch) /\ d \in DrawCall
    <3>1. 0 \in {0} \cup Shaders /\ DefaultBlend \in BlendFunction
      BY BatchAssumption DEF DefaultBlend, BlendFunction
    <3> QED
      BY <1>2, <3>1, BatchStep, GiveFacts DEF CountInv, vertexCounter, CurrentDraw
  <2> HIDE DEF v
  <2>2. /\ Slot(batch') = Longer(d) /\ Longer(d).mode = d.mode
        /\ Len(batch'.vertices) = vertexCounter + 1
        /\ batch'.vertices[vertexCounter + 1] = v
        /\ \A j \in 1..vertexCounter : batch'.vertices[j] = batch.vertices[j]
    BY ONLY <2>1, VertexCounted DEF vertexCounter
  <2>3. /\ open /\ open' = open /\ asked' = asked
        /\ corner' = (corner + 1) % Corners(d.mode)
    BY <1>2 DEF rlVertex3f, Submit
  <2>4. /\ corner \in Nat /\ vertexCounter \in Nat /\ corner <= vertexCounter
        /\ (corner' # 0 => corner' = corner + 1)
    <3>1. d.vertexCount \in Nat /\ Len(batch.vertices) \in Nat
      BY <2>1, DrawCallFacts DEF Counted, Batches
    <3>2. corner = d.vertexCount % Corners(d.mode) /\ d.vertexCount <= vertexCounter
      BY DEF RoomInv, CountInv, SizesInv
    <3>3. corner \in Nat /\ corner <= d.vertexCount
      BY <3>1, <3>2, RemainderFacts
    <3>4. corner < Corners(d.mode) /\ Corners(d.mode) \in {2, 3, 4}
      BY <2>3, CornersFacts DEF CountInv, SizesInv
    <3>5. corner' # 0 => corner' = corner + 1
      <4>1. CASE Corners(d.mode) = 2
        BY ONLY <2>3, <3>3, <3>4, <4>1
      <4>2. CASE Corners(d.mode) = 3
        BY ONLY <2>3, <3>3, <3>4, <4>2
      <4>3. CASE Corners(d.mode) = 4
        BY ONLY <2>3, <3>3, <3>4, <4>3
      <4> QED
        BY <3>4, <4>1, <4>2, <4>3
    <3>6. vertexCounter \in Nat
      BY <3>1 DEF vertexCounter
    <3>7. corner <= vertexCounter
      BY ONLY <3>1, <3>2, <3>3, <3>6
    <3> QED
      BY ONLY <3>3, <3>5, <3>6, <3>7
  <2>5. InOrder(batch.vertices, vertexCounter - corner, corner, d.mode)
    BY <2>3 DEF ProgressInv
  <2>6. InOrder(batch'.vertices, vertexCounter - corner, corner + 1, d.mode)
    <3>1. v = [mode |-> d.mode, corner |-> corner + 1]
      BY DEF v
    <3> HIDE DEF d
    <3>2. /\ \A j \in 1..vertexCounter : batch'.vertices[j] = batch.vertices[j]
          /\ batch'.vertices[vertexCounter + 1]
               = [mode |-> d.mode, corner |-> corner + 1]
      BY ONLY <2>2, <3>1
    <3> QED
      BY ONLY <2>4, <2>5, <3>2, InOrderGrows
  <2>7. CASE corner' # 0
    <3>1. /\ vertexCounter' - corner' = vertexCounter - corner
          /\ corner' = corner + 1 /\ CurrentDraw'.mode = d.mode
      <4>1. vertexCounter' = vertexCounter + 1 /\ CurrentDraw' = Slot(batch')
        BY <2>2 DEF vertexCounter, CurrentDraw, Slot
      <4> QED
        BY ONLY <2>2, <2>4, <2>7, <4>1
    <3> HIDE DEF d
    <3>2. InOrder(batch'.vertices, vertexCounter' - corner', corner', CurrentDraw'.mode)
      BY ONLY <2>6, <3>1
    <3> QED
      BY <3>2 DEF ProgressInv, InOrder
  <2> QED
    BY <1>1, <2>7
<1>3. ASSUME ~rlVertex3f PROVE (~open' \/ corner' = 0) \/ UNCHANGED vars
  <2>1. ~LostVertex
    BY NoneLost DEF CountInv
  <2>2. ~open => corner = 0
    BY DEF CountInv, SizesInv
  <2> QED
    BY <1>3, <2>1, <2>2 DEF Next, rlBegin, rlEnd, rlSetTexture, UnsetTexture,
       rlCheckRenderBatchLimit, rlDrawRenderBatchActive, rlSetShader,
       rlSetBlendMode, rlSetBlendFactors, caller
<1>4. CASE UNCHANGED vars
  BY <1>4 DEF vars, caller, ProgressInv, InOrder, vertexCounter, CurrentDraw, Slot
<1> QED
  BY <1>1, <1>2, <1>3, <1>4

(* What the steps of the refinement share.                                 *)
ImmediateInv ==
  /\ CountInv /\ BlendInv
  /\ Disciplined => RoomInv /\ TextureInv /\ ProgressInv

(* The batch with the shader and the blend function of OpenGL.             *)
LEMMA GivenFacts ==
  ASSUME CountInv
  PROVE  /\ shader \in {0} \cup Shaders /\ glBlend \in BlendFunction
         /\ Given(batch) = Give(batch, shader, glBlend)
         /\ Given(batch)' = Give(batch', shader', glBlend')
         /\ Drawn(Nothing) = <<>>
         /\ Counted(batch) /\ Len(batch.vertices) \in Nat
         /\ Slot(batch) \in DrawCall /\ CurrentDraw = Slot(batch)
         /\ CurrentDraw.mode \in PrimitiveModes
         /\ asked \in AskedType
<1>1. /\ shader \in {0} \cup Shaders /\ glBlend \in BlendFunction /\ Counted(batch)
      /\ asked \in AskedType
  BY DEF CountInv, SizesInv, TypeOK, AskedType
<1>2. Drawn(Nothing) = <<>>
  <2>1. Nothing.draws = <<>>
    BY DEF Nothing
  <2>2. Drawn(Nothing) = Before(Nothing, 0)
    BY <2>1, DrawnIsBefore
  <2> QED
    BY <2>2 DEF Before, FlattenSeq
<1>3. Slot(batch) \in DrawCall /\ Len(batch.vertices) \in Nat
  BY <1>1, GiveFacts
<1> QED
  BY <1>1, <1>2, <1>3 DEF Given, Give, CurrentDraw, DrawCall

(* A call that draws everything.                                           *)
LEMMA DrawImplements ==
  ASSUME CountInv, Draw, shader' \in Shaders, glBlend' \in BlendFunction
  PROVE  Immediate!Draw
<1>1. batch' = NewBatch
  BY DEF Draw
<1>2. Drawn(Given(batch)') = <<>>
  <2>1. Counted(NewBatch) /\ Len(NewBatch.vertices) = 0
    <3>1. NewDraw.vertexCount = 0
      BY DEF NewDraw
    <3> QED
      BY <3>1, NewBatchFacts, EmptyBatch
  <2>2. shader' \in {0} \cup Shaders
    OBVIOUS
  <2>3. Drawn(Give(NewBatch, shader', glBlend')) = <<>>
    BY ONLY <2>1, <2>2, EmptyDrawn, glBlend' \in BlendFunction
  <2> QED
    BY <1>1, <2>3, GivenFacts
<1>3. Drawn(issued') = Drawn(Given(batch))
  <2>1. issued' = IF Len(batch.vertices) > 0 THEN Given(batch) ELSE Nothing
    BY DEF Draw, Issue, vertexCounter
  <2>2. CASE Len(batch.vertices) > 0
    BY <2>1, <2>2
  <2>3. CASE Len(batch.vertices) = 0
    <3>1. Drawn(Give(batch, shader, glBlend)) = <<>>
      BY <2>3, GivenFacts, EmptyDrawn
    <3>2. issued' = Nothing
      BY <2>1, <2>3
    <3> QED
      BY <3>1, <3>2, GivenFacts
  <2> QED
    BY <2>2, <2>3, GivenFacts
<1>4. /\ Drawn(Given(batch))' = Drawn(Given(batch)')
      /\ Drawn(issued)' = Drawn(issued')
  BY DEF Drawn, Primitives
<1> QED
  BY <1>2, <1>3, <1>4 DEF Immediate!Draw

(* A call that keeps what is pending, or draws it.                         *)
LEMMA MayDrawImplements ==
  ASSUME CountInv, KeepsOrDraws(batch, batch', shader, glBlend), BatchIs(batch'),
         shader' = shader, glBlend' = glBlend
  PROVE  Immediate!MayDraw
<1>1. Given(batch)' = Give(batch', shader, glBlend) /\ Given(batch) = Give(batch, shader, glBlend)
  BY GivenFacts
<1>2. /\ Drawn(Given(batch))' = Drawn(Given(batch)')
      /\ Drawn(issued)' = Drawn(issued')
  BY DEF Drawn, Primitives
<1>3. issued' = IF Len(batch'.vertices) < Len(batch.vertices)
                THEN IF Len(batch.vertices) > 0 THEN Given(batch) ELSE Nothing
                ELSE Nothing
  BY DEF BatchIs, Issue, vertexCounter
<1>4. Len(batch.vertices) \in Nat /\ Len(batch'.vertices) \in Nat
  BY GiveFacts, GivenFacts DEF KeepsOrDraws
<1>5. CASE /\ Len(batch'.vertices) >= Len(batch.vertices)
           /\ Drawn(Give(batch', shader, glBlend)) = Drawn(Give(batch, shader, glBlend))
  <2>1. issued' = Nothing
    BY ONLY <1>3, <1>4, <1>5
  <2> QED
    BY <1>1, <1>2, <1>5, <2>1, GivenFacts DEF Immediate!MayDraw, Immediate!Keep
<1>6. CASE /\ Len(batch'.vertices) < Len(batch.vertices)
           /\ Drawn(Give(batch', shader, glBlend)) = <<>>
  <2>1. issued' = Given(batch)
    BY ONLY <1>3, <1>4, <1>6
  <2> QED
    BY <1>1, <1>2, <1>6, <2>1 DEF Immediate!MayDraw, Immediate!Draw
<1> QED
  BY <1>5, <1>6 DEF KeepsOrDraws

(* A call that leaves the batch.                                           *)
LEMMA KeepImplements ==
  ASSUME CountInv, BatchIs(batch), shader' = shader, glBlend' = glBlend
  PROVE  Immediate!Keep
<1>1. batch' = batch /\ issued' = Nothing
  <2>1. ~(Len(batch.vertices) < vertexCounter)
    BY GivenFacts DEF vertexCounter
  <2> QED
    BY <2>1 DEF BatchIs
<1>2. /\ Drawn(Given(batch))' = Drawn(Given(batch)')
      /\ Drawn(issued)' = Drawn(issued')
  BY DEF Drawn, Primitives
<1> QED
  BY <1>1, <1>2, GivenFacts DEF Immediate!Keep, Given

(* rlVertex3f completes a primitive of immediate mode, or begins it.       *)
LEMMA VertexImplements ==
  ASSUME CountInv, BlendInv, RoomInv, TextureInv, ProgressInv, Disciplined,
         ~habit.newFactors, rlVertex3f
  PROVE  Immediate!Vertex
<1> DEFINE d == CurrentDraw
           m == IF open THEN CurrentDraw.mode ELSE 0
           v == [mode |-> d.mode, corner |-> corner + 1]
           p == [mode |-> d.mode, texture |-> d.textureId,
                 shader |-> shader, blend |-> glBlend]
<1>1. /\ v \in Vertex /\ HasOneMore(batch', batch, v) /\ Len(batch.vertices) < Capacity
      /\ Counted(batch) /\ d = Slot(batch) /\ d \in DrawCall
      /\ shader \in {0} \cup Shaders /\ glBlend \in BlendFunction
      /\ Len(batch.vertices) \in Nat /\ d.mode \in {1, 4, 7}
  <2>1. Next
    BY DEF Next
  <2> QED
    BY <2>1, GivenFacts, BatchStep, DrawCallFacts DEF vertexCounter
<1>2. /\ open /\ open' = open /\ asked' = asked /\ UNCHANGED renderer
      /\ corner' = (corner + 1) % Corners(d.mode)
  BY DEF rlVertex3f, Submit
(* The texture of the draw call is one that may be in use.                 *)
<1>3. p \in Immediate!Primitives
  <2>1. m = d.mode
    BY <1>2
  <2>2. d.textureId \in Immediate!InUse
    BY <1>2, <2>1 DEF Immediate!InUse, TextureInv
  <2>3. glBlend = asked.blend
    BY DEF BlendInv
  <2> HIDE DEF d
  <2> QED
    BY <2>1, <2>2, <2>3 DEF Immediate!Primitives
<1>4. (Len(batch.vertices) - d.vertexCount) % 4 = 0
      /\ corner = d.vertexCount % Corners(d.mode)
  BY DEF RoomInv, vertexCounter
<1>5. InOrder(batch.vertices, Len(batch.vertices) - corner, corner, d.mode)
  BY <1>2 DEF ProgressInv, vertexCounter
<1>6. v = [mode |-> d.mode, corner |-> corner + 1]
  OBVIOUS
<1> HIDE DEF d, v
<1>7. Begun(batch, corner)
  BY ONLY <1>1, <1>4, <1>5 DEF Begun
<1>8. /\ Counted(batch') /\ Slot(batch') = Longer(d) /\ Longer(d).mode = d.mode
      /\ Len(batch'.vertices) = Len(batch.vertices) + 1
  BY ONLY <1>1, VertexCounted
<1>9. Drawn(Give(batch', shader, glBlend)) =
        IF Completed(corner, d.mode) THEN Append(Drawn(Give(batch, shader, glBlend)), p)
        ELSE Drawn(Give(batch, shader, glBlend))
  BY ONLY <1>1, <1>6, <1>7, VertexDrawn DEF p
<1>10. /\ Given(batch)' = Give(batch', shader, glBlend)
      /\ Given(batch) = Give(batch, shader, glBlend)
  BY <1>2, GivenFacts DEF renderer
<1>11. /\ Drawn(Given(batch))' = Drawn(Given(batch)')
       /\ Drawn(issued)' = Drawn(issued')
  BY DEF Drawn, Primitives
<1>12. Drawn(issued') = <<>>
  <2>1. ~(Len(batch'.vertices) < Len(batch.vertices))
    BY <1>1, <1>8
  <2>2. issued' = Nothing
    BY <2>1 DEF rlVertex3f, BatchIs, vertexCounter
  <2> QED
    BY <2>2, GivenFacts
<1>13. Drawn(Given(batch))' = IF corner' = 0 THEN Append(Drawn(Given(batch)), p)
                              ELSE Drawn(Given(batch))
  <2>1. Completed(corner, d.mode) <=> corner' = 0
    BY ONLY <1>2 DEF Completed
  <2> QED
    BY ONLY <1>9, <1>10, <1>11, <2>1
<1>14. (IF open THEN CurrentDraw.mode ELSE 0) = d.mode
       /\ (IF open THEN CurrentDraw.mode ELSE 0)' = d.mode
  <2>1. CurrentDraw' = Slot(batch')
    BY DEF CurrentDraw, Slot
  <2> QED
    BY <1>2, <1>8, <2>1 DEF d
<1> HIDE DEF p
<1>15. Drawn(Given(batch))' \in
         IF corner' = 0
         THEN {Append(Drawn(Given(batch)), x) : x \in Immediate!Primitives}
         ELSE {Drawn(Given(batch))}
  BY <1>3, <1>13
<1> QED
  BY <1>1, <1>2, <1>11, <1>12, <1>14, <1>15 DEF Immediate!Vertex, renderer

(* Every call of a caller who keeps to the rules is one of immediate mode. *)
LEMMA ImmediateStep ==
  ASSUME ImmediateInv, Disciplined, ~habit.newFactors, Next
  PROVE  Immediate!Next
<1>1. /\ CountInv /\ BlendInv /\ RoomInv /\ TextureInv /\ ProgressInv
      /\ shader \in {0} \cup Shaders /\ glBlend \in BlendFunction
      /\ CurrentDraw.mode \in PrimitiveModes /\ 0 \notin PrimitiveModes
      /\ asked \in [texture : {0} \cup Textures, last : Textures,
                    blend : BlendFunction]
      /\ asked.texture \in {0, asked.last}
  BY GivenFacts DEF ImmediateInv, TextureInv, AskedType,
     PrimitiveModes, RL_LINES, RL_TRIANGLES, RL_QUADS
<1>2. rlVertex3f \/ KeepsOrDraws(batch, batch', shader, glBlend)
  BY <1>1, BatchStep
<1>3. shader \in Shaders /\ corner \in 0..3 /\ (~open => corner = 0)
  BY <1>1 DEF CountInv, SizesInv, TypeOK
<1>4. ASSUME NEW m \in Modes, rlBegin(m) PROVE Immediate!Begin
  <2>1. BatchIs(batch') /\ ~open /\ open' = TRUE
    BY <1>4 DEF rlBegin, BatchIs
  <2>2. ~rlVertex3f
    BY <2>1 DEF rlVertex3f, Submit
  <2>3. Immediate!MayDraw
    BY <1>1, <1>2, <1>4, <2>1, <2>2, MayDrawImplements DEF rlBegin, renderer
  <2>4. CurrentDraw'.mode \in PrimitiveModes
    <3>1. CountInv'
      BY <1>1, CountStep
    <3>2. Sized(batch') /\ CurrentDraw' = Slot(batch')
      BY <1>1, SizedStep DEF CountInv, CurrentDraw, Slot
    <3> QED
      BY <3>2, SizedFacts DEF DrawCall
  <2> QED
    BY <1>4, <2>1, <2>3, <2>4 DEF Immediate!Begin, rlBegin, renderer
<1>5. CASE rlVertex3f
  BY <1>1, <1>5, VertexImplements DEF Immediate!Next
<1>6. ~LostVertex
  BY <1>1, NoneLost DEF CountInv
<1>7. CASE rlEnd
  <2>1. Immediate!MayDraw
    <3>1. CASE Draw
      BY <1>1, <1>3, <1>7, <3>1, DrawImplements DEF rlEnd, renderer, Immediate!MayDraw
    <3>2. CASE BatchIs(batch)
      BY <1>1, <1>7, <3>2, KeepImplements DEF rlEnd, renderer, Immediate!MayDraw
    <3> QED
      BY <1>7, <3>1, <3>2 DEF rlEnd
  <2>2. asked'.texture = 0 /\ asked'.last = asked.last /\ asked'.blend = asked.blend
    BY <1>1, <1>7 DEF rlEnd
  <2>3. Immediate!End
    BY <1>1, <1>7, <2>1, <2>2 DEF Immediate!End, rlEnd, renderer
  <2> QED
    BY <2>3 DEF Immediate!Next
(* Calls between rlEnd and rlBegin.                                        *)
<1>8. ASSUME ~open, open' = open, UNCHANGED <<corner, shader>>, Immediate!MayDraw,
             asked'.texture \in Textures \cup {0}, asked'.blend = asked.blend,
             asked'.last = IF asked'.texture = 0 THEN asked.last ELSE asked'.texture
      PROVE  Immediate!SetTexture
  BY <1>8 DEF Immediate!SetTexture
<1>9. ASSUME NEW t \in Textures, rlSetTexture(t) PROVE Immediate!SetTexture
  <2>1. BatchIs(batch') /\ ~open
    BY <1>9 DEF rlSetTexture, BatchIs
  <2>2. ~rlVertex3f
    BY <2>1 DEF rlVertex3f, Submit
  <2>3. Immediate!MayDraw
    BY <1>1, <1>2, <1>9, <2>1, <2>2, MayDrawImplements DEF rlSetTexture, renderer
  <2>4. asked'.texture = t /\ asked'.last = t /\ asked'.blend = asked.blend /\ t # 0
    BY <1>1, <1>9, BatchAssumption DEF rlSetTexture
  <2> QED
    BY <1>8, <1>9, <2>3, <2>4 DEF rlSetTexture, renderer
<1>10. CASE UnsetTexture \/ rlDrawRenderBatchActive
  <2>1. Immediate!MayDraw
    <3>1. CASE Draw
      BY <1>1, <1>3, <1>10, <3>1, DrawImplements
         DEF UnsetTexture, rlDrawRenderBatchActive, renderer, Immediate!MayDraw
    <3>2. CASE BatchIs(batch)
      BY <1>1, <1>10, <3>2, KeepImplements
         DEF UnsetTexture, rlDrawRenderBatchActive, renderer, Immediate!MayDraw
    <3> QED
      BY <1>10, <3>1, <3>2 DEF UnsetTexture, rlDrawRenderBatchActive
  <2>2. asked'.texture = 0 /\ asked'.last = asked.last /\ asked'.blend = asked.blend
    BY <1>1, <1>10 DEF UnsetTexture, rlDrawRenderBatchActive
  <2>3. Immediate!SetTexture
    BY <1>8, <1>10, <2>1, <2>2 DEF UnsetTexture, rlDrawRenderBatchActive, renderer
  <2> QED
    BY <2>3 DEF Immediate!Next
<1>11. ASSUME NEW n \in Reservations, rlCheckRenderBatchLimit(n) PROVE Immediate!SetTexture
  <2>1. BatchIs(batch') /\ ~open
    BY <1>11 DEF rlCheckRenderBatchLimit, BatchIs
  <2>2. ~rlVertex3f
    BY <2>1 DEF rlVertex3f, Submit
  <2>3. Immediate!MayDraw
    BY <1>1, <1>2, <1>11, <2>1, <2>2, MayDrawImplements DEF rlCheckRenderBatchLimit, renderer
  <2> QED
    BY <1>1, <1>8, <1>11, <2>3 DEF rlCheckRenderBatchLimit, renderer
<1>12. ASSUME NEW f \in Factors, rlSetBlendFactors(f) PROVE Immediate!SetTexture
  <2>1. Immediate!Keep
    BY <1>1, <1>12, KeepImplements DEF rlSetBlendFactors
  <2> QED
    BY <1>1, <1>8, <1>12, <2>1 DEF rlSetBlendFactors, caller, Immediate!MayDraw
<1>13. ASSUME NEW s \in Shaders, rlSetShader(s) PROVE Immediate!SetState
  <2>1. /\ ~open /\ open' = open /\ corner' = corner /\ shader' = s /\ glBlend' = glBlend
    BY <1>13 DEF rlSetShader
  <2>2. /\ asked'.texture = 0 /\ asked'.last = asked.last
        /\ asked'.blend = asked.blend /\ asked.blend \in BlendFunction
    BY <1>1, <1>13 DEF rlSetShader
  <2>3. CASE shader # s
    <3>1. Immediate!Draw
      BY <1>1, <1>13, <2>1, <2>3, DrawImplements DEF rlSetShader
    <3> QED
      BY <2>1, <2>2, <2>3, <3>1 DEF Immediate!SetState
  <2>4. CASE shader = s
    <3>1. Immediate!Keep
      BY <1>1, <1>13, <2>1, <2>4, KeepImplements DEF rlSetShader
    <3> QED
      BY <2>1, <2>2, <2>4, <3>1 DEF Immediate!SetState, Immediate!MayDraw
  <2> QED
    BY <2>3, <2>4
<1>14. ASSUME NEW m \in Blends, rlSetBlendMode(m) PROVE Immediate!SetState
  <2>1. /\ ~open /\ open' = open /\ corner' = corner /\ shader' = shader
        /\ asked' = [asked EXCEPT !.texture = 0, !.blend = Function(m)]
    BY <1>14 DEF rlSetBlendMode
  <2>2. asked'.texture = 0 /\ asked'.last = asked.last /\ asked'.blend = Function(m)
    BY <1>1, <2>1
  <2>3. Function(m) \in BlendFunction
    BY <1>1, <1>14 DEF Function, BlendFunction, CountInv, SizesInv, TypeOK
  <2>4. CASE blendMode # m
    <3>1. Draw /\ glBlend' = Function(m)
      BY <1>14, <2>4 DEF rlSetBlendMode
    <3>2. Immediate!Draw
      BY <1>1, <1>3, <2>1, <2>3, <3>1, DrawImplements
    <3> QED
      BY <1>3, <2>1, <2>2, <2>3, <3>2 DEF Immediate!SetState, Immediate!MayDraw
  <2>5. CASE blendMode = m
    <3>1. BatchIs(batch) /\ glBlend' = glBlend
      BY <1>14, <2>5 DEF rlSetBlendMode
    <3>2. Immediate!Keep
      BY <1>1, <2>1, <3>1, KeepImplements
    <3>3. asked'.blend = asked.blend
      BY <1>1, <2>2, <2>5 DEF BlendInv
    <3> QED
      BY <1>3, <2>1, <2>2, <2>3, <3>2, <3>3 DEF Immediate!SetState, Immediate!MayDraw
  <2> QED
    BY <2>4, <2>5
<1>15. CASE \/ \E m \in Modes : rlBegin(m)
            \/ \E t \in Textures : rlSetTexture(t)
            \/ \E n \in Reservations : rlCheckRenderBatchLimit(n)
  BY <1>4, <1>9, <1>11, <1>15 DEF Immediate!Next
<1>16. CASE \/ \E s \in Shaders : rlSetShader(s)
            \/ \E m \in Blends : rlSetBlendMode(m)
            \/ \E f \in Factors : rlSetBlendFactors(f)
  BY <1>12, <1>13, <1>14, <1>16 DEF Immediate!Next
<1> QED
  BY <1>5, <1>6, <1>7, <1>10, <1>15, <1>16 DEF Next

(* Nothing is pending or issued at the start.                              *)
LEMMA ImmediateInit == Init => ImmediateInv /\ Immediate!Init
<1> SUFFICES ASSUME Init PROVE ImmediateInv /\ Immediate!Init
  OBVIOUS
<1>1. CountInv
  BY CountInit
<1>2. BlendInv
  BY DEF Init, BlendInv, Function, DefaultBlend
<1>3. ProgressInv
  BY DEF Init, ProgressInv
<1>4. ImmediateInv
  BY <1>1, <1>2, <1>3, RoomInit, TextureInit DEF ImmediateInv
<1>5. Drawn(Given(batch)) = <<>>
  <2>1. Len(batch.vertices) = 0
    BY NewBatchFacts DEF Init
  <2> QED
    BY <1>1, <2>1, GivenFacts, EmptyDrawn
<1>6. Drawn(issued) = <<>>
  BY <1>1, GivenFacts DEF Init
<1>7. /\ shader \in Shaders /\ asked.blend \in BlendFunction
      /\ asked.texture = 0 /\ asked.last = DefaultTexture
      /\ open = FALSE /\ corner = 0
  BY BatchAssumption DEF Init, DefaultBlend, BlendFunction
<1> QED
  BY <1>4, <1>5, <1>6, <1>7 DEF Immediate!Init

(* The invariant of the refinement is kept by every call.                  *)
LEMMA ImmediateInvStep == ImmediateInv /\ [Next]_vars => ImmediateInv'
<1> SUFFICES ASSUME ImmediateInv, [Next]_vars PROVE ImmediateInv'
  OBVIOUS
<1>1. CountInv' /\ BlendInv'
  BY CountStep, BlendStep DEF ImmediateInv, CountInv
<1>2. Disciplined' = Disciplined
  BY HabitStep
<1>3. ASSUME Disciplined PROVE RoomInv' /\ TextureInv' /\ ProgressInv'
  <2>1. CountInv /\ SizesInv /\ RoomInv /\ TextureInv /\ ProgressInv /\ SizesInv'
    BY <1>1, <1>3 DEF ImmediateInv, CountInv
  <2> QED
    BY <1>3, <2>1, RoomStep, TextureStep, ProgressStep
<1> QED
  BY <1>1, <1>2, <1>3 DEF ImmediateInv

(* Whatever the sizes of the buffer and of the list, the batch draws what  *)
(* immediate mode would: each primitive once, in order, from its own       *)
(* vertices, in its mode, with its texture, shader and blend function, for *)
(* disciplined callers that leave the factors of the custom mode alone.    *)
THEOREM BatchImplementsImmediate == Spec => ImmediateSpec
<1>1. ImmediateInv /\ [Next]_vars => 
         [Disciplined /\ ~habit.newFactors => Immediate!Next]_(Immediate!vars)
  <2> SUFFICES ASSUME ImmediateInv, [Next]_vars
               PROVE  \/ Disciplined /\ ~habit.newFactors => Immediate!Next
                      \/ UNCHANGED Immediate!vars
    OBVIOUS
  <2>1. CASE Next
    BY <2>1, ImmediateStep
  <2>2. CASE UNCHANGED vars
    <3>1. /\ batch' = batch /\ issued' = issued /\ shader' = shader /\ glBlend' = glBlend
          /\ asked' = asked /\ corner' = corner /\ open' = open
      BY <2>2 DEF vars, renderer, caller
    <3>2. Drawn(Given(batch))' = Drawn(Given(batch)) /\ Drawn(issued)' = Drawn(issued)
      BY <3>1 DEF Given
    <3>3. CurrentDraw' = CurrentDraw
      BY <3>1 DEF CurrentDraw, Slot
    <3> QED
      BY <3>1, <3>2, <3>3 DEF Immediate!vars, Immediate!state
  <2> QED
    BY <2>1, <2>2
<1> QED
  BY <1>1, ImmediateInit, ImmediateInvStep, PTL DEF Spec, ImmediateSpec

=============================================================================
