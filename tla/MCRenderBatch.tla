--------------------------- MODULE MCRenderBatch ---------------------------
(* A buffer of a few quads and a short list of draw calls, texture 1 is the*)
(* default texture.  Three callers: one that draws in all modes and relies *)
(* on rlEnd, one that reserves room for quads, and one that reserves and   *)
(* draws in all modes, and so reaches a full buffer within a primitive.    *)
(* A fourth, of a run of its own, sets new factors in the custom mode.     *)
EXTENDS RenderBatchRefinement

Habit(modes, reservations) ==
  [modes |-> modes, reservations |-> reservations, newFactors |-> FALSE]

MCHabits == {Habit(PrimitiveModes, {}), Habit({RL_QUADS}, {5, 8, 16}),
             Habit(PrimitiveModes, {9})}

RestlessHabits == {[Habit({RL_QUADS}, {}) EXCEPT !.newFactors = TRUE]}

=============================================================================
