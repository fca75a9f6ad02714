--------------------------- MODULE ImmediateMode ---------------------------
(***************************************************************************)
(* What rlgl promises its callers: it behaves like the immediate mode of   *)
(* OpenGL 1.1, except that primitives may be drawn later than they were    *)
(* submitted.  Each is drawn once, in order, in the mode, with the texture *)
(* and under the shader and the blend function of its submission.          *)
(***************************************************************************)
EXTENDS Naturals, Sequences

CONSTANTS Modes, Quads, Corners(_), Textures, DefaultTexture, Shaders,
          BlendFunctions

VARIABLES
  pending,  \* primitives submitted and not yet drawn
  issued,   \* the primitives the last call drew
  mode,     \* mode of rlBegin, 0 outside rlBegin and rlEnd
  corner,   \* vertices of the next primitive
  texture,  \* texture set for the primitives up to the next End, or 0
  last,     \* the last texture that was set
  shader,
  blend

state == <<mode, corner, texture, last, shader, blend>>
vars == <<pending, issued, state>>

Init ==
  /\ pending = <<>> /\ issued = <<>>
  /\ mode = 0 /\ corner = 0 /\ texture = 0 /\ last = DefaultTexture
  /\ shader \in Shaders
  /\ blend \in BlendFunctions

Keep == issued' = <<>> /\ UNCHANGED pending
Draw == issued' = pending /\ pending' = <<>>
MayDraw == Keep \/ Draw

Begin ==
  /\ mode = 0
  /\ mode' \in Modes
  /\ MayDraw
  /\ UNCHANGED <<corner, texture, last, shader, blend>>

(* The textures a primitive may be drawn with.  Lines and triangles take   *)
(* the default texture, quads the one that was set.  With none set, a quad *)
(* is promised no more than that the last one set may still be in use.     *)
InUse ==
  IF mode # Quads THEN {DefaultTexture}
  ELSE IF texture # 0 THEN {texture}
  ELSE {DefaultTexture, last}

Primitives ==
  [mode : {mode}, texture : InUse, shader : {shader}, blend : {blend}]

Vertex ==
  /\ mode # 0
  /\ corner' = (corner + 1) % Corners(mode)
  /\ issued' = <<>>
  /\ pending' \in IF corner' = 0 THEN {Append(pending, p) : p \in Primitives}
                 ELSE {pending}
  /\ UNCHANGED <<mode, texture, last, shader, blend>>

End ==
  /\ mode # 0 /\ corner = 0
  /\ mode' = 0 /\ texture' = 0
  /\ MayDraw
  /\ UNCHANGED <<corner, last, shader, blend>>

SetTexture ==
  /\ mode = 0
  /\ texture' \in Textures \cup {0}
  /\ last' = IF texture' = 0 THEN last ELSE texture'
  /\ MayDraw
  /\ UNCHANGED <<mode, corner, shader, blend>>

(* A state changes only when everything submitted under it is drawn.  The  *)
(* caller sets the texture again after it.                                 *)
SetState ==
  /\ mode = 0
  /\ texture' = 0
  /\ shader' \in Shaders /\ blend' \in BlendFunctions
  /\ IF <<shader', blend'>> = <<shader, blend>> THEN MayDraw ELSE Draw
  /\ UNCHANGED <<mode, corner, last>>

Next == Begin \/ Vertex \/ End \/ SetTexture \/ SetState

Spec == Init /\ [][Next]_vars

=============================================================================
