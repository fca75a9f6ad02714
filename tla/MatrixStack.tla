---------------------------- MODULE MatrixStack ----------------------------
(***************************************************************************)
(* The matrices of rlgl.h, OpenGL 3.3: rlgl emulates the matrix stacks of  *)
(* OpenGL 1.1 with two matrices, one stack for both and a third matrix,    *)
(* transform, that replaces modelview between rlPushMatrix and rlPopMatrix *)
(* and is applied to each vertex when it is submitted.  modelview and      *)
(* projection are applied when the batch is drawn.                         *)
(*                                                                         *)
(* A matrix is a product: the sequence of its factors in the order in      *)
(* which they are applied to a vertex, so that rlMatrixMultiply(left,      *)
(* right) is left \o right and the identity is <<>>.                       *)
(*                                                                         *)
(* The caller is one written for OpenGL 1.1: top holds the matrices it     *)
(* believes in, scopes what it has pushed.  It pops each matrix in the     *)
(* mode it pushed it in.  What rlgl cannot do it does only if it is        *)
(* Careless of it.                                                         *)
(***************************************************************************)
EXTENDS Integers, Sequences

CONSTANTS
  Factors,      \* the matrices of translations, rotations, ...
  MaxFactors,   \* bound on the factors of a matrix
  MaxStack,     \* RL_MAX_MATRIX_STACK_SIZE
  EndLimit,     \* vertices at which rlEnd draws: elementCount*4 - 4
  Careless      \* habits of the caller

ASSUME MatrixAssumption ==
  /\ MaxFactors \in Nat /\ MaxStack \in Nat /\ EndLimit \in Nat
  /\ Careless \subseteq {"pendingChange", "fillInScope", "modeInScope",
                         "identityInScope", "multiplied", "afterPop", "deep"}

VARIABLES
  currentMatrixMode,  \* the mode of rlMatrixMode, 0 at first
  currentMatrix,      \* the matrix currentMatrix points to
  matrix,             \* modelview, projection and transform
  transformRequired,
  stack,              \* the entries below stackCounter
  pending,            \* the vertices of the batch, see rlVertex3f
  top,                \* modelview and projection matrix of OpenGL 1.1
  scopes              \* mode and matrix of every push not popped

rlgl   == <<currentMatrixMode, currentMatrix, matrix, transformRequired, stack>>
caller == <<top, scopes>>
vars   == <<rlgl, pending, caller>>

RL_MODELVIEW  == 5888
RL_PROJECTION == 5889
Modes == {RL_MODELVIEW, RL_PROJECTION}

Identity == <<>>

Below(s) == SubSeq(s, 1, Len(s) - 1)

(* OpenGL 1.1 begins in the modelview mode.                                *)
GLMode == IF currentMatrixMode = 0 THEN RL_MODELVIEW ELSE currentMatrixMode

(* What the caller expects of its calls.                                   *)
GLSet(m)  == top' = [top EXCEPT ![GLMode] = m]
GLMult(f) == GLSet(<<f>> \o top[GLMode])

-----------------------------------------------------------------------------
(* The caller.                                                             *)

(* It is between rlPushMatrix and rlPopMatrix in the modelview mode.       *)
InScope == scopes # <<>> /\ scopes[Len(scopes)].mode = RL_MODELVIEW

(* It draws what it has submitted before it changes a matrix the batch     *)
(* will be drawn with.                                                     *)
MayChange == InScope \/ pending = <<>> \/ "pendingChange" \in Careless

(* In the scope of a projection it leaves the modelview as it is once it   *)
(* has popped one.                                                         *)
MayMultiply ==
  /\ MayChange
  /\ InScope \/ currentMatrix # "transform" \/ "afterPop" \in Careless
  /\ Len(top[GLMode]) < MaxFactors

-----------------------------------------------------------------------------

(* rlglInit                                                                *)
Init ==
  /\ currentMatrixMode = 0
  /\ currentMatrix = "modelview"
  /\ matrix = [modelview |-> Identity, projection |-> Identity,
               transform |-> Identity]
  /\ transformRequired = FALSE
  /\ stack = <<>>
  /\ pending = <<>>
  /\ top = [m \in Modes |-> Identity]
  /\ scopes = <<>>

rlMatrixMode(m) ==
  /\ InScope => "modeInScope" \in Careless
  /\ currentMatrixMode' = m
  /\ currentMatrix' = IF m = RL_PROJECTION THEN "projection" ELSE "modelview"
  /\ UNCHANGED <<matrix, transformRequired, stack, pending, caller>>

PushScope ==
  scopes' = Append(scopes, [mode |-> currentMatrixMode, saved |-> top[GLMode]])

(* Bug: the matrix is pushed and changed in place.                         *)
rlPushMatrixInPlace ==
  /\ Len(scopes) < MaxStack
  /\ stack' = Append(stack, matrix[currentMatrix])
  /\ PushScope
  /\ UNCHANGED <<currentMatrixMode, currentMatrix, matrix, transformRequired,
                 pending, top>>

(* A full stack is only logged.                                            *)
rlPushMatrix ==
  /\ Len(scopes) < MaxStack \/ (Len(scopes) = MaxStack /\ "deep" \in Careless)
  /\ IF currentMatrixMode = RL_MODELVIEW
     THEN transformRequired' = TRUE /\ currentMatrix' = "transform"
     ELSE UNCHANGED <<transformRequired, currentMatrix>>
  /\ stack' = Append(stack, matrix[currentMatrix'])
  /\ PushScope
  /\ UNCHANGED <<currentMatrixMode, matrix, pending, top>>

(* Bug: stackCounter stays.                                                *)
PoppedKept ==
  /\ stack' = stack
  /\ matrix' = IF stack = <<>> THEN matrix
               ELSE [matrix EXCEPT ![currentMatrix] = stack[Len(stack)]]
  /\ IF stack' = <<>> /\ currentMatrixMode = RL_MODELVIEW
     THEN currentMatrix' = "modelview" /\ transformRequired' = FALSE
     ELSE UNCHANGED <<currentMatrix, transformRequired>>

(* The last matrix of the stack becomes the current one.                   *)
Popped ==
  /\ stack' = IF stack = <<>> THEN stack ELSE Below(stack)
  /\ matrix' = IF stack = <<>> THEN matrix
               ELSE [matrix EXCEPT ![currentMatrix] = stack[Len(stack)]]
  /\ IF stack' = <<>> /\ currentMatrixMode = RL_MODELVIEW
     THEN currentMatrix' = "modelview" /\ transformRequired' = FALSE
     ELSE UNCHANGED <<currentMatrix, transformRequired>>

PopScope ==
  /\ scopes # <<>>
  /\ LET scope == scopes[Len(scopes)]
     IN  scope.mode = currentMatrixMode /\ GLSet(scope.saved)
  /\ scopes' = Below(scopes)

rlPopMatrix ==
  /\ MayChange
  /\ PopScope
  /\ Popped
  /\ UNCHANGED <<currentMatrixMode, pending>>

rlLoadIdentity ==
  /\ MayChange
  /\ InScope /\ matrix.modelview # Identity => "identityInScope" \in Careless
  /\ currentMatrix = "transform" /\ ~InScope => "afterPop" \in Careless
  /\ matrix' = [matrix EXCEPT ![currentMatrix] = Identity]
  /\ GLSet(Identity)
  /\ UNCHANGED <<currentMatrixMode, currentMatrix, transformRequired, stack,
                 pending, scopes>>

(* Bug: the factors are in the order of the calls.                         *)
rlTranslatefAfter(f) ==
  /\ MayMultiply
  /\ matrix' = [matrix EXCEPT ![currentMatrix] = @ \o <<f>>]
  /\ GLMult(f)
  /\ UNCHANGED <<currentMatrixMode, currentMatrix, transformRequired, stack,
                 pending, scopes>>

(* rlTranslatef, rlRotatef and rlScalef.                                   *)
rlTranslatef(f) ==
  /\ MayMultiply
  /\ matrix' = [matrix EXCEPT ![currentMatrix] = <<f>> \o @]
  /\ GLMult(f)
  /\ UNCHANGED <<currentMatrixMode, currentMatrix, transformRequired, stack,
                 pending, scopes>>

(* rlMultMatrixf, rlFrustum and rlOrtho multiply on the other side: they   *)
(* do what OpenGL does only to an identity.                                *)
rlMultMatrixf(f) ==
  /\ MayMultiply
  /\ matrix[currentMatrix] # Identity => "multiplied" \in Careless
  /\ matrix' = [matrix EXCEPT ![currentMatrix] = @ \o <<f>>]
  /\ GLMult(f)
  /\ UNCHANGED <<currentMatrixMode, currentMatrix, transformRequired, stack,
                 pending, scopes>>

(* A vertex of the batch: the transform it was submitted with, and what    *)
(* the caller meant it to be transformed by.                               *)
rlVertex3f ==
  /\ Len(pending) < EndLimit
  /\ pending' = Append(pending,
       [baked |-> IF transformRequired THEN matrix.transform ELSE Identity,
        meant |-> top[RL_MODELVIEW] \o top[RL_PROJECTION]])
  /\ UNCHANGED <<rlgl, caller>>

(* rlDrawRenderBatch, from wherever it is called.                          *)
rlDrawRenderBatchActive ==
  /\ pending' = <<>>
  /\ UNCHANGED <<rlgl, caller>>

(* rlEnd draws a batch without room for another primitive, and pops all    *)
(* matrices before it does: each into the current one, so that the first   *)
(* entry of the stack remains.                                             *)
rlEnd ==
  /\ Len(pending) >= EndLimit
  /\ scopes # <<>> => "fillInScope" \in Careless
  /\ stack' = <<>>
  /\ matrix' = IF stack = <<>> THEN matrix
               ELSE [matrix EXCEPT ![currentMatrix] = stack[1]]
  /\ IF currentMatrixMode = RL_MODELVIEW
     THEN currentMatrix' = "modelview" /\ transformRequired' = FALSE
     ELSE UNCHANGED <<currentMatrix, transformRequired>>
  /\ pending' = <<>>
  /\ UNCHANGED <<currentMatrixMode, caller>>

Next ==
  \/ \E m \in Modes : rlMatrixMode(m)
  \/ rlPushMatrix \/ rlPopMatrix
  \/ rlLoadIdentity
  \/ \E f \in Factors : rlTranslatef(f) \/ rlMultMatrixf(f)
  \/ rlVertex3f \/ rlDrawRenderBatchActive \/ rlEnd

Spec == Init /\ [][Next]_vars

-----------------------------------------------------------------------------

Matrices == Seq(Factors)

TypeOK ==
  /\ currentMatrixMode \in {0} \cup Modes
  /\ currentMatrix \in {"modelview", "projection", "transform"}
  /\ matrix \in [{"modelview", "projection", "transform"} -> Matrices]
  /\ transformRequired \in BOOLEAN
  /\ stack \in Seq(Matrices) /\ Len(stack) <= MaxStack
  /\ pending \in Seq([baked : Matrices, meant : Matrices])
  /\ top \in [Modes -> Matrices]
  /\ scopes \in Seq([mode : {0} \cup Modes, saved : Matrices])

(* What a vertex submitted now is transformed by, before the projection.   *)
Modelview ==
  IF transformRequired THEN matrix.transform \o matrix.modelview
  ELSE matrix.modelview

(* "emulating OpenGL 1.1": after any sequence of pushes, pops, mode        *)
(* changes and multiplications, the matrices are those OpenGL would have.  *)
MatricesAsOpenGL ==
  /\ Modelview = top[RL_MODELVIEW]
  /\ matrix.projection = top[RL_PROJECTION]

(* What is waiting in the batch will be drawn with the matrices of the     *)
(* moment of its submission, although modelview and projection are only    *)
(* applied when the batch is drawn.                                        *)
DrawnAsSubmitted ==
  \A i \in DOMAIN pending :
    pending[i].baked \o matrix.modelview \o matrix.projection = pending[i].meant

=============================================================================
