---------------------------- MODULE MatrixProofs ----------------------------
(***************************************************************************)
(* MatrixStack: a careful caller gets the matrices of OpenGL 1.1 from      *)
(* rlgl, and every vertex is drawn with those of its submission, for every *)
(* set of factors and every bound.                                         *)
(*                                                                         *)
(* Rotations: the functions of raymath.h that make a rotation of angles or *)
(* of an axis agree, for every Unit that is a multiple of 5^6 and all      *)
(* angles and axes of RotationsAssumption.  Its values are counts of       *)
(* powers of 1/5.  The lemmas compute the functions on counts, where no    *)
(* product or quotient is inexact; what is left is algebra of integers.    *)
(***************************************************************************)
EXTENDS MatrixStack, Rotations, SequenceTheorems, TLAPS

Careful == Careless = {}

(* The pushed matrices and the pointers between the calls.                 *)
PointerInv ==
  /\ Len(stack) = Len(scopes)
  /\ currentMatrixMode = 0 => currentMatrix = "modelview"
  /\ currentMatrixMode = RL_PROJECTION <=> currentMatrix = "projection"
  /\ currentMatrix = "transform" => transformRequired
  /\ InScope => currentMatrix = "transform"

(* Scopes of the modelview are innermost; the first one has saved the      *)
(* identity, which transform is outside of them.                           *)
ScopeInv ==
  /\ ~InScope => matrix.transform = Identity
  /\ \A i \in 1..Len(scopes) :
       scopes[i].mode = RL_MODELVIEW =>
         /\ \A j \in i..Len(scopes) : scopes[j].mode = RL_MODELVIEW
         /\ i = 1 \/ scopes[i - 1].mode # RL_MODELVIEW => stack[i] = Identity
         /\ scopes[i].saved = stack[i] \o matrix.modelview
  /\ \A i \in 1..Len(scopes) :
       scopes[i].mode # RL_MODELVIEW => scopes[i].saved = stack[i]

MatrixInv ==
  TypeOK /\ PointerInv /\ ScopeInv /\ MatricesAsOpenGL /\ DrawnAsSubmitted

-----------------------------------------------------------------------------
(* Products.                                                               *)

LEMMA Product ==
  ASSUME NEW a \in Matrices, NEW b \in Matrices
  PROVE  /\ a \o b \in Matrices
         /\ Identity \o a = a /\ a \o Identity = a
BY ConcatProperties, ConcatEmptySeq DEF Matrices, Identity

LEMMA Associative ==
  ASSUME NEW a \in Matrices, NEW b \in Matrices, NEW c \in Matrices
  PROVE  (a \o b) \o c = a \o (b \o c)
BY ConcatAssociative DEF Matrices

LEMMA Factor ==
  ASSUME NEW f \in Factors
  PROVE  <<f>> \in Matrices
BY DEF Matrices

LEMMA IdentityType == Identity \in Matrices
BY EmptySeq DEF Matrices, Identity

LEMMA Parts ==
  ASSUME TypeOK
  PROVE  /\ matrix.modelview \in Matrices /\ matrix.projection \in Matrices
         /\ matrix.transform \in Matrices
         /\ top[RL_MODELVIEW] \in Matrices /\ top[RL_PROJECTION] \in Matrices
         /\ matrix[currentMatrix] \in Matrices /\ top[GLMode] \in Matrices
         /\ GLMode \in Modes
BY DEF TypeOK, Modes, GLMode

(* Outside and inside the scopes of the modelview alike.                   *)
LEMMA ModelviewIs ==
  ASSUME MatrixInv
  PROVE  Modelview = matrix.transform \o matrix.modelview
<1>1. TypeOK /\ PointerInv /\ ScopeInv
  BY DEF MatrixInv
<1>2. CASE transformRequired
  BY <1>2 DEF Modelview
<1>3. CASE ~transformRequired
  <2>1. matrix.transform = Identity
    BY <1>1, <1>3 DEF PointerInv, ScopeInv
  <2>2. matrix.modelview \in Matrices
    BY <1>1, Parts
  <2>3. Modelview = matrix.modelview
    BY <1>3 DEF Modelview
  <2> QED
    BY <2>1, <2>2, <2>3, Product
<1> QED BY <1>2, <1>3

LEMMA MatrixInit == Init => MatrixInv
<1> SUFFICES ASSUME Init PROVE MatrixInv
  OBVIOUS
<1> USE IdentityType DEF Init
<1>1. TypeOK
  <2>1. /\ stack \in Seq(Matrices) /\ pending \in Seq([baked : Matrices, meant : Matrices])
        /\ scopes \in Seq([mode : {0} \cup Modes, saved : Matrices])
        /\ Len(stack) = 0
    BY EmptySeq
  <2>2. MaxStack \in Nat
    BY MatrixAssumption
  <2>3. matrix \in [{"modelview", "projection", "transform"} -> Matrices]
    OBVIOUS
  <2>4. top \in [Modes -> Matrices]
    OBVIOUS
  <2>5. transformRequired \in BOOLEAN
    OBVIOUS
  <2>6. Len(stack) <= MaxStack
    BY <2>1, <2>2
  <2>7. /\ currentMatrixMode \in {0} \cup Modes
        /\ currentMatrix \in {"modelview", "projection", "transform"}
    OBVIOUS
  <2> HIDE DEF Init
  <2> QED BY <2>1, <2>3, <2>4, <2>5, <2>6, <2>7, Zenon DEF TypeOK
<1>2. Len(stack) = 0 /\ Len(scopes) = 0 /\ ~InScope
  BY DEF InScope
<1>3. PointerInv /\ ScopeInv
  BY <1>2 DEF PointerInv, ScopeInv, RL_PROJECTION
<1>4. MatricesAsOpenGL /\ DrawnAsSubmitted
  BY DEF MatricesAsOpenGL, DrawnAsSubmitted, Modelview, Modes, RL_MODELVIEW, RL_PROJECTION
<1> QED BY <1>1, <1>3, <1>4 DEF MatrixInv

-----------------------------------------------------------------------------
(* The steps.                                                              *)

LEMMA ScopesType ==
  ASSUME MatrixInv
  PROVE  /\ Len(scopes) \in Nat /\ Len(stack) = Len(scopes)
         /\ scopes = <<>> <=> Len(scopes) = 0
         /\ stack = <<>> <=> Len(scopes) = 0
         /\ \A i \in 1..Len(scopes) :
              /\ stack[i] \in Matrices
              /\ scopes[i].mode \in {0} \cup Modes
              /\ scopes[i].saved \in Matrices
<1> DEFINE Scope == [mode : {0} \cup Modes, saved : Matrices]
<1>1. stack \in Seq(Matrices) /\ scopes \in Seq(Scope) /\ Len(stack) = Len(scopes)
  BY DEF MatrixInv, TypeOK, PointerInv
<1> HIDE DEF Scope
<1>2. \A i \in 1..Len(scopes) : stack[i] \in Matrices /\ scopes[i] \in Scope
  BY <1>1, ElementOfSeq
<1>3. /\ Len(scopes) \in Nat /\ scopes = <<>> <=> Len(scopes) = 0
      /\ stack = <<>> <=> Len(stack) = 0
  BY <1>1, EmptySeq, LenProperties
<1> QED BY <1>1, <1>2, <1>3 DEF Scope

(* What the current matrix is in OpenGL.                                   *)
LEMMA CurrentIs ==
  ASSUME MatrixInv, InScope \/ currentMatrix # "transform"
  PROVE  top[GLMode] = IF currentMatrix = "transform"
                       THEN matrix.transform \o matrix.modelview
                       ELSE matrix[currentMatrix]
<1>1. TypeOK /\ PointerInv /\ ScopeInv /\ MatricesAsOpenGL
  BY DEF MatrixInv
<1>2. matrix.modelview \in Matrices
  BY <1>1, Parts
<1>3. CASE currentMatrix = "projection"
  <2>1. GLMode = RL_PROJECTION
    BY <1>1, <1>3 DEF PointerInv, GLMode, RL_PROJECTION
  <2> QED
    BY <1>1, <1>3, <2>1 DEF MatricesAsOpenGL
<1>4. CASE currentMatrix # "projection"
  <2>1. GLMode = RL_MODELVIEW
    BY <1>1, <1>4 DEF PointerInv, GLMode, TypeOK, Modes
  <2>2. top[GLMode] = matrix.transform \o matrix.modelview
    BY <1>1, <2>1, ModelviewIs DEF MatricesAsOpenGL
  <2>3. CASE currentMatrix = "transform"
    BY <2>2, <2>3
  <2>4. CASE currentMatrix # "transform"
    <3>1. currentMatrix = "modelview" /\ ~InScope
      BY <1>1, <1>4, <2>4 DEF TypeOK, PointerInv
    <3>2. matrix.transform = Identity
      BY <1>1, <3>1 DEF ScopeInv
    <3> QED
      BY <1>2, <2>2, <3>1, <3>2, Product
  <2> QED BY <2>3, <2>4
<1> QED BY <1>3, <1>4

(* No scope of the modelview is open outside of the last one.              *)
LEMMA Outside ==
  ASSUME MatrixInv, ~InScope
  PROVE  \A i \in 1..Len(scopes) : scopes[i].mode # RL_MODELVIEW
<1> SUFFICES ASSUME NEW i \in 1..Len(scopes), scopes[i].mode = RL_MODELVIEW
             PROVE  FALSE
  OBVIOUS
<1>1. Len(scopes) \in Nat
  BY ScopesType
<1>2. Len(scopes) \in i..Len(scopes) /\ scopes # <<>>
  BY <1>1, ScopesType
<1>3. \A j \in i..Len(scopes) : scopes[j].mode = RL_MODELVIEW
  BY DEF MatrixInv, ScopeInv
<1> QED BY <1>2, <1>3 DEF InScope

(* Any change of the current matrix that OpenGL makes as well.             *)
LEMMA SetCurrent ==
  ASSUME MatrixInv, NEW m \in Matrices, NEW g \in Matrices,
         matrix' = [matrix EXCEPT ![currentMatrix] = m],
         top' = [top EXCEPT ![GLMode] = g],
         UNCHANGED <<currentMatrixMode, currentMatrix, transformRequired,
                     stack, pending, scopes>>,
         InScope \/ currentMatrix # "transform",
         InScope \/ pending = <<>>,
         g = IF currentMatrix = "transform" THEN m \o matrix.modelview ELSE m
  PROVE  MatrixInv'
<1>1. TypeOK /\ PointerInv /\ ScopeInv /\ MatricesAsOpenGL /\ DrawnAsSubmitted
  BY DEF MatrixInv
<1>2. /\ matrix.modelview \in Matrices /\ matrix.projection \in Matrices
      /\ matrix.transform \in Matrices /\ GLMode \in Modes
  BY <1>1, Parts
<1>3. TypeOK'
  <2>1. /\ matrix' \in [{"modelview", "projection", "transform"} -> Matrices]
        /\ top' \in [Modes -> Matrices]
    BY <1>1 DEF TypeOK
  <2>2. UNCHANGED currentMatrixMode /\ UNCHANGED currentMatrix
        /\ UNCHANGED transformRequired /\ UNCHANGED stack
        /\ UNCHANGED pending /\ UNCHANGED scopes
    OBVIOUS
  <2> QED BY <1>1, <2>1, <2>2 DEF TypeOK
<1>4. PointerInv' /\ InScope' = InScope
  <2>1. InScope' = InScope
    BY DEF InScope
  <2>2. UNCHANGED currentMatrixMode /\ UNCHANGED currentMatrix
        /\ UNCHANGED transformRequired /\ UNCHANGED stack /\ UNCHANGED scopes
    OBVIOUS
  <2> QED BY <1>1, <2>1, <2>2 DEF PointerInv
<1>5. /\ matrix'.transform \o matrix'.modelview = top'[RL_MODELVIEW]
      /\ matrix'.projection = top'[RL_PROJECTION]
      /\ ~InScope => matrix'.transform = Identity
      /\ InScope => /\ matrix'.modelview = matrix.modelview
                    /\ matrix'.projection = matrix.projection
  <2>1. CASE currentMatrix = "transform"
    <3>1. GLMode = RL_MODELVIEW
      BY <1>1, <2>1 DEF PointerInv, GLMode, TypeOK, Modes
    <3>2. /\ matrix'.transform = m /\ matrix'.modelview = matrix.modelview
          /\ matrix'.projection = matrix.projection
      BY <1>1, <2>1 DEF TypeOK
    <3>3. top'[RL_MODELVIEW] = g /\ top'[RL_PROJECTION] = top[RL_PROJECTION]
      BY <1>1, <3>1 DEF TypeOK, Modes, RL_MODELVIEW, RL_PROJECTION
    <3> QED BY <1>1, <2>1, <3>2, <3>3 DEF MatricesAsOpenGL
  <2>2. CASE currentMatrix = "modelview"
    <3>1. GLMode = RL_MODELVIEW /\ ~InScope
      BY <1>1, <2>2 DEF PointerInv, GLMode, TypeOK, Modes
    <3>2. /\ matrix'.modelview = m /\ matrix'.transform = matrix.transform
          /\ matrix'.projection = matrix.projection
      BY <1>1, <2>2 DEF TypeOK
    <3>3. top'[RL_MODELVIEW] = m /\ top'[RL_PROJECTION] = top[RL_PROJECTION]
      BY <1>1, <2>2, <3>1 DEF TypeOK, Modes, RL_MODELVIEW, RL_PROJECTION
    <3>4. matrix.transform = Identity
      BY <1>1, <3>1 DEF ScopeInv
    <3> QED BY <1>1, <3>1, <3>2, <3>3, <3>4, Product DEF MatricesAsOpenGL
  <2>3. CASE currentMatrix = "projection"
    <3>1. GLMode = RL_PROJECTION /\ ~InScope
      BY <1>1, <2>3 DEF PointerInv, GLMode, RL_PROJECTION
    <3>2. /\ matrix'.projection = m /\ matrix'.transform = matrix.transform
          /\ matrix'.modelview = matrix.modelview
      BY <1>1, <2>3 DEF TypeOK
    <3>3. top'[RL_PROJECTION] = m /\ top'[RL_MODELVIEW] = top[RL_MODELVIEW]
      BY <1>1, <2>3, <3>1 DEF TypeOK, Modes, RL_MODELVIEW, RL_PROJECTION
    <3>4. matrix.transform \o matrix.modelview = top[RL_MODELVIEW]
      BY <1>1, ModelviewIs DEF MatricesAsOpenGL
    <3> QED BY <1>1, <3>1, <3>2, <3>3, <3>4 DEF ScopeInv
  <2> QED BY <1>1, <2>1, <2>2, <2>3 DEF TypeOK
<1>6. MatricesAsOpenGL'
  <2>1. matrix'.modelview \in Matrices
    BY <1>3 DEF TypeOK
  <2>2. CASE transformRequired
    BY <1>5, <2>2 DEF MatricesAsOpenGL, Modelview
  <2>3. CASE ~transformRequired
    <3>1. ~InScope
      BY <1>1, <2>3 DEF PointerInv
    <3>2. matrix'.modelview = top'[RL_MODELVIEW]
      BY <1>5, <2>1, <3>1, Product
    <3> QED BY <1>5, <2>3, <3>2 DEF MatricesAsOpenGL, Modelview
  <2> QED BY <2>2, <2>3
<1>7. ScopeInv'
  <2>1. CASE InScope
    BY <1>1, <1>4, <1>5, <2>1 DEF ScopeInv
  <2>2. CASE ~InScope
    <3>1. \A i \in 1..Len(scopes) : scopes[i].mode # RL_MODELVIEW
      BY <2>2, Outside
    <3> QED
      BY <1>1, <1>4, <1>5, <2>2, <3>1 DEF ScopeInv
  <2> QED BY <2>1, <2>2
<1>8. DrawnAsSubmitted'
  <2>1. CASE pending = <<>>
    BY <2>1 DEF DrawnAsSubmitted
  <2>2. CASE InScope
    BY <1>1, <1>5, <2>2 DEF DrawnAsSubmitted
  <2> QED BY <2>1, <2>2
<1> QED
  BY <1>3, <1>4, <1>6, <1>7, <1>8 DEF MatrixInv

LEMMA TranslateStep ==
  ASSUME Careful, MatrixInv, NEW f \in Factors, rlTranslatef(f)
  PROVE  MatrixInv'
<1> DEFINE m == <<f>> \o matrix[currentMatrix]
           g == <<f>> \o top[GLMode]
<1>1. TypeOK
  BY DEF MatrixInv
<1>2. /\ <<f>> \in Matrices /\ matrix[currentMatrix] \in Matrices
      /\ top[GLMode] \in Matrices /\ matrix.modelview \in Matrices
      /\ matrix.transform \in Matrices
  BY <1>1, Factor, Parts
<1>3. m \in Matrices /\ g \in Matrices
  BY <1>2, Product
<1>4. /\ InScope \/ currentMatrix # "transform"
      /\ InScope \/ pending = <<>>
  BY DEF rlTranslatef, MayMultiply, MayChange, Careful
<1>5. g = IF currentMatrix = "transform" THEN m \o matrix.modelview ELSE m
  <2>1. (<<f>> \o matrix.transform) \o matrix.modelview
        = <<f>> \o (matrix.transform \o matrix.modelview)
    <3> DEFINE b == matrix.transform
               c == matrix.modelview
               a == <<f>>
    <3>1. a \in Matrices /\ b \in Matrices /\ c \in Matrices
      BY ONLY <1>2
    <3> HIDE DEF a, b, c
    <3>2. (a \o b) \o c = a \o (b \o c)
      BY ONLY <3>1, Associative
    <3> QED
      BY ONLY <3>2 DEF a, b, c
  <2>2. top[GLMode] = IF currentMatrix = "transform"
                      THEN matrix.transform \o matrix.modelview
                      ELSE matrix[currentMatrix]
    BY <1>4, CurrentIs
  <2>3. CASE currentMatrix = "transform"
    BY <2>1, <2>2, <2>3
  <2>4. CASE currentMatrix # "transform"
    BY <2>2, <2>4
  <2> QED BY <2>3, <2>4
<1>6. /\ matrix' = [matrix EXCEPT ![currentMatrix] = m]
      /\ top' = [top EXCEPT ![GLMode] = g]
      /\ UNCHANGED <<currentMatrixMode, currentMatrix, transformRequired,
                     stack, pending, scopes>>
  BY DEF rlTranslatef, GLMult, GLSet
<1> HIDE DEF m, g
<1> QED
  BY <1>3, <1>4, <1>5, <1>6, SetCurrent

LEMMA MultStep ==
  ASSUME Careful, MatrixInv, NEW f \in Factors, rlMultMatrixf(f)
  PROVE  MatrixInv'
<1> DEFINE m == matrix[currentMatrix] \o <<f>>
           g == <<f>> \o top[GLMode]
<1>1. TypeOK
  BY DEF MatrixInv
<1>2. /\ <<f>> \in Matrices /\ matrix[currentMatrix] \in Matrices
      /\ top[GLMode] \in Matrices /\ matrix.modelview \in Matrices
      /\ matrix.transform \in Matrices
  BY <1>1, Factor, Parts
<1>3. m \in Matrices /\ g \in Matrices
  BY <1>2, Product
<1>4. /\ InScope \/ currentMatrix # "transform"
      /\ InScope \/ pending = <<>>
      /\ matrix[currentMatrix] = Identity
  BY DEF rlMultMatrixf, MayMultiply, MayChange, Careful
<1>5. m = <<f>>
  BY <1>2, <1>4, Product
<1>6. g = IF currentMatrix = "transform" THEN m \o matrix.modelview ELSE m
  BY <1>2, <1>4, <1>5, CurrentIs, Product
<1>7. /\ matrix' = [matrix EXCEPT ![currentMatrix] = m]
      /\ top' = [top EXCEPT ![GLMode] = g]
      /\ UNCHANGED <<currentMatrixMode, currentMatrix, transformRequired,
                     stack, pending, scopes>>
  BY DEF rlMultMatrixf, GLMult, GLSet
<1> HIDE DEF m, g
<1> QED
  BY <1>3, <1>4, <1>6, <1>7, SetCurrent

LEMMA IdentityStep ==
  ASSUME Careful, MatrixInv, rlLoadIdentity
  PROVE  MatrixInv'
<1>1. TypeOK /\ PointerInv
  BY DEF MatrixInv
<1>2. /\ InScope \/ currentMatrix # "transform"
      /\ InScope \/ pending = <<>>
      /\ InScope => matrix.modelview = Identity
  BY DEF rlLoadIdentity, MayChange, Careful
<1>3. Identity = IF currentMatrix = "transform" THEN Identity \o matrix.modelview
                 ELSE Identity
  BY <1>2, IdentityType, Product
<1>4. /\ matrix' = [matrix EXCEPT ![currentMatrix] = Identity]
      /\ top' = [top EXCEPT ![GLMode] = Identity]
      /\ UNCHANGED <<currentMatrixMode, currentMatrix, transformRequired,
                     stack, pending, scopes>>
  BY DEF rlLoadIdentity, GLSet
<1> QED
  BY <1>2, <1>3, <1>4, IdentityType, SetCurrent

LEMMA ModeStep ==
  ASSUME Careful, MatrixInv, NEW m \in Modes, rlMatrixMode(m)
  PROVE  MatrixInv'
<1>1. TypeOK /\ PointerInv /\ ScopeInv /\ MatricesAsOpenGL /\ DrawnAsSubmitted
  BY DEF MatrixInv
<1>2. /\ currentMatrixMode' = m
      /\ currentMatrix' = IF m = RL_PROJECTION THEN "projection" ELSE "modelview"
      /\ matrix' = matrix /\ transformRequired' = transformRequired
      /\ stack' = stack /\ pending' = pending /\ top' = top /\ scopes' = scopes
      /\ ~InScope
  BY DEF rlMatrixMode, caller, Careful
<1>3. TypeOK'
  BY <1>1, <1>2 DEF TypeOK
<1>4. InScope' = InScope
  BY <1>2 DEF InScope
<1>5. PointerInv'
  BY <1>1, <1>2, <1>4 DEF PointerInv, Modes, RL_MODELVIEW, RL_PROJECTION
<1>6. ScopeInv' /\ DrawnAsSubmitted'
  BY <1>1, <1>2, <1>4 DEF ScopeInv, DrawnAsSubmitted
<1>7. MatricesAsOpenGL'
  BY <1>1, <1>2 DEF MatricesAsOpenGL, Modelview
<1> QED
  BY <1>3, <1>5, <1>6, <1>7 DEF MatrixInv

LEMMA VertexStep ==
  ASSUME MatrixInv, rlVertex3f
  PROVE  MatrixInv'
<1> DEFINE Vertex == [baked : Matrices, meant : Matrices]
           v == [baked |-> IF transformRequired THEN matrix.transform ELSE Identity,
                 meant |-> top[RL_MODELVIEW] \o top[RL_PROJECTION]]
<1>1. TypeOK /\ PointerInv /\ ScopeInv /\ MatricesAsOpenGL /\ DrawnAsSubmitted
  BY DEF MatrixInv
<1>2. /\ pending' = Append(pending, v)
      /\ currentMatrixMode' = currentMatrixMode /\ currentMatrix' = currentMatrix
      /\ matrix' = matrix /\ transformRequired' = transformRequired
      /\ stack' = stack /\ top' = top /\ scopes' = scopes
  BY DEF rlVertex3f, rlgl, caller
<1>3. v \in Vertex
  BY <1>1, Parts, Product, IdentityType
<1>4. (v.baked \o matrix.modelview) \o matrix.projection = v.meant
  <2>1. matrix.modelview \in Matrices
    BY <1>1, Parts
  <2>2. v.baked \o matrix.modelview = Modelview
    BY <2>1, Product DEF Modelview
  <2> QED BY <1>1, <2>2 DEF MatricesAsOpenGL
<1> HIDE DEF v
<1>5. pending \in Seq(Vertex)
  BY <1>1 DEF TypeOK
<1>6. TypeOK'
  <2>1. pending' \in Seq(Vertex)
    BY <1>2, <1>3, <1>5, AppendProperties
  <2> QED BY <1>1, <1>2, <2>1 DEF TypeOK
<1>7. InScope' = InScope
  BY <1>2 DEF InScope
<1>8. PointerInv' /\ ScopeInv'
  BY <1>1, <1>2, <1>7 DEF PointerInv, ScopeInv
<1>9. MatricesAsOpenGL'
  BY <1>1, <1>2 DEF MatricesAsOpenGL, Modelview
<1>10. DrawnAsSubmitted'
  <2> HIDE DEF Vertex
  <2>1. /\ Len(pending) \in Nat /\ DOMAIN pending = 1..Len(pending)
        /\ DOMAIN pending' = 1..(Len(pending) + 1)
        /\ \A i \in 1..Len(pending) : pending'[i] = pending[i]
        /\ pending'[Len(pending) + 1] = v
    BY <1>2, <1>3, <1>5, AppendProperties, LenProperties
  <2>2. \A i \in DOMAIN pending' : i \in DOMAIN pending \/ i = Len(pending) + 1
    BY <2>1
  <2> QED BY <1>1, <1>2, <1>4, <2>1, <2>2 DEF DrawnAsSubmitted
<1> QED
  BY <1>6, <1>8, <1>9, <1>10 DEF MatrixInv

LEMMA DrawStep ==
  ASSUME MatrixInv, rlDrawRenderBatchActive
  PROVE  MatrixInv'
<1>1. TypeOK /\ PointerInv /\ ScopeInv /\ MatricesAsOpenGL /\ DrawnAsSubmitted
  BY DEF MatrixInv
<1>2. /\ pending' = <<>>
      /\ currentMatrixMode' = currentMatrixMode /\ currentMatrix' = currentMatrix
      /\ matrix' = matrix /\ transformRequired' = transformRequired
      /\ stack' = stack /\ top' = top /\ scopes' = scopes
  BY DEF rlDrawRenderBatchActive, rlgl, caller
<1>3. pending' \in Seq([baked : Matrices, meant : Matrices])
  BY <1>2, EmptySeq
<1>4. TypeOK'
  BY <1>1, <1>2, <1>3 DEF TypeOK
<1>5. InScope' = InScope
  BY <1>2 DEF InScope
<1>6. PointerInv' /\ ScopeInv'
  BY <1>1, <1>2, <1>5 DEF PointerInv, ScopeInv
<1>7. MatricesAsOpenGL' /\ DrawnAsSubmitted'
  BY <1>1, <1>2 DEF MatricesAsOpenGL, Modelview, DrawnAsSubmitted
<1> QED
  BY <1>4, <1>6, <1>7 DEF MatrixInv

(* Nothing is pushed when a careful caller fills the batch, so that the    *)
(* loop of pops changes no matrix.                                         *)
LEMMA EndStep ==
  ASSUME Careful, MatrixInv, rlEnd
  PROVE  MatrixInv'
<1>1. TypeOK /\ PointerInv /\ ScopeInv /\ MatricesAsOpenGL
  BY DEF MatrixInv
<1>2. scopes = <<>> /\ stack = <<>> /\ ~InScope
  BY ScopesType DEF rlEnd, Careful, InScope
<1>3. /\ pending' = <<>> /\ stack' = stack /\ matrix' = matrix
      /\ currentMatrixMode' = currentMatrixMode /\ top' = top /\ scopes' = scopes
  BY <1>2 DEF rlEnd, caller
<1>4. \/ /\ currentMatrixMode = RL_MODELVIEW
         /\ currentMatrix' = "modelview" /\ transformRequired' = FALSE
      \/ /\ currentMatrixMode # RL_MODELVIEW
         /\ currentMatrix' = currentMatrix /\ transformRequired' = transformRequired
  BY DEF rlEnd
<1>5. ~InScope'
  BY <1>2, <1>3 DEF InScope
<1>6. TypeOK'
  <2>1. pending' \in Seq([baked : Matrices, meant : Matrices])
    BY <1>3, EmptySeq
  <2>2. transformRequired \in BOOLEAN
    BY <1>1 DEF TypeOK
  <2>3. transformRequired' \in BOOLEAN
    BY <1>4, <2>2, Zenon
  <2>4. currentMatrix' \in {"modelview", "projection", "transform"}
    BY <1>1, <1>4 DEF TypeOK
  <2> QED BY <1>1, <1>3, <2>1, <2>3, <2>4 DEF TypeOK
<1>7. PointerInv'
  BY <1>1, <1>3, <1>4, <1>5 DEF PointerInv, RL_MODELVIEW, RL_PROJECTION
<1>8. ScopeInv'
  <2>1. Len(scopes) = 0
    BY <1>2, ScopesType
  <2>2. matrix.transform = Identity
    BY <1>1, <1>2 DEF ScopeInv
  <2> QED BY <1>3, <2>1, <2>2 DEF ScopeInv
<1>9. DrawnAsSubmitted'
  BY <1>3 DEF DrawnAsSubmitted
<1>10. MatricesAsOpenGL'
  <2>1. matrix.transform = Identity /\ matrix.modelview \in Matrices
    BY <1>1, <1>2, Parts DEF ScopeInv
  <2>2. Identity \o matrix.modelview = matrix.modelview
    BY <2>1, Product
  <2>3. Modelview = matrix.modelview /\ Modelview' = matrix.modelview
    BY <1>3, <2>1, <2>2 DEF Modelview
  <2> QED BY <1>1, <1>3, <2>3 DEF MatricesAsOpenGL
<1> QED
  BY <1>6, <1>7, <1>8, <1>9, <1>10 DEF MatrixInv

LEMMA PushStep ==
  ASSUME Careful, MatrixInv, rlPushMatrix
  PROVE  MatrixInv'
<1> DEFINE Scope == [mode : {0} \cup Modes, saved : Matrices]
           n == Len(scopes)
           e == matrix[currentMatrix']
           s == [mode |-> currentMatrixMode, saved |-> top[GLMode]]
<1>1. TypeOK /\ PointerInv /\ ScopeInv /\ MatricesAsOpenGL /\ DrawnAsSubmitted
  BY DEF MatrixInv
<1>2. /\ stack' = Append(stack, e) /\ scopes' = Append(scopes, s)
      /\ currentMatrixMode' = currentMatrixMode /\ matrix' = matrix
      /\ pending' = pending /\ top' = top
      /\ n < MaxStack
  BY DEF rlPushMatrix, PushScope, Careful
<1>3. \/ /\ currentMatrixMode = RL_MODELVIEW
         /\ transformRequired' = TRUE /\ currentMatrix' = "transform"
      \/ /\ currentMatrixMode # RL_MODELVIEW
         /\ transformRequired' = transformRequired /\ currentMatrix' = currentMatrix
  BY DEF rlPushMatrix
<1>4. /\ matrix \in [{"modelview", "projection", "transform"} -> Matrices]
      /\ currentMatrix \in {"modelview", "projection", "transform"}
      /\ stack \in Seq(Matrices) /\ scopes \in Seq(Scope)
  BY <1>1 DEF TypeOK
<1>5. currentMatrix' \in {"modelview", "projection", "transform"}
  BY <1>3, <1>4
<1>6. e \in Matrices /\ s \in Scope
  BY <1>1, <1>4, <1>5, Parts DEF TypeOK
<1>7. /\ n \in Nat /\ Len(stack) = n
      /\ Len(stack') = n + 1 /\ Len(scopes') = n + 1
      /\ stack' \in Seq(Matrices) /\ scopes' \in Seq(Scope)
      /\ \A i \in 1..n : stack'[i] = stack[i] /\ scopes'[i] = scopes[i]
      /\ stack'[n + 1] = e /\ scopes'[n + 1] = s
  <2> HIDE DEF Scope, e, s
  <2> QED BY <1>2, <1>4, <1>6, ScopesType, AppendProperties
<1>8. TypeOK'
  <2>1. transformRequired \in BOOLEAN
    BY <1>1 DEF TypeOK
  <2>2. transformRequired' \in BOOLEAN
    BY <1>3, <2>1, Zenon
  <2>3. Len(stack') <= MaxStack
    BY <1>2, <1>7, MatrixAssumption
  <2> QED BY <1>1, <1>2, <1>5, <1>7, <2>2, <2>3 DEF TypeOK
<1>9. scopes' # <<>> /\ (InScope' <=> currentMatrixMode = RL_MODELVIEW)
  <2>1. scopes' # <<>>
    BY <1>2, <1>4, <1>6, AppendProperties
  <2> QED BY <1>7, <2>1 DEF InScope
<1>10. PointerInv'
  BY <1>1, <1>2, <1>3, <1>7, <1>9 DEF PointerInv, RL_MODELVIEW, RL_PROJECTION
<1>11. DrawnAsSubmitted'
  BY <1>1, <1>2 DEF DrawnAsSubmitted
<1>12. CASE currentMatrixMode = RL_MODELVIEW
  <2>1. e = matrix.transform /\ s.mode = RL_MODELVIEW
    BY <1>3, <1>12
  <2>2. s.saved = matrix.transform \o matrix.modelview
    <3>1. GLMode = RL_MODELVIEW
      BY <1>12 DEF GLMode
    <3>2. top[RL_MODELVIEW] = matrix.transform \o matrix.modelview
      BY <1>1, ModelviewIs DEF MatricesAsOpenGL
    <3> QED BY <3>1, <3>2
  <2>3. InScope \/ matrix.transform = Identity
    BY <1>1 DEF ScopeInv
  <2>4. ScopeInv'
    <3> HIDE DEF e, s, n
    <3>1. ASSUME NEW i \in 1..(n + 1), scopes'[i].mode = RL_MODELVIEW
          PROVE  /\ \A j \in i..(n + 1) : scopes'[j].mode = RL_MODELVIEW
                 /\ i = 1 \/ scopes'[i - 1].mode # RL_MODELVIEW => stack'[i] = Identity
                 /\ scopes'[i].saved = stack'[i] \o matrix.modelview
      <4>1. CASE i \in 1..n
        <5>1. /\ \A j \in i..n : scopes[j].mode = RL_MODELVIEW
              /\ i = 1 \/ scopes[i - 1].mode # RL_MODELVIEW => stack[i] = Identity
              /\ scopes[i].saved = stack[i] \o matrix.modelview
          BY <1>1, <1>7, <3>1, <4>1 DEF ScopeInv, n
        <5>2. i # 1 => i - 1 \in 1..n
          BY <1>7, <4>1
        <5>3. \A j \in i..(n + 1) : j \in i..n \/ j = n + 1
          BY <1>7, <4>1
        <5>4. \A j \in i..n : j \in 1..n
          BY <1>7, <4>1
        <5>5. \A j \in i..(n + 1) : scopes'[j].mode = RL_MODELVIEW
          BY <1>7, <2>1, <5>1, <5>3, <5>4
        <5> QED BY <1>7, <4>1, <5>1, <5>2, <5>5
      <4>2. CASE i = n + 1
        <5>1. i = 1 \/ scopes[i - 1].mode # RL_MODELVIEW => ~InScope
          BY <1>7, <4>2, ScopesType DEF InScope, n
        <5>2. i # 1 => scopes'[i - 1] = scopes[i - 1]
          BY <1>7, <4>2
        <5>3. \A j \in i..(n + 1) : j = n + 1
          BY <1>7, <4>2
        <5>4. stack'[i] = matrix.transform /\ scopes'[i] = s
          BY <1>7, <2>1, <4>2
        <5>5. \A j \in i..(n + 1) : scopes'[j].mode = RL_MODELVIEW
          BY <1>7, <2>1, <5>3
        <5>6. i = 1 \/ scopes'[i - 1].mode # RL_MODELVIEW => stack'[i] = Identity
          BY <2>3, <5>1, <5>2, <5>4
        <5> QED BY <2>2, <5>4, <5>5, <5>6
      <4> QED BY <1>7, <4>1, <4>2
    <3>2. ASSUME NEW i \in 1..(n + 1), scopes'[i].mode # RL_MODELVIEW
          PROVE  scopes'[i].saved = stack'[i]
      <4>1. i \in 1..n
        BY <1>7, <2>1, <3>2
      <4> QED BY <1>1, <1>7, <3>2, <4>1 DEF ScopeInv, n
    <3>3. /\ Len(scopes') = n + 1 /\ matrix'.modelview = matrix.modelview
          /\ InScope'
      BY <1>2, <1>7, <1>9, <1>12
    <3> HIDE DEF e, s, n
    <3> QED BY ONLY <3>1, <3>2, <3>3 DEF ScopeInv
  <2>5. MatricesAsOpenGL'
    <3>1. Modelview' = Modelview
      BY <1>2, <1>3, <1>12, ModelviewIs DEF Modelview
    <3> QED BY <1>1, <1>2, <3>1 DEF MatricesAsOpenGL
  <2> QED BY <1>8, <1>10, <1>11, <2>4, <2>5 DEF MatrixInv
<1>13. CASE currentMatrixMode # RL_MODELVIEW
  <2>1. currentMatrix # "transform" /\ ~InScope
    BY <1>1, <1>13 DEF PointerInv, TypeOK, Modes
  <2>2. e = matrix[currentMatrix] /\ s.saved = e /\ s.mode # RL_MODELVIEW
    BY <1>3, <1>13, <2>1, CurrentIs
  <2>3. matrix.transform = Identity
    BY <1>1, <2>1 DEF ScopeInv
  <2>4. ScopeInv'
    <3> HIDE DEF e, s, n
    <3>1. \A i \in 1..n : scopes[i].mode # RL_MODELVIEW
      BY <2>1, Outside DEF n
    <3>2. ASSUME NEW i \in 1..(n + 1)
          PROVE  scopes'[i].mode # RL_MODELVIEW /\ scopes'[i].saved = stack'[i]
      <4>1. CASE i \in 1..n
        BY <1>1, <1>7, <3>1, <4>1 DEF ScopeInv, n
      <4>2. CASE i = n + 1
        BY <1>7, <2>2, <4>2
      <4> QED BY <1>7, <4>1, <4>2
    <3> QED BY <1>2, <1>7, <2>3, <3>2 DEF ScopeInv
  <2>5. MatricesAsOpenGL'
    BY <1>1, <1>2, <1>3, <1>13 DEF MatricesAsOpenGL, Modelview
  <2> QED BY <1>8, <1>10, <1>11, <2>4, <2>5 DEF MatrixInv
<1> QED
  BY <1>12, <1>13

(* What both kinds of scopes have in common when they are left.            *)
LEMMA PopCommon ==
  ASSUME MatrixInv, rlPopMatrix
  PROVE  /\ Len(scopes) \in Nat \ {0} /\ Len(stack') = Len(scopes) - 1
         /\ Len(scopes') = Len(scopes) - 1
         /\ \A i \in 1..(Len(scopes) - 1) :
              stack'[i] = stack[i] /\ scopes'[i] = scopes[i]
         /\ stack' \in Seq(Matrices) /\ Len(stack') <= MaxStack
         /\ scopes' \in Seq([mode : {0} \cup Modes, saved : Matrices])
         /\ scopes[Len(scopes)].mode = currentMatrixMode
         /\ matrix' = [matrix EXCEPT ![currentMatrix] = stack[Len(scopes)]]
         /\ top' = [top EXCEPT ![GLMode] = scopes[Len(scopes)].saved]
         /\ stack[Len(scopes)] \in Matrices
         /\ scopes[Len(scopes)].saved \in Matrices
         /\ currentMatrixMode' = currentMatrixMode /\ pending' = pending
<1> DEFINE Scope == [mode : {0} \cup Modes, saved : Matrices]
           n == Len(scopes)
<1>1. /\ stack \in Seq(Matrices) /\ scopes \in Seq(Scope) /\ Len(stack) <= MaxStack
  BY DEF MatrixInv, TypeOK
<1>2. /\ n \in Nat \ {0} /\ Len(stack) = n /\ stack # <<>> /\ scopes # <<>>
  BY ScopesType DEF rlPopMatrix, PopScope
<1>3. /\ stack' = SubSeq(stack, 1, n - 1) /\ scopes' = SubSeq(scopes, 1, n - 1)
      /\ scopes[n].mode = currentMatrixMode
      /\ matrix' = [matrix EXCEPT ![currentMatrix] = stack[n]]
      /\ top' = [top EXCEPT ![GLMode] = scopes[n].saved]
      /\ currentMatrixMode' = currentMatrixMode /\ pending' = pending
  BY <1>2 DEF rlPopMatrix, PopScope, Popped, Below, GLSet
<1>4. stack[n] \in Matrices /\ scopes[n].saved \in Matrices
  BY <1>2, ScopesType
<1> HIDE DEF Scope, n
<1>5. /\ Len(stack') = n - 1 /\ stack' \in Seq(Matrices)
      /\ \A i \in 1..(n - 1) : stack'[i] = stack[i]
  <2>1. \A i \in 1..(n - 1) : stack[i] \in Matrices
    BY <1>1, <1>2, ElementOfSeq
  <2> QED BY <1>1, <1>2, <1>3, <2>1, SubSeqProperties
<1>6. /\ Len(scopes') = n - 1 /\ scopes' \in Seq(Scope)
      /\ \A i \in 1..(n - 1) : scopes'[i] = scopes[i]
  <2>1. \A i \in 1..(n - 1) : scopes[i] \in Scope
    BY <1>1, <1>2, ElementOfSeq DEF n
  <2> QED BY <1>1, <1>2, <1>3, <2>1, SubSeqProperties DEF n
<1>7. Len(stack') <= MaxStack
  BY <1>1, <1>2, <1>5, MatrixAssumption
<1> QED BY <1>2, <1>3, <1>4, <1>5, <1>6, <1>7 DEF n, Scope

LEMMA PopStep ==
  ASSUME Careful, MatrixInv, rlPopMatrix
  PROVE  MatrixInv'
<1> DEFINE n == Len(scopes)
           e == stack[n]
           g == scopes[n].saved
<1>1. TypeOK /\ PointerInv /\ ScopeInv /\ MatricesAsOpenGL /\ DrawnAsSubmitted
  BY DEF MatrixInv
<1>2. /\ n \in Nat \ {0} /\ Len(stack') = n - 1 /\ Len(scopes') = n - 1
      /\ \A i \in 1..(n - 1) : stack'[i] = stack[i] /\ scopes'[i] = scopes[i]
      /\ stack' \in Seq(Matrices) /\ Len(stack') <= MaxStack
      /\ scopes' \in Seq([mode : {0} \cup Modes, saved : Matrices])
      /\ scopes[n].mode = currentMatrixMode
      /\ matrix' = [matrix EXCEPT ![currentMatrix] = e]
      /\ top' = [top EXCEPT ![GLMode] = g]
      /\ e \in Matrices /\ g \in Matrices
      /\ currentMatrixMode' = currentMatrixMode /\ pending' = pending
  BY PopCommon
<1> HIDE DEF e, g
<1>3. /\ scopes # <<>> /\ (InScope <=> currentMatrixMode = RL_MODELVIEW)
      /\ stack' = <<>> <=> n = 1
      /\ scopes' = <<>> <=> n = 1
  <2>1. scopes # <<>> /\ (stack' = <<>> <=> Len(stack') = 0)
        /\ (scopes' = <<>> <=> Len(scopes') = 0)
    BY <1>2, ScopesType, EmptySeq
  <2> QED BY <1>2, <2>1 DEF InScope
<1>4. \/ /\ n = 1 /\ currentMatrixMode = RL_MODELVIEW
         /\ currentMatrix' = "modelview" /\ transformRequired' = FALSE
      \/ /\ n # 1 \/ currentMatrixMode # RL_MODELVIEW
         /\ currentMatrix' = currentMatrix /\ transformRequired' = transformRequired
  BY <1>3 DEF rlPopMatrix, Popped
<1>5. /\ matrix \in [{"modelview", "projection", "transform"} -> Matrices]
      /\ currentMatrix \in {"modelview", "projection", "transform"}
      /\ top \in [Modes -> Matrices] /\ GLMode \in Modes
      /\ currentMatrixMode \in {0} \cup Modes
  BY <1>1, Parts DEF TypeOK
<1>6. TypeOK'
  <2>1. transformRequired \in BOOLEAN
    BY <1>1 DEF TypeOK
  <2>2. transformRequired' \in BOOLEAN
    BY <1>4, <2>1, Zenon
  <2>3. /\ currentMatrix' \in {"modelview", "projection", "transform"}
        /\ matrix' \in [{"modelview", "projection", "transform"} -> Matrices]
        /\ top' \in [Modes -> Matrices]
    BY <1>2, <1>4, <1>5
  <2> QED BY <1>1, <1>2, <2>2, <2>3 DEF TypeOK
<1>7. InScope' <=> n # 1 /\ scopes[n - 1].mode = RL_MODELVIEW
  <2>1. n # 1 => scopes'[n - 1] = scopes[n - 1]
    BY <1>2
  <2> QED BY <1>2, <1>3, <2>1 DEF InScope
<1>8. CASE currentMatrixMode = RL_MODELVIEW
  <2>1. currentMatrix = "transform" /\ GLMode = RL_MODELVIEW
    BY <1>1, <1>3, <1>8 DEF PointerInv, GLMode, RL_MODELVIEW
  <2>2. transformRequired
    BY <1>1, <2>1 DEF PointerInv
  <2>3. /\ matrix'.transform = e /\ matrix'.modelview = matrix.modelview
        /\ matrix'.projection = matrix.projection
        /\ top'[RL_MODELVIEW] = g /\ top'[RL_PROJECTION] = top[RL_PROJECTION]
    BY <1>2, <1>5, <2>1 DEF Modes, RL_MODELVIEW, RL_PROJECTION
  <2>4. /\ g = e \o matrix.modelview
        /\ n = 1 \/ scopes[n - 1].mode # RL_MODELVIEW => e = Identity
    <3>1. n \in 1..n /\ scopes[n].mode = RL_MODELVIEW
      BY <1>2, <1>8
    <3>2. \A i \in 1..n : scopes[i].mode = RL_MODELVIEW =>
            /\ i = 1 \/ scopes[i - 1].mode # RL_MODELVIEW => stack[i] = Identity
            /\ scopes[i].saved = stack[i] \o matrix.modelview
      BY <1>1 DEF ScopeInv
    <3> HIDE DEF n
    <3> QED BY <3>1, <3>2 DEF e, g
  <2>5. PointerInv'
    <3>1. InScope' => currentMatrix' = "transform"
      BY <1>4, <1>7, <2>1
    <3>2. currentMatrix' = "transform" => transformRequired'
      BY <1>4, <2>2
    <3> QED BY <1>2, <1>4, <1>8, <2>1, <3>1, <3>2
            DEF PointerInv, RL_MODELVIEW, RL_PROJECTION
  <2>6. ScopeInv'
    <3>1. ~InScope' => matrix'.transform = Identity
      BY <1>7, <2>3, <2>4
    <3>2. ASSUME NEW i \in 1..(n - 1)
          PROVE  /\ stack'[i] = stack[i] /\ scopes'[i] = scopes[i] /\ i \in 1..n
                 /\ \A j \in i..(n - 1) : j \in i..n /\ scopes'[j] = scopes[j]
                 /\ i # 1 => scopes'[i - 1] = scopes[i - 1]
      <4> HIDE DEF n
      <4>1. i \in 1..n /\ (i # 1 => i - 1 \in 1..(n - 1))
        BY <1>2
      <4>2. \A j \in i..(n - 1) : j \in 1..(n - 1) /\ j \in i..n
        BY <1>2
      <4> QED BY <1>2, <4>1, <4>2
    <3>3. ASSUME NEW i \in 1..(n - 1), scopes[i].mode = RL_MODELVIEW
          PROVE  /\ \A j \in i..(n - 1) : scopes'[j].mode = RL_MODELVIEW
                 /\ i = 1 \/ scopes'[i - 1].mode # RL_MODELVIEW => stack'[i] = Identity
                 /\ scopes'[i].saved = stack'[i] \o matrix'.modelview
      <4>1. /\ \A j \in i..n : scopes[j].mode = RL_MODELVIEW
            /\ i = 1 \/ scopes[i - 1].mode # RL_MODELVIEW => stack[i] = Identity
            /\ scopes[i].saved = stack[i] \o matrix.modelview
        BY <1>1, <3>2, <3>3 DEF ScopeInv
      <4> HIDE DEF n
      <4> QED BY <2>3, <3>2, <4>1
    <3>4. ASSUME NEW i \in 1..(n - 1), scopes[i].mode # RL_MODELVIEW
          PROVE  scopes'[i].saved = stack'[i]
      BY <1>1, <3>2, <3>4 DEF ScopeInv
    <3> HIDE DEF n
    <3> QED BY <1>2, <3>1, <3>2, <3>3, <3>4 DEF ScopeInv
  <2>7. MatricesAsOpenGL'
    <3>1. CASE n = 1
      <4>1. matrix'.modelview = g
        BY <1>5, <2>3, <2>4, <3>1, Product
      <4> QED BY <1>1, <1>4, <1>8, <2>3, <3>1, <4>1 DEF MatricesAsOpenGL, Modelview
    <3>2. CASE n # 1
      BY <1>1, <1>4, <2>2, <2>3, <2>4, <3>2 DEF MatricesAsOpenGL, Modelview
    <3> QED BY <3>1, <3>2
  <2>8. DrawnAsSubmitted'
    BY <1>1, <1>2, <2>3 DEF DrawnAsSubmitted
  <2> QED BY <1>6, <2>5, <2>6, <2>7, <2>8 DEF MatrixInv
<1>9. CASE currentMatrixMode # RL_MODELVIEW
  <2>1. /\ ~InScope /\ pending = <<>>
        /\ currentMatrix' = currentMatrix /\ transformRequired' = transformRequired
    BY <1>3, <1>4, <1>9 DEF rlPopMatrix, MayChange, Careful
  <2>2. \A i \in 1..n : scopes[i].mode # RL_MODELVIEW
    BY <2>1, Outside
  <2>3. matrix.transform = Identity /\ g = e
    BY <1>1, <1>2, <2>1, <2>2 DEF ScopeInv, e, g
  <2>4. ~InScope'
    BY <1>2, <1>7, <2>2
  <2>5. PointerInv'
    BY <1>1, <1>2, <2>1, <2>4, ScopesType DEF PointerInv
  <2>6. /\ matrix'.transform = Identity
        /\ matrix'.modelview = top'[RL_MODELVIEW]
        /\ matrix'.projection = top'[RL_PROJECTION]
    <3>1. Identity \o matrix.modelview = matrix.modelview
      BY <1>5, Product
    <3>2. matrix.modelview = top[RL_MODELVIEW] /\ matrix.projection = top[RL_PROJECTION]
      BY <1>1, <2>3, <3>1, ModelviewIs DEF MatricesAsOpenGL
    <3>3. CASE currentMatrixMode = 0
      <4>1. currentMatrix = "modelview" /\ GLMode = RL_MODELVIEW
        BY <1>1, <3>3 DEF PointerInv, GLMode
      <4> QED BY <1>2, <1>5, <2>3, <3>2, <4>1 DEF Modes, RL_MODELVIEW, RL_PROJECTION
    <3>4. CASE currentMatrixMode = RL_PROJECTION
      <4>1. currentMatrix = "projection" /\ GLMode = RL_PROJECTION
        BY <1>1, <3>4 DEF PointerInv, GLMode, RL_PROJECTION
      <4> QED BY <1>2, <1>5, <2>3, <3>2, <4>1 DEF Modes, RL_MODELVIEW, RL_PROJECTION
    <3> QED BY <1>5, <1>9, <3>3, <3>4 DEF Modes
  <2>7. ScopeInv'
    <3>1. ASSUME NEW i \in 1..(n - 1)
          PROVE  scopes'[i].mode # RL_MODELVIEW /\ scopes'[i].saved = stack'[i]
      BY <1>1, <1>2, <2>2 DEF ScopeInv
    <3> HIDE DEF n
    <3> QED BY <1>2, <2>6, <3>1 DEF ScopeInv
  <2>8. MatricesAsOpenGL'
    <3>1. matrix' \in [{"modelview", "projection", "transform"} -> Matrices]
      BY <1>6 DEF TypeOK
    <3>2. Identity \o matrix'.modelview = matrix'.modelview
      BY <3>1, Product
    <3>3. Modelview' = matrix'.modelview
      BY <2>6, <3>2 DEF Modelview
    <3> QED BY <2>6, <3>3 DEF MatricesAsOpenGL
  <2>9. DrawnAsSubmitted'
    BY <1>2, <2>1 DEF DrawnAsSubmitted
  <2> QED BY <1>6, <2>5, <2>7, <2>8, <2>9 DEF MatrixInv
<1> QED
  BY <1>8, <1>9

-----------------------------------------------------------------------------

LEMMA MatrixNext == Careful /\ MatrixInv /\ [Next]_vars => MatrixInv'
<1> SUFFICES ASSUME Careful, MatrixInv, [Next]_vars
             PROVE  MatrixInv'
  OBVIOUS
<1>1. ASSUME NEW m \in Modes, rlMatrixMode(m) PROVE MatrixInv'
  BY <1>1, ModeStep
<1>2. CASE rlPushMatrix
  BY <1>2, PushStep
<1>3. CASE rlPopMatrix
  BY <1>3, PopStep
<1>4. CASE rlLoadIdentity
  BY <1>4, IdentityStep
<1>5. ASSUME NEW f \in Factors, rlTranslatef(f) PROVE MatrixInv'
  BY <1>5, TranslateStep
<1>6. ASSUME NEW f \in Factors, rlMultMatrixf(f) PROVE MatrixInv'
  BY <1>6, MultStep
<1>7. CASE rlVertex3f
  BY <1>7, VertexStep
<1>8. CASE rlDrawRenderBatchActive
  BY <1>8, DrawStep
<1>9. CASE rlEnd
  BY <1>9, EndStep
<1>10. CASE UNCHANGED vars
  <2>1. /\ currentMatrixMode' = currentMatrixMode /\ currentMatrix' = currentMatrix
        /\ matrix' = matrix /\ transformRequired' = transformRequired
        /\ stack' = stack /\ pending' = pending /\ top' = top /\ scopes' = scopes
    BY <1>10 DEF vars, rlgl, caller
  <2>2. InScope' = InScope /\ Modelview' = Modelview
    BY <2>1 DEF InScope, Modelview
  <2> QED BY <2>1, <2>2
          DEF MatrixInv, TypeOK, PointerInv, ScopeInv, MatricesAsOpenGL, DrawnAsSubmitted
<1> QED
  BY <1>1, <1>2, <1>3, <1>4, <1>5, <1>6, <1>7, <1>8, <1>9, <1>10 DEF Next

LEMMA MatrixInvariant == Careful => (Spec => []MatrixInv)
<1> SUFFICES ASSUME Careful PROVE Spec => []MatrixInv
  OBVIOUS
<1>1. MatrixInv /\ [Next]_vars => MatrixInv'
  BY MatrixNext
<1> QED BY <1>1, MatrixInit, PTL DEF Spec

(* Every matrix is a product of factors, and the stack stays within its    *)
(* size, when the caller does not push more than rlPushMatrix has room for.*)
THEOREM TypeCorrect == Careful => (Spec => []TypeOK)
<1> SUFFICES ASSUME Careful PROVE Spec => []TypeOK
  OBVIOUS
<1>1. MatrixInv => TypeOK
  BY DEF MatrixInv
<1>2. Spec => []MatrixInv
  BY MatrixInvariant
<1> QED BY <1>1, <1>2, PTL

(* The one stack, the pointer and the transform of rlgl emulate the two    *)
(* stacks of OpenGL 1.1 for every program of a careful caller.             *)
THEOREM MatricesCorrect == Careful => (Spec => []MatricesAsOpenGL)
<1> SUFFICES ASSUME Careful PROVE Spec => []MatricesAsOpenGL
  OBVIOUS
<1>1. MatrixInv => MatricesAsOpenGL
  BY DEF MatrixInv
<1>2. Spec => []MatrixInv
  BY MatrixInvariant
<1> QED BY <1>1, <1>2, PTL

(* Drawing later does not change what a careful caller sees of a vertex.   *)
THEOREM DrawnCorrect == Careful => (Spec => []DrawnAsSubmitted)
<1> SUFFICES ASSUME Careful PROVE Spec => []DrawnAsSubmitted
  OBVIOUS
<1>1. MatrixInv => DrawnAsSubmitted
  BY DEF MatrixInv
<1>2. Spec => []MatrixInv
  BY MatrixInvariant
<1> QED BY <1>1, <1>2, PTL
-----------------------------------------------------------------------------
(* Rotations from angles and axes: floats are counts of powers of 1/5.     *)

(* A multiple leaves no remainder.                                         *)
LEMMA Multiple ==
  ASSUME NEW n \in Int, NEW d \in Nat \ {0}
  PROVE  (n * d) % d = 0 /\ (n * d) \div d = n
OBVIOUS

(* A product of two floats that is a float.                                *)
LEMMA ExactProduct ==
  ASSUME NEW x \in Int, NEW y \in Int, NEW z \in Int, x * y = z * Unit
  PROVE  x \otimes y = z
BY Multiple, UnitAssumption DEF \otimes

(* A quotient of two floats that is a float.                               *)
LEMMA Quotient ==
  ASSUME NEW x \in Int, NEW y \in Int, NEW z \in Int, y # 0, x * Unit = z * y
  PROVE  Ratio(x, y) = z
<1>1. CASE y > 0
  <2>1. (x * Unit) % y = 0 /\ (x * Unit) \div y = z
    BY <1>1, Multiple
  <2> QED
    BY <1>1, <2>1 DEF Ratio
<1>2. CASE y < 0
  <2>1. -y \in Nat \ {0} /\ -x * Unit = z * (-y) /\ ~(y > 0)
    BY <1>2, UnitAssumption
  <2>2. (-x * Unit) % (-y) = 0 /\ (-x * Unit) \div (-y) = z
    BY <2>1, Multiple
  <2> QED
    BY <2>1, <2>2 DEF Ratio
<1> QED
  BY <1>1, <1>2

(* The root of a square.                                                   *)
LEMMA RootIs ==
  ASSUME NEW r \in 0..2 * Unit
  PROVE  Root(r * r) = r
<1>1. \A s \in 0..2 * Unit : s * s = r * r => s = r
  BY UnitAssumption
<1> QED
  BY <1>1 DEF Root

(* i / 5^6, and the counts of 1/5, 1/25, 1/125 and 1/625 in the same.      *)
Fine    == Unit \div 15625
Over(i) == i * Fine
Over1(i) == Over(3125 * i)
Over2(i) == Over(625 * i)
Over3(i) == Over(125 * i)
Over4(i) == Over(25 * i)

(* A unit the results are exact in.                                        *)
ExactUnit == Unit % 15625 = 0

(* The parts of Unit the proofs need.                                      *)
LEMMA FineParts ==
  ASSUME ExactUnit
  PROVE  /\ Fine \in Int /\ Fine > 0 /\ Unit = 15625 * Fine /\ Unit \in Int
         /\ Unit \div 5 = 3125 * Fine /\ Unit \div 25 = 625 * Fine
BY UnitAssumption DEF ExactUnit, Fine

(* The product of a / 5^6 and b / 5^6 is c / 5^6.                          *)
LEMMA FineTimes ==
  ASSUME ExactUnit, NEW a \in Int, NEW b \in Int, NEW c \in Int, a * b = 15625 * c
  PROVE  Over(a) \otimes Over(b) = Over(c)
<1> DEFINE f == Fine
<1>1. f \in Int /\ Unit = 15625 * f
  BY FineParts
<1> HIDE DEF f
<1>2. a * f \in Int /\ b * f \in Int /\ c * f \in Int
  BY <1>1
<1>3. (a * f) * (b * f) = (a * b) * (f * f)
  BY <1>1
<1>4. (c * f) * Unit = (15625 * c) * (f * f)
  BY <1>1
<1>5. (a * f) * (b * f) = (c * f) * Unit
  BY <1>3, <1>4
<1>6. (a * f) \otimes (b * f) = c * f
  BY <1>2, <1>5, ExactProduct
<1> QED
  BY <1>6 DEF Over, f

(* Counts are floats.                                                      *)
LEMMA OverInt ==
  ASSUME ExactUnit
  PROVE  \A i \in Int : /\ Over(i) \in Int /\ Over1(i) \in Int /\ Over2(i) \in Int
                        /\ Over3(i) \in Int /\ Over4(i) \in Int
BY FineParts DEF Over, Over1, Over2, Over3, Over4

(* Products of powers.                                                     *)
LEMMA OverTimes ==
  ASSUME ExactUnit
  PROVE  \A i, j \in Int :
           /\ Over1(i) \otimes Over1(j) = Over2(i * j)
           /\ Over1(i) \otimes Over2(j) = Over3(i * j)
           /\ Over2(i) \otimes Over1(j) = Over3(i * j)
           /\ Over2(i) \otimes Over2(j) = Over4(i * j)
           /\ Over3(i) \otimes Over1(j) = Over4(i * j)
           /\ Over4(i) \otimes Over2(j) = Over(i * j)
           /\ Over3(i) \otimes Over3(j) = Over(i * j)
           /\ Unit \otimes Over(j) = Over(j) /\ Over(j) \otimes Unit = Over(j)
<1> SUFFICES ASSUME NEW i \in Int, NEW j \in Int
             PROVE  /\ Over1(i) \otimes Over1(j) = Over2(i * j)
                    /\ Over1(i) \otimes Over2(j) = Over3(i * j)
                    /\ Over2(i) \otimes Over1(j) = Over3(i * j)
                    /\ Over2(i) \otimes Over2(j) = Over4(i * j)
                    /\ Over3(i) \otimes Over1(j) = Over4(i * j)
                    /\ Over4(i) \otimes Over2(j) = Over(i * j)
                    /\ Over3(i) \otimes Over3(j) = Over(i * j)
                    /\ Unit \otimes Over(j) = Over(j) /\ Over(j) \otimes Unit = Over(j)
  OBVIOUS
<1>1. i * j \in Int
  OBVIOUS
<1>2. /\ (3125 * i) * (3125 * j) = 15625 * (625 * (i * j))
      /\ (3125 * i) * (625 * j) = 15625 * (125 * (i * j))
      /\ (625 * i) * (3125 * j) = 15625 * (125 * (i * j))
      /\ (625 * i) * (625 * j) = 15625 * (25 * (i * j))
      /\ (125 * i) * (3125 * j) = 15625 * (25 * (i * j))
      /\ (25 * i) * (625 * j) = 15625 * (i * j)
      /\ (125 * i) * (125 * j) = 15625 * (i * j)
      /\ j * 15625 = 15625 * j
  OBVIOUS
<1>3. /\ 3125 * i \in Int /\ 625 * i \in Int /\ 125 * i \in Int /\ 25 * i \in Int
      /\ 3125 * j \in Int /\ 625 * j \in Int /\ 125 * j \in Int
      /\ 625 * (i * j) \in Int /\ 125 * (i * j) \in Int /\ 25 * (i * j) \in Int
  OBVIOUS
<1>4. Unit = Over(15625)
  BY FineParts DEF Over
<1>5. /\ Over(3125 * i) \otimes Over(3125 * j) = Over(625 * (i * j))
      /\ Over(3125 * i) \otimes Over(625 * j) = Over(125 * (i * j))
      /\ Over(625 * i) \otimes Over(3125 * j) = Over(125 * (i * j))
      /\ Over(625 * i) \otimes Over(625 * j) = Over(25 * (i * j))
      /\ Over(125 * i) \otimes Over(3125 * j) = Over(25 * (i * j))
      /\ Over(25 * i) \otimes Over(625 * j) = Over(i * j)
      /\ Over(125 * i) \otimes Over(125 * j) = Over(i * j)
      /\ Over(15625) \otimes Over(j) = Over(j) /\ Over(j) \otimes Over(15625) = Over(j)
  BY <1>1, <1>2, <1>3, FineTimes
<1> QED
  BY <1>4, <1>5 DEF Over1, Over2, Over3, Over4
-----------------------------------------------------------------------------
(* Matrices of such counts.                                                *)

(* The matrices of integers.                                               *)
IntMatrices == [0..15 -> Int]

(* Their product.                                                          *)
Composed(A, B) ==
  [i \in 0..15 |-> LET r == 4 * (i \div 4)
                       c == i % 4
                   IN  A[r] * B[c] + A[r + 1] * B[c + 4] + A[r + 2] * B[c + 8]
                         + A[r + 3] * B[c + 12]]

(* The entries of a product.                                               *)
LEMMA ComposedEntries ==
  ASSUME NEW A \in IntMatrices, NEW B \in IntMatrices
  PROVE  /\ Composed(A, B)[0] = A[0] * B[0] + A[1] * B[4] + A[2] * B[8] + A[3] * B[12]
         /\ Composed(A, B)[1] = A[0] * B[1] + A[1] * B[5] + A[2] * B[9] + A[3] * B[13]
         /\ Composed(A, B)[2] = A[0] * B[2] + A[1] * B[6] + A[2] * B[10] + A[3] * B[14]
         /\ Composed(A, B)[3] = A[0] * B[3] + A[1] * B[7] + A[2] * B[11] + A[3] * B[15]
         /\ Composed(A, B)[4] = A[4] * B[0] + A[5] * B[4] + A[6] * B[8] + A[7] * B[12]
         /\ Composed(A, B)[5] = A[4] * B[1] + A[5] * B[5] + A[6] * B[9] + A[7] * B[13]
         /\ Composed(A, B)[6] = A[4] * B[2] + A[5] * B[6] + A[6] * B[10] + A[7] * B[14]
         /\ Composed(A, B)[7] = A[4] * B[3] + A[5] * B[7] + A[6] * B[11] + A[7] * B[15]
         /\ Composed(A, B)[8] = A[8] * B[0] + A[9] * B[4] + A[10] * B[8] + A[11] * B[12]
         /\ Composed(A, B)[9] = A[8] * B[1] + A[9] * B[5] + A[10] * B[9] + A[11] * B[13]
         /\ Composed(A, B)[10] = A[8] * B[2] + A[9] * B[6] + A[10] * B[10] + A[11] * B[14]
         /\ Composed(A, B)[11] = A[8] * B[3] + A[9] * B[7] + A[10] * B[11] + A[11] * B[15]
         /\ Composed(A, B)[12] = A[12] * B[0] + A[13] * B[4] + A[14] * B[8] + A[15] * B[12]
         /\ Composed(A, B)[13] = A[12] * B[1] + A[13] * B[5] + A[14] * B[9] + A[15] * B[13]
         /\ Composed(A, B)[14] = A[12] * B[2] + A[13] * B[6] + A[14] * B[10] + A[15] * B[14]
         /\ Composed(A, B)[15] = A[12] * B[3] + A[13] * B[7] + A[14] * B[11] + A[15] * B[15]
BY DEF Composed

(* The entries are integers.                                               *)
LEMMA MatrixTypes ==
  ASSUME NEW A \in IntMatrices
  PROVE  /\ A[0] \in Int /\ A[1] \in Int /\ A[2] \in Int /\ A[3] \in Int
         /\ A[4] \in Int /\ A[5] \in Int /\ A[6] \in Int /\ A[7] \in Int
         /\ A[8] \in Int /\ A[9] \in Int /\ A[10] \in Int /\ A[11] \in Int
         /\ A[12] \in Int /\ A[13] \in Int /\ A[14] \in Int /\ A[15] \in Int
BY DEF IntMatrices

(* The entries of MatrixIdentity.                                          *)
LEMMA IdentityEntries ==
  ASSUME NEW e \in Int
  PROVE  /\ MatrixIdentity(e) = [i \in 0..15 |-> MatrixIdentity(e)[i]]
         /\ MatrixIdentity(e)[0] = e /\ MatrixIdentity(e)[5] = e
         /\ MatrixIdentity(e)[10] = e /\ MatrixIdentity(e)[15] = Unit
         /\ \A i \in {1, 2, 3, 4, 6, 7, 8, 9, 11, 12, 13, 14} : MatrixIdentity(e)[i] = 0
BY DEF MatrixIdentity, Turning, Rows

(* A matrix of integers, as counts of a.                                   *)
InCounts(M, a) == [i \in 0..15 |-> M[i] * a]

(* Counts of a times counts of b are counts of c.                          *)
ExactTimes(a, b, c) == \A i, j \in Int : (i * a) \otimes (j * b) = (i * j) * c

(* The product of integer matrices is one.                                 *)
LEMMA ComposedMatrix ==
  ASSUME NEW A \in IntMatrices, NEW B \in IntMatrices
  PROVE  Composed(A, B) \in IntMatrices
<1>1. \A i \in 0..15 : /\ A[i] \in Int /\ B[i] \in Int
                       /\ 4 * (i \div 4) \in 0..12 /\ i % 4 \in 0..3
  BY DEF IntMatrices
<1> QED
  BY <1>1 DEF Composed, IntMatrices

(* MatrixMultiply multiplies the integers, if their products are exact.    *)
LEMMA MultiplyCounts ==
  ASSUME NEW A \in IntMatrices, NEW B \in IntMatrices, NEW a \in Int, NEW b \in Int, NEW c \in Int,
         ExactTimes(a, b, c)
  PROVE  /\ Composed(A, B) \in IntMatrices
         /\ MatrixMultiply(InCounts(A, a), InCounts(B, b)) = InCounts(Composed(A, B), c)
<1>1. \A i \in 0..15 : /\ A[i] \in Int /\ B[i] \in Int
                       /\ 4 * (i \div 4) \in 0..12 /\ i % 4 \in 0..3
  BY DEF IntMatrices
<1>2. Composed(A, B) \in IntMatrices
  BY ComposedMatrix
<1>3. \A i \in 0..15 : MatrixMultiply(InCounts(A, a), InCounts(B, b))[i] = Composed(A, B)[i] * c
  <2> SUFFICES ASSUME NEW i \in 0..15
               PROVE  MatrixMultiply(InCounts(A, a), InCounts(B, b))[i] = Composed(A, B)[i] * c
    OBVIOUS
  <2> DEFINE r == 4 * (i \div 4)
             k == i % 4
             x == A[r]
             y == A[r + 1]
             z == A[r + 2]
             w == A[r + 3]
             e == B[k]
             f == B[k + 4]
             g == B[k + 8]
             h == B[k + 12]
  <2>1. Composed(A, B)[i] = x * e + y * f + z * g + w * h
    BY DEF Composed
  <2>2. MatrixMultiply(InCounts(A, a), InCounts(B, b))[i]
          = InCounts(A, a)[r] \otimes InCounts(B, b)[k]
              + InCounts(A, a)[r + 1] \otimes InCounts(B, b)[k + 4]
              + InCounts(A, a)[r + 2] \otimes InCounts(B, b)[k + 8]
              + InCounts(A, a)[r + 3] \otimes InCounts(B, b)[k + 12]
    BY DEF MatrixMultiply
  <2>3. r \in 0..12 /\ k \in 0..3
    BY <1>1
  <2> HIDE DEF r, k
  <2>4. /\ r \in 0..15 /\ r + 1 \in 0..15 /\ r + 2 \in 0..15 /\ r + 3 \in 0..15
        /\ k \in 0..15 /\ k + 4 \in 0..15 /\ k + 8 \in 0..15 /\ k + 12 \in 0..15
    BY <2>3
  <2>5. /\ x \in Int /\ y \in Int /\ z \in Int /\ w \in Int
        /\ e \in Int /\ f \in Int /\ g \in Int /\ h \in Int
    BY <1>1, <2>4
  <2>6. MatrixMultiply(InCounts(A, a), InCounts(B, b))[i]
          = (x * a) \otimes (e * b) + (y * a) \otimes (f * b)
              + (z * a) \otimes (g * b) + (w * a) \otimes (h * b)
    BY <2>2, <2>4 DEF InCounts
  <2> HIDE DEF x, y, z, w, e, f, g, h
  <2>7. /\ (x * a) \otimes (e * b) = (x * e) * c /\ (y * a) \otimes (f * b) = (y * f) * c
        /\ (z * a) \otimes (g * b) = (z * g) * c /\ (w * a) \otimes (h * b) = (w * h) * c
    BY <2>5 DEF ExactTimes
  <2>8. (x * e) * c + (y * f) * c + (z * g) * c + (w * h) * c
          = (x * e + y * f + z * g + w * h) * c
    BY <2>5
  <2> QED
    BY <2>1, <2>6, <2>7, <2>8
<1> QED
  BY <1>2, <1>3 DEF MatrixMultiply, InCounts

(* Three rows of three, and what the rest of the diagonal has.             *)
Spatial(a, b, c, d, e, f, g, h, k, l) ==
  [i \in 0..15 |-> << a, d, g, 0, b, e, h, 0, c, f, k, 0, 0, 0, 0, l >>[i + 1]]

(* A matrix with these entries.                                            *)
LEMMA SpatialIs ==
  ASSUME NEW a, NEW b, NEW c, NEW d, NEW e, NEW f, NEW g, NEW h, NEW k, NEW l,
         NEW M, M = [i \in 0..15 |-> M[i]],
         M[0] = a, M[1] = d, M[2] = g, M[3] = 0, M[4] = b, M[5] = e, M[6] = h, M[7] = 0,
         M[8] = c, M[9] = f, M[10] = k, M[11] = 0, M[12] = 0, M[13] = 0, M[14] = 0, M[15] = l
  PROVE  M = Spatial(a, b, c, d, e, f, g, h, k, l)
<1> DEFINE S == Spatial(a, b, c, d, e, f, g, h, k, l)
<1>1. /\ S = [i \in 0..15 |-> S[i]]
      /\ S[0] = a /\ S[1] = d /\ S[2] = g /\ S[3] = 0
      /\ S[4] = b /\ S[5] = e /\ S[6] = h /\ S[7] = 0
      /\ S[8] = c /\ S[9] = f /\ S[10] = k /\ S[11] = 0
      /\ S[12] = 0 /\ S[13] = 0 /\ S[14] = 0 /\ S[15] = l
  BY DEF Spatial
<1> HIDE DEF S
<1>2. \A i \in 0..15 : M[i] = S[i]
  BY <1>1
<1>3. M = S
  BY <1>1, <1>2
<1> QED
  BY <1>3 DEF S

-----------------------------------------------------------------------------
(* Three angles.                                                           *)

(* An angle of cosine C / 25 and sine S / 25.                              *)
AngleOf(C, S) == [cos |-> Over2(C), sin |-> Over2(S)]

(* 1.0f and 0.                                                             *)
LEMMA OverKnown ==
  ASSUME ExactUnit
  PROVE  Unit = Over(15625) /\ Unit = Over2(25) /\ 0 = Over(0) /\ 0 = Over2(0)
BY FineParts DEF Over, Over2

(* Sums, differences and negatives.                                        *)
LEMMA OverSums ==
  ASSUME ExactUnit
  PROVE  /\ \A i, j \in Int : Over(i) + Over(j) = Over(i + j) /\ Over(i) - Over(j) = Over(i - j)
         /\ \A i \in Int : -Over(i) = Over(-i)
BY FineParts DEF Over

(* The counts of 1/25 of rotations about x, y and z.                       *)
AboutX(C, S) == Spatial(25, 0, 0, 0, C, -S, 0, S, C, 25)
AboutY(C, S) == Spatial(C, 0, S, 0, 25, 0, -S, 0, C, 25)
AboutZ(C, S) == Spatial(C, -S, 0, S, C, 0, 0, 0, 25, 25)

(* The matrices of rotations about x, y and z.                             *)
LEMMA RotateAboutAxes ==
  ASSUME ExactUnit, NEW C \in Int, NEW S \in Int
  PROVE  /\ MatrixRotateX(AngleOf(C, S)) = InCounts(AboutX(C, S), Unit \div 25)
         /\ MatrixRotateY(AngleOf(C, S)) = InCounts(AboutY(C, S), Unit \div 25)
         /\ MatrixRotateZ(AngleOf(C, S)) = InCounts(AboutZ(C, S), Unit \div 25)
<1> DEFINE J == MatrixIdentity(Unit)
           c == Over2(C)
           s == Over2(S)
           t == -s
           u == Unit \div 25
<1>1. /\ Unit \in Int /\ c \in Int /\ s \in Int /\ t \in Int /\ u \in Int
      /\ c = C * u /\ s = S * u /\ t = (-S) * u /\ Unit = 25 * u /\ 0 = 0 * u
  <2>1. Fine \in Int /\ Unit \in Int /\ Unit = 15625 * Fine /\ Unit \div 25 = 625 * Fine
    BY FineParts
  <2>2. u \in Int /\ Unit = 25 * u /\ 0 = 0 * u
    BY <2>1
  <2>3. c \in Int /\ s \in Int /\ t \in Int
    BY OverInt
  <2>4. c = C * u /\ s = S * u
    BY <2>1 DEF Over, Over2
  <2>5. t = (-S) * u
    BY <2>2, <2>4
  <2> QED
    BY <2>1, <2>2, <2>3, <2>4, <2>5
<1>2. /\ J = [i \in 0..15 |-> J[i]]
      /\ J[0] = Unit /\ J[5] = Unit /\ J[10] = Unit /\ J[15] = Unit
      /\ J[1] = 0 /\ J[2] = 0 /\ J[3] = 0 /\ J[4] = 0 /\ J[6] = 0 /\ J[7] = 0
      /\ J[8] = 0 /\ J[9] = 0 /\ J[11] = 0 /\ J[12] = 0 /\ J[13] = 0 /\ J[14] = 0
  BY <1>1, IdentityEntries
<1>3. /\ MatrixRotateX(AngleOf(C, S)) = [J EXCEPT ![5] = c, ![6] = s, ![9] = t, ![10] = c]
      /\ MatrixRotateY(AngleOf(C, S)) = [J EXCEPT ![0] = c, ![2] = t, ![8] = s, ![10] = c]
      /\ MatrixRotateZ(AngleOf(C, S)) = [J EXCEPT ![0] = c, ![1] = s, ![4] = t, ![5] = c]
  BY DEF MatrixRotateX, MatrixRotateY, MatrixRotateZ, AngleOf
<1> HIDE DEF J, c, s, t, u
<1> DEFINE E(f) == InCounts(f, u)
<1>4. [J EXCEPT ![5] = c, ![6] = s, ![9] = t, ![10] = c]
        = [i \in 0..15 |-> Spatial(25, 0, 0, 0, C, -S, 0, S, C, 25)[i] * u]
  BY <1>1, <1>2 DEF Spatial
<1>5. [J EXCEPT ![0] = c, ![2] = t, ![8] = s, ![10] = c]
        = [i \in 0..15 |-> Spatial(C, 0, S, 0, 25, 0, -S, 0, C, 25)[i] * u]
  BY <1>1, <1>2 DEF Spatial
<1>6. [J EXCEPT ![0] = c, ![1] = s, ![4] = t, ![5] = c]
        = [i \in 0..15 |-> Spatial(C, -S, 0, S, C, 0, 0, 0, 25, 25)[i] * u]
  BY <1>1, <1>2 DEF Spatial
<1> QED
  BY <1>3, <1>4, <1>5, <1>6 DEF InCounts, AboutX, AboutY, AboutZ, u

(* What Turning makes of counts.                                           *)
LEMMA TurningCounts ==
  ASSUME ExactUnit,
         NEW a \in Int, NEW b \in Int, NEW c \in Int, NEW d \in Int, NEW e \in Int,
         NEW f \in Int, NEW g \in Int, NEW h \in Int, NEW k \in Int
  PROVE  Turning(<<Over(a), Over(b), Over(c)>>, <<Over(d), Over(e), Over(f)>>,
                 <<Over(g), Over(h), Over(k)>>)
           = InCounts(Spatial(a, b, c, d, e, f, g, h, k, 15625), Fine)
<1> DEFINE T == Turning(<<Over(a), Over(b), Over(c)>>, <<Over(d), Over(e), Over(f)>>,
                        <<Over(g), Over(h), Over(k)>>)
           S == Spatial(a, b, c, d, e, f, g, h, k, 15625)
<1>1. /\ T = [i \in 0..15 |-> T[i]]
      /\ T[0] = Over(a) /\ T[1] = Over(d) /\ T[2] = Over(g) /\ T[3] = 0
      /\ T[4] = Over(b) /\ T[5] = Over(e) /\ T[6] = Over(h) /\ T[7] = 0
      /\ T[8] = Over(c) /\ T[9] = Over(f) /\ T[10] = Over(k) /\ T[11] = 0
      /\ T[12] = 0 /\ T[13] = 0 /\ T[14] = 0 /\ T[15] = Unit
  BY DEF Turning, Rows
<1>2. /\ S[0] = a /\ S[1] = d /\ S[2] = g /\ S[3] = 0
      /\ S[4] = b /\ S[5] = e /\ S[6] = h /\ S[7] = 0
      /\ S[8] = c /\ S[9] = f /\ S[10] = k /\ S[11] = 0
      /\ S[12] = 0 /\ S[13] = 0 /\ S[14] = 0 /\ S[15] = 15625
  BY DEF Spatial
<1>3. Unit = Over(15625) /\ 0 = Over(0)
  BY OverKnown
<1> HIDE DEF T, S
<1>4. \A i \in 0..15 : T[i] = Over(S[i])
  BY <1>1, <1>2, <1>3
<1>5. T = [i \in 0..15 |-> S[i] * Fine]
  BY <1>1, <1>4 DEF Over
<1> QED
  BY <1>5 DEF InCounts, T, S

(* Products of two and of three.                                           *)
LEMMA OverProducts ==
  ASSUME ExactUnit
  PROVE  /\ \A i, j \in Int : Over2(i) \otimes Over2(j) = Over(25 * (i * j))
         /\ \A i, j, k \in Int : Over2(i) \otimes Over2(j) \otimes Over2(k) = Over(i * j * k)
<1>1. \A i, j \in Int : Over2(i) \otimes Over2(j) = Over4(i * j)
  BY OverTimes
<1>2. ASSUME NEW i \in Int, NEW j \in Int, NEW k \in Int
      PROVE  Over2(i) \otimes Over2(j) \otimes Over2(k) = Over(i * j * k)
  <2>1. Over2(i) \otimes Over2(j) = Over4(i * j) /\ i * j \in Int
    BY <1>1
  <2>2. Over4(i * j) \otimes Over2(k) = Over((i * j) * k)
    BY <2>1, OverTimes, Zenon
  <2> QED
    BY <2>1, <2>2
<1> QED
  BY <1>1, <1>2 DEF Over4

(* The counts of MatrixRotateZYX for three angles.                         *)
ZYXCounts(C, S, D, T, E, W) ==
  Spatial(25 * (E * D), E * T * S - 25 * (C * W), 25 * (W * S) + E * C * T,
          25 * (D * W), 25 * (E * C) + W * T * S, C * W * T - 25 * (E * S),
          -(625 * T), 25 * (D * S), 25 * (D * C), 15625)

(* Three angles, of halves with a common scale.                            *)
LEMMA RotateZYXCounts ==
  ASSUME ExactUnit, NEW C \in Int, NEW S \in Int, NEW D \in Int, NEW T \in Int,
         NEW E \in Int, NEW W \in Int
  PROVE  MatrixRotateZYX([x |-> AngleOf(C, S), y |-> AngleOf(D, T), z |-> AngleOf(E, W)])
           = InCounts(ZYXCounts(C, S, D, T, E, W), Fine)
<1> DEFINE P(i, j) == Over2(i) \otimes Over2(j)
           Q(i, j, k) == P(i, j) \otimes Over2(k)
           R == MatrixRotateZYX([x |-> AngleOf(C, S), y |-> AngleOf(D, T), z |-> AngleOf(E, W)])
<1>1. \A i, j \in Int : P(i, j) = Over(25 * (i * j))
  BY OverProducts
<1>2. \A i, j, k \in Int : Q(i, j, k) = Over(i * j * k)
  BY OverProducts
<1>3. R = Turning(<<P(E, D), Q(E, T, S) - P(C, W), P(W, S) + Q(E, C, T)>>,
                  <<P(D, W), P(E, C) + Q(W, T, S), Q(C, W, T) - P(E, S)>>,
                  <<-Over2(T), P(D, S), P(D, C)>>)
  BY DEF MatrixRotateZYX, AngleOf
<1> HIDE DEF P, Q
<1>4. /\ P(E, D) = Over(25 * (E * D)) /\ P(D, W) = Over(25 * (D * W))
      /\ P(D, S) = Over(25 * (D * S)) /\ P(D, C) = Over(25 * (D * C))
      /\ P(C, W) = Over(25 * (C * W)) /\ P(W, S) = Over(25 * (W * S))
      /\ P(E, C) = Over(25 * (E * C)) /\ P(E, S) = Over(25 * (E * S))
      /\ Q(E, T, S) = Over(E * T * S) /\ Q(E, C, T) = Over(E * C * T)
      /\ Q(W, T, S) = Over(W * T * S) /\ Q(C, W, T) = Over(C * W * T)
  <2>1. /\ P(E, D) = Over(25 * (E * D)) /\ P(D, W) = Over(25 * (D * W))
        /\ P(D, S) = Over(25 * (D * S)) /\ P(D, C) = Over(25 * (D * C))
    BY <1>1
  <2>2. /\ P(C, W) = Over(25 * (C * W)) /\ P(W, S) = Over(25 * (W * S))
        /\ P(E, C) = Over(25 * (E * C)) /\ P(E, S) = Over(25 * (E * S))
    BY <1>1
  <2>3. Q(E, T, S) = Over(E * T * S) /\ Q(E, C, T) = Over(E * C * T)
    BY <1>2
  <2>4. Q(W, T, S) = Over(W * T * S) /\ Q(C, W, T) = Over(C * W * T)
    BY <1>2
  <2> QED
    BY <2>1, <2>2, <2>3, <2>4
<1>5. /\ Q(E, T, S) - P(C, W) = Over(E * T * S - 25 * (C * W))
      /\ P(W, S) + Q(E, C, T) = Over(25 * (W * S) + E * C * T)
      /\ P(E, C) + Q(W, T, S) = Over(25 * (E * C) + W * T * S)
      /\ Q(C, W, T) - P(E, S) = Over(C * W * T - 25 * (E * S))
      /\ -Over2(T) = Over(-(625 * T))
  <2> DEFINE i1 == E * T * S
             i2 == 25 * (C * W)
             i3 == 25 * (W * S)
             i4 == E * C * T
             i5 == 25 * (E * C)
             i6 == W * T * S
             i7 == C * W * T
             i8 == 25 * (E * S)
             i9 == 625 * T
  <2>1. /\ i1 \in Int /\ i2 \in Int /\ i3 \in Int /\ i4 \in Int /\ i5 \in Int
        /\ i6 \in Int /\ i7 \in Int /\ i8 \in Int /\ i9 \in Int
    OBVIOUS
  <2> HIDE DEF i1, i2, i3, i4, i5, i6, i7, i8, i9
  <2>2. /\ Over(i1) - Over(i2) = Over(i1 - i2) /\ Over(i3) + Over(i4) = Over(i3 + i4)
        /\ Over(i5) + Over(i6) = Over(i5 + i6) /\ Over(i7) - Over(i8) = Over(i7 - i8)
        /\ -Over(i9) = Over(-i9)
    BY <2>1, OverSums, Zenon
  <2> QED
    BY <1>4, <2>2, Zenon DEF Over2, i1, i2, i3, i4, i5, i6, i7, i8, i9
<1> DEFINE a == 25 * (E * D)
           b == E * T * S - 25 * (C * W)
           c == 25 * (W * S) + E * C * T
           d == 25 * (D * W)
           e == 25 * (E * C) + W * T * S
           f == C * W * T - 25 * (E * S)
           g == -(625 * T)
           h == 25 * (D * S)
           k == 25 * (D * C)
<1>6. R = Turning(<<Over(a), Over(b), Over(c)>>, <<Over(d), Over(e), Over(f)>>,
                  <<Over(g), Over(h), Over(k)>>)
  BY <1>3, <1>4, <1>5
<1>7. /\ a \in Int /\ b \in Int /\ c \in Int /\ d \in Int /\ e \in Int
      /\ f \in Int /\ g \in Int /\ h \in Int /\ k \in Int
  OBVIOUS
<1>8. ZYXCounts(C, S, D, T, E, W) = Spatial(a, b, c, d, e, f, g, h, k, 15625)
  BY DEF ZYXCounts
<1> HIDE DEF R, a, b, c, d, e, f, g, h, k
<1>9. R = InCounts(Spatial(a, b, c, d, e, f, g, h, k, 15625), Fine)
  BY <1>6, <1>7, TurningCounts
<1> QED
  BY <1>8, <1>9 DEF R

(* The same of MatrixRotateXYZ, which takes the angles back.               *)
XYZCounts(C, S, D, T, E, W) ==
  Spatial(25 * (E * D), 25 * ((-W) * D), -(625 * (-T)),
          E * (-T) * (-S) - 25 * ((-W) * C), (-W) * (-T) * (-S) + 25 * (E * C), 25 * (D * (-S)),
          E * (-T) * C + 25 * ((-W) * (-S)), (-W) * (-T) * C - 25 * (E * (-S)), 25 * (D * C),
          15625)

(* MatrixRotateXYZ of three angles.                                        *)
LEMMA RotateXYZCounts ==
  ASSUME ExactUnit, NEW C \in Int, NEW S \in Int, NEW D \in Int, NEW T \in Int,
         NEW E \in Int, NEW W \in Int
  PROVE  MatrixRotateXYZ([x |-> AngleOf(C, S), y |-> AngleOf(D, T), z |-> AngleOf(E, W)])
           = InCounts(XYZCounts(C, S, D, T, E, W), Fine)
<1> DEFINE P(i, j) == Over2(i) \otimes Over2(j)
           Q(i, j, k) == P(i, j) \otimes Over2(k)
           R == MatrixRotateXYZ([x |-> AngleOf(C, S), y |-> AngleOf(D, T), z |-> AngleOf(E, W)])
           s == -S
           t == -T
           w == -W
<1>1. \A i, j \in Int : P(i, j) = Over(25 * (i * j))
  BY OverProducts
<1>2. \A i, j, k \in Int : Q(i, j, k) = Over(i * j * k)
  BY OverProducts
<1>3. \A i, j \in Int : Back(AngleOf(i, j)) = AngleOf(i, -j)
  <2> SUFFICES ASSUME NEW i \in Int, NEW j \in Int
               PROVE  Back(AngleOf(i, j)) = AngleOf(i, -j)
    OBVIOUS
  <2>1. -Over2(j) = Over2(-j)
    BY FineParts DEF Over, Over2
  <2> QED
    BY <2>1 DEF Back, AngleOf
<1>4. /\ Back(AngleOf(C, S)) = AngleOf(C, s) /\ Back(AngleOf(D, T)) = AngleOf(D, t)
      /\ Back(AngleOf(E, W)) = AngleOf(E, w)
  BY <1>3
<1> HIDE DEF s, t, w
<1>5. R = Turning(<<P(E, D), P(w, D), -Over2(t)>>,
                  <<Q(E, t, s) - P(w, C), Q(w, t, s) + P(E, C), P(D, s)>>,
                  <<Q(E, t, C) + P(w, s), Q(w, t, C) - P(E, s), P(D, C)>>)
  BY <1>4 DEF MatrixRotateXYZ, AngleOf
<1>6. s \in Int /\ t \in Int /\ w \in Int
  BY DEF s, t, w
<1> HIDE DEF P, Q
<1>7. /\ P(E, D) = Over(25 * (E * D)) /\ P(w, D) = Over(25 * (w * D))
      /\ P(D, s) = Over(25 * (D * s)) /\ P(D, C) = Over(25 * (D * C))
      /\ P(w, C) = Over(25 * (w * C)) /\ P(w, s) = Over(25 * (w * s))
      /\ P(E, C) = Over(25 * (E * C)) /\ P(E, s) = Over(25 * (E * s))
      /\ Q(E, t, s) = Over(E * t * s) /\ Q(w, t, s) = Over(w * t * s)
      /\ Q(E, t, C) = Over(E * t * C) /\ Q(w, t, C) = Over(w * t * C)
  <2>1. /\ P(E, D) = Over(25 * (E * D)) /\ P(w, D) = Over(25 * (w * D))
        /\ P(D, s) = Over(25 * (D * s)) /\ P(D, C) = Over(25 * (D * C))
        /\ P(w, C) = Over(25 * (w * C)) /\ P(w, s) = Over(25 * (w * s))
        /\ P(E, C) = Over(25 * (E * C)) /\ P(E, s) = Over(25 * (E * s))
    BY <1>1, <1>6
  <2>2. Q(E, t, s) = Over(E * t * s) /\ Q(w, t, s) = Over(w * t * s)
    BY <1>2, <1>6
  <2>3. Q(E, t, C) = Over(E * t * C) /\ Q(w, t, C) = Over(w * t * C)
    BY <1>2, <1>6
  <2> QED
    BY <2>1, <2>2, <2>3
<1>8. /\ Q(E, t, s) - P(w, C) = Over(E * t * s - 25 * (w * C))
      /\ Q(w, t, s) + P(E, C) = Over(w * t * s + 25 * (E * C))
      /\ Q(E, t, C) + P(w, s) = Over(E * t * C + 25 * (w * s))
      /\ Q(w, t, C) - P(E, s) = Over(w * t * C - 25 * (E * s))
      /\ -Over2(t) = Over(-(625 * t))
  <2> DEFINE i1 == E * t * s
             i2 == 25 * (w * C)
             i3 == w * t * s
             i4 == 25 * (E * C)
             i5 == E * t * C
             i6 == 25 * (w * s)
             i7 == w * t * C
             i8 == 25 * (E * s)
             i9 == 625 * t
  <2>1. /\ i1 \in Int /\ i2 \in Int /\ i3 \in Int /\ i4 \in Int /\ i5 \in Int
        /\ i6 \in Int /\ i7 \in Int /\ i8 \in Int /\ i9 \in Int
    BY <1>6
  <2> HIDE DEF i1, i2, i3, i4, i5, i6, i7, i8, i9
  <2>2. /\ Over(i1) - Over(i2) = Over(i1 - i2) /\ Over(i3) + Over(i4) = Over(i3 + i4)
        /\ Over(i5) + Over(i6) = Over(i5 + i6) /\ Over(i7) - Over(i8) = Over(i7 - i8)
        /\ -Over(i9) = Over(-i9)
    BY <2>1, OverSums, Zenon
  <2> QED
    BY <1>7, <2>2, Zenon DEF Over2, i1, i2, i3, i4, i5, i6, i7, i8, i9
<1> DEFINE a == 25 * (E * D)
           b == 25 * (w * D)
           c == -(625 * t)
           d == E * t * s - 25 * (w * C)
           e == w * t * s + 25 * (E * C)
           f == 25 * (D * s)
           g == E * t * C + 25 * (w * s)
           h == w * t * C - 25 * (E * s)
           k == 25 * (D * C)
<1>9. R = Turning(<<Over(a), Over(b), Over(c)>>, <<Over(d), Over(e), Over(f)>>,
                  <<Over(g), Over(h), Over(k)>>)
  BY <1>5, <1>7, <1>8
<1>10. /\ a \in Int /\ b \in Int /\ c \in Int /\ d \in Int /\ e \in Int
       /\ f \in Int /\ g \in Int /\ h \in Int /\ k \in Int
  BY <1>6
<1>11. XYZCounts(C, S, D, T, E, W) = Spatial(a, b, c, d, e, f, g, h, k, 15625)
  BY DEF XYZCounts, s, t, w
<1> HIDE DEF R, a, b, c, d, e, f, g, h, k
<1>12. R = InCounts(Spatial(a, b, c, d, e, f, g, h, k, 15625), Fine)
  BY <1>9, <1>10, TurningCounts
<1> QED
  BY <1>11, <1>12 DEF R

(* The product of three matrices of counts of 1/25.                        *)
LEMMA ChainCounts ==
  ASSUME ExactUnit, NEW X \in IntMatrices, NEW Y \in IntMatrices, NEW Z \in IntMatrices
  PROVE  LET u == Unit \div 25
         IN  Chain(InCounts(X, u), InCounts(Y, u), InCounts(Z, u))
               = InCounts(Composed(Composed(X, Y), Z), Fine)
<1> DEFINE u == Unit \div 25
           v == 25 * Fine
<1>1. u \in Int /\ v \in Int /\ Fine \in Int
  BY FineParts
<1>2. ExactTimes(u, u, v)
  <2> SUFFICES ASSUME NEW i \in Int, NEW j \in Int
               PROVE  (i * u) \otimes (j * u) = (i * j) * v
    BY DEF ExactTimes
  <2>1. Over2(i) \otimes Over2(j) = Over4(i * j)
    BY OverTimes
  <2>2. Over2(i) = i * u /\ Over2(j) = j * u /\ Over4(i * j) = (i * j) * v
    <3>1. Fine \in Int /\ u = 625 * Fine
      BY FineParts
    <3> QED
      BY <3>1 DEF Over, Over2, Over4
  <2> QED
    BY <2>1, <2>2
<1>3. ExactTimes(v, u, Fine)
  <2> SUFFICES ASSUME NEW i \in Int, NEW j \in Int
               PROVE  (i * v) \otimes (j * u) = (i * j) * Fine
    BY DEF ExactTimes
  <2>1. Over4(i) \otimes Over2(j) = Over(i * j)
    BY OverTimes
  <2>2. Over4(i) = i * v /\ Over2(j) = j * u /\ Over(i * j) = (i * j) * Fine
    <3>1. Fine \in Int /\ u = 625 * Fine
      BY FineParts
    <3> QED
      BY <3>1 DEF Over, Over2, Over4
  <2> QED
    BY <2>1, <2>2
<1> HIDE DEF u, v
<1>4. /\ Composed(X, Y) \in IntMatrices
      /\ MatrixMultiply(InCounts(X, u), InCounts(Y, u)) = InCounts(Composed(X, Y), v)
  BY <1>1, <1>2, MultiplyCounts
<1>5. MatrixMultiply(InCounts(Composed(X, Y), v), InCounts(Z, u))
        = InCounts(Composed(Composed(X, Y), Z), Fine)
  BY <1>1, <1>3, <1>4, MultiplyCounts
<1> QED
  BY <1>4, <1>5 DEF Chain, u

(* The entries of the product of matrices with nothing in the last row and *)
(* column but l on the diagonal.                                           *)
LEMMA SpatialTimes ==
  ASSUME NEW A \in IntMatrices, NEW B \in IntMatrices,
         A[3] = 0, A[7] = 0, A[11] = 0, A[12] = 0, A[13] = 0, A[14] = 0,
         B[3] = 0, B[7] = 0, B[11] = 0, B[12] = 0, B[13] = 0, B[14] = 0
  PROVE  LET P == Composed(A, B)
         IN  /\ P[0] = A[0] * B[0] + A[1] * B[4] + A[2] * B[8]
             /\ P[1] = A[0] * B[1] + A[1] * B[5] + A[2] * B[9]
             /\ P[2] = A[0] * B[2] + A[1] * B[6] + A[2] * B[10]
             /\ P[4] = A[4] * B[0] + A[5] * B[4] + A[6] * B[8]
             /\ P[5] = A[4] * B[1] + A[5] * B[5] + A[6] * B[9]
             /\ P[6] = A[4] * B[2] + A[5] * B[6] + A[6] * B[10]
             /\ P[8] = A[8] * B[0] + A[9] * B[4] + A[10] * B[8]
             /\ P[9] = A[8] * B[1] + A[9] * B[5] + A[10] * B[9]
             /\ P[10] = A[8] * B[2] + A[9] * B[6] + A[10] * B[10]
             /\ P[3] = 0 /\ P[7] = 0 /\ P[11] = 0 /\ P[12] = 0 /\ P[13] = 0 /\ P[14] = 0
             /\ P[15] = A[15] * B[15]
             /\ P = [i \in 0..15 |-> P[i]]
<1> DEFINE P == Composed(A, B)
<1>1. P = [i \in 0..15 |-> P[i]]
  BY DEF Composed
<1>2. /\ A[0] \in Int /\ A[1] \in Int /\ A[2] \in Int /\ A[4] \in Int /\ A[5] \in Int
      /\ A[6] \in Int /\ A[8] \in Int /\ A[9] \in Int /\ A[10] \in Int /\ A[15] \in Int
      /\ B[0] \in Int /\ B[1] \in Int /\ B[2] \in Int /\ B[4] \in Int /\ B[5] \in Int
      /\ B[6] \in Int /\ B[8] \in Int /\ B[9] \in Int /\ B[10] \in Int /\ B[15] \in Int
  BY MatrixTypes
<1>3. /\ P[0] = A[0] * B[0] + A[1] * B[4] + A[2] * B[8] + 0 * 0
      /\ P[1] = A[0] * B[1] + A[1] * B[5] + A[2] * B[9] + 0 * 0
      /\ P[2] = A[0] * B[2] + A[1] * B[6] + A[2] * B[10] + 0 * 0
      /\ P[3] = A[0] * 0 + A[1] * 0 + A[2] * 0 + 0 * B[15]
      /\ P[4] = A[4] * B[0] + A[5] * B[4] + A[6] * B[8] + 0 * 0
      /\ P[5] = A[4] * B[1] + A[5] * B[5] + A[6] * B[9] + 0 * 0
      /\ P[6] = A[4] * B[2] + A[5] * B[6] + A[6] * B[10] + 0 * 0
      /\ P[7] = A[4] * 0 + A[5] * 0 + A[6] * 0 + 0 * B[15]
      /\ P[8] = A[8] * B[0] + A[9] * B[4] + A[10] * B[8] + 0 * 0
      /\ P[9] = A[8] * B[1] + A[9] * B[5] + A[10] * B[9] + 0 * 0
      /\ P[10] = A[8] * B[2] + A[9] * B[6] + A[10] * B[10] + 0 * 0
      /\ P[11] = A[8] * 0 + A[9] * 0 + A[10] * 0 + 0 * B[15]
      /\ P[12] = 0 * B[0] + 0 * B[4] + 0 * B[8] + A[15] * 0
      /\ P[13] = 0 * B[1] + 0 * B[5] + 0 * B[9] + A[15] * 0
      /\ P[14] = 0 * B[2] + 0 * B[6] + 0 * B[10] + A[15] * 0
      /\ P[15] = 0 * 0 + 0 * 0 + 0 * 0 + A[15] * B[15]
  BY ComposedEntries
<1> HIDE DEF P
<1>4. /\ P[0] = A[0] * B[0] + A[1] * B[4] + A[2] * B[8]
      /\ P[1] = A[0] * B[1] + A[1] * B[5] + A[2] * B[9]
      /\ P[2] = A[0] * B[2] + A[1] * B[6] + A[2] * B[10]
      /\ P[4] = A[4] * B[0] + A[5] * B[4] + A[6] * B[8]
      /\ P[5] = A[4] * B[1] + A[5] * B[5] + A[6] * B[9]
      /\ P[6] = A[4] * B[2] + A[5] * B[6] + A[6] * B[10]
      /\ P[8] = A[8] * B[0] + A[9] * B[4] + A[10] * B[8]
      /\ P[9] = A[8] * B[1] + A[9] * B[5] + A[10] * B[9]
      /\ P[10] = A[8] * B[2] + A[9] * B[6] + A[10] * B[10]
      /\ P[3] = 0 /\ P[7] = 0 /\ P[11] = 0 /\ P[12] = 0 /\ P[13] = 0 /\ P[14] = 0
      /\ P[15] = A[15] * B[15]
  BY <1>2, <1>3
<1> QED
  BY <1>1, <1>4 DEF P

(* First about x, then about y, last about z.                              *)
LEMMA ChainXYZ ==
  ASSUME NEW C \in Int, NEW S \in Int, NEW D \in Int, NEW T \in Int, NEW E \in Int, NEW W \in Int
  PROVE  Composed(Composed(AboutX(C, S), AboutY(D, T)), AboutZ(E, W))
           = ZYXCounts(C, S, D, T, E, W)
<1> DEFINE X == AboutX(C, S)
           Y == AboutY(D, T)
           Z == AboutZ(E, W)
           P == Composed(X, Y)
           R == Composed(P, Z)
<1>1. /\ X \in IntMatrices
      /\ X[0] = 25 /\ X[1] = 0 /\ X[2] = 0 /\ X[3] = 0
      /\ X[4] = 0 /\ X[5] = C /\ X[6] = S /\ X[7] = 0
      /\ X[8] = 0 /\ X[9] = -S /\ X[10] = C /\ X[11] = 0
      /\ X[12] = 0 /\ X[13] = 0 /\ X[14] = 0 /\ X[15] = 25
  BY DEF AboutX, AboutY, AboutZ, Spatial, IntMatrices
<1>2. /\ Y \in IntMatrices
      /\ Y[0] = D /\ Y[1] = 0 /\ Y[2] = -T /\ Y[3] = 0
      /\ Y[4] = 0 /\ Y[5] = 25 /\ Y[6] = 0 /\ Y[7] = 0
      /\ Y[8] = T /\ Y[9] = 0 /\ Y[10] = D /\ Y[11] = 0
      /\ Y[12] = 0 /\ Y[13] = 0 /\ Y[14] = 0 /\ Y[15] = 25
  BY DEF AboutX, AboutY, AboutZ, Spatial, IntMatrices
<1>3. /\ Z \in IntMatrices
      /\ Z[0] = E /\ Z[1] = W /\ Z[2] = 0 /\ Z[3] = 0
      /\ Z[4] = -W /\ Z[5] = E /\ Z[6] = 0 /\ Z[7] = 0
      /\ Z[8] = 0 /\ Z[9] = 0 /\ Z[10] = 25 /\ Z[11] = 0
      /\ Z[12] = 0 /\ Z[13] = 0 /\ Z[14] = 0 /\ Z[15] = 25
  BY DEF AboutX, AboutY, AboutZ, Spatial, IntMatrices
<1> HIDE DEF X, Y, Z
<1>4. P \in IntMatrices
  BY <1>1, <1>2, ComposedMatrix
<1>5. /\ P[0] = X[0] * Y[0] + X[1] * Y[4] + X[2] * Y[8]
      /\ P[1] = X[0] * Y[1] + X[1] * Y[5] + X[2] * Y[9]
      /\ P[2] = X[0] * Y[2] + X[1] * Y[6] + X[2] * Y[10]
      /\ P[4] = X[4] * Y[0] + X[5] * Y[4] + X[6] * Y[8]
      /\ P[5] = X[4] * Y[1] + X[5] * Y[5] + X[6] * Y[9]
      /\ P[6] = X[4] * Y[2] + X[5] * Y[6] + X[6] * Y[10]
      /\ P[8] = X[8] * Y[0] + X[9] * Y[4] + X[10] * Y[8]
      /\ P[9] = X[8] * Y[1] + X[9] * Y[5] + X[10] * Y[9]
      /\ P[10] = X[8] * Y[2] + X[9] * Y[6] + X[10] * Y[10]
      /\ P[3] = 0 /\ P[7] = 0 /\ P[11] = 0 /\ P[12] = 0 /\ P[13] = 0 /\ P[14] = 0
      /\ P[15] = X[15] * Y[15]
  BY <1>1, <1>2, SpatialTimes
<1> HIDE DEF P
<1>6. /\ P[0] = 25 * D /\ P[1] = 0 /\ P[2] = -(25 * T)
      /\ P[4] = S * T /\ P[5] = 25 * C /\ P[6] = S * D
      /\ P[8] = C * T /\ P[9] = -(25 * S) /\ P[10] = C * D /\ P[15] = 625
  BY <1>1, <1>2, <1>5
<1>7. /\ R[0] = P[0] * Z[0] + P[1] * Z[4] + P[2] * Z[8]
      /\ R[1] = P[0] * Z[1] + P[1] * Z[5] + P[2] * Z[9]
      /\ R[2] = P[0] * Z[2] + P[1] * Z[6] + P[2] * Z[10]
      /\ R[4] = P[4] * Z[0] + P[5] * Z[4] + P[6] * Z[8]
      /\ R[5] = P[4] * Z[1] + P[5] * Z[5] + P[6] * Z[9]
      /\ R[6] = P[4] * Z[2] + P[5] * Z[6] + P[6] * Z[10]
      /\ R[8] = P[8] * Z[0] + P[9] * Z[4] + P[10] * Z[8]
      /\ R[9] = P[8] * Z[1] + P[9] * Z[5] + P[10] * Z[9]
      /\ R[10] = P[8] * Z[2] + P[9] * Z[6] + P[10] * Z[10]
      /\ R[3] = 0 /\ R[7] = 0 /\ R[11] = 0 /\ R[12] = 0 /\ R[13] = 0 /\ R[14] = 0
      /\ R[15] = P[15] * Z[15]
      /\ R = [i \in 0..15 |-> R[i]]
  BY <1>3, <1>4, <1>5, SpatialTimes
<1> HIDE DEF R
<1>8. /\ R[0] = 25 * (E * D) /\ R[4] = E * T * S - 25 * (C * W) /\ R[8] = 25 * (W * S) + E * C * T
      /\ R[1] = 25 * (D * W) /\ R[5] = 25 * (E * C) + W * T * S /\ R[9] = C * W * T - 25 * (E * S)
      /\ R[2] = -(625 * T) /\ R[6] = 25 * (D * S) /\ R[10] = 25 * (D * C) /\ R[15] = 15625
  BY <1>3, <1>6, <1>7
<1>9. R = ZYXCounts(C, S, D, T, E, W)
  BY <1>7, <1>8, SpatialIs DEF ZYXCounts
<1> QED
  BY <1>9 DEF P, R, X, Y, Z

(* First about z, then about y, last about x.                              *)
LEMMA ChainZYX ==
  ASSUME NEW C \in Int, NEW S \in Int, NEW D \in Int, NEW T \in Int, NEW E \in Int, NEW W \in Int
  PROVE  Composed(Composed(AboutZ(E, W), AboutY(D, T)), AboutX(C, S))
           = XYZCounts(C, S, D, T, E, W)
<1> DEFINE X == AboutX(C, S)
           Y == AboutY(D, T)
           Z == AboutZ(E, W)
           P == Composed(Z, Y)
           R == Composed(P, X)
<1>1. /\ X \in IntMatrices
      /\ X[0] = 25 /\ X[1] = 0 /\ X[2] = 0 /\ X[3] = 0
      /\ X[4] = 0 /\ X[5] = C /\ X[6] = S /\ X[7] = 0
      /\ X[8] = 0 /\ X[9] = -S /\ X[10] = C /\ X[11] = 0
      /\ X[12] = 0 /\ X[13] = 0 /\ X[14] = 0 /\ X[15] = 25
  BY DEF AboutX, AboutY, AboutZ, Spatial, IntMatrices
<1>2. /\ Y \in IntMatrices
      /\ Y[0] = D /\ Y[1] = 0 /\ Y[2] = -T /\ Y[3] = 0
      /\ Y[4] = 0 /\ Y[5] = 25 /\ Y[6] = 0 /\ Y[7] = 0
      /\ Y[8] = T /\ Y[9] = 0 /\ Y[10] = D /\ Y[11] = 0
      /\ Y[12] = 0 /\ Y[13] = 0 /\ Y[14] = 0 /\ Y[15] = 25
  BY DEF AboutX, AboutY, AboutZ, Spatial, IntMatrices
<1>3. /\ Z \in IntMatrices
      /\ Z[0] = E /\ Z[1] = W /\ Z[2] = 0 /\ Z[3] = 0
      /\ Z[4] = -W /\ Z[5] = E /\ Z[6] = 0 /\ Z[7] = 0
      /\ Z[8] = 0 /\ Z[9] = 0 /\ Z[10] = 25 /\ Z[11] = 0
      /\ Z[12] = 0 /\ Z[13] = 0 /\ Z[14] = 0 /\ Z[15] = 25
  BY DEF AboutX, AboutY, AboutZ, Spatial, IntMatrices
<1> HIDE DEF X, Y, Z
<1>4. P \in IntMatrices
  BY <1>2, <1>3, ComposedMatrix
<1>5. /\ P[0] = Z[0] * Y[0] + Z[1] * Y[4] + Z[2] * Y[8]
      /\ P[1] = Z[0] * Y[1] + Z[1] * Y[5] + Z[2] * Y[9]
      /\ P[2] = Z[0] * Y[2] + Z[1] * Y[6] + Z[2] * Y[10]
      /\ P[4] = Z[4] * Y[0] + Z[5] * Y[4] + Z[6] * Y[8]
      /\ P[5] = Z[4] * Y[1] + Z[5] * Y[5] + Z[6] * Y[9]
      /\ P[6] = Z[4] * Y[2] + Z[5] * Y[6] + Z[6] * Y[10]
      /\ P[8] = Z[8] * Y[0] + Z[9] * Y[4] + Z[10] * Y[8]
      /\ P[9] = Z[8] * Y[1] + Z[9] * Y[5] + Z[10] * Y[9]
      /\ P[10] = Z[8] * Y[2] + Z[9] * Y[6] + Z[10] * Y[10]
      /\ P[3] = 0 /\ P[7] = 0 /\ P[11] = 0 /\ P[12] = 0 /\ P[13] = 0 /\ P[14] = 0
      /\ P[15] = Z[15] * Y[15]
  BY <1>2, <1>3, SpatialTimes
<1> HIDE DEF P
<1>6. /\ P[0] = E * D /\ P[1] = 25 * W /\ P[2] = -(E * T)
      /\ P[4] = -(W * D) /\ P[5] = 25 * E /\ P[6] = W * T
      /\ P[8] = 25 * T /\ P[9] = 0 /\ P[10] = 25 * D /\ P[15] = 625
  BY <1>2, <1>3, <1>5
<1>7. /\ R[0] = P[0] * X[0] + P[1] * X[4] + P[2] * X[8]
      /\ R[1] = P[0] * X[1] + P[1] * X[5] + P[2] * X[9]
      /\ R[2] = P[0] * X[2] + P[1] * X[6] + P[2] * X[10]
      /\ R[4] = P[4] * X[0] + P[5] * X[4] + P[6] * X[8]
      /\ R[5] = P[4] * X[1] + P[5] * X[5] + P[6] * X[9]
      /\ R[6] = P[4] * X[2] + P[5] * X[6] + P[6] * X[10]
      /\ R[8] = P[8] * X[0] + P[9] * X[4] + P[10] * X[8]
      /\ R[9] = P[8] * X[1] + P[9] * X[5] + P[10] * X[9]
      /\ R[10] = P[8] * X[2] + P[9] * X[6] + P[10] * X[10]
      /\ R[3] = 0 /\ R[7] = 0 /\ R[11] = 0 /\ R[12] = 0 /\ R[13] = 0 /\ R[14] = 0
      /\ R[15] = P[15] * X[15]
      /\ R = [i \in 0..15 |-> R[i]]
  BY <1>1, <1>4, <1>5, SpatialTimes
<1> HIDE DEF R
<1>8. /\ R[0] = 25 * (E * D) /\ R[4] = 25 * ((-W) * D) /\ R[8] = -(625 * (-T))
      /\ R[1] = E * (-T) * (-S) - 25 * ((-W) * C)
      /\ R[5] = (-W) * (-T) * (-S) + 25 * (E * C) /\ R[9] = 25 * (D * (-S))
      /\ R[2] = E * (-T) * C + 25 * ((-W) * (-S))
      /\ R[6] = (-W) * (-T) * C - 25 * (E * (-S)) /\ R[10] = 25 * (D * C) /\ R[15] = 15625
  BY <1>1, <1>6, <1>7
<1>9. R = XYZCounts(C, S, D, T, E, W)
  BY <1>7, <1>8, SpatialIs DEF XYZCounts
<1> QED
  BY <1>9 DEF P, R, X, Y, Z

(* Three rotations one after the other, as matrices and in one.            *)
ThreeTurns(C, S, D, T, E, W) ==
  LET x == MatrixRotateX(AngleOf(C, S))
      y == MatrixRotateY(AngleOf(D, T))
      z == MatrixRotateZ(AngleOf(E, W))
  IN  /\ Chain(x, y, z) = InCounts(ZYXCounts(C, S, D, T, E, W), Fine)
      /\ Chain(z, y, x) = InCounts(XYZCounts(C, S, D, T, E, W), Fine)

(* Both products of the three matrices, for every three angles.            *)
LEMMA ChainsAgree ==
  ASSUME ExactUnit, NEW C \in Int, NEW S \in Int, NEW D \in Int, NEW T \in Int,
         NEW E \in Int, NEW W \in Int
  PROVE  ThreeTurns(C, S, D, T, E, W)
<1> DEFINE X == AboutX(C, S)
           Y == AboutY(D, T)
           Z == AboutZ(E, W)
           u == Unit \div 25
<1>1. X \in IntMatrices /\ Y \in IntMatrices /\ Z \in IntMatrices
  BY DEF AboutX, AboutY, AboutZ, Spatial, IntMatrices
<1>2. /\ MatrixRotateX(AngleOf(C, S)) = InCounts(X, u)
      /\ MatrixRotateY(AngleOf(D, T)) = InCounts(Y, u)
      /\ MatrixRotateZ(AngleOf(E, W)) = InCounts(Z, u)
  BY RotateAboutAxes
<1>3. Composed(Composed(X, Y), Z) = ZYXCounts(C, S, D, T, E, W)
  BY ChainXYZ
<1>4. Composed(Composed(Z, Y), X) = XYZCounts(C, S, D, T, E, W)
  BY ChainZYX
<1> HIDE DEF X, Y, Z
<1>5. /\ Chain(InCounts(X, u), InCounts(Y, u), InCounts(Z, u))
           = InCounts(Composed(Composed(X, Y), Z), Fine)
      /\ Chain(InCounts(Z, u), InCounts(Y, u), InCounts(X, u))
           = InCounts(Composed(Composed(Z, Y), X), Fine)
  BY <1>1, ChainCounts
<1> HIDE DEF u
<1> QED
  BY <1>2, <1>3, <1>4, <1>5 DEF ThreeTurns

-----------------------------------------------------------------------------
(* The quaternion of three angles.                                         *)

(* Half an angle, of cosine c / 5 and sine s / 5, and the whole.           *)
HalfOf(c, s) == [cos |-> Over1(c), sin |-> Over1(s)]

(* The whole of an angle, from its half.                                   *)
LEMMA FullCounts ==
  ASSUME ExactUnit, NEW c \in Int, NEW s \in Int
  PROVE  Full(HalfOf(c, s)) = AngleOf(c * c - s * s, 2 * c * s)
<1>1. /\ Over1(c) \otimes Over1(c) = Over2(c * c) /\ Over1(s) \otimes Over1(s) = Over2(s * s)
      /\ Over1(c) \otimes Over1(s) = Over2(c * s)
  BY OverTimes
<1>2. Over2(c * c) - Over2(s * s) = Over2(c * c - s * s) /\ 2 * Over2(c * s) = Over2(2 * c * s)
  <2>1. Fine \in Int
    BY FineParts
  <2> QED
    BY <2>1 DEF Over, Over2
<1> QED
  BY <1>1, <1>2 DEF Full, HalfOf, AngleOf

(* A quaternion of counts of 1/125, and its matrix.                        *)
Thirds(x, y, z, w) == Quaternion(Over3(x), Over3(y), Over3(z), Over3(w))

(* The counts of 1/5^6 of its matrix.                                      *)
QuaternionCounts(x, y, z, w) ==
  Spatial(15625 - 2 * (y * y + z * z), 2 * (x * y - w * z), 2 * (x * z + w * y),
          2 * (x * y + w * z), 15625 - 2 * (x * x + z * z), 2 * (y * z - w * x),
          2 * (x * z - w * y), 2 * (y * z + w * x), 15625 - 2 * (x * x + y * y), 15625)

(* QuaternionToMatrix of such a quaternion.                                *)
LEMMA ThirdsTurn ==
  ASSUME ExactUnit, NEW x \in Int, NEW y \in Int, NEW z \in Int, NEW w \in Int
  PROVE  QuaternionToMatrix(Thirds(x, y, z, w)) = InCounts(QuaternionCounts(x, y, z, w), Fine)
<1> DEFINE v == -w
           T(i, j) == Over3(i) \otimes Over3(j)
           R == QuaternionToMatrix(Thirds(x, y, z, w))
<1>1. \A i, j \in Int : T(i, j) = Over(i * j)
  BY OverTimes
<1>2. -Over3(w) = Over3(v) /\ v \in Int
  BY FineParts DEF Over, Over3
<1> HIDE DEF v
<1>3. R = Turning(<<Unit - 2 * (T(y, y) + T(z, z)), 2 * (T(x, y) + T(v, z)), 2 * (T(x, z) + T(w, y))>>,
                  <<2 * (T(x, y) + T(w, z)), Unit - 2 * (T(x, x) + T(z, z)), 2 * (T(y, z) + T(v, x))>>,
                  <<2 * (T(x, z) + T(v, y)), 2 * (T(y, z) + T(w, x)), Unit - 2 * (T(x, x) + T(y, y))>>)
  BY <1>2 DEF QuaternionToMatrix, Thirds, Quaternion
<1> HIDE DEF T
<1> DEFINE xx == x * x
           yy == y * y
           zz == z * z
           xy == x * y
           xz == x * z
           yz == y * z
           wx == w * x
           wy == w * y
           wz == w * z
<1>4. /\ T(x, x) = Over(xx) /\ T(y, y) = Over(yy) /\ T(z, z) = Over(zz)
      /\ T(x, y) = Over(xy) /\ T(x, z) = Over(xz) /\ T(y, z) = Over(yz)
      /\ T(w, x) = Over(wx) /\ T(w, y) = Over(wy) /\ T(w, z) = Over(wz)
  BY <1>1
<1>5. T(v, x) = Over(-wx) /\ T(v, y) = Over(-wy) /\ T(v, z) = Over(-wz)
  <2>1. T(v, x) = Over(v * x) /\ T(v, y) = Over(v * y) /\ T(v, z) = Over(v * z)
    BY <1>1, <1>2
  <2>2. v * x = -wx /\ v * y = -wy /\ v * z = -wz
    BY DEF v
  <2> QED
    BY <2>1, <2>2
<1>6. /\ xx \in Int /\ yy \in Int /\ zz \in Int /\ xy \in Int /\ xz \in Int
      /\ yz \in Int /\ wx \in Int /\ wy \in Int /\ wz \in Int
  OBVIOUS
<1> DEFINE a == 15625 - 2 * (yy + zz)
           b == 2 * (xy - wz)
           c == 2 * (xz + wy)
           d == 2 * (xy + wz)
           e == 15625 - 2 * (xx + zz)
           f == 2 * (yz - wx)
           g == 2 * (xz - wy)
           h == 2 * (yz + wx)
           k == 15625 - 2 * (xx + yy)
<1>7. QuaternionCounts(x, y, z, w) = Spatial(a, b, c, d, e, f, g, h, k, 15625)
  BY DEF QuaternionCounts
<1> HIDE DEF R, xx, yy, zz, xy, xz, yz, wx, wy, wz
<1>8. /\ Unit - 2 * (Over(yy) + Over(zz)) = Over(a) /\ Unit - 2 * (Over(xx) + Over(zz)) = Over(e)
      /\ Unit - 2 * (Over(xx) + Over(yy)) = Over(k)
      /\ 2 * (Over(xy) + Over(-wz)) = Over(b) /\ 2 * (Over(xz) + Over(wy)) = Over(c)
      /\ 2 * (Over(xy) + Over(wz)) = Over(d) /\ 2 * (Over(yz) + Over(-wx)) = Over(f)
      /\ 2 * (Over(xz) + Over(-wy)) = Over(g) /\ 2 * (Over(yz) + Over(wx)) = Over(h)
  BY <1>6, FineParts DEF Over
<1>9. /\ a \in Int /\ b \in Int /\ c \in Int /\ d \in Int /\ e \in Int
      /\ f \in Int /\ g \in Int /\ h \in Int /\ k \in Int
  BY <1>6
<1> HIDE DEF a, b, c, d, e, f, g, h, k
<1>10. R = Turning(<<Over(a), Over(b), Over(c)>>, <<Over(d), Over(e), Over(f)>>,
                   <<Over(g), Over(h), Over(k)>>)
  BY <1>3, <1>4, <1>5, <1>8
<1>11. R = InCounts(Spatial(a, b, c, d, e, f, g, h, k, 15625), Fine)
  BY <1>9, <1>10, TurningCounts
<1> QED
  BY <1>7, <1>11 DEF R

(* QuaternionFromEuler.                                                    *)
FromHalves(a, b, c, d, e, f) ==
  Thirds(b * c * e - a * d * f, a * d * e + b * c * f,
         a * c * f - b * d * e, a * c * e + b * d * f)

MadeOfHalves(a, b, c, d, e, f) ==
  QuaternionFromEuler(HalfOf(a, b), HalfOf(c, d), HalfOf(e, f)) = FromHalves(a, b, c, d, e, f)

(* It is made of them, as the products of halves are counts of 1/125.      *)
LEMMA EulerThirds ==
  ASSUME ExactUnit, NEW a \in Int, NEW b \in Int, NEW c \in Int, NEW d \in Int,
         NEW e \in Int, NEW f \in Int
  PROVE  MadeOfHalves(a, b, c, d, e, f)
<1> DEFINE P(i, j, k) == Over1(i) \otimes Over1(j) \otimes Over1(k)
<1>1. \A i, j, k \in Int : P(i, j, k) = Over3(i * j * k)
  <2> SUFFICES ASSUME NEW i \in Int, NEW j \in Int, NEW k \in Int
               PROVE  P(i, j, k) = Over3(i * j * k)
    OBVIOUS
  <2>1. Over1(i) \otimes Over1(j) = Over2(i * j) /\ i * j \in Int
    BY OverTimes
  <2>2. Over2(i * j) \otimes Over1(k) = Over3((i * j) * k)
    BY <2>1, OverTimes, Zenon
  <2> QED
    BY <2>1, <2>2
<1>2. QuaternionFromEuler(HalfOf(a, b), HalfOf(c, d), HalfOf(e, f))
        = Quaternion(P(b, c, e) - P(a, d, f), P(a, d, e) + P(b, c, f),
                     P(a, c, f) - P(b, d, e), P(a, c, e) + P(b, d, f))
  BY DEF QuaternionFromEuler, HalfOf
<1> HIDE DEF P
<1>3. /\ P(b, c, e) = Over3(b * c * e) /\ P(a, d, f) = Over3(a * d * f)
      /\ P(a, d, e) = Over3(a * d * e) /\ P(b, c, f) = Over3(b * c * f)
      /\ P(a, c, f) = Over3(a * c * f) /\ P(b, d, e) = Over3(b * d * e)
      /\ P(a, c, e) = Over3(a * c * e) /\ P(b, d, f) = Over3(b * d * f)
  <2>1. P(b, c, e) = Over3(b * c * e) /\ P(a, d, f) = Over3(a * d * f)
    BY <1>1
  <2>2. P(a, d, e) = Over3(a * d * e) /\ P(b, c, f) = Over3(b * c * f)
    BY <1>1
  <2>3. P(a, c, f) = Over3(a * c * f) /\ P(b, d, e) = Over3(b * d * e)
    BY <1>1
  <2>4. P(a, c, e) = Over3(a * c * e) /\ P(b, d, f) = Over3(b * d * f)
    BY <1>1
  <2> QED
    BY <2>1, <2>2, <2>3, <2>4
<1>4. \A i, j \in Int : Over3(i) + Over3(j) = Over3(i + j) /\ Over3(i) - Over3(j) = Over3(i - j)
  BY FineParts DEF Over, Over3
<1> DEFINE i1 == b * c * e
           i2 == a * d * f
           i3 == a * d * e
           i4 == b * c * f
           i5 == a * c * f
           i6 == b * d * e
           i7 == a * c * e
           i8 == b * d * f
<1>5. /\ i1 \in Int /\ i2 \in Int /\ i3 \in Int /\ i4 \in Int
      /\ i5 \in Int /\ i6 \in Int /\ i7 \in Int /\ i8 \in Int
  OBVIOUS
<1> HIDE DEF i1, i2, i3, i4, i5, i6, i7, i8
<1>6. /\ Over3(i1) - Over3(i2) = Over3(i1 - i2) /\ Over3(i3) + Over3(i4) = Over3(i3 + i4)
      /\ Over3(i5) - Over3(i6) = Over3(i5 - i6) /\ Over3(i7) + Over3(i8) = Over3(i7 + i8)
  BY <1>4, <1>5, Zenon
<1> QED
  BY <1>2, <1>3, <1>6, Zenon
     DEF MadeOfHalves, FromHalves, Thirds, i1, i2, i3, i4, i5, i6, i7, i8

(* The halves have length 1.                                               *)
Triangle(c, s) == c * c + s * s = 25

(* The quaternion's matrix is that of MatrixRotateZYX.                     *)
LEMMA EulerTurns ==
  ASSUME NEW a \in Int, NEW b \in Int, NEW c \in Int, NEW d \in Int, NEW e \in Int, NEW f \in Int,
         NEW x \in Int, NEW y \in Int, NEW z \in Int, NEW w \in Int,
         x = b * c * e - a * d * f, y = a * d * e + b * c * f,
         z = a * c * f - b * d * e, w = a * c * e + b * d * f,
         Triangle(a, b), Triangle(c, d), Triangle(e, f),
         NEW C \in Int, NEW S \in Int, NEW D \in Int, NEW T \in Int, NEW E \in Int, NEW W \in Int,
         C = a * a - b * b, S = 2 * a * b, D = c * c - d * d, T = 2 * c * d,
         E = e * e - f * f, W = 2 * e * f
  PROVE  /\ 15625 - 2 * (y * y + z * z) = 25 * (E * D)
         /\ 15625 - 2 * (x * x + z * z) = 25 * (E * C) + W * T * S
         /\ 15625 - 2 * (x * x + y * y) = 25 * (D * C)
         /\ 2 * (x * y - w * z) = E * T * S - 25 * (C * W)
         /\ 2 * (x * z + w * y) = 25 * (W * S) + E * C * T
         /\ 2 * (x * y + w * z) = 25 * (D * W)
         /\ 2 * (y * z - w * x) = C * W * T - 25 * (E * S)
         /\ 2 * (x * z - w * y) = -(625 * T)
         /\ 2 * (y * z + w * x) = 25 * (D * S)
<1> DEFINE A == a * a + b * b
           B == c * c + d * d
           G == e * e + f * f
<1>1. /\ x * x + y * y + z * z + w * w = A * B * G
      /\ w * w + x * x - y * y - z * z = A * (E * D)
      /\ w * w - x * x + y * y - z * z = B * (E * C) + W * T * S
      /\ w * w - x * x - y * y + z * z = G * (D * C)
      /\ 2 * (x * y - w * z) = E * T * S - B * (C * W)
      /\ 2 * (x * z + w * y) = B * (W * S) + E * C * T
      /\ 2 * (x * y + w * z) = A * (D * W)
      /\ 2 * (y * z - w * x) = C * W * T - B * (E * S)
      /\ 2 * (x * z - w * y) = -(A * G * T)
      /\ 2 * (y * z + w * x) = G * (D * S)
  OBVIOUS
<1>2. A = 25 /\ B = 25 /\ G = 25
  BY DEF Triangle
<1> HIDE DEF A, B, G
<1>3. /\ x * x + y * y + z * z + w * w = 15625
      /\ w * w + x * x - y * y - z * z = 25 * (E * D)
      /\ w * w - x * x + y * y - z * z = 25 * (E * C) + W * T * S
      /\ w * w - x * x - y * y + z * z = 25 * (D * C)
  BY <1>1, <1>2
<1>4. /\ 2 * (x * y - w * z) = E * T * S - 25 * (C * W)
      /\ 2 * (x * z + w * y) = 25 * (W * S) + E * C * T
      /\ 2 * (x * y + w * z) = 25 * (D * W)
      /\ 2 * (y * z - w * x) = C * W * T - 25 * (E * S)
      /\ 2 * (x * z - w * y) = -(625 * T)
      /\ 2 * (y * z + w * x) = 25 * (D * S)
  BY <1>1, <1>2
<1>5. /\ 15625 - 2 * (y * y + z * z) = 25 * (E * D)
      /\ 15625 - 2 * (x * x + z * z) = 25 * (E * C) + W * T * S
      /\ 15625 - 2 * (x * x + y * y) = 25 * (D * C)
  BY <1>3
<1> QED
  BY <1>4, <1>5

(* The angles that QuaternionToEuler takes from those counts.              *)
EulerOf(x, y, z, w) ==
  [x |-> atan2f(Over(2 * (y * z + w * x)), Over(15625 - 2 * (x * x + y * y))),
   y |-> asinf(Over(-(2 * (x * z - w * y)))),
   z |-> atan2f(Over(2 * (x * y + w * z)), Over(15625 - 2 * (y * y + z * z)))]

(* QuaternionToEuler of such a quaternion.                                 *)
LEMMA ThirdsEuler ==
  ASSUME ExactUnit, NEW x \in Int, NEW y \in Int, NEW z \in Int, NEW w \in Int
  PROVE  QuaternionToEuler(Thirds(x, y, z, w)) = EulerOf(x, y, z, w)
<1> DEFINE v == -z
           T(i, j) == Over3(i) \otimes Over3(j)
<1>1. \A i, j \in Int : T(i, j) = Over(i * j)
  BY OverTimes
<1>2. -Over3(z) = Over3(v) /\ v \in Int
  BY FineParts DEF Over, Over3
<1> HIDE DEF v
<1>3. QuaternionToEuler(Thirds(x, y, z, w))
        = [x |-> atan2f(2 * (T(w, x) + T(y, z)), Unit - 2 * (T(x, x) + T(y, y))),
           y |-> asinf(2 * (T(w, y) + T(v, x))),
           z |-> atan2f(2 * (T(w, z) + T(x, y)), Unit - 2 * (T(y, y) + T(z, z)))]
  BY <1>2 DEF QuaternionToEuler, Thirds, Quaternion
<1> HIDE DEF T
<1> DEFINE xx == x * x
           yy == y * y
           zz == z * z
           xy == x * y
           xz == x * z
           yz == y * z
           wx == w * x
           wy == w * y
           wz == w * z
<1>4. /\ T(x, x) = Over(xx) /\ T(y, y) = Over(yy) /\ T(z, z) = Over(zz)
      /\ T(x, y) = Over(xy) /\ T(y, z) = Over(yz)
      /\ T(w, x) = Over(wx) /\ T(w, y) = Over(wy) /\ T(w, z) = Over(wz)
  BY <1>1
<1>5. T(v, x) = Over(-xz)
  <2>1. T(v, x) = Over(v * x)
    BY <1>1, <1>2
  <2>2. v * x = -xz
    BY DEF v
  <2> QED
    BY <2>1, <2>2
<1>6. /\ xx \in Int /\ yy \in Int /\ zz \in Int /\ xy \in Int /\ xz \in Int
      /\ yz \in Int /\ wx \in Int /\ wy \in Int /\ wz \in Int
  OBVIOUS
<1> HIDE DEF xx, yy, zz, xy, xz, yz, wx, wy, wz
<1>7. /\ 2 * (Over(wx) + Over(yz)) = Over(2 * (yz + wx))
      /\ Unit - 2 * (Over(xx) + Over(yy)) = Over(15625 - 2 * (xx + yy))
      /\ 2 * (Over(wy) + Over(-xz)) = Over(-(2 * (xz - wy)))
      /\ 2 * (Over(wz) + Over(xy)) = Over(2 * (xy + wz))
      /\ Unit - 2 * (Over(yy) + Over(zz)) = Over(15625 - 2 * (yy + zz))
  BY <1>6, FineParts DEF Over
<1>8. QuaternionToEuler(Thirds(x, y, z, w))
        = [x |-> atan2f(Over(2 * (yz + wx)), Over(15625 - 2 * (xx + yy))),
           y |-> asinf(Over(-(2 * (xz - wy)))),
           z |-> atan2f(Over(2 * (xy + wz)), Over(15625 - 2 * (yy + zz)))]
  BY <1>3, <1>4, <1>5, <1>7
<1> QED
  BY <1>8 DEF EulerOf, xx, yy, zz, xy, xz, yz, wx, wy, wz

(* The whole angle, in 25ths, has length 1.                                *)
Circle(C, S) == C * C + S * S = 625

(* D is r or its opposite, and not 0.                                      *)
Signed(D, s, r) == r \in 1..25 /\ s \in {1, -1} /\ D = s * r

(* atan2f of the sine and the cosine of an angle, each times D / 25, where *)
(* r is the absolute value of D: the angle, or its opposite.               *)
ArcTimes(D, C, S) == atan2f(Over(25 * (D * S)), Over(25 * (D * C)))

(* It is so whenever D is not 0.                                           *)
LEMMA ArcOf ==
  ASSUME ExactUnit, NEW C \in Int, NEW S \in Int, NEW D \in Int, NEW r, NEW s,
         Circle(C, S), Signed(D, s, r)
  PROVE  ArcTimes(D, C, S) = AngleOf(s * C, s * S)
<1> DEFINE F == Fine
           p == Over(25 * (D * S))
           o == Over(25 * (D * C))
           t == Over2(r)
<1> USE DEF Signed
<1>1. F \in Int /\ F > 0 /\ Unit = 15625 * F /\ Unit \in Int
  BY FineParts
<1> HIDE DEF F
<1>2. p = 25 * (D * S) * F /\ o = 25 * (D * C) * F /\ t = 625 * r * F
  BY <1>1 DEF Over, Over2, F
<1>3. p \in Int /\ o \in Int /\ t \in Int
  BY <1>1, <1>2
<1>4. t > 0 /\ t \in 0..2 * Unit
  <2>1. r * F > 0 /\ r * F <= 25 * F
    BY <1>1
  <2>2. t = 625 * (r * F) /\ r * F \in Int
    BY <1>1, <1>2
  <2> HIDE DEF t
  <2> QED
    BY <1>1, <1>3, <2>1, <2>2
<1>5. D * D = r * r
  <2>1. CASE s = 1
    BY <2>1
  <2>2. CASE s = -1
    BY <2>2
  <2> QED
    BY <2>1, <2>2
<1>6. p * p + o * o = t * t
  <2>1. p * p + o * o = 625 * (D * D) * (C * C + S * S) * (F * F)
    <3> DEFINE i == D * S
               j == D * C
    <3>1. i \in Int /\ j \in Int /\ p = 25 * i * F /\ o = 25 * j * F
      BY <1>2
    <3>2. i * i + j * j = (D * D) * (C * C + S * S)
      OBVIOUS
    <3>3. (D * D) * (C * C + S * S) \in Int
      OBVIOUS
    <3> HIDE DEF i, j, p, o
    <3>4. p * p + o * o = 625 * (i * i + j * j) * (F * F)
      BY <1>1, <3>1
    <3> QED
      BY <1>1, <3>2, <3>3, <3>4
  <2>2. t * t = 625 * (r * r) * 625 * (F * F)
    BY <1>1, <1>2
  <2> HIDE DEF p, o, t
  <2> QED
    BY <1>5, <2>1, <2>2 DEF Circle
<1>7. Root(p * p + o * o) = t
  BY <1>4, <1>6, RootIs
<1>8. ASSUME NEW X \in Int
      PROVE  Ratio(Over(25 * (D * X)), t) = Over2(s * X)
  <2> DEFINE i == Over(25 * (D * X))
             j == Over2(s * X)
  <2>1. i = 25 * (s * r * X) * F /\ j = 625 * (s * X) * F
    BY <1>1 DEF Over, Over2, F
  <2>2. i \in Int /\ j \in Int
    BY <1>1, <2>1
  <2>3. i * Unit = j * t
    BY <1>1, <1>2, <2>1
  <2> HIDE DEF i, j, t
  <2>4. Ratio(i, t) = j
    BY <1>3, <1>4, <2>2, <2>3, Quotient
  <2> QED
    BY <2>4 DEF i, j
<1>9. Ratio(p, t) = Over2(s * S) /\ Ratio(o, t) = Over2(s * C)
  BY <1>8
<1> HIDE DEF p, o, t
<1>10. atan2f(p, o) = [cos |-> Ratio(o, t), sin |-> Ratio(p, t)]
  BY <1>3, <1>4, <1>7 DEF atan2f
<1>11. atan2f(p, o) = AngleOf(s * C, s * S)
  BY <1>9, <1>10 DEF AngleOf
<1> QED
  BY <1>11 DEF ArcTimes, p, o

(* asinf of a sine whose cosine is r / 25 or its opposite.                 *)
LEMMA SineOf ==
  ASSUME ExactUnit, NEW T \in Int, NEW r \in 0..25, r * r + T * T = 625
  PROVE  asinf(Over2(T)) = AngleOf(r, T)
<1> DEFINE F == Fine
           t == Over2(r)
           o == Over2(T)
<1>1. F \in Int /\ F > 0 /\ Unit = 15625 * F /\ Unit \in Int
  BY FineParts
<1> HIDE DEF F
<1>2. t = 625 * r * F /\ o = 625 * T * F
  BY <1>1 DEF Over, Over2, F
<1>3. t \in 0..2 * Unit
  <2>1. r * F >= 0 /\ r * F <= 25 * F
    BY <1>1
  <2>2. t = 625 * (r * F) /\ r * F \in Int
    BY <1>1, <1>2
  <2> HIDE DEF t
  <2> QED
    BY <1>1, <2>1, <2>2
<1>4. Unit * Unit - o * o = t * t
  <2>1. Unit * Unit - o * o = (625 * 625) * (625 - T * T) * (F * F)
    BY <1>1, <1>2
  <2>2. t * t = (625 * 625) * (r * r) * (F * F)
    BY <1>1, <1>2
  <2>3. 625 - T * T = r * r
    OBVIOUS
  <2> QED
    BY <2>1, <2>2, <2>3
<1> HIDE DEF t, o
<1>5. asinf(o) = [cos |-> t, sin |-> o]
  BY <1>3, <1>4, RootIs DEF asinf
<1> QED
  BY <1>5 DEF AngleOf, t, o

(* Half angles of triangles have no right angle for their whole.           *)
LEMMA NoRightAngle ==
  ASSUME NEW c \in Int, NEW d \in Int, Triangle(c, d), NEW D \in Int, D = c * c - d * d,
         NEW T \in Int, T = 2 * c * d
  PROVE  \E r, s : Signed(D, s, r) /\ Circle(r, T)
<1>1. D = 2 * (c * c) - 25
  BY DEF Triangle
<1>2. D # 0
  <2>1. c * c \in Int
    OBVIOUS
  <2> DEFINE i == c * c
  <2> HIDE DEF i
  <2>2. i \in Int /\ D = 2 * i - 25
    BY <1>1, <2>1 DEF i
  <2> QED
    BY <2>2
<1>3. D * D + T * T = 625
  <2>1. D * D + T * T = (c * c + d * d) * (c * c + d * d)
    OBVIOUS
  <2> QED
    BY <2>1 DEF Triangle
<1>4. D * D <= 625
  <2>1. T * T >= 0
    OBVIOUS
  <2> QED
    BY <1>3, <2>1
<1>5. D <= 25 /\ D >= -25
  BY <1>4
<1>6. CASE D > 0
  <2>1. D \in 1..25 /\ D = 1 * D /\ D * D + T * T = 625
    BY <1>3, <1>5, <1>6
  <2>2. Signed(D, 1, D) /\ Circle(D, T)
    BY <2>1 DEF Circle, Signed
  <2> QED
    BY <2>2, Zenon
<1>7. CASE D < 0
  <2>1. -D \in 1..25 /\ D = -1 * (-D) /\ (-D) * (-D) + T * T = 625
    BY <1>3, <1>5, <1>7
  <2>2. Signed(D, -1, -D) /\ Circle(-D, T)
    BY <2>1 DEF Circle, Signed
  <2> QED
    BY <2>2, Zenon
<1> QED
  BY <1>2, <1>6, <1>7

(* The angles of QuaternionToEuler: those about x and z, or both turned by *)
(* 180 degrees, and the one about y with a cosine above 0.                 *)
LEMMA EulerFound ==
  ASSUME ExactUnit, NEW C \in Int, NEW S \in Int, NEW D \in Int, NEW T \in Int,
         NEW E \in Int, NEW W \in Int,
         NEW r, NEW s, Signed(D, s, r), Circle(r, T),
         Circle(C, S), Circle(E, W)
  PROVE  MatrixRotateZYX([x |-> atan2f(Over(25 * (D * S)), Over(25 * (D * C))),
                          y |-> asinf(Over(625 * T)),
                          z |-> atan2f(Over(25 * (D * W)), Over(25 * (D * E)))])
           = InCounts(ZYXCounts(C, S, D, T, E, W), Fine)
<1>1. ArcTimes(D, C, S) = AngleOf(s * C, s * S)
  BY ArcOf
<1>2. ArcTimes(D, E, W) = AngleOf(s * E, s * W)
  BY ArcOf
<1>3. asinf(Over(625 * T)) = AngleOf(r, T)
  BY SineOf DEF Over2, Circle, Signed
<1> DEFINE a == s * C
           b == s * S
           c == s * E
           d == s * W
<1>4. /\ a \in Int /\ b \in Int /\ c \in Int /\ d \in Int /\ r \in Int
  BY DEF Signed
<1>5. ZYXCounts(a, b, r, T, c, d) = ZYXCounts(C, S, D, T, E, W)
  <2>1. /\ c * r = E * D /\ r * d = D * W /\ r * b = D * S /\ r * a = D * C
    BY DEF Signed
  <2>2. /\ a * d = C * W /\ d * b = W * S /\ c * a = E * C /\ c * b = E * S
        /\ c * T * b = E * T * S /\ c * a * T = E * C * T /\ d * T * b = W * T * S
        /\ a * d * T = C * W * T
    <3>1. CASE s = 1
      BY <3>1
    <3>2. CASE s = -1
      BY <3>2
    <3> QED
      BY <3>1, <3>2 DEF Signed
  <2> HIDE DEF a, b, c, d
  <2> QED
    BY <2>1, <2>2 DEF ZYXCounts
<1> HIDE DEF a, b, c, d
<1>6. MatrixRotateZYX([x |-> AngleOf(a, b), y |-> AngleOf(r, T), z |-> AngleOf(c, d)])
        = InCounts(ZYXCounts(a, b, r, T, c, d), Fine)
  BY <1>4, RotateZYXCounts
<1> QED
  BY <1>1, <1>2, <1>3, <1>5, <1>6 DEF ArcTimes, a, b, c, d

(* Whatever the three angles.                                              *)
LEMMA AnglesAgree ==
  ASSUME ExactUnit, NEW a \in Int, NEW b \in Int, NEW c \in Int, NEW d \in Int,
         NEW e \in Int, NEW f \in Int, Triangle(a, b), Triangle(c, d), Triangle(e, f),
         angle.x = HalfOf(a, b), angle.y = HalfOf(c, d), angle.z = HalfOf(e, f)
  PROVE  EulerAgree
<1> DEFINE C == a * a - b * b
           S == 2 * a * b
           D == c * c - d * d
           T == 2 * c * d
           E == e * e - f * f
           W == 2 * e * f
           x == b * c * e - a * d * f
           y == a * d * e + b * c * f
           z == a * c * f - b * d * e
           w == a * c * e + b * d * f
           q1 == Thirds(x, y, z, w)
           K == ZYXCounts(C, S, D, T, E, W)
<1>1. /\ C \in Int /\ S \in Int /\ D \in Int /\ T \in Int /\ E \in Int /\ W \in Int
      /\ x \in Int /\ y \in Int /\ z \in Int /\ w \in Int
  OBVIOUS
<1>2. FullAngle = [x |-> AngleOf(C, S), y |-> AngleOf(D, T), z |-> AngleOf(E, W)]
  BY FullCounts DEF FullAngle
<1>3. QuaternionFromEuler(angle.x, angle.y, angle.z) = q1
  <2>1. MadeOfHalves(a, b, c, d, e, f)
    BY EulerThirds
  <2>2. FromHalves(a, b, c, d, e, f) = q1
    BY DEF FromHalves
  <2> HIDE DEF C, S, D, T, E, W, x, y, z, w, q1, K
  <2> QED
    BY <2>1, <2>2 DEF MadeOfHalves
<1>4. /\ 15625 - 2 * (y * y + z * z) = 25 * (E * D)
      /\ 15625 - 2 * (x * x + z * z) = 25 * (E * C) + W * T * S
      /\ 15625 - 2 * (x * x + y * y) = 25 * (D * C)
      /\ 2 * (x * y - w * z) = E * T * S - 25 * (C * W)
      /\ 2 * (x * z + w * y) = 25 * (W * S) + E * C * T
      /\ 2 * (x * y + w * z) = 25 * (D * W)
      /\ 2 * (y * z - w * x) = C * W * T - 25 * (E * S)
      /\ 2 * (x * z - w * y) = -(625 * T)
      /\ 2 * (y * z + w * x) = 25 * (D * S)
  BY <1>1, EulerTurns
<1>5. Circle(C, S) /\ Circle(E, W)
  <2>1. /\ C * C + S * S = (a * a + b * b) * (a * a + b * b)
        /\ E * E + W * W = (e * e + f * f) * (e * e + f * f)
    OBVIOUS
  <2> QED
    BY <2>1 DEF Triangle, Circle
<1>6. PICK r, s : Signed(D, s, r) /\ Circle(r, T)
  BY <1>1, NoRightAngle
<1> HIDE DEF C, S, D, T, E, W, x, y, z, w
<1>7. MatrixRotateZYX(FullAngle) = InCounts(K, Fine)
  BY <1>1, <1>2, RotateZYXCounts
<1>8. ThreeTurns(C, S, D, T, E, W)
  BY <1>1, ChainsAgree
<1>9. Chain(MatrixRotateX(FullAngle.x), MatrixRotateY(FullAngle.y), MatrixRotateZ(FullAngle.z))
        = InCounts(K, Fine)
  BY <1>2, <1>8 DEF ThreeTurns
<1>10. MatrixRotateXYZ(FullAngle)
        = Chain(MatrixRotateZ(FullAngle.z), MatrixRotateY(FullAngle.y), MatrixRotateX(FullAngle.x))
  <2>1. MatrixRotateXYZ(FullAngle) = InCounts(XYZCounts(C, S, D, T, E, W), Fine)
    BY <1>1, <1>2, RotateXYZCounts
  <2> QED
    BY <1>2, <1>8, <2>1 DEF ThreeTurns
<1>11. QuaternionToMatrix(q1) = InCounts(K, Fine)
  <2>1. QuaternionCounts(x, y, z, w) = K
    BY <1>4 DEF QuaternionCounts, ZYXCounts
  <2> QED
    BY <1>1, <2>1, ThirdsTurn
<1>12. MatrixRotateZYX(QuaternionToEuler(q1)) = InCounts(K, Fine)
  <2>1. QuaternionToEuler(q1) = EulerOf(x, y, z, w)
    BY <1>1, ThirdsEuler DEF q1
  <2>2. -(2 * (x * z - w * y)) = 625 * T /\ E * D = D * E
    BY <1>1, <1>4
  <2>3. QuaternionToEuler(q1)
          = [x |-> atan2f(Over(25 * (D * S)), Over(25 * (D * C))),
             y |-> asinf(Over(625 * T)),
             z |-> atan2f(Over(25 * (D * W)), Over(25 * (D * E)))]
    BY <1>4, <2>1, <2>2 DEF EulerOf
  <2> QED
    BY <1>1, <1>5, <1>6, <2>3, EulerFound
<1> QED
  BY <1>3, <1>7, <1>9, <1>10, <1>11, <1>12 DEF EulerAgree
-----------------------------------------------------------------------------
(* The program of Rotations.                                               *)

(* The three angles and the axis are among the choices.                    *)
Chosen == /\ angle \in [{"x", "y", "z"} -> HalfAngles]
          /\ axis \in AxesUsed

(* The invariant: the two actions choose from the same sets.               *)
LEMMA ChosenAlways == RotationsSpec => []Chosen
<1>1. RotationsInit => Chosen
  <2> SUFFICES ASSUME RotationsInit
               PROVE  Chosen
    OBVIOUS
  <2>1. /\ 5 * (Unit \div 5) = Unit /\ 25 * (Unit \div 25) = Unit
        /\ 0 * (Unit \div 5) = 0 /\ 0 * (Unit \div 25) = 0
    <3>1. ExactUnit
      BY RotationsAssumption DEF ExactUnit
    <3> QED
      BY <3>1, FineParts
  <2>2. <<5, 0>> \in Fifths /\ <<25, 0, 0>> \in Axes
    BY RotationsAssumption
  <2>3. [cos |-> 5 * (Unit \div 5), sin |-> 0 * (Unit \div 5)] \in HalfAngles
    <3> DEFINE h == <<5, 0>>
    <3>1. [cos |-> h[1] * (Unit \div 5), sin |-> h[2] * (Unit \div 5)] \in HalfAngles
      <4> HIDE DEF h
      <4> QED
        BY <2>2 DEF HalfAngles, h
    <3> QED
      BY <3>1
  <2>4. Vector(25 * (Unit \div 25), 0 * (Unit \div 25), 0 * (Unit \div 25)) \in AxesUsed
    BY <2>2 DEF AxesUsed
  <2>5. [cos |-> Unit, sin |-> 0] \in HalfAngles /\ Vector(Unit, 0, 0) \in AxesUsed
    BY <2>1, <2>3, <2>4
  <2> QED
    BY <2>5 DEF RotationsInit, Chosen
<1>2. Chosen /\ [RotationsNext]_rotationVars => Chosen'
  BY DEF Chosen, RotationsNext, rotationVars, SetAngle, SetAxis, HalfAngles, AxesUsed
<1> QED
  BY <1>1, <1>2, PTL DEF RotationsSpec

(* What a chosen angle is.                                                 *)
LEMMA ChosenAngle ==
  ASSUME Chosen, NEW i \in {"x", "y", "z"}
  PROVE  \E a \in Int, b \in Int : Triangle(a, b) /\ angle[i] = HalfOf(a, b)
<1>1. PICK h \in Fifths : angle[i] = [cos |-> h[1] * (Unit \div 5), sin |-> h[2] * (Unit \div 5)]
  BY DEF Chosen, HalfAngles
<1>2. h[1] \in Int /\ h[2] \in Int /\ h[1] * h[1] + h[2] * h[2] = 25
  BY RotationsAssumption
<1>3. Over1(h[1]) = h[1] * (Unit \div 5) /\ Over1(h[2]) = h[2] * (Unit \div 5)
  <2>1. ExactUnit
    BY RotationsAssumption DEF ExactUnit
  <2> QED
    BY <1>2, <2>1, FineParts DEF Over, Over1
<1>4. Triangle(h[1], h[2]) /\ angle[i] = HalfOf(h[1], h[2])
  BY <1>1, <1>2, <1>3 DEF Triangle, HalfOf
<1> QED
  BY <1>2, <1>4

(* MatrixRotateXYZ, MatrixRotateZYX, QuaternionFromEuler and               *)
(* QuaternionToEuler make the same rotation of three angles, whichever are *)
(* chosen in whichever order.                                              *)
THEOREM EulerAgreeHolds == RotationsSpec => []EulerAgree
<1>1. Chosen => EulerAgree
  <2> SUFFICES ASSUME Chosen
               PROVE  EulerAgree
    OBVIOUS
  <2>1. ExactUnit
    BY RotationsAssumption DEF ExactUnit
  <2>2. PICK a \in Int, b \in Int : Triangle(a, b) /\ angle.x = HalfOf(a, b)
    BY ChosenAngle
  <2>3. PICK c \in Int, d \in Int : Triangle(c, d) /\ angle.y = HalfOf(c, d)
    BY ChosenAngle
  <2>4. PICK e \in Int, f \in Int : Triangle(e, f) /\ angle.z = HalfOf(e, f)
    BY ChosenAngle
  <2> QED
    BY <2>1, <2>2, <2>3, <2>4, AnglesAgree
<1> QED
  BY <1>1, ChosenAlways, PTL
-----------------------------------------------------------------------------
(* An axis and an angle.                                                   *)

(* Whole vectors and counts.                                               *)
LEMMA UnitTimes ==
  ASSUME ExactUnit
  PROVE  \A i, j \in Int : /\ Over(j) \otimes (i * Unit) = Over(i * j)
                           /\ (i * Unit) \otimes Over(j) = Over(i * j)
                           /\ Over3(j) \otimes (i * Unit) = Over3(i * j)
<1> SUFFICES ASSUME NEW i \in Int, NEW j \in Int
             PROVE  /\ Over(j) \otimes (i * Unit) = Over(i * j)
                    /\ (i * Unit) \otimes Over(j) = Over(i * j)
                    /\ Over3(j) \otimes (i * Unit) = Over3(i * j)
  OBVIOUS
<1>1. Fine \in Int /\ Unit \in Int
  BY FineParts
<1>2. /\ j * Fine \in Int /\ i * Unit \in Int /\ (i * j) * Fine \in Int
      /\ (125 * j) * Fine \in Int /\ (125 * (i * j)) * Fine \in Int
  BY <1>1
<1>3. /\ (j * Fine) * (i * Unit) = ((i * j) * Fine) * Unit
      /\ (i * Unit) * (j * Fine) = ((i * j) * Fine) * Unit
      /\ ((125 * j) * Fine) * (i * Unit) = ((125 * (i * j)) * Fine) * Unit
  BY <1>1
<1> QED
  BY <1>2, <1>3, ExactProduct DEF Over, Over3

(* An axis of counts of 1/25.                                              *)
AxisOf(a, b, c) == Vector(Over2(a), Over2(b), Over2(c))

(* The axis of a, b and c has length k / 25 and the direction u1, u2, u3.  *)
Directed(a, b, c, k, u1, u2, u3) ==
  /\ k \in 1..50 /\ a * a + b * b + c * c = k * k
  /\ k * u1 = 25 * a /\ k * u2 = 25 * b /\ k * u3 = 25 * c

(* Its normalization.                                                      *)
LEMMA AxisNormal ==
  ASSUME ExactUnit, NEW a \in Int, NEW b \in Int, NEW c \in Int, NEW k,
         NEW u1 \in Int, NEW u2 \in Int, NEW u3 \in Int, Directed(a, b, c, k, u1, u2, u3)
  PROVE  /\ Length(AxisOf(a, b, c)) # 0
         /\ Vector3Normalize(AxisOf(a, b, c)) = AxisOf(u1, u2, u3)
<1> DEFINE F == Fine
           t == Over2(k)
<1>1. F \in Int /\ F > 0 /\ Unit = 15625 * F /\ Unit \in Int
  BY FineParts
<1>2. k \in 1..50
  BY DEF Directed
<1> HIDE DEF F
<1>3. t = 625 * k * F
  BY <1>1 DEF Over, Over2, F
<1>4. t \in 0..2 * Unit /\ t > 0
  <2>1. k * F > 0 /\ k * F <= 50 * F /\ k * F \in Int
    BY <1>1, <1>2
  <2>2. t = 625 * (k * F)
    BY <1>1, <1>2, <1>3
  <2> HIDE DEF t
  <2> QED
    BY <1>1, <2>1, <2>2
<1>5. Dot(AxisOf(a, b, c), AxisOf(a, b, c)) = Over4(k * k)
  <2>1. \A i \in Int : Over2(i) \otimes Over2(i) = Over4(i * i)
    BY OverTimes
  <2>2. Dot(AxisOf(a, b, c), AxisOf(a, b, c)) = Over4(a * a) + Over4(b * b) + Over4(c * c)
    BY <2>1 DEF Dot, AxisOf, Vector
  <2>3. Over4(a * a) + Over4(b * b) + Over4(c * c) = Over4(a * a + b * b + c * c)
    BY <1>1 DEF Over, Over4, F
  <2> QED
    BY <2>2, <2>3 DEF Directed
<1>6. Over4(k * k) * Unit = t * t
  <2>1. Over4(k * k) = 25 * (k * k) * F
    BY <1>1, <1>2 DEF Over, Over4, F
  <2> QED
    BY <1>1, <1>2, <1>3, <2>1
<1>7. Length(AxisOf(a, b, c)) = t
  BY <1>4, <1>5, <1>6, RootIs DEF Length, sqrtf
<1>8. ASSUME NEW i \in Int, NEW j \in Int, k * j = 25 * i
      PROVE  Ratio(Over2(i), t) = Over2(j)
  <2> DEFINE x == Over2(i)
             y == Over2(j)
  <2>1. x = 625 * i * F /\ y = 625 * j * F
    BY <1>1 DEF Over, Over2, F
  <2>2. x \in Int /\ y \in Int
    BY <1>1, <2>1
  <2>3. x * Unit = y * t
    <3>1. x * Unit = 625 * 625 * (25 * i) * (F * F)
      BY <1>1, <2>1
    <3>2. y * t = 625 * 625 * (k * j) * (F * F)
      BY <1>1, <1>2, <1>3, <2>1
    <3> QED
      BY <1>8, <3>1, <3>2
  <2> HIDE DEF x, y, t
  <2>4. Ratio(x, t) = y
    BY <1>4, <2>2, <2>3, Quotient
  <2> QED
    BY <2>4 DEF x, y
<1>9. /\ Ratio(Over2(a), t) = Over2(u1) /\ Ratio(Over2(b), t) = Over2(u2)
      /\ Ratio(Over2(c), t) = Over2(u3)
  BY <1>8 DEF Directed
<1> HIDE DEF t
<1>10. t # 0
  BY <1>4
<1> QED
  BY <1>7, <1>9, <1>10 DEF Vector3Normalize, AxisOf, Vector

(* A direction of length 1.                                                *)
Directions(u1, u2, u3) == u1 * u1 + u2 * u2 + u3 * u3 = 625

(* QuaternionFromAxisAngle.                                                *)
LEMMA AxisThirds ==
  ASSUME ExactUnit, NEW v, NEW u1 \in Int, NEW u2 \in Int, NEW u3 \in Int,
         NEW c \in Int, NEW s \in Int, Length(v) # 0, Vector3Normalize(v) = AxisOf(u1, u2, u3),
         Directions(u1, u2, u3), Triangle(c, s)
  PROVE  QuaternionFromAxisAngle(v, HalfOf(c, s)) = Thirds(u1 * s, u2 * s, u3 * s, 25 * c)
<1> DEFINE x == u1 * s
           y == u2 * s
           z == u3 * s
           w == 25 * c
           e == Thirds(x, y, z, w)
<1>1. x \in Int /\ y \in Int /\ z \in Int /\ w \in Int
  OBVIOUS
<1>2. x * x + y * y + z * z + w * w = 15625
  <2>1. x * x + y * y + z * z + w * w = (u1 * u1 + u2 * u2 + u3 * u3) * (s * s) + 625 * (c * c)
    OBVIOUS
  <2>2. c * c + s * s = 25 /\ c * c \in Int /\ s * s \in Int
    BY DEF Triangle
  <2>3. x * x + y * y + z * z + w * w = 625 * (s * s) + 625 * (c * c)
    BY <2>1 DEF Directions
  <2>4. 625 * (s * s) + 625 * (c * c) = 15625
    BY <2>2
  <2> QED
    BY <2>3, <2>4
<1>3. /\ Over2(u1) \otimes Over1(s) = Over3(x) /\ Over2(u2) \otimes Over1(s) = Over3(y)
      /\ Over2(u3) \otimes Over1(s) = Over3(z)
  BY OverTimes
<1>4. Over1(c) = Over3(w)
  BY FineParts DEF Over, Over1, Over3
<1> HIDE DEF x, y, z, w
<1>5. NormSquared(e) = Unit
  <2>1. /\ Over3(x) \otimes Over3(x) = Over(x * x) /\ Over3(y) \otimes Over3(y) = Over(y * y)
        /\ Over3(z) \otimes Over3(z) = Over(z * z) /\ Over3(w) \otimes Over3(w) = Over(w * w)
    BY <1>1, OverTimes
  <2>2. NormSquared(e) = Over(x * x) + Over(y * y) + Over(z * z) + Over(w * w)
    BY <2>1 DEF NormSquared, Thirds, Quaternion
  <2>3. Over(x * x) + Over(y * y) + Over(z * z) + Over(w * w)
          = Over(x * x + y * y + z * z + w * w)
    BY <1>1, FineParts DEF Over
  <2> QED
    BY <1>2, <2>2, <2>3, OverKnown
<1>6. sqrtf(Unit) = Unit
  BY UnitAssumption, RootIs DEF sqrtf
<1>7. \A i \in Int : Ratio(i, Unit) = i
  BY UnitAssumption, Quotient
<1>8. /\ Over3(x) \in Int /\ Over3(y) \in Int /\ Over3(z) \in Int /\ Over3(w) \in Int
  BY <1>1, OverInt
<1>9. QuaternionNormalize(e) = e
  <2>1. Scaled(e, Unit) = e
    BY <1>7, <1>8 DEF Scaled, Thirds, Quaternion
  <2> HIDE DEF e
  <2> QED
    BY <1>5, <1>6, <2>1, UnitAssumption DEF QuaternionNormalize
<1>10. QuaternionFromAxisAngle(v, HalfOf(c, s)) = QuaternionNormalize(e)
  BY <1>3, <1>4 DEF QuaternionFromAxisAngle, AxisOf, Vector, HalfOf, Thirds
<1> QED
  BY <1>9, <1>10 DEF x, y, z, w

(* MatrixRotate about such an axis has the counts of the quaternion.       *)
LEMMA AxisTurns ==
  ASSUME NEW u1 \in Int, NEW u2 \in Int, NEW u3 \in Int, NEW c \in Int, NEW s \in Int,
         Directions(u1, u2, u3), Triangle(c, s),
         NEW C \in Int, NEW S \in Int, C = c * c - s * s, S = 2 * c * s,
         NEW x \in Int, NEW y \in Int, NEW z \in Int, NEW w \in Int,
         x = u1 * s, y = u2 * s, z = u3 * s, w = 25 * c
  PROVE  /\ u1 * u1 * (25 - C) + 625 * C = 15625 - 2 * (y * y + z * z)
         /\ u2 * u2 * (25 - C) + 625 * C = 15625 - 2 * (x * x + z * z)
         /\ u3 * u3 * (25 - C) + 625 * C = 15625 - 2 * (x * x + y * y)
         /\ u1 * u2 * (25 - C) - 25 * (u3 * S) = 2 * (x * y - w * z)
         /\ u1 * u3 * (25 - C) + 25 * (u2 * S) = 2 * (x * z + w * y)
         /\ u2 * u1 * (25 - C) + 25 * (u3 * S) = 2 * (x * y + w * z)
         /\ u2 * u3 * (25 - C) - 25 * (u1 * S) = 2 * (y * z - w * x)
         /\ u3 * u1 * (25 - C) - 25 * (u2 * S) = 2 * (x * z - w * y)
         /\ u3 * u2 * (25 - C) + 25 * (u1 * S) = 2 * (y * z + w * x)
<1>1. 25 - C = 2 * (s * s) /\ 625 * C = 15625 - 1250 * (s * s)
  BY DEF Triangle
<1>2. /\ u1 * u1 * (2 * (s * s)) - 1250 * (s * s)
           = 2 * (s * s) * (u1 * u1 - 625)
      /\ u2 * u2 * (2 * (s * s)) - 1250 * (s * s)
           = 2 * (s * s) * (u2 * u2 - 625)
      /\ u3 * u3 * (2 * (s * s)) - 1250 * (s * s)
           = 2 * (s * s) * (u3 * u3 - 625)
  OBVIOUS
<1>3. /\ u1 * u1 - 625 = (-(u2 * u2 + u3 * u3)) /\ u2 * u2 - 625 = -(u1 * u1 + u3 * u3)
      /\ u3 * u3 - 625 = (-(u1 * u1 + u2 * u2))
  BY DEF Directions
<1>4. /\ 2 * (s * s) * (-(u2 * u2 + u3 * u3)) = -(2 * (y * y + z * z))
      /\ 2 * (s * s) * (-(u1 * u1 + u3 * u3)) = -(2 * (x * x + z * z))
      /\ 2 * (s * s) * (-(u1 * u1 + u2 * u2)) = -(2 * (x * x + y * y))
  OBVIOUS
<1>5. /\ u1 * u1 * (2 * (s * s)) - 1250 * (s * s) = -(2 * (y * y + z * z))
      /\ u2 * u2 * (2 * (s * s)) - 1250 * (s * s) = -(2 * (x * x + z * z))
      /\ u3 * u3 * (2 * (s * s)) - 1250 * (s * s) = -(2 * (x * x + y * y))
  BY <1>2, <1>3, <1>4
<1>6. /\ u1 * u1 * (25 - C) + 625 * C = 15625 - 2 * (y * y + z * z)
      /\ u2 * u2 * (25 - C) + 625 * C = 15625 - 2 * (x * x + z * z)
      /\ u3 * u3 * (25 - C) + 625 * C = 15625 - 2 * (x * x + y * y)
  <2> DEFINE A == u1 * u1 * (2 * (s * s))
             B == u2 * u2 * (2 * (s * s))
             G == u3 * u3 * (2 * (s * s))
             h == s * s
             l == 2 * (y * y + z * z)
             o == 2 * (x * x + z * z)
             n == 2 * (x * x + y * y)
  <2>1. /\ A \in Int /\ B \in Int /\ G \in Int /\ h \in Int
        /\ l \in Int /\ o \in Int /\ n \in Int
    OBVIOUS
  <2>2. /\ u1 * u1 * (25 - C) = A /\ u2 * u2 * (25 - C) = B /\ u3 * u3 * (25 - C) = G
        /\ 625 * C = 15625 - 1250 * h
    BY <1>1
  <2>3. A - 1250 * h = -l /\ B - 1250 * h = -o /\ G - 1250 * h = -n
    BY <1>5
  <2> HIDE DEF A, B, G, h, l, o, n
  <2>4. /\ A + (15625 - 1250 * h) = 15625 - l /\ B + (15625 - 1250 * h) = 15625 - o
        /\ G + (15625 - 1250 * h) = 15625 - n
    BY <2>1, <2>3
  <2> QED
    BY <2>2, <2>4 DEF l, o, n
<1>7. /\ u1 * u2 * (2 * (s * s)) - 25 * (u3 * S) = 2 * (x * y - w * z)
      /\ u1 * u3 * (2 * (s * s)) + 25 * (u2 * S) = 2 * (x * z + w * y)
      /\ u2 * u1 * (2 * (s * s)) + 25 * (u3 * S) = 2 * (x * y + w * z)
      /\ u2 * u3 * (2 * (s * s)) - 25 * (u1 * S) = 2 * (y * z - w * x)
      /\ u3 * u1 * (2 * (s * s)) - 25 * (u2 * S) = 2 * (x * z - w * y)
      /\ u3 * u2 * (2 * (s * s)) + 25 * (u1 * S) = 2 * (y * z + w * x)
  OBVIOUS
<1> QED
  BY <1>1, <1>6, <1>7

(* MatrixRotate about an axis of that direction.                           *)
LEMMA AxisMatrix ==
  ASSUME ExactUnit, NEW v, NEW u1 \in Int, NEW u2 \in Int, NEW u3 \in Int,
         Vector3Normalize(v) = AxisOf(u1, u2, u3),
         NEW C \in Int, NEW S \in Int
  PROVE  MatrixRotate(v, AngleOf(C, S))
           = InCounts(Spatial(u1 * u1 * (25 - C) + 625 * C, u1 * u2 * (25 - C) - 25 * (u3 * S),
                              u1 * u3 * (25 - C) + 25 * (u2 * S),
                              u2 * u1 * (25 - C) + 25 * (u3 * S), u2 * u2 * (25 - C) + 625 * C,
                              u2 * u3 * (25 - C) - 25 * (u1 * S),
                              u3 * u1 * (25 - C) - 25 * (u2 * S),
                              u3 * u2 * (25 - C) + 25 * (u1 * S), u3 * u3 * (25 - C) + 625 * C,
                              15625), Fine)
<1> DEFINE n == 25 - C
           P(i, j) == Over2(i) \otimes Over2(j)
           Q(i, j) == Over2(i) \otimes Over2(j) \otimes Over2(n)
           R == MatrixRotate(v, AngleOf(C, S))
           n1 == -u1
           n2 == -u2
           n3 == -u3
<1>1. n \in Int /\ n1 \in Int /\ n2 \in Int /\ n3 \in Int
  OBVIOUS
<1>2. /\ Unit - Over2(C) = Over2(n)
      /\ -Over2(u1) = Over2(n1) /\ -Over2(u2) = Over2(n2) /\ -Over2(u3) = Over2(n3)
  BY FineParts DEF Over, Over2
<1>3. n3 * S = (-(u3 * S)) /\ n2 * S = -(u2 * S) /\ n1 * S = -(u1 * S)
  OBVIOUS
<1> HIDE DEF n, n1, n2, n3
<1>4. R = Turning(<<Q(u1, u1) + Over2(C), Q(u1, u2) + P(n3, S), Q(u1, u3) + P(u2, S)>>,
                  <<Q(u2, u1) + P(u3, S), Q(u2, u2) + Over2(C), Q(u2, u3) + P(n1, S)>>,
                  <<Q(u3, u1) + P(n2, S), Q(u3, u2) + P(u1, S), Q(u3, u3) + Over2(C)>>)
  BY <1>2 DEF MatrixRotate, AxisOf, Vector, AngleOf
<1>5. \A i, j \in Int : P(i, j) = Over(25 * (i * j))
  BY OverProducts
<1>6. \A i, j \in Int : Q(i, j) = Over(i * j * n)
  BY <1>1, OverProducts
<1> HIDE DEF P, Q
<1>7. /\ Q(u1, u1) = Over(u1 * u1 * n) /\ Q(u1, u2) = Over(u1 * u2 * n) /\ Q(u1, u3) = Over(u1 * u3 * n)
      /\ Q(u2, u1) = Over(u2 * u1 * n) /\ Q(u2, u2) = Over(u2 * u2 * n) /\ Q(u2, u3) = Over(u2 * u3 * n)
      /\ Q(u3, u1) = Over(u3 * u1 * n) /\ Q(u3, u2) = Over(u3 * u2 * n) /\ Q(u3, u3) = Over(u3 * u3 * n)
  BY <1>6
<1>8. /\ P(n3, S) = Over(-(25 * (u3 * S))) /\ P(n2, S) = Over(-(25 * (u2 * S)))
      /\ P(n1, S) = Over(-(25 * (u1 * S)))
  <2>1. /\ P(n3, S) = Over(25 * (n3 * S)) /\ P(n2, S) = Over(25 * (n2 * S))
        /\ P(n1, S) = Over(25 * (n1 * S))
    BY <1>1, <1>5
  <2>2. /\ 25 * (n3 * S) = -(25 * (u3 * S)) /\ 25 * (n2 * S) = -(25 * (u2 * S))
        /\ 25 * (n1 * S) = -(25 * (u1 * S))
    BY <1>3
  <2> QED
    BY <2>1, <2>2
<1>9. /\ P(u3, S) = Over(25 * (u3 * S)) /\ P(u2, S) = Over(25 * (u2 * S))
      /\ P(u1, S) = Over(25 * (u1 * S))
  BY <1>5
<1>10. Over2(C) = Over(625 * C)
  BY DEF Over2
<1> DEFINE i1 == u1 * u1 * n
           i2 == u1 * u2 * n
           i3 == u1 * u3 * n
           i4 == u2 * u1 * n
           i5 == u2 * u2 * n
           i6 == u2 * u3 * n
           i7 == u3 * u1 * n
           i8 == u3 * u2 * n
           i9 == u3 * u3 * n
           j1 == 25 * (u1 * S)
           j2 == 25 * (u2 * S)
           j3 == 25 * (u3 * S)
           j4 == 625 * C
<1>11. /\ i1 \in Int /\ i2 \in Int /\ i3 \in Int /\ i4 \in Int /\ i5 \in Int
       /\ i6 \in Int /\ i7 \in Int /\ i8 \in Int /\ i9 \in Int
       /\ j1 \in Int /\ j2 \in Int /\ j3 \in Int /\ j4 \in Int
  BY <1>1
<1>12. R = Turning(<<Over(i1) + Over(j4), Over(i2) + Over(-j3), Over(i3) + Over(j2)>>,
                   <<Over(i4) + Over(j3), Over(i5) + Over(j4), Over(i6) + Over(-j1)>>,
                   <<Over(i7) + Over(-j2), Over(i8) + Over(j1), Over(i9) + Over(j4)>>)
  BY <1>4, <1>7, <1>8, <1>9, <1>10
<1> DEFINE T == Spatial(i1 + j4, i2 - j3, i3 + j2, i4 + j3, i5 + j4, i6 - j1,
                        i7 - j2, i8 + j1, i9 + j4, 15625)
<1>13. R = InCounts(T, Fine)
  <2> HIDE DEF R, i1, i2, i3, i4, i5, i6, i7, i8, i9, j1, j2, j3, j4
  <2>1. /\ Over(i1) + Over(j4) = Over(i1 + j4) /\ Over(i2) + Over(-j3) = Over(i2 - j3)
        /\ Over(i3) + Over(j2) = Over(i3 + j2) /\ Over(i4) + Over(j3) = Over(i4 + j3)
        /\ Over(i5) + Over(j4) = Over(i5 + j4) /\ Over(i6) + Over(-j1) = Over(i6 - j1)
        /\ Over(i7) + Over(-j2) = Over(i7 - j2) /\ Over(i8) + Over(j1) = Over(i8 + j1)
        /\ Over(i9) + Over(j4) = Over(i9 + j4)
    BY <1>11, FineParts DEF Over
  <2> DEFINE a == i1 + j4
             b == i2 - j3
             c == i3 + j2
             d == i4 + j3
             e == i5 + j4
             f == i6 - j1
             g == i7 - j2
             h == i8 + j1
             k == i9 + j4
  <2>2. /\ a \in Int /\ b \in Int /\ c \in Int /\ d \in Int /\ e \in Int
        /\ f \in Int /\ g \in Int /\ h \in Int /\ k \in Int
    BY <1>11
  <2>3. R = Turning(<<Over(a), Over(b), Over(c)>>, <<Over(d), Over(e), Over(f)>>,
                    <<Over(g), Over(h), Over(k)>>)
    BY <1>12, <2>1
  <2> HIDE DEF a, b, c, d, e, f, g, h, k
  <2>4. R = InCounts(Spatial(a, b, c, d, e, f, g, h, k, 15625), Fine)
    BY <2>2, <2>3, TurningCounts
  <2> QED
    BY <2>4 DEF a, b, c, d, e, f, g, h, k
<1> QED
  BY <1>13 DEF n

(* A matrix and a quaternion of the same axis and angle.                   *)
LEMMA AxisAngleTurn ==
  ASSUME ExactUnit, NEW v, NEW u1 \in Int, NEW u2 \in Int, NEW u3 \in Int,
         Vector3Normalize(v) = AxisOf(u1, u2, u3), Directions(u1, u2, u3),
         NEW c \in Int, NEW s \in Int, Triangle(c, s)
  PROVE  MatrixRotate(v, Full(HalfOf(c, s)))
           = InCounts(QuaternionCounts(u1 * s, u2 * s, u3 * s, 25 * c), Fine)
<1> DEFINE C == c * c - s * s
           S == 2 * c * s
           x == u1 * s
           y == u2 * s
           z == u3 * s
           w == 25 * c
<1>1. /\ C \in Int /\ S \in Int /\ x \in Int /\ y \in Int /\ z \in Int /\ w \in Int
  OBVIOUS
<1>2. Full(HalfOf(c, s)) = AngleOf(C, S)
  BY FullCounts
<1>3. /\ u1 * u1 * (25 - C) + 625 * C = 15625 - 2 * (y * y + z * z)
      /\ u2 * u2 * (25 - C) + 625 * C = 15625 - 2 * (x * x + z * z)
      /\ u3 * u3 * (25 - C) + 625 * C = 15625 - 2 * (x * x + y * y)
      /\ u1 * u2 * (25 - C) - 25 * (u3 * S) = 2 * (x * y - w * z)
      /\ u1 * u3 * (25 - C) + 25 * (u2 * S) = 2 * (x * z + w * y)
      /\ u2 * u1 * (25 - C) + 25 * (u3 * S) = 2 * (x * y + w * z)
      /\ u2 * u3 * (25 - C) - 25 * (u1 * S) = 2 * (y * z - w * x)
      /\ u3 * u1 * (25 - C) - 25 * (u2 * S) = 2 * (x * z - w * y)
      /\ u3 * u2 * (25 - C) + 25 * (u1 * S) = 2 * (y * z + w * x)
  BY <1>1, AxisTurns
<1> HIDE DEF C, S, x, y, z, w
<1>4. MatrixRotate(v, AngleOf(C, S))
        = InCounts(Spatial(u1 * u1 * (25 - C) + 625 * C, u1 * u2 * (25 - C) - 25 * (u3 * S),
                           u1 * u3 * (25 - C) + 25 * (u2 * S),
                           u2 * u1 * (25 - C) + 25 * (u3 * S), u2 * u2 * (25 - C) + 625 * C,
                           u2 * u3 * (25 - C) - 25 * (u1 * S),
                           u3 * u1 * (25 - C) - 25 * (u2 * S),
                           u3 * u2 * (25 - C) + 25 * (u1 * S), u3 * u3 * (25 - C) + 625 * C,
                           15625), Fine)
  BY <1>1, AxisMatrix
<1>5. MatrixRotate(v, AngleOf(C, S)) = InCounts(QuaternionCounts(x, y, z, w), Fine)
  BY <1>3, <1>4 DEF QuaternionCounts
<1> QED
  BY <1>2, <1>5 DEF x, y, z, w

(* Three whole numbers, and three counts.                                  *)
Whole(i, j, k)      == Vector(i * Unit, j * Unit, k * Unit)
VectorOver(a, b, c) == Vector(Over(a), Over(b), Over(c))

(* The same vector moved by the matrix of a quaternion of counts.          *)
MovedCounts(x, y, z, w, i, j, k) ==
  VectorOver(i * (15625 - 2 * (y * y + z * z)) + j * (2 * (x * y - w * z))
               + k * (2 * (x * z + w * y)),
             i * (2 * (x * y + w * z)) + j * (15625 - 2 * (x * x + z * z))
               + k * (2 * (y * z - w * x)),
             i * (2 * (x * z - w * y)) + j * (2 * (y * z + w * x))
               + k * (15625 - 2 * (x * x + y * y)))

(* Vector3Transform moves i, j, k there.                                   *)
MovedByMatrix(x, y, z, w, i, j, k) ==
  Vector3Transform(Whole(i, j, k), InCounts(QuaternionCounts(x, y, z, w), Fine))
    = MovedCounts(x, y, z, w, i, j, k)

(* So it does for every count.                                             *)
LEMMA MatrixMoves ==
  ASSUME ExactUnit, NEW x \in Int, NEW y \in Int, NEW z \in Int, NEW w \in Int,
         NEW i \in Int, NEW j \in Int, NEW k \in Int
  PROVE  MovedByMatrix(x, y, z, w, i, j, k)
<1> DEFINE a == 15625 - 2 * (y * y + z * z)
           b == 2 * (x * y - w * z)
           c == 2 * (x * z + w * y)
           d == 2 * (x * y + w * z)
           e == 15625 - 2 * (x * x + z * z)
           f == 2 * (y * z - w * x)
           g == 2 * (x * z - w * y)
           h == 2 * (y * z + w * x)
           l == 15625 - 2 * (x * x + y * y)
           M == InCounts(Spatial(a, b, c, d, e, f, g, h, l, 15625), Fine)
           v == Whole(i, j, k)
<1>1. /\ a \in Int /\ b \in Int /\ c \in Int /\ d \in Int /\ e \in Int
      /\ f \in Int /\ g \in Int /\ h \in Int /\ l \in Int
  OBVIOUS
<1>2. InCounts(QuaternionCounts(x, y, z, w), Fine) = M
  BY DEF QuaternionCounts
<1>3. MovedCounts(x, y, z, w, i, j, k)
        = VectorOver(i * a + j * b + k * c, i * d + j * e + k * f, i * g + j * h + k * l)
  BY DEF MovedCounts
<1> HIDE DEF a, b, c, d, e, f, g, h, l
<1>4. /\ M[0] = Over(a) /\ M[4] = Over(b) /\ M[8] = Over(c) /\ M[12] = 0
      /\ M[1] = Over(d) /\ M[5] = Over(e) /\ M[9] = Over(f) /\ M[13] = 0
      /\ M[2] = Over(g) /\ M[6] = Over(h) /\ M[10] = Over(l) /\ M[14] = 0
  <2>1. 0 * Fine = 0
    BY FineParts
  <2> QED
    BY <2>1 DEF InCounts, Spatial, Over
<1> HIDE DEF M
<1>5. v.x = i * Unit /\ v.y = j * Unit /\ v.z = k * Unit
  BY DEF Whole, Vector
<1> HIDE DEF v
<1>6. Vector3Transform(v, M)
        = Vector(Over(a) \otimes (i * Unit) + Over(b) \otimes (j * Unit) + Over(c) \otimes (k * Unit) + 0,
                 Over(d) \otimes (i * Unit) + Over(e) \otimes (j * Unit) + Over(f) \otimes (k * Unit) + 0,
                 Over(g) \otimes (i * Unit) + Over(h) \otimes (j * Unit) + Over(l) \otimes (k * Unit) + 0)
  BY <1>4, <1>5 DEF Vector3Transform
<1>7. /\ Over(a) \otimes (i * Unit) = Over(i * a) /\ Over(b) \otimes (j * Unit) = Over(j * b)
      /\ Over(c) \otimes (k * Unit) = Over(k * c) /\ Over(d) \otimes (i * Unit) = Over(i * d)
      /\ Over(e) \otimes (j * Unit) = Over(j * e) /\ Over(f) \otimes (k * Unit) = Over(k * f)
      /\ Over(g) \otimes (i * Unit) = Over(i * g) /\ Over(h) \otimes (j * Unit) = Over(j * h)
      /\ Over(l) \otimes (k * Unit) = Over(k * l)
  BY <1>1, UnitTimes
<1>8. /\ Over(i * a) + Over(j * b) + Over(k * c) + 0 = Over(i * a + j * b + k * c)
      /\ Over(i * d) + Over(j * e) + Over(k * f) + 0 = Over(i * d + j * e + k * f)
      /\ Over(i * g) + Over(j * h) + Over(k * l) + 0 = Over(i * g + j * h + k * l)
  BY <1>1, FineParts DEF Over
<1> QED
  BY <1>2, <1>3, <1>6, <1>7, <1>8 DEF MovedByMatrix, VectorOver, v

(* Vector3RotateByAxisAngle does.                                          *)
LEMMA AxisAngleMoves ==
  ASSUME ExactUnit, NEW v, NEW u1 \in Int, NEW u2 \in Int, NEW u3 \in Int,
         Vector3Normalize(v) = AxisOf(u1, u2, u3),
         NEW c \in Int, NEW s \in Int, NEW i \in Int, NEW j \in Int, NEW k \in Int
  PROVE  Vector3RotateByAxisAngle(Whole(i, j, k), v, HalfOf(c, s))
           = MovedCounts(u1 * s, u2 * s, u3 * s, 25 * c, i, j, k)
<1> DEFINE x == u1 * s
           y == u2 * s
           z == u3 * s
           w == 25 * c
           a == k * y - j * z
           b == i * z - k * x
           d == j * x - i * y
           u == Vector(Over3(x), Over3(y), Over3(z))
           uv == Vector(Over3(a), Over3(b), Over3(d))
           g == y * d - z * b
           h == z * a - x * d
           l == x * b - y * a
           n == 2 * c
<1>1. x \in Int /\ y \in Int /\ z \in Int /\ w \in Int
  OBVIOUS
<1>2. /\ Over2(u1) \otimes Over1(s) = Over3(x) /\ Over2(u2) \otimes Over1(s) = Over3(y)
      /\ Over2(u3) \otimes Over1(s) = Over3(z)
  BY OverTimes
<1>3. w = 25 * c
  OBVIOUS
<1> HIDE DEF x, y, z, w
<1>4. a \in Int /\ b \in Int /\ d \in Int
  BY <1>1
<1>5. Vector3CrossProduct(u, Whole(i, j, k)) = uv
  <2>1. /\ Over3(x) \otimes (j * Unit) = Over3(j * x) /\ Over3(x) \otimes (k * Unit) = Over3(k * x)
        /\ Over3(y) \otimes (i * Unit) = Over3(i * y) /\ Over3(y) \otimes (k * Unit) = Over3(k * y)
        /\ Over3(z) \otimes (i * Unit) = Over3(i * z) /\ Over3(z) \otimes (j * Unit) = Over3(j * z)
    BY <1>1, UnitTimes
  <2>2. /\ Over3(k * y) - Over3(j * z) = Over3(a) /\ Over3(i * z) - Over3(k * x) = Over3(b)
        /\ Over3(j * x) - Over3(i * y) = Over3(d)
    BY <1>1, FineParts DEF Over, Over3
  <2> HIDE DEF a, b, d
  <2> QED
    BY <2>1, <2>2 DEF Vector3CrossProduct, Whole, Vector
<1> HIDE DEF a, b, d
<1>6. g \in Int /\ h \in Int /\ l \in Int /\ n \in Int
  BY <1>1, <1>4
<1>7. Vector3CrossProduct(u, uv) = VectorOver(g, h, l)
  <2>1. /\ Over3(y) \otimes Over3(d) = Over(y * d) /\ Over3(z) \otimes Over3(b) = Over(z * b)
        /\ Over3(z) \otimes Over3(a) = Over(z * a) /\ Over3(x) \otimes Over3(d) = Over(x * d)
        /\ Over3(x) \otimes Over3(b) = Over(x * b) /\ Over3(y) \otimes Over3(a) = Over(y * a)
    BY <1>1, <1>4, OverTimes
  <2>2. /\ Over(y * d) - Over(z * b) = Over(g) /\ Over(z * a) - Over(x * d) = Over(h)
        /\ Over(x * b) - Over(y * a) = Over(l)
    BY <1>1, <1>4, FineParts DEF Over
  <2> HIDE DEF g, h, l
  <2> QED
    BY <2>1, <2>2 DEF Vector3CrossProduct, VectorOver, Vector
<1> HIDE DEF g, h, l, n
<1>8. 2 * Over1(c) = Over1(n)
  BY FineParts DEF Over, Over1, n
<1> DEFINE R(o, e, f) == o + e \otimes Over1(n) + 2 * f
<1>9. Vector3RotateByAxisAngle(Whole(i, j, k), v, HalfOf(c, s))
        = Vector(R(i * Unit, Over3(a), Over(g)), R(j * Unit, Over3(b), Over(h)),
                 R(k * Unit, Over3(d), Over(l)))
  <2>1. u = Vector(AxisOf(u1, u2, u3).x \otimes Over1(s), AxisOf(u1, u2, u3).y \otimes Over1(s),
                   AxisOf(u1, u2, u3).z \otimes Over1(s))
    BY <1>2 DEF AxisOf, Vector
  <2>2. /\ HalfOf(c, s).cos = Over1(c) /\ HalfOf(c, s).sin = Over1(s)
        /\ Whole(i, j, k).x = i * Unit /\ Whole(i, j, k).y = j * Unit
        /\ Whole(i, j, k).z = k * Unit
    BY DEF HalfOf, Whole, Vector
  <2>3. /\ uv.x = Over3(a) /\ uv.y = Over3(b) /\ uv.z = Over3(d)
        /\ VectorOver(g, h, l).x = Over(g) /\ VectorOver(g, h, l).y = Over(h)
        /\ VectorOver(g, h, l).z = Over(l)
    BY DEF VectorOver, Vector
  <2> HIDE DEF u, uv
  <2> QED
    BY <1>5, <1>7, <1>8, <2>1, <2>2, <2>3 DEF Vector3RotateByAxisAngle
<1>10. ASSUME NEW o \in Int, NEW e \in Int, NEW f \in Int
       PROVE  R(o * Unit, Over3(e), Over(f)) = Over(15625 * o + 25 * (e * n) + 2 * f)
  <2>1. Over3(e) \otimes Over1(n) = Over(25 * (e * n))
    BY <1>6, OverTimes DEF Over4
  <2>2. o * Unit + Over(25 * (e * n)) + 2 * Over(f) = Over(15625 * o + 25 * (e * n) + 2 * f)
    BY <1>6, FineParts DEF Over
  <2> QED
    BY <2>1, <2>2
<1> HIDE DEF R
<1>11. Vector3RotateByAxisAngle(Whole(i, j, k), v, HalfOf(c, s))
         = VectorOver(15625 * i + 25 * (a * n) + 2 * g, 15625 * j + 25 * (b * n) + 2 * h,
                      15625 * k + 25 * (d * n) + 2 * l)
  BY <1>4, <1>6, <1>9, <1>10 DEF VectorOver
<1>12. /\ 15625 * i + 25 * (a * n) + 2 * g
            = i * (15625 - 2 * (y * y + z * z)) + j * (2 * (x * y - w * z))
                + k * (2 * (x * z + w * y))
       /\ 15625 * j + 25 * (b * n) + 2 * h
            = i * (2 * (x * y + w * z)) + j * (15625 - 2 * (x * x + z * z))
                + k * (2 * (y * z - w * x))
       /\ 15625 * k + 25 * (d * n) + 2 * l
            = i * (2 * (x * z - w * y)) + j * (2 * (y * z + w * x))
                + k * (15625 - 2 * (x * x + y * y))
  BY <1>1, <1>3 DEF a, b, d, g, h, l, n
<1> QED
  BY <1>11, <1>12 DEF MovedCounts, x, y, z, w

(* Where a quaternion of counts moves a whole vector.                      *)
ImageX(x, y, z, w, i, j, k) ==
  i * (x * x + w * w - y * y - z * z) + j * (2 * (x * y) - 2 * (w * z))
    + k * (2 * (x * z) + 2 * (w * y))
ImageY(x, y, z, w, i, j, k) ==
  i * (2 * (w * z) + 2 * (x * y)) + j * (w * w - x * x + y * y - z * z)
    + k * (2 * (y * z) - 2 * (w * x))
ImageZ(x, y, z, w, i, j, k) ==
  i * (2 * (x * z) - 2 * (w * y)) + j * (2 * (w * x) + 2 * (y * z))
    + k * (w * w - x * x - y * y + z * z)

(* The three as a vector.                                                  *)
Image(x, y, z, w, i, j, k) ==
  VectorOver(ImageX(x, y, z, w, i, j, k), ImageY(x, y, z, w, i, j, k),
             ImageZ(x, y, z, w, i, j, k))

(* Vector3RotateByQuaternion moves i, j, k there.                          *)
MovesTo(x, y, z, w, i, j, k) ==
  Vector3RotateByQuaternion(Whole(i, j, k), Thirds(x, y, z, w)) = Image(x, y, z, w, i, j, k)

(* So it does for every count.                                             *)
LEMMA QuaternionMoves ==
  ASSUME ExactUnit, NEW x \in Int, NEW y \in Int, NEW z \in Int, NEW w \in Int,
         NEW i \in Int, NEW j \in Int, NEW k \in Int
  PROVE  MovesTo(x, y, z, w, i, j, k)
<1> DEFINE a == x * x + w * w - y * y - z * z
           b == 2 * (x * y) - 2 * (w * z)
           c == 2 * (x * z) + 2 * (w * y)
           d == 2 * (w * z) + 2 * (x * y)
           e == w * w - x * x + y * y - z * z
           f == 2 * (y * z) - 2 * (w * x)
           g == 2 * (x * z) - 2 * (w * y)
           h == 2 * (w * x) + 2 * (y * z)
           l == w * w - x * x - y * y + z * z
           v == Whole(i, j, k)
           o == Thirds(x, y, z, w)
<1>1. /\ a \in Int /\ b \in Int /\ c \in Int /\ d \in Int /\ e \in Int
      /\ f \in Int /\ g \in Int /\ h \in Int /\ l \in Int
  OBVIOUS
<1>2. Image(x, y, z, w, i, j, k)
        = VectorOver(i * a + j * b + k * c, i * d + j * e + k * f, i * g + j * h + k * l)
  BY DEF Image, ImageX, ImageY, ImageZ
<1>3. /\ o.x = Over3(x) /\ o.y = Over3(y) /\ o.z = Over3(z) /\ o.w = Over3(w)
      /\ v.x = i * Unit /\ v.y = j * Unit /\ v.z = k * Unit
  BY DEF Thirds, Quaternion, Whole, Vector
<1>4. /\ Over3(x) \otimes Over3(x) = Over(x * x) /\ Over3(y) \otimes Over3(y) = Over(y * y)
      /\ Over3(z) \otimes Over3(z) = Over(z * z) /\ Over3(w) \otimes Over3(w) = Over(w * w)
      /\ Over3(x) \otimes Over3(y) = Over(x * y) /\ Over3(x) \otimes Over3(z) = Over(x * z)
      /\ Over3(y) \otimes Over3(z) = Over(y * z) /\ Over3(w) \otimes Over3(x) = Over(w * x)
      /\ Over3(w) \otimes Over3(y) = Over(w * y) /\ Over3(w) \otimes Over3(z) = Over(w * z)
  BY OverTimes
<1>5. /\ Over(x * x) + Over(w * w) - Over(y * y) - Over(z * z) = Over(a)
      /\ 2 * Over(x * y) - 2 * Over(w * z) = Over(b)
      /\ 2 * Over(x * z) + 2 * Over(w * y) = Over(c)
      /\ 2 * Over(w * z) + 2 * Over(x * y) = Over(d)
      /\ Over(w * w) - Over(x * x) + Over(y * y) - Over(z * z) = Over(e)
      /\ 2 * Over(y * z) - 2 * Over(w * x) = Over(f)
      /\ 2 * Over(x * z) - 2 * Over(w * y) = Over(g)
      /\ 2 * Over(w * x) + 2 * Over(y * z) = Over(h)
      /\ Over(w * w) - Over(x * x) - Over(y * y) + Over(z * z) = Over(l)
  BY FineParts DEF Over
<1> HIDE DEF a, b, c, d, e, f, g, h, l, v, o
<1>6. Vector3RotateByQuaternion(v, o)
        = Vector((i * Unit) \otimes Over(a) + (j * Unit) \otimes Over(b) + (k * Unit) \otimes Over(c),
                 (i * Unit) \otimes Over(d) + (j * Unit) \otimes Over(e) + (k * Unit) \otimes Over(f),
                 (i * Unit) \otimes Over(g) + (j * Unit) \otimes Over(h) + (k * Unit) \otimes Over(l))
  BY <1>3, <1>4, <1>5 DEF Vector3RotateByQuaternion
<1>7. /\ (i * Unit) \otimes Over(a) = Over(i * a) /\ (j * Unit) \otimes Over(b) = Over(j * b)
      /\ (k * Unit) \otimes Over(c) = Over(k * c) /\ (i * Unit) \otimes Over(d) = Over(i * d)
      /\ (j * Unit) \otimes Over(e) = Over(j * e) /\ (k * Unit) \otimes Over(f) = Over(k * f)
      /\ (i * Unit) \otimes Over(g) = Over(i * g) /\ (j * Unit) \otimes Over(h) = Over(j * h)
      /\ (k * Unit) \otimes Over(l) = Over(k * l)
  BY <1>1, UnitTimes
<1>8. /\ Over(i * a) + Over(j * b) + Over(k * c) = Over(i * a + j * b + k * c)
      /\ Over(i * d) + Over(j * e) + Over(k * f) = Over(i * d + j * e + k * f)
      /\ Over(i * g) + Over(j * h) + Over(k * l) = Over(i * g + j * h + k * l)
  BY <1>1, FineParts DEF Over
<1> QED
  BY <1>2, <1>6, <1>7, <1>8 DEF MovesTo, VectorOver, v, o

(* The opposite quaternion moves it to the same place.                     *)
Sign(s) == s = 1 \/ s = -1
(* The quaternion and s times it move i, j, k to the same place.           *)
SameImage(s, x, y, z, w, i, j, k) ==
  Image(s * x, s * y, s * z, s * w, i, j, k) = Image(x, y, z, w, i, j, k)

(* A quaternion and its opposite do.                                       *)
LEMMA OppositeMoves ==
  ASSUME NEW x \in Int, NEW y \in Int, NEW z \in Int, NEW w \in Int,
         NEW i \in Int, NEW j \in Int, NEW k \in Int, NEW s \in Int, Sign(s)
  PROVE  SameImage(s, x, y, z, w, i, j, k)
<1>1. /\ (s * x) * (s * x) = x * x /\ (s * y) * (s * y) = y * y /\ (s * z) * (s * z) = z * z
      /\ (s * w) * (s * w) = w * w /\ (s * x) * (s * y) = x * y /\ (s * x) * (s * z) = x * z
      /\ (s * y) * (s * z) = y * z /\ (s * w) * (s * x) = w * x /\ (s * w) * (s * y) = w * y
      /\ (s * w) * (s * z) = w * z
  <2>1. CASE s = 1
    BY <2>1
  <2>2. CASE s = -1
    BY <2>2
  <2> QED
    BY <2>1, <2>2 DEF Sign
<1> DEFINE X == s * x
           Y == s * y
           Z == s * z
           W == s * w
<1> HIDE DEF X, Y, Z, W
<1>2. /\ X * X = x * x /\ Y * Y = y * y /\ Z * Z = z * z /\ W * W = w * w /\ X * Y = x * y
      /\ X * Z = x * z /\ Y * Z = y * z /\ W * X = w * x /\ W * Y = w * y /\ W * Z = w * z
  BY <1>1 DEF X, Y, Z, W
<1>3. Image(X, Y, Z, W, i, j, k) = Image(x, y, z, w, i, j, k)
  BY <1>2 DEF Image, ImageX, ImageY, ImageZ
<1> QED
  BY <1>3 DEF SameImage, X, Y, Z, W

(* The two products of a whole vector and one of counts.                   *)
Products(i, j, k, a, b, d) ==
  /\ Vector3CrossProduct(Whole(i, j, k), VectorOver(a, b, d))
       = VectorOver(j * d - k * b, k * a - i * d, i * b - j * a)
  /\ Unit + Dot(Whole(i, j, k), VectorOver(a, b, d)) = Over(15625 + (i * a + j * b + k * d))

(* They are so for all counts.                                             *)
LEMMA WholeAndCounts ==
  ASSUME ExactUnit, NEW i \in Int, NEW j \in Int, NEW k \in Int,
         NEW a \in Int, NEW b \in Int, NEW d \in Int
  PROVE  Products(i, j, k, a, b, d)
<1>1. /\ (j * Unit) \otimes Over(d) = Over(j * d) /\ (k * Unit) \otimes Over(b) = Over(k * b)
      /\ (k * Unit) \otimes Over(a) = Over(k * a) /\ (i * Unit) \otimes Over(d) = Over(i * d)
      /\ (i * Unit) \otimes Over(b) = Over(i * b) /\ (j * Unit) \otimes Over(a) = Over(j * a)
      /\ (i * Unit) \otimes Over(a) = Over(i * a) /\ (j * Unit) \otimes Over(b) = Over(j * b)
      /\ (k * Unit) \otimes Over(d) = Over(k * d)
  BY UnitTimes
<1>2. /\ Over(j * d) - Over(k * b) = Over(j * d - k * b)
      /\ Over(k * a) - Over(i * d) = Over(k * a - i * d)
      /\ Over(i * b) - Over(j * a) = Over(i * b - j * a)
      /\ Unit + (Over(i * a) + Over(j * b) + Over(k * d))
           = Over(15625 + (i * a + j * b + k * d))
  BY FineParts DEF Over
<1> DEFINE v == Whole(i, j, k)
           u == VectorOver(a, b, d)
<1>3. /\ v.x = i * Unit /\ v.y = j * Unit /\ v.z = k * Unit
      /\ u.x = Over(a) /\ u.y = Over(b) /\ u.z = Over(d)
  BY DEF Whole, VectorOver, Vector
<1> HIDE DEF v, u
<1>4. Vector3CrossProduct(v, u)
        = Vector(Over(j * d - k * b), Over(k * a - i * d), Over(i * b - j * a))
  BY <1>1, <1>2, <1>3 DEF Vector3CrossProduct
<1>5. Unit + Dot(v, u) = Over(15625 + (i * a + j * b + k * d))
  BY <1>1, <1>2, <1>3 DEF Dot
<1> QED
  BY <1>4, <1>5 DEF Products, VectorOver, v, u

(* c is n or its opposite, and not 0; 5X, 5Y, 5Z, 25c has length 1; what    *)
(* there is to know of the image.                                          *)
UpTo5(c, s, n) == n \in 1..5 /\ s \in {1, -1} /\ c = s * n
Spans(X, Y, Z, c) == X * X + Y * Y + Z * Z + 25 * (c * c) = 625
Pairs(i, j, k, a, b, d, X, Y, Z, c) ==
  /\ j * d - k * b = 250 * (c * X) /\ k * a - i * d = 250 * (c * Y)
  /\ i * b - j * a = 250 * (c * Z) /\ 15625 + (i * a + j * b + k * d) = 1250 * (c * c)
Found(i, j, k, a, b, d, X, Y, Z, c, s) ==
  QuaternionFromVector3ToVector3(Whole(i, j, k), VectorOver(a, b, d))
    = Thirds(s * (5 * X), s * (5 * Y), s * (5 * Z), s * (25 * c))

(* QuaternionFromVector3ToVector3 of a whole vector and its image at a, b  *)
(* and d: the quaternion 5X, 5Y, 5Z, 25c, or its opposite.                 *)
LEMMA OntoImage ==
  ASSUME ExactUnit, NEW X \in Int, NEW Y \in Int, NEW Z \in Int,
         NEW c \in Int, NEW n, NEW s, UpTo5(c, s, n),
         NEW i \in Int, NEW j \in Int, NEW k \in Int,
         NEW a \in Int, NEW b \in Int, NEW d \in Int,
         Spans(X, Y, Z, c), Pairs(i, j, k, a, b, d, X, Y, Z, c)
  PROVE  Found(i, j, k, a, b, d, X, Y, Z, c, s)
<1> DEFINE A == 250 * (c * X)
           B == 250 * (c * Y)
           D == 250 * (c * Z)
           G == 1250 * (c * c)
           F == Fine
           t == Over(6250 * n)
           o == Quaternion(Over(A), Over(B), Over(D), Over(G))
<1>1. F \in Int /\ F > 0 /\ Unit = 15625 * F /\ Unit \in Int
  BY FineParts
<1>2. A \in Int /\ B \in Int /\ D \in Int /\ G \in Int
  OBVIOUS
<1>3. QuaternionFromVector3ToVector3(Whole(i, j, k), VectorOver(a, b, d)) = QuaternionNormalize(o)
  <2> DEFINE v == Whole(i, j, k)
             u == VectorOver(a, b, d)
             e == j * d - k * b
             f == k * a - i * d
             g == i * b - j * a
             h == 15625 + (i * a + j * b + k * d)
  <2>1. /\ Vector3CrossProduct(v, u) = VectorOver(e, f, g)
        /\ Unit + Dot(v, u) = Over(h)
    <3>1. Products(i, j, k, a, b, d)
      BY WholeAndCounts
    <3> QED
      BY <3>1 DEF Products
  <2>2. e = A /\ f = B /\ g = D /\ h = G
    BY DEF Pairs
  <2> HIDE DEF A, B, D, G, v, u, e, f, g, h
  <2>3. Vector3CrossProduct(v, u) = Vector(Over(A), Over(B), Over(D)) /\ Unit + Dot(v, u) = Over(G)
    BY <2>1, <2>2 DEF VectorOver
  <2> QED
    BY <2>3 DEF QuaternionFromVector3ToVector3, Vector, v, u
<1>4. n \in 1..5 /\ s \in {1, -1} /\ c = s * n
  BY DEF UpTo5
<1>5. c * c = n * n
  <2>1. CASE s = 1
    BY <1>4, <2>1
  <2>2. CASE s = -1
    BY <1>4, <2>2
  <2> QED
    BY <1>4, <2>1, <2>2
<1>6. NormSquared(o) = Over(2500 * (n * n))
  <2> DEFINE x == 4 * (c * c) * (X * X)
             y == 4 * (c * c) * (Y * Y)
             z == 4 * (c * c) * (Z * Z)
             w == 100 * (c * c) * (c * c)
  <2>1. x \in Int /\ y \in Int /\ z \in Int /\ w \in Int
    OBVIOUS
  <2>2. A * A = 15625 * x /\ B * B = 15625 * y /\ D * D = 15625 * z /\ G * G = 15625 * w
    OBVIOUS
  <2>3. x + y + z + w = 2500 * (n * n)
    <3>1. x + y + z + w = 4 * (c * c) * (X * X + Y * Y + Z * Z + 25 * (c * c))
      OBVIOUS
    <3>2. x + y + z + w = 4 * (c * c) * 625
      BY <3>1 DEF Spans
    <3> HIDE DEF x, y, z, w
    <3> QED
      BY <1>5, <1>4, <3>2
  <2> HIDE DEF A, B, D, G, x, y, z, w
  <2>4. /\ Over(A) \otimes Over(A) = Over(x) /\ Over(B) \otimes Over(B) = Over(y)
        /\ Over(D) \otimes Over(D) = Over(z) /\ Over(G) \otimes Over(G) = Over(w)
    BY <1>2, <2>1, <2>2, FineTimes
  <2>5. NormSquared(o) = Over(x) + Over(y) + Over(z) + Over(w)
    BY <2>4 DEF NormSquared, Quaternion
  <2>6. Over(x) + Over(y) + Over(z) + Over(w) = Over(x + y + z + w)
    BY <2>1, FineParts DEF Over
  <2> QED
    BY <2>3, <2>5, <2>6
<1> HIDE DEF F
<1>7. t = 6250 * n * F
  BY DEF Over, F
<1>8. t \in 0..2 * Unit /\ t > 0
  <2>1. n * F > 0 /\ n * F <= 5 * F /\ n * F \in Int
    BY <1>1, <1>4
  <2>2. t = 6250 * (n * F)
    BY <1>1, <1>7, <1>4
  <2> HIDE DEF t
  <2> QED
    BY <1>1, <2>1, <2>2
<1>9. sqrtf(Over(2500 * (n * n))) = t
  <2>1. Over(2500 * (n * n)) * Unit = t * t
    <3>1. Over(2500 * (n * n)) = 2500 * (n * n) * F
      BY DEF Over, F
    <3> QED
      BY <1>1, <1>7, <1>4, <3>1
  <2> HIDE DEF t
  <2> QED
    BY <1>8, <2>1, RootIs DEF sqrtf
<1> DEFINE P(g) == Over(50 * (c * g))
           Q(g) == Over3(s * g)
<1>10. ASSUME NEW g \in Int
      PROVE  Ratio(P(g), t) = Q(g)
  <2> DEFINE x == P(g)
             y == Q(g)
             f == 50 * (c * g)
             h == s * g
  <2>1. x = f * F /\ y = 125 * h * F
    BY <1>1, <1>4 DEF Over, Over3, F
  <2>2. x \in Int /\ y \in Int
    BY <1>1, <1>4, <2>1
  <2>3. x * Unit = y * t
    <3> DEFINE e == s * n * g
    <3>1. x = 50 * e * F /\ e \in Int
      BY <1>4, <2>1
    <3>2. y * t = 125 * 6250 * e * (F * F)
      BY <1>1, <1>7, <1>4, <2>1
    <3> HIDE DEF x, y, t, e
    <3> QED
      BY <1>1, <3>1, <3>2
  <2> HIDE DEF x, y, t
  <2>4. Ratio(x, t) = y
    BY <1>8, <2>2, <2>3, Quotient
  <2> QED
    BY <2>4 DEF x, y
<1>11. /\ A = 50 * (c * (5 * X)) /\ B = 50 * (c * (5 * Y)) /\ D = 50 * (c * (5 * Z))
       /\ G = 50 * (c * (25 * c))
  OBVIOUS
<1> DEFINE x == s * (5 * X)
           y == s * (5 * Y)
           z == s * (5 * Z)
           w == s * (25 * c)
<1>12. /\ x \in Int /\ y \in Int /\ z \in Int /\ w \in Int
       /\ 5 * X \in Int /\ 5 * Y \in Int /\ 5 * Z \in Int /\ 25 * c \in Int
  BY <1>4
<1>13. /\ Over(A) = P(5 * X) /\ Over(B) = P(5 * Y) /\ Over(D) = P(5 * Z) /\ Over(G) = P(25 * c)
       /\ Over3(x) = Q(5 * X) /\ Over3(y) = Q(5 * Y) /\ Over3(z) = Q(5 * Z)
       /\ Over3(w) = Q(25 * c)
  BY <1>11
<1> HIDE DEF A, B, D, G, t, x, y, z, w, P, Q
<1>14. /\ Ratio(Over(A), t) = Over3(x) /\ Ratio(Over(B), t) = Over3(y)
       /\ Ratio(Over(D), t) = Over3(z) /\ Ratio(Over(G), t) = Over3(w)
  BY <1>10, <1>12, <1>13
<1>15. QuaternionNormalize(o) = Thirds(x, y, z, w)
  <2>1. Scaled(o, t) = Thirds(x, y, z, w)
    BY <1>14 DEF Scaled, Thirds, Quaternion
  <2>2. t # 0
    BY <1>8
  <2> HIDE DEF o
  <2> QED
    BY <1>6, <1>9, <2>1, <2>2 DEF QuaternionNormalize
<1> QED
  BY <1>3, <1>15 DEF Found, x, y, z, w

(* A unit vector along an axis, perpendicular to X, Y, Z.                  *)
Across(i, j, k, X, Y, Z) == \/ i = 1 /\ j = 0 /\ k = 0 /\ X = 0
                            \/ i = 0 /\ j = 1 /\ k = 0 /\ Y = 0
                            \/ i = 0 /\ j = 0 /\ k = 1 /\ Z = 0

(* The products of such a vector and its image.                            *)
LEMMA AcrossImage ==
  ASSUME NEW X \in Int, NEW Y \in Int, NEW Z \in Int, NEW c \in Int,
         Spans(X, Y, Z, c),
         NEW i \in Int, NEW j \in Int, NEW k \in Int, Across(i, j, k, X, Y, Z),
         NEW a \in Int, NEW b \in Int, NEW d \in Int,
         a = ImageX(5 * X, 5 * Y, 5 * Z, 25 * c, i, j, k),
         b = ImageY(5 * X, 5 * Y, 5 * Z, 25 * c, i, j, k),
         d = ImageZ(5 * X, 5 * Y, 5 * Z, 25 * c, i, j, k)
  PROVE  Pairs(i, j, k, a, b, d, X, Y, Z, c)
<1>1. CASE i = 1 /\ j = 0 /\ k = 0 /\ X = 0
  <2>1. /\ a = 625 * (c * c) - 25 * (Y * Y) - 25 * (Z * Z)
        /\ b = 250 * (c * Z) /\ d = -(250 * (c * Y))
    BY <1>1 DEF ImageX, ImageY, ImageZ
  <2>2. /\ j * d - k * b = 0 /\ k * a - i * d = -d /\ i * b - j * a = b
        /\ i * a + j * b + k * d = a
    BY <1>1
  <2>3. 15625 + a = 1250 * (c * c)
    BY <1>1, <2>1 DEF Spans
  <2>4. 250 * (c * X) = 0
    BY <1>1
  <2>5. j * d - k * b = 250 * (c * X)
    BY ONLY <2>1, <2>2, <2>4
  <2>6. k * a - i * d = 250 * (c * Y)
    BY ONLY <2>1, <2>2, <2>4
  <2>7. i * b - j * a = 250 * (c * Z)
    BY ONLY <2>1, <2>2, <2>4
  <2>8. 15625 + (i * a + j * b + k * d) = 1250 * (c * c)
    BY <2>2, <2>3
  <2> QED
    BY <2>5, <2>6, <2>7, <2>8 DEF Pairs
<1>2. CASE i = 0 /\ j = 1 /\ k = 0 /\ Y = 0
  <2>1. /\ b = 625 * (c * c) - 25 * (X * X) - 25 * (Z * Z)
        /\ -a = 250 * (c * Z) /\ d = 250 * (c * X)
    BY <1>2 DEF ImageX, ImageY, ImageZ
  <2>2. /\ j * d - k * b = d /\ k * a - i * d = 0 /\ i * b - j * a = -a
        /\ i * a + j * b + k * d = b
    BY <1>2
  <2>3. 15625 + b = 1250 * (c * c)
    BY <1>2, <2>1 DEF Spans
  <2>4. 250 * (c * Y) = 0
    BY <1>2
  <2>5. j * d - k * b = 250 * (c * X)
    BY ONLY <2>1, <2>2, <2>4
  <2>6. k * a - i * d = 250 * (c * Y)
    BY ONLY <2>1, <2>2, <2>4
  <2>7. i * b - j * a = 250 * (c * Z)
    BY ONLY <2>1, <2>2, <2>4
  <2>8. 15625 + (i * a + j * b + k * d) = 1250 * (c * c)
    BY <2>2, <2>3
  <2> QED
    BY <2>5, <2>6, <2>7, <2>8 DEF Pairs
<1>3. CASE i = 0 /\ j = 0 /\ k = 1 /\ Z = 0
  <2>1. /\ d = 625 * (c * c) - 25 * (X * X) - 25 * (Y * Y)
        /\ a = 250 * (c * Y) /\ b = -(250 * (c * X))
    BY <1>3 DEF ImageX, ImageY, ImageZ
  <2>2. /\ j * d - k * b = -b /\ k * a - i * d = a /\ i * b - j * a = 0
        /\ i * a + j * b + k * d = d
    BY <1>3
  <2>3. 15625 + d = 1250 * (c * c)
    BY <1>3, <2>1 DEF Spans
  <2>4. 250 * (c * Z) = 0
    BY <1>3
  <2>5. j * d - k * b = 250 * (c * X)
    BY ONLY <2>1, <2>2, <2>4
  <2>6. k * a - i * d = 250 * (c * Y)
    BY ONLY <2>1, <2>2, <2>4
  <2>7. i * b - j * a = 250 * (c * Z)
    BY ONLY <2>1, <2>2, <2>4
  <2>8. 15625 + (i * a + j * b + k * d) = 1250 * (c * c)
    BY <2>2, <2>3
  <2> QED
    BY <2>5, <2>6, <2>7, <2>8 DEF Pairs
<1> QED
  BY <1>1, <1>2, <1>3 DEF Across

(* The quaternion of a vector and its image moves the one to the other.    *)
MovedOnto(x, y, z, w, i, j, k) ==
  LET to == Image(x, y, z, w, i, j, k)
  IN  Vector3RotateByQuaternion(Whole(i, j, k),
        QuaternionFromVector3ToVector3(Whole(i, j, k), to)) = to

(* It is so when the axis is across it and the turn is not a half one.     *)
LEMMA OntoMoves ==
  ASSUME ExactUnit, NEW X \in Int, NEW Y \in Int, NEW Z \in Int,
         NEW c \in Int, c # 0, c \in -5..5,
         Spans(X, Y, Z, c),
         NEW i \in Int, NEW j \in Int, NEW k \in Int, Across(i, j, k, X, Y, Z)
  PROVE  MovedOnto(5 * X, 5 * Y, 5 * Z, 25 * c, i, j, k)
<1> DEFINE x == 5 * X
           y == 5 * Y
           z == 5 * Z
           w == 25 * c
           a == ImageX(x, y, z, w, i, j, k)
           b == ImageY(x, y, z, w, i, j, k)
           d == ImageZ(x, y, z, w, i, j, k)
<1>1. PICK n, s : UpTo5(c, s, n)
  <2>1. CASE c > 0
    <3>1. UpTo5(c, 1, c)
      BY <2>1 DEF UpTo5
    <3> QED
      BY <3>1, Zenon
  <2>2. CASE c < 0
    <3>1. UpTo5(c, -1, -c)
      BY <2>2 DEF UpTo5
    <3> QED
      BY <3>1, Zenon
  <2> QED
    BY <2>1, <2>2
<1>2. a \in Int /\ b \in Int /\ d \in Int
  BY DEF ImageX, ImageY, ImageZ
<1>3. Pairs(i, j, k, a, b, d, X, Y, Z, c)
  BY <1>2, AcrossImage
<1>4. Image(x, y, z, w, i, j, k) = VectorOver(a, b, d)
  BY DEF Image
<1> HIDE DEF a, b, d
<1> DEFINE X1 == s * x
           Y1 == s * y
           Z1 == s * z
           W1 == s * w
<1>5. QuaternionFromVector3ToVector3(Whole(i, j, k), VectorOver(a, b, d)) = Thirds(X1, Y1, Z1, W1)
  <2>1. Found(i, j, k, a, b, d, X, Y, Z, c, s)
    BY <1>1, <1>2, <1>3, OntoImage
  <2> QED
    BY <2>1 DEF Found
<1>6. /\ x \in Int /\ y \in Int /\ z \in Int /\ w \in Int /\ s \in Int /\ Sign(s)
      /\ X1 \in Int /\ Y1 \in Int /\ Z1 \in Int /\ W1 \in Int
  BY <1>1 DEF UpTo5, Sign
<1> HIDE DEF x, y, z, w
<1>7. SameImage(s, x, y, z, w, i, j, k)
  BY <1>6, OppositeMoves
<1>8. Image(X1, Y1, Z1, W1, i, j, k) = Image(x, y, z, w, i, j, k)
  BY <1>7 DEF SameImage
<1> HIDE DEF X1, Y1, Z1, W1
<1>9. Vector3RotateByQuaternion(Whole(i, j, k), Thirds(X1, Y1, Z1, W1))
        = Image(X1, Y1, Z1, W1, i, j, k)
  <2>1. MovesTo(X1, Y1, Z1, W1, i, j, k)
    BY <1>6, QuaternionMoves
  <2> QED
    BY <2>1 DEF MovesTo
<1>10. Vector3RotateByQuaternion(Whole(i, j, k),
         QuaternionFromVector3ToVector3(Whole(i, j, k), VectorOver(a, b, d)))
         = Image(x, y, z, w, i, j, k)
  BY <1>5, <1>8, <1>9
<1> QED
  BY <1>4, <1>10 DEF MovedOnto, x, y, z, w

(* A direction has length 1.                                               *)
LEMMA DirectionLength ==
  ASSUME NEW a \in Int, NEW b \in Int, NEW d \in Int, NEW k,
         NEW u1 \in Int, NEW u2 \in Int, NEW u3 \in Int, Directed(a, b, d, k, u1, u2, u3)
  PROVE  Directions(u1, u2, u3)
<1> DEFINE n == u1 * u1 + u2 * u2 + u3 * u3
           h == k * k
<1>1. k \in 1..50 /\ n \in Int /\ h \in Int /\ h > 0
  BY DEF Directed
<1>2. h * n = h * 625
  <2>1. h * n = (k * u1) * (k * u1) + (k * u2) * (k * u2) + (k * u3) * (k * u3)
    BY <1>1
  <2>2. (25 * a) * (25 * a) + (25 * b) * (25 * b) + (25 * d) * (25 * d)
          = 625 * (a * a + b * b + d * d)
    OBVIOUS
  <2>3. h * n = 625 * (a * a + b * b + d * d)
    BY <2>1, <2>2 DEF Directed
  <2>4. a * a + b * b + d * d = h
    BY DEF Directed
  <2> HIDE DEF h, n
  <2> QED
    BY <1>1, <2>3, <2>4
<1> HIDE DEF h, n
<1>3. n = 625
  BY <1>1, <1>2
<1> QED
  BY <1>3 DEF Directions, n

(* A direction in a plane of coordinates is one of fifths.                 *)
InFifths(a, b, d, u1, u2, u3) ==
  0 \in {a, b, d} => \E P, Q, R \in Int : u1 = 5 * P /\ u2 = 5 * Q /\ u3 = 5 * R

(* The third part of AxisAgree, for one vector.                            *)
LEMMA AcrossAgrees ==
  ASSUME ExactUnit, NEW a \in Int, NEW b \in Int, NEW d \in Int, NEW k,
         NEW u1 \in Int, NEW u2 \in Int, NEW u3 \in Int, Directed(a, b, d, k, u1, u2, u3),
         InFifths(a, b, d, u1, u2, u3),
         NEW c \in Int, NEW s \in Int, Triangle(c, s),
         NEW f \in Int, NEW g \in Int, NEW h \in Int, Across(f, g, h, a, b, d),
         Dot(Whole(f, g, h), Image(u1 * s, u2 * s, u3 * s, 25 * c, f, g, h)) # -Unit
  PROVE  MovedOnto(u1 * s, u2 * s, u3 * s, 25 * c, f, g, h)
<1>1. 0 \in {a, b, d} /\ Across(f, g, h, u1, u2, u3)
  BY DEF Across, Directed
<1>2. PICK P, Q, R \in Int : u1 = 5 * P /\ u2 = 5 * Q /\ u3 = 5 * R
  BY <1>1 DEF InFifths
<1> DEFINE X == P * s
           Y == Q * s
           Z == R * s
<1>3. X \in Int /\ Y \in Int /\ Z \in Int
  OBVIOUS
<1>4. u1 * s = 5 * X /\ u2 * s = 5 * Y /\ u3 * s = 5 * Z
  BY <1>2
<1>5. Across(f, g, h, X, Y, Z)
  BY <1>1, <1>2 DEF Across
<1>6. Spans(X, Y, Z, c)
  <2>1. P * P + Q * Q + R * R = 25
    <3>1. u1 * u1 + u2 * u2 + u3 * u3 = 25 * (P * P + Q * Q + R * R)
      BY <1>2
    <3>2. u1 * u1 + u2 * u2 + u3 * u3 = 625
      BY DirectionLength DEF Directions
    <3> DEFINE n == P * P + Q * Q + R * R
    <3>3. n \in Int
      OBVIOUS
    <3>4. 25 * n = 625
      BY <3>1, <3>2
    <3> HIDE DEF n
    <3>5. n = 25
      BY <3>3, <3>4
    <3> QED
      BY <3>5 DEF n
  <2>2. X * X + Y * Y + Z * Z + 25 * (c * c)
          = (P * P + Q * Q + R * R) * (s * s) + 25 * (c * c)
    OBVIOUS
  <2>3. c * c \in Int /\ s * s \in Int /\ c * c + s * s = 25
    BY DEF Triangle
  <2>4. 25 * (s * s) + 25 * (c * c) = 625
    BY <2>3
  <2>5. X * X + Y * Y + Z * Z + 25 * (c * c) = 25 * (s * s) + 25 * (c * c)
    BY <2>1, <2>2
  <2> QED
    BY <2>4, <2>5 DEF Spans
<1> HIDE DEF X, Y, Z
<1>7. c \in -5..5
  <2>1. c * c <= 25
    <3>1. s * s >= 0
      OBVIOUS
    <3> QED
      BY <3>1 DEF Triangle
  <2> QED
    BY <2>1
<1>8. c # 0
  <2> SUFFICES ASSUME c = 0
               PROVE  FALSE
    OBVIOUS
  <2> DEFINE i == ImageX(5 * X, 5 * Y, 5 * Z, 25 * c, f, g, h)
             j == ImageY(5 * X, 5 * Y, 5 * Z, 25 * c, f, g, h)
             l == ImageZ(5 * X, 5 * Y, 5 * Z, 25 * c, f, g, h)
  <2>1. i \in Int /\ j \in Int /\ l \in Int
    BY <1>3 DEF ImageX, ImageY, ImageZ
  <2>2. Pairs(f, g, h, i, j, l, X, Y, Z, c)
    BY <1>3, <1>5, <1>6, <2>1, AcrossImage
  <2>3. Image(u1 * s, u2 * s, u3 * s, 25 * c, f, g, h) = VectorOver(i, j, l)
    BY <1>4 DEF Image
  <2> HIDE DEF i, j, l
  <2> DEFINE n == 15625 + (f * i + g * j + h * l)
             v == Dot(Whole(f, g, h), VectorOver(i, j, l))
             o == f * i + g * j + h * l
  <2>4. n = 0
    BY <2>1, <2>2 DEF Pairs
  <2>5. Unit + v = Over(n)
    <3>1. Products(f, g, h, i, j, l)
      BY <2>1, WholeAndCounts
    <3> QED
      BY <3>1 DEF Products
  <2>6. v \in Int
    <3>1. \A e, y \in Int : (e * Unit) \otimes Over(y) = Over(e * y)
      BY UnitTimes
    <3>2. /\ (f * Unit) \otimes Over(i) = Over(f * i) /\ (g * Unit) \otimes Over(j) = Over(g * j)
          /\ (h * Unit) \otimes Over(l) = Over(h * l)
      BY <2>1, <3>1
    <3>3. v = Over(f * i) + Over(g * j) + Over(h * l)
      BY <3>2 DEF Dot, Whole, VectorOver, Vector
    <3> QED
      BY <2>1, <3>3, FineParts DEF Over
  <2> HIDE DEF v, n
  <2>7. Unit + v = 0
    BY <2>4, <2>5, OverKnown
  <2>8. v = -Unit
    BY <2>6, <2>7, UnitAssumption
  <2> QED
    BY <2>3, <2>8 DEF v
<1> QED
  <2>1. MovedOnto(5 * X, 5 * Y, 5 * Z, 25 * c, f, g, h)
    BY <1>3, <1>5, <1>6, <1>7, <1>8, OntoMoves
  <2> QED
    BY <1>4, <2>1

(* Whatever the axis and the angle.                                        *)
LEMMA AxesAgree ==
  ASSUME ExactUnit, NEW a \in Int, NEW b \in Int, NEW d \in Int, NEW k,
         NEW u1 \in Int, NEW u2 \in Int, NEW u3 \in Int, Directed(a, b, d, k, u1, u2, u3),
         InFifths(a, b, d, u1, u2, u3),
         NEW c \in Int, NEW s \in Int, Triangle(c, s),
         axis = AxisOf(a, b, d), angle.x = HalfOf(c, s)
  PROVE  AxisAgree
<1> DEFINE x == u1 * s
           y == u2 * s
           z == u3 * s
           w == 25 * c
           turn == MatrixRotate(axis, FullAngle.x)
           e == QuaternionFromAxisAngle(axis, angle.x)
<1>1. Directions(u1, u2, u3)
  BY DirectionLength
<1>2. Length(axis) # 0 /\ Vector3Normalize(axis) = AxisOf(u1, u2, u3)
  BY AxisNormal
<1>3. e = Thirds(x, y, z, w)
  BY <1>1, <1>2, AxisThirds
<1>4. turn = InCounts(QuaternionCounts(x, y, z, w), Fine)
  <2>1. MatrixRotate(axis, Full(HalfOf(c, s))) = InCounts(QuaternionCounts(x, y, z, w), Fine)
    <3> HIDE DEF turn, e
    <3> QED
      BY <1>1, <1>2, AxisAngleTurn
  <2> QED
    BY <2>1 DEF FullAngle
<1>5. x \in Int /\ y \in Int /\ z \in Int /\ w \in Int
  OBVIOUS
<1>6. turn = QuaternionToMatrix(e)
  <2> HIDE DEF x, y, z, w, turn, e
  <2> QED
    BY <1>3, <1>4, <1>5, ThirdsTurn
<1>7. ASSUME NEW v \in [x : {Unit}, y : {0, Unit}, z : {-Unit}]
      PROVE  Vector3RotateByAxisAngle(v, axis, angle.x) = Vector3Transform(v, turn)
  <2>1. PICK j \in {0, 1} : v = Whole(1, j, -1)
    <3>1. 1 * Unit = Unit /\ 0 * Unit = 0 /\ (-1) * Unit = -Unit
      BY UnitAssumption
    <3>2. v = Vector(Unit, v.y, -Unit) /\ v.y \in {0, Unit}
      BY DEF Vector
    <3>3. v = Whole(1, 0, -1) \/ v = Whole(1, 1, -1)
      BY <3>1, <3>2 DEF Whole
    <3> QED
      BY <3>3
  <2> DEFINE i == 1
             k1 == -1
  <2>2. i \in Int /\ j \in Int /\ k1 \in Int
    OBVIOUS
  <2> HIDE DEF i, k1
  <2>3. Vector3RotateByAxisAngle(Whole(i, j, k1), axis, HalfOf(c, s))
          = MovedCounts(x, y, z, w, i, j, k1)
    BY <1>2, <2>2, AxisAngleMoves
  <2>4. Vector3Transform(Whole(i, j, k1), turn) = MovedCounts(x, y, z, w, i, j, k1)
    <3> HIDE DEF x, y, z, w, turn
    <3>1. MovedByMatrix(x, y, z, w, i, j, k1)
      BY <1>5, <2>2, MatrixMoves
    <3> QED
      BY <1>4, <3>1 DEF MovedByMatrix
  <2> HIDE DEF x, y, z, w, turn
  <2> QED
    BY <2>1, <2>3, <2>4 DEF i, k1
<1>8. ASSUME NEW v \in Cardinal,
             Dot(v, axis) = 0, Dot(v, Vector3RotateByQuaternion(v, e)) # -Unit
      PROVE  Vector3RotateByQuaternion(v,
               QuaternionFromVector3ToVector3(v, Vector3RotateByQuaternion(v, e)))
               = Vector3RotateByQuaternion(v, e)
  <2>1. PICK f \in Int, g \in Int, h \in Int :
          v = Whole(f, g, h) /\ <<f, g, h>> \in {<<1, 0, 0>>, <<0, 1, 0>>, <<0, 0, 1>>}
    <3>1. 1 * Unit = Unit /\ 0 * Unit = 0
      BY UnitAssumption
    <3>2. v \in {Whole(1, 0, 0), Whole(0, 1, 0), Whole(0, 0, 1)}
      BY <3>1 DEF Cardinal, Whole
    <3> QED
      BY <3>2
  <2>2. f * a + g * b + h * d = 0
    <3>1. \A i, j \in Int : (i * Unit) \otimes Over(j) = Over(i * j)
      BY UnitTimes
    <3> DEFINE A == 625 * a
               B == 625 * b
               D == 625 * d
    <3>2. A \in Int /\ B \in Int /\ D \in Int
      OBVIOUS
    <3> HIDE DEF A, B, D
    <3>3. /\ (f * Unit) \otimes Over(A) = Over(f * A) /\ (g * Unit) \otimes Over(B) = Over(g * B)
          /\ (h * Unit) \otimes Over(D) = Over(h * D)
      BY <3>1, <3>2
    <3>4. Dot(v, axis) = Over(f * (625 * a)) + Over(g * (625 * b)) + Over(h * (625 * d))
      BY <2>1, <3>3 DEF Dot, Whole, AxisOf, Vector, Over2, A, B, D
    <3>5. Over(f * (625 * a)) + Over(g * (625 * b)) + Over(h * (625 * d))
            = 625 * (f * a + g * b + h * d) * Fine
      BY FineParts DEF Over
    <3> DEFINE n == f * a + g * b + h * d
    <3>6. n \in Int
      OBVIOUS
    <3>7. 625 * n * Fine = 0
      BY <1>8, <3>4, <3>5
    <3> HIDE DEF n
    <3>8. n = 0
      BY <3>6, <3>7, FineParts
    <3> QED
      BY <3>8 DEF n
  <2>3. Across(f, g, h, a, b, d)
    BY <2>1, <2>2 DEF Across
  <2>4. MovesTo(x, y, z, w, f, g, h)
    <3> HIDE DEF x, y, z, w
    <3> QED
      BY <1>5, QuaternionMoves
  <2>5. Vector3RotateByQuaternion(v, e) = Image(x, y, z, w, f, g, h)
    BY <1>3, <2>1, <2>4 DEF MovesTo
  <2>6. Dot(Whole(f, g, h), Image(x, y, z, w, f, g, h)) # -Unit
    BY <1>8, <2>1, <2>5
  <2>7. MovedOnto(x, y, z, w, f, g, h)
    BY <2>3, <2>6, AcrossAgrees
  <2> HIDE DEF x, y, z, w, e
  <2> QED
    BY <2>1, <2>5, <2>7 DEF MovedOnto
<1> HIDE DEF turn, e
<1> QED
  BY <1>6, <1>7, <1>8 DEF AxisAgree, turn, e

(* What the chosen axis is.                                                *)
LEMMA ChosenAxis ==
  ASSUME Chosen
  PROVE  \E a, b, d, u1, u2, u3 \in Int, k \in 1..50 :
           /\ Directed(a, b, d, k, u1, u2, u3) /\ InFifths(a, b, d, u1, u2, u3)
           /\ axis = AxisOf(a, b, d)
<1>1. PICK o \in Axes :
        axis = Vector(o[1] * (Unit \div 25), o[2] * (Unit \div 25), o[3] * (Unit \div 25))
  BY DEF Chosen, AxesUsed
<1> DEFINE a == o[1]
           b == o[2]
           d == o[3]
<1>2. a \in Int /\ b \in Int /\ d \in Int
  <2>1. Axes \subseteq Int \X Int \X Int
    BY RotationsAssumption
  <2> QED
    BY <2>1
<1>3. PICK k \in 1..50 :
        /\ a * a + b * b + d * d = k * k
        /\ \A i \in 1..3 : (25 * o[i]) % k = 0
        /\ 0 \in {a, b, d} => \A i \in 1..3 : (5 * o[i]) % k = 0
  <2>1. Divisible(o)
    BY RotationsAssumption
  <2> QED
    BY <2>1, Zenon DEF Divisible
<1>4. /\ (25 * a) % k = 0 /\ (25 * b) % k = 0 /\ (25 * d) % k = 0
      /\ 0 \in {a, b, d} => (5 * a) % k = 0 /\ (5 * b) % k = 0 /\ (5 * d) % k = 0
  BY <1>3
<1>5. axis = AxisOf(a, b, d)
  <2>1. ExactUnit
    BY RotationsAssumption DEF ExactUnit
  <2>2. \A i \in Int : i * (Unit \div 25) = Over2(i)
    BY <2>1, FineParts DEF Over, Over2
  <2> QED
    BY <1>1, <1>2, <2>2 DEF AxisOf
<1> HIDE DEF a, b, d
<1> DEFINE u1 == (25 * a) \div k
           u2 == (25 * b) \div k
           u3 == (25 * d) \div k
<1>6. /\ u1 \in Int /\ u2 \in Int /\ u3 \in Int
      /\ k * u1 = 25 * a /\ k * u2 = 25 * b /\ k * u3 = 25 * d
  BY <1>2, <1>4
<1> HIDE DEF u1, u2, u3
<1>7. Directed(a, b, d, k, u1, u2, u3)
  BY <1>3, <1>6 DEF Directed
<1>8. InFifths(a, b, d, u1, u2, u3)
  <2> SUFFICES ASSUME 0 \in {a, b, d}
               PROVE  \E P, Q, R \in Int : u1 = 5 * P /\ u2 = 5 * Q /\ u3 = 5 * R
    BY DEF InFifths
  <2>1. ASSUME NEW i \in Int, (5 * i) % k = 0, NEW j \in Int, k * j = 25 * i
        PROVE  \E P \in Int : j = 5 * P
    <3> DEFINE P == (5 * i) \div k
    <3>1. P \in Int /\ k * P = 5 * i
      BY <2>1
    <3> HIDE DEF P
    <3>2. k * (5 * P) = k * j
      <4>1. k * (5 * P) = 5 * (k * P)
        BY <3>1
      <4> QED
        BY <2>1, <3>1, <4>1
    <3>3. j = 5 * P
      BY <2>1, <3>1, <3>2
    <3> QED
      BY <3>1, <3>3
  <2>2. PICK P \in Int : u1 = 5 * P
    BY <1>2, <1>4, <1>6, <2>1
  <2>3. PICK Q \in Int : u2 = 5 * Q
    BY <1>2, <1>4, <1>6, <2>1
  <2>4. PICK R \in Int : u3 = 5 * R
    BY <1>2, <1>4, <1>6, <2>1
  <2> QED
    BY <2>2, <2>3, <2>4
<1> QED
  BY <1>2, <1>5, <1>6, <1>7, <1>8

(* MatrixRotate, QuaternionFromAxisAngle and Vector3RotateByAxisAngle make *)
(* the same rotation of an axis and an angle, whatever the length of the   *)
(* axis; and QuaternionFromVector3ToVector3 of a vector and what the       *)
(* rotation makes of it moves the one to the other.                        *)
THEOREM AxisAgreeHolds == RotationsSpec => []AxisAgree
<1>1. Chosen => AxisAgree
  <2> SUFFICES ASSUME Chosen
               PROVE  AxisAgree
    OBVIOUS
  <2>1. ExactUnit
    BY RotationsAssumption DEF ExactUnit
  <2>2. PICK c \in Int, s \in Int : Triangle(c, s) /\ angle.x = HalfOf(c, s)
    BY ChosenAngle
  <2>3. PICK a, b, d, u1, u2, u3 \in Int, k \in 1..50 :
          /\ Directed(a, b, d, k, u1, u2, u3) /\ InFifths(a, b, d, u1, u2, u3)
          /\ axis = AxisOf(a, b, d)
    BY ChosenAxis
  <2> QED
    BY <2>1, <2>2, <2>3, AxesAgree
<1> QED
  BY <1>1, ChosenAlways, PTL
=============================================================================
