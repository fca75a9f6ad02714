-------------------------------- MODULE Pose --------------------------------
(***************************************************************************)
(* A body moved with raymath.h, its attitude kept twice: as a quaternion   *)
(* and in the matrix that takes its own coordinates to the world's.  Each  *)
(* step makes the same motion through the functions on quaternions and     *)
(* through those on matrices.  The quaternions are the 24 Hurwitz units,   *)
(* whose matrices are exact.                                               *)
(***************************************************************************)
EXTENDS RayMath

CONSTANTS
  MaxOffset   \* bound on the coordinates of the body

ASSUME PoseAssumption == Unit % 16 = 0 /\ MaxOffset \in Nat

VARIABLES
  q,   \* the attitude
  m    \* attitude and place

vars == <<q, m>>

Half == Unit \div 2

Quaternions(S) == [x : S, y : S, z : S, w : S]
Attitudes == {r \in Quaternions({-Half, Half}) \cup Quaternions({-Unit, 0, Unit}) :
                NormSquared(r) = Unit}

Coordinates == {k * Unit : k \in -MaxOffset..MaxOffset}
Points == [x : {-Unit, 0, Unit}, y : {-Unit, Unit}, z : {-2 * Unit, -Unit}]

Place(mat) == Vector(mat[12], mat[13], mat[14])

Init == /\ q = Quaternion(0, 0, 0, Unit)
        /\ m = MatrixIdentity(Unit)

(* About the axes of the world: the new rotation is the left factor of the *)
(* quaternions and the right one of the matrices.                          *)
Swing(r) == /\ q' = QuaternionMultiply(r, q)
            /\ m' = MatrixMultiply(m, QuaternionToMatrix(r))

(* About the axes of the body.                                             *)
Turn(r) == /\ q' = QuaternionMultiply(q, r)
           /\ m' = MatrixMultiply(QuaternionToMatrix(r), m)

Move(v) == /\ m' = MatrixMultiply(m, MatrixTranslate(v.x, v.y, v.z))
           /\ Place(m') \in [x : Coordinates, y : Coordinates, z : Coordinates]
           /\ UNCHANGED q

(* The world as the body sees it.                                          *)
Undo == /\ q' = QuaternionInvert(q)
        /\ m' = MatrixInvert(m)

Reread == /\ q' = QuaternionFromMatrix(m)
          /\ UNCHANGED m

Steps == {Vector(Unit, 0, 0), Vector(0, -Unit, 0), Vector(0, 0, Unit)}

Next == \/ \E r \in Attitudes : Swing(r) \/ Turn(r)
        \/ \E v \in Steps : Move(v)
        \/ Undo
        \/ Reread

Spec == Init /\ [][Next]_vars

----------------------------------------------------------------------------
(* However the motions were put together, the matrix takes every point     *)
(* where the quaternion and the place take it: the two libraries of        *)
(* rotations in raymath.h agree on handedness and on order.                *)
PointsAgree ==
  \A p \in Points :
    LET r == Vector3RotateByQuaternion(p, q)
    IN  Vector3Transform(p, m) = Vector(r.x + m[12], r.y + m[13], r.z + m[14])

(* A camera that stands where the body stands and looks along the body's   *)
(* -z with its y up gets from MatrixLookAt the inverse of the body's       *)
(* matrix.                                                                 *)
Camera ==
  LET up == Vector3Transform(Vector(0, Unit, 0), m)
  IN  MatrixLookAt(Place(m), Vector3Transform(Vector(0, 0, -Unit), m),
                   Minus(up, Place(m)))

ViewUndoes == Camera = MatrixInvert(m)

Projections == {MatrixFrustum(-Unit, Unit, -Unit, Unit, Unit, 2 * Unit),
                MatrixOrtho(-2 * Unit, 2 * Unit, -Unit, Unit, Unit, 3 * Unit)}

(* What the camera projects, Vector3Unproject takes back to where it was:  *)
(* both of its initializers put rows for columns, and the two mistakes     *)
(* undo each other.                                                        *)
ProjectionUndone ==
  \A projection \in Projections, v \in Points :
    LET p == Vector3Transform(v, m)
        c == QuaternionTransform(
               QuaternionTransform(Quaternion(p.x, p.y, p.z, Unit), Camera),
               projection)
        screen == Vector(Ratio(c.x, c.w), Ratio(c.y, c.w), Ratio(c.z, c.w))
    IN  Vector3Unproject(screen, projection, Camera) = p

(* The determinant of MatrixDeterminant, which MatrixInvert computes in    *)
(* another way, is that of a rigid motion, and of a product it is the      *)
(* product.                                                                *)
VolumeKept ==
  /\ MatrixDeterminant(m) = Unit
  /\ \A projection \in Projections :
       MatrixDeterminant(MatrixMultiply(Camera, projection))
         = MatrixDeterminant(projection)

(* The Euler angles of QuaternionToEuler, in the order of MatrixRotateZYX, *)
(* turn the body's x axis to where the matrix of the body has it, also     *)
(* where that about y is a right angle and the other two tell nothing.     *)
(* Elsewhere they make the whole rotation they were taken from.            *)
EulerKeepsHeading ==
  LET euler == QuaternionToEuler(q)
      r     == MatrixRotateZYX(euler)
  IN  /\ \A i \in 0..2 : r[i] = m[i]
      /\ euler.y.cos # 0 => r = QuaternionToMatrix(q)
=============================================================================
