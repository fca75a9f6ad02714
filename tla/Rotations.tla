----------------------------- MODULE Rotations -----------------------------
(***************************************************************************)
(* The ways of raymath.h to make a rotation from angles or from an axis    *)
(* and an angle, each written out on its own: "required code is directly   *)
(* re-implemented inside".  A program chooses three angles and an axis and *)
(* changes one of them at a time.                                          *)
(***************************************************************************)
EXTENDS RayMath

CONSTANTS
  Fifths,   \* cosine and sine of the half angles, in fifths
  Axes      \* axes, in 25ths of 1.0f

(* The axis has a length, at most 2.0f, which divides it to 25ths again,   *)
(* and to fifths in a plane of coordinates.                                *)
Divisible(a) ==
  \E k \in 1..50 :
    /\ a[1] * a[1] + a[2] * a[2] + a[3] * a[3] = k * k
    /\ \A i \in 1..3 : (25 * a[i]) % k = 0
    /\ 0 \in {a[1], a[2], a[3]} => \A i \in 1..3 : (5 * a[i]) % k = 0

(* For the results to be exact and the initial state to be among the       *)
(* choices: half angles of 3-4-5 triangles, and such axes.                 *)
ASSUME RotationsAssumption ==
  /\ Unit % 15625 = 0 /\ <<5, 0>> \in Fifths /\ <<25, 0, 0>> \in Axes
  /\ Fifths \subseteq Int \X Int /\ Axes \subseteq Int \X Int \X Int
  /\ \A h \in Fifths : h[1] * h[1] + h[2] * h[2] = 25
  /\ \A a \in Axes : Divisible(a)

VARIABLES
  angle,   \* halves of the angles about x, y and z
  axis

rotationVars == <<angle, axis>>

HalfAngles == {[cos |-> h[1] * (Unit \div 5), sin |-> h[2] * (Unit \div 5)] : h \in Fifths}

AxesUsed == {Vector(a[1] * (Unit \div 25), a[2] * (Unit \div 25),
                    a[3] * (Unit \div 25)) : a \in Axes}

RotationsInit == /\ angle = [i \in {"x", "y", "z"} |-> [cos |-> Unit, sin |-> 0]]
                 /\ axis = Vector(Unit, 0, 0)

SetAngle(i, h) == angle' = [angle EXCEPT ![i] = h] /\ UNCHANGED axis

SetAxis(a) == axis' = a /\ UNCHANGED angle

RotationsNext == \/ \E i \in {"x", "y", "z"}, h \in HalfAngles : SetAngle(i, h)
                 \/ \E a \in AxesUsed : SetAxis(a)

RotationsSpec == RotationsInit /\ [][RotationsNext]_rotationVars

----------------------------------------------------------------------------
FullAngle == [x |-> Full(angle.x), y |-> Full(angle.y), z |-> Full(angle.z)]

Chain(a, b, c) == MatrixMultiply(MatrixMultiply(a, b), c)

(* MatrixRotateZYX turns about x first and z last, MatrixRotateXYZ about z *)
(* first and x last, QuaternionFromEuler is the first of the two, and      *)
(* QuaternionToEuler finds angles of the same rotation.                    *)
EulerAgree ==
  LET x == MatrixRotateX(FullAngle.x)
      y == MatrixRotateY(FullAngle.y)
      z == MatrixRotateZ(FullAngle.z)
      e == QuaternionFromEuler(angle.x, angle.y, angle.z)
      r == MatrixRotateZYX(FullAngle)
  IN  /\ r = Chain(x, y, z)
      /\ MatrixRotateXYZ(FullAngle) = Chain(z, y, x)
      /\ QuaternionToMatrix(e) = r
      /\ MatrixRotateZYX(QuaternionToEuler(e)) = r

Cardinal == {Vector(Unit, 0, 0), Vector(0, Unit, 0), Vector(0, 0, Unit)}

(* A matrix, a quaternion and a vector turned about the same axis by the   *)
(* same angle agree, whatever the length of the axis; and the quaternion   *)
(* of QuaternionFromVector3ToVector3 turns a vector onto what the rotation *)
(* has made of it, if that is not its opposite.                            *)
AxisAgree ==
  LET r == MatrixRotate(axis, FullAngle.x)
      e == QuaternionFromAxisAngle(axis, angle.x)
  IN  /\ r = QuaternionToMatrix(e)
      /\ \A v \in [x : {Unit}, y : {0, Unit}, z : {-Unit}] :
           Vector3RotateByAxisAngle(v, axis, angle.x) = Vector3Transform(v, r)
      /\ \A v \in Cardinal :
           LET to == Vector3RotateByQuaternion(v, e)
           IN  Dot(v, axis) = 0 /\ Dot(v, to) # -Unit =>
                 Vector3RotateByQuaternion(v, QuaternionFromVector3ToVector3(v, to)) = to
=============================================================================
